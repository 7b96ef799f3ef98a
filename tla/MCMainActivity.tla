--------------------------- MODULE MCMainActivity ---------------------------
(***************************************************************************)
(* TLC instances of MainActivity.  Two fixes are the least for a payload   *)
(* to mix them.  A battery level is reported exactly (10 of 50, and a      *)
(* full battery in the largest scale), one too low (53 of 100), or as      *)
(* unknown (a scale of 0); all other levels, and texts of the lengths      *)
(* base64url tells apart, are checked at the start.                        *)
(***************************************************************************)
EXTENDS MainActivity

MCKeyAlias == <<107, 101, 255, 0>>
MCBroadcasts == {[level |-> 10, scale |-> 50], [level |-> 53, scale |-> 100],
                 [level |-> 127, scale |-> 127], [level |-> 50, scale |-> 0]}

(* Every level of every scale a device may count in. *)
ASSUME PercentClose ==
  \A scale \in 1..127 : \A level \in 0..scale :
    LET p == Percent(level, scale)
    IN  p \in 0..100 /\ p * scale <= 100 * level
                     /\ 100 * level <= (p + 1) * scale

ASSUME PercentsBelow ==
  {level \in 0..100 : Percent(level, 100) # level} = {53, 59}

ASSUME DecodeInverts ==
  \A n \in 0..4 : \A data \in [1..n -> {0, 63, 170, 255}] :
    Auth!Decode(Auth!base64url(data)) = data
=============================================================================
