---------------------------- MODULE MCJsonProtocol ----------------------------
(***************************************************************************)
(* TLC instances of JsonProtocol.  The values hold every special token,    *)
(* alone, in a row and before a letter that could be taken for an escape;  *)
(* colons; and the keys the code looks for.  A candidate is empty at the   *)
(* end of the gathering, and otherwise begins with "candidate:"; no media  *)
(* identifier is the name of a key.                                        *)
(***************************************************************************)
EXTENDS JsonProtocol

AllTokens == STRING

MCSdps == {<<>>, <<"v=0", "\r", "\n", "a=setup", ":", "actpass">>,
           <<Q, "type", Q, ":", Q>>, <<BS, "n", "\t">>, <<BS, BS, Q>>,
           <<"sdp">>, <<"type">>}
MCCandidates == {<<>>, <<"candidate", ":", "1", " ", "udp">>,
                 <<"candidate", ":", Q, "sdpMid", Q, BS>>}
MCMids == {<<>>, <<"0">>, <<"video", ":", BS>>}
MCIndexes == {0, 1}

AllOrders == {o \in [1..4 -> IceKeys] : \A i, j \in 1..4 : o[i] = o[j] => i = j}

KnownOrders == {o \in AllOrders : Known(o)}
=============================================================================
