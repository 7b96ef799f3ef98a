--------------------------- MODULE MCWebRtcEngine ---------------------------
(***************************************************************************)
(* TLC instances of WebRtcEngine.  Two addresses are enough for each kind  *)
(* of object: make_unique allocates the new one while the old one lives,   *)
(* and the assignment then deletes the old one.                            *)
(***************************************************************************)
EXTENDS WebRtcEngine

Setting(full, faults) == [full |-> full, faults |-> faults]

(* The full build in an environment that disturbs nothing, and in one that *)
(* does everything at once; the build of this commit.                      *)
AllSettings == {
  Setting(TRUE, {"peerFails"}),
  Setting(TRUE, {"captureFails", "factoryFails", "serverCloses", "overlap"}),
  Setting(FALSE, {"captureFails"}) }

ServerCloses   == {Setting(TRUE, {"serverCloses"})}
CaptureRefused == {Setting(FALSE, {"captureFails"})}
=============================================================================
