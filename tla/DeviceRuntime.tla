---------------------------- MODULE DeviceRuntime ----------------------------
(***************************************************************************)
(* The singleton DeviceRuntime: whether the runtime is started, and        *)
(* whether the device is connected to the signaling server.  It is started *)
(* and stopped by the UI thread (native-lib.cpp), and told of connections  *)
(* by whichever thread runs the callbacks of SignalingClient.  The session *)
(* identifier that start() draws is left out.                              *)
(***************************************************************************)
VARIABLE runtime  \* [running, connected]

TypeOK == runtime \in [running : BOOLEAN, connected : BOOLEAN]

Init == runtime = [running |-> FALSE, connected |-> FALSE]

(* start(), which a started runtime ignores. *)
Start == runtime' = [runtime EXCEPT !.running = TRUE]

(* stop(), which a stopped runtime ignores. *)
Stop == runtime' = IF runtime.running
                   THEN [running |-> FALSE, connected |-> FALSE]
                   ELSE runtime

(* setConnected(v), which does not ask whether the runtime is started. *)
SetConnected(v) == runtime' = [runtime EXCEPT !.connected = v]
=============================================================================
