-------------------------- MODULE SessionContract --------------------------
(***************************************************************************)
(* What a streaming session is to the program that calls onStart and       *)
(* onStop (native-lib.cpp): its parts begin in the order runtime, capture, *)
(* connection, stream, each while the one it stands on is there, and none  *)
(* outlives the one it stands on.                                          *)
(*                                                                         *)
(* WebRtcEngine implements this specification, with the five threads of a  *)
(* session, while nothing disturbs it.                                     *)
(***************************************************************************)
VARIABLES started,    \* is the runtime started?
          capturing,  \* does a thread use the microphone?
          linked,     \* does the runtime count as connected to the server?
          streaming   \* does a thread send telemetry to the peer?

sessionVars == <<started, capturing, linked, streaming>>

Init == /\ started = FALSE /\ capturing = FALSE
        /\ linked = FALSE /\ streaming = FALSE

(* onStart *)
Start == /\ ~started
         /\ started' = TRUE
         /\ UNCHANGED <<capturing, linked, streaming>>

(* init opens the microphone before it connects. *)
Capture == /\ started /\ ~capturing /\ ~linked
           /\ capturing' = TRUE
           /\ UNCHANGED <<started, linked, streaming>>

(* The signaling server is reached. *)
Link == /\ started /\ ~linked
        /\ linked' = TRUE
        /\ UNCHANGED <<started, capturing, streaming>>

(* The peers are connected, which they are through the server. *)
Publish == /\ linked /\ ~streaming
           /\ streaming' = TRUE
           /\ UNCHANGED <<started, capturing, linked>>

(* destroy stops the telemetry first, ... *)
Unpublish == /\ streaming
             /\ streaming' = FALSE
             /\ UNCHANGED <<started, capturing, linked>>

(* ... then the capture, which may also end of its own, ... *)
Uncapture == /\ capturing
             /\ capturing' = FALSE
             /\ UNCHANGED <<started, linked, streaming>>

(* ... then the connection, ... *)
Unlink == /\ linked /\ ~capturing /\ ~streaming
          /\ linked' = FALSE
          /\ UNCHANGED <<started, capturing, streaming>>

(* ... and onStop the runtime. *)
Stop == /\ started /\ ~capturing /\ ~linked /\ ~streaming
        /\ started' = FALSE
        /\ UNCHANGED <<capturing, linked, streaming>>

Next == \/ Start \/ Capture \/ Link \/ Publish
        \/ Unpublish \/ Uncapture \/ Unlink \/ Stop

Spec == Init /\ [][Next]_sessionVars
=============================================================================
