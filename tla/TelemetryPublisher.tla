------------------------- MODULE TelemetryPublisher -------------------------
(***************************************************************************)
(* The periodic telemetry: class TelemetryPublisher.  WebRtcEngine starts  *)
(* it from the signaling thread of WebRTC, when the peer connection is up, *)
(* and stops and destroys it from the UI thread; the publish thread runs   *)
(* publishLoop, which hands each payload to m_send_fn.                     *)
(*                                                                         *)
(* A module for composition: see WebRtcEngine.                             *)
(***************************************************************************)
VARIABLE telemetry
  \* running:  m_running
  \* joinable: m_thread.joinable()
  \* loop:     next statement of the publish thread; "check" and "send" are
  \*           the two statements of m_send_fn

Fresh == [running |-> FALSE, joinable |-> FALSE, loop |-> "none"]

TypeOK == telemetry \in [running : BOOLEAN, joinable : BOOLEAN,
                         loop : {"none", "while", "check", "send", "done"}]

Init == telemetry = Fresh

-----------------------------------------------------------------------------
(* start(): if (m_running.exchange(true)) return; ... *)
StartFlag == telemetry' = [telemetry EXCEPT !.running = TRUE]

(* ... m_thread = std::thread(publishLoop), which ends the process when    *)
(* m_thread is joinable already.                                           *)
StartThread == telemetry' = [telemetry EXCEPT !.joinable = TRUE,
                                              !.loop = "while"]
StartTerminates == telemetry.joinable

(* stop(): if (!m_running.exchange(false)) return; ... *)
StopFlag == telemetry' = [telemetry EXCEPT !.running = FALSE]

(* Mutant: stop() does not wait for the publish thread. *)
Bug_DetachedPublisher == telemetry' = [telemetry EXCEPT !.joinable = FALSE]

(* ... if joinable, join. *)
Join == /\ telemetry.joinable => telemetry.loop = "done"
        /\ telemetry' = [telemetry EXCEPT !.joinable = FALSE]

(* The destructor calls stop() and then destroys m_thread. *)
DeleteTerminates == telemetry.joinable

New == telemetry' = Fresh

-----------------------------------------------------------------------------
(* The publish thread. *)

Move(from, to) == /\ telemetry.loop = from
                  /\ telemetry' = [telemetry EXCEPT !.loop = to]

(* while (m_running.load()), build a payload and call m_send_fn. *)
WhileTest == Move("while", IF telemetry.running THEN "check" ELSE "done")
=============================================================================
