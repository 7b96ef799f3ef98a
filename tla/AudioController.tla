--------------------------- MODULE AudioController ---------------------------
(***************************************************************************)
(* The microphone capture: class AudioController.  The thread that owns    *)
(* the object starts, stops and destroys it; a capture thread, one per     *)
(* start, runs captureLoop.                                                *)
(*                                                                         *)
(* A module for composition: it describes what each operation does to      *)
(* `audio`, and WebRtcEngine says when the operations run.                 *)
(***************************************************************************)
VARIABLE audio
  \* running:  m_running
  \* joinable: m_capture_thread.joinable()
  \* loop:     next statement of the capture thread
  \* opensl:   OpenSL ES objects that are not destroyed yet

Fresh == [running |-> FALSE, joinable |-> FALSE, loop |-> "none", opensl |-> {}]

TypeOK ==
  audio \in [running : BOOLEAN, joinable : BOOLEAN,
             loop : {"none", "createEngine", "createRecorder", "poll",
                     "cleanUp", "clear", "done"},
             opensl : SUBSET {"engine", "recorder"}]

Init == audio = Fresh

-----------------------------------------------------------------------------
(* Operations of the owner.                                                *)

(* A new AudioController, and start() on it: the object is known to no     *)
(* other thread until its capture thread begins, so both are one step.     *)
NewAndStart == audio' = [running |-> TRUE, joinable |-> TRUE,
                         loop |-> "createEngine", opensl |-> {}]

(* Mutant: stop() joins without telling the loop to end. *)
Bug_FlagKept == UNCHANGED audio

(* stop(): if (!m_running.exchange(false)) return; ... *)
Stop == audio' = [audio EXCEPT !.running = FALSE]

(* Mutant: stop() does not wait for the capture thread. *)
Bug_DetachedCapture == audio' = [audio EXCEPT !.joinable = FALSE]

(* ... if joinable, join. *)
Join == /\ audio.joinable => audio.loop = "done"
        /\ audio' = [audio EXCEPT !.joinable = FALSE]

(* The destructor calls stop() and then destroys m_capture_thread, which   *)
(* ends the process when the thread is still joinable.                     *)
DeleteTerminates == audio.joinable

-----------------------------------------------------------------------------
(* The capture thread: captureLoop.                                        *)

Move(from, to) == audio.loop = from /\ audio' = [audio EXCEPT !.loop = to]

(* slCreateEngine succeeds. *)
CreateEngine ==
  /\ audio.loop = "createEngine"
  /\ audio' = [audio EXCEPT !.loop = "createRecorder", !.opensl = {"engine"}]

(* slCreateEngine fails: m_running = false comes next. *)
NoEngine == Move("createEngine", "clear")

(* CreateAudioRecorder succeeds, and the recording begins. *)
CreateRecorder ==
  /\ audio.loop = "createRecorder"
  /\ audio' = [audio EXCEPT !.loop = "poll", !.opensl = @ \cup {"recorder"}]

(* Mutant: the engine object is forgotten when there is no recorder. *)
Bug_EngineLeaks == Move("createRecorder", "clear")

(* CreateAudioRecorder fails: the engine object is destroyed. *)
NoRecorder ==
  /\ audio.loop = "createRecorder"
  /\ audio' = [audio EXCEPT !.loop = "clear", !.opensl = @ \ {"engine"}]

(* while (m_running.load()) sleep: the loop is left when stop() has begun. *)
Poll == /\ ~audio.running
        /\ Move("poll", "cleanUp")

(* Stop recording, destroy the recorder and then the engine. *)
CleanUp == /\ audio.loop = "cleanUp"
           /\ audio' = [audio EXCEPT !.loop = "done", !.opensl = {}]

(* After a failure: m_running = false; return. *)
ClearRunning ==
  /\ audio.loop = "clear"
  /\ audio' = [audio EXCEPT !.loop = "done", !.running = FALSE]

CaptureLoop == \/ CreateEngine \/ CreateRecorder
               \/ Poll \/ CleanUp \/ ClearRunning

(* OpenSL ES refuses. *)
Refused == NoEngine \/ NoRecorder
=============================================================================
