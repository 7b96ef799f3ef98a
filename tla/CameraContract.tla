--------------------------- MODULE CameraContract ---------------------------
(***************************************************************************)
(* What the camera preview is to the activity that drives it through       *)
(* setSurface, releaseSurface, flipCamera and onStop (native-lib.cpp).     *)
(* The contract says what each call leaves when it returns: an open camera *)
(* after setSurface and flipCamera, a closed one after releaseSurface and  *)
(* onStop; and that a setSurface called with a camera open does not return *)
(* at all.                                                                 *)
(*                                                                         *)
(* CVManager implements this specification, statement by statement;        *)
(* MainActivity uses what the calls leave in place of CVManager.           *)
(***************************************************************************)
VARIABLES shown,   \* is a surface on the screen?
          camera,  \* is a camera device open?
          call     \* the call under way, "hung" for one that never returns

contractVars == <<shown, camera, call>>

Init == /\ shown = FALSE
        /\ camera = FALSE
        /\ call = "none"

-----------------------------------------------------------------------------
(* What a call leaves. *)

(* setSurface, flipCamera *)
LeavesOpen == /\ camera' = TRUE
              /\ UNCHANGED shown

(* releaseSurface, after which the framework drops the surface. *)
LeavesReleased == /\ camera' = FALSE
                  /\ shown' = FALSE

(* onStop *)
LeavesClosed == /\ camera' = FALSE
                /\ UNCHANGED shown

-----------------------------------------------------------------------------
(* The framework makes one call at a time; setSurface for a surface that   *)
(* may be new, releaseSurface for a surface that is shown.                 *)
Call == /\ call = "none"
        /\ UNCHANGED camera
        /\ \/ /\ call' = IF camera THEN "hung" ELSE "setSurface"
              /\ shown' = TRUE
           \/ /\ shown /\ call' = "releaseSurface"
              /\ UNCHANGED shown
           \/ /\ camera /\ call' = "flipCamera"
              /\ UNCHANGED shown
           \/ /\ call' = "onStop"
              /\ UNCHANGED shown

(* setSurface opens the device before it returns. *)
Open == /\ call = "setSurface"
        /\ LeavesOpen
        /\ UNCHANGED call

Return == /\ call' = "none"
          /\ \/ call \in {"setSurface", "flipCamera"} /\ camera /\ LeavesOpen
             \/ call = "releaseSurface" /\ LeavesReleased
             \/ call = "onStop" /\ LeavesClosed

Next == Call \/ Open \/ Return

Spec == Init /\ [][Next]_contractVars
=============================================================================
