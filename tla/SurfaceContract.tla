--------------------------- MODULE SurfaceContract ---------------------------
(***************************************************************************)
(* What the Android view system asks of an application that draws on a     *)
(* SurfaceView from a thread of its own (the SurfaceHolder callbacks of    *)
(* MainActivity, lines 121-139): the application may draw only on the      *)
(* surface it was last given, and once surfaceDestroyed has returned       *)
(* nothing may be drawing on that surface any more.                        *)
(*                                                                         *)
(* This is the abstract specification that CVManager implements.           *)
(***************************************************************************)
CONSTANTS Windows,  \* the native windows of the surfaces shown so far
          NONE      \* no window

VARIABLES surface,  \* the window of the surface on the screen, or NONE
          drawing   \* the window whose buffer a thread has locked, or NONE

contractVars == <<surface, drawing>>

Init == /\ surface = NONE
        /\ drawing = NONE

(* surfaceCreated, and the first surfaceChanged: a window appears. *)
Appear == /\ surface = NONE
          /\ surface' \in Windows
          /\ UNCHANGED drawing

(* surfaceDestroyed returns: nothing draws on the window any more. *)
Vanish == /\ surface # NONE
          /\ drawing = NONE
          /\ surface' = NONE
          /\ UNCHANGED drawing

(* A frame is begun on the window of the screen, and on no other. *)
BeginFrame == /\ surface # NONE
              /\ drawing = NONE
              /\ drawing' = surface
              /\ UNCHANGED surface

EndFrame == /\ drawing # NONE
            /\ drawing' = NONE
            /\ UNCHANGED surface

Next == Appear \/ Vanish \/ BeginFrame \/ EndFrame

Spec == Init /\ [][Next]_contractVars
=============================================================================
