----------------------------- MODULE MCCVManager -----------------------------
(***************************************************************************)
(* TLC instances of CVManager.  Two windows are enough: the code keeps one *)
(* reference, m_native_window, so a new surface differs at most from that  *)
(* one.  Two cameras and two readers are enough: a delete precedes every   *)
(* allocation but those of a setSurface that finds a camera open, and that *)
(* is the last call the UI thread makes.                                   *)
(***************************************************************************)
EXTENDS CVManager
=============================================================================
