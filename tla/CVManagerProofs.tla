--------------------------- MODULE CVManagerProofs ---------------------------
(***************************************************************************)
(* Proofs about CVManager, for every set of windows, cameras and readers   *)
(* and every number of images.  The inductive invariant IInv says what     *)
(* each thread knows at each statement: which pointers are set, which      *)
(* window they belong to, and that the camera thread is gone wherever the  *)
(* UI thread deletes its objects.                                          *)
(***************************************************************************)
EXTENDS CVManager, TLAPS

(* The UI thread is between a join and the next start of the loop. *)
LoopIsGone ==
  ui \in {"deleteReader", "deleteCamera", "toggle", "spawn"} => cam = "none"

(* CameraLoop holds an image, a locked buffer, a reader it has tested,     *)
(* exactly at these statements.                                            *)
LoopHolds ==
  /\ (image # NONE) <=> (cam \in {"lock", "display"})
  /\ (held # NONE) <=> (cam \in {"display", "wrap", "post"})
  /\ cam \in {"acquire", "lock", "display"} => m_image_reader # NONE

(* The pointers to the camera and the reader, and the image, are never     *)
(* dangling.                                                               *)
PointersLive ==
  /\ m_native_camera # NONE => m_native_camera \in liveCameras
  /\ m_image_reader # NONE => m_image_reader \in liveReaders
  /\ image # NONE => image \in liveReaders

(* A camera is there from its allocation until TearDownCamera, and while   *)
(* the loop runs.                                                          *)
CameraIsThere ==
  /\ ui \in {"newReader", "setRotation", "createSession", "setUpTCP",
             "clearStopped", "joinOld", "spawn"} => m_native_camera # NONE
  /\ cam \notin {"none", "done"} => m_native_camera # NONE

(* Wherever the code relies on m_native_window, it is the window shown. *)
WindowKnown ==
  /\ m_native_camera # NONE => surface # NONE /\ m_native_window = surface
  /\ ui = "setWindow" => surface # NONE
  /\ ui \in {"openCamera", "toggle"} \/ call = "flipCamera"
       => surface # NONE /\ m_native_window = surface
  /\ held # NONE => held = surface

IInv == /\ TypeOK
        /\ LoopIsGone
        /\ LoopHolds
        /\ PointersLive
        /\ CameraIsThere
        /\ WindowKnown
        /\ ImageBudget

-----------------------------------------------------------------------------
LEMMA Initially == Init => IInv
<1> SUFFICES ASSUME Init PROVE IInv
  OBVIOUS
<1>1. TypeOK
  <2>1. m_camera_ready \in BOOLEAN /\ m_camera_thread_stopped \in BOOLEAN
        /\ resumed \in BOOLEAN /\ overrun \in BOOLEAN
    BY Zenon DEF Init
  <2>2. acquired \in [Readers -> 0..MaxImages]
    BY ImagesAssumption DEF Init
  <2> QED
    BY <2>1, <2>2
    DEF Init, TypeOK, CameraTypes, Calls, UILabels, CamLabels
<1>2. LoopIsGone /\ LoopHolds /\ PointersLive /\ CameraIsThere /\ WindowKnown
  BY DEF Init, LoopIsGone, LoopHolds, PointersLive, CameraIsThere, WindowKnown
<1>3. ImageBudget
  BY DEF Init, ImageBudget
<1> QED
  BY <1>1, <1>2, <1>3 DEF IInv

LEMMA FrameworkStep == ASSUME IInv, Framework PROVE IInv'
<1> USE NoneAssumption, ImagesAssumption
        DEF IInv, TypeOK, LoopIsGone, LoopHolds, PointersLive, CameraIsThere,
            WindowKnown, ImageBudget, CameraTypes, Calls, UILabels, CamLabels,
            members, heap, android, locals, Enter
<1>1. CASE SurfaceChanged
  <2>1. TypeOK'
    <3>1. overrun' \in BOOLEAN
      BY <1>1, Zenon DEF SurfaceChanged
    <3> QED
      BY <1>1, <3>1 DEF SurfaceChanged
  <2>2. (LoopIsGone /\ LoopHolds /\ PointersLive)'
    BY <1>1 DEF SurfaceChanged
  <2>3. (CameraIsThere /\ WindowKnown)'
    BY <1>1 DEF SurfaceChanged
  <2>4. ImageBudget'
    BY <1>1 DEF SurfaceChanged
  <2> QED
    BY <2>1, <2>2, <2>3, <2>4
<1>2. CASE SurfaceDestroyed
  BY <1>2 DEF SurfaceDestroyed
<1>3. CASE Pause
  <2>1. TypeOK'
    <3>1. resumed' \in BOOLEAN
      BY <1>3, Zenon DEF Pause
    <3> QED
      BY <1>3, <3>1 DEF Pause
  <2>2. (LoopIsGone /\ LoopHolds /\ PointersLive)'
    BY <1>3 DEF Pause
  <2>3. (CameraIsThere /\ WindowKnown)'
    BY <1>3 DEF Pause
  <2>4. ImageBudget'
    BY <1>3 DEF Pause
  <2> QED
    BY <2>1, <2>2, <2>3, <2>4
<1>4. CASE Resume
  BY <1>4 DEF Resume
<1>5. CASE FlipCamera
  BY <1>5 DEF FlipCamera
<1> QED
  BY <1>1, <1>2, <1>3, <1>4, <1>5 DEF Framework

LEMMA UIThreadStep == ASSUME IInv, UIThread PROVE IInv'
<1> USE NoneAssumption, ImagesAssumption
        DEF IInv, TypeOK, LoopIsGone, LoopHolds, PointersLive, CameraIsThere,
            WindowKnown, ImageBudget, CameraTypes, Calls, UILabels, CamLabels,
            members, heap, android, locals, Goto, Return, Joined, Orientation
<1>1. CASE SetNativeWindow
  BY <1>1 DEF SetNativeWindow
<1>2. CASE OpenCamera
  BY <1>2 DEF OpenCamera
<1>3. CASE NewReader
  BY <1>3 DEF NewReader
<1>4. CASE SetRotation
  <2>1. TypeOK'
    <3>1. rotation' \in [Readers -> {0, 90, 270}]
      BY <1>4 DEF SetRotation
    <3> QED
      BY <1>4, <3>1 DEF SetRotation
  <2>2. (LoopIsGone /\ LoopHolds /\ PointersLive)'
    BY <1>4 DEF SetRotation
  <2>3. (CameraIsThere /\ WindowKnown)'
    BY <1>4 DEF SetRotation
  <2>4. ImageBudget'
    BY <1>4 DEF SetRotation
  <2> QED
    BY <2>1, <2>2, <2>3, <2>4
<1>5. CASE CreateCaptureSession
  BY <1>5 DEF CreateCaptureSession
<1>6. CASE SetUpTCP
  BY <1>6 DEF SetUpTCP
<1>7. CASE ClearStopped
  <2>1. TypeOK'
    <3>1. m_camera_thread_stopped' \in BOOLEAN
      BY <1>7, Zenon DEF ClearStopped
    <3> QED
      BY <1>7, <3>1 DEF ClearStopped
  <2>2. (LoopIsGone /\ LoopHolds /\ PointersLive)'
    BY <1>7 DEF ClearStopped
  <2>3. (CameraIsThere /\ WindowKnown)'
    BY <1>7 DEF ClearStopped
  <2>4. ImageBudget'
    BY <1>7 DEF ClearStopped
  <2> QED
    BY <2>1, <2>2, <2>3, <2>4
<1>8. CASE JoinOld
  BY <1>8 DEF JoinOld
<1>9. CASE Spawn
  BY <1>9 DEF Spawn
<1>10. CASE SetStopped
  BY <1>10 DEF SetStopped
<1>11. CASE ClearReady
  <2>1. TypeOK'
    <3>1. m_camera_ready' \in BOOLEAN
      BY <1>11, Zenon DEF ClearReady
    <3> QED
      BY <1>11, <3>1 DEF ClearReady
  <2>2. (LoopIsGone /\ LoopHolds /\ PointersLive)'
    BY <1>11 DEF ClearReady
  <2>3. (CameraIsThere /\ WindowKnown)'
    BY <1>11 DEF ClearReady
  <2>4. ImageBudget'
    BY <1>11 DEF ClearReady
  <2> QED
    BY <2>1, <2>2, <2>3, <2>4
<1>12. CASE Join
  BY <1>12 DEF Join
<1>13. CASE DeleteReader
  BY <1>13 DEF DeleteReader
<1>14. CASE DeleteCamera
  BY <1>14 DEF DeleteCamera
<1>15. CASE Toggle
  BY <1>15 DEF Toggle
<1> QED
  BY <1>1, <1>2, <1>3, <1>4, <1>5, <1>6, <1>7, <1>8, <1>9, <1>10, <1>11, <1>12, <1>13, <1>14, <1>15 DEF UIThread, SetUpCamera, StartCameraLoop, StopCameraLoop,
    TearDownCamera

LEMMA CameraLoopStep == ASSUME IInv, CameraLoop PROVE IInv'
<1> USE NoneAssumption, ImagesAssumption
        DEF IInv, TypeOK, LoopIsGone, LoopHolds, PointersLive, CameraIsThere,
            WindowKnown, ImageBudget, CameraTypes, Calls, UILabels, CamLabels,
            members, heap, android, locals, Move, DeleteImage, ImageReady
<1>1. CASE WhileTest
  BY <1>1 DEF WhileTest
<1>2. CASE ReadyTest
  BY <1>2 DEF ReadyTest
<1>3. CASE GetLatestImage
  BY <1>3 DEF GetLatestImage
<1>4. CASE NoImage
  BY <1>4 DEF NoImage
<1>5. CASE LockWindow
  BY <1>5 DEF LockWindow
<1>6. CASE LockFails
  BY <1>6 DEF LockFails
<1>7. CASE DisplayImage
  BY <1>7 DEF DisplayImage
<1>8. CASE WrapMat
  BY <1>8 DEF WrapMat
<1>9. CASE UnlockAndPost
  BY <1>9 DEF UnlockAndPost
<1>10. CASE ReleaseMats
  BY <1>10 DEF ReleaseMats
<1> QED
  BY <1>1, <1>2, <1>3, <1>4, <1>5, <1>6, <1>7, <1>8, <1>9, <1>10 DEF CameraLoop

(* The inductive invariant holds throughout. *)
THEOREM Invariance == Spec => []IInv
<1>1. IInv /\ [Next]_vars => IInv'
  <2> SUFFICES ASSUME IInv, [Next]_vars PROVE IInv'
    OBVIOUS
  <2>1. CASE Next
    BY <2>1, FrameworkStep, UIThreadStep, CameraLoopStep DEF Next
  <2>2. CASE UNCHANGED vars
    BY <2>2 DEF vars, members, heap, android, locals, IInv, TypeOK, LoopIsGone,
                LoopHolds, PointersLive, CameraIsThere, WindowKnown, ImageBudget
  <2> QED
    BY <2>1, <2>2
<1> QED
  BY Initially, <1>1, PTL DEF Spec

(* Every variable keeps its type: in particular no more images of a reader *)
(* are out than MAX_BUF_COUNT, and none is deleted twice.                  *)
THEOREM Typing == Spec => []TypeOK
  BY Invariance, PTL DEF IInv

(* The camera thread works with no deleted Image_Reader and no image of    *)
(* one (CV_Manager.cpp:67-79), even if surfaceChanged is repeated.         *)
THEOREM ReaderStaysLive == Spec => []ReaderLive
<1>1. IInv => ReaderLive
  BY DEF IInv, LoopHolds, PointersLive, ReaderLive
<1> QED
  BY Invariance, <1>1, PTL

(* Each path through CameraLoop returns the image it acquired. *)
THEOREM ImagesReturned == Spec => []ImageBudget
  BY Invariance, PTL DEF IInv

-----------------------------------------------------------------------------
(* The window a set-up works with is the one shown. *)
THEOREM SetUpOnWindowShown == Spec => []WindowIsShown
<1>1. IInv => WindowIsShown
  BY DEF IInv, CameraIsThere, WindowKnown, WindowIsShown
<1> QED
  BY Invariance, <1>1, PTL

(* CVManager implements SurfaceContract: every step is a step of it, with  *)
(* the locked buffer as what is drawn on, or leaves both alone.            *)
THEOREM Refinement == Spec => SurfaceRespected
<1>1. Init => Contract!Init
  BY DEF Init, Contract!Init
<1>2. ASSUME IInv, [Next]_vars PROVE [Contract!Next]_(Contract!contractVars)
  <2> USE NoneAssumption DEF Contract!contractVars
  <2>1. CASE SurfaceChanged
    BY <2>1 DEF SurfaceChanged, Enter, locals, Contract!Next, Contract!Appear
  <2>2. CASE LockWindow
    <3>1. surface # NONE /\ m_native_window = surface /\ held = NONE
      BY <1>2, <2>2 DEF LockWindow, Move, IInv, LoopHolds, CameraIsThere, WindowKnown
    <3> QED
      BY <2>2, <3>1 DEF LockWindow, android, Contract!Next, Contract!BeginFrame
  <2>3. CASE UnlockAndPost
    <3>1. held # NONE
      BY <1>2, <2>3 DEF UnlockAndPost, Move, IInv, LoopHolds
    <3> QED
      BY <2>3, <3>1 DEF UnlockAndPost, android, Contract!Next, Contract!EndFrame
  <2>4. CASE DeleteCamera
    <3>1. held = NONE
      BY <1>2, <2>4 DEF DeleteCamera, Goto, Return, IInv, LoopIsGone, LoopHolds
    <3> QED
      BY <2>4, <3>1 DEF DeleteCamera, locals, Contract!Next, Contract!Vanish
  <2>5. CASE UNCHANGED vars
    BY <2>5 DEF vars, android, locals
  <2>6. CASE SurfaceDestroyed \/ Pause \/ Resume \/ FlipCamera
    BY <2>6 DEF SurfaceDestroyed, Pause, Resume, FlipCamera, Enter, android, locals
  <2>7. CASE SetNativeWindow \/ SetUpCamera \/ SetUpTCP
    BY <2>7 DEF SetNativeWindow, SetUpCamera, OpenCamera, NewReader, SetRotation,
                CreateCaptureSession, SetUpTCP, android, locals
  <2>8. CASE StartCameraLoop \/ StopCameraLoop \/ DeleteReader \/ Toggle
    BY <2>8 DEF StartCameraLoop, ClearStopped, JoinOld, Spawn, StopCameraLoop,
                SetStopped, ClearReady, Join, DeleteReader, Toggle, android, locals
  <2>9. CASE \/ WhileTest \/ ReadyTest \/ GetLatestImage \/ NoImage \/ LockFails
             \/ DisplayImage \/ WrapMat \/ ReleaseMats
    BY <2>9 DEF WhileTest, ReadyTest, GetLatestImage, NoImage, LockFails,
                DisplayImage, WrapMat, ReleaseMats, android, locals
  <2> QED
    BY <1>2, <2>1, <2>2, <2>3, <2>4, <2>5, <2>6, <2>7, <2>8, <2>9
    DEF Next, Framework, UIThread, TearDownCamera, CameraLoop
<1> QED
  BY Invariance, <1>1, <1>2, PTL DEF Spec, SurfaceRespected, Contract!Spec

-----------------------------------------------------------------------------
(* While no setSurface has found a camera open, each set-up begins after a *)
(* complete tear-down.                                                     *)
CleanStart ==
  /\ m_image_reader # NONE => m_native_camera # NONE
  /\ ui \in {"setWindow", "openCamera", "toggle"} => m_native_camera = NONE
  /\ ui \in {"newReader", "deleteCamera"} => m_image_reader = NONE
  /\ ui \in {"setRotation", "createSession"} => m_image_reader # NONE

(* A session writes to a reader that has its camera's rotation already. *)
RotationSet ==
  /\ ui \in {"newReader", "setRotation"} => \A c \in liveCameras : session[c] = NONE
  /\ ui = "createSession" => rotation[m_image_reader] = Orientation(facing[m_native_camera])
  /\ \A c \in liveCameras :
       session[c] # NONE => rotation[session[c]] = Orientation(facing[c])

SInv == ~overrun => NoOrphan /\ CleanStart /\ RotationSet

LEMMA FrameworkKeepsSInv == ASSUME IInv, SInv, Framework PROVE SInv'
<1> USE NoneAssumption
        DEF IInv, TypeOK, WindowKnown, SInv, NoOrphan, CleanStart, RotationSet,
            members, heap, android, locals, Enter
<1>1. CASE SurfaceChanged
  BY <1>1 DEF SurfaceChanged
<1>2. CASE SurfaceDestroyed
  BY <1>2 DEF SurfaceDestroyed
<1>3. CASE Pause
  BY <1>3 DEF Pause
<1>4. CASE Resume
  BY <1>4 DEF Resume
<1>5. CASE FlipCamera
  BY <1>5 DEF FlipCamera
<1> QED
  BY <1>1, <1>2, <1>3, <1>4, <1>5 DEF Framework

LEMMA UIThreadKeepsSInv == ASSUME IInv, SInv, UIThread PROVE SInv'
<1> USE NoneAssumption
        DEF IInv, TypeOK, WindowKnown, CameraIsThere, SInv, NoOrphan, CleanStart, RotationSet,
            members, heap, android, locals, Goto, Return, Joined
<1>1. CASE SetNativeWindow
  BY <1>1 DEF SetNativeWindow
<1>2. CASE OpenCamera
  BY <1>2 DEF OpenCamera
<1>3. CASE NewReader
  BY <1>3 DEF NewReader
<1>4. CASE SetRotation
  BY <1>4 DEF SetRotation
<1>5. CASE CreateCaptureSession
  BY <1>5 DEF CreateCaptureSession
<1>6. CASE SetUpTCP
  BY <1>6 DEF SetUpTCP
<1>7. CASE ClearStopped
  BY <1>7 DEF ClearStopped
<1>8. CASE JoinOld
  BY <1>8 DEF JoinOld
<1>9. CASE Spawn
  BY <1>9 DEF Spawn
<1>10. CASE SetStopped
  BY <1>10 DEF SetStopped
<1>11. CASE ClearReady
  BY <1>11 DEF ClearReady
<1>12. CASE Join
  BY <1>12 DEF Join
<1>13. CASE DeleteReader
  BY <1>13 DEF DeleteReader
<1>14. CASE DeleteCamera
  BY <1>14 DEF DeleteCamera
<1>15. CASE Toggle
  BY <1>15 DEF Toggle
<1> QED
  BY <1>1, <1>2, <1>3, <1>4, <1>5, <1>6, <1>7, <1>8, <1>9, <1>10, <1>11, <1>12, <1>13, <1>14, <1>15 DEF UIThread, SetUpCamera, StartCameraLoop, StopCameraLoop,
    TearDownCamera

LEMMA SInvStep == IInv /\ SInv /\ [Next]_vars => SInv'
<1> SUFFICES ASSUME IInv, SInv, [Next]_vars PROVE SInv'
  OBVIOUS
<1>1. CASE CameraLoop
  BY <1>1 DEF SInv, NoOrphan, CleanStart, RotationSet, members, heap, CameraLoop,
     WhileTest, ReadyTest, GetLatestImage, NoImage, LockWindow, LockFails,
     DisplayImage, WrapMat, UnlockAndPost, ReleaseMats, android
<1>2. CASE UNCHANGED vars
  BY <1>2 DEF SInv, NoOrphan, CleanStart, RotationSet, vars, members, heap,
              android
<1> QED
  BY <1>1, <1>2, FrameworkKeepsSInv, UIThreadKeepsSInv DEF Next

LEMMA SInvariance == Spec => []SInv
<1>1. Init => SInv
  BY DEF Init, SInv, NoOrphan, CleanStart, RotationSet
<1> QED
  BY Invariance, SInvStep, <1>1, PTL DEF Spec

(* Until setSurface finds a camera open, no camera or reader is lost       *)
(* (CV_Manager.cpp:25-44).                                                 *)
THEOREM NoObjectLost == Spec => []NoOrphan
<1>1. SInv => NoOrphan
  BY DEF SInv, NoOrphan
<1> QED
  BY SInvariance, <1>1, PTL

(* Until then each frame is turned by the orientation of the camera it     *)
(* comes from: a session starts with a reader that has the rotation of its *)
(* camera, and the reader displayed is the one of the session.             *)
THEOREM FramesAreUpright == Spec => []FrameUpright
<1>1. IInv /\ SInv => FrameUpright
  BY NoneAssumption
  DEF IInv, SInv, LoopHolds, PointersLive, NoOrphan, RotationSet, FrameUpright
<1> QED
  BY Invariance, SInvariance, <1>1, PTL

-----------------------------------------------------------------------------
(* What the refinement to CameraContract rests on: a camera left open has  *)
(* its loop running, so a setSurface that finds one never gets past the    *)
(* join of StartCameraLoop.                                                *)
LastCall ==
  /\ call = "none" <=> ui = "idle"
  /\ call = "releaseSurface" => surface # NONE
  /\ ui \in {"openCamera", "newReader", "setRotation", "createSession",
             "setUpTCP", "clearStopped", "joinOld", "spawn"}
       => call \in {"setSurface", "flipCamera"}
  /\ ui \in {"setWindow", "setUpTCP"} => call = "setSurface"
  /\ ui = "toggle" => call = "flipCamera"
  /\ ui \in {"setStopped", "clearReady", "join", "deleteReader", "deleteCamera"}
       => call \in {"releaseSurface", "flipCamera", "onStop"}
  /\ ui \in {"joinOld", "spawn"} => m_camera_thread_stopped = FALSE
  /\ call = "none" /\ m_native_camera # NONE
       => m_camera_thread_stopped = FALSE /\ ~Joined
  /\ overrun => /\ m_camera_thread_stopped = FALSE /\ ~Joined
                /\ call = "setSurface" /\ liveCameras # {}
                /\ ui \in {"setWindow", "openCamera", "newReader", "setRotation",
                           "createSession", "setUpTCP", "clearStopped", "joinOld"}

LEMMA FrameworkKeepsLastCall == ASSUME IInv, LastCall, Framework PROVE LastCall'
<1> USE DEF LastCall, Joined, members, heap, android, locals, Enter
<1>1. CASE SurfaceChanged
  BY <1>1, NoneAssumption DEF SurfaceChanged, IInv, PointersLive
<1>2. CASE SurfaceDestroyed
  BY <1>2 DEF SurfaceDestroyed
<1>3. CASE Pause
  BY <1>3 DEF Pause
<1>4. CASE Resume
  BY <1>4 DEF Resume
<1>5. CASE FlipCamera
  BY <1>5 DEF FlipCamera
<1> QED
  BY <1>1, <1>2, <1>3, <1>4, <1>5 DEF Framework

LEMMA UIThreadKeepsLastCall == ASSUME IInv, LastCall, UIThread PROVE LastCall'
<1> USE DEF IInv, TypeOK, Calls, LastCall, Joined, members, heap, android, locals, Goto, Return
<1>1. CASE SetNativeWindow \/ OpenCamera \/ NewReader \/ SetRotation
  BY <1>1 DEF SetNativeWindow, OpenCamera, NewReader, SetRotation
<1>2. CASE CreateCaptureSession \/ SetUpTCP \/ ClearStopped
  BY <1>2 DEF CreateCaptureSession, SetUpTCP, ClearStopped
<1>3. CASE JoinOld \/ Spawn
  BY <1>3 DEF JoinOld, Spawn
<1>4. CASE SetStopped \/ ClearReady \/ Join
  BY <1>4 DEF SetStopped, ClearReady, Join
<1>5. CASE DeleteReader \/ DeleteCamera \/ Toggle
  BY <1>5 DEF DeleteReader, DeleteCamera, Toggle
<1> QED
  BY <1>1, <1>2, <1>3, <1>4, <1>5
  DEF UIThread, SetUpCamera, StartCameraLoop, StopCameraLoop, TearDownCamera

LEMMA LastCallInvariance == Spec => []LastCall
<1>1. Init => LastCall
  BY DEF Init, LastCall
<1>2. IInv /\ LastCall /\ [Next]_vars => LastCall'
  <2> SUFFICES ASSUME IInv, LastCall, [Next]_vars PROVE LastCall'
    OBVIOUS
  <2>1. CASE CameraLoop
    BY <2>1 DEF LastCall, Joined, members, heap, android, CameraLoop, Move,
       WhileTest, ReadyTest, GetLatestImage, NoImage, LockWindow, LockFails,
       DisplayImage, WrapMat, UnlockAndPost, ReleaseMats
  <2>2. CASE UNCHANGED vars
    BY <2>2 DEF LastCall, Joined, vars, members, heap, android
  <2> QED
    BY <2>1, <2>2, FrameworkKeepsLastCall, UIThreadKeepsLastCall DEF Next
<1> QED
  BY Invariance, <1>1, <1>2, PTL DEF Spec

(* A setSurface that has found a camera open never returns, whatever the   *)
(* two threads do (CV_Manager.cpp:59-62): the application hangs in every   *)
(* execution with a repeated surfaceChanged, not just in an unlucky one.   *)
THEOREM RepeatHangs == Spec => [](overrun => call # "none")
<1>1. LastCall => (overrun => call # "none")
  BY DEF LastCall
<1> QED
  BY LastCallInvariance, <1>1, PTL

-----------------------------------------------------------------------------
(* The joins.  Where they stand in the code, the flag is raised, or there  *)
(* is no loop: a set-up begins with no camera, and without a camera no     *)
(* loop runs.                                                              *)
Told ==
  /\ ui \in {"clearReady", "join"} => m_camera_thread_stopped
  /\ ~overrun /\ ui \in {"newReader", "setRotation", "createSession", "setUpTCP",
                         "clearStopped", "joinOld"} => Joined

LEMMA UIThreadKeepsTold ==
  ASSUME IInv, SInv, Told, UIThread PROVE Told'
<1> USE DEF IInv, CameraIsThere, SInv, CleanStart, Told, Joined, TypeOK,
        CamLabels, members, heap, android, locals, Goto, Return
<1>1. CASE SetNativeWindow \/ OpenCamera \/ NewReader \/ SetRotation
  BY <1>1 DEF SetNativeWindow, OpenCamera, NewReader, SetRotation
<1>2. CASE CreateCaptureSession \/ SetUpTCP \/ ClearStopped
  BY <1>2 DEF CreateCaptureSession, SetUpTCP, ClearStopped
<1>3. CASE JoinOld \/ Spawn
  BY <1>3 DEF JoinOld, Spawn
<1>4. CASE SetStopped \/ ClearReady \/ Join
  BY <1>4 DEF SetStopped, ClearReady, Join
<1>5. CASE DeleteReader \/ DeleteCamera \/ Toggle
  BY <1>5 DEF DeleteReader, DeleteCamera, Toggle
<1> QED
  BY <1>1, <1>2, <1>3, <1>4, <1>5
  DEF UIThread, SetUpCamera, StartCameraLoop, StopCameraLoop, TearDownCamera

(* No join waits for a loop that goes on, but the one in StartCameraLoop   *)
(* after setSurface has found a camera open, and that one always does      *)
(* (CV_Manager.cpp:59-62, 68-71).                                          *)
THEOREM JoinsCanEnd == Spec => []JoinsEnd
<1>1. Init => Told
  BY DEF Init, Told
<1>2. ASSUME IInv, SInv, LastCall, Told, [Next]_vars PROVE Told'
  <2>1. CASE SurfaceChanged \/ SurfaceDestroyed \/ Pause \/ Resume \/ FlipCamera
    BY <1>2, <2>1 DEF SurfaceChanged, SurfaceDestroyed, Pause, Resume,
       FlipCamera, Enter, Told, Joined, members, LastCall
  <2>2. CASE CameraLoop
    BY <1>2, <2>2 DEF Told, Joined, members, android, CameraLoop, Move,
       WhileTest, ReadyTest, GetLatestImage, NoImage, LockWindow, LockFails,
       DisplayImage, WrapMat, UnlockAndPost, ReleaseMats
  <2>3. CASE UNCHANGED vars
    BY <1>2, <2>3 DEF Told, Joined, vars, members, android
  <2> QED
    BY <1>2, <2>1, <2>2, <2>3, UIThreadKeepsTold DEF Next, Framework
<1>3. LastCall /\ Told => JoinsEnd
  BY DEF LastCall, Told, JoinsEnd
<1> QED
  BY Invariance, SInvariance, LastCallInvariance, <1>1, <1>2, <1>3, PTL DEF Spec

-----------------------------------------------------------------------------
(* CVManager implements CameraContract: a camera device is open only while *)
(* a surface is shown; setSurface and flipCamera leave one open,           *)
(* releaseSurface and onStop none; and a setSurface that finds one open    *)
(* does not return (native-lib.cpp:42-76).                                 *)
THEOREM CameraRefinement == Spec => CameraDeviceFollows
<1>1. Init => ToActivity!Init
  BY DEF Init, ToActivity!Init
<1>2. ASSUME IInv, SInv, LastCall, [Next]_vars
      PROVE  [ToActivity!Next]_(ToActivity!contractVars)
  <2> USE DEF ToActivity!contractVars
  <2> DEFINE open == call = "flipCamera" \/ liveCameras # {}
             seen == IF overrun THEN "hung" ELSE call
  (* Between two calls a device is open exactly when there is a camera.    *)
  <2>1. call = "none" => ~overrun /\ (open <=> m_native_camera # NONE)
    <3>1. ASSUME call = "none"
          PROVE  ~overrun
      BY <1>2, <3>1 DEF LastCall
    <3>2. ASSUME call = "none", m_native_camera # NONE
          PROVE  open
      BY <1>2, <3>2 DEF IInv, PointersLive
    <3>3. ASSUME call = "none", liveCameras # {}
          PROVE  m_native_camera # NONE
      <4>1. liveCameras \subseteq {m_native_camera}
        BY <1>2, <3>1, <3>3 DEF SInv, NoOrphan
      <4>2. liveCameras \subseteq Cameras
        BY <1>2 DEF IInv, TypeOK
      <4> QED
        BY <3>3, <4>1, <4>2, NoneAssumption
    <3> QED
      BY <3>1, <3>2, <3>3
  <2>2. CASE SurfaceChanged
    <3>1. /\ call = "none" /\ ~overrun /\ liveCameras' = liveCameras
          /\ call' = "setSurface" /\ (overrun' <=> open)
          /\ (surface # NONE)' = TRUE
      BY <2>1, <2>2, NoneAssumption DEF SurfaceChanged, Enter, heap
    <3>2. seen = "none" /\ seen' = IF open THEN "hung" ELSE "setSurface"
      BY <3>1
    <3>3. open' = open
      BY <3>1
    <3> QED
      BY <3>1, <3>2, <3>3 DEF ToActivity!Next, ToActivity!Call
  <2>3. CASE SurfaceDestroyed
    <3>1. /\ call = "none" /\ ~overrun /\ surface # NONE
          /\ call' = "releaseSurface" /\ UNCHANGED <<liveCameras, surface, overrun>>
      BY <2>1, <2>3 DEF SurfaceDestroyed, Enter, heap, android
    <3> QED
      BY <3>1 DEF ToActivity!Next, ToActivity!Call
  <2>4. CASE Pause
    <3>1. /\ call = "none" /\ ~overrun
          /\ call' = "onStop" /\ UNCHANGED <<liveCameras, surface, overrun>>
      BY <2>1, <2>4 DEF Pause, Enter, heap
    <3> QED
      BY <3>1 DEF ToActivity!Next, ToActivity!Call
  <2>5. CASE FlipCamera
    <3>1. /\ call = "none" /\ ~overrun /\ open
          /\ call' = "flipCamera" /\ UNCHANGED <<liveCameras, surface, overrun>>
      BY <2>1, <2>5 DEF FlipCamera, Enter, heap, android
    <3> QED
      BY <3>1 DEF ToActivity!Next, ToActivity!Call
  <2>6. CASE OpenCamera
    <3>1. /\ liveCameras' # {} /\ UNCHANGED <<surface, call, overrun>>
          /\ call \in {"setSurface", "flipCamera"}
      BY <1>2, <2>6 DEF OpenCamera, Goto, android, IInv, LastCall
    <3>2. CASE call = "flipCamera"
      BY <3>1, <3>2
    <3>3. CASE call = "setSurface" /\ ~overrun
      BY <3>1, <3>3 DEF ToActivity!Next, ToActivity!Open, ToActivity!LeavesOpen
    <3>4. CASE overrun
      <4>1. liveCameras # {}
        BY <1>2, <3>4 DEF LastCall
      <4> QED
        BY <3>1, <3>4, <4>1
    <3> QED
      BY <3>1, <3>2, <3>3, <3>4
  <2>7. CASE Spawn
    <3>1. /\ call' = "none" /\ ~overrun /\ UNCHANGED <<liveCameras, surface, overrun>>
          /\ liveCameras # {} /\ call \in {"setSurface", "flipCamera"}
      BY <1>2, <2>7 DEF Spawn, Goto, Return, heap, android, LastCall, IInv, CameraIsThere,
                        PointersLive
    <3> QED
      BY <3>1 DEF ToActivity!Next, ToActivity!Return, ToActivity!LeavesOpen
  <2>8. CASE DeleteCamera
    <3>1. ~overrun /\ liveCameras' = {}
      BY <1>2, <2>8 DEF DeleteCamera, Goto, Return, LastCall, SInv, NoOrphan
    <3>2. CASE call = "flipCamera"
      BY <2>8, <3>2 DEF DeleteCamera
    <3>3. CASE call = "releaseSurface"
      BY <1>2, <2>8, <3>1, <3>3
      DEF DeleteCamera, Return, ToActivity!Next, ToActivity!Return,
          ToActivity!LeavesReleased
    <3>4. CASE call = "onStop"
      BY <2>8, <3>1, <3>4
      DEF DeleteCamera, Return, ToActivity!Next, ToActivity!Return,
          ToActivity!LeavesClosed
    <3> QED
      BY <1>2, <2>8, <3>2, <3>3, <3>4 DEF DeleteCamera, Goto, Return, LastCall
  <2>9. CASE UNCHANGED vars
    BY <2>9 DEF vars, android, heap
  <2>10. CASE Resume
    BY <2>10 DEF Resume, android, heap
  <2>11. CASE \/ SetNativeWindow \/ NewReader \/ SetRotation \/ CreateCaptureSession
              \/ SetUpTCP \/ ClearStopped \/ JoinOld \/ StopCameraLoop
              \/ DeleteReader \/ Toggle
    BY <2>11 DEF SetNativeWindow, NewReader, SetRotation, CreateCaptureSession,
                 SetUpTCP, ClearStopped, JoinOld, StopCameraLoop, SetStopped,
                 ClearReady, Join, DeleteReader, Toggle, android, heap
  <2>12. CASE CameraLoop
    BY <2>12 DEF CameraLoop, WhileTest, ReadyTest, GetLatestImage, NoImage,
                 LockWindow, LockFails, DisplayImage, WrapMat, UnlockAndPost,
                 ReleaseMats, android, heap
  <2> QED
    BY <1>2, <2>2, <2>3, <2>4, <2>5, <2>6, <2>7, <2>8, <2>9, <2>10, <2>11, <2>12
    DEF Next, Framework, UIThread, SetUpCamera, StartCameraLoop, TearDownCamera
<1> QED
  BY Invariance, SInvariance, LastCallInvariance, <1>1, <1>2, PTL
  DEF Spec, CameraDeviceFollows, ToActivity!Spec
=============================================================================
