------------------------------ MODULE CVManager ------------------------------
(***************************************************************************)
(* The camera preview of the application: class CV_Manager, with the       *)
(* Native_Camera and Image_Reader objects it owns.                         *)
(*                                                                         *)
(* Two threads share the CV_Manager object `app` of native-lib.cpp:        *)
(*   - the UI thread, which runs the JNI entry points setSurface,          *)
(*     releaseSurface, flipCamera and onStop one at a time (`call`, and    *)
(*     `ui` for the statement it has reached);                             *)
(*   - the camera thread, which runs CV_Manager::CameraLoop (`cam`).       *)
(* The Android framework decides which entry point is called next.         *)
(*                                                                         *)
(* A heap object is the address it has while it lives, so an address is    *)
(* reused after a delete.  A failed ASSERT ends the process; it is not     *)
(* modelled.  The native window of a surface outlives it, because          *)
(* ANativeWindow_fromSurface takes a reference the code never gives back.  *)
(***************************************************************************)
EXTENDS Naturals, FiniteSets

CONSTANTS
  Windows,      \* native windows of the surfaces the framework shows
  Cameras,      \* addresses for Native_Camera objects
  Readers,      \* addresses for Image_Reader objects
  NONE,         \* the null pointer
  NumCameras,   \* m_camera_id_list->numCameras of this device
  MaxImages     \* MAX_BUF_COUNT: images of one reader the code may hold

ASSUME NoneAssumption   == NONE \notin Windows \cup Cameras \cup Readers
ASSUME CamerasAssumption == NumCameras \in Nat \ {0}
ASSUME ImagesAssumption == MaxImages \in Nat \ {0}

VARIABLES
  m_native_window, m_native_camera, m_image_reader,
  m_selected_camera_type, m_camera_ready, m_camera_thread_stopped,
  liveCameras,  \* Native_Camera objects allocated and not deleted
  facing,       \* camera type a Native_Camera was opened with
  session,      \* reader the capture session of a Native_Camera writes to
  liveReaders,  \* Image_Reader objects allocated and not deleted
  rotation,     \* presentRotation_ of an Image_Reader
  acquired,     \* images of a reader acquired and not yet deleted
  transport,    \* Encoder/SocketClientH264 pairs: none, one, or some leaked
  call,         \* JNI entry point the UI thread is in, or "none"
  ui,           \* next statement of the UI thread
  surface,      \* framework: window of the surface shown, or NONE
  resumed,      \* framework: between onResume and onPause
  overrun,      \* has setSurface been called with a camera open? (history)
  cam,          \* next statement of the camera thread
  image,        \* reader the image in CameraLoop's hands came from, or NONE
  held,         \* window whose buffer CameraLoop has locked, or NONE
  display_mat   \* window whose buffer display_mat is a view of, or NONE

members == <<m_native_window, m_native_camera, m_image_reader,
             m_selected_camera_type, m_camera_ready, m_camera_thread_stopped>>
heap    == <<liveCameras, facing, session, liveReaders, rotation, acquired,
             transport>>
android == <<surface, resumed, overrun>>
locals  == <<image, held, display_mat>>
vars    == <<members, heap, call, ui, android, cam, locals>>

CameraTypes == {"BACK_CAMERA", "FRONT_CAMERA"}
Calls == {"none", "setSurface", "releaseSurface", "flipCamera", "onStop"}
UILabels == {"idle", "setWindow", "openCamera", "newReader", "setRotation",
             "createSession", "setUpTCP", "clearStopped", "joinOld", "spawn",
             "setStopped", "clearReady", "join", "deleteReader",
             "deleteCamera", "toggle"}
CamLabels == {"none", "while", "test", "acquire", "lock", "display", "wrap",
              "post", "releaseMats", "done"}

TypeOK ==
  /\ m_native_window \in Windows \cup {NONE}
  /\ m_native_camera \in Cameras \cup {NONE}
  /\ m_image_reader \in Readers \cup {NONE}
  /\ m_selected_camera_type \in CameraTypes
  /\ m_camera_ready \in BOOLEAN
  /\ m_camera_thread_stopped \in BOOLEAN
  /\ liveCameras \subseteq Cameras
  /\ facing \in [Cameras -> CameraTypes]
  /\ session \in [Cameras -> Readers \cup {NONE}]
  /\ liveReaders \subseteq Readers
  /\ rotation \in [Readers -> {0, 90, 270}]
  /\ acquired \in [Readers -> 0..MaxImages]
  /\ transport \in {"none", "one", "leaked"}
  /\ call \in Calls
  /\ ui \in UILabels
  /\ surface \in Windows \cup {NONE}
  /\ resumed \in BOOLEAN
  /\ overrun \in BOOLEAN
  /\ cam \in CamLabels
  /\ image \in Readers \cup {NONE}
  /\ held \in Windows \cup {NONE}
  /\ display_mat \in Windows \cup {NONE}

Init ==
  /\ m_native_window = NONE
  /\ m_native_camera = NONE
  /\ m_image_reader = NONE
  /\ m_selected_camera_type = "BACK_CAMERA"
  /\ m_camera_ready = FALSE
  /\ m_camera_thread_stopped = TRUE
  /\ liveCameras = {}
  /\ facing = [c \in Cameras |-> "BACK_CAMERA"]
  /\ session = [c \in Cameras |-> NONE]
  /\ liveReaders = {}
  /\ rotation = [r \in Readers |-> 0]
  /\ acquired = [r \in Readers |-> 0]
  /\ transport = "none"
  /\ call = "none" /\ ui = "idle"
  /\ surface = NONE /\ resumed = FALSE /\ overrun = FALSE
  /\ cam = "none"
  /\ image = NONE /\ held = NONE /\ display_mat = NONE

-----------------------------------------------------------------------------
(* The framework calls into the native library, from the UI thread only.   *)

Enter(c, label) == /\ call = "none"
                   /\ call' = c
                   /\ ui' = label
                   /\ UNCHANGED <<members, heap, cam, locals>>

(* surfaceChanged -> setSurface.  The window of a new surface is not the   *)
(* one the code still refers to; a repeated surfaceChanged passes the      *)
(* window of the surface already shown, with its camera open, or closed by *)
(* onStop.                                                                 *)
SurfaceChanged ==
  /\ Enter("setSurface", "setWindow")
  /\ \/ surface = NONE /\ surface' \in Windows \ {m_native_window}
     \/ surface # NONE /\ UNCHANGED surface
  /\ overrun' = (overrun \/ m_native_camera # NONE)
  /\ UNCHANGED resumed

(* Mutant: surfaceDestroyed is not forwarded to the native library. *)
Bug_SurfaceDestroyedNotForwarded ==
  /\ call = "none" /\ surface # NONE
  /\ surface' = NONE
  /\ UNCHANGED <<members, heap, call, ui, resumed, overrun, cam, locals>>

(* surfaceDestroyed -> releaseSurface, which is only TearDownCamera. *)
SurfaceDestroyed ==
  /\ surface # NONE
  /\ Enter("releaseSurface", "setStopped")
  /\ UNCHANGED android

(* onPause -> onStop: TearDownCamera first.  The rest of onStop does not   *)
(* touch the CV_Manager object.  The native onStop also overrides          *)
(* Activity.onStop, so the framework calls it once more when paused.       *)
Pause ==
  /\ Enter("onStop", "setStopped")
  /\ resumed' = FALSE
  /\ UNCHANGED <<surface, overrun>>

(* onResume -> onStart, which does not touch the CV_Manager object. *)
Resume ==
  /\ call = "none" /\ ~resumed
  /\ resumed' = TRUE
  /\ UNCHANGED <<members, heap, call, ui, surface, overrun, cam, locals>>

(* The flip button.  With no camera object, or a single camera, FlipCamera *)
(* returns without a change.                                               *)
FlipCamera ==
  /\ m_native_camera # NONE
  /\ NumCameras >= 2
  /\ Enter("flipCamera", "setStopped")
  /\ UNCHANGED android

-----------------------------------------------------------------------------
(* Statements of the UI thread.                                            *)

Goto(from, to) == ui = from /\ ui' = to

Return(from) == /\ Goto(from, "idle")
                /\ call' = "none"

(* setSurface: SetNativeWindow(window). *)
SetNativeWindow ==
  /\ Goto("setWindow", "openCamera")
  /\ m_native_window' = surface
  /\ UNCHANGED <<m_native_camera, m_image_reader, m_selected_camera_type,
                 m_camera_ready, m_camera_thread_stopped,
                 heap, call, android, cam, locals>>

(* SetUpCamera: m_native_camera = new Native_Camera(m_selected_camera_type). *)
OpenCamera ==
  /\ Goto("openCamera", "newReader")
  /\ \E c \in Cameras \ liveCameras :
       /\ m_native_camera' = c
       /\ liveCameras' = liveCameras \cup {c}
       /\ facing' = [facing EXCEPT ![c] = m_selected_camera_type]
       /\ session' = [session EXCEPT ![c] = NONE]
  /\ UNCHANGED <<m_native_window, m_image_reader, m_selected_camera_type,
                 m_camera_ready, m_camera_thread_stopped,
                 liveReaders, rotation, acquired, transport,
                 call, android, cam, locals>>

(* SetUpCamera: m_image_reader = new Image_Reader(&m_view, ...). *)
NewReader ==
  /\ Goto("newReader", "setRotation")
  /\ \E r \in Readers \ liveReaders :
       /\ m_image_reader' = r
       /\ liveReaders' = liveReaders \cup {r}
       /\ rotation' = [rotation EXCEPT ![r] = 0]
       /\ acquired' = [acquired EXCEPT ![r] = 0]
  /\ UNCHANGED <<m_native_window, m_native_camera, m_selected_camera_type,
                 m_camera_ready, m_camera_thread_stopped,
                 liveCameras, facing, session, transport,
                 call, android, cam, locals>>

(* Mutant: the front camera is given a signed angle. *)
Bug_SignedOrientation(type) == IF type = "BACK_CAMERA" THEN 90 ELSE 0 - 90

(* m_camera_orientation, set by the constructor of Native_Camera. *)
Orientation(type) == IF type = "BACK_CAMERA" THEN 90 ELSE 270

(* Mutant: the rotation is set by the first SetUpCamera only, not for the   *)
(* reader that a flip allocates.                                           *)
Bug_RotationNotForFlip ==
  /\ Goto("setRotation", "createSession")
  /\ rotation' = IF call = "flipCamera" THEN rotation
                 ELSE [rotation EXCEPT ![m_image_reader] =
                                      Orientation(facing[m_native_camera])]
  /\ UNCHANGED <<members, liveCameras, facing, session, liveReaders, acquired,
                 transport, call, android, cam, locals>>

(* SetUpCamera: SetPresentRotation(GetOrientation()). *)
SetRotation ==
  /\ Goto("setRotation", "createSession")
  /\ rotation' = [rotation EXCEPT ![m_image_reader] =
                                      Orientation(facing[m_native_camera])]
  /\ UNCHANGED <<members, liveCameras, facing, session, liveReaders, acquired,
                 transport, call, android, cam, locals>>

(* SetUpCamera: m_camera_ready = CreateCaptureSession(reader window), which *)
(* returns true.  setSurface goes on with SetUpTCP, FlipCamera with         *)
(* StartCameraLoop.                                                         *)
CreateCaptureSession ==
  /\ Goto("createSession",
          IF call = "setSurface" THEN "setUpTCP" ELSE "clearStopped")
  /\ session' = [session EXCEPT ![m_native_camera] = m_image_reader]
  /\ m_camera_ready' = TRUE
  /\ UNCHANGED <<m_native_window, m_native_camera, m_image_reader,
                 m_selected_camera_type, m_camera_thread_stopped,
                 liveCameras, facing, liveReaders, rotation, acquired,
                 transport, call, android, cam, locals>>

(* SetUpTCP allocates an Encoder and a socket and frees no earlier pair. *)
SetUpTCP ==
  /\ Goto("setUpTCP", "clearStopped")
  /\ transport' = IF transport = "none" THEN "one" ELSE "leaked"
  /\ UNCHANGED <<members, liveCameras, facing, session, liveReaders, rotation,
                 acquired, call, android, cam, locals>>

(* StartCameraLoop: m_camera_thread_stopped = false ... *)
ClearStopped ==
  /\ Goto("clearStopped", "joinOld")
  /\ m_camera_thread_stopped' = FALSE
  /\ UNCHANGED <<m_native_window, m_native_camera, m_image_reader,
                 m_selected_camera_type, m_camera_ready,
                 heap, call, android, cam, locals>>

Joined == cam \in {"none", "done"}   \* not joinable, or the loop has ended

(* ... if joinable, join ... *)
JoinOld ==
  /\ Goto("joinOld", "spawn")
  /\ Joined
  /\ cam' = "none"
  /\ UNCHANGED <<members, heap, call, android, locals>>

(* ... and m_camera_thread = std::thread(CameraLoop). *)
Spawn ==
  /\ Return("spawn")
  /\ cam' = "while"
  /\ UNCHANGED <<members, heap, android, locals>>

StartCameraLoop == ClearStopped \/ JoinOld \/ Spawn

(* Mutant: StopCameraLoop clears m_camera_ready but not the loop's flag. *)
Bug_LoopNotStopped ==
  /\ Goto("setStopped", "clearReady")
  /\ UNCHANGED <<members, heap, call, android, cam, locals>>

(* StopCameraLoop: m_camera_thread_stopped = true; m_camera_ready = false. *)
SetStopped ==
  /\ Goto("setStopped", "clearReady")
  /\ m_camera_thread_stopped' = TRUE
  /\ UNCHANGED <<m_native_window, m_native_camera, m_image_reader,
                 m_selected_camera_type, m_camera_ready,
                 heap, call, android, cam, locals>>

ClearReady ==
  /\ Goto("clearReady", "join")
  /\ m_camera_ready' = FALSE
  /\ UNCHANGED <<m_native_window, m_native_camera, m_image_reader,
                 m_selected_camera_type, m_camera_thread_stopped,
                 heap, call, android, cam, locals>>

(* Mutant: StopCameraLoop raises the flag and does not wait for the loop. *)
Bug_NoJoin ==
  /\ Goto("join", "deleteReader")
  /\ UNCHANGED <<members, heap, call, android, cam, locals>>

(* Mutant: FlipCamera calls StopCameraLoop where it should tear down. *)
Bug_FlipWithoutTearDown ==
  /\ Goto("join", IF call = "flipCamera" THEN "toggle" ELSE "deleteReader")
  /\ Joined
  /\ cam' = "none"
  /\ UNCHANGED <<members, heap, call, android, locals>>

(* Mutant: onStop calls StopCameraLoop where it should tear down. *)
Bug_StopWithoutTearDown ==
  /\ IF call = "onStop" THEN Return("join")
     ELSE Goto("join", "deleteReader") /\ UNCHANGED call
  /\ Joined
  /\ cam' = "none"
  /\ UNCHANGED <<members, heap, android, locals>>

(* StopCameraLoop: if joinable, join. *)
Join ==
  /\ Goto("join", "deleteReader")
  /\ Joined
  /\ cam' = "none"
  /\ UNCHANGED <<members, heap, call, android, locals>>

StopCameraLoop == SetStopped \/ ClearReady \/ Join

(* TearDownCamera: delete m_image_reader, and null the pointer. *)
DeleteReader ==
  /\ Goto("deleteReader", "deleteCamera")
  /\ liveReaders' = liveReaders \ {m_image_reader}
  /\ m_image_reader' = NONE
  /\ UNCHANGED <<m_native_window, m_native_camera, m_selected_camera_type,
                 m_camera_ready, m_camera_thread_stopped,
                 liveCameras, facing, session, rotation, acquired, transport,
                 call, android, cam, locals>>

(* Mutant: the deleted Native_Camera stays in m_native_camera. *)
Bug_CameraPointerKept ==
  /\ IF call = "flipCamera"
     THEN Goto("deleteCamera", "toggle") /\ UNCHANGED call
     ELSE Return("deleteCamera")
  /\ surface' = IF call = "releaseSurface" THEN NONE ELSE surface
  /\ liveCameras' = liveCameras \ {m_native_camera}
  /\ UNCHANGED <<members, facing, session, liveReaders, rotation, acquired,
                 transport, resumed, overrun, cam, locals>>

(* TearDownCamera: delete m_native_camera, and null the pointer.  Here the *)
(* entry points part: releaseSurface and onStop return, FlipCamera goes on.*)
(* When releaseSurface has returned the framework may drop the surface.    *)
DeleteCamera ==
  /\ IF call = "flipCamera"
     THEN Goto("deleteCamera", "toggle") /\ UNCHANGED call
     ELSE Return("deleteCamera")
  /\ surface' = IF call = "releaseSurface" THEN NONE ELSE surface
  /\ liveCameras' = liveCameras \ {m_native_camera}
  /\ m_native_camera' = NONE
  /\ UNCHANGED <<m_native_window, m_image_reader, m_selected_camera_type,
                 m_camera_ready, m_camera_thread_stopped,
                 facing, session, liveReaders, rotation, acquired, transport,
                 resumed, overrun, cam, locals>>

TearDownCamera == StopCameraLoop \/ DeleteReader \/ DeleteCamera

(* FlipCamera: toggle m_selected_camera_type, then SetUpCamera. *)
Toggle ==
  /\ Goto("toggle", "openCamera")
  /\ m_selected_camera_type' =
       IF m_selected_camera_type = "FRONT_CAMERA" THEN "BACK_CAMERA"
                                                  ELSE "FRONT_CAMERA"
  /\ UNCHANGED <<m_native_window, m_native_camera, m_image_reader,
                 m_camera_ready, m_camera_thread_stopped,
                 heap, call, android, cam, locals>>

SetUpCamera == OpenCamera \/ NewReader \/ SetRotation \/ CreateCaptureSession

UIThread == \/ SetNativeWindow \/ SetUpCamera \/ SetUpTCP
            \/ StartCameraLoop \/ TearDownCamera \/ Toggle

-----------------------------------------------------------------------------
(* Statements of the camera thread: CV_Manager::CameraLoop.  It reads the  *)
(* members afresh in each statement.                                       *)

Move(from, to) == cam = from /\ cam' = to

(* while (!m_camera_thread_stopped) *)
WhileTest ==
  /\ Move("while", IF m_camera_thread_stopped THEN "done" ELSE "test")
  /\ UNCHANGED <<members, heap, call, ui, android, locals>>

(* if (!m_camera_ready || no reader || no window) { usleep; continue; } *)
ReadyTest ==
  /\ Move("test", IF /\ m_camera_ready
                     /\ m_image_reader # NONE
                     /\ m_native_window # NONE
                  THEN "acquire" ELSE "while")
  /\ UNCHANGED <<members, heap, call, ui, android, locals>>

(* GetLatestImage gives an image when the reader has one queued and the    *)
(* code holds fewer than MaxImages of it.                                  *)
ImageReady(r) == /\ acquired[r] < MaxImages
                 /\ \E c \in liveCameras : session[c] = r

GetLatestImage ==
  /\ Move("acquire", "lock")
  /\ ImageReady(m_image_reader)
  /\ image' = m_image_reader
  /\ acquired' = [acquired EXCEPT ![m_image_reader] = @ + 1]
  /\ UNCHANGED <<members, liveCameras, facing, session, liveReaders, rotation,
                 transport, call, ui, android, held, display_mat>>

(* No image: { usleep; continue; } *)
NoImage ==
  /\ Move("acquire", "while")
  /\ UNCHANGED <<members, heap, call, ui, android, locals>>

(* ANativeWindow_acquire and a successful ANativeWindow_lock. *)
LockWindow ==
  /\ Move("lock", "display")
  /\ held' = m_native_window
  /\ UNCHANGED <<members, heap, call, ui, android, image, display_mat>>

DeleteImage == /\ acquired' = [acquired EXCEPT ![image] = @ - 1]
               /\ image' = NONE

(* Mutant: the path of a failed lock forgets the image. *)
Bug_LockFailsLeaks ==
  /\ Move("lock", "while")
  /\ image' = NONE
  /\ UNCHANGED <<members, heap, call, ui, android, held, display_mat>>

(* ANativeWindow_lock fails: release the window, DeleteImage, continue. *)
LockFails ==
  /\ Move("lock", "while")
  /\ DeleteImage
  /\ UNCHANGED <<members, liveCameras, facing, session, liveReaders, rotation,
                 transport, call, ui, android, held, display_mat>>

(* m_image_reader->DisplayImage(&buffer, image), which deletes the image. *)
DisplayImage ==
  /\ Move("display", "wrap")
  /\ DeleteImage
  /\ UNCHANGED <<members, liveCameras, facing, session, liveReaders, rotation,
                 transport, call, ui, android, held, display_mat>>

(* display_mat = a cv::Mat over the locked buffer. *)
WrapMat ==
  /\ Move("wrap", "post")
  /\ display_mat' = held
  /\ UNCHANGED <<members, heap, call, ui, android, image, held>>

(* ANativeWindow_unlockAndPost(m_native_window) and ANativeWindow_release. *)
(* Unlocking a window that is not the locked one fails and unlocks nothing. *)
UnlockAndPost ==
  /\ Move("post", "releaseMats")
  /\ held' = IF held = m_native_window THEN NONE ELSE held
  /\ UNCHANGED <<members, heap, call, ui, android, image, display_mat>>

ReleaseMats ==
  /\ Move("releaseMats", "while")
  /\ display_mat' = NONE
  /\ UNCHANGED <<members, heap, call, ui, android, image, held>>

CameraLoop == \/ WhileTest \/ ReadyTest \/ GetLatestImage \/ NoImage
              \/ LockWindow \/ LockFails \/ DisplayImage \/ WrapMat
              \/ UnlockAndPost \/ ReleaseMats

-----------------------------------------------------------------------------
Framework == \/ SurfaceChanged \/ SurfaceDestroyed
             \/ Pause \/ Resume \/ FlipCamera

Next == Framework \/ UIThread \/ CameraLoop

(* Both threads are scheduled; the user and the framework owe nothing. *)
ThreadFairness == WF_vars(UIThread) /\ WF_vars(CameraLoop)

Spec == Init /\ [][Next]_vars /\ ThreadFairness

-----------------------------------------------------------------------------
(* Properties.                                                             *)

(* The camera thread never works with an Image_Reader that TearDownCamera  *)
(* has deleted, nor with an image of one: the join of StopCameraLoop comes *)
(* before both deletes (CV_Manager.cpp:75-79).                             *)
ReaderLive ==
  /\ cam \in {"acquire", "lock", "display"} => m_image_reader \in liveReaders
  /\ image # NONE => image \in liveReaders

(* Every path through CameraLoop gives back the image it acquired: after a *)
(* failed lock as after a frame.  Otherwise acquireLatestImage would fail  *)
(* for good once MAX_BUF_COUNT images are out.                             *)
ImageBudget ==
  \A r \in liveReaders : acquired[r] = IF image = r THEN 1 ELSE 0

(* SetUpCamera sizes its buffers after the window of the surface that is   *)
(* on the screen, also when FlipCamera runs it: FlipCamera takes the       *)
(* window setSurface left behind, and relies on m_native_camera being null *)
(* once the surface is gone (CV_Manager.cpp:157).                          *)
WindowIsShown ==
  ui \in {"openCamera", "newReader", "setRotation", "createSession"}
     => surface # NONE /\ m_native_window = surface

(* No Native_Camera or Image_Reader is lost: each one alive is the one the *)
(* member points to, so at most one camera device is open.  A setSurface   *)
(* with a camera open allocates over live objects (CV_Manager.cpp:25-44).  *)
NoOrphan == ~overrun => /\ liveCameras \subseteq {m_native_camera}
                        /\ liveReaders \subseteq {m_image_reader}

(* A frame is turned by the orientation of the camera that delivers it,    *)
(* also right after FlipCamera has swapped cameras.                        *)
FrameUpright ==
  ~overrun /\ cam = "display" =>
    \A c \in liveCameras :
      session[c] = image => rotation[m_image_reader] = Orientation(facing[c])

(* What the view system asks of a thread that draws on a surface holds of  *)
(* the camera thread: it draws on the surface shown, and surfaceDestroyed  *)
(* does not return while a frame is being drawn.                           *)
Contract == INSTANCE SurfaceContract WITH drawing <- held
SurfaceRespected == Contract!Spec

(* What MainActivity relies on: a camera device is open only while a       *)
(* surface is shown; it is open when setSurface or flipCamera returns and  *)
(* closed when releaseSurface or onStop returns; and a setSurface that     *)
(* finds one open never returns.  FlipCamera closes one device and opens   *)
(* another, which counts as one that stays open.                           *)
ToActivity == INSTANCE CameraContract
              WITH shown  <- surface # NONE,
                   camera <- call = "flipCamera" \/ liveCameras # {},
                   call   <- IF overrun THEN "hung" ELSE call
CameraDeviceFollows == ToActivity!Spec

(* StopCameraLoop joins a loop it has told to stop; StartCameraLoop, which *)
(* clears the flag first, joins a loop that goes on exactly when setSurface *)
(* has found a camera open (CV_Manager.cpp:59-62, 68-71).                  *)
JoinsEnd ==
  /\ ui = "join" => m_camera_thread_stopped
  /\ ui = "joinOld" => (overrun <=> ~Joined)

(* Every entry point the UI thread is in returns: no join waits for good.  *)
CallReturns == (call # "none") ~> (call = "none")

(* So does each, as long as setSurface finds no camera open.               *)
CleanCallReturns == (call # "none") ~> (call = "none" \/ overrun)

(* The camera keeps delivering images and the window can be locked, time   *)
(* and again: what the devices do when nothing fails for good.             *)
DeviceFairness == SF_vars(GetLatestImage) /\ SF_vars(LockWindow)

(* With such devices, a preview left alone with a camera open keeps        *)
(* drawing frames.                                                         *)
PreviewFlows ==
  DeviceFairness /\ <>[](call = "none" /\ m_native_camera # NONE)
    => []<>(held # NONE)
=============================================================================
