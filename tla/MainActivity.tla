---------------------------- MODULE MainActivity ----------------------------
(***************************************************************************)
(* The application as Android sees it: class MainActivity, which forwards  *)
(* the life cycle, the surface, the location and the battery to the native *)
(* library, and what native-lib.cpp dispatches these calls to.             *)
(*                                                                         *)
(* The framework runs everything on the UI thread, one callback at a time; *)
(* the publish thread of the telemetry runs beside it and reads            *)
(* DeviceState.  The camera is what CameraContract, which CVManager        *)
(* implements, says that each call leaves.  Of the streaming engine        *)
(* (WebRtcEngine) only the telemetry is kept: it may start while the       *)
(* engine is initialised, and onStop joins it.  The flip button, which     *)
(* leaves a camera open, is left out.                                      *)
(*                                                                         *)
(* The native methods onStart and onStop override those of Activity, so    *)
(* the framework calls them at every start and stop, and onResume and      *)
(* onPause call them again.                                                *)
(***************************************************************************)
EXTENDS Integers, Sequences, Rounding

CONSTANTS
  KeyAlias,   \* see AuthManager
  MaxFix,     \* bound: how many fixes the location provider gives
  Broadcasts, \* battery broadcasts, [level, scale]
  Recreation  \* may the activity be destroyed, and created again, while a
              \* permission request is out?

ASSUME AliasAssumption == KeyAlias \in Seq(0..255)
ASSUME FixAssumption == MaxFix \in Nat
ASSUME BroadcastsAssumption ==
  Broadcasts \subseteq {b \in [level : 0..127, scale : 0..127] :
                           b.level <= b.scale \/ b.scale = 0}
ASSUME RecreationAssumption == Recreation \in BOOLEAN

Permissions == {"camera", "location"}  \* REQUIRED_PERMISSIONS

VARIABLES
  shown, camera,    \* see CameraContract
  runtime,          \* see DeviceRuntime
  device,           \* see DeviceState
  keystore, auth,   \* see AuthManager
  life,             \* the last lifecycle callback of the activity
  finishing,        \* finish() has been called
  granted,          \* permissions the user has granted
  request,          \* permission request: "none", "asked", "answered"
  callbacks,        \* SurfaceHolder callbacks of this activity
  repeated,         \* surfaceChanged has come again for the surface shown
                    \* (observed)
  ui,               \* "idle", the callback the UI thread is in, "hung" in a
                    \* call that never returns, "aborted" by an ASSERT
  locationListener, \* the listener of this activity, 0 for null
  registered,       \* listeners registered with the LocationManager
  batteryReceiver,  \* is a receiver registered?
  power,            \* the last battery broadcast received (observed)
  fix,              \* the last fix the provider gave (observed)
  publisher,        \* next statement of the publish thread, or "off"
  draft,            \* the payload it is building
  sent              \* the payload it has handed to m_send_fn last

activity  == <<life, finishing, callbacks, repeated, ui, locationListener>>
android   == <<granted, request, registered, batteryReceiver, power, fix>>
telemetry == <<publisher, draft, sent>>
identity  == <<keystore, auth>>
preview   == <<shown, camera>>
vars == <<preview, runtime, device, identity, activity, android, telemetry>>

Camera  == INSTANCE CameraContract WITH call <- "none"
Runtime == INSTANCE DeviceRuntime
State   == INSTANCE DeviceState
Auth    == INSTANCE AuthManager

Listeners == {1, 2}  \* addresses for LocationListener objects
NoBroadcast == [level |-> 0, scale |-> 0]
NoPayload == [position |-> 0, timestamp |-> 0]
Payloads == [position : 0..MaxFix, timestamp : 0..MaxFix]

TypeOK ==
  /\ shown \in BOOLEAN /\ camera \in BOOLEAN
  /\ Runtime!TypeOK /\ State!TypeOK
  /\ keystore \in {0, 1} /\ auth.initialized \in BOOLEAN
  /\ life \in {"none", "created", "started", "resumed", "paused", "stopped"}
  /\ finishing \in BOOLEAN
  /\ granted \subseteq Permissions
  /\ request \in {"none", "asked", "answered"}
  /\ callbacks \in 0..2 /\ repeated \in BOOLEAN
  /\ ui \in {"idle", "surfaceChanged", "updateGps", "hung", "aborted"}
  /\ locationListener \in Listeners \cup {0}
  /\ registered \subseteq Listeners
  /\ batteryReceiver \in BOOLEAN
  /\ power \in Broadcasts \cup {NoBroadcast}
  /\ fix \in 0..MaxFix
  /\ publisher \in {"off", "readPosition", "readTimestamp", "send"}
  /\ draft \in Payloads /\ sent \in Payloads

(* A process, and an application that has just been installed or has been *)
(* used before.                                                           *)
Init ==
  /\ Camera!Init /\ Runtime!Init /\ State!Init /\ Auth!Init
  /\ life = "none" /\ finishing = FALSE
  /\ granted \in SUBSET Permissions /\ request = "none"
  /\ callbacks = 0 /\ repeated = FALSE /\ ui = "idle"
  /\ locationListener = 0 /\ registered = {} /\ batteryReceiver = FALSE
  /\ power = NoBroadcast /\ fix = 0
  /\ publisher = "off" /\ draft = NoPayload /\ sent = NoPayload

-----------------------------------------------------------------------------
(* What several callbacks do.                                              *)

(* A callback of the life cycle. *)
Lifecycle(from, to) == /\ ui = "idle" /\ life \in from
                       /\ life' = to
                       /\ UNCHANGED ui

(* Native onStart: DeviceRuntime::start, AuthManager::init, and            *)
(* WebRtcEngine::init, after which the telemetry may start.                *)
NativeOnStart == /\ Runtime!Start
                 /\ Auth!InitKeys

(* Native onStop: TearDownCamera, WebRtcEngine::destroy, which joins the   *)
(* publish thread, and DeviceRuntime::stop.                                *)
NativeOnStop == /\ Camera!LeavesClosed
                /\ publisher \in {"off", "readPosition"}
                /\ publisher' = "off"
                /\ UNCHANGED <<draft, sent>>
                /\ Runtime!Stop

(* Mutant: the permission is not asked about. *)
Bug_StartGpsUnchecked ==
  \E l \in Listeners \ registered :
    /\ locationListener' = l
    /\ registered' \in {registered, registered \cup {l}}

(* startGps: a new listener, registered when a provider is enabled. *)
StartGps ==
  IF "location" \in granted
  THEN \E l \in Listeners \ registered :
         /\ locationListener' = l
         /\ registered' \in {registered, registered \cup {l}}
  ELSE UNCHANGED <<locationListener, registered>>

(* Mutant: the listener is forgotten and not removed. *)
Bug_ListenerForgotten == locationListener' = 0 /\ UNCHANGED registered

(* stopGps *)
StopGps == /\ registered' = registered \ {locationListener}
           /\ locationListener' = 0

-----------------------------------------------------------------------------
(* The life cycle.                                                         *)

(* Mutant: the callback is added without waiting for the answer. *)
Bug_CallbackBeforeAnswer ==
  /\ Lifecycle({"none"}, "created")
  /\ callbacks' = 1
  /\ request' = IF granted = Permissions THEN request ELSE "asked"
  /\ UNCHANGED <<preview, runtime, device, identity, finishing, repeated,
                 locationListener, granted, registered, batteryReceiver,
                 power, fix, telemetry>>

(* onCreate: with the permissions, initNativeComponents; without them,     *)
(* requestPermissions.  While a request is out, another one is answered at *)
(* once with no results, and onRequestPermissionsResult, which finds none  *)
(* of them refused, calls initNativeComponents.                            *)
OnCreate ==
  /\ Lifecycle({"none"}, "created")
  /\ callbacks' = IF granted = Permissions \/ request # "none" THEN 1 ELSE 0
  /\ request' = IF granted # Permissions /\ request = "none" THEN "asked"
                                                             ELSE request
  /\ UNCHANGED <<preview, runtime, device, identity, finishing, repeated,
                 locationListener, granted, registered, batteryReceiver,
                 power, fix, telemetry>>

(* The framework starts the activity: native onStart. *)
OnStart ==
  /\ Lifecycle({"created", "stopped"}, "started")
  /\ ~finishing
  /\ NativeOnStart
  /\ UNCHANGED <<preview, device, finishing, callbacks, repeated,
                 locationListener, android, telemetry>>

(* onResume: native onStart, registerBatteryReceiver, startGps.  An        *)
(* activity behind the permission dialog is not resumed, and the answer    *)
(* comes before onResume.                                                  *)
OnResume ==
  /\ \/ Lifecycle({"started"}, "resumed") /\ request # "answered"
     \/ Lifecycle({"paused"}, "resumed") /\ request = "none"
  /\ ~finishing
  /\ NativeOnStart
  /\ batteryReceiver' = TRUE
  /\ StartGps
  /\ UNCHANGED <<preview, device, finishing, callbacks, repeated, granted,
                 request, power, fix, telemetry>>

(* onPause: stopGps, unregisterBatteryReceiver, native onStop. *)
OnPause ==
  /\ Lifecycle({"resumed"}, "paused")
  /\ StopGps
  /\ batteryReceiver' = FALSE
  /\ NativeOnStop
  /\ UNCHANGED <<device, identity, finishing, callbacks, repeated, granted,
                 request, power, fix>>

(* The framework stops the activity: native onStop. *)
OnStop ==
  /\ \/ Lifecycle({"paused"}, "stopped")
     \/ Lifecycle({"started"}, "stopped") /\ finishing
  /\ NativeOnStop
  /\ UNCHANGED <<device, identity, finishing, callbacks, repeated,
                 locationListener, android>>

MayLeave == request = "none" \/ Recreation

(* The activity is destroyed, for good or to be created again after a      *)
(* change of the configuration; its view, with the callbacks, goes too.    *)
OnDestroy ==
  /\ Lifecycle({"stopped"}, "none")
  /\ ~shown
  /\ MayLeave
  /\ finishing' = FALSE
  /\ callbacks' = 0
  /\ locationListener' = 0
  /\ UNCHANGED <<preview, runtime, device, identity, repeated, android,
                 telemetry>>

(* The process ends at any time: the system needs the memory, the user     *)
(* takes a permission back or gives up an application that does not        *)
(* answer, native code fails.  The Keystore and the permissions stay; a    *)
(* request that is out stays with the saved state of a stopped activity.   *)
ProcessEnds ==
  /\ request = "none" \/ (Recreation /\ life \in {"stopped", "none"})
  /\ life' = "none" /\ ui' = "idle" /\ finishing' = FALSE
  /\ granted' \in SUBSET granted
  /\ callbacks' = 0 /\ repeated' = FALSE
  /\ shown' = FALSE /\ camera' = FALSE
  /\ locationListener' = 0 /\ registered' = {} /\ batteryReceiver' = FALSE
  /\ power' = NoBroadcast
  /\ runtime' = [running |-> FALSE, connected |-> FALSE]
  /\ Auth!Restart
  /\ device' = [position |-> 0, timestamp |-> 0, mutex |-> "free", battery |-> -1]
  /\ publisher' = "off" /\ sent' = NoPayload /\ draft' = NoPayload
  /\ UNCHANGED <<request, fix>>

-----------------------------------------------------------------------------
(* Permissions.                                                            *)

(* The user answers the dialog, which lies over the paused activity. *)
UserAnswers ==
  /\ ui = "idle" /\ life = "paused"
  /\ request = "asked" /\ request' = "answered"
  /\ \E p \in SUBSET Permissions : granted' = granted \cup p
  /\ UNCHANGED <<preview, runtime, device, identity, activity, registered,
                 batteryReceiver, power, fix, telemetry>>

(* onRequestPermissionsResult with an answer. *)
OnRequestPermissionsResult ==
  /\ ui = "idle" /\ life \in {"paused", "started"}
  /\ request = "answered" /\ request' = "none"
  /\ IF granted = Permissions
     THEN callbacks' = callbacks + 1 /\ UNCHANGED finishing
     ELSE finishing' = TRUE /\ UNCHANGED callbacks
  /\ UNCHANGED <<preview, runtime, device, identity, life, repeated, ui,
                 locationListener, granted, registered, batteryReceiver,
                 power, fix, telemetry>>

-----------------------------------------------------------------------------
(* The surface.                                                            *)

(* A surface is created, and surfaceChanged is to be called. *)
SurfaceCreated ==
  /\ ui = "idle" /\ life \in {"resumed", "paused"} /\ ~finishing
  /\ ~shown /\ shown' = TRUE
  /\ repeated' = FALSE
  /\ ui' = IF callbacks > 0 THEN "surfaceChanged" ELSE "idle"
  /\ UNCHANGED <<camera, runtime, device, identity, life, finishing, callbacks,
                 locationListener, android, telemetry>>

(* The size or the format of the surface shown changes: surfaceChanged is  *)
(* to be called once more.                                                 *)
SurfaceResized ==
  /\ ui = "idle" /\ life \in {"resumed", "paused"}
  /\ shown /\ callbacks > 0
  /\ repeated' = TRUE
  /\ ui' = "surfaceChanged"
  /\ UNCHANGED <<preview, runtime, device, identity, life, finishing, callbacks,
                 locationListener, android, telemetry>>

(* surfaceChanged -> setSurface, from one callback after the other.  With  *)
(* a camera open the call never returns (see CameraContract); without the  *)
(* permission the device refuses to open, and the ASSERT of Native_Camera  *)
(* ends the process.                                                       *)
SurfaceChanged ==
  /\ ui = "surfaceChanged"
  /\ \/ /\ ~camera /\ "camera" \in granted
        /\ Camera!LeavesOpen
        /\ ui' = IF callbacks > 1 THEN ui ELSE "idle"
     \/ /\ camera \/ "camera" \notin granted
        /\ ui' = IF camera THEN "hung" ELSE "aborted"
        /\ UNCHANGED preview
  /\ UNCHANGED <<runtime, device, identity, life, finishing, callbacks, repeated,
                 locationListener, android, telemetry>>

(* surfaceDestroyed -> releaseSurface, when the window is hidden.  Without *)
(* a callback no camera is open.                                           *)
SurfaceDestroyed ==
  /\ ui = "idle" /\ life \in {"paused", "stopped"}
  /\ shown /\ Camera!LeavesReleased
  /\ repeated' = FALSE
  /\ UNCHANGED <<runtime, device, identity, life, finishing, callbacks, ui,
                 locationListener, android, telemetry>>

-----------------------------------------------------------------------------
(* Location and battery.                                                   *)

(* onLocationChanged -> onGpsUpdate -> DeviceState::updateGps ... *)
LocationChanged ==
  /\ ui = "idle" /\ registered # {}
  /\ fix < MaxFix /\ fix' = fix + 1
  /\ State!BeginUpdate(fix')
  /\ ui' = "updateGps"
  /\ UNCHANGED <<preview, runtime, identity, life, finishing, callbacks,
                 repeated, locationListener, granted, request, registered,
                 batteryReceiver, power, telemetry>>

(* ... and its return. *)
LocationStored ==
  /\ ui = "updateGps" /\ ui' = "idle"
  /\ State!EndUpdate(fix)
  /\ UNCHANGED <<preview, runtime, identity, life, finishing, callbacks,
                 repeated, locationListener, android, telemetry>>

(* (int) ((level / (float) scale) * 100) for level <= scale < 128.  A      *)
(* float is a significand of 24 bits, in 2^23..2^24, divided by a power of *)
(* two; the quotient and the product are rounded, and the conversion cuts. *)
Bits == 8388608  \* 2^23
Shifts == {1, 2, 4, 8, 16, 32, 64, 128}

Percent(level, scale) ==
  IF scale = 0 THEN -1 ELSE IF level = 0 THEN 0 ELSE
  LET unit == Bits * CHOOSE k \in Shifts : level * k >= scale /\ level * k < 2 * scale
      quotient == Nearest(level * unit, scale)
      cut == IF 100 * quotient >= 128 * Bits THEN 128 ELSE 64
      product == Nearest(100 * quotient, cut)
  IN  product \div (unit \div cut)

(* Mutant: the level is taken for a percentage. *)
Bug_ScaleIgnored ==
  /\ ui = "idle" /\ batteryReceiver
  /\ power' \in Broadcasts
  /\ State!SetBatteryLevel(power'.level)
  /\ UNCHANGED <<preview, runtime, identity, activity, granted, request,
                 registered, batteryReceiver, fix, telemetry>>

(* onReceive -> onBatteryUpdate -> DeviceState::setBatteryLevel *)
BatteryChanged ==
  /\ ui = "idle" /\ batteryReceiver
  /\ power' \in Broadcasts
  /\ State!SetBatteryLevel(Percent(power'.level, power'.scale))
  /\ UNCHANGED <<preview, runtime, identity, activity, granted, request,
                 registered, batteryReceiver, fix, telemetry>>

-----------------------------------------------------------------------------
(* The telemetry.                                                          *)

publishKeeps == <<preview, runtime, identity, activity, android>>

(* The peers are connected: TelemetryPublisher::start. *)
TelemetryStarts ==
  /\ ui # "aborted" /\ runtime.running
  /\ publisher = "off" /\ publisher' = "readPosition"
  /\ UNCHANGED <<publishKeeps, device, draft, sent>>

(* buildPayload: the copy of m_gps begins ... *)
ReadPosition ==
  /\ publisher = "readPosition" /\ publisher' = "readTimestamp"
  /\ State!BeginRead
  /\ draft' = [draft EXCEPT !.position = device.position]
  /\ UNCHANGED <<publishKeeps, sent>>

(* ... and ends. *)
ReadTimestamp ==
  /\ publisher = "readTimestamp" /\ publisher' = "send"
  /\ draft' = [draft EXCEPT !.timestamp = device.timestamp]
  /\ State!EndRead
  /\ UNCHANGED <<publishKeeps, sent>>

(* Mutant: the payload is built before the loop. *)
Bug_PayloadBuiltOnce ==
  /\ publisher = "send" /\ UNCHANGED publisher
  /\ sent' = draft
  /\ UNCHANGED <<publishKeeps, device, draft>>

(* Battery and signal are read and written after it; m_send_fn(payload).   *)
SendPayload ==
  /\ publisher = "send" /\ publisher' = "readPosition"
  /\ sent' = draft
  /\ UNCHANGED <<publishKeeps, device, draft>>

-----------------------------------------------------------------------------
Framework == \/ OnCreate \/ OnStart \/ OnResume \/ OnPause \/ OnStop
             \/ OnDestroy \/ ProcessEnds
             \/ UserAnswers \/ OnRequestPermissionsResult
             \/ SurfaceCreated \/ SurfaceResized \/ SurfaceDestroyed
             \/ LocationChanged \/ BatteryChanged \/ TelemetryStarts

UIThread == SurfaceChanged \/ LocationStored

PublishThread == /\ ui # "aborted"
                 /\ ReadPosition \/ ReadTimestamp \/ SendPayload

Next == Framework \/ UIThread \/ PublishThread

(* Both threads are scheduled; the user and the system owe nothing. *)
Spec == Init /\ [][Next]_vars /\ WF_vars(UIThread) /\ WF_vars(PublishThread)

-----------------------------------------------------------------------------
(* Properties.                                                             *)

(* The camera is opened, and locations are asked for, only with the user's *)
(* permission; without it, opening the camera ends the process, where the  *)
(* application means to say "Permissions requises : caméra et localisation" *)
(* (MainActivity.java:264, Native_Camera.cpp:51-52).                       *)
PermissionsRespected == /\ ui # "aborted"
                        /\ camera => "camera" \in granted
                        /\ registered # {} => "location" \in granted

(* No camera is open, no listener or receiver is registered, and neither   *)
(* the runtime nor the telemetry runs, once the activity is in the         *)
(* background: onPause "arrête caméra, WebRTC, DeviceRuntime"              *)
(* (MainActivity.java:57).  A surface that comes between onPause and       *)
(* onStop does open a camera.                                              *)
QuietInBackground ==
  /\ life \in {"none", "stopped"} => ~camera
  /\ life \notin {"started", "resumed"} =>
       /\ ~runtime.running /\ publisher = "off"
       /\ registered = {} /\ ~batteryReceiver

(* One callback is registered, and setSurface hangs (CV_Manager.cpp:60)    *)
(* only when surfaceChanged comes again for a surface: a new surface never *)
(* meets a camera left open, nor a second callback that opens one before   *)
(* (MainActivity.java:85-89, 121-139, 253-262).                            *)
OnlyRepeatHangs == /\ callbacks <= 1
                   /\ ui = "hung" => repeated

(* A payload holds one fix, not parts of two, although location updates    *)
(* and the publish thread meet at any time (DeviceState.cpp:10-18).        *)
PayloadIsOneFix == sent.position = sent.timestamp

(* The battery level reported is the percentage cut to an integer; only an *)
(* exact percentage may come out one too low for the rounding of float     *)
(* (MainActivity.java:217): 53 of 100 is reported as 52.                   *)
BatteryClose ==
  IF power.scale = 0 THEN device.battery = -1
  ELSE /\ device.battery * power.scale <= 100 * power.level
       /\ 100 * power.level <= (device.battery + 1) * power.scale

(* See AuthManager. *)
TokenNamesDevice == Auth!TokenNamesDevice

(* While the telemetry runs, each fix stored is sent, or a later one is.   *)
FixSent ==
  \A f \in 1..MaxFix :
    (device.timestamp = f /\ publisher # "off")
      ~> (sent.timestamp >= f \/ publisher = "off")

(* An activity in the foreground with its callback on a surface shows the  *)
(* preview: native-lib.cpp:15 says that the life cycle of `app` is managed *)
(* by onStart and onStop.                                                  *)
ForegroundPreview ==
  life = "resumed" /\ ui = "idle" /\ shown /\ callbacks > 0 => camera
=============================================================================
