------------------------- MODULE MainActivityProofs -------------------------
(***************************************************************************)
(* Proofs about MainActivity, for every alias, any number of fixes and any *)
(* battery broadcasts.                                                     *)
(***************************************************************************)
EXTENDS MainActivity, TLAPS

Token == INSTANCE AuthManagerProofs

-----------------------------------------------------------------------------
(* The life cycle.                                                         *)

(* What is started is started in the foreground; a surface that comes      *)
(* later than onPause leaves a camera to onStop.                           *)
Quiet ==
  /\ camera \in BOOLEAN /\ batteryReceiver \in BOOLEAN
  /\ runtime \in [running : BOOLEAN, connected : BOOLEAN]
  /\ ui = "surfaceChanged" => life \in {"resumed", "paused"}
  /\ life \in {"none", "stopped"} => ~camera
  /\ publisher # "off" => runtime.running
  /\ runtime.running => life \in {"started", "resumed"}
  /\ life # "resumed" => registered = {} /\ ~batteryReceiver
  /\ registered \subseteq {locationListener}

LEMMA QuietInvariant == Spec => []Quiet
<1>1. Init => Quiet
  <2> SUFFICES ASSUME Init PROVE Quiet
    OBVIOUS
  <2>1. camera = FALSE /\ batteryReceiver = FALSE /\ publisher = "off"
        /\ life = "none" /\ ui = "idle" /\ registered = {}
    BY DEF Init, Camera!Init
  <2>2. runtime = [running |-> FALSE, connected |-> FALSE]
    BY DEF Init, Runtime!Init
  <2> QED
    BY <2>1, <2>2 DEF Quiet
<1>2. Quiet /\ [Next]_vars => Quiet'
  <2> SUFFICES ASSUME Quiet, [Next]_vars
               PROVE  Quiet'
    OBVIOUS
  <2> USE DEF Quiet
  <2>1. CASE OnCreate
    BY <2>1 DEF OnCreate, Lifecycle, preview, identity, telemetry, activity,
       android
  <2>2. CASE OnStart
    BY <2>2 DEF OnStart, Lifecycle, NativeOnStart, Runtime!Start,
       Auth!InitKeys, preview, identity, telemetry, activity, android
  <2>3. CASE OnResume
    BY <2>3 DEF OnResume, Lifecycle, NativeOnStart, StartGps, Runtime!Start,
       Auth!InitKeys, preview, identity, telemetry, activity, android
  <2>4. CASE OnPause
    BY <2>4 DEF OnPause, Lifecycle, StopGps, NativeOnStop, Camera!LeavesClosed,
       Runtime!Stop, preview, identity, telemetry, activity, android
  <2>5. CASE OnStop
    BY <2>5 DEF OnStop, Lifecycle, NativeOnStop, Camera!LeavesClosed, Runtime!Stop,
       preview, identity, telemetry, activity, android
  <2>6. CASE OnDestroy
    BY <2>6 DEF OnDestroy, Lifecycle, MayLeave, preview, identity,
       telemetry, activity, android
  <2>7. CASE ProcessEnds
    BY <2>7 DEF ProcessEnds, Auth!Restart, NoPayload,
       preview, identity, telemetry, activity, android
  <2>8. CASE UserAnswers
    BY <2>8 DEF UserAnswers, preview, identity, telemetry, activity, android
  <2>9. CASE OnRequestPermissionsResult
    BY <2>9 DEF OnRequestPermissionsResult, preview, identity, telemetry,
       activity, android
  <2>10. CASE SurfaceCreated
    BY <2>10 DEF SurfaceCreated, preview, identity, telemetry,
       activity, android
  <2>11. CASE SurfaceDestroyed
    BY <2>11 DEF SurfaceDestroyed, Camera!LeavesReleased, preview, identity,
       telemetry, activity, android
  <2>12. CASE LocationChanged
    BY <2>12 DEF LocationChanged, State!BeginUpdate, preview, identity,
       telemetry, activity, android
  <2>13. CASE BatteryChanged
    BY <2>13 DEF BatteryChanged, State!SetBatteryLevel, preview, identity,
       telemetry, activity, android
  <2>14. CASE TelemetryStarts
    BY <2>14 DEF TelemetryStarts, publishKeeps, preview, identity,
       telemetry, activity, android
  <2>15. CASE SurfaceChanged
    BY <2>15 DEF SurfaceChanged, Camera!LeavesOpen, preview, identity, telemetry,
       activity, android
  <2>16. CASE LocationStored
    BY <2>16 DEF LocationStored, State!EndUpdate, preview, identity,
       telemetry, activity, android
  <2>17. CASE ReadPosition
    BY <2>17 DEF ReadPosition, State!BeginRead, publishKeeps, preview,
       identity, telemetry, activity, android
  <2>18. CASE ReadTimestamp
    BY <2>18 DEF ReadTimestamp, State!EndRead, publishKeeps, preview,
       identity, telemetry, activity, android
  <2>19. CASE SendPayload
    BY <2>19 DEF SendPayload, publishKeeps, preview, identity, telemetry,
       activity, android
  <2>20. CASE UNCHANGED vars
    BY <2>20 DEF vars, preview, identity, telemetry, activity, android
  <2>21. CASE SurfaceResized
    BY <2>21 DEF SurfaceResized, preview, identity, telemetry, activity,
       android
  <2> QED
    BY <2>1, <2>2, <2>3, <2>4, <2>5, <2>6, <2>7, <2>8, <2>9, <2>10, <2>11,
       <2>12, <2>13, <2>14, <2>15, <2>16, <2>17, <2>18, <2>19, <2>20, <2>21
       DEF Next, Framework, UIThread, PublishThread
<1> QED
  BY <1>1, <1>2, PTL DEF Spec

(* In the background no camera is open, nothing is registered and nothing  *)
(* native runs, in whatever order the framework calls the life cycle, the  *)
(* surface and the permissions (MainActivity.java:95-111).                 *)
THEOREM QuietThroughLife == Spec => []QuietInBackground
<1>1. Quiet => QuietInBackground
  BY DEF Quiet, QuietInBackground
<1> QED
  BY <1>1, QuietInvariant, PTL

-----------------------------------------------------------------------------
(* Permissions.                                                            *)

(* With the activity alive as long as its request, a callback is added     *)
(* once and with both permissions; only a callback opens the camera; and a *)
(* camera is open only for a surface, so that a new one finds none.        *)
Permitted ==
  /\ callbacks \in 0..1
  /\ life = "none" => request = "none" /\ ~shown
  /\ request # "none" => callbacks = 0
  /\ callbacks > 0 => granted = Permissions
  /\ camera => granted = Permissions /\ shown
  /\ registered # {} => "location" \in granted
  /\ ui = "surfaceChanged" => callbacks = 1 /\ shown
  /\ ui = "surfaceChanged" /\ camera => repeated
  /\ ui = "hung" => repeated
  /\ ui # "aborted"

LEMMA PermittedInvariant == Spec => [](~Recreation => Permitted)
<1> DEFINE Inv == ~Recreation => Permitted
<1>1. Init => Inv
  <2> SUFFICES ASSUME Init PROVE Permitted
    BY DEF Inv
  <2>1. /\ shown = FALSE /\ camera = FALSE /\ callbacks = 0 /\ repeated = FALSE
        /\ life = "none" /\ request = "none" /\ registered = {} /\ ui = "idle"
    BY DEF Init, Camera!Init
  <2> QED
    BY <2>1 DEF Permitted
<1>2. ~Recreation /\ Quiet /\ Permitted /\ [Next]_vars => Permitted'
  <2> SUFFICES ASSUME ~Recreation, Quiet, Permitted, [Next]_vars
               PROVE  Permitted'
    OBVIOUS
  <2> USE DEF Permitted, Quiet, Permissions
  <2>1. CASE OnCreate
    BY <2>1 DEF OnCreate, Lifecycle, preview, identity, telemetry, activity,
       android
  <2>2. CASE OnStart
    BY <2>2 DEF OnStart, Lifecycle, NativeOnStart, Runtime!Start,
       Auth!InitKeys, preview, identity, telemetry, activity, android
  <2>3. CASE OnResume
    BY <2>3 DEF OnResume, Lifecycle, NativeOnStart, StartGps, Runtime!Start,
       Auth!InitKeys, preview, identity, telemetry, activity, android
  <2>4. CASE OnPause
    BY <2>4 DEF OnPause, Lifecycle, StopGps, NativeOnStop, Camera!LeavesClosed,
       Runtime!Stop, preview, identity, telemetry, activity, android
  <2>5. CASE OnStop
    BY <2>5 DEF OnStop, Lifecycle, NativeOnStop, Camera!LeavesClosed, Runtime!Stop,
       preview, identity, telemetry, activity, android
  <2>6. CASE OnDestroy
    BY <2>6 DEF OnDestroy, Lifecycle, MayLeave, preview, identity,
       telemetry, activity, android
  <2>7. CASE ProcessEnds
    <3>1. /\ shown' = FALSE /\ camera' = FALSE /\ callbacks' = 0 /\ repeated' = FALSE
          /\ life' = "none" /\ request' = "none" /\ registered' = {} /\ ui' = "idle"
      BY <2>7 DEF ProcessEnds
    <3> QED
      BY <3>1
  <2>8. CASE UserAnswers
    BY <2>8 DEF UserAnswers, preview, identity, telemetry, activity, android
  <2>9. CASE OnRequestPermissionsResult
    BY <2>9 DEF OnRequestPermissionsResult, preview, identity, telemetry,
       activity, android
  <2>10. CASE SurfaceCreated
    BY <2>10 DEF SurfaceCreated, preview, identity, telemetry,
       activity, android
  <2>11. CASE SurfaceDestroyed
    <3>1. /\ shown' = FALSE /\ camera' = FALSE /\ repeated' = FALSE /\ ui' = "idle"
          /\ UNCHANGED <<callbacks, life, request, granted, registered>>
          /\ life # "none"
      BY <2>11 DEF SurfaceDestroyed, Camera!LeavesReleased, android
    <3> QED
      BY <3>1
  <2>12. CASE LocationChanged
    BY <2>12 DEF LocationChanged, State!BeginUpdate, preview, identity,
       telemetry, activity, android
  <2>13. CASE BatteryChanged
    BY <2>13 DEF BatteryChanged, State!SetBatteryLevel, preview, identity,
       telemetry, activity, android
  <2>14. CASE TelemetryStarts
    BY <2>14 DEF TelemetryStarts, publishKeeps, preview, identity,
       telemetry, activity, android
  <2>15. CASE SurfaceChanged
    <3>1. /\ ui = "surfaceChanged" /\ callbacks = 1 /\ granted = Permissions
          /\ UNCHANGED <<life, request, granted, registered, callbacks, repeated>>
      BY <2>15 DEF SurfaceChanged, android
    <3> UNCHANGED shown
      BY <2>15, Zenon DEF SurfaceChanged, Camera!LeavesOpen, preview
    <3>2. CASE camera
      <4>1. camera' = camera /\ ui' = "hung" /\ repeated
        BY <2>15, <3>1, <3>2 DEF SurfaceChanged, preview
      <4> QED
        BY <3>1, <4>1
    <3>3. CASE ~camera
      <4>1. camera' = TRUE /\ ui' = "idle"
        BY <2>15, <3>1, <3>3 DEF SurfaceChanged, Camera!LeavesOpen
      <4> QED
        BY <3>1, <4>1
    <3> QED
      BY <3>2, <3>3
  <2>16. CASE LocationStored
    BY <2>16 DEF LocationStored, State!EndUpdate, preview, identity,
       telemetry, activity, android
  <2>17. CASE ReadPosition
    BY <2>17 DEF ReadPosition, State!BeginRead, publishKeeps, preview,
       identity, telemetry, activity, android
  <2>18. CASE ReadTimestamp
    BY <2>18 DEF ReadTimestamp, State!EndRead, publishKeeps, preview,
       identity, telemetry, activity, android
  <2>19. CASE SendPayload
    BY <2>19 DEF SendPayload, publishKeeps, preview, identity, telemetry,
       activity, android
  <2>20. CASE UNCHANGED vars
    BY <2>20 DEF vars, preview, identity, telemetry, activity, android
  <2>21. CASE SurfaceResized
    BY <2>21 DEF SurfaceResized, preview, identity, telemetry, activity,
       android
  <2> QED
    BY <2>1, <2>2, <2>3, <2>4, <2>5, <2>6, <2>7, <2>8, <2>9, <2>10, <2>11,
       <2>12, <2>13, <2>14, <2>15, <2>16, <2>17, <2>18, <2>19, <2>20, <2>21
       DEF Next, Framework, UIThread, PublishThread
<1>3. Quiet /\ Inv /\ [Next]_vars => Inv'
  BY <1>2
<1> QED
  BY <1>1, <1>3, QuietInvariant, PTL DEF Spec

(* While the activity is not recreated under its permission dialog, the    *)
(* camera is opened and locations are asked for only with the permission   *)
(* (MainActivity.java:148-152, 246-269).                                   *)
THEOREM PermissionsAreAsked == Spec => [](~Recreation => PermissionsRespected)
<1>1. (~Recreation => Permitted) => (~Recreation => PermissionsRespected)
  BY DEF Permitted, PermissionsRespected, Permissions
<1> QED
  BY <1>1, PermittedInvariant, PTL

(* Under the same condition one callback is registered, and the UI thread  *)
(* hangs in setSurface only when surfaceChanged comes again for a surface  *)
(* (MainActivity.java:85-89, 121-139, 253-262).                            *)
THEOREM OnlyRepeatsHang == Spec => [](~Recreation => OnlyRepeatHangs)
<1>1. (~Recreation => Permitted) => (~Recreation => OnlyRepeatHangs)
  BY DEF Permitted, OnlyRepeatHangs
<1> QED
  BY <1>1, PermittedInvariant, PTL

-----------------------------------------------------------------------------
(* The battery.                                                            *)

(* The nearest integer is within half of the divisor. *)
LEMMA NearestClose ==
  ASSUME NEW n \in Nat, NEW d \in Nat \ {0}
  PROVE  /\ Nearest(n, d) \in Nat
         /\ 2 * (Nearest(n, d) * d) <= 2 * n + d
         /\ 2 * n <= 2 * (Nearest(n, d) * d) + d
<1> DEFINE q == n \div d
           r == n % d
<1>1. q \in Nat /\ r \in 0..d - 1 /\ n = q * d + r
  OBVIOUS
<1>2. Nearest(n, d) = IF 2 * r > d \/ (2 * r = d /\ q % 2 = 1) THEN q + 1 ELSE q
  BY DEF Nearest
<1> HIDE DEF q, r
<1>3. (q + 1) * d = q * d + d
  BY <1>1
<1>4. CASE Nearest(n, d) = q
  <2>1. 2 * r <= d
    BY <1>1, <1>2, <1>4
  <2>2. q * d \in Nat
    BY <1>1
  <2> QED
    BY <1>1, <1>4, <2>1, <2>2
<1>5. CASE Nearest(n, d) = q + 1
  <2>1. 2 * r >= d
    BY <1>1, <1>2, <1>5
  <2>2. q * d \in Nat
    BY <1>1
  <2> QED
    BY <1>1, <1>3, <1>5, <2>1, <2>2
<1> QED
  BY <1>2, <1>4, <1>5

(* A significand of 24 bits holds the quotient. *)
LEMMA ShiftExists ==
  ASSUME NEW level \in 1..127, NEW scale \in 1..127, level <= scale
  PROVE  \E k \in Shifts : level * k >= scale /\ level * k < 2 * scale
<1>1. CASE level >= scale
  BY <1>1 DEF Shifts
<1>2. CASE level < scale /\ 2 * level >= scale
  BY <1>2 DEF Shifts
<1>3. CASE 2 * level < scale /\ 4 * level >= scale
  BY <1>3 DEF Shifts
<1>4. CASE 4 * level < scale /\ 8 * level >= scale
  BY <1>4 DEF Shifts
<1>5. CASE 8 * level < scale /\ 16 * level >= scale
  BY <1>5 DEF Shifts
<1>6. CASE 16 * level < scale /\ 32 * level >= scale
  BY <1>6 DEF Shifts
<1>7. CASE 32 * level < scale /\ 64 * level >= scale
  BY <1>7 DEF Shifts
<1>8. CASE 64 * level < scale
  BY <1>8 DEF Shifts
<1> QED
  BY <1>1, <1>2, <1>3, <1>4, <1>5, <1>6, <1>7, <1>8

LEMMA PercentExact ==
  ASSUME NEW level \in 0..127, NEW scale \in 1..127, level <= scale
  PROVE  /\ Percent(level, scale) \in 0..100
         /\ Percent(level, scale) * scale <= 100 * level
         /\ 100 * level <= (Percent(level, scale) + 1) * scale
<1>1. CASE level = 0
  BY <1>1 DEF Percent
<1>2. CASE level # 0
  <2>1. level \in 1..127
    BY <1>2
  <2>2. PICK k \in Shifts :
          k = CHOOSE i \in Shifts : level * i >= scale /\ level * i < 2 * scale
    BY <2>1, ShiftExists
  <2>3. PICK unit : unit = Bits * k
    OBVIOUS
  <2>4. PICK quotient : quotient = Nearest(level * unit, scale)
    OBVIOUS
  <2>5. PICK cut : cut = IF 100 * quotient >= 128 * Bits THEN 128 ELSE 64
    OBVIOUS
  <2>6. PICK product : product = Nearest(100 * quotient, cut)
    OBVIOUS
  <2>7. PICK p : p = product \div (unit \div cut)
    OBVIOUS
  <2>8. Percent(level, scale) = p
    BY <1>2, <2>2, <2>3, <2>4, <2>5, <2>6, <2>7 DEF Percent
  <2>9. unit \in Nat /\ unit > 20000
    <3>1. \A i \in Shifts : Bits * i \in Nat /\ Bits * i > 20000
      BY SMT DEF Bits, Shifts
    <3> QED
      BY <2>2, <2>3, <3>1
  <2>10. cut \in {64, 128}
    BY <2>5
  <2>11. /\ quotient \in Nat
         /\ 2 * (quotient * scale) <= 2 * (level * unit) + scale
         /\ 2 * (level * unit) <= 2 * (quotient * scale) + scale
    <3>1. level * unit \in Nat /\ scale \in Nat \ {0}
      BY <2>9
    <3> QED
      BY <2>4, <3>1, NearestClose
  <2>12. /\ product \in Nat
         /\ 2 * (product * cut) <= 2 * (100 * quotient) + cut
         /\ 2 * (100 * quotient) <= 2 * (product * cut) + cut
    <3>1. 100 * quotient \in Nat /\ cut \in Nat \ {0}
      BY <2>10, <2>11
    <3> QED
      BY <2>6, <3>1, NearestClose
  <2>13. PICK step : step = unit \div cut
    OBVIOUS
  <2>14. step \in Nat \ {0} /\ unit = step * cut
    <3>1. \A i \in Shifts, c \in {64, 128} :
            (Bits * i) \div c \in Nat \ {0} /\ Bits * i = ((Bits * i) \div c) * c
      BY SMT DEF Bits, Shifts
    <3> QED
      BY <2>2, <2>3, <2>10, <2>13, <3>1
  <2>15. p \in Nat /\ p * step <= product /\ product + 1 <= p * step + step
    BY <2>7, <2>12, <2>13, <2>14
  (* Each rounding is within half of its divisor: too little, for a scale  *)
  (* below 128, to pass another integer.                                   *)
  <2>16. p * step \in Nat /\ p * unit = (p * step) * cut
    BY <2>10, <2>14, <2>15
  <2>17. p * unit <= product * cut /\ product * cut + cut <= p * unit + unit
    <3>1. CASE cut = 64
      BY <2>12, <2>14, <2>15, <2>16, <3>1
    <3>2. CASE cut = 128
      BY <2>12, <2>14, <2>15, <2>16, <3>2
    <3> QED
      BY <2>10, <3>1, <3>2
  <2>18. PICK rounded \in Nat : rounded = product * cut
    BY <2>10, <2>12
  <2>19. PICK whole \in Nat : whole = p * unit
    BY <2>9, <2>15
  <2>20. PICK exact \in Nat : exact = level * unit
    BY <2>9
  <2>21. PICK scaled \in Nat : scaled = quotient * scale
    BY <2>11
  <2>22. /\ 2 * scaled <= 2 * exact + scale
         /\ 2 * exact <= 2 * scaled + scale
    BY <2>11, <2>20, <2>21
  <2>23. /\ 2 * (rounded * scale) <= 200 * scaled + cut * scale
         /\ 200 * scaled <= 2 * (rounded * scale) + cut * scale
    BY <2>10, <2>11, <2>12, <2>18, <2>21
  <2>24. /\ whole * scale <= rounded * scale
         /\ rounded * scale + cut * scale <= whole * scale + unit * scale
    BY <2>9, <2>10, <2>17, <2>18, <2>19
  <2>25. /\ rounded * scale \in Nat /\ whole * scale \in Nat
         /\ unit * scale \in Nat /\ cut * scale \in Nat
    BY <2>9, <2>10
  <2>26. 100 * scale + cut * scale <= 30000 /\ 100 * scale <= 12700 + cut * scale
    BY <2>10
  <2>27. /\ 2 * (whole * scale) <= 200 * exact + 30000
         /\ 200 * exact <= 2 * (whole * scale) + 2 * (unit * scale) + 30000
    BY <2>22, <2>23, <2>24, <2>25, <2>26
  <2>28. /\ whole * scale = (p * scale) * unit
         /\ whole * scale + unit * scale = ((p + 1) * scale) * unit
    BY <2>9, <2>15, <2>19
  <2>29. p * scale \in Nat /\ (p + 1) * scale \in Nat
    BY <2>15
  <2>30. p * scale <= 100 * level
    <3> SUFFICES ASSUME p * scale >= 100 * level + 1
                 PROVE  FALSE
      BY <2>29
    <3>1. (p * scale) * unit >= (100 * level + 1) * unit
      BY <2>9, <2>29
    <3>2. (100 * level + 1) * unit = 100 * exact + unit
      BY <2>9, <2>20
    <3> QED
      BY <2>9, <2>25, <2>27, <2>28, <3>1, <3>2
  <2>31. 100 * level <= (p + 1) * scale
    <3> SUFFICES ASSUME (p + 1) * scale + 1 <= 100 * level
                 PROVE  FALSE
      BY <2>29
    <3>1. ((p + 1) * scale + 1) * unit <= (100 * level) * unit
      BY <2>9, <2>29
    <3>2. /\ ((p + 1) * scale + 1) * unit = ((p + 1) * scale) * unit + unit
          /\ (100 * level) * unit = 100 * exact
      BY <2>9, <2>20, <2>29
    <3> QED
      BY <2>9, <2>25, <2>27, <2>28, <3>1, <3>2
  <2>32. p \in 0..100
    <3>1. p * scale <= 100 * scale
      BY <2>30, <2>29
    <3> QED
      BY <2>15, <3>1
  <2> QED
    BY <2>8, <2>30, <2>31, <2>32
<1> QED
  BY <1>1, <1>2

(* What a broadcast stores: the percentage, or -1. *)
LEMMA LevelReported ==
  ASSUME NEW b \in Broadcasts
  PROVE  /\ Percent(b.level, b.scale) \in -1..100
         /\ b.scale = 0 => Percent(b.level, b.scale) = -1
         /\ b.scale # 0 =>
              /\ Percent(b.level, b.scale) * b.scale <= 100 * b.level
              /\ 100 * b.level <= (Percent(b.level, b.scale) + 1) * b.scale
<1>1. /\ b.level \in 0..127 /\ b.scale \in 0..127
      /\ b.level <= b.scale \/ b.scale = 0
  BY BroadcastsAssumption
<1>2. CASE b.scale = 0
  BY <1>2 DEF Percent
<1>3. CASE b.scale # 0
  <2>1. b.scale \in 1..127 /\ b.level <= b.scale
    BY <1>1, <1>3
  <2>2. /\ Percent(b.level, b.scale) \in 0..100
        /\ Percent(b.level, b.scale) * b.scale <= 100 * b.level
        /\ 100 * b.level <= (Percent(b.level, b.scale) + 1) * b.scale
    BY <1>1, <2>1, PercentExact
  <2> QED
    BY <1>3, <2>2
<1> QED
  BY <1>2, <1>3

-----------------------------------------------------------------------------
(* The telemetry.                                                          *)

(* Whoever holds the mutex is in the middle of its copy; without the UI    *)
(* thread in it the two halves of the fix agree.                           *)
Guarded ==
  /\ fix \in 0..MaxFix
  /\ device \in [position : 0..MaxFix, timestamp : 0..MaxFix,
                 mutex : {"free", "ui", "publisher"},
                 battery : -1..100]
  /\ draft \in Payloads /\ sent \in Payloads
  /\ ui = "updateGps" <=> device.mutex = "ui"
  /\ publisher = "readTimestamp" <=> device.mutex = "publisher"
  /\ ui = "updateGps" => device.position = fix
  /\ ui # "updateGps" => device.position = device.timestamp
  /\ publisher = "readTimestamp" => draft.position = device.position
  /\ publisher = "send" => draft.position = draft.timestamp
  /\ sent.position = sent.timestamp

LEMMA GuardedInvariant == Spec => []Guarded
<1>1. Init => Guarded
  BY FixAssumption DEF Init, Guarded, State!Init, NoPayload, Payloads
<1>2. Quiet /\ Guarded /\ [Next]_vars => Guarded'
  <2> SUFFICES ASSUME Quiet, Guarded, [Next]_vars
               PROVE  Guarded'
    OBVIOUS
  <2> USE FixAssumption DEF Guarded, Quiet, Payloads
  <2>1. CASE OnCreate
    BY <2>1 DEF OnCreate, Lifecycle, preview, identity, telemetry, activity,
       android
  <2>2. CASE OnStart
    BY <2>2 DEF OnStart, Lifecycle, NativeOnStart, Runtime!Start,
       Auth!InitKeys, preview, identity, telemetry, activity, android
  <2>3. CASE OnResume
    BY <2>3 DEF OnResume, Lifecycle, NativeOnStart, StartGps, Runtime!Start,
       Auth!InitKeys, preview, identity, telemetry, activity, android
  <2>4. CASE OnPause
    BY <2>4 DEF OnPause, Lifecycle, StopGps, NativeOnStop, Camera!LeavesClosed,
       Runtime!Stop, preview, identity, telemetry, activity, android
  <2>5. CASE OnStop
    BY <2>5 DEF OnStop, Lifecycle, NativeOnStop, Camera!LeavesClosed, Runtime!Stop,
       preview, identity, telemetry, activity, android
  <2>6. CASE OnDestroy
    BY <2>6 DEF OnDestroy, Lifecycle, MayLeave, preview, identity,
       telemetry, activity, android
  <2>7. CASE ProcessEnds
    <3>1. publisher' = "off" /\ ui' = "idle" /\ fix' = fix
      BY <2>7 DEF ProcessEnds
    <3>2. /\ device' = [position |-> 0, timestamp |-> 0, mutex |-> "free", battery |-> -1]
          /\ sent' = NoPayload /\ draft' = NoPayload
      BY <2>7 DEF ProcessEnds
    <3>3. /\ device'.mutex = "free" /\ device'.position = 0 /\ device'.timestamp = 0
          /\ device' \in [position : 0..MaxFix, timestamp : 0..MaxFix,
                         mutex : {"free", "ui", "publisher"}, battery : -1..100]
      <4>1. 0 \in 0..MaxFix
        BY FixAssumption
      <4> DEFINE unknown == -1
      <4>2. unknown \in -1..100
        OBVIOUS
      <4>3. device' = [position |-> 0, timestamp |-> 0, mutex |-> "free",
                       battery |-> unknown]
        BY <3>2
      <4> HIDE DEF unknown
      <4> QED
        BY <4>1, <4>2, <4>3
    <3>4. /\ draft' \in Payloads /\ sent' \in Payloads
          /\ sent'.position = sent'.timestamp
      BY <3>2 DEF NoPayload
    <3> QED
      BY <3>1, <3>2, <3>3, <3>4
  <2>8. CASE UserAnswers
    BY <2>8 DEF UserAnswers, preview, identity, telemetry, activity, android
  <2>9. CASE OnRequestPermissionsResult
    BY <2>9 DEF OnRequestPermissionsResult, preview, identity, telemetry,
       activity, android
  <2>10. CASE SurfaceCreated
    BY <2>10 DEF SurfaceCreated, preview, identity, telemetry,
       activity, android
  <2>11. CASE SurfaceDestroyed
    BY <2>11 DEF SurfaceDestroyed, Camera!LeavesReleased, preview, identity,
       telemetry, activity, android
  <2>12. CASE LocationChanged
    <3>1. fix' = fix + 1 /\ fix' \in 0..MaxFix
      BY <2>12 DEF LocationChanged
    <3>2. /\ ui = "idle" /\ ui' = "updateGps" /\ device.mutex = "free"
          /\ device' = [device EXCEPT !.mutex = "ui", !.position = fix']
          /\ UNCHANGED <<publisher, draft, sent>>
      BY <2>12 DEF LocationChanged, State!BeginUpdate, telemetry
    <3>3. /\ device'.mutex = "ui" /\ device'.position = fix'
          /\ device' \in [position : 0..MaxFix, timestamp : 0..MaxFix,
                         mutex : {"free", "ui", "publisher"}, battery : -1..100]
      BY <3>1, <3>2
    <3> QED
      BY <3>1, <3>2, <3>3
  <2>13. CASE BatteryChanged
    <3>1. PICK b \in Broadcasts :
            device' = [device EXCEPT !.battery = Percent(b.level, b.scale)]
      BY <2>13 DEF BatteryChanged, State!SetBatteryLevel
    <3>2. UNCHANGED <<ui, publisher, fix, draft, sent>>
      BY <2>13 DEF BatteryChanged, activity, telemetry
    <3>3. Percent(b.level, b.scale) \in -1..100
      BY LevelReported
    <3>4. /\ UNCHANGED <<device.mutex, device.position, device.timestamp>>
          /\ device' \in [position : 0..MaxFix, timestamp : 0..MaxFix,
                         mutex : {"free", "ui", "publisher"}, battery : -1..100]
      BY <3>1, <3>3
    <3> QED
      BY <3>2, <3>4
  <2>14. CASE TelemetryStarts
    BY <2>14 DEF TelemetryStarts, publishKeeps, preview, identity,
       telemetry, activity, android
  <2>15. CASE SurfaceChanged
    BY <2>15 DEF SurfaceChanged, Camera!LeavesOpen, preview, identity, telemetry,
       activity, android
  <2>16. CASE LocationStored
    BY <2>16 DEF LocationStored, State!EndUpdate, preview, identity,
       telemetry, activity, android
  <2>17. CASE ReadPosition
    BY <2>17 DEF ReadPosition, State!BeginRead, publishKeeps, preview,
       identity, telemetry, activity, android
  <2>18. CASE ReadTimestamp
    BY <2>18 DEF ReadTimestamp, State!EndRead, publishKeeps, preview,
       identity, telemetry, activity, android
  <2>19. CASE SendPayload
    BY <2>19 DEF SendPayload, publishKeeps, preview, identity, telemetry,
       activity, android
  <2>20. CASE UNCHANGED vars
    BY <2>20 DEF vars, preview, identity, telemetry, activity, android
  <2>21. CASE SurfaceResized
    BY <2>21 DEF SurfaceResized, preview, identity, telemetry, activity,
       android
  <2> QED
    BY <2>1, <2>2, <2>3, <2>4, <2>5, <2>6, <2>7, <2>8, <2>9, <2>10, <2>11,
       <2>12, <2>13, <2>14, <2>15, <2>16, <2>17, <2>18, <2>19, <2>20, <2>21
       DEF Next, Framework, UIThread, PublishThread
<1> QED
  BY <1>1, <1>2, QuietInvariant, PTL DEF Spec

(* However location updates and the publish thread meet, a payload is one  *)
(* fix (DeviceState.cpp:10-18).                                            *)
THEOREM PayloadIsWhole == Spec => []PayloadIsOneFix
<1>1. Guarded => PayloadIsOneFix
  BY DEF Guarded, PayloadIsOneFix
<1> QED
  BY <1>1, GuardedInvariant, PTL

-----------------------------------------------------------------------------
(* The types.                                                              *)

(* A callback is added at most twice, by onCreate and for the answer. *)
Counted == request # "none" => callbacks <= 1

LEMMA TypesStep ==
  ASSUME Quiet', Guarded', TypeOK, Counted, [Next]_vars
  PROVE  (TypeOK /\ Counted)'
<1> USE DEF TypeOK, Counted, Listeners
<1> State!TypeOK' /\ Runtime!TypeOK'
  BY DEF Guarded, Quiet, State!TypeOK, Runtime!TypeOK
<1> /\ (fix \in 0..MaxFix)' /\ (draft \in Payloads)' /\ (sent \in Payloads)'
    /\ (camera \in BOOLEAN)' /\ (batteryReceiver \in BOOLEAN)'
  BY DEF Guarded, Quiet
<1>1. CASE OnCreate
  BY <1>1 DEF OnCreate, Lifecycle, preview, identity, telemetry, activity,
     android
<1>2. CASE OnStart
  BY <1>2 DEF OnStart, Lifecycle, NativeOnStart, Runtime!Start, Auth!InitKeys,
     preview, identity, telemetry, activity, android
<1>3. CASE OnResume
  BY <1>3 DEF OnResume, Lifecycle, NativeOnStart, StartGps, Runtime!Start,
     Auth!InitKeys, preview, identity, telemetry, activity, android
<1>4. CASE OnPause
  BY <1>4 DEF OnPause, Lifecycle, StopGps, NativeOnStop, Camera!LeavesClosed,
     Runtime!Stop, preview, identity, telemetry, activity, android
<1>5. CASE OnStop
  <2>1. (shown \in BOOLEAN)' /\ (finishing \in BOOLEAN)'
    BY <1>5 DEF OnStop, NativeOnStop, Camera!LeavesClosed
  <2> QED
    BY <1>5, <2>1 DEF OnStop, Lifecycle, NativeOnStop, Camera!LeavesClosed, identity,
       android
<1>6. CASE OnDestroy
  <2>1. (shown \in BOOLEAN)' /\ (finishing \in BOOLEAN)'
    BY <1>6 DEF OnDestroy, preview
  <2> QED
    BY <1>6, <2>1 DEF OnDestroy, Lifecycle, preview, identity, android,
       telemetry
<1>7. CASE ProcessEnds
  <2>1. /\ (shown \in BOOLEAN)' /\ (finishing \in BOOLEAN)'
        /\ (repeated \in BOOLEAN)' /\ (auth.initialized \in BOOLEAN)'
    BY <1>7 DEF ProcessEnds, Auth!Restart
  <2>2. /\ life' = "none" /\ ui' = "idle" /\ granted' \subseteq granted
        /\ callbacks' = 0 /\ repeated' = FALSE /\ locationListener' = 0
        /\ power' = NoBroadcast
        /\ registered' = {} /\ publisher' = "off"
        /\ UNCHANGED <<keystore, request>>
    BY <1>7 DEF ProcessEnds, Auth!Restart
  <2>3. request # "none" => callbacks' <= 1
    BY <2>2
  <2> QED
    BY <2>1, <2>2, <2>3
<1>8. CASE UserAnswers
  BY <1>8 DEF UserAnswers, preview, identity, telemetry, activity, android
<1>9. CASE OnRequestPermissionsResult
  <2>1. /\ (finishing \in BOOLEAN)' /\ request' = "none" /\ request = "answered"
        /\ callbacks' \in {callbacks, callbacks + 1}
        /\ ui = "idle"
        /\ UNCHANGED <<shown, keystore, auth, life, repeated, ui, locationListener,
                       granted, registered, power, publisher>>
    BY <1>9 DEF OnRequestPermissionsResult, preview, identity, telemetry
  <2> QED
    BY <2>1
<1>10. CASE SurfaceCreated
  <2>1. /\ (shown \in BOOLEAN)' /\ (finishing \in BOOLEAN)'
        /\ (repeated \in BOOLEAN)' /\ (auth.initialized \in BOOLEAN)'
    BY <1>10 DEF SurfaceCreated, identity
  <2> QED
    BY <1>10, <2>1 DEF SurfaceCreated, identity, telemetry, android
<1>11. CASE SurfaceDestroyed
  <2>1. /\ (shown \in BOOLEAN)' /\ (finishing \in BOOLEAN)'
        /\ (repeated \in BOOLEAN)'
    BY <1>11 DEF SurfaceDestroyed, Camera!LeavesReleased
  <2> QED
    BY <1>11, <2>1 DEF SurfaceDestroyed, Camera!LeavesReleased, identity, telemetry, android
<1>12. CASE LocationChanged
  BY <1>12 DEF LocationChanged, preview, identity, telemetry, activity,
     android
<1>13. CASE BatteryChanged
  BY <1>13 DEF BatteryChanged, preview, identity, telemetry, activity, android
<1>14. CASE TelemetryStarts
  BY <1>14 DEF TelemetryStarts, publishKeeps, preview, identity, telemetry,
     activity, android
<1>15. CASE SurfaceChanged
  BY <1>15 DEF SurfaceChanged, Camera!LeavesOpen, preview, identity, telemetry,
     activity, android
<1>16. CASE LocationStored
  BY <1>16 DEF LocationStored, preview, identity, telemetry, activity, android
<1>17. CASE ReadPosition
  BY <1>17 DEF ReadPosition, publishKeeps, preview, identity, telemetry,
     activity, android
<1>18. CASE ReadTimestamp
  BY <1>18 DEF ReadTimestamp, publishKeeps, preview, identity, telemetry,
     activity, android
<1>19. CASE SendPayload
  BY <1>19 DEF SendPayload, publishKeeps, preview, identity, telemetry,
     activity, android
<1>20. CASE UNCHANGED vars
  BY <1>20 DEF vars, preview, identity, telemetry, activity, android
<1>21. CASE SurfaceResized
  <2>1. /\ (shown \in BOOLEAN)' /\ (finishing \in BOOLEAN)'
        /\ (repeated \in BOOLEAN)' /\ (auth.initialized \in BOOLEAN)'
    BY <1>21 DEF SurfaceResized, preview, identity
  <2> QED
    BY <1>21, <2>1 DEF SurfaceResized, preview, identity, telemetry, android
<1> QED
  BY <1>1, <1>2, <1>3, <1>4, <1>5, <1>6, <1>7, <1>8, <1>9, <1>10, <1>11,
     <1>12, <1>13, <1>14, <1>15, <1>16, <1>17, <1>18, <1>19, <1>20, <1>21 DEF Next,
     Framework, UIThread, PublishThread

(* For any number of fixes and all battery broadcasts, every variable      *)
(* keeps its type: the battery level is a percentage or -1                 *)
(* (MainActivity.java:217), and no more than two callbacks are registered, *)
(* also when the activity is recreated under its permission dialog.        *)
THEOREM TypesKept == Spec => []TypeOK
<1>1. Init => TypeOK /\ Counted
  <2> SUFFICES ASSUME Init PROVE TypeOK /\ Counted
    OBVIOUS
  <2>1. Runtime!TypeOK /\ State!TypeOK
    BY FixAssumption
    DEF Init, Runtime!Init, Runtime!TypeOK, State!Init, State!TypeOK
  <2>2. /\ shown \in BOOLEAN /\ camera \in BOOLEAN /\ finishing \in BOOLEAN
        /\ repeated \in BOOLEAN /\ batteryReceiver \in BOOLEAN /\ auth.initialized \in BOOLEAN
    BY DEF Init, Camera!Init, Auth!Init
  <2>3. keystore = 0 /\ draft \in Payloads /\ sent \in Payloads
    BY FixAssumption DEF Init, Auth!Init, NoPayload, Payloads
  <2> QED
    BY <2>1, <2>2, <2>3, FixAssumption DEF Init, TypeOK, Counted
<1>2. Quiet' /\ Guarded' /\ (TypeOK /\ Counted) /\ [Next]_vars => (TypeOK /\ Counted)'
  BY TypesStep
<1> QED
  BY <1>1, <1>2, QuietInvariant, GuardedInvariant, PTL DEF Spec

(* Only a broadcast and the end of the process touch the battery level and *)
(* the broadcast received last.                                            *)
BatteryStep ==
  \/ BatteryChanged
  \/ device'.battery = -1 /\ power' = NoBroadcast
  \/ device'.battery = device.battery /\ power' = power

LEMMA BatterySteps ==
  ASSUME Guarded, [Next]_vars
  PROVE  BatteryStep
<1> USE DEF BatteryStep
<1>1. CASE OnCreate
  BY <1>1 DEF OnCreate, android
<1>2. CASE OnStart
  BY <1>2 DEF OnStart, android
<1>3. CASE OnResume
  BY <1>3 DEF OnResume, android
<1>4. CASE OnPause
  BY <1>4 DEF OnPause, android
<1>5. CASE OnStop
  BY <1>5 DEF OnStop, android
<1>6. CASE OnDestroy
  BY <1>6 DEF OnDestroy, android
<1>7. CASE ProcessEnds
  BY <1>7 DEF Guarded, ProcessEnds, android
<1>8. CASE UserAnswers
  BY <1>8 DEF UserAnswers, android
<1>9. CASE OnRequestPermissionsResult
  BY <1>9 DEF OnRequestPermissionsResult, android
<1>10. CASE SurfaceCreated
  BY <1>10 DEF SurfaceCreated, android
<1>11. CASE SurfaceDestroyed
  BY <1>11 DEF SurfaceDestroyed, android
<1>12. CASE LocationChanged
  BY <1>12 DEF Guarded, LocationChanged, State!BeginUpdate, android
<1>13. CASE BatteryChanged
  BY <1>13
<1>14. CASE TelemetryStarts
  BY <1>14 DEF TelemetryStarts, publishKeeps, android
<1>15. CASE SurfaceChanged
  BY <1>15 DEF SurfaceChanged, android
<1>16. CASE LocationStored
  BY <1>16 DEF Guarded, LocationStored, State!EndUpdate, android
<1>17. CASE ReadPosition
  BY <1>17 DEF Guarded, ReadPosition, State!BeginRead, publishKeeps, android
<1>18. CASE ReadTimestamp
  BY <1>18 DEF Guarded, ReadTimestamp, State!EndRead, publishKeeps, android
<1>19. CASE SendPayload
  BY <1>19 DEF SendPayload, publishKeeps, android
<1>20. CASE UNCHANGED vars
  BY <1>20 DEF vars, android
<1>21. CASE SurfaceResized
  BY <1>21 DEF SurfaceResized, android
<1> QED
  BY <1>1, <1>2, <1>3, <1>4, <1>5, <1>6, <1>7, <1>8, <1>9, <1>10, <1>11,
     <1>12, <1>13, <1>14, <1>15, <1>16, <1>17, <1>18, <1>19, <1>20, <1>21 DEF Next,
     Framework, UIThread, PublishThread

(* For every level of every scale below 128, in whatever order broadcasts  *)
(* and restarts come, the level kept is the percentage of the broadcast    *)
(* received last, cut to an integer or, if it is one, perhaps one less     *)
(* (MainActivity.java:217).                                                *)
THEOREM BatteryKnown == Spec => []BatteryClose
<1>1. Init => BatteryClose
  BY DEF Init, BatteryClose, State!Init, NoBroadcast
<1>2. ASSUME Guarded, BatteryClose, [Next]_vars
      PROVE  BatteryClose'
  <2>1. CASE BatteryChanged
    <3>1. PICK b \in Broadcasts :
            power' = b /\ device' = [device EXCEPT !.battery = Percent(b.level, b.scale)]
      BY <2>1 DEF BatteryChanged, State!SetBatteryLevel
    <3>2. device'.battery = Percent(b.level, b.scale)
      BY <1>2, <3>1 DEF Guarded
    <3> QED
      BY <3>1, <3>2, LevelReported DEF BatteryClose
  <2>2. CASE device'.battery = -1 /\ power' = NoBroadcast
    BY <2>2 DEF BatteryClose, NoBroadcast
  <2>3. CASE device'.battery = device.battery /\ power' = power
    BY <1>2, <2>3 DEF BatteryClose
  <2> QED
    BY <1>2, <2>1, <2>2, <2>3, BatterySteps DEF BatteryStep
<1> QED
  BY <1>1, <1>2, GuardedInvariant, PTL DEF Spec

-----------------------------------------------------------------------------
(* The identity.                                                           *)

(* The token a device has is the one of its alias. *)
LEMMA TokenOfAlias ==
  ASSUME auth.token = Auth!TokenPayload
  PROVE  Auth!TokenNamesDevice
<1>1. KeyAlias \in Seq(Token!Bytes)
  BY AliasAssumption DEF Token!Bytes
<1>2. auth.token = Token!TokenPayload
  <2>1. Auth!Claims = Token!Claims
    BY DEF Auth!Claims, Token!Claims, Auth!Before, Token!Before,
           Auth!After, Token!After
  <2>2. ASSUME NEW data
        PROVE  Auth!base64url(data) = Token!base64url(data)
    <3>1. ASSUME NEW g PROVE Auth!Group(data, g) = Token!Group(data, g)
      BY DEF Auth!Group, Token!Group, Auth!ByteAt, Token!ByteAt
    <3>2. ASSUME NEW b, NEW p PROVE Auth!Sextet(b, p) = Token!Sextet(b, p)
      BY DEF Auth!Sextet, Token!Sextet
    <3> QED
      BY <3>1, <3>2 DEF Auth!base64url, Token!base64url
  <2> QED
    BY <2>1, <2>2 DEF Auth!TokenPayload, Token!TokenPayload
<1>3. Token!TokenNamesDevice
  BY <1>1, <1>2, Token!TokenHoldsAlias
<1> QED
  BY <1>3 DEF Auth!TokenNamesDevice, Token!TokenNamesDevice,
     Auth!Before, Token!Before, Auth!After, Token!After, Auth!Decode, Token!Decode

(* Only init() and the end of the process touch the identity. *)
IdentityStep == Auth!InitKeys \/ Auth!Restart \/ UNCHANGED identity

LEMMA IdentitySteps == [Next]_vars => IdentityStep
<1> SUFFICES ASSUME [Next]_vars
             PROVE  IdentityStep
  OBVIOUS
<1> USE DEF IdentityStep, identity
<1>1. CASE OnCreate
  BY <1>1 DEF OnCreate
<1>2. CASE OnStart
  BY <1>2 DEF OnStart, NativeOnStart
<1>3. CASE OnResume
  BY <1>3 DEF OnResume, NativeOnStart
<1>4. CASE OnPause
  BY <1>4 DEF OnPause
<1>5. CASE OnStop
  BY <1>5 DEF OnStop
<1>6. CASE OnDestroy
  BY <1>6 DEF OnDestroy
<1>7. CASE ProcessEnds
  BY <1>7 DEF ProcessEnds
<1>8. CASE UserAnswers
  BY <1>8 DEF UserAnswers
<1>9. CASE OnRequestPermissionsResult
  BY <1>9 DEF OnRequestPermissionsResult
<1>10. CASE SurfaceCreated
  BY <1>10 DEF SurfaceCreated
<1>11. CASE SurfaceDestroyed
  BY <1>11 DEF SurfaceDestroyed
<1>12. CASE LocationChanged
  BY <1>12 DEF LocationChanged
<1>13. CASE BatteryChanged
  BY <1>13 DEF BatteryChanged
<1>14. CASE TelemetryStarts
  BY <1>14 DEF TelemetryStarts, publishKeeps
<1>15. CASE SurfaceChanged
  BY <1>15 DEF SurfaceChanged
<1>16. CASE LocationStored
  BY <1>16 DEF LocationStored
<1>17. CASE ReadPosition
  BY <1>17 DEF ReadPosition, publishKeeps
<1>18. CASE ReadTimestamp
  BY <1>18 DEF ReadTimestamp, publishKeeps
<1>19. CASE SendPayload
  BY <1>19 DEF SendPayload, publishKeeps
<1>20. CASE UNCHANGED vars
  BY <1>20 DEF vars
<1>21. CASE SurfaceResized
  BY <1>21 DEF SurfaceResized
<1> QED
  BY <1>1, <1>2, <1>3, <1>4, <1>5, <1>6, <1>7, <1>8, <1>9, <1>10, <1>11,
     <1>12, <1>13, <1>14, <1>15, <1>16, <1>17, <1>18, <1>19, <1>20, <1>21
     DEF Next, Framework, UIThread, PublishThread

(* Whatever the alias, the token of an initialized AuthManager names the   *)
(* device (AuthManager.cpp:135-143).                                       *)
Named == auth.initialized => auth.token = Auth!TokenPayload

THEOREM TokenReadable == Spec => []TokenNamesDevice
<1>1. Init => Named
  BY DEF Init, Named, Auth!Init
<1>2. Named /\ [Next]_vars => Named'
  <2>1. Named /\ IdentityStep => Named'
    BY DEF Named, IdentityStep, identity, Auth!InitKeys, Auth!Restart
  <2> QED
    BY <2>1, IdentitySteps
<1>3. Named => TokenNamesDevice
  <2>1. ASSUME ~auth.initialized
        PROVE  Auth!TokenNamesDevice
    BY <2>1 DEF Auth!TokenNamesDevice
  <2> QED
    BY <2>1, TokenOfAlias DEF Named, TokenNamesDevice
<1> QED
  BY <1>1, <1>2, <1>3, PTL DEF Spec
=============================================================================
