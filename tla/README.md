# Verification of ECproject

ECproject is an Android application that shows a camera preview and streams
audio, video and telemetry to a remote peer over WebRTC.  One Java activity
calls a C++ library through JNI.  The library owns every thread but the UI
thread, and most of what can go wrong in it is a matter of who may still be
running when something is deleted.  This directory holds TLA+ modules
translated from that code, TLC configurations that check them, and TLAPS proofs.

Paths below are relative to `src/app/src/main/`.

## 1. Inventory

| Component | State | Operations | Talks to |
|---|---|---|---|
| `MainActivity.java` | permissions, surface callbacks, location listener, battery receiver | the life cycle, the permission dialog and its answer, surface callbacks, `onLocationChanged`, `onReceive`, flip button | the JNI bridge, always on the UI thread |
| `cpp/native-lib.cpp` | the globals `app` and `webrtc` | `onStart`, `onStop`, `setSurface`, `releaseSurface`, `flipCamera`, `onGpsUpdate`, `onBatteryUpdate` | CV_Manager, WebRtcEngine, DeviceRuntime, AuthManager, DeviceState |
| `cpp/CV_Manager` | pointers to window, camera, reader, encoder and socket; loop flag; camera thread | `SetUpCamera`, `SetUpTCP`, `StartCameraLoop`, `StopCameraLoop`, `TearDownCamera`, `FlipCamera`, `CameraLoop` | owns Native_Camera and Image_Reader |
| `cpp/Native_Camera` | camera device, capture session, orientation | constructor, `MatchCaptureSizeRequest`, `CreateCaptureSession`, destructor | NDK camera |
| `cpp/Image_Reader` | image queue, rotation, scratch images | `GetLatestImage`, `DeleteImage`, `DisplayImage`, pixel conversion | NDK media |
| `cpp/webrtc/WebRtcEngine` | the objects of a session and `m_initialized` | `init`, `destroy`, `createOffer`, `setRemoteSdp`, `addIceCandidate`, `pushVideoFrame` | owns the next five, drives libwebrtc |
| `cpp/webrtc/AudioController` | `m_running`, capture thread, OpenSL ES objects | `start`, `stop`, `captureLoop` | microphone |
| `cpp/signaling/SignalingClient` | `m_running`, `m_connected`, the WebSocket | `connect`, `disconnect`, message callback, `dispatchMessage` | calls back into WebRtcEngine on the thread of the WebSocket |
| `cpp/telemetry/TelemetryPublisher` | `m_running`, publish thread | `start`, `stop`, `publishLoop` | reads DeviceState, sends on the data channel |
| `cpp/webrtc/PeerObserver`, `DataChannelController` | callbacks; `m_open` | callbacks of libwebrtc; `send` | run on the signaling thread of libwebrtc |
| `cpp/core/DeviceRuntime` | `m_running`, `m_connected`, session id | `start`, `stop`, `setConnected` | written by the UI thread and by the thread of the WebSocket |
| `cpp/signaling/JsonProtocol` | none | writes and reads the signaling messages | SignalingClient |
| `cpp/telemetry/DeviceState`, `GpsModel` | last fix behind a mutex, battery, signal | setters and getters | UI thread writes, publish thread reads |
| `cpp/security/AuthManager` | key pair in the Keystore, token | `init` | Android Keystore |
| `cpp/webrtc/VideoTrackSource` | none | `OnFrameAvailable`, `RgbaToI420` | libwebrtc; reached from `pushVideoFrame` only |
| `cpp/Encoder`, `cpp/socket_client-h264` | codec, socket | `InitCodec`, `Encode`, `ConnectToServer`, `SendData` | allocated by `SetUpTCP`, never driven |
| `cpp/webrtc/IceConfig`, `cpp/signaling/SdpSerializer`, `cpp/core/AppConfig`, `Logger`, `cpp/Util.h` | none, or constants | conversions and helpers | |

What is hard here, and the property that makes each part correct:

* **Activity.** The framework calls the life cycle, the surface and the
  permission callbacks in many orders.  In the background nothing may be open,
  registered or running; nothing may be used without permission; a surface must
  not be announced to a preview that is running, for `setSurface` then hangs.
* **Preview.** The UI thread deletes camera and reader while the camera thread
  draws.  Nothing deleted may be used, nothing may be lost, nothing may be drawn
  on a surface that is gone, and no entry point may block.
* **Engine.** Four kinds of threads are started by one `init` and joined by one
  `destroy`, one after the other, while callbacks keep arriving.  After `onStop`
  nothing may run; no `std::thread` may be destroyed unjoined; no callback may
  go through a pointer `destroy` has nulled; every join must end.
* **Failures.** OpenSL ES, the factory, the peer connection and the data channel
  may each refuse; the server may close; the peer may connect at a bad moment.
* **Data.** Sizes and ratios are compared with a tolerance; a crop, a colour and
  a percentage are computed with integers or floats; JSON is written and read by
  text search; a token is cut to a counted length; a fix is copied field by
  field between threads.

`PROJECT.json` lists every hazard at its line with the properties that watch it.

## 2. Modules

| Module | Models | State and actions |
|---|---|---|
| `MainActivity` | MainActivity and the dispatch of native-lib | one action per callback of the framework; `life` is the last lifecycle callback, `ui` the callback that is under way; the publish thread beside it |
| `DeviceState` | DeviceState | the record `device`; an operator per half of a copy under the mutex |
| `AuthManager` | AuthManager, with the Keystore; `init` is one step | `keystore` outlives the process, `auth` does not; `base64url`, and `Decode` as the reference |
| `CameraContract` | abstract: what each entry point leaves of the camera when it returns | `Call`, `Open`, `Return`; a call that finds a camera open where it should not does not return; `CVManager` refines it, `MainActivity` uses what the calls leave |
| `SurfaceContract` | abstract: what the view system asks of a thread that draws | four actions; `CVManager` refines it with `drawing <- held` |
| `SessionContract` | abstract: what a streaming session is to the caller of `onStart` and `onStop` | eight actions; `WebRtcEngine` refines it while nothing disturbs the session |
| `CVManager` | CV_Manager, with the lives of its Native_Camera and Image_Reader | `members` are the C++ members under their names; `liveCameras`, `liveReaders`, `acquired`... are the heap; `call` and `ui` are the entry point and the statement of the UI thread, `cam` that of the camera thread. One action per statement |
| `CaptureGeometry` | `MatchCaptureSizeRequest`, `BlitCenterCropToBuffer`, and a colour followed to the display | one turn of the loop per step; the scale and the product of the crop are rounded to float, the ratios of the choice are exact fractions |
| `Rounding` | a quotient rounded to the nearest whole number, ties to even | the step of float arithmetic in `CaptureGeometry` and `MainActivity` |
| `PixelConversion` | `YUV2RGB`, `ConvertYUV420ToRGBA`, `RgbaToI420` | arithmetic and addressing, no state |
| `AudioController`, `SignalingClient`, `TelemetryPublisher`, `DeviceRuntime` | the classes of these names | one record variable each; an operator per operation, without control |
| `WebRtcEngine` | WebRtcEngine, PeerObserver, DataChannelController, `onStart` and `onStop` | INSTANCEs the four modules above; `ui`, `handler` and `rtc` are the statements of the UI thread, the thread of the WebSocket and the signaling thread of libwebrtc |
| `JsonProtocol` | JsonProtocol and `dispatchMessage` | pure operators on sequences of tokens; `Object` is the layout every writer produces, `encodeSdp` and `encodeIce` with no blanks and in their own order; a device and a server that write messages, and the dispatch |
| `MC...` | the instances for TLC | |
| `...Proofs` | the proofs; those of WebRtcEngine are in two modules | |

`MainActivity` composes `CameraContract`, `DeviceRuntime`, `DeviceState`,
`AuthManager` and the publish thread.  It stands on the contract and not on
`CVManager` itself: `CameraDeviceFollows` shows that `CVManager` implements it,
so the two levels meet there and the product of their states is never built.
`CVManager` and `WebRtcEngine` share no variable: `native-lib.cpp` calls them
one after the other on the UI thread.  What the threads of `WebRtcEngine`
amount to for `native-lib.cpp`, the order in which the parts of a session begin
and end, is `SessionContract`.

### How the code is read

* A step is a statement that reads or writes something another thread can see.
  Statements that touch thread-local data only are merged with the next one.
* An object is the address it has while it lives, so a deleted address may be
  used again by the next allocation.
* A use of a deleted or null object is what an invariant excludes; it has no
  effect in the model.  `std::terminate` is the variable `terminated`, after
  which nothing happens.  A failed `ASSERT` ends the process and is left out,
  but for the one of `Native_Camera.cpp:52` when the camera is opened without the
  permission: it makes `ui` of `MainActivity` "aborted".
* The native `onStart` and `onStop` carry the names of the methods of `Activity`
  and so override them; the framework calls them once more than `onResume` and
  `onPause` do.  A second `onStart` finds the engine initialized, a second
  `onStop` finds everything torn down; the models allow both.  That neither
  calls `super`, for which the framework would throw, is outside of them.
* The submodules of libwebrtc and IXWebSocket are empty at this commit, so the
  stub build is the one it makes.  The full build is modelled as the source
  describes it (its assignments of `std::unique_ptr` to `rtc::scoped_refptr`
  would still have to be adapted).  The variable `setting` of `WebRtcEngine`
  says which build runs and which faults its environment has; it is chosen by
  `Init` and never changes.
* `peer` keeps the PeerConnection that can still call back.  `m_pc.release()`
  gives up the reference, so it stays alive until its threads are stopped.
* A `GpsModel` is two halves, the least for a copy to be torn; a sextet of
  base64url stands for its character.

## 3. Runs

| Run | Question | Expected |
|---|---|---|
| `activity` | every order of the callbacks with the publish thread and restarts of the process: is the background quiet, is each permission respected, does `setSurface` hang only when `surfaceChanged` is repeated, is a payload one fix and is each fix sent, does the token name the device, how close is the battery level? | pass |
| `activity_permission` | is the opening of the camera tried only with permission, if the activity is created again under the dialog? | violation |
| `activity_preview` | does an activity in the foreground show the preview? | violation |
| `cvmanager` | all interleavings of the entry points with the camera thread: no deleted object is used, none lost, two contracts implemented, no join waits for a loop that goes on but the one of a repeated `setSurface`, calls return, a preview left alone keeps drawing | pass |
| `cvmanager_repeat_hang` | does `setSurface` return when `surfaceChanged` is repeated? | violation |
| `capture_geometry` | how far from the best ratio can the chosen size be; how much of a frame of the shape of the window is shown, and how far from that shape may it be; how far is a colour from the standard? | pass |
| `capture_fit` | does the crop lie in the frame? | violation |
| `preview_colours` | are the bytes of a pixel in the order of the buffer format? | violation |
| `engine` | all interleavings of `onStart`, `onStop`, the audio and publish threads and the callbacks, in both builds and with all faults: does nothing run after `onStop`, is no thread abandoned, when is a callback dangling, does the runtime know of the connection, is a session taken down in the order it stands (`SessionStacked`), is each join one that ends, do calls return? | pass |
| `engine_stub_capture`, `engine_reconnect` | one fault each: a refused microphone, a server that closes | violation |
| `json_protocol` | what is written is read back, and the server is understood | pass |

What a fault breaks, a property states for the settings without it: in the
`engine` run `ThreadsJoined` excepts `captureFails` and `overlap`;
`QuietUndisturbed`, `PeerNotNull`, `ChannelKept` and `SessionStacked` hold when
`Undisturbed` (no `factoryFails`, `serverCloses`, `overlap`); `ObserverAlive`
names the faults under which a callback may find a deleted observer;
`ConnectedAgrees`, `MicrophoneReleased`, `JoinsEnd` and `CallReturns` hold for
all of them.  So `PeerNotNull`, `ChannelKept`, `QuietUndisturbed` and
`SessionStacked` are not claimed once the server has closed the connection; and
peer events that fall into `onStop`, the callback of `CreateOffer` during
`destroy` among them, are excluded from these four and from `ThreadsJoined`.
`QuietInBackground` of `MainActivity` speaks of the flag of the runtime and of
the publish thread only: the WebSocket may survive `onStop` (violation 6).
Likewise `NoOrphan`, `FrameUpright` and `CleanCallReturns` of `CVManager` except
a history in which `setSurface` found a camera open (`overrun`), which every
other property allows; `CameraDeviceFollows` says of it that the call does not
return.

What the violations show (details and quotes under "findings"):

1. *A repeated `surfaceChanged` hangs the UI thread.* `StartCameraLoop` clears
   the flag the running loop looks at and then joins that loop.  This is no
   matter of luck: `RepeatHangs` proves that such a call never returns.
2. *No preview in the foreground.* `onStop` destroys the camera, and only
   `setSurface` makes one, which nobody calls while the surface is kept; nor
   when the callback is added, after the permissions are granted, to a surface
   that is already there.
3. *The crop leaves the frame* when frame and window differ in shape: the scale
   is the larger of the two ratios where the smaller one would fit.  By
   `FrameFitsWhenClose` a difference of more than two pixels is enough.
4. *Red and blue are exchanged.* `YUV2RGB` returns 0xFFRRGGBB as a word, which a
   little-endian device stores as blue, green, red, while the window is RGBX.
5. *A refused microphone ends the process at the next `onStart`*: `captureLoop`
   clears the flag on which `stop()` decides whether to join.  The refusal is
   the normal case, as `RECORD_AUDIO` is not among the permissions asked for.
6. *A server that closes leaves the WebSocket running after `onStop`*: the
   callback clears the flag on which `disconnect()` decides whether to stop.
7. *An answer without results counts as consent*: `allGranted` starts true and
   the loop over no results leaves it so.  The activity then tries to open the
   camera without permission; the device refuses, and the `ASSERT` of
   `Native_Camera.cpp:52` ends the process.

Weaknesses that have no run of their own:

* *A use after free when the server is reached again.*  `createOffer` replaces
  `m_peer_observer` at `WebRtcEngine.cpp:200` while the old PeerConnection, which
  reports to the old observer, lives on until line 221, or beyond if the new one
  cannot be made.  TLC reaches a callback in between; `ObserverAlive` says that
  there is no other place.  In the same way `createOffer` then replaces the
  `DataChannelController` the publish thread may be sending on.
* A frame of the very shape of the window may lose its last row or column to the
  rounding of `float`: 3000 x 4000 on a window of 1440 x 1920 loses a row
  (`SameShapeShown`, which also says that no more is lost).
* Without the hypothesis `Undisturbed` the engine run also violates
  `QuietWhenStopped` in two other ways.  With `factoryFails`, `init` returns
  early with the microphone open, and `destroy` undoes nothing of an engine that
  is not initialized.  With `overlap`, a peer that connects while `onStop` runs
  starts the telemetry again after it has been stopped.
* `Orders <- AllOrders` in `JsonProtocol.cfg` violates `ServerUnderstood`: a
  candidate is read from another key when its members come in another order.
* The tolerance of 0.01 adds up over the entries of the camera, so the closest
  ratio is not always chosen; `DriftBound` says how far it can be missed.
* 53 and 59 per cent of a battery that counts to 100 are reported one too low,
  by the rounding of `float` (`BatteryClose`, `PercentsBelow`).
* `AuthManager.h:16` speaks of a signed token; `init` appends the constant
  `.stub_sig`.  `AuthManager.cpp:141` counts one byte less than the claims have,
  so the last brace is missing; `TokenNamesDevice` says the rest is readable.
* `Image_Reader.h` does not declare several members `Image_Reader.cpp` uses
  (`rgbaScratch_`, `ConvertYUV420ToRGBA`); the models follow the `.cpp` file.

### Bounds, and why they are enough

* `MainActivity`: two fixes (`MaxFix`), the least for a payload to mix them, and
  two listeners, the least for one to be forgotten; `Broadcasts`, one level of
  each kind the computation tells apart: exact, one too low, full, of unknown
  scale.  The module `MCMainActivity` asserts besides that every level of every
  scale from 1 to 127 is close, and that `Decode` inverts `base64url` on texts
  of 0 to 4 bytes.  `Recreation` says whether the activity may be destroyed
  under its permission dialog.  An alias of four bytes has claims of a length
  that base64url does not fill up.
* `CVManager`: two windows, since the code remembers one and a new surface
  differs at most from it; two cameras and two readers, since a delete precedes
  every allocation except those of a repeated `setSurface`, after which the UI
  thread never returns; `MaxImages = 2`, the least that lets a leak of one image
  be seen before the reader is exhausted.  There is no other bound.
* `WebRtcEngine`: two observers and two channels, since `make_unique` allocates
  the new one before the old one is deleted.  `Settings` names what builds and
  environments a run has; a fault is `captureFails`, `factoryFails`,
  `peerFails`, `serverCloses` or `overlap` (events of the peer while `onStop`
  runs).  `AllSettings` has three: the full build with peer connections that
  cannot be made, the full build with the other four faults at once, and the
  stub build with refused microphones.  Sessions go on for ever.
* `CaptureGeometry`: a float of 12 bits (`Bits = 2048`, where C++ has 2^23), so
  that products of the small sides of the instance are rounded as those of real
  sides are; sides are below 8192 and a quarter of `Bits`; three entries, the
  least for which the tolerance adds up; two shapes of windows; camera sizes of
  the 4:3 shape, of two a little off and of 16:9, one of which loses a column to
  the rounding.  `Samples` are the corners of the cube of YUV, the limits of the
  nominal range and values on both sides of each clamp.
* `JsonProtocol`: values that hold every special character, alone, in a row, at
  the end and before letters that look like an escape; colons; keys.  The text
  is a sequence of tokens, a character or a word; `Tokens <- STRING` lets TLC
  use any.  `ValuesAssumption` keeps a candidate or a media identifier from
  ending in the name of a key: after a quote in the value the closing quote
  would then complete a key, which `find` may take for the member.  An SDP may
  end so, since it is the last member.  `Orders` are the orders of the members
  in a candidate of the server; `KnownOrders` are those the reader understands.

Deadlock is checked except in the two engine runs where the process may end
(`terminated`), which stops the model.

### Fairness

* `MainActivity!Spec`: weak fairness of the UI thread in a callback it has
  begun, and of the publish thread; the framework and the user owe nothing.
* `CVManager!Spec`: weak fairness of each thread, which a scheduler gives.
  Strong fairness of `GetLatestImage` and `LockWindow`, a camera that goes on
  delivering and a window that can be locked, is the hypothesis
  `DeviceFairness` of `PreviewFlows` and of nothing else.
* `WebRtcEngine!Spec`: weak fairness of each of the five threads, none of the
  user, the server or the peer.  Strong fairness of `OfferPeer`, `RtcThreads`
  and `StopThreads`: each waits for the signaling thread of libwebrtc, and an
  `rtc::Thread` serves its queue in order, so callbacks do not overtake it for
  ever.
* `CaptureGeometry` and `JsonProtocol` have no liveness.

## 4. Proofs

All theorems hold for every value of the constants under the named assumptions
of the modules (the null pointer is no address, numbers are natural numbers,
settings are builds with some of the five faults, an alias is made of bytes).

* **MainActivityProofs.** `TypesKept`, for any number of fixes and listeners.
  `QuietThroughLife` from `Quiet`, which ties camera,
  listener, receiver and runtime to the last lifecycle callback, and says that a
  registered listener is the one `stopGps` will remove.  `PermissionsAreAsked`
  and `OnlyRepeatsHang` from `Permitted`, for activities that are not created
  again under the dialog: a callback exists only after every permission was
  granted, and none while a request is out, so that the answer adds the first;
  and a camera that is open when a surface is announced belongs to that surface.
  `PayloadIsWhole` from `Guarded`: the two halves of a fix differ only while the
  UI thread has the mutex, and the draft is what the publish thread has read
  under it; for any number of fixes.  `TokenReadable` from
  `IdentityStep`: every step initialises, restarts or leaves the identity alone.
  `BatteryKnown`: the rounding of the two `float` operations loses at most one
  per cent and only when the percentage is whole, for every level and scale
  below 128 (`PercentExact`, by bounding each rounding by half a unit).
* **AuthManagerProofs.** `DecodeInverts`: base64url can be read back for data of
  every length, by the case of each remainder modulo three; from it
  `TokenHoldsAlias`, for every alias.
* **CVManagerProofs.** `IInv` says what each thread knows at each statement: the
  camera thread is gone wherever the UI thread deletes (`LoopIsGone`), what
  `CameraLoop` holds is a function of where it is (`LoopHolds`), pointers are
  null or alive (`PointersLive`), a camera exists from its allocation to its
  tear-down (`CameraIsThere`) and implies that the window is the one shown
  (`WindowKnown`).  None of the properties is inductive alone: that the reader
  is alive depends on the join, the join on the flag and the place of the other
  thread.  From `IInv`: `Typing`, `ReaderStaysLive`, `ImagesReturned`,
  `SetUpOnWindowShown`, and `Refinement` (`Spec => SurfaceRespected`), step by
  step.  `CameraRefinement` (`Spec => CameraDeviceFollows`: what each entry
  point leaves when it returns, `onStop` included) needs besides `LastCall`,
  that after an overrun the UI thread stays in the call it is in (which is
  `RepeatHangs`), and `NoObjectLost` (`NoOrphan`) needs `SInv`, that without one
  a set-up starts from null pointers.  `FramesAreUpright` follows from the same
  `SInv`: the rotation a reader is given is that of the camera beside it.
  `JoinsCanEnd` is the safety half of `CleanCallReturns`, with `Told`: a set-up
  begins without a camera, and without a camera no loop runs.
* **PixelConversionProofs.** The channels of `YUV2RGB` stay in bytes of their
  own and are within 1.2 of BT.601; `ConvertYUV420ToRGBA` reads within its
  planes for all even sizes and all strides; `RgbaToI420` computes the formula
  of its comment with an error of at most 1.5, and writes every place of its chroma
  planes and none outside, odd sizes included.
* **CaptureGeometryProofs.** `SameShapeIsShown`, for all sides below 8192 pixels
  and a quarter of `Bits`: the scale is the same number on both sides when the
  shapes agree (`LargerNear`, `ScaleNear`), each of the two roundings is off by
  half a unit (`NearestWithinHalf`), and the product is within one of the side
  (`CutNear`). `FrameFitsWhenClose`, for the same sides, from the same bounds,
  with the rounding of large products added; `ColoursShown`, from the theorems
  above; `Typing`; `DriftBounded`, for any number of entries, from `Drift` and
  lemmas on fractions: being off by hundredths adds up over the entries
  (`OffByAdds`).
* **WebRtcEngineProofs.** `Typing` is composed of a typing lemma per component
  and one per thread.  `MicrophoneStaysReleased`: the OpenSL ES objects are a
  function of the place in `captureLoop`, and no other thread touches them but
  by the operations of AudioController; for every set of faults.
  `NoThreadAbandoned` (`Spec => []ThreadsJoined`): its invariant `ThreadsInv`
  says that a joinable thread has its flag set or its join under way; the
  telemetry is started by another thread than it is joined by, so the invariant
  also needs that no peer callback is running while the UI thread is at work on
  it, which rests on the engine being down, the socket joined and the events
  over.  The two faults `ThreadsJoined` leaves out are those with which TLC
  finds the process ended. `JoinsCanEnd` (`Spec => []JoinsEnd`), the safety half
  of `CallReturns`, holds with all faults: `WaitsInv` says who has begun and who
  has been told to end at each join.  The one flag that can be raised again
  under a join is that of the publish thread, by a peer that connects during
  `onStop`; the callback then finds the thread joinable, so the process ends.
  `ConnectionKnown` (`Spec => []ConnectedAgrees`), with all faults, from
  `ConnectionInv`: what SignalingClient and DeviceRuntime hold follows from
  where the thread of the WebSocket is, once `onStart` has deleted the one an
  earlier session may have left behind.  `ObserverStaysAlive`, with all faults,
  from `ObserverInv`: without a failed `CreatePeerConnection` observer and
  connection are replaced by one call of `createOffer`, and without a server
  that closes `createOffer` runs once, before there is a connection
  (`OfferToCome`).
* **WebRtcEngineSessionProofs.** `SessionInv` describes an undisturbed session,
  in which OpenSL ES and the peer connection may fail: the WebSocket runs from
  `connect()` to the join in `disconnect()` and opens once in between; hence one
  peer connection is made, after the observer it calls; it calls back only
  outside of `destroy`; the publish thread runs between the connection of the
  peers and its join.  From it: `QuietAfterStop`, `PeerStaysThere` and
  `ChannelStays`.  Each of these rests on the order of the joins in `destroy`
  and not on a check next to the use. `SessionRefinement` (`Spec =>
  SessionStacked`), step by step, needs besides `Linked`: while the peers are
  connected the runtime counts as connected, and it stays so until `destroy` has
  joined the thread of the WebSocket.
* **JsonProtocolProofs.** The functions of the code are loops over the text,
  here recursive functions over the positions, so what they return is proved by
  induction with a set of naturals (`SetInduction`), which needs no operator as
  a parameter.  `JoinDefined` says what a fold by concatenation is; `ReadBack`,
  that `extractString` inverts `jsonEscape` at any place of any text;
  `FindFirst` and `FindToken`, that `find` returns the first occurrence;
  `ReadObject`, that every member of an object can be read, in every order and
  with every blank.  The argument for the last: the text that is searched for is
  a key and a quote after it.  Inside an escaped value a quote comes after a
  backslash (`EscapeQuotes`), so only the quote that closes a value could come
  after a key (`StringNear`), and does not by `ValuesAssumption`.
  `MessagesRoundTrip` follows with the invariant `Written`, that the text on the
  wire is what its writer makes of the message, and `ServerIsUnderstood` under
  the hypothesis that every order is `Known`, without which TLC finds it
  violated (section 3).  Both hold for every set of texts and every alphabet
  that has the characters the code looks for.

Only model-checked is what is temporal but not safety (`CallReturns`,
`CleanCallReturns`, `PreviewFlows`, `FixSent`), since liveness under fairness is out of the
prover's reach.

## 5. Not modelled

* `Encoder`, `SocketClientH264`, `SdpSerializer`, `IceConfig`, `RunCV` and
  `HaltCamera` are never driven by this program: they are allocated, or not even
  that.  `pushVideoFrame` is never called either, so `RgbaToI420` is the subject
  of theorems but of no run.
* In `MainActivity`, the flip button and its effect on the camera (it is an
  action of `CVManager`), binding, and the native callbacks that only log.
* The contents of SDP and ICE messages beyond their transport, and so what
  becomes of a candidate that arrives before the remote description.
* The number of peer connections and factories `release()` leaks.
* Failed `ASSERT`s, but for the refused camera in `MainActivity`, and exceptions
  of the Keystore, which end the process; a crash inside `AuthManager::init`,
  which is one step (that it keeps the key pair is the test of `containsAlias`
  before `generateKeyPair`, and no property restates it); the rounding of the
  ratios the capture size is chosen by; `m_signal_dbm`, which nothing sets.
* Build files, resources and the template tests have no behaviour.

## 6. Plan

Done, in this order: `SurfaceContract`, `CVManager` with its proofs;
`CaptureGeometry` with its theorem; the four components, `WebRtcEngine`, and
its proofs; `JsonProtocol`; `PixelConversion`; `CameraContract` with its
refinement, `DeviceState`, `AuthManager`, `MainActivity` and their proofs;
`SessionContract` with its refinement; the proofs of `JsonProtocol`, and those
that were left of `CVManager` and `MainActivity`.  Every safety property of
the passing runs is a theorem.

The safety halves of the two liveness properties of the joins, and the exact
conditions of the hang and of the crop that leaves the frame, are theorems too.

Next: the candidates that arrive before the remote description, and the
references `release()` leaks; both need the model of `WebRtcEngine` extended.
