---------------------------- MODULE WebRtcEngine ----------------------------
(***************************************************************************)
(* The life of the streaming engine: class WebRtcEngine, with the          *)
(* AudioController, SignalingClient, TelemetryPublisher, PeerObserver and  *)
(* DataChannelController it owns, and the DeviceRuntime it informs.        *)
(*                                                                         *)
(* Threads:                                                                *)
(*   - the UI thread runs the JNI entry points onStart and onStop (`ui`);  *)
(*   - the thread of the WebSocket runs the callbacks of SignalingClient   *)
(*     (`handler`), among them createOffer;                                *)
(*   - the signaling thread of libwebrtc (`rtc`) runs the callbacks of the *)
(*     peer connection;                                                    *)
(*   - the capture thread and the publish thread of the components.        *)
(*                                                                         *)
(* Objects that are allocated over and over are the addresses they have    *)
(* while they live.  std::terminate ends the process (`terminated`); a use *)
(* of a dead object is what the invariants speak of, and has no effect     *)
(* here.                                                                   *)
(***************************************************************************)
CONSTANTS
  Observers,  \* addresses for PeerObserver objects
  Channels,   \* addresses for DataChannelController objects
  NONE,       \* the null pointer
  Settings    \* the builds and environments to consider, see SettingTypes

FaultNames == {
  "captureFails",  \* OpenSL ES refuses the engine or the recorder
  "factoryFails",  \* CreatePeerConnectionFactory gives null
  "peerFails",     \* no PeerConnection, or no data channel
  "serverCloses",  \* the signaling server closes the connection
  "overlap" }      \* peer connection events while onStop runs

(* full: FALSE for the build without libwebrtc and IXWebSocket.            *)
(* faults: what the environment may do.                                    *)
SettingTypes == [full : BOOLEAN, faults : SUBSET FaultNames]

ASSUME NoneAssumption     == NONE \notin Observers \cup Channels
ASSUME SettingsAssumption == Settings \subseteq SettingTypes

VARIABLES
  setting,          \* the build and the environment of this execution
  audio, telemetry, signaling, runtime,    \* see the modules of their names
  m_initialized,
  m_pcf,            \* m_pcf is not null
  m_pc,             \* m_pc is not null
  m_peer_observer, m_data_channel,
  channel,          \* the DataChannel behind *m_data_channel, "closed" without
                    \* one; m_open says whether it is "open"
  peer,             \* the PeerConnection alive on the threads of libwebrtc
  ui, handler, rtc, \* next statements of the three threads
  terminated

pointers == <<m_initialized, m_pcf, m_pc, m_peer_observer, m_data_channel,
              channel>>
vars == <<setting, audio, telemetry, signaling, runtime, pointers, peer, ui,
          handler, rtc, terminated>>

Full   == setting.full
Faults == setting.faults

Audio     == INSTANCE AudioController
Telemetry == INSTANCE TelemetryPublisher
Signaling == INSTANCE SignalingClient
Runtime   == INSTANCE DeviceRuntime

NoPeer == [observer |-> NONE, state |-> "none"]

StartLabels == {"runtimeStart", "init", "dropAudio", "dropAudioJoin",
                "newAudio", "dropSignaling", "dropSignalingJoin",
                "dropTelemetry", "dropTelemetryJoin", "newTelemetry",
                "rtcThreads", "factory", "connect", "setInitialized"}
StopLabels  == {"destroy", "stopTelemetry", "joinTelemetry", "stopAudio",
                "joinAudio", "disconnect", "joinSocket", "resetChannel",
                "releasePc", "releasePcf", "stopThreads", "clearInitialized",
                "runtimeStop"}
HandlerLabels == {"none", "setConnected", "offerFactory", "offerObserver",
                  "offerPeer", "offerChannel", "offerCreate", "remoteCheck",
                  "remoteApply"}

TypeOK ==
  /\ setting \in Settings
  /\ Audio!TypeOK /\ Telemetry!TypeOK /\ Signaling!TypeOK /\ Runtime!TypeOK
  /\ m_initialized \in BOOLEAN /\ m_pcf \in BOOLEAN /\ m_pc \in BOOLEAN
  /\ m_peer_observer \in Observers \cup {NONE}
  /\ m_data_channel \in Channels \cup {NONE}
  /\ channel \in {"connecting", "open", "closed"}
  /\ peer \in [observer : Observers \cup {NONE},
               state : {"none", "new", "offering", "offered", "answered"}]
  /\ ui \in {"idle"} \cup StartLabels \cup StopLabels
  /\ handler \in HandlerLabels
  /\ rtc \in {"off", "idle", "offerReady", "localIce", "connected",
              "startTelemetry"}
  /\ terminated \in BOOLEAN

Init ==
  /\ setting \in Settings
  /\ Audio!Init /\ Telemetry!Init /\ Signaling!Init /\ Runtime!Init
  /\ m_initialized = FALSE /\ m_pcf = FALSE /\ m_pc = FALSE
  /\ m_peer_observer = NONE
  /\ m_data_channel = NONE /\ channel = "closed"
  /\ peer = NoPeer
  /\ ui = "idle" /\ handler = "none" /\ rtc = "off"
  /\ terminated = FALSE

-----------------------------------------------------------------------------
(* The UI thread: onStart.                                                 *)

Goto(from, to) == ~terminated /\ ui = from /\ ui' = to

others == <<handler, rtc, terminated, setting>>

OnStart == /\ Goto("idle", "runtimeStart")
           /\ UNCHANGED <<audio, telemetry, signaling, runtime, pointers,
                          peer, others>>

RuntimeStart == /\ Goto("runtimeStart", "init")
                /\ Runtime!Start
                /\ UNCHANGED <<audio, telemetry, signaling, pointers, peer,
                               others>>

(* init() of an initialized engine returns. *)
InitTest == /\ Goto("init", IF m_initialized THEN "idle" ELSE "dropAudio")
            /\ UNCHANGED <<audio, telemetry, signaling, runtime, pointers,
                           peer, others>>

(* m_audio = std::make_unique<AudioController>() destroys the one of an    *)
(* earlier init: stop(), and the members.                                  *)
DropAudio ==
  /\ Goto("dropAudio", IF audio.running THEN "dropAudioJoin" ELSE "newAudio")
  /\ Audio!Stop
  /\ UNCHANGED <<telemetry, signaling, runtime, pointers, peer, others>>

DropAudioJoin ==
  /\ Goto("dropAudioJoin", "newAudio")
  /\ Audio!Join
  /\ UNCHANGED <<telemetry, signaling, runtime, pointers, peer, others>>

NewAudio ==
  /\ Goto("newAudio", "dropSignaling")
  /\ terminated' = Audio!DeleteTerminates
  /\ Audio!NewAndStart
  /\ UNCHANGED <<telemetry, signaling, runtime, pointers, peer, handler, rtc,
                 setting>>

(* m_signaling = std::make_unique<SignalingClient>(url), likewise. *)
DropSignaling ==
  /\ Goto("dropSignaling", "dropSignalingJoin")
  /\ Signaling!DeleteSocket
  /\ UNCHANGED <<audio, telemetry, runtime, pointers, peer, others>>

DropSignalingJoin ==
  /\ Goto("dropSignalingJoin", "dropTelemetry")
  /\ signaling.ws = "off"
  /\ Signaling!New
  /\ UNCHANGED <<audio, telemetry, runtime, pointers, peer, others>>

(* m_telemetry = std::make_unique<TelemetryPublisher>(...), likewise. *)
DropTelemetry ==
  /\ Goto("dropTelemetry",
          IF telemetry.running THEN "dropTelemetryJoin" ELSE "newTelemetry")
  /\ Telemetry!StopFlag
  /\ UNCHANGED <<audio, signaling, runtime, pointers, peer, others>>

DropTelemetryJoin ==
  /\ Goto("dropTelemetryJoin", "newTelemetry")
  /\ Telemetry!Join
  /\ UNCHANGED <<audio, signaling, runtime, pointers, peer, others>>

NewTelemetry ==
  /\ Goto("newTelemetry", IF Full THEN "rtcThreads" ELSE "connect")
  /\ terminated' = Telemetry!DeleteTerminates
  /\ Telemetry!New
  /\ UNCHANGED <<audio, signaling, runtime, pointers, peer, handler, rtc,
                 setting>>

(* The three threads of libwebrtc are created and started.  Those of an    *)
(* init that failed are stopped and destroyed: what is left of a peer      *)
(* connection on them calls back no more.                                  *)
RtcThreads ==
  /\ Goto("rtcThreads", "factory")
  /\ rtc \in {"off", "idle"}
  /\ rtc' = "idle"
  /\ peer' = NoPeer
  /\ UNCHANGED <<audio, telemetry, signaling, runtime, pointers, handler,
                 terminated, setting>>

(* m_pcf = CreatePeerConnectionFactory(...); without one, return false. *)
Factory ==
  /\ \/ Goto("factory", "connect") /\ m_pcf' = TRUE
     \/ "factoryFails" \in Faults /\ Goto("factory", "idle") /\ m_pcf' = FALSE
  /\ UNCHANGED <<audio, telemetry, signaling, runtime, m_initialized, m_pc,
                 m_peer_observer, m_data_channel, channel, peer, others>>

(* m_signaling->connect().  Without IXWebSocket it calls onConnected       *)
(* itself, whose createOffer does nothing without libwebrtc.               *)
Connect ==
  /\ Goto("connect", "setInitialized")
  /\ \/ Full /\ Signaling!Connect /\ UNCHANGED runtime
     \/ ~Full /\ Signaling!ConnectStub /\ Runtime!SetConnected(TRUE)
  /\ UNCHANGED <<audio, telemetry, pointers, peer, others>>

SetInitialized ==
  /\ Goto("setInitialized", "idle")
  /\ m_initialized' = TRUE
  /\ UNCHANGED <<audio, telemetry, signaling, runtime, m_pcf, m_pc,
                 m_peer_observer, m_data_channel, channel, peer, others>>

-----------------------------------------------------------------------------
(* The UI thread: onStop, after TearDownCamera (see CVManager).            *)

Overlap == "overlap" \in Faults

OnStop == /\ Goto("idle", "destroy")
          /\ Overlap \/ rtc \in {"off", "idle"}
          /\ UNCHANGED <<audio, telemetry, signaling, runtime, pointers, peer,
                         others>>

(* destroy() of an engine that is not initialized returns. *)
DestroyTest ==
  /\ Goto("destroy", IF m_initialized THEN "stopTelemetry" ELSE "runtimeStop")
  /\ UNCHANGED <<audio, telemetry, signaling, runtime, pointers, peer, others>>

StopTelemetry ==
  /\ Goto("stopTelemetry",
          IF telemetry.running THEN "joinTelemetry" ELSE "stopAudio")
  /\ Telemetry!StopFlag
  /\ UNCHANGED <<audio, signaling, runtime, pointers, peer, others>>

JoinTelemetry ==
  /\ Goto("joinTelemetry", "stopAudio")
  /\ Telemetry!Join
  /\ UNCHANGED <<audio, signaling, runtime, pointers, peer, others>>

(* Mutant: stop() of the audio clears its flag and does not join. *)
Bug_StopWithoutJoin ==
  /\ Goto("stopAudio", "disconnect")
  /\ Audio!Stop
  /\ UNCHANGED <<telemetry, signaling, runtime, pointers, peer, others>>

StopAudio ==
  /\ Goto("stopAudio", IF audio.running THEN "joinAudio" ELSE "disconnect")
  /\ Audio!Stop
  /\ UNCHANGED <<telemetry, signaling, runtime, pointers, peer, others>>

JoinAudio ==
  /\ Goto("joinAudio", "disconnect")
  /\ Audio!Join
  /\ UNCHANGED <<telemetry, signaling, runtime, pointers, peer, others>>

AfterDisconnect == IF Full THEN "resetChannel" ELSE "clearInitialized"

(* m_signaling->disconnect(): if (!m_running.exchange(false)) return; ... *)
Disconnect ==
  /\ Goto("disconnect",
          IF signaling.running THEN "joinSocket" ELSE AfterDisconnect)
  /\ IF signaling.running THEN Signaling!StopSocket ELSE UNCHANGED signaling
  /\ UNCHANGED <<audio, telemetry, runtime, pointers, peer, others>>

(* ... when the WebSocket has stopped, m_connected = false, and            *)
(* onDisconnected is called.                                               *)
JoinSocket ==
  /\ Goto("joinSocket", AfterDisconnect)
  /\ Signaling!SocketJoined
  /\ Runtime!SetConnected(FALSE)
  /\ UNCHANGED <<audio, telemetry, pointers, peer, others>>

(* m_data_channel.reset() *)
ResetChannel ==
  /\ Goto("resetChannel", "releasePc")
  /\ m_data_channel' = NONE
  /\ channel' = "closed"
  /\ UNCHANGED <<audio, telemetry, signaling, runtime, m_initialized, m_pcf,
                 m_pc, m_peer_observer, peer, others>>

(* m_pc.release() nulls the pointer and keeps the reference it held: the   *)
(* PeerConnection stays alive.                                             *)
ReleasePc ==
  /\ Goto("releasePc", "releasePcf")
  /\ m_pc' = FALSE
  /\ UNCHANGED <<audio, telemetry, signaling, runtime, m_initialized, m_pcf,
                 m_peer_observer, m_data_channel, channel, peer, others>>

(* m_pcf.release(), likewise. *)
ReleasePcf ==
  /\ Goto("releasePcf", "stopThreads")
  /\ m_pcf' = FALSE
  /\ UNCHANGED <<audio, telemetry, signaling, runtime, m_initialized, m_pc,
                 m_peer_observer, m_data_channel, channel, peer, others>>

(* m_signaling_thread->Stop() joins it: a PeerConnection that is left      *)
(* behind calls back no more.                                              *)
StopThreads ==
  /\ Goto("stopThreads", "clearInitialized")
  /\ rtc \in {"off", "idle"}
  /\ rtc' = "off"
  /\ peer' = NoPeer
  /\ UNCHANGED <<audio, telemetry, signaling, runtime, pointers, handler,
                 terminated, setting>>

ClearInitialized ==
  /\ Goto("clearInitialized", "runtimeStop")
  /\ m_initialized' = FALSE
  /\ UNCHANGED <<audio, telemetry, signaling, runtime, m_pcf, m_pc,
                 m_peer_observer, m_data_channel, channel, peer, others>>

RuntimeStop ==
  /\ Goto("runtimeStop", "idle")
  /\ Runtime!Stop
  /\ UNCHANGED <<audio, telemetry, signaling, pointers, peer, others>>

UIThread ==
  \/ RuntimeStart \/ InitTest \/ DropAudio \/ DropAudioJoin \/ NewAudio
  \/ DropSignaling \/ DropSignalingJoin \/ DropTelemetry \/ DropTelemetryJoin
  \/ NewTelemetry \/ RtcThreads \/ Factory \/ Connect \/ SetInitialized
  \/ DestroyTest \/ StopTelemetry \/ JoinTelemetry \/ StopAudio \/ JoinAudio
  \/ Disconnect \/ JoinSocket \/ ResetChannel \/ ReleasePc \/ ReleasePcf
  \/ StopThreads \/ ClearInitialized \/ RuntimeStop

-----------------------------------------------------------------------------
(* The thread of the WebSocket: SignalingClient and its callbacks.         *)

wsKeeps == <<setting, audio, telemetry, m_initialized, m_pcf, ui, rtc,
             terminated>>

(* Open: onConnected -> setConnected(true), createOffer(). *)
SocketOpens ==
  /\ ~terminated
  /\ Signaling!Open
  /\ handler' = "setConnected"
  /\ UNCHANGED <<wsKeeps, runtime, m_pc, m_peer_observer, m_data_channel,
                 channel, peer>>

(* An answer or a candidate arrives: setRemoteSdp, addIceCandidate. *)
SocketMessage ==
  /\ ~terminated
  /\ Signaling!Message
  /\ handler' = "remoteCheck"
  /\ UNCHANGED <<wsKeeps, runtime, m_pc, m_peer_observer, m_data_channel,
                 channel, peer>>

(* The connection is closed by stop(), or by the server. *)
SocketCloses ==
  /\ ~terminated
  /\ signaling.stopping \/ "serverCloses" \in Faults
  /\ Signaling!Close
  /\ UNCHANGED <<wsKeeps, runtime, m_pc, m_peer_observer, m_data_channel,
                 channel, peer, handler>>

SocketClears ==
  /\ ~terminated
  /\ Signaling!ClearRunning
  /\ UNCHANGED <<wsKeeps, runtime, m_pc, m_peer_observer, m_data_channel,
                 channel, peer, handler>>

(* Mutant: onDisconnected does not inform DeviceRuntime. *)
Bug_CloseNotReported ==
  /\ ~terminated
  /\ Signaling!Closed
  /\ UNCHANGED <<wsKeeps, runtime, m_pc, m_peer_observer, m_data_channel,
                 channel, peer, handler>>

(* onDisconnected -> setConnected(false). *)
SocketClosed ==
  /\ ~terminated
  /\ Signaling!Closed
  /\ Runtime!SetConnected(FALSE)
  /\ UNCHANGED <<wsKeeps, m_pc, m_peer_observer, m_data_channel, channel,
                 peer, handler>>

SocketEnds ==
  /\ ~terminated
  /\ Signaling!GiveUp
  /\ UNCHANGED <<wsKeeps, runtime, m_pc, m_peer_observer, m_data_channel,
                 channel, peer, handler>>

-----------------------------------------------------------------------------
(* Callbacks of WebRtcEngine, on the same thread.                          *)

(* Go on to the next statement, or return to SignalingClient. *)
Proceed(from, to) ==
  /\ ~terminated /\ handler = from /\ handler' = to
  /\ IF to = "none" THEN Signaling!CallbackReturns ELSE UNCHANGED signaling

(* onConnected: setConnected(true). *)
OnConnected ==
  /\ Proceed("setConnected", "offerFactory")
  /\ Runtime!SetConnected(TRUE)
  /\ UNCHANGED <<wsKeeps, m_pc, m_peer_observer, m_data_channel, channel,
                 peer>>

(* createOffer: if (!m_pcf) return; *)
OfferFactory ==
  /\ Proceed("offerFactory", IF m_pcf THEN "offerObserver" ELSE "none")
  /\ UNCHANGED <<wsKeeps, runtime, m_pc, m_peer_observer, m_data_channel,
                 channel, peer>>

(* m_peer_observer = std::make_unique<PeerObserver>() *)
OfferObserver ==
  /\ Proceed("offerObserver", "offerPeer")
  /\ m_peer_observer' \in Observers \ {m_peer_observer}
  /\ UNCHANGED <<wsKeeps, runtime, m_pc, m_data_channel, channel, peer>>

(* m_pc = CreatePeerConnectionOrError(...), which reports to the new       *)
(* observer; the PeerConnection m_pc held before is closed and destroyed,  *)
(* once the callback it may be in has returned.                            *)
OfferPeer ==
  /\ Proceed("offerPeer", "offerChannel")
  /\ rtc \in {"off", "idle"}
  /\ m_pc' = TRUE
  /\ peer' = [observer |-> m_peer_observer, state |-> "new"]
  /\ channel' = "closed"
  /\ UNCHANGED <<wsKeeps, runtime, m_peer_observer, m_data_channel>>

(* CreatePeerConnectionOrError fails: createOffer returns. *)
OfferNoPeer ==
  /\ "peerFails" \in Faults
  /\ Proceed("offerPeer", "none")
  /\ UNCHANGED <<wsKeeps, runtime, m_pc, m_peer_observer, m_data_channel,
                 channel, peer>>

(* m_data_channel = std::make_unique<DataChannelController>(...), or, when *)
(* the channel cannot be created, the one there was.                       *)
OfferChannel ==
  /\ Proceed("offerChannel", "offerCreate")
  /\ \/ /\ m_data_channel' \in Channels \ {m_data_channel}
        /\ channel' = "connecting"
     \/ "peerFails" \in Faults /\ UNCHANGED <<m_data_channel, channel>>
  /\ UNCHANGED <<wsKeeps, runtime, m_pc, m_peer_observer, peer>>

(* Mutant: the observer is a local of createOffer, freed when it returns. *)
Bug_LocalObserver ==
  /\ Proceed("offerCreate", "none")
  /\ m_peer_observer' = NONE
  /\ peer' = IF peer.state = "new" THEN [peer EXCEPT !.state = "offering"]
                                   ELSE peer
  /\ UNCHANGED <<wsKeeps, runtime, m_pc, m_data_channel, channel>>

(* The tracks are added, and CreateOffer is asked for an offer.            *)
OfferCreate ==
  /\ Proceed("offerCreate", "none")
  /\ peer' = IF peer.state = "new" THEN [peer EXCEPT !.state = "offering"]
                                   ELSE peer
  /\ UNCHANGED <<wsKeeps, runtime, m_pc, m_peer_observer, m_data_channel,
                 channel>>

(* setRemoteSdp, addIceCandidate: if (!m_pc) return; *)
RemoteCheck ==
  /\ Proceed("remoteCheck", IF m_pc THEN "remoteApply" ELSE "none")
  /\ UNCHANGED <<wsKeeps, runtime, m_pc, m_peer_observer, m_data_channel,
                 channel, peer>>

(* Mutant: an answer is taken for a connection. *)
Bug_AnswerConnects ==
  /\ Proceed("remoteApply", "none")
  /\ peer' = [peer EXCEPT !.state = "connected"]
  /\ UNCHANGED <<wsKeeps, runtime, m_pc, m_peer_observer, m_data_channel,
                 channel>>

(* m_pc->SetRemoteDescription, or AddIceCandidate: an answer counts when   *)
(* an offer is out, and everything else changes nothing here.              *)
RemoteApply ==
  /\ Proceed("remoteApply", "none")
  /\ \/ peer.state = "offered" /\ peer' = [peer EXCEPT !.state = "answered"]
     \/ UNCHANGED peer
  /\ UNCHANGED <<wsKeeps, runtime, m_pc, m_peer_observer, m_data_channel,
                 channel>>

Handler == \/ OnConnected \/ OfferFactory \/ OfferObserver \/ OfferPeer
           \/ OfferNoPeer \/ OfferChannel \/ OfferCreate
           \/ RemoteCheck \/ RemoteApply

(* What the thread does of its own: calls it makes, and the way to its end. *)
SocketThread == SocketClears \/ SocketClosed \/ SocketEnds \/ Handler
                \/ (signaling.stopping /\ SocketCloses)

-----------------------------------------------------------------------------
(* The signaling thread of libwebrtc: callbacks of the PeerConnection.     *)

(* An event of the PeerConnection begins a callback. *)
PeerEvent(label) ==
  /\ ~terminated /\ rtc = "idle"
  /\ ui \in StopLabels => Overlap
  /\ rtc' = label

rtcKeeps == <<setting, audio, signaling, runtime, m_initialized, m_pcf, m_pc,
              m_peer_observer, m_data_channel, ui, handler>>

(* The offer is ready: CreateSdpObserver::OnSuccess. *)
OfferReady ==
  /\ peer.state = "offering"
  /\ PeerEvent("offerReady")
  /\ UNCHANGED <<rtcKeeps, telemetry, channel, peer, terminated>>

(* m_pc->SetLocalDescription, and m_signaling->sendSdp.                    *)
SendOffer ==
  /\ ~terminated /\ rtc = "offerReady" /\ rtc' = "idle"
  /\ peer' = IF peer.state = "offering" THEN [peer EXCEPT !.state = "offered"]
                                        ELSE peer
  /\ UNCHANGED <<rtcKeeps, telemetry, channel, terminated>>

(* A local candidate is found: PeerObserver::OnIceCandidate ... *)
LocalIce ==
  /\ peer.state \in {"offered", "answered"}
  /\ PeerEvent("localIce")
  /\ UNCHANGED <<rtcKeeps, telemetry, channel, peer, terminated>>

(* ... -> onLocalIce -> m_signaling->sendIce. *)
SendIce ==
  /\ ~terminated /\ rtc = "localIce" /\ rtc' = "idle"
  /\ UNCHANGED <<rtcKeeps, telemetry, channel, peer, terminated>>

(* The peers are connected: PeerObserver::OnConnectionChange(kConnected).  *)
(* The connection may be lost and found again; the loss changes nothing.   *)
PeerConnects ==
  /\ peer.state = "answered"
  /\ PeerEvent("connected")
  /\ UNCHANGED <<rtcKeeps, telemetry, channel, peer, terminated>>

(* onConnectionChange(true) -> m_telemetry->start(1000): the exchange ...  *)
StartTelemetry ==
  /\ ~terminated /\ rtc = "connected"
  /\ rtc' = IF telemetry.running THEN "idle" ELSE "startTelemetry"
  /\ Telemetry!StartFlag
  /\ UNCHANGED <<rtcKeeps, channel, peer, terminated>>

(* ... and the assignment of the thread. *)
SpawnTelemetry ==
  /\ ~terminated /\ rtc = "startTelemetry"
  /\ rtc' = "idle"
  /\ terminated' = Telemetry!StartTerminates
  /\ Telemetry!StartThread
  /\ UNCHANGED <<rtcKeeps, channel, peer>>

(* The data channel opens, or closes and stays closed: OnStateChange of    *)
(* DataChannelController.                                                  *)
ChannelChanges(from, to) ==
  /\ peer.state = "answered" /\ m_data_channel # NONE
  /\ PeerEvent("idle")
  /\ channel = from /\ channel' = to
  /\ UNCHANGED <<rtcKeeps, telemetry, peer, terminated>>

ChannelOpens  == ChannelChanges("connecting", "open")
ChannelCloses == ChannelChanges("open", "closed")

RtcThread == SendOffer \/ SendIce \/ StartTelemetry \/ SpawnTelemetry

-----------------------------------------------------------------------------
(* The capture thread, and the publish thread with the lambda of init() as *)
(* its m_send_fn.                                                          *)

CaptureThread ==
  /\ ~terminated
  /\ Audio!CaptureLoop \/ ("captureFails" \in Faults /\ Audio!Refused)
  /\ UNCHANGED <<telemetry, signaling, runtime, pointers, peer, ui, others>>

publishKeeps == <<audio, signaling, runtime, pointers, peer, ui, others>>

PublishWhile == /\ ~terminated
                /\ Telemetry!WhileTest
                /\ UNCHANGED publishKeeps

(* if (m_data_channel && m_data_channel->isOpen()) *)
PublishCheck ==
  /\ ~terminated
  /\ Telemetry!Move("check",
       IF m_data_channel # NONE /\ channel = "open" THEN "send" ELSE "while")
  /\ UNCHANGED publishKeeps

(* m_data_channel->send(payload); then sleep. *)
PublishSend == /\ ~terminated
               /\ Telemetry!Move("send", "while")
               /\ UNCHANGED publishKeeps

PublishThread == PublishWhile \/ PublishCheck \/ PublishSend

-----------------------------------------------------------------------------
Environment == \/ OnStart \/ OnStop
               \/ SocketOpens \/ SocketMessage \/ SocketCloses
               \/ OfferReady \/ LocalIce \/ PeerConnects
               \/ ChannelOpens \/ ChannelCloses

Next == \/ Environment \/ UIThread \/ SocketThread \/ RtcThread
        \/ CaptureThread \/ PublishThread

(* Every thread of the process is scheduled; the servers, the peer and the *)
(* user owe nothing.  The queue of an rtc::Thread is served in order, so a *)
(* call or a Stop posted to it is not overtaken by callbacks for ever.     *)
Fairness == /\ WF_vars(UIThread) /\ WF_vars(SocketThread) /\ WF_vars(RtcThread)
            /\ WF_vars(CaptureThread) /\ WF_vars(PublishThread)
            /\ SF_vars(OfferPeer) /\ SF_vars(RtcThreads) /\ SF_vars(StopThreads)

Spec == Init /\ [][Next]_vars /\ Fairness

-----------------------------------------------------------------------------
(* Properties.                                                             *)

(* No event of the peer falls into onStop, the server keeps the connection *)
(* and the factory is made.                                                *)
Undisturbed == Faults \cap {"factoryFails", "serverCloses", "overlap"} = {}

NeverTerminates == ~terminated

(* No std::thread is destroyed or overwritten before it is joined, when    *)
(* OpenSL ES does not refuse and no event of the peer falls into onStop.   *)
(* Without the two conditions it is the statement of AudioController.cpp:3,*)
(* that the audio starts and stops cleanly.                                *)
ThreadsJoined == Faults \cap {"captureFails", "overlap"} = {} => NeverTerminates

(* After onStop everything it stops has stopped: no capture, publish or    *)
(* WebSocket thread runs, the microphone is free, the device says it is    *)
(* not connected.  onStop "arrête caméra, WebRTC, DeviceRuntime"           *)
(* (MainActivity.java:57).                                                 *)
QuietWhenStopped ==
  ui = "idle" /\ ~runtime.running =>
    /\ audio.loop \in {"none", "done"} /\ audio.opensl = {}
    /\ telemetry.loop \in {"none", "done"}
    /\ signaling.ws = "off"
    /\ rtc = "off"
    /\ ~runtime.connected

(* The same, in both builds, while nothing disturbs the connection.        *)
QuietUndisturbed == Undisturbed => QuietWhenStopped

(* The publish thread sends on the channel it has checked: m_data_channel  *)
(* is neither reset nor replaced in between (WebRtcEngine.cpp:106).        *)
ChannelKept ==
  [][Undisturbed /\ telemetry.loop = "send" => UNCHANGED m_data_channel]_vars

(* When a PeerConnection calls an observer that is deleted, the server has *)
(* been reached again in this session; and createOffer has come from its   *)
(* line 200, which deletes the observer of the old connection, to 221,     *)
(* which closes that connection, or has returned in between at 219.  The   *)
(* old connection is alive then: the use after free is in the code, and    *)
(* this says where it ends.                                                *)
ObserverAlive ==
  rtc \in {"localIce", "connected"} /\ peer.observer # m_peer_observer
    => /\ "serverCloses" \in Faults
       /\ handler = "offerPeer" \/ "peerFails" \in Faults

(* No thread goes through m_pc or m_pcf after destroy has nulled it: the   *)
(* checks are made earlier, or not at all (WebRtcEngine.cpp:254).          *)
PeerNotNull ==
  Undisturbed =>
    /\ rtc = "offerReady" => m_pc
    /\ handler \in {"offerChannel", "offerCreate", "remoteApply"} => m_pc
    /\ handler = "offerPeer" => m_pcf

(* A runtime that is started is told of every change of the connection,    *)
(* whatever the server and the peer do, and also of a WebSocket that has   *)
(* connected again by itself (SignalingClient.cpp:63): it counts as        *)
(* connected exactly when SignalingClient does, but for the callback that  *)
(* is about to tell it, and for onStart, which has yet to delete what an   *)
(* earlier session left behind.                                            *)
ConnectedAgrees ==
  /\ runtime.running /\ ui \notin StartLabels
  /\ handler # "setConnected"
  /\ signaling.ws \notin {"clearRunning", "onDisconnected"}
  => (runtime.connected <=> signaling.connected)

(* Whatever way captureLoop ends, it leaves no OpenSL ES object behind, so *)
(* the microphone can be opened by the next init (AudioController.cpp:75). *)
MicrophoneReleased == audio.loop \in {"none", "clear", "done"} => audio.opensl = {}

(* The five threads of an undisturbed session make the session of          *)
(* SessionContract: the capture begins before the connection, the publish  *)
(* thread runs only while the device is connected, and both have ended     *)
(* when the connection is given up, and that when the runtime is stopped   *)
(* (WebRtcEngine.cpp:145, 160-162, native-lib.cpp:48).  An execution that  *)
(* may be disturbed is mapped to one in which nothing happens.             *)
Session == INSTANCE SessionContract WITH
  started   <- Undisturbed /\ runtime.running,
  capturing <- Undisturbed /\ audio.loop \notin {"none", "done"},
  linked    <- Undisturbed /\ runtime.connected,
  streaming <- Undisturbed /\ telemetry.loop \notin {"none", "done"}

SessionStacked == Session!Spec

(* A join of the UI thread waits for a thread that has begun and has been  *)
(* told to end, in every environment.  A peer that connects while the      *)
(* publish thread is being joined does raise its flag again; the join is   *)
(* then over with the process (TelemetryPublisher.cpp:18-27).              *)
JoinsEnd ==
  ~terminated =>
    /\ ui \in {"dropAudioJoin", "joinAudio"} /\ audio.joinable =>
         audio.loop # "none" /\ ~audio.running
    /\ ui \in {"dropTelemetryJoin", "joinTelemetry"} /\ telemetry.joinable =>
         /\ telemetry.loop # "none"
         /\ telemetry.running => rtc = "startTelemetry"
    /\ ui \in {"dropSignalingJoin", "joinSocket"} =>
         /\ signaling.stopping
         /\ signaling.ws = "calling" <=> handler # "none"

(* onStart and onStop return, unless the process has ended: no join waits  *)
(* for good.                                                               *)
CallReturns == (ui # "idle") ~> (ui = "idle" \/ terminated)
=============================================================================
