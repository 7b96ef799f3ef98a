------------------------- MODULE WebRtcEngineProofs -------------------------
(***************************************************************************)
(* Proofs about WebRtcEngine, for all addresses, both builds and every set *)
(* of faults: it keeps its types, and captureLoop leaves no OpenSL ES      *)
(* object behind; each join can end; DeviceRuntime and SignalingClient     *)
(* agree on the connection; and it is known where a peer connection may    *)
(* call an observer that is deleted.  And that the process is not ended by *)
(* a std::thread that is destroyed or overwritten before it is joined,     *)
(* when OpenSL ES does not refuse and no event of the peer falls into      *)
(* onStop.  With either of these faults TLC finds a run that ends it.      *)
(***************************************************************************)
EXTENDS WebRtcEngine, TLAPS

-----------------------------------------------------------------------------
(* Each operation of a component keeps the type of the component.          *)

AudioStep == \/ Audio!NewAndStart \/ Audio!Stop \/ Audio!Join
             \/ Audio!CaptureLoop \/ Audio!Refused \/ UNCHANGED audio

LEMMA AudioTyped ==
  ASSUME Audio!TypeOK, AudioStep
  PROVE  Audio!TypeOK'
<1> USE DEF Audio!TypeOK
<1>1. CASE Audio!NewAndStart
  BY <1>1 DEF Audio!NewAndStart
<1>2. CASE Audio!Stop
  BY <1>2 DEF Audio!Stop
<1>3. CASE Audio!Join
  BY <1>3 DEF Audio!Join
<1>4. CASE Audio!CaptureLoop
  BY <1>4 DEF Audio!CaptureLoop, Audio!Move, Audio!CreateEngine,
     Audio!CreateRecorder, Audio!Poll, Audio!CleanUp, Audio!ClearRunning
<1>5. CASE Audio!Refused
  BY <1>5 DEF Audio!Refused, Audio!NoEngine, Audio!NoRecorder, Audio!Move
<1>6. CASE UNCHANGED audio
  BY <1>6
<1> QED
  BY <1>1, <1>2, <1>3, <1>4, <1>5, <1>6 DEF AudioStep

TelemetryStep ==
  \/ Telemetry!StartFlag \/ Telemetry!StartThread \/ Telemetry!StopFlag
  \/ Telemetry!Join \/ Telemetry!New \/ Telemetry!WhileTest
  \/ UNCHANGED telemetry

LEMMA TelemetryTyped ==
  ASSUME Telemetry!TypeOK,
         TelemetryStep \/ PublishCheck \/ PublishSend
  PROVE  Telemetry!TypeOK'
<1> USE DEF Telemetry!TypeOK
<1>1. CASE Telemetry!StartFlag
  BY <1>1 DEF Telemetry!StartFlag
<1>2. CASE Telemetry!StartThread
  BY <1>2 DEF Telemetry!StartThread
<1>3. CASE Telemetry!StopFlag
  BY <1>3 DEF Telemetry!StopFlag
<1>4. CASE Telemetry!Join
  BY <1>4 DEF Telemetry!Join
<1>5. CASE Telemetry!New
  BY <1>5 DEF Telemetry!New, Telemetry!Fresh
<1>6. CASE Telemetry!WhileTest
  BY <1>6 DEF Telemetry!WhileTest, Telemetry!Move
<1>7. CASE PublishCheck
  BY <1>7 DEF PublishCheck, Telemetry!Move
<1>8. CASE PublishSend
  BY <1>8 DEF PublishSend, Telemetry!Move
<1>9. CASE UNCHANGED telemetry
  BY <1>9
<1> QED
  BY <1>1, <1>2, <1>3, <1>4, <1>5, <1>6, <1>7, <1>8, <1>9 DEF TelemetryStep

SignalingStep ==
  \/ Signaling!New \/ Signaling!Connect \/ Signaling!ConnectStub
  \/ Signaling!StopSocket \/ Signaling!SocketJoined \/ Signaling!DeleteSocket
  \/ Signaling!Open \/ Signaling!Message \/ Signaling!CallbackReturns
  \/ Signaling!Close \/ Signaling!ClearRunning \/ Signaling!Closed
  \/ Signaling!GiveUp \/ UNCHANGED signaling

LEMMA SignalingTyped ==
  ASSUME Signaling!TypeOK, SignalingStep
  PROVE  Signaling!TypeOK'
<1> USE DEF Signaling!TypeOK
<1>1. CASE Signaling!New
  BY <1>1 DEF Signaling!New, Signaling!Fresh
<1>2. CASE Signaling!Connect
  BY <1>2 DEF Signaling!Connect
<1>3. CASE Signaling!ConnectStub
  BY <1>3 DEF Signaling!ConnectStub
<1>4. CASE Signaling!StopSocket
  BY <1>4 DEF Signaling!StopSocket
<1>5. CASE Signaling!SocketJoined
  BY <1>5 DEF Signaling!SocketJoined
<1>6. CASE Signaling!DeleteSocket
  BY <1>6 DEF Signaling!DeleteSocket
<1>7. CASE Signaling!Open
  BY <1>7 DEF Signaling!Open
<1>8. CASE Signaling!Message
  BY <1>8 DEF Signaling!Message
<1>9. CASE Signaling!CallbackReturns
  BY <1>9 DEF Signaling!CallbackReturns
<1>10. CASE Signaling!Close
  BY <1>10 DEF Signaling!Close
<1>11. CASE Signaling!ClearRunning
  BY <1>11 DEF Signaling!ClearRunning
<1>12. CASE Signaling!Closed
  BY <1>12 DEF Signaling!Closed
<1>13. CASE Signaling!GiveUp
  BY <1>13 DEF Signaling!GiveUp
<1>14. CASE UNCHANGED signaling
  BY <1>14
<1> QED
  BY <1>1, <1>2, <1>3, <1>4, <1>5, <1>6, <1>7, <1>8, <1>9, <1>10, <1>11, <1>12, <1>13, <1>14 DEF SignalingStep

RuntimeStep == \/ Runtime!Start \/ Runtime!Stop
               \/ Runtime!SetConnected(TRUE) \/ Runtime!SetConnected(FALSE)
               \/ UNCHANGED runtime

LEMMA RuntimeTyped ==
  ASSUME Runtime!TypeOK, RuntimeStep
  PROVE  Runtime!TypeOK'
<1> USE DEF Runtime!TypeOK
<1>1. CASE Runtime!Start
  BY <1>1 DEF Runtime!Start
<1>2. CASE Runtime!Stop
  BY <1>2 DEF Runtime!Stop
<1>3. CASE Runtime!SetConnected(TRUE)
  BY <1>3 DEF Runtime!SetConnected
<1>4. CASE Runtime!SetConnected(FALSE)
  BY <1>4 DEF Runtime!SetConnected
<1>5. CASE UNCHANGED runtime
  BY <1>5
<1> QED
  BY <1>1, <1>2, <1>3, <1>4, <1>5 DEF RuntimeStep

LEMMA Flags ==
  ASSUME Audio!TypeOK, Telemetry!TypeOK
  PROVE  /\ Audio!DeleteTerminates \in BOOLEAN
         /\ Telemetry!DeleteTerminates \in BOOLEAN
         /\ Telemetry!StartTerminates \in BOOLEAN
BY DEF Audio!TypeOK, Telemetry!TypeOK, Audio!DeleteTerminates,
       Telemetry!DeleteTerminates, Telemetry!StartTerminates

-----------------------------------------------------------------------------
(* Type correctness.                                                       *)

LEMMA Initially == Init => TypeOK
<1> SUFFICES ASSUME Init PROVE TypeOK
  OBVIOUS
<1>1. Audio!TypeOK
  BY DEF Init, Audio!Init, Audio!TypeOK, Audio!Fresh
<1>2. Telemetry!TypeOK
  BY DEF Init, Telemetry!Init, Telemetry!TypeOK, Telemetry!Fresh
<1>3. Signaling!TypeOK
  BY DEF Init, Signaling!Init, Signaling!TypeOK, Signaling!Fresh
<1>4. Runtime!TypeOK
  BY DEF Init, Runtime!Init, Runtime!TypeOK
<1>5. /\ m_initialized \in BOOLEAN /\ m_pcf \in BOOLEAN /\ m_pc \in BOOLEAN
      /\ terminated \in BOOLEAN
  BY Zenon DEF Init
<1>6. peer \in [observer : Observers \cup {NONE},
               state : {"none", "new", "offering", "offered", "answered"}]
  BY DEF Init, NoPeer
<1> QED
  BY <1>1, <1>2, <1>3, <1>4, <1>5, <1>6 DEF Init, TypeOK, HandlerLabels

LEMMA UIThreadTyped == ASSUME TypeOK, UIThread PROVE TypeOK'
<1> USE AudioTyped, TelemetryTyped, SignalingTyped, RuntimeTyped, Flags
        DEF TypeOK, pointers, others, AudioStep, TelemetryStep, SignalingStep,
            RuntimeStep, Goto, StartLabels, StopLabels
<1>1. CASE RuntimeStart
  BY <1>1 DEF RuntimeStart
<1>2. CASE InitTest
  BY <1>2 DEF InitTest
<1>3. CASE DropAudio
  BY <1>3 DEF DropAudio
<1>4. CASE DropAudioJoin
  BY <1>4 DEF DropAudioJoin
<1>5. CASE NewAudio
  BY <1>5 DEF NewAudio
<1>6. CASE DropSignaling
  BY <1>6 DEF DropSignaling
<1>7. CASE DropSignalingJoin
  BY <1>7 DEF DropSignalingJoin
<1>8. CASE DropTelemetry
  BY <1>8 DEF DropTelemetry
<1>9. CASE DropTelemetryJoin
  BY <1>9 DEF DropTelemetryJoin
<1>10. CASE NewTelemetry
  BY <1>10 DEF NewTelemetry
<1>11. CASE RtcThreads
  BY <1>11 DEF RtcThreads, NoPeer
<1>12. CASE Factory
  <2>1. m_pcf' \in BOOLEAN
    BY <1>12, Zenon DEF Factory
  <2> QED
    BY <1>12, <2>1 DEF Factory
<1>13. CASE Connect
  <2>1. SignalingStep /\ RuntimeStep
    BY <1>13 DEF Connect
  <2>2. Signaling!TypeOK' /\ Runtime!TypeOK'
    BY <2>1
  <2> QED
    BY <1>13, <2>2 DEF Connect
<1>14. CASE SetInitialized
  BY <1>14 DEF SetInitialized
<1>15. CASE DestroyTest
  BY <1>15 DEF DestroyTest
<1>16. CASE StopTelemetry
  BY <1>16 DEF StopTelemetry
<1>17. CASE JoinTelemetry
  BY <1>17 DEF JoinTelemetry
<1>18. CASE StopAudio
  BY <1>18 DEF StopAudio
<1>19. CASE JoinAudio
  BY <1>19 DEF JoinAudio
<1>20. CASE Disconnect
  BY <1>20 DEF Disconnect, AfterDisconnect
<1>21. CASE JoinSocket
  BY <1>21 DEF JoinSocket, AfterDisconnect
<1>22. CASE ResetChannel
  BY <1>22 DEF ResetChannel
<1>23. CASE ReleasePc
  <2>1. m_pc' \in BOOLEAN
    BY <1>23, Zenon DEF ReleasePc
  <2> QED
    BY <1>23, <2>1 DEF ReleasePc
<1>24. CASE ReleasePcf
  <2>1. m_pcf' \in BOOLEAN
    BY <1>24, Zenon DEF ReleasePcf
  <2> QED
    BY <1>24, <2>1 DEF ReleasePcf
<1>25. CASE StopThreads
  BY <1>25 DEF StopThreads, NoPeer
<1>26. CASE ClearInitialized
  <2>1. m_initialized' \in BOOLEAN
    BY <1>26, Zenon DEF ClearInitialized
  <2> QED
    BY <1>26, <2>1 DEF ClearInitialized
<1>27. CASE RuntimeStop
  BY <1>27 DEF RuntimeStop
<1> QED
  BY <1>1, <1>2, <1>3, <1>4, <1>5, <1>6, <1>7, <1>8, <1>9, <1>10, <1>11, <1>12, <1>13, <1>14, <1>15, <1>16, <1>17, <1>18, <1>19, <1>20, <1>21, <1>22, <1>23, <1>24, <1>25, <1>26, <1>27 DEF UIThread

LEMMA HandlerTyped == ASSUME TypeOK, Handler PROVE TypeOK'
<1> USE AudioTyped, TelemetryTyped, SignalingTyped, RuntimeTyped, Flags
        DEF TypeOK, pointers, others, AudioStep, TelemetryStep, SignalingStep,
            RuntimeStep, wsKeeps, Proceed, HandlerLabels
<1>1. CASE OnConnected
  BY <1>1 DEF OnConnected
<1>2. CASE OfferFactory
  BY <1>2 DEF OfferFactory
<1>3. CASE OfferObserver
  BY <1>3 DEF OfferObserver
<1>4. CASE OfferPeer
  BY <1>4 DEF OfferPeer
<1>5. CASE OfferNoPeer
  BY <1>5 DEF OfferNoPeer
<1>6. CASE OfferChannel
  BY <1>6 DEF OfferChannel
<1>7. CASE OfferCreate
  BY <1>7 DEF OfferCreate
<1>8. CASE RemoteCheck
  BY <1>8 DEF RemoteCheck
<1>9. CASE RemoteApply
  BY <1>9 DEF RemoteApply
<1> QED
  BY <1>1, <1>2, <1>3, <1>4, <1>5, <1>6, <1>7, <1>8, <1>9 DEF Handler

LEMMA SocketThreadTyped == ASSUME TypeOK, SocketThread PROVE TypeOK'
<1> USE AudioTyped, TelemetryTyped, SignalingTyped, RuntimeTyped, Flags
        DEF TypeOK, pointers, others, AudioStep, TelemetryStep, SignalingStep,
            RuntimeStep, wsKeeps
<1>1. CASE SocketClears
  BY <1>1 DEF SocketClears
<1>2. CASE SocketClosed
  BY <1>2 DEF SocketClosed
<1>3. CASE SocketEnds
  BY <1>3 DEF SocketEnds
<1>4. CASE SocketCloses
  BY <1>4 DEF SocketCloses
<1>5. CASE Handler
  BY <1>5, HandlerTyped
<1> QED
  BY <1>1, <1>2, <1>3, <1>4, <1>5 DEF SocketThread

LEMMA RtcThreadTyped == ASSUME TypeOK, RtcThread PROVE TypeOK'
<1> USE AudioTyped, TelemetryTyped, SignalingTyped, RuntimeTyped, Flags
        DEF TypeOK, pointers, others, AudioStep, TelemetryStep, SignalingStep,
            RuntimeStep, rtcKeeps
<1>1. CASE SendOffer
  BY <1>1 DEF SendOffer
<1>2. CASE SendIce
  BY <1>2 DEF SendIce
<1>3. CASE StartTelemetry
  BY <1>3 DEF StartTelemetry
<1>4. CASE SpawnTelemetry
  BY <1>4 DEF SpawnTelemetry
<1> QED
  BY <1>1, <1>2, <1>3, <1>4 DEF RtcThread

LEMMA PublishThreadTyped == ASSUME TypeOK, PublishThread PROVE TypeOK'
<1> USE AudioTyped, TelemetryTyped, SignalingTyped, RuntimeTyped, Flags
        DEF TypeOK, pointers, others, AudioStep, TelemetryStep, SignalingStep,
            RuntimeStep, publishKeeps
<1>1. CASE PublishWhile
  BY <1>1 DEF PublishWhile
<1>2. CASE PublishCheck
  BY <1>2 DEF PublishCheck
<1>3. CASE PublishSend
  BY <1>3 DEF PublishSend
<1> QED
  BY <1>1, <1>2, <1>3 DEF PublishThread

LEMMA CaptureThreadTyped == ASSUME TypeOK, CaptureThread PROVE TypeOK'
<1> USE AudioTyped, TelemetryTyped, SignalingTyped, RuntimeTyped, Flags
        DEF TypeOK, pointers, others, AudioStep, TelemetryStep, SignalingStep,
            RuntimeStep
<1>1. CASE CaptureThread
  BY <1>1 DEF CaptureThread
<1> QED
  BY <1>1

LEMMA EnvironmentTyped == ASSUME TypeOK, Environment PROVE TypeOK'
<1> USE AudioTyped, TelemetryTyped, SignalingTyped, RuntimeTyped, Flags
        DEF TypeOK, pointers, others, AudioStep, TelemetryStep, SignalingStep,
            RuntimeStep, Goto, StartLabels, StopLabels, HandlerLabels, wsKeeps, rtcKeeps
<1>1. CASE OnStart
  BY <1>1 DEF OnStart
<1>2. CASE OnStop
  BY <1>2 DEF OnStop
<1>3. CASE SocketOpens
  BY <1>3 DEF SocketOpens
<1>4. CASE SocketMessage
  BY <1>4 DEF SocketMessage
<1>5. CASE SocketCloses
  BY <1>5 DEF SocketCloses
<1>6. CASE OfferReady
  BY <1>6 DEF OfferReady, PeerEvent
<1>7. CASE LocalIce
  BY <1>7 DEF LocalIce, PeerEvent
<1>8. CASE PeerConnects
  BY <1>8 DEF PeerConnects, PeerEvent
<1>9. CASE ChannelOpens \/ ChannelCloses
  BY <1>9 DEF ChannelOpens, ChannelCloses, ChannelChanges, PeerEvent
<1> QED
  BY <1>1, <1>2, <1>3, <1>4, <1>5, <1>6, <1>7, <1>8, <1>9 DEF Environment

LEMMA StutterTyped == ASSUME TypeOK, UNCHANGED vars PROVE TypeOK'
BY DEF TypeOK, vars, pointers, Audio!TypeOK, Telemetry!TypeOK,
       Signaling!TypeOK, Runtime!TypeOK

(* Every variable keeps its type: no label, address or flag is ever set to *)
(* something the code has no statement or object for.                      *)
THEOREM Typing == Spec => []TypeOK
<1>1. TypeOK /\ [Next]_vars => TypeOK'
  BY UIThreadTyped, SocketThreadTyped, RtcThreadTyped, PublishThreadTyped,
     CaptureThreadTyped, EnvironmentTyped, StutterTyped DEF Next
<1> QED
  BY Initially, <1>1, PTL DEF Spec

-----------------------------------------------------------------------------
(* The OpenSL ES objects, by the place captureLoop has reached.            *)
OpenslMatchesLoop ==
  /\ audio.loop \in {"none", "createEngine", "clear", "done"} => audio.opensl = {}
  /\ audio.loop = "createRecorder" => audio.opensl = {"engine"}

(* Whatever the other threads do, `audio` changes by an operation of its   *)
(* own module.                                                             *)
LEMMA AudioOperations ==
  ASSUME [Next]_vars
  PROVE  AudioStep
<1> USE DEF AudioStep
<1>1. CASE Environment
  BY <1>1 DEF Environment, OnStart, OnStop, SocketOpens, SocketMessage,
     SocketCloses, OfferReady, LocalIce, PeerConnects, ChannelOpens,
     ChannelCloses, ChannelChanges, wsKeeps, rtcKeeps
<1>2. CASE UIThread
  <2> USE DEF UIThread
  <2>1. CASE \/ RuntimeStart \/ InitTest \/ DropAudio \/ DropAudioJoin
             \/ NewAudio \/ DropSignaling \/ DropSignalingJoin
             \/ DropTelemetry \/ DropTelemetryJoin \/ NewTelemetry
             \/ RtcThreads \/ Factory \/ Connect \/ SetInitialized
    BY <2>1 DEF RuntimeStart, InitTest, DropAudio, DropAudioJoin, NewAudio,
       DropSignaling, DropSignalingJoin, DropTelemetry, DropTelemetryJoin,
       NewTelemetry, RtcThreads, Factory, Connect, SetInitialized
  <2>2. CASE \/ DestroyTest \/ StopTelemetry \/ JoinTelemetry \/ StopAudio
             \/ JoinAudio \/ Disconnect \/ JoinSocket \/ ResetChannel
             \/ ReleasePc \/ ReleasePcf \/ StopThreads \/ ClearInitialized
             \/ RuntimeStop
    BY <2>2 DEF DestroyTest, StopTelemetry, JoinTelemetry, StopAudio,
       JoinAudio, Disconnect, JoinSocket, ResetChannel, ReleasePc, ReleasePcf,
       StopThreads, ClearInitialized, RuntimeStop
  <2> QED
    BY <1>2, <2>1, <2>2
<1>3. CASE SocketThread
  BY <1>3 DEF SocketThread, SocketClears, SocketClosed, SocketEnds,
     SocketCloses, Handler, OnConnected, OfferFactory, OfferObserver,
     OfferPeer, OfferNoPeer, OfferChannel, OfferCreate, RemoteCheck,
     RemoteApply, wsKeeps
<1>4. CASE RtcThread
  BY <1>4 DEF RtcThread, SendOffer, SendIce, StartTelemetry, SpawnTelemetry,
     rtcKeeps
<1>5. CASE CaptureThread
  BY <1>5 DEF CaptureThread
<1>6. CASE PublishThread
  BY <1>6 DEF PublishThread, PublishWhile, PublishCheck, PublishSend,
     publishKeeps
<1>7. CASE UNCHANGED vars
  BY <1>7 DEF vars
<1> QED
  BY <1>1, <1>2, <1>3, <1>4, <1>5, <1>6, <1>7 DEF Next

LEMMA OpenslKept ==
  ASSUME Audio!TypeOK, OpenslMatchesLoop, AudioStep
  PROVE  OpenslMatchesLoop'
<1> USE DEF Audio!TypeOK, OpenslMatchesLoop
<1>1. CASE Audio!NewAndStart
  BY <1>1 DEF Audio!NewAndStart
<1>2. CASE Audio!Stop
  BY <1>2 DEF Audio!Stop
<1>3. CASE Audio!Join
  BY <1>3 DEF Audio!Join
<1>4. CASE Audio!CaptureLoop
  <2>1. CASE Audio!CreateEngine \/ Audio!CreateRecorder
    BY <2>1 DEF Audio!CreateEngine, Audio!CreateRecorder
  <2>2. CASE Audio!Poll \/ Audio!CleanUp \/ Audio!ClearRunning
    BY <2>2 DEF Audio!Poll, Audio!CleanUp, Audio!ClearRunning, Audio!Move
  <2> QED
    BY <1>4, <2>1, <2>2 DEF Audio!CaptureLoop
<1>5. CASE Audio!Refused
  <2>1. CASE Audio!NoEngine
    BY <2>1 DEF Audio!NoEngine, Audio!Move
  <2>2. CASE Audio!NoRecorder
    BY <2>2 DEF Audio!NoRecorder
  <2> QED
    BY <1>5, <2>1, <2>2 DEF Audio!Refused
<1>6. CASE UNCHANGED audio
  BY <1>6
<1> QED
  BY <1>1, <1>2, <1>3, <1>4, <1>5, <1>6 DEF AudioStep

(* The microphone is free whenever captureLoop has ended, by whichever of  *)
(* its three returns, and however the other threads are interleaved with   *)
(* it: the next init can open it (AudioController.cpp:75).                 *)
THEOREM MicrophoneStaysReleased == Spec => []MicrophoneReleased
<1>1. Init => OpenslMatchesLoop
  BY DEF Init, Audio!Init, Audio!Fresh, OpenslMatchesLoop
<1>2. TypeOK /\ OpenslMatchesLoop /\ [Next]_vars => OpenslMatchesLoop'
  BY AudioOperations, OpenslKept DEF TypeOK
<1>3. OpenslMatchesLoop => MicrophoneReleased
  BY DEF OpenslMatchesLoop, MicrophoneReleased
<1> QED
  BY <1>1, <1>2, <1>3, Typing, PTL DEF Spec

-----------------------------------------------------------------------------
(* Joinable threads.  A server that closes the connection, and a factory   *)
(* or peer connection that cannot be made, are allowed.                    *)

Benign == "captureFails" \notin Faults /\ "overlap" \notin Faults

(* The engine has no peer connection: it is not initialized, or init has   *)
(* not made the factory yet.                                               *)
EngineDown ==
  \/ /\ ~m_initialized
     /\ ui \in {"idle", "runtimeStart", "init", "destroy", "runtimeStop"}
  \/ ui \in {"dropAudio", "dropAudioJoin", "newAudio", "dropSignaling",
             "dropSignalingJoin", "dropTelemetry", "dropTelemetryJoin",
             "newTelemetry", "rtcThreads"}

(* init has joined the WebSocket of an earlier init, and connects later. *)
SocketDown == ui \in {"dropTelemetry", "dropTelemetryJoin", "newTelemetry",
                      "rtcThreads", "factory", "connect"}

(* Who may touch the two joinable threads.  The capture thread belongs to  *)
(* the UI thread alone; the publish thread is started by the callbacks of  *)
(* the peer connection, so the UI thread must not be at work on it while   *)
(* one of them runs.                                                       *)
ThreadsInv ==
  /\ handler # "none" => signaling.ws = "calling"
  /\ SocketDown => signaling.ws = "off"
  /\ EngineDown => \/ rtc = "off"
                   \/ rtc = "idle" /\ peer = NoPeer /\ signaling.ws = "off"
  /\ ui = "rtcThreads" => Full
  /\ ui = "factory" => rtc = "idle" /\ peer = NoPeer
  /\ ui = "clearInitialized" \/ ~Full => rtc = "off"
  /\ rtc \notin {"off", "idle"} => ui \notin StopLabels
  /\ audio.joinable => audio.running \/ ui \in {"dropAudioJoin", "joinAudio"}
  /\ ui = "newAudio" => ~audio.joinable
  /\ audio.loop # "clear"
  /\ telemetry.joinable =>
       telemetry.running \/ ui \in {"dropTelemetryJoin", "joinTelemetry"}
  /\ ui = "newTelemetry" => ~telemetry.joinable
  /\ rtc = "startTelemetry" => telemetry.running /\ ~telemetry.joinable
  /\ ~terminated

-----------------------------------------------------------------------------
LEMMA UIThreadKeeps == ASSUME TypeOK, ThreadsInv, Benign, UIThread
  PROVE ThreadsInv'
<1> USE DEF TypeOK, ThreadsInv, EngineDown, SocketDown, Audio!TypeOK, Telemetry!TypeOK,
           Signaling!TypeOK, Benign, Full, Faults, StopLabels, pointers, others, Goto
<1>1. CASE RuntimeStart
  BY <1>1 DEF RuntimeStart
<1>2. CASE InitTest
  BY <1>2 DEF InitTest
<1>3. CASE DropAudio
  BY <1>3 DEF DropAudio, Audio!Stop
<1>4. CASE DropAudioJoin
  BY <1>4 DEF DropAudioJoin, Audio!Join
<1>5. CASE NewAudio
  BY <1>5 DEF NewAudio, Audio!NewAndStart, Audio!DeleteTerminates
<1>6. CASE DropSignaling
  BY <1>6 DEF DropSignaling, Signaling!DeleteSocket
<1>7. CASE DropSignalingJoin
  BY <1>7 DEF DropSignalingJoin, Signaling!New, Signaling!Fresh
<1>8. CASE DropTelemetry
  BY <1>8 DEF DropTelemetry, Telemetry!StopFlag
<1>9. CASE DropTelemetryJoin
  BY <1>9 DEF DropTelemetryJoin, Telemetry!Join
<1>10. CASE NewTelemetry
  BY <1>10 DEF NewTelemetry, Telemetry!New, Telemetry!Fresh, Telemetry!DeleteTerminates
<1>11. CASE RtcThreads
  BY <1>11 DEF RtcThreads, NoPeer
<1>12. CASE Factory
  BY <1>12 DEF Factory
<1>13. CASE Connect
  BY <1>13 DEF Connect, Signaling!Connect, Signaling!ConnectStub
<1>14. CASE SetInitialized
  BY <1>14 DEF SetInitialized
<1>15. CASE DestroyTest
  BY <1>15 DEF DestroyTest
<1>16. CASE StopTelemetry
  BY <1>16 DEF StopTelemetry, Telemetry!StopFlag
<1>17. CASE JoinTelemetry
  BY <1>17 DEF JoinTelemetry, Telemetry!Join
<1>18. CASE StopAudio
  BY <1>18 DEF StopAudio, Audio!Stop
<1>19. CASE JoinAudio
  BY <1>19 DEF JoinAudio, Audio!Join
<1>20. CASE Disconnect
  BY <1>20 DEF Disconnect, AfterDisconnect, Signaling!StopSocket
<1>21. CASE JoinSocket
  BY <1>21 DEF JoinSocket, AfterDisconnect, Signaling!SocketJoined
<1>22. CASE ResetChannel
  BY <1>22 DEF ResetChannel
<1>23. CASE ReleasePc
  BY <1>23 DEF ReleasePc
<1>24. CASE ReleasePcf
  BY <1>24 DEF ReleasePcf
<1>25. CASE StopThreads
  BY <1>25 DEF StopThreads, NoPeer
<1>26. CASE ClearInitialized
  BY <1>26 DEF ClearInitialized
<1>27. CASE RuntimeStop
  BY <1>27 DEF RuntimeStop
<1> QED
  BY <1>1, <1>2, <1>3, <1>4, <1>5, <1>6, <1>7, <1>8, <1>9, <1>10, <1>11, <1>12, <1>13, <1>14, <1>15, <1>16, <1>17, <1>18, <1>19, <1>20, <1>21, <1>22, <1>23, <1>24, <1>25, <1>26, <1>27 DEF UIThread

LEMMA HandlerKeeps == ASSUME TypeOK, ThreadsInv, Benign, Handler
  PROVE ThreadsInv'
<1> USE DEF TypeOK, ThreadsInv, EngineDown, SocketDown, Audio!TypeOK, Telemetry!TypeOK,
           Signaling!TypeOK, Benign, Full, Faults, StopLabels, wsKeeps, Proceed
<1>1. CASE OnConnected
  BY <1>1 DEF OnConnected, Signaling!CallbackReturns, NoPeer
<1>2. CASE OfferFactory
  BY <1>2 DEF OfferFactory, Signaling!CallbackReturns, NoPeer
<1>3. CASE OfferObserver
  BY <1>3 DEF OfferObserver, Signaling!CallbackReturns, NoPeer
<1>4. CASE OfferPeer
  BY <1>4 DEF OfferPeer, Signaling!CallbackReturns, NoPeer
<1>5. CASE OfferNoPeer
  BY <1>5 DEF OfferNoPeer, Signaling!CallbackReturns, NoPeer
<1>6. CASE OfferChannel
  BY <1>6 DEF OfferChannel, Signaling!CallbackReturns, NoPeer
<1>7. CASE OfferCreate
  BY <1>7 DEF OfferCreate, Signaling!CallbackReturns, NoPeer
<1>8. CASE RemoteCheck
  BY <1>8 DEF RemoteCheck, Signaling!CallbackReturns, NoPeer
<1>9. CASE RemoteApply
  BY <1>9 DEF RemoteApply, Signaling!CallbackReturns, NoPeer
<1> QED
  BY <1>1, <1>2, <1>3, <1>4, <1>5, <1>6, <1>7, <1>8, <1>9 DEF Handler

LEMMA SocketThreadKeeps == ASSUME TypeOK, ThreadsInv, Benign, SocketThread
  PROVE ThreadsInv'
<1> USE DEF TypeOK, ThreadsInv, EngineDown, SocketDown, Audio!TypeOK, Telemetry!TypeOK,
           Signaling!TypeOK, Benign, Full, Faults, StopLabels, wsKeeps
<1>1. CASE SocketClears
  BY <1>1 DEF SocketClears, Signaling!ClearRunning
<1>2. CASE SocketClosed
  BY <1>2 DEF SocketClosed, Signaling!Closed
<1>3. CASE SocketEnds
  BY <1>3 DEF SocketEnds, Signaling!GiveUp
<1>4. CASE SocketCloses
  BY <1>4 DEF SocketCloses, Signaling!Close
<1>5. CASE Handler
  BY <1>5, HandlerKeeps
<1> QED
  BY <1>1, <1>2, <1>3, <1>4, <1>5 DEF SocketThread

LEMMA RtcThreadKeeps == ASSUME TypeOK, ThreadsInv, Benign, RtcThread
  PROVE ThreadsInv'
<1> USE DEF TypeOK, ThreadsInv, EngineDown, SocketDown, Audio!TypeOK, Telemetry!TypeOK,
           Signaling!TypeOK, Benign, Full, Faults, StopLabels, rtcKeeps
<1>1. CASE SendOffer
  BY <1>1 DEF SendOffer, NoPeer
<1>2. CASE SendIce
  BY <1>2 DEF SendIce
<1>3. CASE StartTelemetry
  BY <1>3 DEF StartTelemetry, Telemetry!StartFlag
<1>4. CASE SpawnTelemetry
  BY <1>4 DEF SpawnTelemetry, Telemetry!StartThread, Telemetry!StartTerminates
<1> QED
  BY <1>1, <1>2, <1>3, <1>4 DEF RtcThread

LEMMA PublishThreadKeeps == ASSUME TypeOK, ThreadsInv, Benign, PublishThread
  PROVE ThreadsInv'
<1> USE DEF TypeOK, ThreadsInv, EngineDown, SocketDown, Audio!TypeOK, Telemetry!TypeOK,
           Signaling!TypeOK, Benign, Full, Faults, StopLabels, pointers, others, publishKeeps
<1>1. CASE PublishWhile
  BY <1>1 DEF PublishWhile, Telemetry!WhileTest, Telemetry!Move
<1>2. CASE PublishCheck
  BY <1>2 DEF PublishCheck, Telemetry!Move
<1>3. CASE PublishSend
  BY <1>3 DEF PublishSend, Telemetry!Move
<1> QED
  BY <1>1, <1>2, <1>3 DEF PublishThread

LEMMA CaptureThreadKeeps == ASSUME TypeOK, ThreadsInv, Benign, CaptureThread
  PROVE ThreadsInv'
<1> USE DEF TypeOK, ThreadsInv, EngineDown, SocketDown, Audio!TypeOK, Telemetry!TypeOK,
           Signaling!TypeOK, Benign, Full, Faults, StopLabels, pointers, others
<1>1. CASE Audio!CreateEngine
  BY <1>1 DEF CaptureThread, Audio!CreateEngine
<1>2. CASE Audio!CreateRecorder
  BY <1>2 DEF CaptureThread, Audio!CreateRecorder
<1>3. CASE ~Audio!CaptureLoop
  BY <1>3 DEF CaptureThread
<1>4. CASE Audio!Poll
  BY <1>4 DEF CaptureThread, Audio!Poll, Audio!Move
<1>5. CASE Audio!CleanUp
  BY <1>5 DEF CaptureThread, Audio!CleanUp
<1>6. CASE Audio!ClearRunning
  BY <1>6 DEF Audio!ClearRunning
<1> QED
  BY <1>1, <1>2, <1>3, <1>4, <1>5, <1>6 DEF CaptureThread, Audio!CaptureLoop

LEMMA EnvironmentKeeps == ASSUME TypeOK, ThreadsInv, Benign, Environment
  PROVE ThreadsInv'
<1> USE DEF TypeOK, ThreadsInv, EngineDown, SocketDown, Audio!TypeOK, Telemetry!TypeOK,
           Signaling!TypeOK, Benign, Full, Faults, StopLabels, pointers, others, Goto, Overlap, wsKeeps, rtcKeeps, StartLabels
<1>1. CASE OnStart
  BY <1>1 DEF OnStart
<1>2. CASE OnStop
  BY <1>2 DEF OnStop
<1>3. CASE SocketOpens
  BY <1>3 DEF SocketOpens, Signaling!Open
<1>4. CASE SocketMessage
  BY <1>4 DEF SocketMessage, Signaling!Message
<1>5. CASE SocketCloses
  BY <1>5 DEF SocketCloses, Signaling!Close
<1>6. CASE OfferReady
  BY <1>6 DEF OfferReady, PeerEvent, NoPeer
<1>7. CASE LocalIce
  BY <1>7 DEF LocalIce, PeerEvent, NoPeer
<1>8. CASE PeerConnects
  BY <1>8 DEF PeerConnects, PeerEvent, NoPeer
<1>9. CASE ChannelOpens \/ ChannelCloses
  BY <1>9 DEF ChannelOpens, ChannelCloses, ChannelChanges, PeerEvent, NoPeer
<1> QED
  BY <1>1, <1>2, <1>3, <1>4, <1>5, <1>6, <1>7, <1>8, <1>9 DEF Environment

(* An execution stays in its build and environment. *)
LEMMA SettingKept == ASSUME [Next]_vars PROVE UNCHANGED setting
<1> USE DEF others, wsKeeps, rtcKeeps, publishKeeps
<1>1. CASE Environment
  BY <1>1 DEF Environment, OnStart, OnStop, SocketOpens, SocketMessage,
     SocketCloses, OfferReady, LocalIce, PeerConnects, ChannelOpens,
     ChannelCloses, ChannelChanges
<1>2. CASE UIThread
  <2>1. CASE \/ RuntimeStart \/ InitTest \/ DropAudio \/ DropAudioJoin
             \/ NewAudio \/ DropSignaling \/ DropSignalingJoin
             \/ DropTelemetry \/ DropTelemetryJoin \/ NewTelemetry
             \/ RtcThreads \/ Factory \/ Connect \/ SetInitialized
    BY <2>1 DEF RuntimeStart, InitTest, DropAudio, DropAudioJoin, NewAudio,
       DropSignaling, DropSignalingJoin, DropTelemetry, DropTelemetryJoin,
       NewTelemetry, RtcThreads, Factory, Connect, SetInitialized
  <2>2. CASE \/ DestroyTest \/ StopTelemetry \/ JoinTelemetry \/ StopAudio
             \/ JoinAudio \/ Disconnect \/ JoinSocket \/ ResetChannel
             \/ ReleasePc \/ ReleasePcf \/ StopThreads \/ ClearInitialized
             \/ RuntimeStop
    BY <2>2 DEF DestroyTest, StopTelemetry, JoinTelemetry, StopAudio,
       JoinAudio, Disconnect, JoinSocket, ResetChannel, ReleasePc, ReleasePcf,
       StopThreads, ClearInitialized, RuntimeStop
  <2> QED
    BY <1>2, <2>1, <2>2 DEF UIThread
<1>3. CASE SocketThread
  BY <1>3 DEF SocketThread, SocketClears, SocketClosed, SocketEnds,
     SocketCloses, Handler, OnConnected, OfferFactory, OfferObserver,
     OfferPeer, OfferNoPeer, OfferChannel, OfferCreate, RemoteCheck,
     RemoteApply
<1>4. CASE RtcThread \/ CaptureThread \/ PublishThread
  BY <1>4 DEF RtcThread, SendOffer, SendIce, StartTelemetry, SpawnTelemetry,
     CaptureThread, PublishThread, PublishWhile, PublishCheck, PublishSend
<1>5. CASE UNCHANGED vars
  BY <1>5 DEF vars
<1> QED
  BY <1>1, <1>2, <1>3, <1>4, <1>5 DEF Next

(* No thread is abandoned: whatever the server does, and whichever part of *)
(* init fails after the audio, the process does not end in std::terminate  *)
(* (AudioController.cpp:3, TelemetryPublisher.cpp:24).                     *)
THEOREM NoThreadAbandoned == Spec => []ThreadsJoined
<1>1. Init => ThreadsInv
  BY DEF Init, ThreadsInv, Audio!Init, Audio!Fresh, Telemetry!Init,
     Telemetry!Fresh, Signaling!Init, Signaling!Fresh, EngineDown, SocketDown,
     NoPeer
<1>2. TypeOK /\ (Benign => ThreadsInv) /\ [Next]_vars => (Benign => ThreadsInv)'
  <2> SUFFICES ASSUME TypeOK, Benign => ThreadsInv, [Next]_vars, Benign'
               PROVE  ThreadsInv'
    OBVIOUS
  <2>1. Benign /\ ThreadsInv
    BY SettingKept DEF Benign, Faults
  <2>2. CASE UNCHANGED vars
    BY <2>1, <2>2 DEF vars, pointers, ThreadsInv, EngineDown, SocketDown, Full
  <2>3. CASE Next
    BY <2>1, <2>3, UIThreadKeeps, SocketThreadKeeps, RtcThreadKeeps,
       PublishThreadKeeps, CaptureThreadKeeps, EnvironmentKeeps DEF Next
  <2> QED
    BY <2>2, <2>3
<1>3. (Benign => ThreadsInv) => ThreadsJoined
  BY DEF Benign, ThreadsInv, ThreadsJoined, NeverTerminates
<1> QED
  BY <1>1, <1>2, <1>3, Typing, PTL DEF Spec

-----------------------------------------------------------------------------
(* Joins that end, in every environment.                                   *)

(* Who has begun and who has been told to end.  The publish thread is told *)
(* by the UI thread and begun by a callback of the peer connection, which  *)
(* may fall between the flag and the join; it then finds m_thread joinable.*)
WaitsInv ==
  ~terminated =>
    /\ audio.joinable => audio.loop # "none"
    /\ ui \in {"dropAudioJoin", "joinAudio"} => ~audio.running
    /\ telemetry.joinable => telemetry.loop # "none"
    /\ telemetry.running => telemetry.joinable \/ rtc = "startTelemetry"
    /\ ui \in {"dropTelemetryJoin", "joinTelemetry"} =>
         /\ telemetry.joinable \/ rtc = "startTelemetry"
         /\ telemetry.running => telemetry.joinable /\ rtc = "startTelemetry"
    /\ ui \in {"dropSignalingJoin", "joinSocket"} => signaling.stopping
    /\ signaling.ws = "calling" <=> handler # "none"
    /\ SocketDown => signaling.ws = "off"

LEMMA UIThreadKeepsWaits ==
  ASSUME TypeOK, WaitsInv, UIThread PROVE WaitsInv'
<1> USE DEF WaitsInv, SocketDown, TypeOK, Audio!TypeOK, Telemetry!TypeOK,
        Signaling!TypeOK, Goto, others
<1>1. CASE RuntimeStart \/ InitTest \/ SetInitialized \/ DestroyTest
  BY <1>1 DEF RuntimeStart, InitTest, SetInitialized, DestroyTest
<1>2. CASE DropAudio \/ DropAudioJoin
  BY <1>2 DEF DropAudio, DropAudioJoin, Audio!Stop, Audio!Join
<1>3. CASE NewAudio
  BY <1>3 DEF NewAudio, Audio!NewAndStart
<1>4. CASE DropSignaling \/ DropSignalingJoin
  BY <1>4 DEF DropSignaling, DropSignalingJoin, Signaling!DeleteSocket,
     Signaling!New, Signaling!Fresh
<1>5. CASE DropTelemetry \/ DropTelemetryJoin
  BY <1>5 DEF DropTelemetry, DropTelemetryJoin, Telemetry!StopFlag, Telemetry!Join
<1>6. CASE NewTelemetry
  BY <1>6 DEF NewTelemetry, Telemetry!New, Telemetry!Fresh
<1>7. CASE RtcThreads \/ StopThreads
  BY <1>7 DEF RtcThreads, StopThreads
<1>8. CASE Factory
  BY <1>8 DEF Factory
<1>9. CASE Connect
  BY <1>9 DEF Connect, Signaling!Connect, Signaling!ConnectStub
<1>10. CASE StopTelemetry \/ JoinTelemetry
  BY <1>10 DEF StopTelemetry, JoinTelemetry, Telemetry!StopFlag, Telemetry!Join
<1>11. CASE StopAudio \/ JoinAudio
  BY <1>11 DEF StopAudio, JoinAudio, Audio!Stop, Audio!Join
<1>12. CASE Disconnect \/ JoinSocket
  BY <1>12 DEF Disconnect, JoinSocket, AfterDisconnect, Signaling!StopSocket,
     Signaling!SocketJoined
<1>13. CASE ResetChannel \/ ReleasePc \/ ReleasePcf
  BY <1>13 DEF ResetChannel, ReleasePc, ReleasePcf
<1>14. CASE ClearInitialized \/ RuntimeStop
  BY <1>14 DEF ClearInitialized, RuntimeStop
<1> QED
  BY <1>1, <1>2, <1>3, <1>4, <1>5, <1>6, <1>7, <1>8, <1>9, <1>10, <1>11,
     <1>12, <1>13, <1>14 DEF UIThread

LEMMA SocketThreadKeepsWaits ==
  ASSUME TypeOK, WaitsInv,
         SocketThread \/ SocketOpens \/ SocketMessage \/ SocketCloses
  PROVE  WaitsInv'
<1> USE DEF WaitsInv, SocketDown, TypeOK, Signaling!TypeOK, HandlerLabels, wsKeeps
<1>1. CASE SocketClears \/ SocketClosed \/ SocketEnds
  BY <1>1 DEF SocketClears, SocketClosed, SocketEnds, Signaling!ClearRunning,
     Signaling!Closed, Signaling!GiveUp
<1>2. CASE SocketOpens \/ SocketMessage \/ SocketCloses
  BY <1>2 DEF SocketOpens, SocketMessage, SocketCloses, Signaling!Open,
     Signaling!Message, Signaling!Close
<1>3. CASE OnConnected \/ OfferFactory \/ OfferObserver \/ OfferPeer \/ OfferNoPeer
  BY <1>3 DEF OnConnected, OfferFactory, OfferObserver, OfferPeer, OfferNoPeer,
     Proceed, Signaling!CallbackReturns
<1>4. CASE OfferChannel \/ OfferCreate \/ RemoteCheck \/ RemoteApply
  BY <1>4 DEF OfferChannel, OfferCreate, RemoteCheck, RemoteApply, Proceed,
     Signaling!CallbackReturns
<1> QED
  BY <1>1, <1>2, <1>3, <1>4 DEF SocketThread, Handler

PeerCallback == OfferReady \/ LocalIce \/ PeerConnects
                \/ ChannelOpens \/ ChannelCloses

LEMMA RtcThreadKeepsWaits ==
  ASSUME TypeOK, WaitsInv,
         RtcThread \/ PeerCallback
  PROVE  WaitsInv'
<1> USE DEF WaitsInv, SocketDown, TypeOK, Telemetry!TypeOK, rtcKeeps
<1>1. CASE SendOffer \/ SendIce
  BY <1>1 DEF SendOffer, SendIce
<1>2. CASE StartTelemetry
  BY <1>2 DEF StartTelemetry, Telemetry!StartFlag
<1>3. CASE SpawnTelemetry
  BY <1>3 DEF SpawnTelemetry, Telemetry!StartThread, Telemetry!StartTerminates
<1>4. CASE PeerCallback
  BY <1>4 DEF PeerCallback, OfferReady, LocalIce, PeerConnects, ChannelOpens,
     ChannelCloses, ChannelChanges, PeerEvent
<1> QED
  BY <1>1, <1>2, <1>3, <1>4 DEF RtcThread

LEMMA CaptureThreadKeepsWaits ==
  ASSUME TypeOK, WaitsInv, CaptureThread PROVE WaitsInv'
<1>1. /\ Audio!CaptureLoop \/ Audio!Refused
      /\ UNCHANGED <<telemetry, signaling, ui, handler, rtc, terminated>>
  BY DEF CaptureThread, others
<1>2. /\ audio'.joinable = audio.joinable
      /\ audio'.running => audio.running
      /\ audio'.loop # "none"
  <2> USE DEF TypeOK, Audio!TypeOK
  <2>1. CASE Audio!CreateEngine \/ Audio!CreateRecorder
    BY <2>1 DEF Audio!CreateEngine, Audio!CreateRecorder
  <2>2. CASE Audio!Poll \/ Audio!CleanUp \/ Audio!ClearRunning
    BY <2>2 DEF Audio!Poll, Audio!CleanUp, Audio!ClearRunning, Audio!Move
  <2>3. CASE Audio!Refused
    BY <2>3 DEF Audio!Refused, Audio!NoEngine, Audio!NoRecorder, Audio!Move
  <2> QED
    BY <1>1, <2>1, <2>2, <2>3 DEF Audio!CaptureLoop
<1> QED
  BY <1>1, <1>2 DEF WaitsInv, SocketDown

LEMMA WaitsInvariant == Spec => []WaitsInv
<1>1. Init => WaitsInv
  BY DEF Init, WaitsInv, SocketDown, Audio!Init, Audio!Fresh, Telemetry!Init,
     Telemetry!Fresh, Signaling!Init, Signaling!Fresh
<1>2. ASSUME TypeOK, WaitsInv, [Next]_vars PROVE WaitsInv'
  <2>1. CASE OnStart \/ OnStop
    BY <1>2, <2>1 DEF OnStart, OnStop, Goto, others, WaitsInv, SocketDown
  <2>2. CASE PublishThread
    BY <1>2, <2>2 DEF PublishThread, PublishWhile, PublishCheck, PublishSend,
       publishKeeps, others, Telemetry!WhileTest, Telemetry!Move, WaitsInv,
       SocketDown, TypeOK, Telemetry!TypeOK
  <2>3. CASE UNCHANGED vars
    BY <1>2, <2>3 DEF vars, WaitsInv, SocketDown
  <2> QED
    BY <1>2, <2>1, <2>2, <2>3, UIThreadKeepsWaits, SocketThreadKeepsWaits,
       RtcThreadKeepsWaits, CaptureThreadKeepsWaits
       DEF Next, Environment, PeerCallback
<1> QED
  BY <1>1, <1>2, Typing, PTL DEF Spec

(* No join of onStart or onStop waits for a thread that goes on, or that   *)
(* has not begun: for every build and every set of faults, the peer that   *)
(* connects during onStop included (AudioController.cpp:22,                *)
(* SignalingClient.cpp:83, TelemetryPublisher.cpp:24).                     *)
THEOREM JoinsCanEnd == Spec => []JoinsEnd
<1>1. WaitsInv => JoinsEnd
  BY DEF WaitsInv, JoinsEnd
<1> QED
  BY <1>1, WaitsInvariant, PTL

-----------------------------------------------------------------------------
(* The connection, in every environment.                                   *)

(* onStart of an engine that is not initialized, until it has deleted the  *)
(* WebSocket of an earlier session, which may be up and known to nobody.   *)
Leftover == {"runtimeStart", "init", "dropAudio", "dropAudioJoin",
             "newAudio", "dropSignaling", "dropSignalingJoin"}

(* onStop after the WebSocket has been joined, if it was. *)
Unlinked == {"resetChannel", "releasePc", "releasePcf", "stopThreads",
             "clearInitialized", "runtimeStop"}

(* With a WebSocket, what SignalingClient knows follows from where its     *)
(* thread is; and the runtime knows it, once a callback has told it.       *)
SocketKnown ==
  /\ signaling.ws \in {"off", "down"} =>
       ~runtime.connected /\ ~signaling.connected
  /\ signaling.ws \in {"clearRunning", "onDisconnected"} => ~signaling.connected
  /\ signaling.ws \in {"up", "calling"} => signaling.connected
  /\ /\ runtime.running /\ (m_initialized \/ ui \notin Leftover)
     /\ signaling.ws = "up" \/ handler \notin {"none", "setConnected"}
     => runtime.connected

(* Without one, connect() and disconnect() tell both on the UI thread. *)
StubKnown ==
  /\ signaling.ws = "off"
  /\ runtime.connected <=> signaling.connected
  /\ signaling.connected =>
       /\ signaling.running \/ ui = "joinSocket"
       /\ \/ ui = "setInitialized"
          \/ m_initialized /\ ui \in {"idle", "runtimeStart", "init"}
                                     \cup (StopLabels \ Unlinked)

ConnectionInv ==
  /\ ui = "runtimeStop" => ~m_initialized
  /\ m_initialized \/ ui \in StartLabels \ {"runtimeStart"} => runtime.running
  /\ signaling.ws = "calling" <=> handler # "none"
  /\ Full => SocketKnown
  /\ ~Full => StubKnown

LEMMA UIThreadKeepsConnection ==
  ASSUME TypeOK, WaitsInv, ConnectionInv, UIThread
  PROVE  ConnectionInv'
<1> USE DEF ConnectionInv, SocketKnown, StubKnown, Leftover, Unlinked,
       StartLabels, StopLabels, Full, TypeOK, Signaling!TypeOK,
       Runtime!TypeOK, Goto, others, pointers
<1>1. CASE RuntimeStart
  BY <1>1 DEF RuntimeStart, Runtime!Start
<1>2. CASE InitTest \/ DestroyTest
  BY <1>2 DEF InitTest, DestroyTest
<1>3. CASE DropAudio \/ DropAudioJoin \/ NewAudio
  BY <1>3 DEF DropAudio, DropAudioJoin, NewAudio
<1>4. CASE DropSignaling
  BY <1>4 DEF DropSignaling, Signaling!DeleteSocket
<1>5. CASE DropSignalingJoin
  BY <1>5 DEF DropSignalingJoin, Signaling!New, Signaling!Fresh, WaitsInv
<1>6. CASE DropTelemetry \/ DropTelemetryJoin \/ NewTelemetry \/ RtcThreads
  BY <1>6 DEF DropTelemetry, DropTelemetryJoin, NewTelemetry, RtcThreads
<1>7. CASE Factory \/ SetInitialized
  BY <1>7 DEF Factory, SetInitialized
<1>8. CASE Connect
  BY <1>8 DEF Connect, Signaling!Connect, Signaling!ConnectStub,
     Runtime!SetConnected, WaitsInv, SocketDown
<1>9. CASE StopTelemetry \/ JoinTelemetry \/ StopAudio \/ JoinAudio
  BY <1>9 DEF StopTelemetry, JoinTelemetry, StopAudio, JoinAudio
<1>10. CASE Disconnect
  <2>1. CASE signaling.running
    <3>1. /\ ui = "disconnect" /\ ui' = "joinSocket"
          /\ signaling' = [signaling EXCEPT !.running = FALSE, !.stopping = TRUE]
      BY <1>10, <2>1, Zenon DEF Disconnect, Signaling!StopSocket
    <3> QED
      BY <1>10, <3>1 DEF Disconnect
  <2>2. CASE ~signaling.running
    BY <1>10, <2>2 DEF Disconnect, AfterDisconnect
  <2> QED
    BY <2>1, <2>2
<1>11. CASE JoinSocket
  BY <1>11 DEF JoinSocket, AfterDisconnect, Signaling!SocketJoined,
     Runtime!SetConnected, WaitsInv
<1>12. CASE ResetChannel \/ ReleasePc \/ ReleasePcf \/ StopThreads
  BY <1>12 DEF ResetChannel, ReleasePc, ReleasePcf, StopThreads
<1>13. CASE ClearInitialized
  BY <1>13 DEF ClearInitialized
<1>14. CASE RuntimeStop
  BY <1>14 DEF RuntimeStop, Runtime!Stop
<1> QED
  BY <1>1, <1>2, <1>3, <1>4, <1>5, <1>6, <1>7, <1>8, <1>9, <1>10, <1>11,
     <1>12, <1>13, <1>14 DEF UIThread

LEMMA SocketThreadKeepsConnection ==
  ASSUME TypeOK, WaitsInv, ConnectionInv,
         SocketThread \/ SocketOpens \/ SocketMessage \/ SocketCloses
  PROVE  ConnectionInv'
<1> USE DEF ConnectionInv, SocketKnown, StubKnown, Leftover, Unlinked,
       StartLabels, StopLabels, Full, TypeOK, Signaling!TypeOK,
       Runtime!TypeOK, HandlerLabels, wsKeeps, WaitsInv
<1>1. CASE SocketOpens
  BY <1>1 DEF SocketOpens, Signaling!Open
<1>2. CASE SocketMessage
  BY <1>2 DEF SocketMessage, Signaling!Message
<1>7. CASE SocketCloses
  BY <1>7 DEF SocketCloses, Signaling!Close
<1>8. CASE SocketClears
  BY <1>8 DEF SocketClears, Signaling!ClearRunning
<1>3. CASE SocketClosed \/ SocketEnds
  BY <1>3 DEF SocketClosed, SocketEnds, Signaling!Closed, Signaling!GiveUp,
     Runtime!SetConnected
<1>4. CASE OnConnected
  BY <1>4 DEF OnConnected, Proceed, Runtime!SetConnected
<1>5. CASE OfferFactory \/ OfferObserver \/ OfferPeer \/ OfferNoPeer
  BY <1>5 DEF OfferFactory, OfferObserver, OfferPeer, OfferNoPeer, Proceed,
     Signaling!CallbackReturns
<1>6. CASE OfferChannel \/ OfferCreate \/ RemoteCheck \/ RemoteApply
  BY <1>6 DEF OfferChannel, OfferCreate, RemoteCheck, RemoteApply, Proceed,
     Signaling!CallbackReturns
<1> QED
  BY <1>1, <1>2, <1>3, <1>4, <1>5, <1>6, <1>7, <1>8 DEF SocketThread, Handler

(* The other threads have no part in it. *)
LEMMA OthersKeepConnection ==
  ASSUME ConnectionInv,
         RtcThread \/ PeerCallback \/ CaptureThread \/ PublishThread
  PROVE  ConnectionInv'
<1>1. UNCHANGED <<signaling, runtime, m_initialized, ui, handler, setting>>
  BY DEF RtcThread, SendOffer, SendIce, StartTelemetry, SpawnTelemetry,
     PeerCallback, OfferReady, LocalIce, PeerConnects, ChannelOpens,
     ChannelCloses, ChannelChanges, CaptureThread, PublishThread,
     PublishWhile, PublishCheck, PublishSend, publishKeeps, rtcKeeps,
     pointers, others
<1> QED
  BY <1>1 DEF ConnectionInv, SocketKnown, StubKnown, Full

LEMMA ConnectionInvariant == Spec => []ConnectionInv
<1>1. Init => ConnectionInv
  BY DEF Init, ConnectionInv, SocketKnown, StubKnown, StartLabels,
     Signaling!Init, Signaling!Fresh, Runtime!Init
<1>2. ASSUME TypeOK, WaitsInv, ConnectionInv, [Next]_vars
      PROVE  ConnectionInv'
  <2>1. CASE OnStart \/ OnStop
    BY <1>2, <2>1 DEF OnStart, OnStop, Goto, others, pointers, ConnectionInv,
       SocketKnown, StubKnown, Leftover, Unlinked, StartLabels, StopLabels, Full
  <2>2. CASE UNCHANGED vars
    BY <1>2, <2>2 DEF vars, pointers, ConnectionInv, SocketKnown, StubKnown, Full
  <2> QED
    BY <1>2, <2>1, <2>2, UIThreadKeepsConnection, SocketThreadKeepsConnection,
       OthersKeepConnection DEF Next, Environment, PeerCallback
<1> QED
  BY <1>1, <1>2, Typing, WaitsInvariant, PTL DEF Spec

(* DeviceRuntime knows what SignalingClient knows, in every environment:   *)
(* when the server closes the connection, and when the WebSocket connects  *)
(* again by itself, also one that onStop has left behind and the next      *)
(* onStart replaces (SignalingClient.cpp:55-66, WebRtcEngine.cpp:91-100).  *)
THEOREM ConnectionKnown == Spec => []ConnectedAgrees
<1>1. TypeOK /\ ConnectionInv => ConnectedAgrees
  <2> SUFFICES ASSUME TypeOK, ConnectionInv,
                      runtime.running, ui \notin StartLabels,
                      handler # "setConnected",
                      signaling.ws \notin {"clearRunning", "onDisconnected"}
               PROVE  runtime.connected <=> signaling.connected
    BY DEF ConnectedAgrees
  <2>1. CASE ~Full
    BY <2>1 DEF ConnectionInv, StubKnown
  <2>2. CASE Full /\ signaling.ws \in {"off", "down"}
    BY <2>2 DEF ConnectionInv, SocketKnown
  <2>3. CASE Full /\ signaling.ws \in {"up", "calling"}
    <3>1. ui \notin Leftover
      BY DEF Leftover, StartLabels
    <3>2. runtime.connected
      BY <2>3, <3>1 DEF TypeOK, HandlerLabels, ConnectionInv, SocketKnown
    <3> QED
      BY <2>3, <3>2 DEF ConnectionInv, SocketKnown
  <2> QED
    BY <2>1, <2>2, <2>3 DEF TypeOK, Signaling!TypeOK
<1> QED
  BY <1>1, Typing, ConnectionInvariant, PTL

-----------------------------------------------------------------------------
(* The observer of the peer connection, in every environment.              *)

(* createOffer is still to come, and with it the only peer connection of   *)
(* the session, when the server keeps the connection.                      *)
OfferToCome ==
  \/ ~Full \/ signaling.ws = "down" \/ ui \in {"factory", "connect"}
  \/ handler \in {"setConnected", "offerFactory", "offerObserver", "offerPeer"}

SameObserver == peer.state # "none" => peer.observer = m_peer_observer

ObserverInv ==
  /\ rtc \in {"localIce", "connected"} => peer.state # "none"
  /\ "peerFails" \notin Faults /\ handler # "offerPeer" => SameObserver
  /\ "serverCloses" \notin Faults =>
       /\ signaling.ws \in {"clearRunning", "onDisconnected"} => signaling.stopping
       /\ OfferToCome => peer.state = "none"
       /\ SameObserver

LEMMA UIThreadKeepsObserver ==
  ASSUME TypeOK, WaitsInv, ConnectionInv, ObserverInv, UIThread
  PROVE  ObserverInv'
<1> USE DEF ObserverInv, SameObserver, OfferToCome, Full, Faults, TypeOK,
       Signaling!TypeOK, Goto, others, pointers
<1>1. CASE RuntimeStart \/ InitTest \/ SetInitialized \/ DestroyTest
  BY <1>1 DEF RuntimeStart, InitTest, SetInitialized, DestroyTest
<1>2. CASE DropAudio \/ DropAudioJoin \/ NewAudio
  BY <1>2 DEF DropAudio, DropAudioJoin, NewAudio
<1>3. CASE DropSignaling \/ DropSignalingJoin
  BY <1>3 DEF DropSignaling, DropSignalingJoin, Signaling!DeleteSocket,
     Signaling!New, Signaling!Fresh
<1>4. CASE DropTelemetry \/ DropTelemetryJoin \/ NewTelemetry
  BY <1>4 DEF DropTelemetry, DropTelemetryJoin, NewTelemetry
<1>5. CASE RtcThreads \/ StopThreads
  BY <1>5 DEF RtcThreads, StopThreads, NoPeer
<1>6. CASE Factory
  BY <1>6 DEF Factory
<1>7. CASE Connect
  BY <1>7 DEF Connect, Signaling!Connect, Signaling!ConnectStub
<1>8. CASE StopTelemetry \/ JoinTelemetry \/ StopAudio \/ JoinAudio
  BY <1>8 DEF StopTelemetry, JoinTelemetry, StopAudio, JoinAudio
<1>9. CASE Disconnect \/ JoinSocket
  BY <1>9 DEF Disconnect, JoinSocket, AfterDisconnect, Signaling!StopSocket,
     Signaling!SocketJoined
<1>10. CASE ResetChannel \/ ReleasePc \/ ReleasePcf
  BY <1>10 DEF ResetChannel, ReleasePc, ReleasePcf
<1>11. CASE ClearInitialized \/ RuntimeStop
  BY <1>11 DEF ClearInitialized, RuntimeStop
<1> QED
  BY <1>1, <1>2, <1>3, <1>4, <1>5, <1>6, <1>7, <1>8, <1>9, <1>10, <1>11
     DEF UIThread

LEMMA SocketThreadKeepsObserver ==
  ASSUME TypeOK, WaitsInv, ConnectionInv, ObserverInv,
         SocketThread \/ SocketOpens \/ SocketMessage \/ SocketCloses
  PROVE  ObserverInv'
<1> USE DEF ObserverInv, SameObserver, OfferToCome, Full, Faults, TypeOK,
       Signaling!TypeOK, HandlerLabels, wsKeeps, ConnectionInv
<1>1. CASE SocketOpens \/ SocketMessage
  BY <1>1 DEF SocketOpens, SocketMessage, Signaling!Open, Signaling!Message
<1>2. CASE SocketCloses \/ SocketClears
  BY <1>2 DEF SocketCloses, SocketClears, Signaling!Close,
     Signaling!ClearRunning
<1>3. CASE SocketClosed \/ SocketEnds
  BY <1>3 DEF SocketClosed, SocketEnds, Signaling!Closed, Signaling!GiveUp
<1>4. CASE OnConnected \/ OfferFactory \/ OfferObserver
  BY <1>4 DEF OnConnected, OfferFactory, OfferObserver, Proceed,
     Signaling!CallbackReturns
<1>5. CASE OfferPeer
  <2>1. Full /\ ui \notin {"factory", "connect"}
    BY <1>5 DEF OfferPeer, Proceed, StubKnown, WaitsInv, SocketDown
  <2> QED
    BY <1>5, <2>1 DEF OfferPeer, Proceed
<1>6. CASE OfferNoPeer \/ OfferChannel
  BY <1>6 DEF OfferNoPeer, OfferChannel, Proceed, Signaling!CallbackReturns
<1>7. CASE OfferCreate \/ RemoteCheck \/ RemoteApply
  BY <1>7 DEF OfferCreate, RemoteCheck, RemoteApply, Proceed,
     Signaling!CallbackReturns
<1> QED
  BY <1>1, <1>2, <1>3, <1>4, <1>5, <1>6, <1>7 DEF SocketThread, Handler

LEMMA OthersKeepObserver ==
  ASSUME TypeOK, ObserverInv,
         RtcThread \/ PeerCallback \/ CaptureThread \/ PublishThread
  PROVE  ObserverInv'
<1>1. UNCHANGED <<signaling, m_peer_observer, ui, handler, setting>>
  BY DEF RtcThread, SendOffer, SendIce, StartTelemetry, SpawnTelemetry,
     PeerCallback, OfferReady, LocalIce, PeerConnects, ChannelOpens,
     ChannelCloses, ChannelChanges, CaptureThread, PublishThread,
     PublishWhile, PublishCheck, PublishSend, publishKeeps, rtcKeeps,
     pointers, others
<1>2. /\ peer'.observer = peer.observer
      /\ peer'.state = "none" <=> peer.state = "none"
  BY DEF RtcThread, SendOffer, SendIce, StartTelemetry, SpawnTelemetry,
     PeerCallback, OfferReady, LocalIce, PeerConnects, ChannelOpens,
     ChannelCloses, ChannelChanges, CaptureThread, PublishThread,
     PublishWhile, PublishCheck, PublishSend, publishKeeps, rtcKeeps,
     pointers, others, TypeOK
<1>3. rtc' \in {"localIce", "connected"} => peer'.state # "none"
  BY <1>2 DEF RtcThread, SendOffer, SendIce, StartTelemetry, SpawnTelemetry,
     PeerCallback, OfferReady, LocalIce, PeerConnects, ChannelOpens,
     ChannelCloses, ChannelChanges, PeerEvent, CaptureThread, PublishThread,
     PublishWhile, PublishCheck, PublishSend, publishKeeps, others, ObserverInv
<1> QED
  BY <1>1, <1>2, <1>3 DEF ObserverInv, SameObserver, OfferToCome, Full, Faults

(* A callback of the peer connection finds its observer alive, in every    *)
(* environment, but when the server is reached again, from the line that   *)
(* replaces the observer to the one that closes the old connection, or     *)
(* after a return in between (WebRtcEngine.cpp:200, 219, 221).             *)
THEOREM ObserverStaysAlive == Spec => []ObserverAlive
<1>1. Init => ObserverInv
  BY DEF Init, ObserverInv, SameObserver, NoPeer, Signaling!Init,
     Signaling!Fresh
<1>2. ASSUME TypeOK, WaitsInv, ConnectionInv, ObserverInv, [Next]_vars
      PROVE  ObserverInv'
  <2>1. CASE OnStart \/ OnStop
    BY <1>2, <2>1 DEF OnStart, OnStop, Goto, others, pointers, ObserverInv,
       SameObserver, OfferToCome, Full, Faults
  <2>2. CASE UNCHANGED vars
    BY <1>2, <2>2 DEF vars, pointers, ObserverInv, SameObserver, OfferToCome,
       Full, Faults
  <2> QED
    BY <1>2, <2>1, <2>2, UIThreadKeepsObserver, SocketThreadKeepsObserver,
       OthersKeepObserver DEF Next, Environment, PeerCallback
<1>3. ObserverInv => ObserverAlive
  BY DEF ObserverInv, SameObserver, ObserverAlive
<1> QED
  BY <1>1, <1>2, <1>3, Typing, WaitsInvariant, ConnectionInvariant, PTL
     DEF Spec
=============================================================================
