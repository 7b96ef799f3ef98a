---------------------- MODULE WebRtcEngineSessionProofs ----------------------
(***************************************************************************)
(* Proofs about the life of a session, in both builds and for all          *)
(* addresses, when nothing disturbs it (Undisturbed): a peer connection    *)
(* that cannot be made, and OpenSL ES that refuses, are allowed.           *)
(***************************************************************************)
EXTENDS WebRtcEngineProofs

Ended == {"none", "done"}

(* The labels of init, and those of destroy after a join.                  *)
Starting == {"dropAudio", "dropAudioJoin", "newAudio", "dropSignaling",
             "dropSignalingJoin", "dropTelemetry", "dropTelemetryJoin",
             "newTelemetry", "rtcThreads", "factory", "connect",
             "setInitialized"}
SocketJoined    == {"resetChannel", "releasePc", "releasePcf", "stopThreads",
                    "clearInitialized"}
AudioJoined     == {"disconnect", "joinSocket"} \cup SocketJoined
TelemetryJoined == {"stopAudio", "joinAudio"} \cup AudioJoined

(* init and destroy agree with m_initialized, and a runtime that is not    *)
(* started has no engine.                                                  *)
Phases ==
  /\ ui \in Starting \cup {"runtimeStop"} => ~m_initialized
  /\ ui = "rtcThreads" => Full
  /\ ~runtime.running => /\ ~runtime.connected /\ ~m_initialized
                         /\ ui \in {"idle", "runtimeStart", "destroy", "runtimeStop"}

(* The WebSocket runs from connect() to the join in disconnect().  It      *)
(* opens once in between, and then both sides know it.                     *)
Socket ==
  /\ handler # "none" <=> signaling.ws = "calling"
  /\ EngineDown \/ ~Full \/ ui \in {"factory", "connect"} \cup SocketJoined
       => signaling.ws = "off"
  /\ SocketDown => ~signaling.stopping
  /\ signaling.ws # "off" => signaling.running \/ ui = "joinSocket"
  /\ signaling.ws # "off" /\ signaling.stopping => ui = "joinSocket"
  /\ signaling.ws \in {"clearRunning", "onDisconnected"} => signaling.stopping
  /\ signaling.ws \in {"up", "calling"} => signaling.connected
  /\ signaling.ws = "up" \/ handler \notin {"none", "setConnected"}
       => runtime.connected

BeforePeer ==
  \/ EngineDown \/ ~Full \/ signaling.ws = "down"
  \/ ui \in {"factory", "connect", "clearInitialized"}
  \/ handler \in {"setConnected", "offerFactory", "offerObserver", "offerPeer"}

(* A peer connection is made once in a session, by createOffer, and ends   *)
(* with the threads of libwebrtc.                                          *)
Peer ==
  /\ BeforePeer => peer.state = "none"
  /\ handler \in {"offerChannel", "offerCreate"} => peer.state = "new"
  /\ peer.state # "none" => /\ peer.observer = m_peer_observer
                            /\ m_pc \/ ui \in {"releasePcf", "stopThreads"}
  /\ handler \in {"offerObserver", "offerPeer"} => m_pcf
  /\ handler \in {"offerChannel", "offerCreate", "remoteApply"} => m_pc

(* The peer connection calls back only outside of destroy. *)
Callbacks ==
  /\ EngineDown \/ ~Full \/ ui = "clearInitialized" => rtc = "off"
  /\ peer.state = "none" \/ ui \in StopLabels => rtc \in {"off", "idle"}
  /\ rtc \in {"connected", "startTelemetry"} => peer.state = "answered"
  /\ rtc = "startTelemetry" => telemetry.running

(* The publish thread runs between the connection of the peers and the     *)
(* join in destroy.                                                        *)
Publishing ==
  /\ telemetry.running \/ telemetry.loop \notin Ended => peer.state = "answered"
  /\ telemetry.loop \notin Ended =>
       telemetry.joinable /\ (telemetry.running \/ ui = "joinTelemetry")
  /\ ui = "joinTelemetry" => ~telemetry.running
  /\ ui \in TelemetryJoined => ~telemetry.running /\ telemetry.loop \in Ended

AudioAtRest ==
  \/ ui \in AudioJoined \cup {"runtimeStop", "dropAudio", "dropAudioJoin", "newAudio"}
  \/ ~m_initialized /\ ui \in {"idle", "runtimeStart", "init", "destroy"}

(* The capture thread runs between init and the join in destroy. *)
Capturing ==
  /\ audio.loop \notin Ended =>
       audio.joinable /\ (audio.running \/ ui = "joinAudio")
  /\ ui = "joinAudio" => ~audio.running
  /\ AudioAtRest => ~audio.running /\ audio.loop \in Ended

SessionInv == /\ Phases /\ Socket /\ Peer /\ Callbacks
              /\ Publishing /\ Capturing
-----------------------------------------------------------------------------
LEMMA UIThreadKeepsSession ==
  ASSUME TypeOK, SessionInv, Undisturbed, UIThread
  PROVE  SessionInv'
<1> USE DEF TypeOK, SessionInv, Phases, Socket, Peer, Callbacks, Publishing, Capturing,
       BeforePeer, AudioAtRest, Ended, Starting, SocketJoined, AudioJoined, TelemetryJoined, EngineDown,
       SocketDown, Undisturbed, Full, Faults, StopLabels,
       Audio!TypeOK, Telemetry!TypeOK, Signaling!TypeOK, Runtime!TypeOK,
       pointers, others, Goto
<1>1. CASE RuntimeStart
  BY <1>1 DEF RuntimeStart, Runtime!Start
<1>2. CASE InitTest
  BY <1>2 DEF InitTest
<1>3. CASE DropAudio
  <2>1. Phases'
    BY <1>3 DEF DropAudio, Audio!Stop
  <2>2. Socket'
    BY <1>3 DEF DropAudio, Audio!Stop
  <2>3. Peer'
    BY <1>3 DEF DropAudio, Audio!Stop
  <2>4. Callbacks'
    BY <1>3 DEF DropAudio, Audio!Stop
  <2>5. Publishing'
    BY <1>3 DEF DropAudio, Audio!Stop
  <2>6. Capturing'
    BY <1>3 DEF DropAudio, Audio!Stop
  <2> QED
    BY <2>1, <2>2, <2>3, <2>4, <2>5, <2>6
<1>4. CASE DropAudioJoin
  BY <1>4 DEF DropAudioJoin, Audio!Join
<1>5. CASE NewAudio
  BY <1>5 DEF NewAudio, Audio!NewAndStart
<1>6. CASE DropSignaling
  BY <1>6 DEF DropSignaling, Signaling!DeleteSocket
<1>7. CASE DropSignalingJoin
  BY <1>7 DEF DropSignalingJoin, Signaling!New, Signaling!Fresh
<1>8. CASE DropTelemetry
  <2>1. Phases'
    BY <1>8 DEF DropTelemetry, Telemetry!StopFlag
  <2>2. Socket'
    BY <1>8 DEF DropTelemetry, Telemetry!StopFlag
  <2>3. Peer'
    BY <1>8 DEF DropTelemetry, Telemetry!StopFlag
  <2>4. Callbacks'
    BY <1>8 DEF DropTelemetry, Telemetry!StopFlag
  <2>5. Publishing'
    BY <1>8 DEF DropTelemetry, Telemetry!StopFlag
  <2>6. Capturing'
    BY <1>8 DEF DropTelemetry, Telemetry!StopFlag
  <2> QED
    BY <2>1, <2>2, <2>3, <2>4, <2>5, <2>6
<1>9. CASE DropTelemetryJoin
  BY <1>9 DEF DropTelemetryJoin, Telemetry!Join
<1>10. CASE NewTelemetry
  BY <1>10 DEF NewTelemetry, Telemetry!New, Telemetry!Fresh
<1>11. CASE RtcThreads
  <2>1. Phases'
    BY <1>11 DEF RtcThreads, NoPeer
  <2>2. Socket'
    BY <1>11 DEF RtcThreads, NoPeer
  <2>3. Peer'
    BY <1>11 DEF RtcThreads, NoPeer
  <2>4. Callbacks'
    BY <1>11 DEF RtcThreads, NoPeer
  <2>5. Publishing'
    BY <1>11 DEF RtcThreads, NoPeer
  <2>6. Capturing'
    BY <1>11 DEF RtcThreads, NoPeer
  <2> QED
    BY <2>1, <2>2, <2>3, <2>4, <2>5, <2>6
<1>12. CASE Factory
  BY <1>12 DEF Factory
<1>13. CASE Connect
  <2>1. Phases'
    BY <1>13 DEF Connect, Signaling!Connect, Signaling!ConnectStub, Runtime!SetConnected
  <2>2. Socket'
    <3>1. signaling.ws = "off" /\ ~signaling.stopping /\ handler' = "none"
      BY <1>13 DEF Connect
    <3>2. ui' = "setInitialized" /\ Full' = Full
      BY <1>13 DEF Connect
    <3>3. CASE Signaling!Connect
      <4>1. signaling' = IF signaling.running THEN signaling
                         ELSE [signaling EXCEPT !.running = TRUE, !.ws = "down"]
        BY <3>3 DEF Signaling!Connect
      <4>2. CASE signaling.running
        BY <4>1, <4>2, <3>1, <3>2
      <4>3. CASE ~signaling.running
        <5>1. /\ signaling'.running /\ ~signaling'.stopping
              /\ signaling'.ws = "down"
          BY <4>1, <4>3, <3>1
        <5>2. Full
          BY <1>13, <4>1, <4>3, <3>1 DEF Connect, Signaling!ConnectStub
        <5> QED
          BY <5>1, <5>2, <3>1, <3>2
      <4> QED
        BY <4>2, <4>3
    <3>4. CASE Signaling!ConnectStub
      BY <1>13, <3>1, <3>2, <3>4 DEF Connect, Signaling!ConnectStub
    <3> QED
      BY <1>13, <3>3, <3>4 DEF Connect
  <2>3. Peer'
    BY <1>13 DEF Connect, Signaling!Connect, Signaling!ConnectStub, Runtime!SetConnected
  <2>4. Callbacks'
    BY <1>13 DEF Connect, Signaling!Connect, Signaling!ConnectStub, Runtime!SetConnected
  <2>5. Publishing'
    BY <1>13 DEF Connect, Signaling!Connect, Signaling!ConnectStub, Runtime!SetConnected
  <2>6. Capturing'
    BY <1>13 DEF Connect, Signaling!Connect, Signaling!ConnectStub, Runtime!SetConnected
  <2> QED
    BY <2>1, <2>2, <2>3, <2>4, <2>5, <2>6
<1>14. CASE SetInitialized
  BY <1>14 DEF SetInitialized
<1>15. CASE DestroyTest
  BY <1>15 DEF DestroyTest
<1>16. CASE StopTelemetry
  BY <1>16 DEF StopTelemetry, Telemetry!StopFlag
<1>17. CASE JoinTelemetry
  <2>1. Phases'
    BY <1>17 DEF JoinTelemetry, Telemetry!Join
  <2>2. Socket'
    BY <1>17 DEF JoinTelemetry, Telemetry!Join
  <2>3. Peer'
    BY <1>17 DEF JoinTelemetry, Telemetry!Join
  <2>4. Callbacks'
    BY <1>17 DEF JoinTelemetry, Telemetry!Join
  <2>5. Publishing'
    BY <1>17 DEF JoinTelemetry, Telemetry!Join
  <2>6. Capturing'
    BY <1>17 DEF JoinTelemetry, Telemetry!Join
  <2> QED
    BY <2>1, <2>2, <2>3, <2>4, <2>5, <2>6
<1>18. CASE StopAudio
  BY <1>18 DEF StopAudio, Audio!Stop
<1>19. CASE JoinAudio
  BY <1>19 DEF JoinAudio, Audio!Join
<1>20. CASE Disconnect
  <2>1. signaling.running =>
          /\ ui = "disconnect" /\ ui' = "joinSocket"
          /\ signaling' = [signaling EXCEPT !.running = FALSE, !.stopping = TRUE]
    BY <1>20, Zenon DEF Disconnect, Goto, Signaling!StopSocket
  <2>2. Phases'
    BY <1>20 DEF Disconnect, AfterDisconnect, Signaling!StopSocket
  <2>3. Socket'
    <3>1. CASE signaling.running
      BY <1>20, <2>1, <3>1 DEF Disconnect
    <3>2. CASE ~signaling.running
      BY <1>20, <3>2 DEF Disconnect, AfterDisconnect
    <3> QED
      BY <3>1, <3>2
  <2>4. Peer'
    <3>1. CASE signaling.running
      BY <1>20, <2>1, <3>1 DEF Disconnect
    <3>2. CASE ~signaling.running
      BY <1>20, <3>2 DEF Disconnect, AfterDisconnect
    <3> QED
      BY <3>1, <3>2
  <2>5. Callbacks'
    BY <1>20 DEF Disconnect, AfterDisconnect, Signaling!StopSocket
  <2>6. Publishing'
    BY <1>20 DEF Disconnect, AfterDisconnect, Signaling!StopSocket
  <2>7. Capturing'
    BY <1>20 DEF Disconnect, AfterDisconnect, Signaling!StopSocket
  <2> QED
    BY <2>2, <2>3, <2>4, <2>5, <2>6, <2>7
<1>21. CASE JoinSocket
  BY <1>21 DEF JoinSocket, AfterDisconnect, Signaling!SocketJoined, Runtime!SetConnected
<1>22. CASE ResetChannel
  BY <1>22 DEF ResetChannel
<1>23. CASE ReleasePc
  BY <1>23 DEF ReleasePc
<1>24. CASE ReleasePcf
  BY <1>24 DEF ReleasePcf
<1>25. CASE StopThreads
  BY <1>25 DEF StopThreads, NoPeer
<1>26. CASE ClearInitialized
  BY <1>26 DEF ClearInitialized
<1>27. CASE RuntimeStop
  <2>1. Phases'
    BY <1>27 DEF RuntimeStop, Runtime!Stop
  <2>2. Socket'
    BY <1>27 DEF RuntimeStop, Runtime!Stop
  <2>3. Peer'
    BY <1>27 DEF RuntimeStop, Runtime!Stop
  <2>4. Callbacks'
    BY <1>27 DEF RuntimeStop, Runtime!Stop
  <2>5. Publishing'
    BY <1>27 DEF RuntimeStop, Runtime!Stop
  <2>6. Capturing'
    BY <1>27 DEF RuntimeStop, Runtime!Stop
  <2> QED
    BY <2>1, <2>2, <2>3, <2>4, <2>5, <2>6
<1> QED
  BY <1>1, <1>2, <1>3, <1>4, <1>5, <1>6, <1>7, <1>8, <1>9, <1>10, <1>11,
     <1>12, <1>13, <1>14, <1>15, <1>16, <1>17, <1>18, <1>19, <1>20,
     <1>21, <1>22, <1>23, <1>24, <1>25, <1>26, <1>27
     DEF UIThread

LEMMA HandlerKeepsSession ==
  ASSUME TypeOK, SessionInv, Undisturbed, Handler
  PROVE  SessionInv'
<1> USE DEF TypeOK, SessionInv, Phases, Socket, Peer, Callbacks, Publishing, Capturing,
       BeforePeer, AudioAtRest, Ended, Starting, SocketJoined, AudioJoined, TelemetryJoined, EngineDown,
       SocketDown, Undisturbed, Full, Faults, StopLabels,
       Audio!TypeOK, Telemetry!TypeOK, Signaling!TypeOK, Runtime!TypeOK,
       wsKeeps, Proceed
<1>1. CASE OnConnected
  BY <1>1 DEF OnConnected, Signaling!CallbackReturns, Runtime!SetConnected
<1>2. CASE OfferFactory
  BY <1>2 DEF OfferFactory, Signaling!CallbackReturns
<1>3. CASE OfferObserver
  BY <1>3 DEF OfferObserver, Signaling!CallbackReturns
<1>4. CASE OfferPeer
  BY <1>4 DEF OfferPeer, Signaling!CallbackReturns
<1>5. CASE OfferNoPeer
  BY <1>5 DEF OfferNoPeer, Signaling!CallbackReturns
<1>6. CASE OfferChannel
  BY <1>6 DEF OfferChannel, Signaling!CallbackReturns
<1>7. CASE OfferCreate
  BY <1>7 DEF OfferCreate, Signaling!CallbackReturns
<1>8. CASE RemoteCheck
  BY <1>8 DEF RemoteCheck, Signaling!CallbackReturns
<1>9. CASE RemoteApply
  BY <1>9 DEF RemoteApply, Signaling!CallbackReturns
<1> QED
  BY <1>1, <1>2, <1>3, <1>4, <1>5, <1>6, <1>7, <1>8, <1>9
     DEF Handler

LEMMA SocketThreadKeepsSession ==
  ASSUME TypeOK, SessionInv, Undisturbed, SocketThread
  PROVE  SessionInv'
<1> USE DEF TypeOK, SessionInv, Phases, Socket, Peer, Callbacks, Publishing, Capturing,
       BeforePeer, AudioAtRest, Ended, Starting, SocketJoined, AudioJoined, TelemetryJoined, EngineDown,
       SocketDown, Undisturbed, Full, Faults, StopLabels,
       Audio!TypeOK, Telemetry!TypeOK, Signaling!TypeOK, Runtime!TypeOK,
       wsKeeps
<1>1. CASE SocketClears
  BY <1>1 DEF SocketClears, Signaling!ClearRunning
<1>2. CASE SocketClosed
  BY <1>2 DEF SocketClosed, Signaling!Closed, Runtime!SetConnected
<1>3. CASE SocketEnds
  BY <1>3 DEF SocketEnds, Signaling!GiveUp
<1>4. CASE SocketCloses
  BY <1>4 DEF SocketCloses, Signaling!Close
<1>5. CASE Handler
  BY <1>5, HandlerKeepsSession
<1> QED
  BY <1>1, <1>2, <1>3, <1>4, <1>5
     DEF SocketThread

LEMMA RtcThreadKeepsSession ==
  ASSUME TypeOK, SessionInv, Undisturbed, RtcThread
  PROVE  SessionInv'
<1> USE DEF TypeOK, SessionInv, Phases, Socket, Peer, Callbacks, Publishing, Capturing,
       BeforePeer, AudioAtRest, Ended, Starting, SocketJoined, AudioJoined, TelemetryJoined, EngineDown,
       SocketDown, Undisturbed, Full, Faults, StopLabels,
       Audio!TypeOK, Telemetry!TypeOK, Signaling!TypeOK, Runtime!TypeOK,
       rtcKeeps
<1>1. CASE SendOffer
  BY <1>1 DEF SendOffer
<1>2. CASE SendIce
  BY <1>2 DEF SendIce
<1>3. CASE StartTelemetry
  BY <1>3 DEF StartTelemetry, Telemetry!StartFlag
<1>4. CASE SpawnTelemetry
  BY <1>4 DEF SpawnTelemetry, Telemetry!StartThread
<1> QED
  BY <1>1, <1>2, <1>3, <1>4
     DEF RtcThread

LEMMA PublishThreadKeepsSession ==
  ASSUME TypeOK, SessionInv, Undisturbed, PublishThread
  PROVE  SessionInv'
<1> USE DEF TypeOK, SessionInv, Phases, Socket, Peer, Callbacks, Publishing, Capturing,
       BeforePeer, AudioAtRest, Ended, Starting, SocketJoined, AudioJoined, TelemetryJoined, EngineDown,
       SocketDown, Undisturbed, Full, Faults, StopLabels,
       Audio!TypeOK, Telemetry!TypeOK, Signaling!TypeOK, Runtime!TypeOK,
       pointers, others, publishKeeps
<1>1. CASE PublishWhile
  BY <1>1 DEF PublishWhile, Telemetry!WhileTest, Telemetry!Move
<1>2. CASE PublishCheck
  BY <1>2 DEF PublishCheck, Telemetry!Move
<1>3. CASE PublishSend
  BY <1>3 DEF PublishSend, Telemetry!Move
<1> QED
  BY <1>1, <1>2, <1>3
     DEF PublishThread

LEMMA CaptureThreadKeepsSession ==
  ASSUME TypeOK, SessionInv, Undisturbed, CaptureThread
  PROVE  SessionInv'
<1> USE DEF TypeOK, SessionInv, Phases, Socket, Peer, Callbacks, Publishing, Capturing,
       BeforePeer, AudioAtRest, Ended, Starting, SocketJoined, AudioJoined, TelemetryJoined, EngineDown,
       SocketDown, Undisturbed, Full, Faults, StopLabels,
       Audio!TypeOK, Telemetry!TypeOK, Signaling!TypeOK, Runtime!TypeOK,
       pointers, others
<1>1. CASE Audio!CreateEngine
  BY <1>1 DEF CaptureThread, Audio!CreateEngine
<1>2. CASE Audio!CreateRecorder
  BY <1>2 DEF CaptureThread, Audio!CreateRecorder
<1>3. CASE Audio!Poll
  BY <1>3 DEF CaptureThread, Audio!Poll, Audio!Move
<1>4. CASE Audio!CleanUp
  BY <1>4 DEF CaptureThread, Audio!CleanUp
<1>5. CASE Audio!ClearRunning
  BY <1>5 DEF CaptureThread, Audio!ClearRunning
<1>6. CASE Audio!NoEngine
  <2>1. Phases'
    BY <1>6 DEF CaptureThread, Audio!NoEngine, Audio!Move
  <2>2. Socket'
    BY <1>6 DEF CaptureThread, Audio!NoEngine, Audio!Move
  <2>3. Peer'
    BY <1>6 DEF CaptureThread, Audio!NoEngine, Audio!Move
  <2>4. Callbacks'
    BY <1>6 DEF CaptureThread, Audio!NoEngine, Audio!Move
  <2>5. Publishing'
    BY <1>6 DEF CaptureThread, Audio!NoEngine, Audio!Move
  <2>6. Capturing'
    BY <1>6 DEF CaptureThread, Audio!NoEngine, Audio!Move
  <2> QED
    BY <2>1, <2>2, <2>3, <2>4, <2>5, <2>6
<1>7. CASE Audio!NoRecorder
  <2>1. Phases'
    BY <1>7 DEF CaptureThread, Audio!NoRecorder
  <2>2. Socket'
    BY <1>7 DEF CaptureThread, Audio!NoRecorder
  <2>3. Peer'
    BY <1>7 DEF CaptureThread, Audio!NoRecorder
  <2>4. Callbacks'
    BY <1>7 DEF CaptureThread, Audio!NoRecorder
  <2>5. Publishing'
    BY <1>7 DEF CaptureThread, Audio!NoRecorder
  <2>6. Capturing'
    BY <1>7 DEF CaptureThread, Audio!NoRecorder
  <2> QED
    BY <2>1, <2>2, <2>3, <2>4, <2>5, <2>6
<1> QED
  BY <1>1, <1>2, <1>3, <1>4, <1>5, <1>6, <1>7
     DEF CaptureThread, Audio!CaptureLoop, Audio!Refused

LEMMA EnvironmentKeepsSession ==
  ASSUME TypeOK, SessionInv, Undisturbed, Environment
  PROVE  SessionInv'
<1> USE DEF TypeOK, SessionInv, Phases, Socket, Peer, Callbacks, Publishing, Capturing,
       BeforePeer, AudioAtRest, Ended, Starting, SocketJoined, AudioJoined, TelemetryJoined, EngineDown,
       SocketDown, Undisturbed, Full, Faults, StopLabels,
       Audio!TypeOK, Telemetry!TypeOK, Signaling!TypeOK, Runtime!TypeOK,
       StartLabels, pointers, others, Goto, Overlap,
       wsKeeps, rtcKeeps
<1>1. CASE OnStart
  BY <1>1 DEF OnStart
<1>2. CASE OnStop
  BY <1>2 DEF OnStop
<1>3. CASE SocketOpens
  <2>1. Phases'
    BY <1>3 DEF SocketOpens, Signaling!Open
  <2>2. Socket'
    BY <1>3 DEF SocketOpens, Signaling!Open
  <2>3. Peer'
    BY <1>3 DEF SocketOpens, Signaling!Open
  <2>4. Callbacks'
    BY <1>3 DEF SocketOpens, Signaling!Open
  <2>5. Publishing'
    BY <1>3 DEF SocketOpens, Signaling!Open
  <2>6. Capturing'
    BY <1>3 DEF SocketOpens, Signaling!Open
  <2> QED
    BY <2>1, <2>2, <2>3, <2>4, <2>5, <2>6
<1>4. CASE SocketMessage
  BY <1>4 DEF SocketMessage, Signaling!Message
<1>5. CASE SocketCloses
  BY <1>5 DEF SocketCloses, Signaling!Close
<1>6. CASE OfferReady
  BY <1>6 DEF OfferReady, PeerEvent
<1>7. CASE LocalIce
  BY <1>7 DEF LocalIce, PeerEvent
<1>8. CASE PeerConnects
  BY <1>8 DEF PeerConnects, PeerEvent
<1>9. CASE ChannelOpens \/ ChannelCloses
  BY <1>9 DEF ChannelOpens, ChannelCloses, ChannelChanges, PeerEvent
<1> QED
  BY <1>1, <1>2, <1>3, <1>4, <1>5, <1>6, <1>7, <1>8, <1>9
     DEF Environment

-----------------------------------------------------------------------------
LEMMA SessionInvariant == Spec => [](Undisturbed => SessionInv)
<1>1. Init => SessionInv
  BY DEF Init, SessionInv, Phases, Socket, Peer, Callbacks, Publishing,
     Capturing, BeforePeer, AudioAtRest, Ended, Starting, SocketJoined,
     AudioJoined, TelemetryJoined, EngineDown, SocketDown, StopLabels, NoPeer,
     Audio!Init, Audio!Fresh, Telemetry!Init, Telemetry!Fresh,
     Signaling!Init, Signaling!Fresh, Runtime!Init
<1>2. TypeOK /\ (Undisturbed => SessionInv) /\ [Next]_vars
        => (Undisturbed => SessionInv)'
  <2> SUFFICES ASSUME TypeOK, Undisturbed => SessionInv, [Next]_vars,
                      Undisturbed'
               PROVE  SessionInv'
    OBVIOUS
  <2>1. Undisturbed /\ SessionInv
    BY SettingKept DEF Undisturbed, Faults
  <2>2. CASE UNCHANGED vars
    BY <2>1, <2>2 DEF vars, pointers, SessionInv, Phases, Socket, Peer,
       Callbacks, Publishing, Capturing, BeforePeer, AudioAtRest, EngineDown,
       SocketDown, Full
  <2>3. CASE Next
    BY <2>1, <2>3, UIThreadKeepsSession, SocketThreadKeepsSession,
       RtcThreadKeepsSession, PublishThreadKeepsSession,
       CaptureThreadKeepsSession, EnvironmentKeepsSession DEF Next
  <2> QED
    BY <2>2, <2>3
<1> QED
  BY <1>1, <1>2, Typing, PTL DEF Spec

(* When onStop has returned, nothing it stops is running: the flags of the *)
(* components, on which each stop() decides, tell the truth                *)
(* (WebRtcEngine.cpp:155-175).                                             *)
THEOREM QuietAfterStop == Spec => []QuietUndisturbed
<1>1. (Undisturbed => SessionInv) /\ MicrophoneReleased => QuietUndisturbed
  <2> SUFFICES ASSUME SessionInv, MicrophoneReleased, ui = "idle",
                      ~runtime.running
               PROVE  QuietWhenStopped
    BY DEF QuietUndisturbed, QuietWhenStopped
  <2>1. ~m_initialized /\ ~runtime.connected
    BY DEF SessionInv, Phases
  <2>2. EngineDown
    BY <2>1 DEF EngineDown
  <2>3. signaling.ws = "off" /\ rtc = "off" /\ peer.state = "none"
    BY <2>2 DEF SessionInv, Socket, Callbacks, Peer, BeforePeer
  <2>4. telemetry.loop \in {"none", "done"}
    BY <2>3 DEF SessionInv, Publishing, Ended
  <2>5. audio.loop \in {"none", "done"} /\ audio.opensl = {}
    BY <2>1 DEF SessionInv, Capturing, AudioAtRest, Ended, MicrophoneReleased
  <2> QED
    BY <2>1, <2>3, <2>4, <2>5 DEF QuietWhenStopped
<1> QED
  BY <1>1, SessionInvariant, MicrophoneStaysReleased, PTL

(* No callback goes through a pointer that destroy has nulled, although    *)
(* none of them looks again (WebRtcEngine.cpp:254).                        *)
THEOREM PeerStaysThere == Spec => []PeerNotNull
<1>1. TypeOK /\ (Undisturbed => SessionInv) => PeerNotNull
  BY DEF PeerNotNull, SessionInv, Callbacks, Peer, StopLabels
<1> QED
  BY <1>1, SessionInvariant, Typing, PTL

(* The channel the publish thread has checked is the one it sends on,      *)
(* without a lock: it is set before the telemetry starts, and reset after  *)
(* its join (WebRtcEngine.cpp:106, 160-165).                               *)
THEOREM ChannelStays == Spec => ChannelKept
<1>1. (Undisturbed => SessionInv) /\ [Next]_vars
        => [Undisturbed /\ telemetry.loop = "send"
              => UNCHANGED m_data_channel]_vars
  <2> SUFFICES ASSUME SessionInv, telemetry.loop = "send", Next
               PROVE  UNCHANGED m_data_channel
    OBVIOUS
  <2>1. ui # "resetChannel" /\ handler # "offerChannel"
    BY DEF SessionInv, Publishing, Peer, Ended, TelemetryJoined, AudioJoined,
       SocketJoined
  <2>2. CASE Environment
    BY <2>2 DEF Environment, OnStart, OnStop, SocketOpens, SocketMessage,
       SocketCloses, OfferReady, LocalIce, PeerConnects, ChannelOpens,
       ChannelCloses, ChannelChanges, pointers, rtcKeeps
  <2>3. CASE UIThread
    BY <2>1, <2>3 DEF UIThread, RuntimeStart, InitTest, DropAudio,
       DropAudioJoin, NewAudio, DropSignaling, DropSignalingJoin,
       DropTelemetry, DropTelemetryJoin, NewTelemetry, RtcThreads, Factory,
       Connect, SetInitialized, DestroyTest, StopTelemetry, JoinTelemetry,
       StopAudio, JoinAudio, Disconnect, JoinSocket, ResetChannel, ReleasePc,
       ReleasePcf, StopThreads, ClearInitialized, RuntimeStop, Goto, pointers
  <2>4. CASE SocketThread
    BY <2>1, <2>4 DEF SocketThread, SocketClears, SocketClosed, SocketEnds,
       SocketCloses, Handler, OnConnected, OfferFactory, OfferObserver,
       OfferPeer, OfferNoPeer, OfferChannel, OfferCreate, RemoteCheck,
       RemoteApply, Proceed
  <2>5. CASE RtcThread \/ CaptureThread \/ PublishThread
    BY <2>5 DEF RtcThread, SendOffer, SendIce, StartTelemetry, SpawnTelemetry,
       CaptureThread, PublishThread, PublishWhile, PublishCheck, PublishSend,
       pointers, rtcKeeps, publishKeeps
  <2> QED
    BY <2>2, <2>3, <2>4, <2>5 DEF Next
<1> QED
  BY <1>1, SessionInvariant, PTL DEF Spec, ChannelKept

-----------------------------------------------------------------------------
(* The refinement of SessionContract.                                      *)

(* The device counts as connected between the end of init and the join of  *)
(* the WebSocket, and a peer connection is not older than that.            *)
Linked ==
  /\ ui \in StopLabels \ {"destroy", "runtimeStop"} => m_initialized
  /\ runtime.connected => /\ m_initialized \/ ui = "setInitialized"
                          /\ signaling.running \/ ui = "joinSocket"
                          /\ ui \notin SocketJoined
  /\ peer.state # "none" =>
       runtime.connected \/ ui \in {"joinSocket"} \cup SocketJoined

LEMMA UIThreadKeepsLinked ==
  ASSUME TypeOK, SessionInv, Undisturbed, Linked, UIThread
  PROVE  Linked'
<1> USE DEF Linked, SocketJoined, StopLabels, TypeOK, Signaling!TypeOK,
       Runtime!TypeOK, Goto
<1>1. CASE RuntimeStart \/ InitTest \/ DestroyTest
  BY <1>1 DEF RuntimeStart, Runtime!Start, InitTest, DestroyTest, pointers
<1>2. CASE DropAudio \/ DropAudioJoin \/ NewAudio
  BY <1>2 DEF DropAudio, DropAudioJoin, NewAudio, pointers
<1>3. CASE DropSignaling \/ DropSignalingJoin
  BY <1>3 DEF DropSignaling, Signaling!DeleteSocket, DropSignalingJoin,
     SessionInv, Phases, Starting, pointers
<1>4. CASE DropTelemetry \/ DropTelemetryJoin \/ NewTelemetry
  BY <1>4 DEF DropTelemetry, DropTelemetryJoin, NewTelemetry, pointers
<1>5. CASE RtcThreads \/ Factory \/ SetInitialized
  BY <1>5 DEF RtcThreads, Factory, SetInitialized, NoPeer, pointers,
     SessionInv, Peer, BeforePeer, Undisturbed
<1>6. CASE Connect
  BY <1>6 DEF Connect, Signaling!Connect, Signaling!ConnectStub,
     Runtime!SetConnected, pointers
<1>7. CASE StopTelemetry \/ JoinTelemetry \/ StopAudio \/ JoinAudio
  BY <1>7 DEF StopTelemetry, JoinTelemetry, StopAudio, JoinAudio, pointers
<1>8. CASE Disconnect
  BY <1>8 DEF Disconnect, Signaling!StopSocket, AfterDisconnect, pointers
<1>9. CASE JoinSocket
  BY <1>9 DEF JoinSocket, AfterDisconnect, Signaling!SocketJoined,
     Runtime!SetConnected, pointers
<1>10. CASE ResetChannel \/ ReleasePc \/ ReleasePcf
  BY <1>10 DEF ResetChannel, ReleasePc, ReleasePcf
<1>11. CASE StopThreads \/ ClearInitialized
  BY <1>11 DEF StopThreads, ClearInitialized, NoPeer, pointers, SessionInv,
     Peer, BeforePeer
<1>12. CASE RuntimeStop
  BY <1>12 DEF RuntimeStop, Runtime!Stop, pointers, SessionInv, Phases, Peer,
     BeforePeer, EngineDown, Starting
<1> QED
  BY <1>1, <1>2, <1>3, <1>4, <1>5, <1>6, <1>7, <1>8, <1>9, <1>10, <1>11,
     <1>12 DEF UIThread

LEMMA OthersKeepLinked ==
  ASSUME TypeOK, SessionInv, Undisturbed, Linked,
         Environment \/ SocketThread \/ RtcThread \/ CaptureThread
           \/ PublishThread
  PROVE  Linked'
<1> USE DEF Linked, SocketJoined, StopLabels, TypeOK, Signaling!TypeOK,
       Runtime!TypeOK
<1>1. CASE OnStart \/ OnStop
  BY <1>1 DEF OnStart, OnStop, Goto, pointers
<1>2. CASE SocketOpens \/ SocketMessage
  BY <1>2 DEF SocketOpens, Signaling!Open, SocketMessage, Signaling!Message,
     wsKeeps
<1>3. CASE SocketCloses
  BY <1>3 DEF SocketCloses, Signaling!Close, wsKeeps
<1>4. CASE PeerCallback
  BY <1>4 DEF PeerCallback, OfferReady, LocalIce, PeerConnects, ChannelOpens,
     ChannelCloses, ChannelChanges, rtcKeeps
<1>5. CASE RtcThread
  BY <1>5 DEF RtcThread, SendOffer, SendIce, StartTelemetry, SpawnTelemetry,
     rtcKeeps
<1>6. CASE SocketClears \/ SocketClosed \/ SocketEnds
  BY <1>6 DEF SocketClears, Signaling!ClearRunning, SocketClosed,
     Signaling!Closed, Runtime!SetConnected, SocketEnds, Signaling!GiveUp,
     wsKeeps, SessionInv, Socket
<1>7. CASE OnConnected
  BY <1>7 DEF OnConnected, Proceed, Runtime!SetConnected, wsKeeps,
     SessionInv, Socket, Phases, EngineDown, StartLabels
<1>8. CASE OfferPeer
  BY <1>8 DEF OfferPeer, Proceed, wsKeeps, SessionInv, Socket
<1>9. CASE OfferFactory \/ OfferObserver \/ OfferNoPeer \/ OfferChannel
             \/ RemoteCheck
  BY <1>9 DEF OfferFactory, OfferObserver, OfferNoPeer, OfferChannel,
     RemoteCheck, Proceed, Signaling!CallbackReturns, wsKeeps
<1>10. CASE OfferCreate \/ RemoteApply
  BY <1>10 DEF OfferCreate, RemoteApply, Proceed, Signaling!CallbackReturns,
     wsKeeps
<1>11. CASE CaptureThread \/ PublishThread
  BY <1>11 DEF CaptureThread, PublishThread, PublishWhile, PublishCheck,
     PublishSend, publishKeeps, pointers, others
<1> QED
  BY <1>1, <1>2, <1>3, <1>4, <1>5, <1>6, <1>7, <1>8, <1>9, <1>10, <1>11
     DEF Environment, PeerCallback, SocketThread, Handler

LEMMA LinkedInvariant == Spec => [](Undisturbed => Linked)
<1>1. Init => Linked
  BY DEF Init, Linked, StopLabels, NoPeer, Runtime!Init
<1>2. TypeOK /\ (Undisturbed => SessionInv) /\ (Undisturbed => Linked)
        /\ [Next]_vars => (Undisturbed => Linked)'
  <2> SUFFICES ASSUME TypeOK, Undisturbed => SessionInv, Undisturbed => Linked,
                      [Next]_vars, Undisturbed'
               PROVE  Linked'
    OBVIOUS
  <2>1. Undisturbed /\ SessionInv /\ Linked
    BY SettingKept DEF Undisturbed, Faults
  <2>2. CASE UNCHANGED vars
    BY <2>1, <2>2 DEF vars, pointers, Linked
  <2>3. CASE Next
    BY <2>1, <2>3, UIThreadKeepsLinked, OthersKeepLinked DEF Next
  <2> QED
    BY <2>2, <2>3
<1> QED
  BY <1>1, <1>2, Typing, SessionInvariant, PTL DEF Spec

(* Most steps change nothing that a session is made of. *)
LEMMA UIThreadRefines ==
  ASSUME TypeOK, SessionInv, Linked, Undisturbed, Undisturbed', UIThread
  PROVE  [Session!Next]_(Session!sessionVars)
<1> USE DEF Session!sessionVars, TypeOK, Audio!TypeOK, Telemetry!TypeOK,
       Runtime!TypeOK, Goto
<1>1. CASE RuntimeStart
  BY <1>1 DEF RuntimeStart, Runtime!Start, Session!Next, Session!Start
<1>2. CASE NewAudio
  <2>1. /\ runtime.running /\ ~runtime.connected
        /\ audio.loop \in {"none", "done"}
    BY <1>2 DEF NewAudio, SessionInv, Phases, Starting, Linked, Capturing,
       AudioAtRest, Ended
  <2>2. audio'.loop = "createEngine" /\ UNCHANGED <<telemetry, runtime>>
    BY <1>2 DEF NewAudio, Audio!NewAndStart
  <2> QED
    BY <2>1, <2>2 DEF Session!Next, Session!Capture
<1>3. CASE NewTelemetry
  <2>1. telemetry.loop \in {"none", "done"}
    BY <1>3 DEF NewTelemetry, SessionInv, Publishing, Peer, BeforePeer,
       EngineDown, Ended
  <2> QED
    BY <1>3, <2>1 DEF NewTelemetry, Telemetry!New, Telemetry!Fresh
<1>4. CASE Connect
  <2>1. runtime.running
    BY <1>4 DEF Connect, SessionInv, Phases
  <2> QED
    BY <1>4, <2>1 DEF Connect, Runtime!SetConnected, Session!Next, Session!Link
<1>5. CASE JoinSocket
  <2>1. audio.loop \in {"none", "done"} /\ telemetry.loop \in {"none", "done"}
    BY <1>5 DEF JoinSocket, SessionInv, Publishing, Capturing, AudioAtRest,
       AudioJoined, TelemetryJoined, Ended
  <2> QED
    BY <1>5, <2>1 DEF JoinSocket, Runtime!SetConnected, Session!Next,
       Session!Unlink
<1>6. CASE RuntimeStop
  <2>1. ~m_initialized /\ ~runtime.connected
    BY <1>6 DEF RuntimeStop, SessionInv, Phases, Linked
  <2>2. audio.loop \in {"none", "done"} /\ telemetry.loop \in {"none", "done"}
    BY <1>6, <2>1 DEF RuntimeStop, SessionInv, Publishing, Capturing, AudioAtRest,
       Peer, BeforePeer, EngineDown, Ended
  <2> QED
    BY <1>6, <2>1, <2>2 DEF RuntimeStop, Runtime!Stop, Session!Next, Session!Stop
<1>7. CASE DropAudio \/ DropAudioJoin \/ StopAudio \/ JoinAudio
  BY <1>7 DEF DropAudio, DropAudioJoin, StopAudio, JoinAudio, Audio!Stop,
     Audio!Join
<1>8. CASE DropTelemetry \/ DropTelemetryJoin \/ StopTelemetry \/ JoinTelemetry
  BY <1>8 DEF DropTelemetry, DropTelemetryJoin, StopTelemetry, JoinTelemetry,
     Telemetry!StopFlag, Telemetry!Join
<1>9. CASE \/ InitTest \/ DropSignaling \/ DropSignalingJoin \/ RtcThreads
           \/ Factory \/ SetInitialized \/ DestroyTest \/ Disconnect
           \/ ResetChannel \/ ReleasePc \/ ReleasePcf \/ StopThreads
           \/ ClearInitialized
  BY <1>9 DEF InitTest, DropSignaling, DropSignalingJoin, RtcThreads, Factory,
     SetInitialized, DestroyTest, Disconnect, ResetChannel, ReleasePc,
     ReleasePcf, StopThreads, ClearInitialized
<1> QED
  BY <1>1, <1>2, <1>3, <1>4, <1>5, <1>6, <1>7, <1>8, <1>9 DEF UIThread

LEMMA OthersRefine ==
  ASSUME TypeOK, SessionInv, Linked, Undisturbed, Undisturbed',
         Environment \/ SocketThread \/ RtcThread \/ CaptureThread
           \/ PublishThread
  PROVE  [Session!Next]_(Session!sessionVars)
<1> USE DEF Session!sessionVars, TypeOK, Audio!TypeOK, Telemetry!TypeOK,
       Runtime!TypeOK
<1>1. CASE OnConnected
  <2>1. runtime.running
    BY <1>1 DEF OnConnected, Proceed, SessionInv, Socket, Phases, EngineDown
  <2> QED
    BY <1>1, <2>1 DEF OnConnected, wsKeeps, Runtime!SetConnected,
       Session!Next, Session!Link
<1>2. CASE SocketClosed
  <2>1. ui = "joinSocket"
    BY <1>2 DEF SocketClosed, Signaling!Closed, SessionInv, Socket
  <2>2. audio.loop \in {"none", "done"} /\ telemetry.loop \in {"none", "done"}
    BY <2>1 DEF SessionInv, Publishing, Capturing, AudioAtRest, AudioJoined,
       TelemetryJoined, Ended
  <2> QED
    BY <1>2, <2>2 DEF SocketClosed, wsKeeps, Runtime!SetConnected,
       Session!Next, Session!Unlink
<1>3. CASE SpawnTelemetry
  <2>1. runtime.connected
    BY <1>3 DEF SpawnTelemetry, SessionInv, Callbacks, Linked, StopLabels,
       SocketJoined
  <2>2. telemetry'.loop = "while" /\ UNCHANGED <<audio, runtime>>
    BY <1>3 DEF SpawnTelemetry, Telemetry!StartThread, rtcKeeps
  <2> QED
    BY <2>1, <2>2 DEF Session!Next, Session!Publish
<1>4. CASE CaptureThread
  <2>1. UNCHANGED <<telemetry, runtime>>
    BY <1>4 DEF CaptureThread
  <2>2. /\ audio.loop \notin {"none", "done"}
        /\ audio'.loop # "none"
    BY <1>4 DEF CaptureThread, Audio!CaptureLoop, Audio!Refused,
       Audio!CreateEngine, Audio!CreateRecorder, Audio!Poll, Audio!CleanUp,
       Audio!ClearRunning, Audio!NoEngine, Audio!NoRecorder, Audio!Move
  <2> QED
    BY <2>1, <2>2 DEF Session!Next, Session!Uncapture
<1>5. CASE PublishThread
  <2>1. UNCHANGED <<audio, runtime>>
    BY <1>5 DEF PublishThread, PublishWhile, PublishCheck, PublishSend,
       publishKeeps
  <2>2. /\ telemetry.loop \notin {"none", "done"}
        /\ telemetry'.loop # "none"
    BY <1>5 DEF PublishThread, PublishWhile, PublishCheck, PublishSend,
       Telemetry!WhileTest, Telemetry!Move
  <2> QED
    BY <2>1, <2>2 DEF Session!Next, Session!Unpublish
<1>6. CASE SendOffer \/ SendIce \/ StartTelemetry
  BY <1>6 DEF SendOffer, SendIce, StartTelemetry, Telemetry!StartFlag, rtcKeeps
<1>7. CASE Environment
  BY <1>7 DEF Environment, OnStart, OnStop, SocketOpens, SocketMessage,
     SocketCloses, OfferReady, LocalIce, PeerConnects, ChannelOpens,
     ChannelCloses, ChannelChanges, wsKeeps, rtcKeeps
<1>8. CASE \/ SocketCloses \/ SocketClears \/ SocketEnds \/ OfferFactory
           \/ OfferObserver \/ OfferPeer \/ OfferNoPeer \/ OfferChannel
           \/ OfferCreate \/ RemoteCheck \/ RemoteApply
  BY <1>8 DEF SocketCloses, SocketClears, SocketEnds, OfferFactory,
     OfferObserver, OfferPeer, OfferNoPeer, OfferChannel, OfferCreate,
     RemoteCheck, RemoteApply, wsKeeps
<1> QED
  BY <1>1, <1>2, <1>3, <1>4, <1>5, <1>6, <1>7, <1>8
     DEF SocketThread, Handler, RtcThread

(* The threads of an undisturbed session implement SessionContract: its    *)
(* parts are stacked, and taken down in the opposite order                 *)
(* (WebRtcEngine.cpp:145, 160-162).                                        *)
THEOREM SessionRefinement == Spec => SessionStacked
<1>1. Init => Session!Init
  BY DEF Init, Session!Init, Audio!Init, Audio!Fresh, Telemetry!Init,
     Telemetry!Fresh, Runtime!Init
<1>2. TypeOK /\ (Undisturbed => SessionInv) /\ (Undisturbed => Linked)
        /\ [Next]_vars => [Session!Next]_(Session!sessionVars)
  <2> SUFFICES ASSUME TypeOK, Undisturbed => SessionInv, Undisturbed => Linked,
                      [Next]_vars
               PROVE  [Session!Next]_(Session!sessionVars)
    OBVIOUS
  <2>1. setting' = setting
    BY SettingKept
  <2>2. CASE ~Undisturbed
    BY <2>1, <2>2 DEF Session!sessionVars, Undisturbed, Faults
  <2>3. CASE UNCHANGED vars
    BY <2>3 DEF Session!sessionVars, Undisturbed, Faults, vars
  <2>4. CASE Undisturbed /\ Next
    <3>1. Undisturbed'
      BY <2>1, <2>4 DEF Undisturbed, Faults
    <3> QED
      BY <2>4, <3>1, UIThreadRefines, OthersRefine DEF Next
  <2> QED
    BY <2>2, <2>3, <2>4
<1> QED
  BY <1>1, <1>2, Typing, SessionInvariant, LinkedInvariant, PTL
     DEF Spec, SessionStacked, Session!Spec
=============================================================================
