--------------------------- MODULE SignalingClient ---------------------------
(***************************************************************************)
(* The connection to the signaling server: class SignalingClient and the   *)
(* ix::WebSocket it owns.  The UI thread connects, disconnects and         *)
(* destroys it; the thread of the WebSocket runs the message callback,     *)
(* which calls back into WebRtcEngine.                                     *)
(*                                                                         *)
(* ix::WebSocket is code of a library: start() begins a thread that        *)
(* connects, and connects again after a close, until stop(), which closes  *)
(* an open connection and joins the thread.                                *)
(*                                                                         *)
(* A module for composition: see WebRtcEngine.                             *)
(***************************************************************************)
VARIABLE signaling
  \* running:   m_running
  \* connected: m_connected
  \* stopping:  ix::WebSocket::stop() has been called
  \* ws:        what the thread of the WebSocket does: "off" (no thread),
  \*            "down" (connecting), "up", "calling" (in a callback of
  \*            WebRtcEngine), "clearRunning" and "onDisconnected" (in the
  \*            Close branch of the message callback)

Fresh == [running |-> FALSE, connected |-> FALSE, stopping |-> FALSE,
          ws |-> "off"]

TypeOK ==
  signaling \in [running : BOOLEAN, connected : BOOLEAN, stopping : BOOLEAN,
                 ws : {"off", "down", "up", "calling", "clearRunning",
                       "onDisconnected"}]

Init == signaling = Fresh

-----------------------------------------------------------------------------
(* Operations of the UI thread.                                            *)

(* A new SignalingClient, with a new WebSocket that is not started. *)
New == signaling' = Fresh

(* connect(): if (m_running.exchange(true)) return; start the WebSocket. *)
Connect == signaling' = IF signaling.running THEN signaling
                        ELSE [signaling EXCEPT !.running = TRUE, !.ws = "down"]

(* connect() without IXWebSocket: it says it is connected at once. *)
ConnectStub == signaling' = [signaling EXCEPT !.running = TRUE,
                                              !.connected = TRUE]

(* disconnect() of a running client: m_running = false, and stop the       *)
(* WebSocket.                                                              *)
StopSocket == signaling' = [signaling EXCEPT !.running = FALSE,
                                             !.stopping = TRUE]

(* Mutant: disconnect() does not wait for the thread of the WebSocket. *)
Bug_SocketNotJoined == signaling' = [signaling EXCEPT !.connected = FALSE]

(* stop() returns when the thread has ended; then m_connected = false. *)
SocketJoined == /\ signaling.ws = "off"
                /\ signaling' = [signaling EXCEPT !.connected = FALSE]

(* The destructor calls disconnect(), which does nothing when m_running is *)
(* false, as it is then; and deletes the WebSocket, which stops it.        *)
DeleteSocket == signaling' = [signaling EXCEPT !.stopping = TRUE]

-----------------------------------------------------------------------------
(* The thread of the WebSocket: the message callback.                      *)

(* Open: m_connected = true; onConnected is called. *)
Open == /\ signaling.ws = "down" /\ ~signaling.stopping
        /\ signaling' = [signaling EXCEPT !.connected = TRUE, !.ws = "calling"]

(* Message: dispatchMessage calls onRemoteSdp or onRemoteIce. *)
Message == /\ signaling.ws = "up" /\ ~signaling.stopping
           /\ signaling' = [signaling EXCEPT !.ws = "calling"]

(* A callback of WebRtcEngine returns. *)
CallbackReturns == signaling' = [signaling EXCEPT !.ws = "up"]

(* Close: m_connected = false; ... *)
Close == /\ signaling.ws = "up"
         /\ signaling' = [signaling EXCEPT !.connected = FALSE,
                                           !.ws = "clearRunning"]

(* ... m_running = false; ... *)
ClearRunning ==
  /\ signaling.ws = "clearRunning"
  /\ signaling' = [signaling EXCEPT !.running = FALSE, !.ws = "onDisconnected"]

(* ... onDisconnected has been called: connect again, or end. *)
Closed == /\ signaling.ws = "onDisconnected"
          /\ signaling' = [signaling EXCEPT
                             !.ws = IF signaling.stopping THEN "off" ELSE "down"]

(* The thread ends without a connection to close. *)
GiveUp == /\ signaling.ws = "down" /\ signaling.stopping
          /\ signaling' = [signaling EXCEPT !.ws = "off"]
=============================================================================
