SPECIFICATION Spec
CONSTANTS
  Observers = {o1, o2}
  Channels = {d1, d2}
  NONE = NONE
  Settings <- AllSettings
CHECK_DEADLOCK FALSE
INVARIANTS TypeOK ThreadsJoined QuietUndisturbed ObserverAlive PeerNotNull ConnectedAgrees MicrophoneReleased JoinsEnd
PROPERTIES ChannelKept SessionStacked CallReturns
