SPECIFICATION Spec
CONSTANTS
  Observers = {o1, o2}
  Channels = {d1, d2}
  NONE = NONE
  Settings <- ServerCloses
INVARIANTS QuietWhenStopped
