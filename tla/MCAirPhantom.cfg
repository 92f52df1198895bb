SPECIFICATION Spec
CONSTANTS
  N = 3
  Listener = {1, 3}
  Power <- Hidden
  Message = {m1}
  Airtime = {3, 5}
  KeyedTwice = FALSE
  StepMs = 2
  MaxMs = 10
  MaxPackets = 3
  PreambleMs = 2
  LockMs = 1
  SymbolMs = 1
  Capture = 1
  SlackMs = 2
INVARIANT LockIsTheTimelines
CHECK_DEADLOCK FALSE
