SPECIFICATION Spec
CONSTANTS
  N = 2
  MaxTick = 2
  MaxGen <- FirstIsReflashed
  MaxAir = 1
  TransmittedCap = 2
  Crashable = {1}
  Stallable = {}
  Debuggable = {1}
  DebugOffWhileHeld = FALSE
INVARIANT DownIsThisStart
CHECK_DEADLOCK FALSE
