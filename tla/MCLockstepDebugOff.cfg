SPECIFICATION Spec
CONSTANTS
  N = 2
  MaxTick = 2
  MaxGen <- OneStart
  MaxAir = 1
  TransmittedCap = 2
  Crashable = {}
  Stallable = {}
  Debuggable = {1}
  DebugOffWhileHeld = TRUE
INVARIANT NeverCutOff
CHECK_DEADLOCK FALSE
