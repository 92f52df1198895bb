SPECIFICATION Spec
CONSTANTS
  N = 2
  MaxTick = 2
  MaxGen <- OneStart
  MaxAir = 1
  TransmittedCap = 2
  Crashable = {1}
  Stallable = {}
  Debuggable = {1}
  DebugOffWhileHeld = FALSE
INVARIANT EveryStepRunsFirmware
CHECK_DEADLOCK FALSE
