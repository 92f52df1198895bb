SPECIFICATION Spec
CONSTANTS
  N = 2
  MaxTick = 2
  MaxGen <- FirstIsReflashed
  MaxAir = 1
  TransmittedCap = 1
  Crashable = {1}
  Stallable = {}
  Debuggable = {1}
  DebugOffWhileHeld = FALSE
INVARIANTS
  OneAckOwed
  CompletionOwed
  NeverCutOff
PROPERTY LockstepIsABarrier
\* The clock and the starts are bounded.
CHECK_DEADLOCK FALSE
