SPECIFICATION FairSpec
CONSTANTS
  N = 1
  MaxTick = 3
  MaxGen <- Reflashed
  MaxAir = 2
  TransmittedCap = 1
  Crashable = {1}
  Stallable = {1}
  Debuggable = {1}
  DebugOffWhileHeld = TRUE
INVARIANTS
  TypeOK
  HeldWillAnswer
PROPERTIES
  StepReturns
  HeldIsReleased
\* The clock and the starts are bounded.
CHECK_DEADLOCK FALSE
