SPECIFICATION FairSpecParts
CONSTANTS
  Parts = {"store", "shutdown", "sweep", "told", "calling", "switched"}
  Request = {"signal", "verb"}
  Impatient = {"signal"}
  Closer = {"signal"}
  Queue = 1
  DrainMax = 1
  SweepArms <- OneArm
  SweepSeeds <- OneSeed
  SweepRuns = 2
  SweepChanges = 0
  ToldAsks = 1
  ToldNotes = 1
  MatrixPairs = {"near"}
  MatrixSwitches = 0
PROPERTIES
  CallsOfDoReturn
  AskedToEndEnds
  SweepLetsGo
  CallsAnswered
  MeasuringEnds
\* A session may be closed, and the counters of what happens are bounded.
CHECK_DEADLOCK FALSE
