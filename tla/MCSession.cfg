SPECIFICATION SpecParts
CONSTANTS
  Parts = {"store", "shutdown", "scheduled", "timed", "swept", "port", "console", "sweep", "told", "calling", "collision", "switched", "rewarmed"}
  Request = {"signal", "window", "verb"}
  Impatient = {"signal", "window"}
  Closer = {"signal", "window"}
  Queue = 1
  DrainMax = 1
  SweepArms <- OneArmOrTwo
  SweepSeeds <- TwoSeeds
  SweepRuns = 2
  SweepChanges = 1
  ToldAsks = 2
  ToldNotes = 2
  MatrixPairs = {"far"}
  MatrixSwitches = 1
INVARIANTS
  TypesOK
  ExitsAfterClose
  DueIsDone
  ClockIsTrue
  PortIsKept
  ShownInOrder
  TableIsRight
  SweepIsShown
  OneAnswerComing
  ToldInOrder
  DamageIsRight
  MeasuredIsWalked
  LinksAreThisNetworks
  PricedAsKeyed
PROPERTIES
  StoreIsASerialServer
\* A session may be closed, and the counters of what happens are bounded.
CHECK_DEADLOCK FALSE
