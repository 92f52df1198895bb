SPECIFICATION FairSpec
CONSTANTS
  n1 = n1
  n2 = n2
  Node = {n1, n2}
  Reflasher = {"r1"}
  Target <- ReflashFirst
  Sessions <- Apart
  MaxEngines = 2
  MaxVerbs = 3
INVARIANT TypeOK
INVARIANT OneProcessPerNode
INVARIANT NoOrphan
PROPERTY AttachEnds
PROPERTY ClosedIsEmptied
CHECK_DEADLOCK FALSE
