SPECIFICATION Spec
CONSTANTS
  n1 = n1
  n2 = n2
  Node = {n1, n2}
  Reflasher = {"r1", "r2"}
  Target <- ReflashFirst
  Sessions <- TwoReflashes
  MaxEngines = 1
  MaxVerbs = 3
INVARIANT OneProcessPerNode
CHECK_DEADLOCK FALSE
