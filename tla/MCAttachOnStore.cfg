SPECIFICATION FairSpec
CONSTANTS
  n1 = n1
  n2 = n2
  Node = {n1, n2}
  Reflasher = {"r1"}
  Target <- ReflashFirst
  Sessions <- StartsOnStore
  MaxEngines = 1
  MaxVerbs = 2
PROPERTY StoreAnswers
CHECK_DEADLOCK FALSE
