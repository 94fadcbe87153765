SPECIFICATION Spec
CONSTANTS
  NumAgents = 2
  Folders = {1, 2}
  Kinds = {"class"}
  Radix = 62
  MaxRequests = 3
  MaxCrashes = 2
CHECK_DEADLOCK FALSE
INVARIANTS
  NumbersUnique
