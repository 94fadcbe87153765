SPECIFICATION MCSpec
CONSTANTS
  NumAgents = 2
  Folders = {1, 2}
  Kinds = {"class", "inst"}
  Radix = 4
  MaxRequests = 4
  MaxCrashes = 3
  Stores <- MCStores
  Tasks = {t1, t2}
  Root = 0
  None = None
CHECK_DEADLOCK FALSE
INVARIANTS
  AckedSurvive
  InstsInOrder
  AllCommitsIndexed
  LoadedAsWritten
  InheritedAsResolved
  FailsForCause
PROPERTIES
  OpeningEnds
