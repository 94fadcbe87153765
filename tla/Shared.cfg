SPECIFICATION MCSpec
CONSTANTS
  s1 = s1
  s2 = s2
  s3 = s3
  e1 = e1
  Tasks = {s1, s2, s3}
  Radix = 2
  Ids <- MCIds
  Elems = {e1}
  NoElem = NoElem
  NumPages = 2
  MaxCalls = 3
  PoolPages = 3
CHECK_DEADLOCK FALSE
INVARIANTS
  NumElemsExact
  WalkMissesNothing
  PagesCounted
  FreeListIntact
PROPERTIES
  ImplementsPathSet
  ImplementsIdMap
  CallsReturn
  PageGivenOnce
  NoMemOnlyWhenFull
