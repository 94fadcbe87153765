SPECIFICATION ObsSpec
CONSTANTS
  t1 = t1  t2 = t2  k1 = k1  k2 = k2  v1 = v1  v2 = v2
  Threads <- MCThreads2
  Keys <- MCKeys
  Values <- MCValues
  Buckets <- MCBuckets1
  Hash <- MCCollide
  CommitModes = {FALSE}
  OverwriteModes = {FALSE}
  Promotes = FALSE
  Removes = TRUE
  NumPages = 2
SYMMETRY SymmetricKeys
INVARIANTS
  ValidIsNewest
  AnswersWereTrue
PROPERTIES
  ImplementsNameMap
