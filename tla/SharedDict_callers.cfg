SPECIFICATION FairSpec
CONSTANTS
  t1 = t1  t2 = t2  k1 = k1  k2 = k2  v1 = v1  v2 = v2
  Threads <- MCThreads2
  Keys <- MCOneKey
  Values <- MCOneValue
  Buckets <- MCBuckets1
  Hash <- MCCollide
  CommitModes = {TRUE, FALSE}
  OverwriteModes = {TRUE, FALSE}
  Promotes = TRUE
  Removes = TRUE
  NumPages = 3
INVARIANTS
  TypeOK
PROPERTIES
  CallsReturn
