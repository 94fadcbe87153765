SPECIFICATION FairSpec
CONSTANTS
  t1 = t1  t2 = t2  t3 = t3  n1 = n1  n2 = n2  n3 = n3
  Tasks <- MCTasks2
  Names <- MCNames
  Requests <- MCDisjoint
  Rounds = 2
  Recycled = FALSE
  DiskFaults = TRUE
  RecordSize = 1
  FilenameSize = 3
  HeaderSize = 1
  MaxJournalSize = 5
INVARIANTS
  JournalsFollowLog
  JournalOverrun
PROPERTIES
  RequestsAnswered
