SPECIFICATION Spec
CONSTANTS
  t1 = t1  t2 = t2  t3 = t3  n1 = n1  n2 = n2  n3 = n3
  Tasks <- MCTasks2
  Names <- MCNames
  Requests <- MCSingles
  Rounds = 1
  Recycled = FALSE
  DiskFaults = FALSE
  RecordSize = 3
  FilenameSize = 3
  HeaderSize = 1
  MaxJournalSize = 10
SYMMETRY Symmetric
INVARIANTS
  UniqueClassNames
