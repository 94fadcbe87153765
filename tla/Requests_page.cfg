SPECIFICATION MCSpec
CONSTANTS
  t1 = t1  t2 = t2  u1 = u1  u2 = u2
  n1 = n1  n2 = n2  n3 = n3
  Nil = Nil
  NoOpt = NoOpt
  NoName = NoName
  Classes = {"A", "B", "C", "D"}
  Names = {"A", "D", "X"}
  Descendants <- ServeDescendants
  Topics <- ServeTopics
  Attrs = {"ref", "num", "inner", "text"}
  Batches = {1, 2, 3}
  FromBatches = {2}
  Froms = {0, 1}
  MaxBatch = 2
  Tasks <- MCTasks2
  Users <- MCUsers2
  NumCells = 3
  MaxBuilds = 2
  Asserts = TRUE
SYMMETRY Symmetric
CHECK_DEADLOCK FALSE
INVARIANT
  PageWithinBatch
