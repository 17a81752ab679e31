SPECIFICATION Spec
CONSTANTS
  c1 = c1
  c2 = c2
  Conns = {c1, c2}
  MaxTasks = 2
  MaxChunks = 1
  BadSource = {c2}
  Malformed = {}
  Leavers = {c1}
  Faults = {"accept", "thread", "fopen"}
INVARIANTS
  TypeOK
  ActiveExact
  CleanTmp
  AloneIsFaithful
  ChildrenReaped
