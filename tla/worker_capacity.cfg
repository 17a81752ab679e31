SPECIFICATION Spec
CONSTANTS
  c1 = c1
  c2 = c2
  Conns = {c1, c2}
  MaxTasks = 1
  MaxChunks = 1
  BadSource = {}
  Malformed = {}
  Leavers = {}
  Faults = {}
INVARIANT WithinCapacity
