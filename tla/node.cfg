SPECIFICATION FairSpec
CONSTANTS
  c1 = c1
  t1 = t1
  t2 = t2
  Self = self
  Conns = {c1, t1}
  Own = {t1}
  Printers = {t1}
  MaxTasks = 1
  MaxChunks = 1
  BadSource = {c1}
  Signals = {"INT", "TERM"}
CHECK_DEADLOCK FALSE
INVARIANTS
  TypeOK
  EndToEnd
PROPERTIES
  Implements
  Returns
  RemoteEnds
