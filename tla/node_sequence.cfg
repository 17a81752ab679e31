SPECIFICATION Spec
CONSTANTS
  c1 = c1
  t1 = t1
  t2 = t2
  Self = self
  Conns = {t1, t2}
  Own = {t1, t2}
  Printers = {t1}
  MaxTasks = 2
  MaxChunks = 0
  BadSource = {}
  Signals = {}
CHECK_DEADLOCK FALSE
INVARIANT Submitted
