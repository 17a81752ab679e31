SPECIFICATION FairSpec
CONSTANTS
  self = self
  p1 = p1
  p2 = p2
  t1 = t1
  t2 = t2
  Peers = {p1, p2}
  Self = self
  Tasks = {t1, t2}
  Reports <- SomeReports
  Codes = {0, 1}
  MaxOut = 2
  NoAnswer = 1000
  Worst = 10000
INVARIANTS
  TypeOK
  PortKnown
  LeastLoaded
  AtMostOnce
  ReturnsVerdict
PROPERTY Returns
