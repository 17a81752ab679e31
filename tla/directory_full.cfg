SPECIFICATION Spec
CONSTANTS
  self = self
  a = a
  b = b
  ip0 = ip0
  ip1 = ip1
  ip2 = ip2
  Nodes = {self, a, b}
  Self = self
  Ip <- TwoPeers
  LocalIp = ip0
  MaxPeers = 1
  PeerTimeout = 2
  ReapInterval = 1
  HelloInterval = 1
  MaxDelay = 0
  Lag = 0
INVARIANT DepartedForgotten
PROPERTY NeverEvicted
