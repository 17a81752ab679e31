SPECIFICATION Spec
CONSTANTS
  self = self
  a = a
  b = b
  ip0 = ip0
  ip1 = ip1
  ip2 = ip2
  Nodes = {self, a}
  Self = self
  Ip <- OnePeer
  LocalIp = ip0
  MaxPeers = 2
  PeerTimeout = 2
  ReapInterval = 1
  HelloInterval = 1
  MaxDelay = 1
  Lag = 1
INVARIANTS
  TypeOK
  UniqueIp
  NoSelfPeer
  DepartedForgotten
  SteadyListed
