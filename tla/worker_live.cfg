SPECIFICATION FairSpec
CONSTANTS
  c1 = c1
  c2 = c2
  Conns = {c1, c2}
  MaxTasks = 1
  MaxChunks = 1
  BadSource = {c2}
  Malformed = {}
  Leavers = {c1}
  Faults = {"fopen", "fork"}
PROPERTIES
  Answered
  SlotsReturned
