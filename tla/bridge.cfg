SPECIFICATION FairSpec
CONSTANTS
  s1 = s1
  s2 = s2
  f1 = f1
  Sessions = {s1, s2}
  Fickle = {s2}
  Names = {f1}
  MaxLines = 2
  Sizes = {0, 2}
  Backlog = 1
  Room = 1
  PipeRoom = 1
CHECK_DEADLOCK FALSE
INVARIANTS
  TypeOK
  Transcript
  PageStatus
  Fresh
PROPERTIES
  Delivered
  Taken
