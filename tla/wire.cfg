SPECIFICATION FairSpec
CONSTANTS
  MAX_FILE_SIZE = 2
  MAX_FILENAME_LEN = 3
  OUTPUT_BUF_SIZE = 3
  MaxU16 = 15
  MaxU32 = 15
  MaxMsgs = 2
  LineCap = 9
INVARIANTS
  TypeOK
  TasksFit
PROPERTIES
  ChannelSpec
  Arrives
  ReceiverReturns
