SPECIFICATION MCSpec
CONSTANTS
  MaxBytes = 2
  Wide = {1}
  ChannelCapacity = 1
  CaptureLimit = 3
  MaxStarts = 3
  MaxActive = 1
  MaxRecords = 2
  MaxLogBytes = 4
  MaxLogRecords = 3
  MaxChunkBytes = 5
  MaxPushes = 5
INVARIANTS OutputIsComplete LogIsHonest
PROPERTIES TableIsSound CommandReturns EndIsReported
CHECK_DEADLOCK FALSE
