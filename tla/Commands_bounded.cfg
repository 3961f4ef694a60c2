SPECIFICATION CmdFairSpec
CONSTANTS
  MaxBytes = 2
  Wide = {1}
  ChannelCapacity = 1
  CaptureLimit = 3
PROPERTY CommandIsBounded
CHECK_DEADLOCK FALSE
