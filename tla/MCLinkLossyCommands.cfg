SPECIFICATION LinkSpec
CONSTANTS
  FrameMax = 3
  CommandCap = 4
  ReplyLengths <- MCReplyLengths
  CommandClasses <- MCNative
  Cids = {}
  NoCid = NoCid
  Payloads <- MCNoPayloads
  MaxCommands = 0
  MaxActivations = 1
  BlockCounts <- MCLong
  MaxSerial = 1
  MaxFaults = 1
  LossyBlocks = 4
  MaxInFlight = 3
INVARIANT EngineGetsIssuedCommands
CHECK_DEADLOCK FALSE
