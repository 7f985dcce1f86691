SPECIFICATION LinkSpec
CONSTANTS
  FrameMax = 3
  CommandCap = 3
  ReplyLengths <- MCReplyLengths
  CommandClasses <- MCNative
  Cids = {}
  NoCid = NoCid
  Payloads <- MCNoPayloads
  MaxCommands = 0
  MaxActivations = 1
  BlockCounts <- MCChained
  MaxSerial = 2
  MaxFaults = 1
  LossyBlocks = 4
  MaxInFlight = 3
INVARIANT ResultsAnswerTheirCommand
CHECK_DEADLOCK FALSE
