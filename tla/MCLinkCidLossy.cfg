SPECIFICATION FairLinkSpec
CONSTANTS
  FrameMax = 3
  CommandCap = 3
  ReplyLengths <- MCReplyLengths
  CommandClasses <- MCNative
  Cids = {c1}
  NoCid = NoCid
  Payloads <- MCNoPayloads
  MaxCommands = 0
  MaxActivations = 1
  BlockCounts <- MCUnchained
  MaxSerial = 1
  MaxFaults = 1
  LossyBlocks = 4
  MaxInFlight = 3
PROPERTY EveryCommandAnswered
CHECK_DEADLOCK FALSE
