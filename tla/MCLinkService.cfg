SPECIFICATION FairLinkSpec
CONSTANTS
  FrameMax = 3
  CommandCap = 3
  ReplyLengths <- MCReplyLengths
  CommandClasses <- MCNative
  Cids = {c1}
  NoCid = NoCid
  Payloads <- MCNoPayloads
  MaxCommands = 0
  MaxActivations = 2
  BlockCounts <- MCChained
  MaxSerial = 3
  MaxFaults = 3
  LossyBlocks = 1
  MaxInFlight = 4
INVARIANT RunAndAnsweredOnce
PROPERTIES
  ImplementsService
  AnsweredOnceBound
  FarewellIsReturned
CHECK_DEADLOCK FALSE
