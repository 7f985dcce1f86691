SPECIFICATION Spec
CONSTANTS
  FrameMax = 3
  CommandCap = 2
  ReplyLengths <- MCReplyLengths
  CommandClasses <- MCClasses
  Cids = {c1}
  NoCid = NoCid
  Payloads <- MCPayloads
  MaxCommands = 2
  MaxActivations = 3
INVARIANTS
  TypeOK
  ActivationIsolation
  LastFrameIsLastChunk
  PendingResponse
  CommandFits
PROPERTY
  CidFixedOnceEngineRan
