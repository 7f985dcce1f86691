SPECIFICATION Spec
CONSTANTS
  Width = 4
  Heaps = {2, 10}
  CodecSize = 3
  MaxSize = 8
  TextReserve = 3
  Sizes <- MCSizes
  Atses <- MCAtses
  Block <- MCBlocks
INVARIANTS
  TypeOK
  BlocksAreOwned
  SourceGoneBeforeCopy
  ReserveIsLeft
  LoadVerdictIsTrue
  AtsReachesTheAir
PROPERTY OldFileKeptUntilRendered
CHECK_DEADLOCK FALSE
