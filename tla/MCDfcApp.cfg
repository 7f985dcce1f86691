SPECIFICATION Spec
CONSTANTS
  n1 = n1
  n2 = n2
  NoName = NoName
  Names <- MCNames
  Saved <- MCSaved
  MaxEdits = 2
  MaxQueue = 2
INVARIANTS
  TypeOK
  EmulationOnlyOnScreen
  MenuCardIsLoaded
  SavedMeansWritten
  NoSceneTwice
PROPERTY
  GuiLeavesRunningCardAlone
CHECK_DEADLOCK FALSE
