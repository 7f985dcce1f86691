SPECIFICATION Spec
CONSTANTS
  n1 = n1
  n2 = n2
  NoName = NoName
  Names <- MCNames
  Saved <- MCSaved
  MaxEdits = 1
  MaxQueue = 2
PROPERTY LeavingPromptsToSave
CHECK_DEADLOCK FALSE
