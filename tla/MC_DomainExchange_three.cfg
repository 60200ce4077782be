SPECIFICATION Spec
CONSTANTS
  NTask = 3
  MaxPart = 4
  MaxPartSph = 3
  BunchSizeDomain = 2
  WithGas = TRUE
  PairSchedule <- Pairs3
  InitialHold <- FullPlacements
INVARIANTS
  MemoryBound
  NoAbort
  SameMessage
  DoneIsHome
PROPERTIES
  Implements
