CONSTANTS
  NTask = 3
  MaxPart = 4
  Gas = {0, 1, 2}
  MaxNodes = 10
  TopNodes <- TheTopNodes
  BoxLen = 64
  TinyLen = 8
  MAX_NGB = 2
  Criteria <- TheCriteria
  BoxSize = 96
  Rcut = 20
  UpdateLimit = 6
  Divisions <- TheDivisions
  Kicks <- TheKicks
  Smoothings <- TheSmoothings
  Starts <- TheStarts
  ActiveSets <- TheActiveSets
  MaxSteps = 2
SPECIFICATION Spec
INVARIANTS MomentsAgree
