SPECIFICATION Domain_Spec
CONSTANTS
  NTask = 3
  g1 = g1
  g2 = g2
  g3 = g3
  o1 = o1
  o2 = o2
  Gas = {g1, g2, g3}
  Other = {o1, o2}
  NoParticle = none
  KeyOf <- MCKeyOf
  MaxPart = 4
  MaxPartSph = 3
  MaxExchanges = 3
  NTopleaves = 8
  MaxLoad = 3
  MaxLoadSph = 2
  Trees <- MixedTrees
  Stale <- Anything
  Placements <- SomePlacements
  BITS_PER_DIMENSION = 3
  TOPNODEFACTOR = 1
  MAXTOPNODES = 32
INVARIANTS
  DivisionFits
  TreeExact
  Beside
  Once
PROPERTIES
  NeverWorse
  ShiftsKeepDivision
  SplitEnds
  SortedAfterwards
