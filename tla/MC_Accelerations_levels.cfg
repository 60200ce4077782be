SPECIFICATION Accelerations_Spec
CONSTANTS
  NTask = 3
  Groups = 4
  PairedBy <- XorTable
  N_gas <- ThreeGas
  BunchSizeDensity = 7
  MAXITER = 1
  Ti_Current = 0
  Endsteps <- ThreeEndsteps
  MaxAgain = 1
  Reach <- ThreeReach
  NumPart <- FourThreeOne
  NumGas <- TwoTwoNone
  NoGravity <- Halo
  BunchSizeForce = 5
  BunchSizeHydro = 4
  RelativeCriterion = TRUE
  Situations <- SomeSituations
  PMGRID = 8
  BoxSize = 8
  Slabs <- FFTW
  first_slab_of_task <- FFTWStart
  Hold <- TwoTasksHold
  HighRes <- Selected
  Calls <- SomeCalls
CHECK_DEADLOCK FALSE
INVARIANTS
  BuffersHold
  EachOnce
  LoopsExact
  MeshExact
PROPERTIES
  CallsEnd
