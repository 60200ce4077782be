SPECIFICATION Files_Spec
CONSTANTS
  TypeOf <- SixTypes
  Blocks <- SomeBlocks
  blockmaxlen = 2
  InitialFiles <- SomeFiles
  JobParams <- Params
  Layouts <- SomeLayouts
  MaxSnapshots = 1
  MaxCrashes = 1
  NTask = 3
  NumFilesWrittenInParallel = 2
  MaxTime = 2
  Profiles <- SomeProfiles
  nSPH = 4
  ID_SKIP = 16
  rad = 4
  RcrustOf <- Crusts
  Runs <- SomeRuns
  OutputOptions <- SomeOptions
  MarkPatterns <- SomePatterns
  Tables <- SomeTables
  MakerTables <- SomeMakerTables
  Densities = {1, 3, 6, 9, 11}
  Entropies = {0, 2, 5, 9}
  Quantities = {0, 3}
  ParticleIds = {0, 3, 6, 7, 9}
  EOS_ID_SKIP = 2
  Collisions <- SomeCollisions
  twoG = 2
  nearest = 0
  allseps = 60
  tol <- OnePercent
  maxit = 3
  minparts = 2
  nMat = 2
  idskip = 10
INVARIANT
  SnapshotResumes
CHECK_DEADLOCK FALSE
