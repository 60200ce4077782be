SPECIFICATION KickDriftSpec
CONSTANTS
  Particle = {p1, p2}
  Task = {t1, t2}
  Gas = {p1}
  TIMEBASE = 8
  Steps <- Powers8
  Wishes = {2, 4}
  Displacements = {2, 8}
  UpdateLimit = 1
  OutputListTimes = {0, 3, 5, 8, 9, 14}
  NewTimeMax = {12}
  MaxRestarts = 2
  MaxCrashes = 1
  MinPerTask = 1
CHECK_DEADLOCK FALSE
INVARIANTS
  OnGrid
  NobodyLeftBehind
  AllActiveCounted
  KickedToMidpoint
  OutputsKept
  VelocitiesAgree
PROPERTIES
  EveryRunEnds
