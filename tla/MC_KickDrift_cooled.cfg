SPECIFICATION KickDriftSpec
CONSTANTS
  Particle = {p1, p2}
  Task = {t1, t2}
  Gas = {p1}
  TIMEBASE = 8
  Steps <- Powers8
  Wishes = {2, 4}
  Displacements = {8}
  UpdateLimit = 1
  OutputListTimes = {3, 8}
  NewTimeMax = {12}
  MaxRestarts = 0
  MaxCrashes = 0
  MinPerTask = 1
CHECK_DEADLOCK FALSE
INVARIANT
  NodesCooled
