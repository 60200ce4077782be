SPECIFICATION Spec
CONSTANTS
  Particle = {p1, p2}
  Task = {t1, t2}
  TIMEBASE = 8
  Steps <- Powers8
  Wishes = {1, 2, 4}
  OutputListTimes = {0, 3, 5, 8, 9, 14}
  NewTimeMax = {16}
  MaxRestarts = 2
  MaxCrashes = 0
  MinPerTask = 1
CHECK_DEADLOCK FALSE
INVARIANTS
  NoZeroStep
