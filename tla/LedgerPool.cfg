SPECIFICATION Spec
CONSTANTS
  Thread = {t1, t2}
  Did = {d1, d2}
  Dir <- MCDir
  DirOf <- MCDirOf
  Kind = {"fold", "read"}
  MaxCall = 3
  MaxInc = 2
INVARIANTS AckedSurvives CollisionHasACause
CHECK_DEADLOCK FALSE
