SPECIFICATION Spec
CONSTANTS
  Thread = {t1, t2}
  Did = {d1}
  Dir <- MCDir
  DirOf <- MCDirOf
  Kind = {"fold", "read", "forget"}
  MaxCall = 4
  MaxInc = 2
INVARIANTS AckedSurvives
CHECK_DEADLOCK FALSE
