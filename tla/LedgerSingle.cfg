SPECIFICATION Spec
CONSTANTS
  Thread = {t1}
  Did = {d1, d2}
  Dir <- MCDir
  DirOf <- MCDirOf
  Kind = {"append", "fold", "read", "forget"}
  MaxCall = 3
  MaxInc = 3
INVARIANTS TypeOK AckedSurvives FoldAllOrNothing
CHECK_DEADLOCK FALSE
