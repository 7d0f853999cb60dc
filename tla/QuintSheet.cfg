SPECIFICATION Spec
CONSTANTS
  PerPoint = 4
  MinInt <- MCMinInt
  MaxInt = 99
  Proc = {p1, p2}
  SetTo <- MCSetTo
  IncBy <- MCIncBy
  Stamp = {"now", "none", "future"}
  Legacy = {0}
  Sheets <- MCSheets
  MaxCall = 2
  MaxEdit = 2
  MaxTime = 1
INVARIANTS TypeOK LossesNeedARace BalanceIsASubsum DriftHasACause
CHECK_DEADLOCK FALSE
SYMMETRY Procs
