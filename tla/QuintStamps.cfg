SPECIFICATION Spec
CONSTANTS
  PerPoint = 4
  MinInt <- MCMinInt
  MaxInt = 99
  Proc = {p1}
  SetTo <- MCSetTo
  IncBy <- MCIncBy
  Stamp = {"now", "none"}
  Legacy = {0}
  Sheets <- MCSheets
  MaxCall = 2
  MaxEdit = 2
  MaxTime = 1
INVARIANTS WritesLeaveCoherent
CHECK_DEADLOCK FALSE
