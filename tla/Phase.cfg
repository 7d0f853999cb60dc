CONSTANTS
  Job = {j1, j2}
  Machine = {"burn", "notice"}
  Start <- MCStart
  Transition <- MCTransition
  Terminal <- MCTerminal
  MaxRuns = 2

SPECIFICATION FairSpec

INVARIANTS
  TypeOK
  EffectAtMostOnce
  OneGapPerFailure

PROPERTIES
  FinishedForGood
  RunEnds

\* every job may be over
CHECK_DEADLOCK FALSE
