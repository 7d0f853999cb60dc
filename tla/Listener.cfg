CONSTANT
  MaxFrames = 4

SPECIFICATION FairSpec

INVARIANTS
  TypeOK
  CompletionsPayForLosses
  StartedBeforeNext
  ReturnMeansDone
  OutcomeMatchesEffects
  FlightsNeverStick

PROPERTIES
  ImplementsEventLoop
  SlowNeverBlocksFast
  ReturnsAfterStream

\* a silent stream waits, and a listener that returned is over
CHECK_DEADLOCK FALSE
