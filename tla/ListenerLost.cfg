CONSTANT
  MaxFrames = 3

SPECIFICATION Spec

INVARIANTS
  EveryLinkIsDispatched

\* a silent stream waits, and a listener that returned is over
CHECK_DEADLOCK FALSE
