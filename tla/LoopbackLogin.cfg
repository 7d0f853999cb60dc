SPECIFICATION FairSpec
CONSTANTS
  Proc = {c1, c2}
  Did = {alice, bob}
  Port = {1, 2}
  MaxStart = 3
  MaxReq = 2
INVARIANTS TypeOK PortDriftHasACause LoggedOutLeavesNoTokens
PROPERTIES SuccessIsOnRecord LoginEnds
\* every command may be over
CHECK_DEADLOCK FALSE
