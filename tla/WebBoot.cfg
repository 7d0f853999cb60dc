SPECIFICATION FairSpec
CONSTANTS
  web1 = web1
  web2 = web2
  old = old
  new = new
  here = here
  there = there
  Server = {web1, web2}
  KeyFile = {old, new}
  CookieFile = cookie
  Addr = {here, there}
  BindTo <- MCBindTo
  FirstList <- MCFirst
  MaxStart = 3
  MaxOp = 2
INVARIANTS TypeOK ForkNeedsAnOverlap LoneStartServes
PROPERTIES KeysOutliveStarts StartsEnd
CHECK_DEADLOCK FALSE
