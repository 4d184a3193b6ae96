SPECIFICATION FairSpec
CONSTANTS
  Reader = {r1, r2}
  Size = 7
  BlockSize = 3
  Prefetch = 1
  Recovers = TRUE
  Request <- MCRequests
  Lost = {0, 2}
INVARIANTS TypeOK ChannelsSound ExactBytes PanicsOnlyBeyondEnd
PROPERTIES ReadReturns
CHECK_DEADLOCK FALSE
