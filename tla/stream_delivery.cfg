SPECIFICATION StreamSpec
CONSTANTS
  Reader = {r1}
  Size = 17
  BlockSize = 6
  Prefetch = 1
  Recovers = FALSE
  Request = {}
  Lost = {0, 1, 4}
  BufSize = 3
  Start <- MCStart
INVARIANTS AlignedSafe
PROPERTIES Refines StreamEnds
CHECK_DEADLOCK FALSE
