SPECIFICATION FairSpec
CONSTANTS
  Proc = {p1, p2}
  Frontend = {"fuse"}
  MaxKeys = 2
INVARIANTS KeysMatch ExitTellsAll
PROPERTIES ExitsWhenCancelled
