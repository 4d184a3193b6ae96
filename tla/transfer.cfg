SPECIFICATION FairSpec
CONSTANTS
  p1 = p1
  p2 = p2
  x1 = x1
  x2 = x2
  Peer = {p1, p2}
  Path = {x1, x2}
  Shared <- MCShared
  Owners <- MCOwners
  Handle = {h1, h2}
  MaxFaults = 2
INVARIANTS FetchReliable
PROPERTIES FetchEnds
CHECK_DEADLOCK FALSE
