SPECIFICATION FairSpec
CONSTANTS
  Path = {p1, p2}
  MaxMtime = 3
  MaxFaults = 2
  None = None
  Torn = Torn
INVARIANTS HashTrusted QuietPassExact
PROPERTIES Converges
