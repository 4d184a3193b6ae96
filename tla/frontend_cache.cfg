SPECIFICATION FairSpec
CONSTANTS
  Name = {a}
  Hash = {h1}
  None = None
  Dir = Dir
  Root = Root
  Inner = Inner
  Handler = {r1, r2}
  Expiry = 3
  MaxChanges = 2
INVARIANTS MissesBounded
PROPERTIES EventuallyFresh
