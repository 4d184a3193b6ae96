SPECIFICATION PublishFairSpec
CONSTANTS
  Path = {p1}
  Hash = {h1, h2}
  None = None
  Thread = {t1, t2}
  Frontend = {}
  MaxSets = 3
  MaxListener = 3
CHECK_DEADLOCK FALSE
INVARIANTS ExactAtFirst IndexComplete PublishedAll
PROPERTIES SetReturns
