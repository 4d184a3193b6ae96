SPECIFICATION FairSpec
CONSTANTS
  Thread = {t1, t2}
  File = {f1}
  MaxConn = 3
  Sharing = {TRUE, FALSE}
INVARIANTS TypeOK NothingOfTheGone CallbackKept SignedBetweenCalls
PROPERTIES CallReturns
