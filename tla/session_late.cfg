SPECIFICATION Spec
CONSTANTS
  Thread = {t1, t2}
  File = {f1}
  MaxConn = 3
  Sharing = {TRUE}
INVARIANTS AllPublished
