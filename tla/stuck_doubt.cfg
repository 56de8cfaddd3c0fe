SPECIFICATION FairSpec
CONSTANTS
  Account = {a1}
  Priv = {g1}
  Kind = "mysql"
  ActionOp = {o1}
  PermOp = {q1}
  Thread = {r1}
  ActionReq = {r1}
  NoOne = NoOne
  MaxInc = 2
  MaxLate = 0
  MaxDba = 1
PROPERTIES DoubtEnds
CHECK_DEADLOCK FALSE
