SPECIFICATION ManagedSpec
CONSTANTS
  Account = {a1}
  Priv = {g1}
  Kind = "mysql"
  ActionOp = {o1}
  PermOp = {q1}
  Thread = {r1, r2}
  AcctReq = {r1, r2}
  Worker = {w1}
  Batch = 1
  NoOne = NoOne
  MaxInc = 2
  MaxLate = 0
  MaxDba = 0
SYMMETRY Symmetry
PROPERTIES NeverDropsCreated
CHECK_DEADLOCK FALSE
