SPECIFICATION LiveSpec
CONSTANTS
  Account = {a1}
  Priv = {}
  Kind = "mysql"
  ActionOp = {o1}
  PermOp = {q1}
  Thread = {r1, r2}
  ActionReq = {r1, r2}
  AcctReq = {r1}
  Worker = {w1, w2}
  Batch = 1
  NoOne = NoOne
  MaxInc = 2
  MaxLate = 0
  MaxDba = 0
  PoolHandlers = {h1, h2, h3}
  Leases = {l1, l2}
  PoolAccounts = {a1, a2}
  Breaks = 1
PROPERTIES DueExpires RequestsEnd DoubtEnds RequestEnds
CHECK_DEADLOCK FALSE
