SPECIFICATION Spec
CONSTANTS
  Account = {a1}
  Priv = {g1, g2}
  Kind = "mysql"
  ActionOp = {o1}
  PermOp = {q1, q2}
  Thread = {r1, r2}
  PermReq = {r1, r2}
  NoOne = NoOne
  MaxInc = 2
  MaxLate = 0
  MaxDba = 1
  Spellings = {FALSE}
SYMMETRY Symmetry
INVARIANTS PermTypeOK
PROPERTIES PlanConfined AppliedIsTrue RestoredIsTrue
CHECK_DEADLOCK FALSE
