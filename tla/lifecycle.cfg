SPECIFICATION Spec
CONSTANTS
  Account = {a1}
  Priv = {g1}
  Kind = "doris"
  ActionOp = {o1}
  PermOp = {q1}
  Thread = {r1, r2}
  ActionReq = {r1}
  PermReq = {r2}
  AcctReq = {r3}
  Worker = {}
  Batch = 1
  Spellings = {FALSE}
  NoOne = NoOne
  MaxInc = 2
  MaxLate = 0
  MaxDba = 0
CONSTRAINT Pairwise
INVARIANTS NoOpenPair Serialised
PROPERTIES ActionsTrue EditsTrue
CHECK_DEADLOCK FALSE
