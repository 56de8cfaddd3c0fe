SPECIFICATION Spec
CONSTANTS
  Account = {a1}
  Priv = {}
  Kind = "doris"
  ActionOp = {o1}
  PermOp = {q1}
  Thread = {r1}
  ActionReq = {r1}
  NoOne = NoOne
  MaxInc = 1
  MaxLate = 0
  MaxDba = 0
CONSTRAINT Prompt
PROPERTIES NotAppliedIsTrue
CHECK_DEADLOCK FALSE
