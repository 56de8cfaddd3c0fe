SPECIFICATION AccountsSpec
CONSTANTS
  Account = {a1}
  Priv = {g1}
  Kind = "doris"
  ActionOp = {o1, o2}
  PermOp = {q1}
  Thread = {r1, r2}
  ActionReq = {r1, r2}
  AcctReq = {r1, r2}
  Worker = {w1}
  Batch = 1
  NoOne = NoOne
  MaxInc = 2
  MaxLate = 1
  MaxDba = 2
SYMMETRY Symmetry
CONSTRAINT Calm
INVARIANTS AccountsTypeOK NeverReissued OpenIffUnsettled OneInDoubt
PROPERTIES ConfirmedAccount SucceededIsTrue CreateReportsTruth FailedIsGone OnlyOwnTouched ExpiredIsCut
CHECK_DEADLOCK FALSE
