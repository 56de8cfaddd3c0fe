SPECIFICATION Spec
CONSTANTS
  l1 = l1
  l2 = l2
  v1 = v1
  v2 = v2
  User = {u1, u2}
  Req = {q1}
  Thread = {r1, r2}
  Line = {l1, l2}
  Value = {v1, v2}
  Null = Null
  Document <- Documents
  MaxEdit = 1
  MaxGrant = 1
SYMMETRY Symmetry
PROPERTIES ReviewerEntitled ReaderEntitled Decides
CHECK_DEADLOCK FALSE
