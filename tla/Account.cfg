SPECIFICATION MCSpec
CONSTANTS
  Requests = {r1}
  MaxChanges = 2
  Processes = {p1}
  login = login
  beacon = beacon
  CreateKey = create
  Keys = {create, login, beacon}
  Limit <- MCLimit
  Window <- MCWindow
  MaxTrackedKeys = 2
  MaxTime = 2
  Creations = {q1, q2, q3}
  Allowed = 1
  Never = Never
SYMMETRY Symmetry
INVARIANTS
  GivenByRight
  RefusalTellsNothing
  QuotaHolds
  OvershootIsBounded
CHECK_DEADLOCK FALSE
