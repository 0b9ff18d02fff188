SPECIFICATION FairSpec
CHECK_DEADLOCK FALSE
CONSTANTS
  Employees = {e1, e2}
  Requests = {q1, q2}
  Cards = {c1}
  Workers = {w1}
  MaxScans = 2
  MayCrash = FALSE
  None = None
  FirstDay = 1
  LastDay = 2
INVARIANTS
  LoanInv
PROPERTIES
  CheckOutReleases
