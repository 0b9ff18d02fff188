SPECIFICATION Spec
CHECK_DEADLOCK FALSE
CONSTANTS
  Employees = {e1}
  Requests = {q1, q2}
  Cards = {c1, c2}
  Workers = {w1}
  MaxScans = 0
  MayCrash = FALSE
  None = None
  FirstDay = 1
  LastDay = 2
INVARIANT OneCardPerEmployee
