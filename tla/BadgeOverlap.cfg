SPECIFICATION Spec
CHECK_DEADLOCK FALSE
CONSTANTS
  Employees = {e1, e2}
  Requests = {q1, q2}
  Cards = {c1}
  Workers = {w1, w2}
  MaxScans = 2
  MayCrash = TRUE
  None = None
  FirstDay = 1
  LastDay = 1
SYMMETRY Symmetric
INVARIANTS
  HandledIsBacked
  ScansMatchLoans
