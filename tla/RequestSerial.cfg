SPECIFICATION Spec
CONSTANTS
  clerk = clerk
  lead = lead
  rh = rh
  t1 = t1
  d1 = d1
  s1 = s1
  s2 = s2
  s3 = s3
  None = None
  Users = {1, 2, 3}
  Titles = {clerk, lead, rh}
  Teams = {t1}
  Departments = {d1}
  Levels = {1, 2, 3}
  RhTitle = rh
  Requests = {q1}
  Steps = {s1, s2, s3}
  Orders = {1, 2, 3, 4}
  Workers = {w1}
  Editors = {e1}
  StepEdits = {"create", "active", "required", "type"}
  DirEdits = {"user", "leader", "title"}
  MaxEdits = 2
  InitialDir <- MCDir
  InitialSteps <- MCFixed
CHECK_DEADLOCK FALSE
INVARIANTS
  PendingInv
  ApprovedIsComplete
PROPERTIES
  ImplementsLifecycle
