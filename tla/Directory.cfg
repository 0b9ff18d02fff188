SPECIFICATION Spec
CHECK_DEADLOCK FALSE
CONSTANTS
  Users = {1, 2}
  Titles = {clerk}
  Teams = {t1, t2}
  Departments = {d1, d2}
  Levels = {1}
  None = None
  Workers = {w1, w2}
  Modes <- MCModes
INVARIANTS
  DirectoryInv
  ActivitySynced
  SomeActiveAdmin
