SPECIFICATION Spec
CHECK_DEADLOCK FALSE
CONSTANTS
  Users = {1}
  Titles = {}
  Teams = {t1}
  Departments = {d1}
  Levels = {1}
  None = None
  Workers = {w1, w2}
  Modes <- MCOverlap
INVARIANT ActiveTeamInActiveDepartment
