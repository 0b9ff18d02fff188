SPECIFICATION Spec
CONSTANTS
  Users = {1, 2, 3}
  Titles = {clerk, rh, chief}
  RhTitle = rh
  clerk = clerk
  rh = rh
  chief = chief
  Teams = {t1}
  d1 = d1
  Departments = {d1, d2}
  Levels = {0, 1, 2}
  None = None
  Families <- MCFamilies
INVARIANTS
  AssigneeIsSuperior
  RequiredSkipsOnlyUpward
  NearestHolderChosen
  HierarchyIsWhole
