SPECIFICATION PlatformSpec
CHECK_DEADLOCK FALSE
CONSTANTS
  Workers = {w1, w2}
  None = None
  RowIds <- MCRowIds
  AccessModes <- MCAccessModes
  UnitIds = {u1, u2, u3, u4, u5}
  StaffIds = {e1, e2, e3, e4, e5, e6, e7}
  UnitPayloads <- MCUnitPayloads
  StaffPayloads <- MCStaffPayloads
  TakenMatricules = {"m0"}
  Accounts = {a1}
  Devices = {d1, d2}
  TokenIds = {t1, t2, t3}
  Lifetime = 2
  ChosenWords = {"mine"}
  TemporaryWords = {"given"}
  LoginModes <- MCLoginModes
  Guest = Guest
  e1 = e1
  e2 = e2
  e3 = e3
  s1 = s1
  s2 = s2
  d1 = d1
  d2 = d2
  q1 = q1
  q2 = q2
  q3 = q3
  Staff = {e1, e2, e3}
  Squads = {s1, s2}
  Divisions = {d1, d2}
  Cards = {q1, q2, q3}
  DashDays = {1, 2, 3}
  Companies <- MCCompanies
  Sites = {x1}
  LastBuild = 3
  KnownSites = {}
  Operated = {"tasks.manage", "announcements.read"}
  KnownTitles = {"RH_MANAGER", "EMPLOYEE"}
  ColdStarts = TRUE
  Keys = {login, refresh}
  MaxRequests = 2
  Window = 3
  LastTick = 6
  Free = Free
INVARIANTS
  AccessInv
  SeededRolesWork
  LoginInv
  DashInv
  BuildInv
  SchemaInv
  LimiterInv
PROPERTIES
  InstallsComplete
