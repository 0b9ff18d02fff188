-------------------------- MODULE DirectorySessions --------------------------
(***************************************************************************)
(* Concurrent requests to the users, employees and organization services.  *)
(* Each worker thread serves one HTTP request with its own session: one    *)
(* step reads, checks and computes the column writes, the next one commits *)
(* them.  update_user and update_employee load the account and the profile *)
(* with a SELECT each, which is a step of its own before.  PostgreSQL runs *)
(* every statement at READ COMMITTED and the code takes no row locks, so   *)
(* the commits of other workers fall between the steps.  In a serial mode  *)
(* a request is served only while no other one is.                         *)
(***************************************************************************)
EXTENDS Directory

CONSTANTS
  Workers,   \* threads serving requests
  Modes      \* which services are used, and whether their requests overlap

Services == {"users", "employees", "organization", "titles", "title_updates"}

ASSUME ModesAreTyped == Modes \subseteq [serial: BOOLEAN, ops: SUBSET Services]

VARIABLES
  mode,      \* one of Modes, fixed at the start
  pending,   \* the writes a worker is about to commit, or None
  loaded,    \* the first row an update has loaded, or None
  torn       \* history: accounts an update loaded before a commit on their
             \* activity and its profile after it, or the other way round

vars == <<dirVars, mode, pending, loaded, torn>>

Loaded == [service: {"users"}, admin: Users, id: Users, row: UserRow]
          \cup [service: {"employees"}, id: Users, row: EmployeeRow]

Idle(w) == pending[w] = None
Free(w) == Idle(w) /\ loaded[w] = None
MayStart(w) == Free(w) /\ (mode.serial => \A v \in Workers : Free(v))

(* Primary keys come from a sequence: two inserts never share one.         *)
NotBeingInserted(table, id) ==
  \A w \in Workers : ~Idle(w) => WritesTo(pending[w], table, id, "present") = {}

Begin(w, W) ==
  /\ MayStart(w)
  /\ pending' = [pending EXCEPT ![w] = W]
  /\ UNCHANGED <<dirVars, mode, loaded, torn>>

(* The first SELECT of an update of an account or of a profile.            *)
Load(w, x) ==
  /\ MayStart(w)
  /\ loaded' = [loaded EXCEPT ![w] = x]
  /\ UNCHANGED <<dirVars, mode, pending, torn>>

(* The second one finds the other row, and the update goes on to commit W. *)
Update(w, other, W) ==
  LET x == loaded[w] IN
  /\ loaded' = [loaded EXCEPT ![w] = None]
  /\ pending' = [pending EXCEPT ![w] = W]
  /\ torn' = IF other.present /\ other.active # x.row.active THEN torn \cup {x.id} ELSE torn
  /\ UNCHANGED <<dirVars, mode>>

(* An update whose values are refused.                                     *)
Refuse(w) ==
  /\ loaded[w] # None
  /\ loaded' = [loaded EXCEPT ![w] = None]
  /\ UNCHANGED <<dirVars, mode, pending, torn>>

Updating(w, service) == loaded[w] # None /\ loaded[w].service = service

CreateUser(w) ==
  \E admin, u \in Users, a, s \in BOOLEAN :
    /\ CreateUserAllowed(admin, u)
    /\ NotBeingInserted("user", u)
    /\ Begin(w, CreateUserWrites(u, a, s))

LoadUser(w) ==
  \E admin, u \in Users :
    /\ UserLoads(admin, u)
    /\ Load(w, [service |-> "users", admin |-> admin, id |-> u, row |-> user[u]])

UpdateUser(w) ==
  LET x == loaded[w] IN
  /\ Updating(w, "users")
  /\ \E ch \in UserPayloads :
       /\ UpdateUserAllowed(x.admin, x.id, ch)
       /\ Update(w, employee[x.id], UpdateUserWrites(x.id, x.row, ch))

CreateEmployee(w) ==
  \E u \in Users, d \in Maybe(Departments), t \in Maybe(Teams), jt \in Titles :
    /\ CreateEmployeeAllowed(u, d, t, jt)
    /\ NotBeingInserted("user", u)
    /\ Begin(w, CreateEmployeeWrites(u, d, t, jt))

LoadEmployee(w) ==
  \E u \in Users :
    /\ employee[u].present
    /\ Load(w, [service |-> "employees", id |-> u, row |-> employee[u]])

UpdateEmployee(w) ==
  LET x == loaded[w] IN
  /\ Updating(w, "employees")
  /\ \E ch \in EmployeePayloads :
       /\ UpdateEmployeeAllowed(x.row, ch)
       /\ Update(w, user[x.id], UpdateEmployeeWrites(x.id, x.row, ch))

CreateDepartment(w) ==
  \E d \in Departments, m \in Maybe(Users) :
    /\ CreateDepartmentAllowed(d, m)
    /\ NotBeingInserted("department", d)
    /\ Begin(w, CreateDepartmentWrites(d, m))

UpdateDepartment(w) ==
  \E d \in Departments, m \in Maybe(Users) :
    UpdateDepartmentAllowed(d, m) /\ Begin(w, UpdateDepartmentWrites(d, m))

DeactivateDepartment(w) ==
  \E d \in Departments :
    DeactivateDepartmentAllowed(d) /\ Begin(w, DeactivateDepartmentWrites(d))

CreateTeam(w) ==
  \E t \in Teams, d \in Departments, l \in Maybe(Users) :
    /\ CreateTeamAllowed(t, d, l)
    /\ NotBeingInserted("team", t)
    /\ Begin(w, CreateTeamWrites(t, d, l))

UpdateTeam(w) ==
  \E t \in Teams, ch \in TeamPayloads :
    UpdateTeamAllowed(t, ch) /\ Begin(w, UpdateTeamWrites(t, ch))

DeactivateTeam(w) ==
  \E t \in Teams : DeactivateTeamAllowed(t) /\ Begin(w, DeactivateTeamWrites(t))

CreateTitle(w) ==
  \E jt \in Titles, l \in Levels :
    /\ CreateTitleAllowed(jt)
    /\ NotBeingInserted("title", jt)
    /\ Begin(w, CreateTitleWrites(jt, l))

UpdateTitle(w) ==
  \E jt \in Titles, l \in Levels :
    UpdateTitleAllowed(jt) /\ Begin(w, UpdateTitleWrites(jt, l))

DeactivateTitle(w) ==
  \E jt \in Titles : DeactivateTitleAllowed(jt) /\ Begin(w, DeactivateTitleWrites(jt))

CommitSession(w) ==
  /\ ~Idle(w)
  /\ Commit(pending[w])
  /\ pending' = [pending EXCEPT ![w] = None]
  /\ UNCHANGED <<mode, loaded, torn>>

(* The installation starts with the super admin the setup wizard created:  *)
(* an account without employee profile, and empty master data.             *)
Init ==
  \E root \in Users :
    /\ user = [u \in Users |-> [present |-> u = root, active |-> u = root, admin |-> u = root]]
    /\ employee = [u \in Users |-> [present |-> FALSE, active |-> FALSE, title |-> None,
                                    team |-> None, dept |-> None]]
    /\ title = [jt \in Titles |-> [present |-> FALSE, active |-> FALSE, level |-> 0]]
    /\ team = [t \in Teams |-> [present |-> FALSE, active |-> FALSE, dept |-> None,
                                leader |-> None]]
    /\ department = [d \in Departments |-> [present |-> FALSE, active |-> FALSE,
                                            manager |-> None]]
    /\ mode \in Modes
    /\ pending = [w \in Workers |-> None]
    /\ loaded = [w \in Workers |-> None]
    /\ torn = {}

UsersStep(w) == CreateUser(w) \/ LoadUser(w) \/ UpdateUser(w)
EmployeesStep(w) == CreateEmployee(w) \/ LoadEmployee(w) \/ UpdateEmployee(w)
OrganizationStep(w) ==
  \/ CreateDepartment(w) \/ UpdateDepartment(w) \/ DeactivateDepartment(w)
  \/ CreateTeam(w) \/ UpdateTeam(w) \/ DeactivateTeam(w)
TitleUpdatesStep(w) == UpdateTitle(w) \/ DeactivateTitle(w)

Next ==
  \E w \in Workers :
    \/ "users" \in mode.ops /\ UsersStep(w)
    \/ "employees" \in mode.ops /\ EmployeesStep(w)
    \/ "organization" \in mode.ops /\ OrganizationStep(w)
    \/ "titles" \in mode.ops /\ CreateTitle(w)
    \/ "title_updates" \in mode.ops /\ TitleUpdatesStep(w)
    \/ Refuse(w)
    \/ CommitSession(w)

Spec == Init /\ [][Next]_vars

-----------------------------------------------------------------------------
(* Every table holds rows of its type, and a session is idle or holds a    *)
(* row, or writes of values of their columns.                              *)
TypeOK ==
  /\ DirTypeOK
  /\ mode \in Modes
  /\ loaded \in [Workers -> Loaded \cup {None}]
  /\ torn \subseteq Users
  /\ \A w \in Workers : ~Idle(w) =>
       WritesOK(pending[w]) /\ \A x \in pending[w] : DOMAIN x = {"table", "id", "col", "val"}

(* The account and the employee profile linked to it are active together   *)
(* (update_user and update_employee assign both is_active columns): without *)
(* overlap always, and with it however commits interleave, until an update *)
(* has loaded the two rows at moments between which their activity         *)
(* changed, and then sends only the one column that differs.               *)
ActivitySynced ==
  /\ \A u \in Users \ torn : employee[u].present => employee[u].active = user[u].active
  /\ mode.serial => torn = {}

(* deactivate_department refuses while an active team belongs to the       *)
(* department, and teams are created in and moved to active departments    *)
(* only: an active team's department is active.                            *)
ActiveTeamInActiveDepartment ==
  \A t \in Teams : ActiveTeam(t) => ActiveDepartment(team[t].dept)

(* This holds as long as the organization service's requests do not        *)
(* overlap, whatever the order of its operations.                          *)
SerialTeamsInActiveDepartments == mode.serial => ActiveTeamInActiveDepartment

(* An administrator cannot deactivate or demote itself, so as long as      *)
(* requests of the users service do not overlap and the employees service  *)
(* leaves the administrators alone, some active super admin remains.       *)
SomeActiveAdmin ==
  mode.serial /\ "employees" \notin mode.ops => \E u \in Users : ActiveAdmin(u)

-----------------------------------------------------------------------------
(* What the writes a session is about to commit have in common with the    *)
(* rows they will meet.                                                    *)

Sets(W, table, id, c) == Written(W, table, id, c) # {}

(* Writes that keep the account u and its profile active together: they    *)
(* set both columns to one value, or the account only while it has no      *)
(* profile and nobody can create one.                                      *)
Together(W, u) ==
  \/ /\ Sets(W, "user", u, "active") <=> Sets(W, "employee", u, "active")
     /\ \A x \in Written(W, "user", u, "active"), y \in Written(W, "employee", u, "active") : x = y
  \/ /\ ~Sets(W, "employee", u, "active") /\ ~employee[u].present
     /\ user[u].present \/ Sets(W, "user", u, "present")

(* Inserts are of new, present rows, a profile's comes with its account's. *)
InsertsNew(W, u) ==
  /\ Sets(W, "employee", u, "present") =>
       Sets(W, "user", u, "present") /\ Sets(W, "employee", u, "active")
  /\ Sets(W, "user", u, "present") => ~user[u].present
  /\ Written(W, "user", u, "present") \cup Written(W, "employee", u, "present") \subseteq {TRUE}

Aligned(W, u) == (u \notin torn => Together(W, u)) /\ InsertsNew(W, u)

SessionsAligned ==
  /\ \A u \in Users : employee[u].present => user[u].present
  /\ \A w \in Workers, u \in Users : ~Idle(w) => Aligned(pending[w], u)
  /\ \A v, w \in Workers, u \in Users :
       /\ ~Idle(v) /\ Sets(pending[v], "user", u, "present")
       /\ ~Idle(w) /\ Sets(pending[w], "user", u, "present")
       => v = w

TeamsPlaced(tm, dp) ==
  \A t \in Teams : tm[t].present /\ tm[t].active =>
    LET d == tm[t].dept IN d \in Departments /\ dp[d].present /\ dp[d].active

AdminAmong(us) == \E u \in Users : us[u].present /\ us[u].active /\ us[u].admin

(* The row an update has loaded, and the administrator, are as they were.  *)
LoadedAsIs(x) ==
  /\ x.service = "users" => x.row = user[x.id] /\ UserLoads(x.admin, x.id)
  /\ x.service = "employees" => x.row = employee[x.id] /\ employee[x.id].present

(* Without overlap there is at most one session, and the tables are in     *)
(* order before and after it commits.                                      *)
SerialSessions ==
  mode.serial =>
    /\ \A v, w \in Workers : ~Free(v) /\ ~Free(w) => v = w
    /\ \A w \in Workers : loaded[w] # None => Idle(w) /\ LoadedAsIs(loaded[w])
    /\ torn = {}
    /\ TeamsPlaced(team, department)
    /\ "employees" \notin mode.ops => AdminAmong(user)
    /\ \A w \in Workers : ~Idle(w) =>
         /\ TeamsPlaced(Patched(team, "team", pending[w]),
                        Patched(department, "department", pending[w]))
         /\ "employees" \notin mode.ops => AdminAmong(Patched(user, "user", pending[w]))

(* The rows of the directory and the pending writes have their types, what *)
(* sessions are about to commit fits the rows it will meet and, while      *)
(* requests do not overlap, active teams are in active departments.        *)
DirectoryInv ==
  /\ TypeOK
  /\ SessionsAligned
  /\ SerialSessions
  /\ SerialTeamsInActiveDepartments

=============================================================================
