----------------------------- MODULE Directory -----------------------------
(***************************************************************************)
(* The organization's master data: user accounts, the employee profile     *)
(* linked to an account, job titles, departments and teams, and the        *)
(* handlers of the users, employees and organization services that write   *)
(* them.                                                                   *)
(*                                                                         *)
(* A handler runs in one SQLAlchemy session: it reads rows, checks them,   *)
(* assigns attributes and commits.  The ORM sends only the columns whose   *)
(* value differs from the one it loaded.  A handler is therefore described *)
(* by two state-level operators: <Op>Allowed, the conditions it checks on  *)
(* the rows it reads, and <Op>Writes, the set of column writes its commit  *)
(* sends.  Commit applies such a set.  When the reads and the commit are   *)
(* separate steps (DirectorySessions) another handler may commit between.  *)
(* The updates of an account and of a profile load two rows with a SELECT  *)
(* each: the one loaded first is a parameter, the other is read as it is.  *)
(*                                                                         *)
(* An employee is identified with the account it is linked to: the column  *)
(* employees.user_id is unique and never reassigned.  Names, codes, mail   *)
(* addresses, passwords and personal data are left out; uniqueness of      *)
(* codes and identities is a check that makes the handler fail without a   *)
(* write.                                                                  *)
(***************************************************************************)
EXTENDS Naturals, FiniteSets

CONSTANTS
  Users,        \* account ids; ordered, a smaller id was created earlier
  Titles,       \* job-title ids
  Teams,        \* team ids
  Departments,  \* department ids
  Levels,       \* hierarchical levels an administrator enters
  None          \* SQL NULL

ASSUME UsersAreIds == Users \subseteq Nat
ASSUME LevelsAreNat == Levels \subseteq Nat
ASSUME NoneIsNoId ==
  /\ None \notin Users
  /\ None \notin Titles
  /\ None \notin Teams
  /\ None \notin Departments

VARIABLES user, employee, title, team, department

dirVars == <<user, employee, title, team, department>>

Maybe(S) == S \cup {None}

UserRow == [present: BOOLEAN, active: BOOLEAN, admin: BOOLEAN]
EmployeeRow == [present: BOOLEAN, active: BOOLEAN, title: Maybe(Titles),
                team: Maybe(Teams), dept: Maybe(Departments)]
TitleRow == [present: BOOLEAN, active: BOOLEAN, level: Nat]
TeamRow == [present: BOOLEAN, active: BOOLEAN, dept: Maybe(Departments),
            leader: Maybe(Users)]
DepartmentRow == [present: BOOLEAN, active: BOOLEAN, manager: Maybe(Users)]

DirTypeOK ==
  /\ user \in [Users -> UserRow]
  /\ employee \in [Users -> EmployeeRow]
  /\ title \in [Titles -> TitleRow]
  /\ team \in [Teams -> TeamRow]
  /\ department \in [Departments -> DepartmentRow]

ActiveUser(u) == user[u].present /\ user[u].active
ActiveAdmin(u) == ActiveUser(u) /\ user[u].admin
ActiveEmployee(u) == employee[u].present /\ employee[u].active
ActiveTitle(t) == t \in Titles /\ title[t].present /\ title[t].active
ActiveTeam(t) == team[t].present /\ team[t].active
ActiveDepartment(d) == department[d].present /\ department[d].active

-----------------------------------------------------------------------------
(* Column writes of a commit                                               *)

(* The UPDATE of a loaded row: the columns whose value changes.            *)
Changed(table, row, id, ch) ==
  {[table |-> table, id |-> id, col |-> c, val |-> ch[c]] :
     c \in {k \in DOMAIN ch : ch[k] # row[k]}}

(* The INSERT of a new row: every column.                                  *)
Inserted(table, id, newRow) ==
  {[table |-> table, id |-> id, col |-> c, val |-> newRow[c]] : c \in DOMAIN newRow}

WritesTo(W, table, id, c) == {w \in W : w.table = table /\ w.id = id /\ w.col = c}
Written(W, table, id, c) == {w.val : w \in WritesTo(W, table, id, c)}

Patched(rows, table, W) ==
  [i \in DOMAIN rows |->
     [c \in DOMAIN rows[i] |->
        IF WritesTo(W, table, i, c) = {}
          THEN rows[i][c]
          ELSE (CHOOSE w \in WritesTo(W, table, i, c) : TRUE).val]]

Commit(W) ==
  /\ user' = Patched(user, "user", W)
  /\ employee' = Patched(employee, "employee", W)
  /\ title' = Patched(title, "title", W)
  /\ team' = Patched(team, "team", W)
  /\ department' = Patched(department, "department", W)

(* The value of a write belongs to its column.                             *)
WriteOK(w) ==
  /\ w.table = "user" => (w.col \in {"present", "active", "admin"} => w.val \in BOOLEAN)
  /\ w.table = "employee" =>
       /\ w.col \in {"present", "active"} => w.val \in BOOLEAN
       /\ w.col = "title" => w.val \in Maybe(Titles)
       /\ w.col = "team" => w.val \in Maybe(Teams)
       /\ w.col = "dept" => w.val \in Maybe(Departments)
  /\ w.table = "title" =>
       /\ w.col \in {"present", "active"} => w.val \in BOOLEAN
       /\ w.col = "level" => w.val \in Nat
  /\ w.table = "team" =>
       /\ w.col \in {"present", "active"} => w.val \in BOOLEAN
       /\ w.col = "dept" => w.val \in Maybe(Departments)
       /\ w.col = "leader" => w.val \in Maybe(Users)
  /\ w.table = "department" =>
       /\ w.col \in {"present", "active"} => w.val \in BOOLEAN
       /\ w.col = "manager" => w.val \in Maybe(Users)

WritesOK(W) == \A w \in W : WriteOK(w)

Restricted(ch, cols) == [c \in DOMAIN ch \cap cols |-> ch[c]]

(* payload.model_dump(exclude_unset=True): any subset of the columns.      *)
Payloads(cols) == UNION {{f \in [C -> UNION {cols[c] : c \in C}] :
                            \A c \in C : f[c] \in cols[c]} : C \in SUBSET DOMAIN cols}

-----------------------------------------------------------------------------
(* users service (super admin only)                                        *)

CreateUserAllowed(admin, u) == ActiveAdmin(admin) /\ ~user[u].present
CreateUserWrites(u, active, isAdmin) ==
  Inserted("user", u, [present |-> TRUE, active |-> active, admin |-> isAdmin])

UserPayloads == Payloads([active |-> BOOLEAN, admin |-> BOOLEAN, team |-> Maybe(Teams),
                          dept |-> Maybe(Departments), title |-> Maybe(Titles)])

OrgColumns == {"team", "dept", "title"}

(* The guard of the route, and the first SELECT, which finds the account.  *)
UserLoads(admin, u) == ActiveAdmin(admin) /\ user[u].present

(* Mutant: without the check of the account in use.                        *)
UpdateUserUnguarded(admin, u, ch) ==
  ~employee[u].present => DOMAIN ch \cap OrgColumns = {}

(* An administrator cannot deactivate or demote the account in use; the    *)
(* organization references only have to exist.                             *)
UpdateUserAllowed(admin, u, ch) ==
  /\ u = admin => \A c \in DOMAIN ch \cap {"active", "admin"} : ch[c]
  /\ ~employee[u].present => DOMAIN ch \cap OrgColumns = {}
  /\ "team" \in DOMAIN ch /\ ch.team # None => team[ch.team].present
  /\ "dept" \in DOMAIN ch /\ ch.dept # None => department[ch.dept].present
  /\ "title" \in DOMAIN ch => ch.title # None /\ title[ch.title].present

(* Mutant: the profile's active column is not kept in step.                *)
UpdateUserRowOnly(u, account, ch) ==
  Changed("user", account, u, Restricted(ch, {"active", "admin"}))
  \cup Changed("employee", employee[u], u, Restricted(ch, OrgColumns))

UpdateUserWrites(u, account, ch) ==
  LET active == IF "active" \in DOMAIN ch THEN ch.active ELSE account.active
  IN  Changed("user", account, u, Restricted(ch, {"active", "admin"}))
      \cup (IF employee[u].present
              THEN Changed("employee", employee[u], u, [active |-> active])
                   \cup Changed("employee", employee[u], u, Restricted(ch, OrgColumns))
              ELSE {})

-----------------------------------------------------------------------------
(* employees service                                                       *)

(* _resolve_department_and_team: the team decides the department unless    *)
(* the caller names one, which then has to be the team's.                  *)
ResolvedDept(dept, t, explicit) ==
  IF t # None /\ (dept = None \/ ~explicit) THEN team[t].dept ELSE dept

AssignmentAllowed(dept, t, explicit) ==
  /\ t # None =>
       /\ ActiveTeam(t)
       /\ explicit /\ dept # None => team[t].dept = dept
  /\ LET d == ResolvedDept(dept, t, explicit) IN d # None => ActiveDepartment(d)

CreateEmployeeAllowed(u, dept, t, jt) ==
  /\ ~user[u].present
  /\ AssignmentAllowed(dept, t, dept # None)
  /\ ActiveTitle(jt)

CreateEmployeeWrites(u, dept, t, jt) ==
  Inserted("user", u, [present |-> TRUE, active |-> TRUE, admin |-> FALSE])
  \cup Inserted("employee", u,
         [present |-> TRUE, active |-> TRUE, title |-> jt, team |-> t,
          dept |-> ResolvedDept(dept, t, dept # None)])

EmployeePayloads == Payloads([active |-> BOOLEAN, team |-> Maybe(Teams),
                              dept |-> Maybe(Departments), title |-> Titles])

(* The values an update ends with: the payload's, else the loaded ones.    *)
Final(ch, c, loaded) == IF c \in DOMAIN ch THEN ch[c] ELSE loaded[c]

UpdateEmployeeAllowed(e, ch) ==
  /\ AssignmentAllowed(Final(ch, "dept", e), Final(ch, "team", e), "dept" \in DOMAIN ch)
  /\ ActiveTitle(Final(ch, "title", e))

UpdateEmployeeWrites(u, e, ch) ==
  LET active == Final(ch, "active", e)
  IN  Changed("user", user[u], u, [active |-> active])
      \cup Changed("employee", e, u,
             [active |-> active, title |-> Final(ch, "title", e), team |-> Final(ch, "team", e),
              dept |-> ResolvedDept(Final(ch, "dept", e), Final(ch, "team", e),
                                    "dept" \in DOMAIN ch)])

-----------------------------------------------------------------------------
(* organization service                                                    *)

UserReferenceValid(u) == u # None => ActiveUser(u)

CreateDepartmentAllowed(d, m) == ~department[d].present /\ UserReferenceValid(m)
CreateDepartmentWrites(d, m) ==
  Inserted("department", d, [present |-> TRUE, active |-> TRUE, manager |-> m])

UpdateDepartmentAllowed(d, m) == department[d].present /\ UserReferenceValid(m)
UpdateDepartmentWrites(d, m) == Changed("department", department[d], d, [manager |-> m])

(* Mutant: without looking for active teams.                               *)
DeactivateAnyDepartment(d) == department[d].present

DeactivateDepartmentAllowed(d) ==
  /\ department[d].present
  /\ department[d].active => \A t \in Teams : ~(ActiveTeam(t) /\ team[t].dept = d)
DeactivateDepartmentWrites(d) == Changed("department", department[d], d, [active |-> FALSE])

CreateTeamAllowed(t, d, l) == ~team[t].present /\ ActiveDepartment(d) /\ UserReferenceValid(l)
CreateTeamWrites(t, d, l) ==
  Inserted("team", t, [present |-> TRUE, active |-> TRUE, dept |-> d, leader |-> l])

TeamPayloads == Payloads([dept |-> Departments, leader |-> Maybe(Users)])

UpdateTeamAllowed(t, ch) ==
  /\ team[t].present
  /\ "dept" \in DOMAIN ch => ActiveDepartment(ch.dept)
  /\ "leader" \in DOMAIN ch => UserReferenceValid(ch.leader)
UpdateTeamWrites(t, ch) == Changed("team", team[t], t, ch)

DeactivateTeamAllowed(t) == team[t].present
DeactivateTeamWrites(t) == Changed("team", team[t], t, [active |-> FALSE])

CreateTitleAllowed(jt) == ~title[jt].present
CreateTitleWrites(jt, level) ==
  Inserted("title", jt, [present |-> TRUE, active |-> TRUE, level |-> level])

UpdateTitleAllowed(jt) == title[jt].present
UpdateTitleWrites(jt, level) == Changed("title", title[jt], jt, [level |-> level])

DeactivateTitleAllowed(jt) == title[jt].present
DeactivateTitleWrites(jt) == Changed("title", title[jt], jt, [active |-> FALSE])

=============================================================================
