----------------------- MODULE DirectorySessionsProofs -----------------------
(***************************************************************************)
(* Concurrent sessions of the users, employees and organization services,  *)
(* for any number of workers, accounts, teams and departments: the account *)
(* and its employee profile are active together however commits interleave *)
(* until an update has loaded the two rows at moments between which their  *)
(* activity changed; without overlap they always are, active teams stay in *)
(* active departments and some super admin stays active.                   *)
(***************************************************************************)
EXTENDS DirectorySessions, DirectoryProofs

-----------------------------------------------------------------------------
(* What the writes of an operation set                                     *)

(* The values an insertion writes to a column.                             *)
LEMMA WrittenByInsert ==
  ASSUME NEW table, NEW id, NEW r, NEW t, NEW i, NEW c
  PROVE  Written(Inserted(table, id, r), t, i, c) =
           IF t = table /\ i = id /\ c \in DOMAIN r THEN {r[c]} ELSE {}
<1> DEFINE w == [table |-> t, id |-> i, col |-> c, val |-> r[c]]
<1>1. WritesTo(Inserted(table, id, r), t, i, c) =
        IF t = table /\ i = id /\ c \in DOMAIN r THEN {w} ELSE {}
  BY DEF WritesTo, Inserted
<1>2. w.val = r[c]
  OBVIOUS
<1>. HIDE DEF w
<1>. QED  BY <1>1, <1>2 DEF Written

(* The values a change writes to a column: those that differ.              *)
LEMMA WrittenByChange ==
  ASSUME NEW table, NEW id, NEW r, NEW ch, NEW t, NEW i, NEW c
  PROVE  Written(Changed(table, r, id, ch), t, i, c) =
           IF t = table /\ i = id /\ c \in DOMAIN ch /\ ch[c] # r[c] THEN {ch[c]} ELSE {}
<1> DEFINE w == [table |-> t, id |-> i, col |-> c, val |-> ch[c]]
<1>1. WritesTo(Changed(table, r, id, ch), t, i, c) =
        IF t = table /\ i = id /\ c \in DOMAIN ch /\ ch[c] # r[c] THEN {w} ELSE {}
  BY DEF WritesTo, Changed
<1>2. w.val = ch[c]
  OBVIOUS
<1>. HIDE DEF w
<1>. QED  BY <1>1, <1>2 DEF Written

(* What two sets of writes together write to a column.                     *)
LEMMA WrittenByBoth ==
  ASSUME NEW V, NEW W, NEW t, NEW i, NEW c
  PROVE  Written(V \cup W, t, i, c) = Written(V, t, i, c) \cup Written(W, t, i, c)
  BY DEF Written, WritesTo

(* A patched column keeps its value unless the writes set it.              *)
LEMMA PatchedIs ==
  ASSUME NEW rows, NEW table, NEW W, NEW i \in DOMAIN rows, NEW c \in DOMAIN rows[i]
  PROVE  /\ Written(W, table, i, c) = {} => Patched(rows, table, W)[i][c] = rows[i][c]
         /\ Written(W, table, i, c) # {} =>
              Patched(rows, table, W)[i][c] \in Written(W, table, i, c)
<1>1. CASE WritesTo(W, table, i, c) = {}
  BY <1>1 DEF Patched, Written
<1>2. CASE WritesTo(W, table, i, c) # {}
  <2> DEFINE w == CHOOSE w \in WritesTo(W, table, i, c) : TRUE
  <2>1. w \in WritesTo(W, table, i, c)
    BY <1>2
  <2>2. Patched(rows, table, W)[i][c] = w.val
    BY <1>2 DEF Patched
  <2>. HIDE DEF w
  <2>. QED  BY <2>1, <2>2 DEF Written
<1>. QED  BY <1>1, <1>2

(* The columns of a payload belong to it and have typed values.            *)
LEMMA PayloadColumns ==
  ASSUME NEW cols, NEW ch \in Payloads(cols)
  PROVE  DOMAIN ch \subseteq DOMAIN cols /\ \A c \in DOMAIN ch : ch[c] \in cols[c]
  BY DEF Payloads

(* An insertion writes typed columns when its values are typed.            *)
LEMMA InsertedOK ==
  ASSUME NEW table, NEW id, NEW r,
         \A c \in DOMAIN r : WriteOK([table |-> table, id |-> id, col |-> c, val |-> r[c]])
  PROVE  WritesOK(Inserted(table, id, r))
  BY DEF WritesOK, Inserted

Columns(W) == \A x \in W : DOMAIN x = {"table", "id", "col", "val"}

(* An insertion consists of writes to columns.                             *)
LEMMA RecordsOfInsert == ASSUME NEW t, NEW i, NEW r  PROVE Columns(Inserted(t, i, r))
  BY DEF Columns, Inserted

(* A change consists of writes to columns.                                 *)
LEMMA RecordsOfChange == ASSUME NEW t, NEW r, NEW i, NEW ch  PROVE Columns(Changed(t, r, i, ch))
  BY DEF Columns, Changed

-----------------------------------------------------------------------------
(* The writes of every operation are typed                                 *)

Typed(W) == WritesOK(W) /\ Columns(W)

(* An insertion of typed values is typed.                                  *)
LEMMA TypedInsert ==
  ASSUME NEW table, NEW id, NEW r,
         \A c \in DOMAIN r : WriteOK([table |-> table, id |-> id, col |-> c, val |-> r[c]])
  PROVE  Typed(Inserted(table, id, r))
  BY InsertedOK, RecordsOfInsert DEF Typed

(* A change to typed values is typed.                                      *)
LEMMA TypedChange ==
  ASSUME NEW table, NEW r, NEW id, NEW ch,
         \A c \in DOMAIN ch : WriteOK([table |-> table, id |-> id, col |-> c, val |-> ch[c]])
  PROVE  Typed(Changed(table, r, id, ch))
  BY ChangedOK, RecordsOfChange DEF Typed

(* Typed writes stay typed together.                                       *)
LEMMA TypedBoth == ASSUME NEW V, NEW W, Typed(V), Typed(W)  PROVE Typed(V \cup W)
  BY DEF Typed, WritesOK, Columns

(* create_user writes typed columns.                                       *)
LEMMA CreateUserTyped ==
  ASSUME NEW u \in Users, NEW a \in BOOLEAN, NEW s \in BOOLEAN
  PROVE  Typed(CreateUserWrites(u, a, s))
<1> DEFINE r == [present |-> TRUE, active |-> a, admin |-> s]
<1>1. /\ DOMAIN r = {"present", "active", "admin"}
      /\ r["present"] \in BOOLEAN /\ r["active"] \in BOOLEAN /\ r["admin"] \in BOOLEAN
  OBVIOUS
<1>. HIDE DEF r
<1>2. Typed(Inserted("user", u, r))
  BY <1>1, TypedInsert DEF WriteOK
<1>. QED  BY <1>2 DEF CreateUserWrites, r

(* The payload of an account's update has typed columns.                   *)
LEMMA UserPayload ==
  ASSUME NEW ch \in UserPayloads
  PROVE  /\ "active" \in DOMAIN ch => ch["active"] \in BOOLEAN
         /\ "admin" \in DOMAIN ch => ch["admin"] \in BOOLEAN
         /\ "team" \in DOMAIN ch => ch["team"] \in Maybe(Teams)
         /\ "dept" \in DOMAIN ch => ch["dept"] \in Maybe(Departments)
         /\ "title" \in DOMAIN ch => ch["title"] \in Maybe(Titles)
<1> DEFINE cols == [active |-> BOOLEAN, admin |-> BOOLEAN, team |-> Maybe(Teams),
                    dept |-> Maybe(Departments), title |-> Maybe(Titles)]
<1>1. \A c \in DOMAIN ch : ch[c] \in cols[c]
  BY PayloadColumns DEF UserPayloads
<1>. QED  BY <1>1

(* update_user writes typed columns.                                       *)
LEMMA UpdateUserTyped ==
  ASSUME NEW u \in Users, NEW account \in UserRow, NEW ch \in UserPayloads
  PROVE  Typed(UpdateUserWrites(u, account, ch))
<1>1. WritesOK(UpdateUserWrites(u, account, ch))
  BY UserPayload, UpdateUserOK
<1>2. Columns(UpdateUserWrites(u, account, ch))
  BY RecordsOfChange DEF UpdateUserWrites, Columns
<1>. QED  BY <1>1, <1>2 DEF Typed

(* The department of a profile is a department or none.                    *)
LEMMA DeptResolves ==
  ASSUME DirTypeOK, NEW d \in Maybe(Departments), NEW t \in Maybe(Teams), NEW explicit
  PROVE  ResolvedDept(d, t, explicit) \in Maybe(Departments)
<1>1. t # None => team[t].dept \in Maybe(Departments)
  BY DEF DirTypeOK, TeamRow, Maybe
<1>. QED  BY <1>1 DEF ResolvedDept

(* create_employee writes typed columns of both tables.                    *)
LEMMA CreateEmployeeTyped ==
  ASSUME DirTypeOK, NEW u \in Users, NEW d \in Maybe(Departments), NEW t \in Maybe(Teams),
         NEW jt \in Titles
  PROVE  Typed(CreateEmployeeWrites(u, d, t, jt))
<1> DEFINE r == [present |-> TRUE, active |-> TRUE, title |-> jt, team |-> t,
                 dept |-> ResolvedDept(d, t, d # None)]
           a == [present |-> TRUE, active |-> TRUE, admin |-> FALSE]
<1>1. ResolvedDept(d, t, d # None) \in Maybe(Departments)
  BY DeptResolves
<1>2. /\ DOMAIN r = {"present", "active", "title", "team", "dept"}
      /\ r["present"] \in BOOLEAN /\ r["active"] \in BOOLEAN /\ r["title"] \in Maybe(Titles)
      /\ r["team"] \in Maybe(Teams) /\ r["dept"] \in Maybe(Departments)
  BY <1>1 DEF Maybe
<1>3. /\ DOMAIN a = {"present", "active", "admin"}
      /\ a["present"] \in BOOLEAN /\ a["active"] \in BOOLEAN /\ a["admin"] \in BOOLEAN
  OBVIOUS
<1>. HIDE DEF r, a
<1>4. Typed(Inserted("employee", u, r))
  BY <1>2, TypedInsert DEF WriteOK
<1>5. Typed(Inserted("user", u, a))
  BY <1>3, TypedInsert DEF WriteOK
<1>6. Typed(Inserted("user", u, a) \cup Inserted("employee", u, r))
  BY <1>4, <1>5, TypedBoth
<1>. QED  BY <1>6 DEF CreateEmployeeWrites, r, a

(* A payload over a loaded profile gives typed columns.                    *)
LEMMA EmployeePayload ==
  ASSUME NEW e \in EmployeeRow, NEW ch \in EmployeePayloads
  PROVE  /\ Final(ch, "active", e) \in BOOLEAN
         /\ Final(ch, "title", e) \in Maybe(Titles)
         /\ Final(ch, "team", e) \in Maybe(Teams)
         /\ Final(ch, "dept", e) \in Maybe(Departments)
<1> DEFINE cols == [active |-> BOOLEAN, team |-> Maybe(Teams), dept |-> Maybe(Departments),
                    title |-> Titles]
<1>1. \A c \in DOMAIN ch : ch[c] \in cols[c]
  BY PayloadColumns DEF EmployeePayloads
<1>. QED  BY <1>1 DEF Final, EmployeeRow, Maybe

(* update_employee writes typed columns of both tables.                    *)
LEMMA UpdateEmployeeTyped ==
  ASSUME DirTypeOK, NEW u \in Users, NEW e \in EmployeeRow, NEW ch \in EmployeePayloads
  PROVE  Typed(UpdateEmployeeWrites(u, e, ch))
<1> DEFINE a == [active |-> Final(ch, "active", e)]
           dept == ResolvedDept(Final(ch, "dept", e), Final(ch, "team", e), "dept" \in DOMAIN ch)
           r == [active |-> Final(ch, "active", e), title |-> Final(ch, "title", e),
                 team |-> Final(ch, "team", e), dept |-> dept]
<1>1. /\ Final(ch, "active", e) \in BOOLEAN /\ Final(ch, "title", e) \in Maybe(Titles)
      /\ Final(ch, "team", e) \in Maybe(Teams) /\ Final(ch, "dept", e) \in Maybe(Departments)
  BY EmployeePayload
<1>2. dept \in Maybe(Departments)
  BY <1>1, DeptResolves
<1>. HIDE DEF dept
<1>3. DOMAIN a = {"active"} /\ a["active"] \in BOOLEAN
  BY <1>1
<1>4. /\ DOMAIN r = {"active", "title", "team", "dept"} /\ r["active"] \in BOOLEAN
      /\ r["title"] \in Maybe(Titles) /\ r["team"] \in Maybe(Teams)
      /\ r["dept"] \in Maybe(Departments)
  BY <1>1, <1>2
<1>. HIDE DEF a, r
<1>5. Typed(Changed("user", user[u], u, a))
  BY <1>3, TypedChange DEF WriteOK
<1>6. Typed(Changed("employee", e, u, r))
  BY <1>4, TypedChange DEF WriteOK
<1>7. Typed(Changed("user", user[u], u, a) \cup Changed("employee", e, u, r))
  BY <1>5, <1>6, TypedBoth
<1>. QED  BY <1>7 DEF UpdateEmployeeWrites, a, r, dept

(* The department services write typed columns.                            *)
LEMMA DepartmentTyped ==
  ASSUME NEW d \in Departments, NEW m \in Maybe(Users)
  PROVE  /\ Typed(CreateDepartmentWrites(d, m)) /\ Typed(UpdateDepartmentWrites(d, m))
         /\ Typed(DeactivateDepartmentWrites(d))
<1> DEFINE r == [present |-> TRUE, active |-> TRUE, manager |-> m]
           c1 == [manager |-> m]
           c2 == [active |-> FALSE]
<1>1. /\ DOMAIN r = {"present", "active", "manager"} /\ r["present"] \in BOOLEAN
      /\ r["active"] \in BOOLEAN /\ r["manager"] \in Maybe(Users)
      /\ DOMAIN c1 = {"manager"} /\ c1["manager"] \in Maybe(Users)
      /\ DOMAIN c2 = {"active"} /\ c2["active"] \in BOOLEAN
  OBVIOUS
<1>. HIDE DEF r, c1, c2
<1>2. Typed(Inserted("department", d, r))
  BY <1>1, TypedInsert DEF WriteOK
<1>3. Typed(Changed("department", department[d], d, c1))
  BY <1>1, TypedChange DEF WriteOK
<1>4. Typed(Changed("department", department[d], d, c2))
  BY <1>1, TypedChange DEF WriteOK
<1>. QED
  BY <1>2, <1>3, <1>4
  DEF CreateDepartmentWrites, UpdateDepartmentWrites, DeactivateDepartmentWrites, r, c1, c2

(* The payload of a team's update has typed columns.                       *)
LEMMA TeamPayload ==
  ASSUME NEW ch \in TeamPayloads
  PROVE  /\ DOMAIN ch \subseteq {"dept", "leader"}
         /\ "dept" \in DOMAIN ch => ch["dept"] \in Departments
         /\ "leader" \in DOMAIN ch => ch["leader"] \in Maybe(Users)
<1> DEFINE cols == [dept |-> Departments, leader |-> Maybe(Users)]
<1>1. DOMAIN ch \subseteq DOMAIN cols /\ \A c \in DOMAIN ch : ch[c] \in cols[c]
  BY PayloadColumns DEF TeamPayloads
<1>. QED  BY <1>1

(* create_team writes typed columns.                                       *)
LEMMA CreateTeamTyped ==
  ASSUME NEW t \in Teams, NEW d \in Departments, NEW l \in Maybe(Users)
  PROVE  Typed(CreateTeamWrites(t, d, l))
<1> DEFINE r == [present |-> TRUE, active |-> TRUE, dept |-> d, leader |-> l]
<1>1. /\ DOMAIN r = {"present", "active", "dept", "leader"} /\ r["present"] \in BOOLEAN
      /\ r["active"] \in BOOLEAN /\ r["dept"] \in Maybe(Departments)
      /\ r["leader"] \in Maybe(Users)
  BY DEF Maybe
<1>. HIDE DEF r
<1>2. Typed(Inserted("team", t, r))
  BY <1>1, TypedInsert DEF WriteOK
<1>. QED  BY <1>2 DEF CreateTeamWrites, r

(* update_team writes typed columns.                                       *)
LEMMA UpdateTeamTyped ==
  ASSUME NEW t \in Teams, NEW ch \in TeamPayloads
  PROVE  Typed(UpdateTeamWrites(t, ch))
  BY TeamPayload, TypedChange DEF WriteOK, Maybe, UpdateTeamWrites

(* deactivate_team writes typed columns.                                   *)
LEMMA DeactivateTeamTyped == ASSUME NEW t \in Teams  PROVE Typed(DeactivateTeamWrites(t))
<1> DEFINE c1 == [active |-> FALSE]
<1>1. DOMAIN c1 = {"active"} /\ c1["active"] \in BOOLEAN
  OBVIOUS
<1>. HIDE DEF c1
<1>2. Typed(Changed("team", team[t], t, c1))
  BY <1>1, TypedChange DEF WriteOK
<1>. QED  BY <1>2 DEF DeactivateTeamWrites, c1

(* The job title services write typed columns.                             *)
LEMMA TitleTyped ==
  ASSUME NEW jt \in Titles, NEW level \in Levels
  PROVE  Typed(CreateTitleWrites(jt, level)) /\ Typed(UpdateTitleWrites(jt, level))
<1> DEFINE r == [present |-> TRUE, active |-> TRUE, level |-> level]
           c1 == [level |-> level]
<1>1. /\ DOMAIN r = {"present", "active", "level"} /\ r["present"] \in BOOLEAN
      /\ r["active"] \in BOOLEAN /\ r["level"] \in Nat
      /\ DOMAIN c1 = {"level"} /\ c1["level"] \in Nat
  BY LevelsAreNat
<1>. HIDE DEF r, c1
<1>2. Typed(Inserted("title", jt, r))
  BY <1>1, TypedInsert DEF WriteOK
<1>3. Typed(Changed("title", title[jt], jt, c1))
  BY <1>1, TypedChange DEF WriteOK
<1>. QED  BY <1>2, <1>3 DEF CreateTitleWrites, UpdateTitleWrites, r, c1

(* deactivate_job_title writes typed columns.                              *)
LEMMA DeactivateTitleTyped == ASSUME NEW jt \in Titles  PROVE Typed(DeactivateTitleWrites(jt))
<1> DEFINE c1 == [active |-> FALSE]
<1>1. DOMAIN c1 = {"active"} /\ c1["active"] \in BOOLEAN
  OBVIOUS
<1>. HIDE DEF c1
<1>2. Typed(Changed("title", title[jt], jt, c1))
  BY <1>1, TypedChange DEF WriteOK
<1>. QED  BY <1>2 DEF DeactivateTitleWrites, c1

-----------------------------------------------------------------------------
(* Accounts and profiles                                                   *)

ProfilesInStep ==
  \A u \in Users : employee[u].present =>
    user[u].present /\ (u \notin torn => employee[u].active = user[u].active)

(* Writes to other tables concern no account.                              *)
Foreign(W) == \A u, c : Written(W, "user", u, c) = {} /\ Written(W, "employee", u, c) = {}

(* Writes that fit the accounts they meet, those of T excepted, and insert *)
(* only accounts of S.                                                     *)
AlignedInserting(W, S, T) ==
  \A v \in Users : /\ v \notin T => Together(W, v)
                   /\ InsertsNew(W, v)
                   /\ Sets(W, "user", v, "present") => v \in S

(* Writes to other tables than accounts and profiles keep them in step.    *)
LEMMA ForeignAligned == ASSUME NEW W, Foreign(W)  PROVE AlignedInserting(W, {}, torn)
  BY DEF Foreign, Together, InsertsNew, Sets, AlignedInserting

(* The organization services write to other tables only.                   *)
LEMMA OrganizationForeign ==
  ASSUME NEW x, NEW y, NEW z
  PROVE  /\ Foreign(CreateDepartmentWrites(x, y)) /\ Foreign(UpdateDepartmentWrites(x, y))
         /\ Foreign(DeactivateDepartmentWrites(x))
         /\ Foreign(CreateTeamWrites(x, y, z)) /\ Foreign(UpdateTeamWrites(x, y))
         /\ Foreign(DeactivateTeamWrites(x))
         /\ Foreign(CreateTitleWrites(x, y)) /\ Foreign(UpdateTitleWrites(x, y))
         /\ Foreign(DeactivateTitleWrites(x))
<1>1. \A table, i, r : table \notin {"user", "employee"} => Foreign(Inserted(table, i, r))
  BY WrittenByInsert DEF Foreign
<1>2. \A table, r, i, ch : table \notin {"user", "employee"} => Foreign(Changed(table, r, i, ch))
  BY WrittenByChange DEF Foreign
<1>. QED
  BY <1>1, <1>2
  DEF CreateDepartmentWrites, UpdateDepartmentWrites, DeactivateDepartmentWrites,
      CreateTeamWrites, UpdateTeamWrites, DeactivateTeamWrites,
      CreateTitleWrites, UpdateTitleWrites, DeactivateTitleWrites

(* create_user inserts an account alone.                                   *)
LEMMA CreateUserAligned ==
  ASSUME ProfilesInStep, NEW u \in Users, NEW a, NEW s, ~user[u].present
  PROVE  AlignedInserting(CreateUserWrites(u, a, s), {u}, torn)
<1> DEFINE r == [present |-> TRUE, active |-> a, admin |-> s]
           W == Inserted("user", u, r)
<1>1. DOMAIN r = {"present", "active", "admin"} /\ r["present"] = TRUE
  OBVIOUS
<1>. HIDE DEF r
<1> SUFFICES ASSUME NEW v \in Users
             PROVE  /\ Together(W, v) /\ InsertsNew(W, v)
                    /\ Sets(W, "user", v, "present") => v = u
  BY DEF AlignedInserting, CreateUserWrites, r
<1>2. \A c : Written(W, "employee", v, c) = {}
  BY WrittenByInsert
<1>3. Written(W, "user", v, "present") = IF v = u THEN {TRUE} ELSE {}
  BY <1>1, WrittenByInsert
<1>4. v # u => Written(W, "user", v, "active") = {}
  BY WrittenByInsert
<1>5. ~employee[u].present
  BY DEF ProfilesInStep
<1>. QED  BY <1>2, <1>3, <1>4, <1>5 DEF Together, InsertsNew, Sets

(* update_user changes an account and its profile together, if the profile *)
(* it reads is as active as the account it has loaded.                     *)
LEMMA UpdateUserAligned ==
  ASSUME NEW u \in Users, NEW account, NEW ch, user[u].present, NEW T,
         u \notin T /\ employee[u].present => employee[u].active = account.active
  PROVE  AlignedInserting(UpdateUserWrites(u, account, ch), {}, T)
<1> DEFINE active == IF "active" \in DOMAIN ch THEN ch.active ELSE account.active
           r1 == Restricted(ch, {"active", "admin"})
           r2 == [active |-> active]
           r3 == Restricted(ch, OrgColumns)
           W1 == Changed("user", account, u, r1)
           W2 == Changed("employee", employee[u], u, r2)
           W3 == Changed("employee", employee[u], u, r3)
           W == W1 \cup (IF employee[u].present THEN W2 \cup W3 ELSE {})
<1>1. /\ DOMAIN r1 = DOMAIN ch \cap {"active", "admin"}
      /\ "active" \in DOMAIN ch => r1["active"] = active
      /\ "active" \notin DOMAIN ch => active = account.active
      /\ DOMAIN r2 = {"active"} /\ r2["active"] = active
      /\ DOMAIN r3 = DOMAIN ch \cap {"team", "dept", "title"}
  BY DEF Restricted, OrgColumns
<1>. HIDE DEF active, r1, r2, r3
<1> SUFFICES ASSUME NEW v \in Users
             PROVE  /\ v \notin T => Together(W, v)
                    /\ InsertsNew(W, v) /\ ~Sets(W, "user", v, "present")
  BY DEF AlignedInserting, UpdateUserWrites, active, r1, r2, r3
<1>2. \A c : /\ Written(W1, "employee", v, c) = {}
             /\ Written(W2, "user", v, c) = {} /\ Written(W3, "user", v, c) = {}
  BY WrittenByChange
<1>3. /\ Written(W1, "user", v, "present") = {}
      /\ Written(W2, "employee", v, "present") = {} /\ Written(W3, "employee", v, "present") = {}
      /\ Written(W3, "employee", v, "active") = {}
  BY <1>1, WrittenByChange
<1>4. Written(W1, "user", v, "active") =
        IF v = u /\ active # account.active THEN {active} ELSE {}
  BY <1>1, WrittenByChange
<1>5. Written(W2, "employee", v, "active") =
        IF v = u /\ active # employee[u].active THEN {active} ELSE {}
  BY <1>1, WrittenByChange
<1>. HIDE DEF W1, W2, W3
<1>6. /\ Written(W, "user", v, "present") = {} /\ Written(W, "employee", v, "present") = {}
      /\ Written(W, "user", v, "active") = Written(W1, "user", v, "active")
      /\ Written(W, "employee", v, "active") =
           IF employee[u].present THEN Written(W2, "employee", v, "active") ELSE {}
  <2>1. CASE employee[u].present
    <3>1. ASSUME NEW table, NEW c
          PROVE  Written(W, table, v, c) =
                   Written(W1, table, v, c) \cup Written(W2, table, v, c) \cup Written(W3, table, v, c)
      <4>1. W = W1 \cup (W2 \cup W3)
        BY <2>1
      <4>2. Written(W, table, v, c) = Written(W1, table, v, c) \cup Written(W2 \cup W3, table, v, c)
        BY <4>1, WrittenByBoth
      <4>3. Written(W2 \cup W3, table, v, c) = Written(W2, table, v, c) \cup Written(W3, table, v, c)
        BY WrittenByBoth
      <4>. QED  BY <4>2, <4>3
    <3>. QED  BY <1>2, <1>3, <2>1, <3>1
  <2>2. CASE ~employee[u].present
    <3>1. W = W1
      BY <2>2
    <3>. QED  BY <1>2, <1>3, <2>2, <3>1
  <2>. QED  BY <2>1, <2>2
<1>. HIDE DEF W
<1>7. InsertsNew(W, v) /\ ~Sets(W, "user", v, "present")
  BY <1>6 DEF InsertsNew, Sets
<1>8. ASSUME v = u, ~employee[u].present  PROVE Together(W, v)
  <2>1. Written(W, "employee", v, "active") = {}
    BY <1>6, <1>8
  <2>. QED  BY <1>8, <2>1 DEF Together, Sets
<1>9. ASSUME v \notin T, v # u \/ employee[u].present  PROVE Together(W, v)
  <2>1. \/ /\ Written(W, "user", v, "active") = {}
           /\ Written(W, "employee", v, "active") = {}
        \/ /\ Written(W, "user", v, "active") = {active}
           /\ Written(W, "employee", v, "active") = {active}
    BY <1>4, <1>5, <1>6, <1>9
  <2>. QED  BY <2>1 DEF Together, Sets
<1>10. v \notin T => Together(W, v)
  BY <1>8, <1>9
<1>. QED  BY <1>7, <1>10 DEF W, W1, W2, W3

(* create_employee inserts a profile with its account.                     *)
LEMMA CreateEmployeeAligned ==
  ASSUME ProfilesInStep, NEW u \in Users, NEW d, NEW t, NEW jt, ~user[u].present
  PROVE  AlignedInserting(CreateEmployeeWrites(u, d, t, jt), {u}, torn)
<1> DEFINE a == [present |-> TRUE, active |-> TRUE, admin |-> FALSE]
           r == [present |-> TRUE, active |-> TRUE, title |-> jt, team |-> t,
                 dept |-> ResolvedDept(d, t, d # None)]
           W1 == Inserted("user", u, a)
           W2 == Inserted("employee", u, r)
<1>1. /\ DOMAIN a = {"present", "active", "admin"} /\ a["present"] = TRUE /\ a["active"] = TRUE
      /\ DOMAIN r = {"present", "active", "title", "team", "dept"}
      /\ r["present"] = TRUE /\ r["active"] = TRUE
  OBVIOUS
<1>. HIDE DEF a, r
<1> SUFFICES ASSUME NEW v \in Users
             PROVE  /\ Together(W1 \cup W2, v) /\ InsertsNew(W1 \cup W2, v)
                    /\ Sets(W1 \cup W2, "user", v, "present") => v = u
  BY DEF AlignedInserting, CreateEmployeeWrites, a, r
<1>2. \A c : Written(W1, "employee", v, c) = {} /\ Written(W2, "user", v, c) = {}
  BY WrittenByInsert
<1>3. ASSUME NEW c \in {"present", "active"}
      PROVE  /\ Written(W1, "user", v, c) = IF v = u THEN {TRUE} ELSE {}
             /\ Written(W2, "employee", v, c) = IF v = u THEN {TRUE} ELSE {}
  <2>1. c \in DOMAIN a /\ a[c] = TRUE /\ c \in DOMAIN r /\ r[c] = TRUE
    BY <1>1
  <2>. QED  BY <2>1, WrittenByInsert
<1>. HIDE DEF W1, W2
<1>4. ASSUME NEW c \in {"present", "active"}
      PROVE  /\ Written(W1 \cup W2, "user", v, c) = IF v = u THEN {TRUE} ELSE {}
             /\ Written(W1 \cup W2, "employee", v, c) = IF v = u THEN {TRUE} ELSE {}
  <2>1. /\ Written(W1 \cup W2, "user", v, c) = Written(W1, "user", v, c) \cup Written(W2, "user", v, c)
        /\ Written(W1 \cup W2, "employee", v, c) =
             Written(W1, "employee", v, c) \cup Written(W2, "employee", v, c)
    BY WrittenByBoth
  <2>. QED  BY <1>2, <1>3, <2>1
<1> DEFINE W == W1 \cup W2
<1>5. /\ Written(W, "user", v, "present") = IF v = u THEN {TRUE} ELSE {}
      /\ Written(W, "employee", v, "present") = IF v = u THEN {TRUE} ELSE {}
      /\ Written(W, "user", v, "active") = IF v = u THEN {TRUE} ELSE {}
      /\ Written(W, "employee", v, "active") = IF v = u THEN {TRUE} ELSE {}
  BY <1>4
<1>. HIDE DEF W
<1>6. Together(W, v) /\ InsertsNew(W, v) /\ (Sets(W, "user", v, "present") => v = u)
  BY <1>5 DEF Together, InsertsNew, Sets
<1>. QED  BY <1>6 DEF W

(* update_employee changes a profile and its account together, if the      *)
(* account it reads is as active as the profile it has loaded.             *)
LEMMA UpdateEmployeeAligned ==
  ASSUME NEW u \in Users, NEW e, NEW ch, NEW T, u \notin T => e.active = user[u].active
  PROVE  AlignedInserting(UpdateEmployeeWrites(u, e, ch), {}, T)
<1> DEFINE active == Final(ch, "active", e)
           r1 == [active |-> active]
           r2 == [active |-> active, title |-> Final(ch, "title", e), team |-> Final(ch, "team", e),
                  dept |-> ResolvedDept(Final(ch, "dept", e), Final(ch, "team", e),
                                        "dept" \in DOMAIN ch)]
           W1 == Changed("user", user[u], u, r1)
           W2 == Changed("employee", e, u, r2)
<1>1. /\ DOMAIN r1 = {"active"} /\ r1["active"] = active
      /\ DOMAIN r2 = {"active", "title", "team", "dept"} /\ r2["active"] = active
  OBVIOUS
<1>. HIDE DEF r1, r2
<1> SUFFICES ASSUME NEW v \in Users
             PROVE  /\ v \notin T => Together(W1 \cup W2, v)
                    /\ InsertsNew(W1 \cup W2, v) /\ ~Sets(W1 \cup W2, "user", v, "present")
  BY DEF AlignedInserting, UpdateEmployeeWrites, r1, r2
<1>. HIDE DEF active
<1>3. \A c : Written(W1, "employee", v, c) = {} /\ Written(W2, "user", v, c) = {}
  BY WrittenByChange
<1>4. Written(W1, "user", v, "present") = {} /\ Written(W2, "employee", v, "present") = {}
  BY <1>1, WrittenByChange
<1>5. Written(W1, "user", v, "active") = IF v = u /\ active # user[u].active THEN {active} ELSE {}
  <2>1. Written(W1, "user", v, "active") =
          IF v = u /\ r1["active"] # user[u]["active"] THEN {r1["active"]} ELSE {}
    BY <1>1, WrittenByChange
  <2>. QED  BY <1>1, <2>1
<1>6. Written(W2, "employee", v, "active") = IF v = u /\ active # e.active THEN {active} ELSE {}
  BY <1>1, WrittenByChange
<1>. HIDE DEF W1, W2
<1>7. ASSUME NEW c
      PROVE  /\ Written(W1 \cup W2, "user", v, c) = Written(W1, "user", v, c)
             /\ Written(W1 \cup W2, "employee", v, c) = Written(W2, "employee", v, c)
  <2>1. /\ Written(W1 \cup W2, "user", v, c) = Written(W1, "user", v, c) \cup Written(W2, "user", v, c)
        /\ Written(W1 \cup W2, "employee", v, c) =
             Written(W1, "employee", v, c) \cup Written(W2, "employee", v, c)
    BY WrittenByBoth
  <2>. QED  BY <1>3, <2>1
<1> DEFINE W == W1 \cup W2
<1>8. /\ Written(W, "user", v, "present") = {} /\ Written(W, "employee", v, "present") = {}
      /\ Written(W, "user", v, "active") = IF v = u /\ active # user[u].active THEN {active} ELSE {}
      /\ Written(W, "employee", v, "active") = IF v = u /\ active # e.active THEN {active} ELSE {}
  BY <1>4, <1>5, <1>6, <1>7
<1>. HIDE DEF W
<1>9. /\ v \notin T => Together(W, v)
      /\ InsertsNew(W, v) /\ ~Sets(W, "user", v, "present")
  BY <1>8 DEF Together, InsertsNew, Sets
<1>. QED  BY <1>9 DEF W

(* What Begin and Update have in common: W is what w commits next.         *)
Queues(w, W) ==
  /\ Idle(w)
  /\ pending' = [pending EXCEPT ![w] = W]
  /\ torn \subseteq torn'
  /\ UNCHANGED <<user, employee, title, team, department, mode>>

(* A session may go on to commit writes that fit the accounts, if no other *)
(* one is inserting the account it inserts.                                *)
LEMMA QueueKeepsAligned ==
  ASSUME SessionsAligned, pending = [w \in Workers |-> pending[w]],
         NEW w \in Workers, NEW W, NEW S, AlignedInserting(W, S, torn'),
         \A u \in S : NotBeingInserted("user", u), Queues(w, W)
  PROVE  SessionsAligned'
<1>1. /\ pending'[w] = W /\ \A v \in Workers : v # w => pending'[v] = pending[v]
      /\ UNCHANGED <<user, employee>> /\ Idle(w) /\ torn \subseteq torn'
  BY DEF Queues
<1>2. \A v \in Workers, u \in S : ~Idle(v) => ~Sets(pending[v], "user", u, "present")
  BY DEF NotBeingInserted, Sets, Written
<1>3. ASSUME NEW v \in Workers, NEW u \in Users, ~Idle(v)'  PROVE Aligned(pending[v], u)'
  <2>1. (u \notin torn' => Together(pending'[v], u)) /\ InsertsNew(pending'[v], u)
    BY <1>1, <1>3 DEF SessionsAligned, Aligned, AlignedInserting, Idle
  <2>. QED  BY <1>1, <2>1 DEF Aligned, Together, InsertsNew
<1>4. ASSUME NEW v1 \in Workers, NEW v2 \in Workers, NEW u \in Users,
             ~Idle(v1)', Sets(pending'[v1], "user", u, "present"),
             ~Idle(v2)', Sets(pending'[v2], "user", u, "present")
      PROVE  v1 = v2
  BY <1>1, <1>2, <1>4 DEF SessionsAligned, AlignedInserting, Idle
<1>5. \A u \in Users : employee'[u].present => user'[u].present
  BY <1>1 DEF SessionsAligned
<1>. QED  BY <1>3, <1>4, <1>5 DEF SessionsAligned, Sets

(* What a commit leaves in the columns of an account and its profile.      *)
LEMMA CommittedAccount ==
  ASSUME DirTypeOK, NEW STATE W, Commit(W), NEW u \in Users, NEW c \in {"present", "active"}
  PROVE  /\ Written(W, "user", u, c) = {} => user'[u][c] = user[u][c]
         /\ Written(W, "user", u, c) # {} => user'[u][c] \in Written(W, "user", u, c)
         /\ Written(W, "employee", u, c) = {} => employee'[u][c] = employee[u][c]
         /\ Written(W, "employee", u, c) # {} => employee'[u][c] \in Written(W, "employee", u, c)
<1>1. /\ u \in DOMAIN user /\ c \in DOMAIN user[u]
      /\ u \in DOMAIN employee /\ c \in DOMAIN employee[u]
  BY DEF DirTypeOK, UserRow, EmployeeRow
<1>2. user' = Patched(user, "user", W) /\ employee' = Patched(employee, "employee", W)
  BY DEF Commit
<1>. QED  BY <1>1, <1>2, PatchedIs

(* A commit leaves tables and the writes of other sessions in step.        *)
LEMMA CommitKeepsAligned ==
  ASSUME DirTypeOK, ProfilesInStep, SessionsAligned, pending = [w \in Workers |-> pending[w]],
         NEW w \in Workers, CommitSession(w)
  PROVE  ProfilesInStep' /\ SessionsAligned'
<1> DEFINE W == pending[w]
           U(u, c) == Written(W, "user", u, c)
           E(u, c) == Written(W, "employee", u, c)
<1>1. /\ ~Idle(w) /\ Commit(W)
      /\ pending'[w] = None /\ \A v \in Workers : v # w => pending'[v] = pending[v]
      /\ torn' = torn
  BY DEF CommitSession
<1>2. \A u \in Users : Aligned(W, u)
  BY <1>1 DEF SessionsAligned
<1>3. ASSUME NEW u \in Users
      PROVE  /\ user'[u].present = IF U(u, "present") = {} THEN user[u].present ELSE TRUE
             /\ employee'[u].present = IF E(u, "present") = {} THEN employee[u].present ELSE TRUE
             /\ U(u, "active") = {} => user'[u].active = user[u].active
             /\ U(u, "active") # {} => user'[u].active \in U(u, "active")
             /\ E(u, "active") = {} => employee'[u].active = employee[u].active
             /\ E(u, "active") # {} => employee'[u].active \in E(u, "active")
  <2>1. U(u, "present") \cup E(u, "present") \subseteq {TRUE}
    BY <1>2 DEF Aligned, InsertsNew
  <2>. HIDE DEF W
  <2>. QED  BY <1>1, <2>1, CommittedAccount
<1>. HIDE DEF W, U, E
<1>4. ASSUME NEW u \in Users
      PROVE  /\ u \notin torn =>
                  \/ /\ U(u, "active") # {} <=> E(u, "active") # {}
                     /\ \A x \in U(u, "active"), y \in E(u, "active") : x = y
                  \/ /\ E(u, "active") = {} /\ ~employee[u].present
                     /\ user[u].present \/ U(u, "present") # {}
             /\ E(u, "present") # {} => U(u, "present") # {} /\ E(u, "active") # {}
             /\ U(u, "present") # {} => ~user[u].present
  BY <1>2 DEF Aligned, Together, InsertsNew, Sets, U, E
<1>5. ProfilesInStep'
  <2> SUFFICES ASSUME NEW u \in Users, employee'[u].present
               PROVE  /\ user'[u].present
                      /\ u \notin torn => employee'[u].active = user'[u].active
    BY <1>1 DEF ProfilesInStep
  <2>1. employee[u].present =>
          user[u].present /\ (u \notin torn => employee[u].active = user[u].active)
    BY DEF ProfilesInStep
  <2>2. user'[u].present
    BY <1>3, <1>4, <2>1
  <2>3. CASE /\ U(u, "active") # {} <=> E(u, "active") # {}
             /\ \A x \in U(u, "active"), y \in E(u, "active") : x = y
    BY <1>3, <1>4, <2>1, <2>2, <2>3
  <2>4. CASE E(u, "active") = {} /\ ~employee[u].present
    BY <1>3, <1>4, <2>2, <2>4
  <2>. QED  BY <1>4, <2>2, <2>3, <2>4
<1>6. ASSUME NEW v \in Workers, NEW u \in Users, ~Idle(v)'  PROVE Aligned(pending[v], u)'
  <2>1. v # w /\ pending'[v] = pending[v] /\ ~Idle(v)
    BY <1>1, <1>6 DEF Idle
  <2> DEFINE V == pending[v]
  <2>2. Aligned(V, u)
    BY <2>1 DEF SessionsAligned
  <2>3. Sets(V, "user", u, "present") => U(u, "present") = {}
    BY <1>1, <2>1 DEF SessionsAligned, Sets, U, W
  <2>4. Sets(V, "user", u, "present") => ~user'[u].present
    BY <1>3, <2>2, <2>3 DEF Aligned, InsertsNew
  <2>5. ~employee[u].present /\ (user[u].present \/ Sets(V, "user", u, "present")) =>
          ~employee'[u].present /\ (user'[u].present \/ Sets(V, "user", u, "present"))
    BY <1>3, <1>4, <2>3
  <2>6. Aligned(V, u)'
    BY <1>1, <2>1, <2>2, <2>4, <2>5 DEF Aligned, Together, InsertsNew
  <2>. QED  BY <2>6
<1>7. ASSUME NEW v1 \in Workers, NEW v2 \in Workers, NEW u \in Users,
             ~Idle(v1)', Sets(pending'[v1], "user", u, "present"),
             ~Idle(v2)', Sets(pending'[v2], "user", u, "present")
      PROVE  v1 = v2
  <2>1. ~Idle(v1) /\ ~Idle(v2) /\ pending'[v1] = pending[v1] /\ pending'[v2] = pending[v2]
    BY <1>1, <1>7 DEF Idle
  <2>. QED  BY <1>7, <2>1 DEF SessionsAligned
<1>. QED  BY <1>5, <1>6, <1>7 DEF SessionsAligned, Sets, ProfilesInStep

-----------------------------------------------------------------------------
(* Teams, departments and administrators without overlap                   *)

(* The tables are in order once W is committed.                            *)
PlacedAfter(W) == TeamsPlaced(Patched(team, "team", W), Patched(department, "department", W))
AdminAfter(W) == AdminAmong(Patched(user, "user", W))

(* What writes make of the placement of teams and departments.             *)
LEMMA OrganizationColumns ==
  ASSUME DirTypeOK, NEW W
  PROVE  /\ \A t \in Teams : \A c \in {"present", "active", "dept"} :
              /\ Written(W, "team", t, c) = {} => Patched(team, "team", W)[t][c] = team[t][c]
              /\ Written(W, "team", t, c) # {} =>
                   Patched(team, "team", W)[t][c] \in Written(W, "team", t, c)
         /\ \A d \in Departments : \A c \in {"present", "active"} :
              /\ Written(W, "department", d, c) = {} =>
                   Patched(department, "department", W)[d][c] = department[d][c]
              /\ Written(W, "department", d, c) # {} =>
                   Patched(department, "department", W)[d][c] \in Written(W, "department", d, c)
<1>1. \A t \in Teams : \A c \in {"present", "active", "dept"} :
        t \in DOMAIN team /\ c \in DOMAIN team[t]
  BY DEF DirTypeOK, TeamRow
<1>2. \A d \in Departments : \A c \in {"present", "active"} :
        d \in DOMAIN department /\ c \in DOMAIN department[d]
  BY DEF DirTypeOK, DepartmentRow
<1>. QED  BY <1>1, <1>2, PatchedIs

(* Departments that are created or renamed displace no team, nor does what *)
(* writes to neither table.                                                *)
LEMMA PlacedByDepartments ==
  ASSUME DirTypeOK, TeamsPlaced(team, department), NEW W,
         \A t, c : Written(W, "team", t, c) = {},
         \A d \in Departments, c \in {"present", "active"} :
           Written(W, "department", d, c) \subseteq {TRUE}
  PROVE  PlacedAfter(W)
<1> DEFINE tm == Patched(team, "team", W)
           dp == Patched(department, "department", W)
<1>1. \A t \in Teams : \A c \in {"present", "active", "dept"} : tm[t][c] = team[t][c]
  BY OrganizationColumns
<1>2. ASSUME NEW d \in Departments, NEW c \in {"present", "active"}, department[d][c]
      PROVE  dp[d][c]
  <2>1. dp[d][c] = department[d][c] \/ dp[d][c] \in Written(W, "department", d, c)
    BY OrganizationColumns
  <2>2. Written(W, "department", d, c) \subseteq {TRUE}
    OBVIOUS
  <2>. QED  BY <1>2, <2>1, <2>2
<1>. HIDE DEF tm, dp
<1>3. TeamsPlaced(tm, dp)
  BY <1>1, <1>2 DEF TeamsPlaced
<1>. QED  BY <1>3 DEF PlacedAfter, tm, dp

(* Teams that are created in or moved to active departments stay in order. *)
LEMMA PlacedByTeams ==
  ASSUME DirTypeOK, TeamsPlaced(team, department), NEW W,
         \A d, c : Written(W, "department", d, c) = {},
         \A t \in Teams :
           /\ Written(W, "team", t, "dept") \subseteq {d \in Departments : ActiveDepartment(d)}
           /\ \/ Written(W, "team", t, "dept") # {}
              \/ /\ Written(W, "team", t, "present") = {}
                 /\ Written(W, "team", t, "active") \subseteq {FALSE}
  PROVE  PlacedAfter(W)
<1> DEFINE tm == Patched(team, "team", W)
           dp == Patched(department, "department", W)
<1> SUFFICES ASSUME NEW t \in Teams, tm[t].present, tm[t].active
             PROVE  tm[t].dept \in Departments /\ dp[tm[t].dept].present /\ dp[tm[t].dept].active
  BY DEF PlacedAfter, TeamsPlaced
<1>1. \A d \in Departments : dp[d].present = department[d].present /\ dp[d].active = department[d].active
  BY OrganizationColumns
<1>2. CASE Written(W, "team", t, "dept") # {}
  <2>1. tm[t].dept \in {d \in Departments : ActiveDepartment(d)}
    <3>1. tm[t].dept \in Written(W, "team", t, "dept")
      BY <1>2, OrganizationColumns
    <3>. QED  BY <3>1
  <2>. QED  BY <1>1, <2>1 DEF ActiveDepartment
<1>3. CASE Written(W, "team", t, "dept") = {}
  <2>1. tm[t].present = team[t].present /\ tm[t].dept = team[t].dept
    BY <1>3, OrganizationColumns
  <2>2. tm[t].active = team[t].active
    <3>1. CASE Written(W, "team", t, "active") = {}
      BY <3>1, OrganizationColumns
    <3>2. CASE Written(W, "team", t, "active") # {}
      <4>1. tm[t].active \in Written(W, "team", t, "active")
        BY <3>2, OrganizationColumns
      <4>. QED  BY <1>3, <4>1
    <3>. QED  BY <3>1, <3>2
  <2>. QED  BY <1>1, <2>1, <2>2 DEF TeamsPlaced
<1>. QED  BY <1>2, <1>3

(* No department service takes an active team's department away.           *)
LEMMA DepartmentsPlaced ==
  ASSUME DirTypeOK, TeamsPlaced(team, department), NEW d \in Departments, NEW m
  PROVE  /\ PlacedAfter(CreateDepartmentWrites(d, m)) /\ PlacedAfter(UpdateDepartmentWrites(d, m))
         /\ DeactivateDepartmentAllowed(d) => PlacedAfter(DeactivateDepartmentWrites(d))
<1> DEFINE r == [present |-> TRUE, active |-> TRUE, manager |-> m]
           c1 == [manager |-> m]
           c2 == [active |-> FALSE]
           W2 == Changed("department", department[d], d, c2)
<1>1. /\ DOMAIN r = {"present", "active", "manager"} /\ r["present"] = TRUE /\ r["active"] = TRUE
      /\ DOMAIN c1 = {"manager"} /\ DOMAIN c2 = {"active"} /\ c2["active"] = FALSE
  OBVIOUS
<1>. HIDE DEF r, c1, c2
<1>2. PlacedAfter(Inserted("department", d, r))
  <2>1. \A c \in {"present", "active"} : c \in DOMAIN r /\ r[c] = TRUE
    BY <1>1
  <2>. QED  BY <2>1, WrittenByInsert, PlacedByDepartments
<1>3. PlacedAfter(Changed("department", department[d], d, c1))
  BY <1>1, WrittenByChange, PlacedByDepartments
<1>4. ASSUME DeactivateDepartmentAllowed(d)  PROVE PlacedAfter(W2)
  <2>1. \A t, c : Written(W2, "team", t, c) = {}
    BY WrittenByChange
  <2>2. \A x, c : x # d \/ c # "active" => Written(W2, "department", x, c) = {}
    BY <1>1, WrittenByChange
  <2>3. \A t \in Teams : ActiveTeam(t) => team[t].dept # d
    BY <1>4 DEF DeactivateDepartmentAllowed, TeamsPlaced, ActiveTeam
  <2>. HIDE DEF W2
  <2>. QED  BY <2>1, <2>2, <2>3, OrganizationColumns DEF PlacedAfter, TeamsPlaced, ActiveTeam
<1>. QED
  BY <1>2, <1>3, <1>4
  DEF CreateDepartmentWrites, UpdateDepartmentWrites, DeactivateDepartmentWrites, r, c1, c2, W2

(* A created team lies in an active department.                            *)
LEMMA CreatedTeamPlaced ==
  ASSUME DirTypeOK, TeamsPlaced(team, department), NEW t \in Teams, NEW d \in Departments, NEW l,
         CreateTeamAllowed(t, d, l)
  PROVE  PlacedAfter(CreateTeamWrites(t, d, l))
<1> DEFINE r == [present |-> TRUE, active |-> TRUE, dept |-> d, leader |-> l]
           W == Inserted("team", t, r)
<1>1. DOMAIN r = {"present", "active", "dept", "leader"} /\ r["dept"] = d
  OBVIOUS
<1>. HIDE DEF r
<1>2. \A x, c : Written(W, "department", x, c) = {}
  BY WrittenByInsert
<1>3. \A x, c : x # t => Written(W, "team", x, c) = {}
  BY WrittenByInsert
<1>4. Written(W, "team", t, "dept") = {d}
  BY <1>1, WrittenByInsert
<1>. HIDE DEF W
<1>5. ActiveDepartment(d)
  BY DEF CreateTeamAllowed
<1>6. ASSUME NEW x \in Teams
      PROVE  /\ Written(W, "team", x, "dept") \subseteq {y \in Departments : ActiveDepartment(y)}
             /\ \/ Written(W, "team", x, "dept") # {}
                \/ /\ Written(W, "team", x, "present") = {}
                   /\ Written(W, "team", x, "active") \subseteq {FALSE}
  BY <1>3, <1>4, <1>5
<1>7. PlacedAfter(W)
  BY <1>2, <1>6, PlacedByTeams
<1>. QED  BY <1>7 DEF CreateTeamWrites, r, W

(* An updated team stays in an active department.                          *)
LEMMA UpdatedTeamPlaced ==
  ASSUME DirTypeOK, TeamsPlaced(team, department), NEW t \in Teams, NEW ch \in TeamPayloads,
         UpdateTeamAllowed(t, ch)
  PROVE  PlacedAfter(UpdateTeamWrites(t, ch))
<1> DEFINE W == Changed("team", team[t], t, ch)
<1>1. \A x, c : Written(W, "department", x, c) = {}
  BY WrittenByChange
<1>2. \A x : Written(W, "team", x, "present") = {} /\ Written(W, "team", x, "active") = {}
  BY TeamPayload, WrittenByChange
<1>3. \A x : Written(W, "team", x, "dept") \subseteq {y \in Departments : ActiveDepartment(y)}
  <2>1. "dept" \in DOMAIN ch => ch["dept"] \in Departments /\ ActiveDepartment(ch["dept"])
    BY TeamPayload DEF UpdateTeamAllowed
  <2>. QED  BY <2>1, WrittenByChange
<1>. HIDE DEF W
<1>4. PlacedAfter(W)
  BY <1>1, <1>2, <1>3, PlacedByTeams
<1>. QED  BY <1>4 DEF UpdateTeamWrites, W

(* The deactivation of a team leaves the other teams placed.               *)
LEMMA DeactivatedTeamPlaced ==
  ASSUME DirTypeOK, TeamsPlaced(team, department), NEW t \in Teams
  PROVE  PlacedAfter(DeactivateTeamWrites(t))
<1> DEFINE c1 == [active |-> FALSE]
           W == Changed("team", team[t], t, c1)
<1>1. DOMAIN c1 = {"active"} /\ c1["active"] = FALSE
  OBVIOUS
<1>. HIDE DEF c1
<1>2. \A x, c : Written(W, "department", x, c) = {}
  BY WrittenByChange
<1>3. \A x : Written(W, "team", x, "present") = {} /\ Written(W, "team", x, "dept") = {}
  BY <1>1, WrittenByChange
<1>4. ASSUME NEW x  PROVE Written(W, "team", x, "active") \subseteq {FALSE}
  <2>1. Written(W, "team", x, "active") =
          IF x = t /\ c1["active"] # team[t]["active"] THEN {c1["active"]} ELSE {}
    BY <1>1, WrittenByChange
  <2>. QED  BY <1>1, <2>1
<1>. HIDE DEF W
<1>5. PlacedAfter(W)
  BY <1>2, <1>3, <1>4, PlacedByTeams
<1>. QED  BY <1>5 DEF DeactivateTeamWrites, c1, W

(* Writes to neither teams nor departments.                                *)
Elsewhere(W) == \A i, c : Written(W, "team", i, c) = {} /\ Written(W, "department", i, c) = {}

(* Writes to other tables leave teams where they are.                      *)
LEMMA ElsewhereIsPlaced ==
  ASSUME DirTypeOK, TeamsPlaced(team, department), NEW W, Elsewhere(W)
  PROVE  PlacedAfter(W)
  BY PlacedByDepartments DEF Elsewhere

(* Two sets of such writes are such a set.                                 *)
LEMMA ElsewhereBoth == ASSUME NEW V, NEW W, Elsewhere(V), Elsewhere(W)  PROVE Elsewhere(V \cup W)
<1>1. ASSUME NEW t \in {"team", "department"}, NEW i, NEW c  PROVE Written(V \cup W, t, i, c) = {}
  <2>1. Written(V \cup W, t, i, c) = Written(V, t, i, c) \cup Written(W, t, i, c)
    BY WrittenByBoth
  <2>. QED  BY <2>1 DEF Elsewhere
<1>. QED  BY <1>1 DEF Elsewhere

(* The users, employees and titles services write elsewhere.               *)
LEMMA OthersElsewhere ==
  ASSUME NEW u, NEW x, NEW y, NEW z
  PROVE  /\ Elsewhere(CreateUserWrites(u, x, y)) /\ Elsewhere(UpdateUserWrites(u, x, y))
         /\ Elsewhere(CreateEmployeeWrites(u, x, y, z)) /\ Elsewhere(UpdateEmployeeWrites(u, x, y))
         /\ Elsewhere(CreateTitleWrites(u, x)) /\ Elsewhere(UpdateTitleWrites(u, x))
         /\ Elsewhere(DeactivateTitleWrites(u))
<1>1. \A table, i, r : table \notin {"team", "department"} => Elsewhere(Inserted(table, i, r))
  BY WrittenByInsert DEF Elsewhere
<1>2. \A table, r, i, ch : table \notin {"team", "department"} => Elsewhere(Changed(table, r, i, ch))
  BY WrittenByChange DEF Elsewhere
<1>3. Elsewhere({})
  BY DEF Elsewhere, Written, WritesTo
<1>4. Elsewhere(CreateUserWrites(u, x, y)) /\ Elsewhere(CreateTitleWrites(u, x))
  BY <1>1 DEF CreateUserWrites, CreateTitleWrites
<1>5. Elsewhere(UpdateTitleWrites(u, x)) /\ Elsewhere(DeactivateTitleWrites(u))
  BY <1>2 DEF UpdateTitleWrites, DeactivateTitleWrites
<1>6. Elsewhere(UpdateUserWrites(u, x, y))
  BY <1>2, <1>3, ElsewhereBoth DEF UpdateUserWrites
<1>7. Elsewhere(CreateEmployeeWrites(u, x, y, z))
  BY <1>1, ElsewhereBoth DEF CreateEmployeeWrites
<1>8. Elsewhere(UpdateEmployeeWrites(u, x, y))
  BY <1>2, ElsewhereBoth DEF UpdateEmployeeWrites
<1>. QED  BY <1>4, <1>5, <1>6, <1>7, <1>8

(* An active super admin remains one unless a write takes it away.         *)
LEMMA AdminStays ==
  ASSUME DirTypeOK, NEW u \in Users, ActiveAdmin(u), NEW W,
         \A c \in {"present", "active", "admin"} : Written(W, "user", u, c) \subseteq {TRUE}
  PROVE  AdminAfter(W)
<1> DEFINE us == Patched(user, "user", W)
<1>1. ASSUME NEW c \in {"present", "active", "admin"}  PROVE us[u][c] = TRUE
  <2>1. u \in DOMAIN user /\ c \in DOMAIN user[u] /\ user[u][c] = TRUE
    BY <1>1 DEF DirTypeOK, UserRow, ActiveAdmin, ActiveUser
  <2>2. Written(W, "user", u, c) = {} => us[u][c] = user[u][c]
    BY <2>1, PatchedIs
  <2>3. Written(W, "user", u, c) # {} => us[u][c] \in Written(W, "user", u, c)
    BY <2>1, PatchedIs
  <2>4. Written(W, "user", u, c) \subseteq {TRUE}
    OBVIOUS
  <2>. QED  BY <2>1, <2>2, <2>3, <2>4
<1>. HIDE DEF us
<1>2. us[u].present /\ us[u].active /\ us[u].admin
  BY <1>1
<1>. QED  BY <1>2 DEF AdminAfter, AdminAmong, us

(* Writes to other tables leave the super admins alone.                    *)
LEMMA ForeignKeepsAdmin ==
  ASSUME DirTypeOK, AdminAmong(user), NEW W, Foreign(W)
  PROVE  AdminAfter(W)
<1>1. PICK u \in Users : ActiveAdmin(u)
  BY DEF AdminAmong, ActiveAdmin, ActiveUser
<1>2. \A c : Written(W, "user", u, c) = {}
  BY DEF Foreign
<1>. QED  BY <1>1, <1>2, AdminStays

(* The administrator who makes the request stays one.                      *)
LEMMA CreateUserKeepsAdmin ==
  ASSUME DirTypeOK, NEW admin \in Users, NEW u \in Users, NEW a, NEW s,
         CreateUserAllowed(admin, u)
  PROVE  AdminAfter(CreateUserWrites(u, a, s))
<1>1. ActiveAdmin(admin) /\ admin # u
  BY DEF CreateUserAllowed, ActiveAdmin, ActiveUser
<1>2. \A c : Written(CreateUserWrites(u, a, s), "user", admin, c) = {}
  BY <1>1, WrittenByInsert DEF CreateUserWrites
<1>. QED  BY <1>1, <1>2, AdminStays

(* update_user refuses to take the last super admin away.                  *)
LEMMA UpdateUserKeepsAdmin ==
  ASSUME DirTypeOK, NEW admin \in Users, NEW u \in Users, NEW ch \in UserPayloads,
         UserLoads(admin, u), UpdateUserAllowed(admin, u, ch)
  PROVE  AdminAfter(UpdateUserWrites(u, user[u], ch))
<1> DEFINE r == Restricted(ch, {"active", "admin"})
           W1 == Changed("user", user[u], u, r)
           active == IF "active" \in DOMAIN ch THEN ch.active ELSE user[u].active
           W2 == IF employee[u].present
                   THEN Changed("employee", employee[u], u, [active |-> active])
                        \cup Changed("employee", employee[u], u, Restricted(ch, OrgColumns))
                   ELSE {}
<1>1. ActiveAdmin(admin)
  BY DEF UserLoads
<1>2. \A c : Written(W2, "user", admin, c) = {}
  BY DEF Written, WritesTo, Changed
<1>3. DOMAIN r = DOMAIN ch \cap {"active", "admin"} /\ \A c \in DOMAIN r : r[c] = ch[c]
  BY DEF Restricted
<1>4. \A c \in DOMAIN r : r[c] \in BOOLEAN
  BY <1>3, UserPayload
<1>5. u = admin => \A c \in DOMAIN r : r[c] = TRUE
  <2>1. u = admin => \A c \in DOMAIN r : ch[c]
    BY <1>3 DEF UpdateUserAllowed
  <2>. QED  BY <1>3, <1>4, <2>1
<1>. HIDE DEF r
<1>6. ASSUME NEW c  PROVE Written(W1, "user", admin, c) \subseteq {TRUE}
  <2>1. Written(W1, "user", admin, c) =
          IF admin = u /\ c \in DOMAIN r /\ r[c] # user[u][c] THEN {r[c]} ELSE {}
    BY WrittenByChange
  <2>. QED  BY <1>5, <2>1
<1>. HIDE DEF W1, W2
<1>7. ASSUME NEW c  PROVE Written(W1 \cup W2, "user", admin, c) \subseteq {TRUE}
  <2>1. Written(W1 \cup W2, "user", admin, c) =
          Written(W1, "user", admin, c) \cup Written(W2, "user", admin, c)
    BY WrittenByBoth
  <2>2. Written(W1, "user", admin, c) \subseteq {TRUE} /\ Written(W2, "user", admin, c) = {}
    BY <1>2, <1>6
  <2>. QED  BY <2>1, <2>2
<1>8. AdminAfter(W1 \cup W2)
  BY <1>1, <1>7, AdminStays
<1>. QED  BY <1>8 DEF W1, W2, r, UpdateUserWrites

(* A session goes on to commit, and keeps the tables in order once it does. *)
LEMMA QueueKeepsSerial ==
  ASSUME SerialSessions, pending = [w \in Workers |-> pending[w]],
         NEW w \in Workers, NEW W, Queues(w, W),
         mode.serial => /\ torn' = {} /\ loaded'[w] = None
                        /\ \A v \in Workers \ {w} : Free(v) /\ loaded'[v] = None,
         mode.serial => PlacedAfter(W),
         mode.serial /\ "employees" \notin mode.ops => AdminAfter(W)
  PROVE  SerialSessions'
<1>1. /\ pending'[w] = W /\ \A v \in Workers : v # w => pending'[v] = pending[v]
      /\ mode' = mode /\ user' = user /\ team' = team /\ department' = department
  BY DEF Queues
<1> SUFFICES ASSUME mode.serial  PROVE SerialSessions'
  BY <1>1 DEF SerialSessions
<1>2. \A v \in Workers : v # w => pending'[v] = None
  BY <1>1 DEF Free, Idle
<1>3. \A v \in Workers : loaded'[v] = None
  OBVIOUS
<1>4. TeamsPlaced(team, department) /\ ("employees" \notin mode.ops => AdminAmong(user))
  BY DEF SerialSessions
<1>5. TeamsPlaced(Patched(team, "team", W), Patched(department, "department", W))
  BY DEF PlacedAfter
<1>6. "employees" \notin mode.ops => AdminAmong(Patched(user, "user", W))
  BY DEF AdminAfter
<1>7. TeamsPlaced(team', department') /\ ("employees" \notin mode'.ops => AdminAmong(user'))
  BY <1>1, <1>4
<1>8. ASSUME NEW v \in Workers, pending'[v] # None
      PROVE  /\ TeamsPlaced(Patched(team', "team", pending'[v]),
                            Patched(department', "department", pending'[v]))
             /\ "employees" \notin mode'.ops => AdminAmong(Patched(user', "user", pending'[v]))
  <2>1. pending'[v] = W
    BY <1>1, <1>2, <1>8
  <2>. QED  BY <1>1, <1>5, <1>6, <2>1
<1>9. \A x, v \in Workers : ~Free(x)' /\ ~Free(v)' => x = v
  BY <1>2, <1>3 DEF Free, Idle
<1>. QED  BY <1>3, <1>7, <1>8, <1>9 DEF SerialSessions, Idle

(* A commit keeps what serial sessions keep.                               *)
LEMMA CommitKeepsSerial ==
  ASSUME SerialSessions, pending = [w \in Workers |-> pending[w]],
         NEW w \in Workers, CommitSession(w)
  PROVE  SerialSessions'
<1>1. /\ pending'[w] = None /\ \A v \in Workers : v # w => pending'[v] = pending[v]
      /\ mode' = mode /\ user' = Patched(user, "user", pending[w])
      /\ team' = Patched(team, "team", pending[w])
      /\ department' = Patched(department, "department", pending[w])
      /\ pending[w] # None /\ loaded' = loaded /\ torn' = torn
  BY DEF CommitSession, Commit, Idle
<1> SUFFICES ASSUME mode.serial  PROVE SerialSessions'
  BY <1>1 DEF SerialSessions
<1>2. \A v \in Workers : pending'[v] = None /\ loaded'[v] = None
  <2>1. \A v \in Workers : v # w => Free(v)
    BY <1>1 DEF SerialSessions, Free, Idle
  <2>2. loaded[w] = None
    BY <1>1 DEF SerialSessions, Idle
  <2>. QED  BY <1>1, <2>1, <2>2 DEF Free, Idle
<1>3. TeamsPlaced(team', department') /\ ("employees" \notin mode'.ops => AdminAmong(user'))
  BY <1>1 DEF SerialSessions, Idle
<1>4. torn' = {}
  BY <1>1 DEF SerialSessions
<1>. QED  BY <1>2, <1>3, <1>4 DEF SerialSessions, Free, Idle

-----------------------------------------------------------------------------
(* The inductive invariant                                                 *)

(* What an update has loaded is there, and stays there.                    *)
LoadsPresent ==
  \A w \in Workers : loaded[w] # None =>
    /\ Idle(w)
    /\ loaded[w].service = "users" => user[loaded[w].id].present
    /\ loaded[w].service = "employees" => employee[loaded[w].id].present

(* Types, every session's writes fit the accounts and tables they meet.    *)
SessionsInv ==
  /\ TypeOK
  /\ pending = [w \in Workers |-> pending[w]]
  /\ LoadsPresent
  /\ ProfilesInStep
  /\ SessionsAligned
  /\ SerialSessions

(* What an operation has to show of the writes W it is about to commit.    *)
Fits(W, S, T) ==
  /\ Typed(W)
  /\ AlignedInserting(W, S, T)
  /\ mode.serial => PlacedAfter(W)
  /\ mode.serial /\ "employees" \notin mode.ops => AdminAfter(W)

(* A session that goes on to commit fitting writes keeps the invariant.    *)
LEMMA QueueKeeps ==
  ASSUME SessionsInv, NEW w \in Workers, NEW W, NEW S, Fits(W, S, torn'),
         \A u \in S : NotBeingInserted("user", u), Queues(w, W),
         loaded' \in [Workers -> Loaded \cup {None}], torn' \in SUBSET Users,
         \A v \in Workers : loaded'[v] \in {loaded[v], None}, loaded'[w] = None,
         mode.serial => /\ torn' = {} /\ loaded'[w] = None
                        /\ \A v \in Workers \ {w} : Free(v) /\ loaded'[v] = None
  PROVE  SessionsInv'
<1>1. /\ pending' = [pending EXCEPT ![w] = W] /\ UNCHANGED mode /\ torn \subseteq torn'
      /\ UNCHANGED <<user, employee, title, team, department>>
  BY DEF Queues
<1>2. pending' = [v \in Workers |-> pending'[v]]
  BY <1>1 DEF SessionsInv
<1>3. pending'[w] = W /\ \A v \in Workers : v # w => pending'[v] = pending[v]
  BY <1>1 DEF SessionsInv
<1>4. TypeOK'
  <2>1. DirTypeOK'
    BY <1>1 DEF SessionsInv, TypeOK, DirTypeOK
  <2>2. ASSUME NEW v \in Workers, pending'[v] # None
        PROVE  Typed(pending'[v])
    BY <1>3, <2>2 DEF Fits, SessionsInv, TypeOK, Idle, Typed, Columns
  <2>. QED  BY <1>1, <2>1, <2>2 DEF SessionsInv, TypeOK, Idle, Typed, Columns, Loaded
<1>5. ProfilesInStep'
  BY <1>1 DEF SessionsInv, ProfilesInStep
<1>6. SessionsAligned'
  BY QueueKeepsAligned DEF SessionsInv, Fits
<1>7. SerialSessions'
  BY QueueKeepsSerial DEF SessionsInv, Fits
<1>8. LoadsPresent'
  BY <1>1, <1>3 DEF SessionsInv, LoadsPresent, Idle
<1>. QED  BY <1>2, <1>4, <1>5, <1>6, <1>7, <1>8 DEF SessionsInv

(* A session that begins with fitting writes keeps the invariant.          *)
LEMMA BeginKeeps ==
  ASSUME SessionsInv, NEW w \in Workers, NEW W, NEW S, Fits(W, S, torn),
         \A u \in S : NotBeingInserted("user", u), Begin(w, W)
  PROVE  SessionsInv'
<1>1. Queues(w, W) /\ loaded' = loaded /\ torn' = torn /\ MayStart(w)
  BY DEF Begin, MayStart, Free, Queues, dirVars
<1>2. loaded \in [Workers -> Loaded \cup {None}] /\ torn \in SUBSET Users
  BY DEF SessionsInv, TypeOK
<1>3. mode.serial => torn = {} /\ \A v \in Workers : Free(v) /\ loaded[v] = None
  BY <1>1 DEF MayStart, Free, SessionsInv, SerialSessions
<1>4. loaded[w] = None
  BY <1>1 DEF MayStart, Free
<1>. QED  BY <1>1, <1>2, <1>3, <1>4, QueueKeeps

(* The first SELECT of an update keeps it.                                 *)
LEMMA LoadKeeps ==
  ASSUME SessionsInv, NEW w \in Workers, NEW x \in Loaded, LoadedAsIs(x), Load(w, x)
  PROVE  SessionsInv'
<1>1. /\ loaded' = [loaded EXCEPT ![w] = x] /\ MayStart(w)
      /\ UNCHANGED <<user, employee, title, team, department, mode, pending, torn>>
  BY DEF Load, dirVars
<1>2. loaded \in [Workers -> Loaded \cup {None}]
  BY DEF SessionsInv, TypeOK
<1>3. loaded'[w] = x /\ \A v \in Workers : v # w => loaded'[v] = loaded[v]
  BY <1>1, <1>2
<1>4. TypeOK'
  BY <1>1, <1>2 DEF SessionsInv, TypeOK, DirTypeOK, Idle, Loaded
<1>5. ProfilesInStep' /\ (pending = [v \in Workers |-> pending[v]])'
  BY <1>1 DEF SessionsInv, ProfilesInStep
<1>6. SessionsAligned'
  BY <1>1 DEF SessionsInv, SessionsAligned, Aligned, Together, InsertsNew, Idle
<1>7. LoadsPresent'
  BY <1>1, <1>3 DEF SessionsInv, LoadsPresent, LoadedAsIs, UserLoads, MayStart, Free, Idle
<1>8. SerialSessions'
  <2> SUFFICES ASSUME mode.serial  PROVE SerialSessions'
    BY <1>1 DEF SerialSessions
  <2>1. \A v \in Workers : Free(v)
    BY <1>1 DEF MayStart
  <2>2. \A v, y \in Workers : ~Free(v)' /\ ~Free(y)' => v = y
    BY <1>1, <1>3, <2>1 DEF Free, Idle
  <2>3. ASSUME NEW v \in Workers, loaded'[v] # None
        PROVE  Idle(v)' /\ LoadedAsIs(loaded[v])'
    <3>1. loaded'[v] = x /\ Idle(v)
      BY <1>3, <2>1, <2>3 DEF Free
    <3>. QED  BY <1>1, <3>1 DEF Idle, LoadedAsIs, UserLoads, ActiveAdmin, ActiveUser
  <2>4. \A v \in Workers : (loaded[v] # None)' => Idle(v)' /\ LoadedAsIs(loaded[v])'
    BY <2>3
  <2>5. \A v \in Workers : Idle(v) /\ Idle(v)'
    BY <1>1, <2>1 DEF Free, Idle
  <2>6. TeamsPlaced(team, department)' /\ ("employees" \notin mode.ops => AdminAmong(user))'
        /\ torn' = {}
    BY <1>1 DEF SessionsInv, SerialSessions
  <2>. QED  BY <2>2, <2>4, <2>5, <2>6 DEF SerialSessions
<1>. QED  BY <1>4, <1>5, <1>6, <1>7, <1>8 DEF SessionsInv

(* An update that is refused keeps it.                                     *)
LEMMA RefuseKeeps ==
  ASSUME SessionsInv, NEW w \in Workers, Refuse(w)
  PROVE  SessionsInv'
<1>1. /\ loaded' = [loaded EXCEPT ![w] = None]
      /\ UNCHANGED <<user, employee, title, team, department, mode, pending, torn>>
  BY DEF Refuse, dirVars
<1>2. loaded \in [Workers -> Loaded \cup {None}]
  BY DEF SessionsInv, TypeOK
<1>3. \A v \in Workers : loaded'[v] # None => loaded'[v] = loaded[v]
  BY <1>1, <1>2
<1>4. TypeOK'
  BY <1>1, <1>2 DEF SessionsInv, TypeOK, DirTypeOK, Idle, Loaded
<1>5. ProfilesInStep' /\ (pending = [v \in Workers |-> pending[v]])'
  BY <1>1 DEF SessionsInv, ProfilesInStep
<1>6. SessionsAligned'
  BY <1>1 DEF SessionsInv, SessionsAligned, Aligned, Together, InsertsNew, Idle
<1>7. LoadsPresent'
  BY <1>1, <1>3 DEF SessionsInv, LoadsPresent, Idle
<1>8. SerialSessions'
  <2> SUFFICES ASSUME mode.serial  PROVE SerialSessions'
    BY <1>1 DEF SerialSessions
  <2>1. \A v, y \in Workers : ~Free(v)' /\ ~Free(y)' => v = y
    BY <1>1, <1>3 DEF SessionsInv, SerialSessions, Free, Idle
  <2>2. ASSUME NEW v \in Workers, loaded'[v] # None  PROVE Idle(v)' /\ LoadedAsIs(loaded[v])'
    <3>1. loaded'[v] = loaded[v] /\ Idle(v) /\ LoadedAsIs(loaded[v])
      BY <1>3, <2>2 DEF SessionsInv, SerialSessions
    <3>. QED  BY <1>1, <3>1 DEF Idle, LoadedAsIs, UserLoads, ActiveAdmin, ActiveUser
  <2>3. /\ TeamsPlaced(team, department)'
        /\ ("employees" \notin mode.ops => AdminAmong(user))'
        /\ torn' = {}
        /\ \A v \in Workers : ~Idle(v)' =>
             /\ TeamsPlaced(Patched(team, "team", pending[v]),
                            Patched(department, "department", pending[v]))'
             /\ ("employees" \notin mode.ops => AdminAmong(Patched(user, "user", pending[v])))'
    BY <1>1 DEF SessionsInv, SerialSessions, Idle
  <2>. QED  BY <2>1, <2>2, <2>3 DEF SerialSessions
<1>. QED  BY <1>4, <1>5, <1>6, <1>7, <1>8 DEF SessionsInv

(* The second SELECT of an update, with writes that fit, keeps it.         *)
LEMMA UpdateKeeps ==
  ASSUME SessionsInv, NEW w \in Workers, NEW other, NEW W, loaded[w] # None, Idle(w),
         Update(w, other, W), Fits(W, {}, torn'),
         mode.serial /\ other.present => other.active = loaded[w].row.active
  PROVE  SessionsInv'
<1>1. /\ loaded' = [loaded EXCEPT ![w] = None] /\ loaded[w] \in Loaded
      /\ loaded \in [Workers -> Loaded \cup {None}]
  BY DEF Update, SessionsInv, TypeOK
<1>2. loaded[w].id \in Users
  BY <1>1 DEF Loaded
<1>3. torn' \in SUBSET Users /\ torn \subseteq torn'
  BY <1>2 DEF Update, SessionsInv, TypeOK
<1>4. Queues(w, W)
  BY <1>3 DEF Update, Queues, dirVars
<1>5. ASSUME mode.serial
      PROVE  /\ torn' = {} /\ loaded'[w] = None
             /\ \A v \in Workers \ {w} : Free(v) /\ loaded'[v] = None
  <2>1. torn' = {}
    BY <1>5 DEF Update, SessionsInv, SerialSessions
  <2>2. \A v \in Workers \ {w} : Free(v)
    BY <1>5 DEF SessionsInv, SerialSessions, Free
  <2>. QED  BY <1>1, <2>1, <2>2 DEF Free
<1>. QED  BY <1>1, <1>3, <1>4, <1>5, QueueKeeps

(* A commit keeps the whole invariant.                                     *)
LEMMA CommitKeeps ==
  ASSUME SessionsInv, NEW w \in Workers, CommitSession(w)
  PROVE  SessionsInv'
<1>1. /\ pending' = [pending EXCEPT ![w] = None] /\ Commit(pending[w])
      /\ ~Idle(w) /\ UNCHANGED <<mode, loaded, torn>>
  BY DEF CommitSession
<1>2. pending' = [v \in Workers |-> pending'[v]]
  BY <1>1 DEF SessionsInv
<1>3. pending'[w] = None /\ \A v \in Workers : v # w => pending'[v] = pending[v]
  BY <1>1 DEF SessionsInv
<1>4. TypeOK'
  <2>1. WritesOK(pending[w])
    BY <1>1 DEF SessionsInv, TypeOK
  <2>2. DirTypeOK'
    BY <1>1, <2>1, CommitKeepsTypes DEF SessionsInv, TypeOK
  <2>3. ASSUME NEW v \in Workers, pending'[v] # None
        PROVE  Typed(pending'[v])
    BY <1>3, <2>3 DEF SessionsInv, TypeOK, Idle, Typed, Columns
  <2>. QED  BY <1>1, <2>2, <2>3 DEF SessionsInv, TypeOK, Idle, Typed, Columns
<1>5. ProfilesInStep' /\ SessionsAligned'
  BY CommitKeepsAligned DEF SessionsInv, TypeOK
<1>6. SerialSessions'
  BY CommitKeepsSerial DEF SessionsInv
<1>7. LoadsPresent'
  <2>1. ASSUME NEW u \in Users
        PROVE  /\ user[u].present => user'[u].present
               /\ employee[u].present => employee'[u].present
    <3>1. InsertsNew(pending[w], u) /\ DirTypeOK
      BY <1>1 DEF SessionsInv, SessionsAligned, Aligned, TypeOK
    <3>. QED  BY <1>1, <3>1, CommittedAccount DEF InsertsNew
  <2>2. \A v \in Workers : loaded[v] # None => loaded[v].id \in Users
    BY DEF SessionsInv, TypeOK, Loaded
  <2>3. \A v \in Workers : loaded[v] # None => Idle(v)'
    BY <1>1, <1>3 DEF SessionsInv, LoadsPresent, Idle
  <2>. QED  BY <1>1, <2>1, <2>2, <2>3 DEF SessionsInv, LoadsPresent
<1>. QED  BY <1>2, <1>4, <1>5, <1>6, <1>7 DEF SessionsInv

(* The users services keep it.                                             *)
LEMMA UsersKeep ==
  ASSUME SessionsInv, NEW w \in Workers, UsersStep(w)
  PROVE  SessionsInv'
<1>1. DirTypeOK /\ ProfilesInStep /\ SerialSessions
  BY DEF SessionsInv, TypeOK
<1>2. CASE CreateUser(w)
  <2>1. PICK admin \in Users, u \in Users, a \in BOOLEAN, s \in BOOLEAN :
          /\ CreateUserAllowed(admin, u) /\ NotBeingInserted("user", u)
          /\ Begin(w, CreateUserWrites(u, a, s))
    BY <1>2 DEF CreateUser
  <2>2. AlignedInserting(CreateUserWrites(u, a, s), {u}, torn)
    BY <1>1, <2>1, CreateUserAligned DEF CreateUserAllowed
  <2>3. mode.serial => PlacedAfter(CreateUserWrites(u, a, s))
    BY <1>1, OthersElsewhere, ElsewhereIsPlaced DEF SerialSessions
  <2>4. Fits(CreateUserWrites(u, a, s), {u}, torn)
    BY <1>1, <2>1, <2>2, <2>3, CreateUserTyped, CreateUserKeepsAdmin DEF Fits
  <2>. QED  BY <2>1, <2>4, BeginKeeps
<1>3. CASE LoadUser(w)
  <2>1. PICK admin \in Users, u \in Users :
          /\ UserLoads(admin, u)
          /\ Load(w, [service |-> "users", admin |-> admin, id |-> u, row |-> user[u]])
    BY <1>3 DEF LoadUser
  <2> DEFINE x == [service |-> "users", admin |-> admin, id |-> u, row |-> user[u]]
  <2>2. x \in Loaded
    BY <1>1 DEF DirTypeOK, Loaded
  <2>3. LoadedAsIs(x)
    BY <2>1 DEF LoadedAsIs
  <2>. QED  BY <2>1, <2>2, <2>3, LoadKeeps
<1>4. CASE UpdateUser(w)
  <2> DEFINE x == loaded[w]
             u == x.id
  <2>1. PICK ch \in UserPayloads :
          /\ UpdateUserAllowed(x.admin, u, ch)
          /\ Update(w, employee[u], UpdateUserWrites(u, x.row, ch))
    BY <1>4 DEF UpdateUser
  <2>2. x # None /\ x.service = "users" /\ x \in Loaded
    BY <1>4 DEF UpdateUser, Updating, SessionsInv, TypeOK
  <2>3. u \in Users /\ x.admin \in Users /\ x.row \in UserRow
    BY <2>2 DEF Loaded
  <2>4. Idle(w) /\ user[u].present
    BY <2>2 DEF SessionsInv, LoadsPresent
  <2>5. mode.serial => x.row = user[u] /\ UserLoads(x.admin, u) /\ torn = {}
    BY <2>2 DEF SessionsInv, SerialSessions, LoadedAsIs
  <2>6. u \notin torn' /\ employee[u].present => employee[u].active = x.row.active
    BY <2>1 DEF Update
  <2>. HIDE DEF u, x
  <2>7. AlignedInserting(UpdateUserWrites(u, x.row, ch), {}, torn')
    BY <2>3, <2>4, <2>6, UpdateUserAligned
  <2>8. mode.serial => PlacedAfter(UpdateUserWrites(u, x.row, ch))
    BY <1>1, OthersElsewhere, ElsewhereIsPlaced DEF SerialSessions
  <2>9. mode.serial => AdminAfter(UpdateUserWrites(u, x.row, ch))
    BY <1>1, <2>1, <2>3, <2>5, UpdateUserKeepsAdmin
  <2>10. Fits(UpdateUserWrites(u, x.row, ch), {}, torn')
    BY <2>3, <2>7, <2>8, <2>9, UpdateUserTyped DEF Fits
  <2>11. mode.serial /\ employee[u].present => employee[u].active = x.row.active
    BY <1>1, <2>3, <2>5 DEF ProfilesInStep
  <2>. QED  BY <2>1, <2>2, <2>4, <2>10, <2>11, UpdateKeeps DEF x
<1>. QED  BY <1>2, <1>3, <1>4 DEF UsersStep

(* The employees services keep it.                                         *)
LEMMA EmployeesKeep ==
  ASSUME SessionsInv, NEW w \in Workers, "employees" \in mode.ops, EmployeesStep(w)
  PROVE  SessionsInv'
<1>1. DirTypeOK /\ ProfilesInStep /\ SerialSessions
  BY DEF SessionsInv, TypeOK
<1>2. CASE CreateEmployee(w)
  <2>1. PICK u \in Users, d \in Maybe(Departments), t \in Maybe(Teams), jt \in Titles :
          /\ CreateEmployeeAllowed(u, d, t, jt) /\ NotBeingInserted("user", u)
          /\ Begin(w, CreateEmployeeWrites(u, d, t, jt))
    BY <1>2 DEF CreateEmployee
  <2>2. AlignedInserting(CreateEmployeeWrites(u, d, t, jt), {u}, torn)
    BY <1>1, <2>1, CreateEmployeeAligned DEF CreateEmployeeAllowed
  <2>3. mode.serial => PlacedAfter(CreateEmployeeWrites(u, d, t, jt))
    BY <1>1, OthersElsewhere, ElsewhereIsPlaced DEF SerialSessions
  <2>4. Fits(CreateEmployeeWrites(u, d, t, jt), {u}, torn)
    BY <1>1, <2>1, <2>2, <2>3, CreateEmployeeTyped DEF Fits
  <2>. QED  BY <2>1, <2>4, BeginKeeps
<1>3. CASE LoadEmployee(w)
  <2>1. PICK u \in Users :
          /\ employee[u].present
          /\ Load(w, [service |-> "employees", id |-> u, row |-> employee[u]])
    BY <1>3 DEF LoadEmployee
  <2> DEFINE x == [service |-> "employees", id |-> u, row |-> employee[u]]
  <2>2. x \in Loaded
    BY <1>1 DEF DirTypeOK, Loaded
  <2>3. LoadedAsIs(x)
    BY <2>1 DEF LoadedAsIs
  <2>. QED  BY <2>1, <2>2, <2>3, LoadKeeps
<1>4. CASE UpdateEmployee(w)
  <2> DEFINE x == loaded[w]
             u == x.id
  <2>1. PICK ch \in EmployeePayloads :
          Update(w, user[u], UpdateEmployeeWrites(u, x.row, ch))
    BY <1>4 DEF UpdateEmployee
  <2>2. x # None /\ x.service = "employees" /\ x \in Loaded
    BY <1>4 DEF UpdateEmployee, Updating, SessionsInv, TypeOK
  <2>3. u \in Users /\ x.row \in EmployeeRow
    BY <2>2 DEF Loaded
  <2>4. Idle(w) /\ employee[u].present
    BY <2>2 DEF SessionsInv, LoadsPresent
  <2>5. mode.serial => x.row = employee[u] /\ torn = {}
    BY <2>2 DEF SessionsInv, SerialSessions, LoadedAsIs
  <2>6. user[u].present
    BY <1>1, <2>3, <2>4 DEF ProfilesInStep
  <2>7. u \notin torn' => x.row.active = user[u].active
    BY <2>1, <2>6 DEF Update
  <2>. HIDE DEF u, x
  <2>8. AlignedInserting(UpdateEmployeeWrites(u, x.row, ch), {}, torn')
    BY <2>3, <2>7, UpdateEmployeeAligned
  <2>9. mode.serial => PlacedAfter(UpdateEmployeeWrites(u, x.row, ch))
    BY <1>1, OthersElsewhere, ElsewhereIsPlaced DEF SerialSessions
  <2>10. Fits(UpdateEmployeeWrites(u, x.row, ch), {}, torn')
    BY <1>1, <2>3, <2>8, <2>9, UpdateEmployeeTyped DEF Fits
  <2>11. mode.serial => user[u].active = x.row.active
    BY <1>1, <2>3, <2>4, <2>5 DEF ProfilesInStep
  <2>. QED  BY <2>1, <2>2, <2>4, <2>10, <2>11, UpdateKeeps DEF x
<1>. QED  BY <1>2, <1>3, <1>4 DEF EmployeesStep

(* Writes to other tables fit a serial session.                            *)
LEMMA FitsForeign ==
  ASSUME SessionsInv, NEW W, Foreign(W), Typed(W), mode.serial => PlacedAfter(W)
  PROVE  Fits(W, {}, torn)
  BY ForeignAligned, ForeignKeepsAdmin DEF SessionsInv, TypeOK, SerialSessions, Fits

(* The department and team services keep it.                               *)
LEMMA OrganizationKeeps ==
  ASSUME SessionsInv, NEW w \in Workers, OrganizationStep(w)
  PROVE  SessionsInv'
<1>1. DirTypeOK /\ (mode.serial => TeamsPlaced(team, department))
  BY DEF SessionsInv, TypeOK, SerialSessions
<1>2. CASE CreateDepartment(w)
  <2>1. PICK d \in Departments, m \in Maybe(Users) : Begin(w, CreateDepartmentWrites(d, m))
    BY <1>2 DEF CreateDepartment
  <2>2. Fits(CreateDepartmentWrites(d, m), {}, torn)
    BY <1>1, DepartmentTyped, OrganizationForeign, DepartmentsPlaced, FitsForeign
  <2>. QED  BY <2>1, <2>2, BeginKeeps
<1>3. CASE UpdateDepartment(w)
  <2>1. PICK d \in Departments, m \in Maybe(Users) : Begin(w, UpdateDepartmentWrites(d, m))
    BY <1>3 DEF UpdateDepartment
  <2>2. Fits(UpdateDepartmentWrites(d, m), {}, torn)
    BY <1>1, DepartmentTyped, OrganizationForeign, DepartmentsPlaced, FitsForeign
  <2>. QED  BY <2>1, <2>2, BeginKeeps
<1>4. CASE DeactivateDepartment(w)
  <2>1. PICK d \in Departments :
          DeactivateDepartmentAllowed(d) /\ Begin(w, DeactivateDepartmentWrites(d))
    BY <1>4 DEF DeactivateDepartment
  <2>2. None \in Maybe(Users)
    BY DEF Maybe
  <2>3. Fits(DeactivateDepartmentWrites(d), {}, torn)
    BY <1>1, <2>1, <2>2, DepartmentTyped, OrganizationForeign, DepartmentsPlaced, FitsForeign
  <2>. QED  BY <2>1, <2>3, BeginKeeps
<1>5. CASE CreateTeam(w)
  <2>1. PICK t \in Teams, d \in Departments, l \in Maybe(Users) :
          CreateTeamAllowed(t, d, l) /\ Begin(w, CreateTeamWrites(t, d, l))
    BY <1>5 DEF CreateTeam
  <2>2. Fits(CreateTeamWrites(t, d, l), {}, torn)
    BY <1>1, <2>1, CreateTeamTyped, OrganizationForeign, CreatedTeamPlaced, FitsForeign
  <2>. QED  BY <2>1, <2>2, BeginKeeps
<1>6. CASE UpdateTeam(w)
  <2>1. PICK t \in Teams, ch \in TeamPayloads :
          UpdateTeamAllowed(t, ch) /\ Begin(w, UpdateTeamWrites(t, ch))
    BY <1>6 DEF UpdateTeam
  <2>2. Fits(UpdateTeamWrites(t, ch), {}, torn)
    BY <1>1, <2>1, UpdateTeamTyped, OrganizationForeign, UpdatedTeamPlaced, FitsForeign
  <2>. QED  BY <2>1, <2>2, BeginKeeps
<1>7. CASE DeactivateTeam(w)
  <2>1. PICK t \in Teams : Begin(w, DeactivateTeamWrites(t))
    BY <1>7 DEF DeactivateTeam
  <2>2. Fits(DeactivateTeamWrites(t), {}, torn)
    BY <1>1, DeactivateTeamTyped, OrganizationForeign, DeactivatedTeamPlaced, FitsForeign
  <2>. QED  BY <2>1, <2>2, BeginKeeps
<1>. QED  BY <1>2, <1>3, <1>4, <1>5, <1>6, <1>7 DEF OrganizationStep

(* The job title services keep it.                                         *)
LEMMA TitlesKeep ==
  ASSUME SessionsInv, NEW w \in Workers, CreateTitle(w) \/ TitleUpdatesStep(w)
  PROVE  SessionsInv'
<1>1. DirTypeOK /\ (mode.serial => TeamsPlaced(team, department))
  BY DEF SessionsInv, TypeOK, SerialSessions
<1>2. ASSUME NEW W, Typed(W), Foreign(W), Elsewhere(W), Begin(w, W)  PROVE SessionsInv'
  BY <1>1, <1>2, ElsewhereIsPlaced, FitsForeign, BeginKeeps
<1>3. CASE CreateTitle(w)
  <2>1. PICK jt \in Titles, level \in Levels : Begin(w, CreateTitleWrites(jt, level))
    BY <1>3 DEF CreateTitle
  <2>. QED  BY <1>2, <2>1, TitleTyped, OrganizationForeign, OthersElsewhere
<1>4. CASE UpdateTitle(w)
  <2>1. PICK jt \in Titles, level \in Levels : Begin(w, UpdateTitleWrites(jt, level))
    BY <1>4 DEF UpdateTitle
  <2>. QED  BY <1>2, <2>1, TitleTyped, OrganizationForeign, OthersElsewhere
<1>5. CASE DeactivateTitle(w)
  <2>1. PICK jt \in Titles : Begin(w, DeactivateTitleWrites(jt))
    BY <1>5 DEF DeactivateTitle
  <2>. QED  BY <1>2, <2>1, DeactivateTitleTyped, OrganizationForeign, OthersElsewhere
<1>. QED  BY <1>3, <1>4, <1>5 DEF TitleUpdatesStep

(* The installed system has the invariant.                                 *)
LEMMA InitSessions == Init => SessionsInv
<1> SUFFICES ASSUME Init  PROVE SessionsInv
  OBVIOUS
<1>1. PICK root \in Users :
        /\ user = [u \in Users |-> [present |-> u = root, active |-> u = root, admin |-> u = root]]
        /\ employee = [u \in Users |-> [present |-> FALSE, active |-> FALSE, title |-> None,
                                        team |-> None, dept |-> None]]
        /\ title = [jt \in Titles |-> [present |-> FALSE, active |-> FALSE, level |-> 0]]
        /\ team = [t \in Teams |-> [present |-> FALSE, active |-> FALSE, dept |-> None,
                                    leader |-> None]]
        /\ department = [d \in Departments |-> [present |-> FALSE, active |-> FALSE,
                                                manager |-> None]]
        /\ mode \in Modes
        /\ pending = [w \in Workers |-> None]
        /\ loaded = [w \in Workers |-> None]
        /\ torn = {}
  BY DEF Init
<1>2. DirTypeOK
  BY <1>1 DEF DirTypeOK, UserRow, EmployeeRow, TitleRow, TeamRow, DepartmentRow, Maybe
<1>3. \A w \in Workers : Idle(w) /\ loaded[w] = None /\ Free(w)
  BY <1>1 DEF Idle, Free
<1>4. TypeOK /\ pending = [w \in Workers |-> pending[w]] /\ LoadsPresent
  BY <1>1, <1>2, <1>3 DEF TypeOK, LoadsPresent
<1>5. ProfilesInStep /\ SessionsAligned
  BY <1>1, <1>3 DEF ProfilesInStep, SessionsAligned
<1>6. SerialSessions
  BY <1>1, <1>3 DEF SerialSessions, TeamsPlaced, AdminAmong
<1>. QED  BY <1>4, <1>5, <1>6 DEF SessionsInv

(* Every step keeps it.                                                    *)
LEMMA NextSessions == SessionsInv /\ [Next]_vars => SessionsInv'
<1> SUFFICES ASSUME SessionsInv, [Next]_vars  PROVE SessionsInv'
  OBVIOUS
<1>1. CASE UNCHANGED vars
  <2>1. UNCHANGED <<user, employee, title, team, department, mode, pending, loaded, torn>>
    BY <1>1 DEF vars, dirVars
  <2>2. TypeOK'
    BY <2>1 DEF SessionsInv, TypeOK, DirTypeOK, Idle, Loaded
  <2>3. ProfilesInStep' /\ (pending = [w \in Workers |-> pending[w]])' /\ LoadsPresent'
    BY <2>1 DEF SessionsInv, ProfilesInStep, LoadsPresent, Idle
  <2>4. SessionsAligned'
    BY <2>1 DEF SessionsInv, SessionsAligned, Aligned, Together, InsertsNew, Idle
  <2>5. SerialSessions'
    BY <2>1 DEF SessionsInv, SerialSessions, Idle, Free, LoadedAsIs, UserLoads, ActiveAdmin,
                ActiveUser
  <2>. QED  BY <2>2, <2>3, <2>4, <2>5 DEF SessionsInv
<1>2. CASE Next
  <2>1. PICK w \in Workers :
          \/ "users" \in mode.ops /\ UsersStep(w)
          \/ "employees" \in mode.ops /\ EmployeesStep(w)
          \/ "organization" \in mode.ops /\ OrganizationStep(w)
          \/ "titles" \in mode.ops /\ CreateTitle(w)
          \/ "title_updates" \in mode.ops /\ TitleUpdatesStep(w)
          \/ Refuse(w)
          \/ CommitSession(w)
    BY <1>2 DEF Next
  <2>. QED  BY <2>1, RefuseKeeps, UsersKeep, EmployeesKeep, OrganizationKeeps, TitlesKeep, CommitKeeps
<1>. QED  BY <1>1, <1>2

-----------------------------------------------------------------------------
(* What the directory promises                                             *)

(* It holds in every state.                                                *)
LEMMA AlwaysSessions == Spec => []SessionsInv
<1>. QED  BY InitSessions, NextSessions, PTL DEF Spec

(* Every row and every pending write has the type of its column, what the  *)
(* sessions are about to commit fits the accounts it will meet however     *)
(* they interleave (the activity of torn accounts excepted) and, without   *)
(* overlap, deactivate_department, create_team and update_team keep active *)
(* teams in active departments.                                            *)
THEOREM DirectoryInvariant == Spec => []DirectoryInv
<1>1. SessionsInv => DirectoryInv
  BY DEF SessionsInv, DirectoryInv, SerialTeamsInActiveDepartments, ActiveTeamInActiveDepartment,
         SerialSessions, TeamsPlaced, ActiveTeam, ActiveDepartment
<1>. QED  BY <1>1, AlwaysSessions, PTL

(* The account and the profile linked to it are active together, always    *)
(* while requests do not overlap, and with any number of overlapping ones  *)
(* until update_user or update_employee has loaded the two rows of one     *)
(* account before and after a commit that changed their activity.          *)
THEOREM AccountsAndProfilesInStep == Spec => []ActivitySynced
<1>1. SessionsInv => ActivitySynced
  BY DEF SessionsInv, ProfilesInStep, SerialSessions, ActivitySynced
<1>. QED  BY <1>1, AlwaysSessions, PTL

(* An administrator can neither deactivate nor demote the account in use,  *)
(* so without overlap, and without the employees service, some active      *)
(* super admin remains.                                                    *)
THEOREM SomeAdminRemains == Spec => []SomeActiveAdmin
<1>1. SessionsInv => SomeActiveAdmin
  BY DEF SessionsInv, SerialSessions, AdminAmong, SomeActiveAdmin, ActiveAdmin, ActiveUser
<1>. QED  BY <1>1, AlwaysSessions, PTL

=============================================================================
