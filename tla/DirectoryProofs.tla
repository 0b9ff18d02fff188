--------------------------- MODULE DirectoryProofs ---------------------------
(***************************************************************************)
(* The directory.  Commits keep it well typed: if every column write       *)
(* carries a value of its column, so do the rows after the commit, row by  *)
(* row for each table, then for the commit as a whole; and the writes of   *)
(* its operations are such writes.  In every well-typed directory, the     *)
(* candidate of an approver step is an account, and whoever is assigned is *)
(* another, active employee above the requester.                           *)
(***************************************************************************)
EXTENDS ApproverResolution, WellFoundedInduction, TLAPS

(* A patched column holds what it held, or the value of a write to it.     *)
LEMMA PatchedColumn ==
  ASSUME NEW rows, NEW table, NEW W, NEW i \in DOMAIN rows, NEW c \in DOMAIN rows[i]
  PROVE  \/ Patched(rows, table, W)[i][c] = rows[i][c]
         \/ \E w \in W : w.table = table /\ w.col = c /\ Patched(rows, table, W)[i][c] = w.val
<1>1. CASE WritesTo(W, table, i, c) = {}
  BY <1>1 DEF Patched
<1>2. CASE WritesTo(W, table, i, c) # {}
  <2> DEFINE w == CHOOSE w \in WritesTo(W, table, i, c) : TRUE
  <2>1. w \in WritesTo(W, table, i, c)
    BY <1>2
  <2>2. Patched(rows, table, W)[i][c] = w.val
    BY <1>2 DEF Patched
  <2>3. w \in W /\ w.table = table /\ w.col = c
    BY <2>1 DEF WritesTo
  <2>. HIDE DEF w
  <2>. QED  BY <2>2, <2>3
<1>. QED  BY <1>1, <1>2

(* Typed writes leave the accounts typed.                                  *)
LEMMA PatchedUser ==
  ASSUME NEW rows \in [Users -> UserRow], NEW W, WritesOK(W)
  PROVE  Patched(rows, "user", W) \in [Users -> UserRow]
<1> DEFINE P == Patched(rows, "user", W)
<1>1. DOMAIN rows = Users /\ P = [i \in Users |-> P[i]]
  BY DEF Patched
<1>2. ASSUME NEW i \in Users  PROVE P[i] \in UserRow
  <2>1. DOMAIN rows[i] = {"present", "active", "admin"} /\ rows[i] \in UserRow
    BY DEF UserRow
  <2>2. P[i] = [c \in {"present", "active", "admin"} |-> P[i][c]]
    BY <1>1, <2>1 DEF Patched
  <2>3. \A c \in {"present", "active", "admin"} :
          P[i][c] = rows[i][c] \/ \E w \in W : w.table = "user" /\ w.col = c /\ P[i][c] = w.val
    BY <1>1, <2>1, PatchedColumn
  <2>. HIDE DEF P
  <2>. QED  BY <2>1, <2>2, <2>3 DEF WritesOK, WriteOK, UserRow
<1>. HIDE DEF P
<1>3. P \in [Users -> UserRow]
  BY <1>1, <1>2
<1>. QED  BY <1>3 DEF P

(* Typed writes leave the profiles typed.                                  *)
LEMMA PatchedEmployee ==
  ASSUME NEW rows \in [Users -> EmployeeRow], NEW W, WritesOK(W)
  PROVE  Patched(rows, "employee", W) \in [Users -> EmployeeRow]
<1> DEFINE P == Patched(rows, "employee", W)
<1>1. DOMAIN rows = Users /\ P = [i \in Users |-> P[i]]
  BY DEF Patched
<1>2. ASSUME NEW i \in Users  PROVE P[i] \in EmployeeRow
  <2>1. DOMAIN rows[i] = {"present", "active", "title", "team", "dept"} /\ rows[i] \in EmployeeRow
    BY DEF EmployeeRow
  <2>2. P[i] = [c \in {"present", "active", "title", "team", "dept"} |-> P[i][c]]
    BY <1>1, <2>1 DEF Patched
  <2>3. \A c \in {"present", "active", "title", "team", "dept"} :
          P[i][c] = rows[i][c] \/ \E w \in W : w.table = "employee" /\ w.col = c /\ P[i][c] = w.val
    BY <1>1, <2>1, PatchedColumn
  <2>. HIDE DEF P
  <2>. QED  BY <2>1, <2>2, <2>3 DEF WritesOK, WriteOK, EmployeeRow
<1>. HIDE DEF P
<1>3. P \in [Users -> EmployeeRow]
  BY <1>1, <1>2
<1>. QED  BY <1>3 DEF P

(* Typed writes leave the job titles typed.                                *)
LEMMA PatchedTitle ==
  ASSUME NEW rows \in [Titles -> TitleRow], NEW W, WritesOK(W)
  PROVE  Patched(rows, "title", W) \in [Titles -> TitleRow]
<1> DEFINE P == Patched(rows, "title", W)
<1>1. DOMAIN rows = Titles /\ P = [i \in Titles |-> P[i]]
  BY DEF Patched
<1>2. ASSUME NEW i \in Titles  PROVE P[i] \in TitleRow
  <2>1. DOMAIN rows[i] = {"present", "active", "level"} /\ rows[i] \in TitleRow
    BY DEF TitleRow
  <2>2. P[i] = [c \in {"present", "active", "level"} |-> P[i][c]]
    BY <1>1, <2>1 DEF Patched
  <2>3. \A c \in {"present", "active", "level"} :
          P[i][c] = rows[i][c] \/ \E w \in W : w.table = "title" /\ w.col = c /\ P[i][c] = w.val
    BY <1>1, <2>1, PatchedColumn
  <2>. HIDE DEF P
  <2>. QED  BY <2>1, <2>2, <2>3 DEF WritesOK, WriteOK, TitleRow
<1>. HIDE DEF P
<1>3. P \in [Titles -> TitleRow]
  BY <1>1, <1>2
<1>. QED  BY <1>3 DEF P

(* Typed writes leave the teams typed.                                     *)
LEMMA PatchedTeam ==
  ASSUME NEW rows \in [Teams -> TeamRow], NEW W, WritesOK(W)
  PROVE  Patched(rows, "team", W) \in [Teams -> TeamRow]
<1> DEFINE P == Patched(rows, "team", W)
<1>1. DOMAIN rows = Teams /\ P = [i \in Teams |-> P[i]]
  BY DEF Patched
<1>2. ASSUME NEW i \in Teams  PROVE P[i] \in TeamRow
  <2>1. DOMAIN rows[i] = {"present", "active", "dept", "leader"} /\ rows[i] \in TeamRow
    BY DEF TeamRow
  <2>2. P[i] = [c \in {"present", "active", "dept", "leader"} |-> P[i][c]]
    BY <1>1, <2>1 DEF Patched
  <2>3. \A c \in {"present", "active", "dept", "leader"} :
          P[i][c] = rows[i][c] \/ \E w \in W : w.table = "team" /\ w.col = c /\ P[i][c] = w.val
    BY <1>1, <2>1, PatchedColumn
  <2>. HIDE DEF P
  <2>. QED  BY <2>1, <2>2, <2>3 DEF WritesOK, WriteOK, TeamRow
<1>. HIDE DEF P
<1>3. P \in [Teams -> TeamRow]
  BY <1>1, <1>2
<1>. QED  BY <1>3 DEF P

(* Typed writes leave the departments typed.                               *)
LEMMA PatchedDepartment ==
  ASSUME NEW rows \in [Departments -> DepartmentRow], NEW W, WritesOK(W)
  PROVE  Patched(rows, "department", W) \in [Departments -> DepartmentRow]
<1> DEFINE P == Patched(rows, "department", W)
<1>1. DOMAIN rows = Departments /\ P = [i \in Departments |-> P[i]]
  BY DEF Patched
<1>2. ASSUME NEW i \in Departments  PROVE P[i] \in DepartmentRow
  <2>1. DOMAIN rows[i] = {"present", "active", "manager"} /\ rows[i] \in DepartmentRow
    BY DEF DepartmentRow
  <2>2. P[i] = [c \in {"present", "active", "manager"} |-> P[i][c]]
    BY <1>1, <2>1 DEF Patched
  <2>3. \A c \in {"present", "active", "manager"} :
          P[i][c] = rows[i][c] \/ \E w \in W : w.table = "department" /\ w.col = c /\ P[i][c] = w.val
    BY <1>1, <2>1, PatchedColumn
  <2>. HIDE DEF P
  <2>. QED  BY <2>1, <2>2, <2>3 DEF WritesOK, WriteOK, DepartmentRow
<1>. HIDE DEF P
<1>3. P \in [Departments -> DepartmentRow]
  BY <1>1, <1>2
<1>. QED  BY <1>3 DEF P

(* A commit of well-typed writes keeps the directory well typed.           *)
LEMMA CommitKeepsTypes ==
  ASSUME DirTypeOK, NEW STATE W, WritesOK(W), Commit(W)
  PROVE  DirTypeOK'
  BY PatchedUser, PatchedEmployee, PatchedTitle, PatchedTeam, PatchedDepartment
  DEF DirTypeOK, Commit

-----------------------------------------------------------------------------
(* The writes of the directory operations that change who can approve.     *)

(* A change writes typed columns when its values are typed.                *)
LEMMA ChangedOK ==
  ASSUME NEW table, NEW r, NEW id, NEW ch,
         \A c \in DOMAIN ch : WriteOK([table |-> table, id |-> id, col |-> c, val |-> ch[c]])
  PROVE  WritesOK(Changed(table, r, id, ch))
  BY DEF WritesOK, Changed

(* update_user: typed payloads give typed writes to both tables.           *)
LEMMA UpdateUserOK ==
  ASSUME NEW u \in Users, NEW account \in UserRow, NEW ch,
         "active" \in DOMAIN ch => ch["active"] \in BOOLEAN,
         "admin" \in DOMAIN ch => ch["admin"] \in BOOLEAN,
         "team" \in DOMAIN ch => ch["team"] \in Maybe(Teams),
         "dept" \in DOMAIN ch => ch["dept"] \in Maybe(Departments),
         "title" \in DOMAIN ch => ch["title"] \in Maybe(Titles)
  PROVE  WritesOK(UpdateUserWrites(u, account, ch))
<1> DEFINE active == IF "active" \in DOMAIN ch THEN ch.active ELSE account.active
<1>1. active \in BOOLEAN
  BY DEF UserRow
<1>2. WritesOK(Changed("user", account, u, Restricted(ch, {"active", "admin"})))
  BY ChangedOK DEF Restricted, WriteOK
<1>3. WritesOK(Changed("employee", employee[u], u, [active |-> active]))
  <2>. HIDE DEF active
  <2>1. DOMAIN [active |-> active] = {"active"}
    OBVIOUS
  <2>. QED  BY <1>1, <2>1, ChangedOK DEF WriteOK
<1>4. WritesOK(Changed("employee", employee[u], u, Restricted(ch, OrgColumns)))
  BY ChangedOK DEF Restricted, OrgColumns, WriteOK
<1>. QED  BY <1>2, <1>3, <1>4 DEF UpdateUserWrites, WritesOK

(* A team's update writes typed columns.                                   *)
LEMMA UpdateTeamOK ==
  ASSUME NEW t \in Teams, NEW l \in Maybe(Users)
  PROVE  WritesOK(UpdateTeamWrites(t, [leader |-> l]))
<1> DEFINE ch == [leader |-> l]
<1>1. DOMAIN ch = {"leader"} /\ ch["leader"] \in Maybe(Users)
  OBVIOUS
<1>. HIDE DEF ch
<1>2. WritesOK(Changed("team", team[t], t, ch))
  BY <1>1, ChangedOK DEF WriteOK
<1>. QED  BY <1>2 DEF ch, UpdateTeamWrites

(* So does the deactivation of a job title.                                *)
LEMMA DeactivateTitleOK ==
  ASSUME NEW jt \in Titles  PROVE WritesOK(DeactivateTitleWrites(jt))
<1> DEFINE ch == [active |-> FALSE]
<1>1. DOMAIN ch = {"active"} /\ ch["active"] \in BOOLEAN
  OBVIOUS
<1>. HIDE DEF ch
<1>2. WritesOK(Changed("title", title[jt], jt, ch))
  BY <1>1, ChangedOK DEF WriteOK
<1>. QED  BY <1>2 DEF ch, DeactivateTitleWrites

-----------------------------------------------------------------------------
(* Approver resolution                                                     *)

(* A nonempty set of natural numbers has a least element.                  *)
LEMMA LeastNat ==
  ASSUME NEW S, S \subseteq Nat, S # {}
  PROVE  \E x \in S : \A y \in S : x <= y
<1> DEFINE R == OpToRel(<, Nat)
<1>1. PICK x \in S : \A y \in S : ~(<<y, x>> \in R)
  <2>. HIDE DEF R
  <2>1. IsWellFoundedOn(R, Nat)
    BY NatLessThanWellFounded DEF R
  <2>. QED  BY <2>1, WFMin
<1>2. \A y \in S : ~(y < x)
  BY <1>1 DEF OpToRel
<1>. QED  BY <1>2

(* The first person by id is one of the set.                               *)
LEMMA LowestInSet ==
  ASSUME NEW S, S \subseteq Users
  PROVE  IF S = {} THEN Lowest(S) = None ELSE Lowest(S) \in S
  BY LeastNat, UsersAreIds DEF Lowest

(* Whoever holds a job title is somebody.                                  *)
LEMMA HoldersAreUsers == ASSUME NEW jt  PROVE Holders(jt) \subseteq Users
  BY DEF Holders

(* The candidate is an account or nobody; a title's and the RH candidate   *)
(* are holders, a leader or manager is an active account.                  *)
LEMMA CandidateType ==
  ASSUME DirTypeOK, NEW r \in Users, NEW x \in Resolvers
  PROVE  /\ Candidate(r, x) \in Maybe(Users)
         /\ Candidate(r, x) # None => ActiveUser(Candidate(r, x))
<1> DEFINE Good(c) == c \in Maybe(Users) /\ (c # None => ActiveUser(c))
<1>1. \A jt, S : S \subseteq Holders(jt) => Good(Lowest(S))
  BY LowestInSet DEF Holders, Maybe
<1>2. \A u \in Maybe(Users) : Good(ActiveOrNone(u))
  BY DEF ActiveOrNone, Maybe
<1>3. \A jt : Good(TitleCandidate(r, jt))
  BY <1>1 DEF TitleCandidate
<1>4. Good(TeamLeader(r))
  <2>1. ASSUME NEW t \in Teams  PROVE team[t].leader \in Maybe(Users)
    BY DEF DirTypeOK, TeamRow
  <2>2. employee[r].team \in Maybe(Teams)
    BY DEF DirTypeOK, EmployeeRow
  <2>. QED  BY <1>2, <2>1, <2>2 DEF TeamLeader, Maybe
<1>5. Good(DepartmentManager(r))
  <2>1. ASSUME NEW d \in Departments  PROVE department[d].manager \in Maybe(Users)
    BY DEF DirTypeOK, DepartmentRow
  <2>2. employee[r].dept \in Maybe(Departments)
    BY DEF DirTypeOK, EmployeeRow
  <2>. QED  BY <1>2, <2>1, <2>2 DEF DepartmentManager, Maybe
<1>6. Good(RhManager)
  BY <1>1 DEF RhManager, Maybe
<1>. HIDE DEF Good
<1>7. Good(Candidate(r, x))
  BY <1>3, <1>4, <1>5, <1>6 DEF Candidate, Resolvers, RoleResolvers
<1>. QED  BY <1>7 DEF Good

(* The early returns of _evaluate_approver_step, read backwards from an    *)
(* assignment.                                                             *)
LEMMA AssignedIsSuperior ==
  ASSUME DirTypeOK, NEW r \in Users, NEW x \in Resolvers, NEW req \in BOOLEAN,
         Outcome(r, x, req) = "assign"
  PROVE  LET c == Candidate(r, x) IN
         /\ c \in Users /\ c # r
         /\ ActiveUser(c) /\ ActiveEmployee(c)
         /\ LevelOf(c) > LevelOf(r)
<1> DEFINE c == Candidate(r, x)
<1>1. /\ c # None /\ c # r /\ ActiveEmployee(c)
      /\ ActiveTitle(employee[r].title) /\ ActiveTitle(employee[c].title)
      /\ ~(LevelOf(c) <= LevelOf(r))
  BY DEF Outcome, Unresolved
<1>2. c \in Users /\ ActiveUser(c)
  BY <1>1, CandidateType DEF Maybe
<1>3. LevelOf(c) \in Nat /\ LevelOf(r) \in Nat
  BY <1>1 DEF ActiveTitle, LevelOf, DirTypeOK, TitleRow
<1>. QED  BY <1>1, <1>2, <1>3

=============================================================================
