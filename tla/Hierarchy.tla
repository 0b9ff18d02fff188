----------------------------- MODULE Hierarchy -----------------------------
(***************************************************************************)
(* The organigram views of the organization service, over the directories  *)
(* of ApproverCases: the company forest, and what a department manager or  *)
(* a team leader (here the requester of the case) is shown.                *)
(*                                                                         *)
(* Names only order siblings; people are taken in the order of accounts.   *)
(***************************************************************************)
EXTENDS ApproverCases, FiniteSets

ASSUME UsersAreFinite == IsFiniteSet(Users)   \* a table

(* _load_active_hierarchy_snapshot: people, with the active team, active   *)
(* department (else the team's) and active job title they have.            *)
People == {u \in Users : ActiveUser(u) /\ ActiveEmployee(u)}

ShownTeam(u) ==
  LET t == employee[u].team IN IF t # None /\ ActiveTeam(t) THEN t ELSE None

ActiveDeptOrNone(d) == IF d # None /\ ActiveDepartment(d) THEN d ELSE None

ShownDept(u) ==
  LET own == ActiveDeptOrNone(employee[u].dept) IN
  IF own # None \/ ShownTeam(u) = None THEN own ELSE ActiveDeptOrNone(team[ShownTeam(u)].dept)

ShownLevel(u) == IF ActiveTitle(employee[u].title) THEN LevelOf(u) ELSE 0

LedTeams(u) == {t \in Teams : ActiveTeam(t) /\ team[t].leader = u}
ManagedDepts(u) == {d \in Departments : ActiveDepartment(d) /\ department[d].manager = u}

-----------------------------------------------------------------------------
(* The company forest: _build_company_roots                                *)

Roots == {u \in People : \A v \in People : ShownLevel(v) <= ShownLevel(u)}

(* Mutant: only the next level may have parents.                           *)
ParentLevelIfNext(u) ==
  {v \in People : ShownLevel(v) = ShownLevel(u) + 1}

(* The people of the nearest level above somebody.                         *)
ParentLevel(u) ==
  {v \in People : /\ ShownLevel(v) > ShownLevel(u)
                  /\ \A x \in People : ShownLevel(x) > ShownLevel(u) => ShownLevel(x) >= ShownLevel(v)}

Bit(b) == IF b THEN 1 ELSE 0

(* _company_parent_candidate_sort_key, most significant first.             *)
ParentRank(u, v) ==
  32 * Bit(ShownTeam(u) # None /\ team[ShownTeam(u)].leader = v)
    + 16 * Bit(ShownDept(u) # None /\ department[ShownDept(u)].manager = v)
    + 8 * Bit(ShownTeam(u) # None /\ ShownTeam(v) = ShownTeam(u))
    + 4 * Bit(ShownDept(u) # None /\ ShownDept(v) = ShownDept(u))
    + 2 * Bit(ManagedDepts(v) # {}) + Bit(LedTeams(v) # {})

(* _resolve_company_parent_user_id                                         *)
Parent(u) ==
  Lowest({v \in ParentLevel(u) :
            \A x \in ParentLevel(u) : ParentRank(u, x) <= ParentRank(u, v)})

(* _build_company_tree_node: whoever hangs under a root.                   *)
CompanyForest ==
  LET shown[n \in 0..Cardinality(Users)] ==
        IF n = 0 THEN Roots ELSE shown[n - 1] \cup {u \in People : Parent(u) \in shown[n - 1]}
  IN  shown[Cardinality(Users)]

-----------------------------------------------------------------------------
(* A department manager's view: _build_department_manager_children; a     *)
(* leader who also hangs directly under the manager appears twice there.   *)

MembersOf(t) == {u \in People : ShownTeam(u) = t}

(* A team is shown under its leader if that is an active person other than *)
(* the manager.                                                            *)
LeaderShown(t, u) == team[t].leader \in People /\ team[t].leader # u

DepartmentTeams(u) == {t \in Teams : ActiveTeam(t) /\ team[t].dept \in ManagedDepts(u)}

LeaderNodes(u) == {team[t].leader : t \in {x \in DepartmentTeams(u) : LeaderShown(x, u)}}
TeamNodes(u) ==
  UNION {MembersOf(t) \ {u, team[t].leader} : t \in {x \in DepartmentTeams(u) : LeaderShown(x, u)}}

DirectNodes(u) ==
  {v \in People \ {u} : /\ ShownDept(v) \in ManagedDepts(u)
                        /\ \/ ShownTeam(v) = None
                           \/ /\ ShownTeam(v) \in DepartmentTeams(u)
                              /\ ~LeaderShown(ShownTeam(v), u)}

(* get_current_user_hierarchy, for somebody who is neither super admin nor *)
(* RH manager.                                                             *)
Underneath(u) ==
  IF ManagedDepts(u) # {} THEN LeaderNodes(u) \cup TeamNodes(u) \cup DirectNodes(u)
  ELSE UNION {MembersOf(t) \ {u} : t \in LedTeams(u)}

-----------------------------------------------------------------------------
(* The views do not depend on the step of the case: one will do.           *)
OncePerCase == resolver = "RH_MANAGER" /\ required

(* The company organigram shows every active person, whatever levels are   *)
(* vacant and whichever titles, teams and departments are inactive, and    *)
(* nobody hangs under somebody of the own level or past a nearer one       *)
(* (_resolve_company_parent_user_id).                                      *)
EverybodyHasAPlace ==
  OncePerCase =>
    /\ CompanyForest = People
    /\ \A u \in People \ Roots :
         /\ ShownLevel(Parent(u)) > ShownLevel(u)
         /\ \A v \in People :
              ~(ShownLevel(u) < ShownLevel(v) /\ ShownLevel(v) < ShownLevel(Parent(u)))

(* A department manager is shown the active people of the department,      *)
(* whoever leads their teams, active or not, the manager included, unless  *)
(* their team belongs to another department                                *)
(* (_build_department_manager_children).                                   *)
ManagerSeesDepartment ==
  OncePerCase => \A u \in People \ {requester} :
    /\ ShownDept(u) \in ManagedDepts(requester)
    /\ ShownTeam(u) # None => team[ShownTeam(u)].dept = ShownDept(u)
    => u \in Underneath(requester)

(* The two views of the hierarchy leave nobody out: the whole company's,   *)
(* and a manager's of the own department.                                  *)
HierarchyIsWhole ==
  /\ EverybodyHasAPlace
  /\ ManagerSeesDepartment

=============================================================================
