---------------------------- MODULE ApproverCases ----------------------------
(***************************************************************************)
(* Every small directory, requester and step: the cases over which the     *)
(* approver resolution is compared with what it promises.  A case is one   *)
(* state; reevaluating it after a change of the step's configuration is a  *)
(* step.                                                                   *)
(***************************************************************************)
EXTENDS ApproverResolution

CONSTANT Families   \* the sets of directories a run enumerates

(* A family fixes the people with an employee profile (the other accounts  *)
(* have none) and the job titles they hold, the job-title rows, and the    *)
(* departments that exist, team leaders and department managers to vary.   *)
ASSUME FamiliesAreTyped ==
  \A f \in Families :
    /\ f.people \subseteq Users /\ f.held \subseteq Titles
    /\ f.titles \subseteq [Titles -> [present : {TRUE}, active : BOOLEAN, level : Levels]]
    /\ f.departments \subseteq Departments
    /\ f.heads \subseteq Maybe(Users)

VARIABLES requester, resolver, required

vars == <<dirVars, requester, resolver, required>>

(* An account without an employee profile.                                 *)
NoProfile == [present |-> FALSE, active |-> FALSE, title |-> None, team |-> None, dept |-> None]
NoDepartment == [present |-> FALSE, active |-> FALSE, manager |-> None]

(* Rows are never deleted, so they differ in active flags, assignments and *)
(* levels.  Nothing keeps a team's department, a member's department and   *)
(* the active flags of the two in step (DirectorySessions), so every       *)
(* combination is a case.                                                  *)
DirectoryOf(f) ==
  /\ \E profile \in [f.people -> [present : {TRUE}, active : BOOLEAN, title : f.held,
                                   team : Maybe(Teams), dept : f.departments]] :
       employee = [u \in Users |-> IF u \in f.people THEN profile[u] ELSE NoProfile]
  /\ user = [u \in Users |-> [present |-> TRUE, active |-> employee[u].active \/ u \notin f.people,
                              admin |-> FALSE]]
  /\ title \in f.titles
  /\ team \in [Teams -> [present : {TRUE}, active : BOOLEAN, dept : f.departments,
                         leader : f.heads]]
  /\ \E rows \in [f.departments -> [present : {TRUE}, active : BOOLEAN, manager : f.heads]] :
       department = [d \in Departments |-> IF d \in f.departments THEN rows[d] ELSE NoDepartment]

Init ==
  /\ \E f \in Families : DirectoryOf(f)
  /\ requester \in {u \in Users : ActiveEmployee(u)}
  /\ resolver \in Resolvers
  /\ required = TRUE

Reconfigure ==
  /\ required' = ~required
  /\ UNCHANGED <<dirVars, requester, resolver>>

Next == Reconfigure

Spec == Init /\ [][Next]_vars

-----------------------------------------------------------------------------
Result == Outcome(requester, resolver, required)
Chosen == Candidate(requester, resolver)

(* How far from the requester a person works: team, department, elsewhere. *)
Distance(u) ==
  IF u \in Teammates(requester) THEN 0 ELSE IF u \in Colleagues(requester) THEN 1 ELSE 2

(* An assigned approver is another person, active as account and employee, *)
(* and strictly above the requester (_evaluate_approver_step).             *)
AssigneeIsSuperior ==
  Result = "assign" =>
    /\ Chosen # requester
    /\ ActiveUser(Chosen) /\ ActiveEmployee(Chosen)
    /\ LevelOf(Chosen) > LevelOf(requester)

(* A job-title step never passes over a holder of the title who works      *)
(* nearer to the requester, nor an earlier employee at the same distance   *)
(* (_resolve_job_title_approver).                                          *)
NearestHolderChosen ==
  resolver \in Titles =>
    \A u \in Holders(resolver) :
      /\ Chosen # None
      /\ \/ Distance(Chosen) < Distance(u)
         \/ Distance(Chosen) = Distance(u) /\ Chosen <= u

(* A required step is skipped only for a resolvable approver who is the    *)
(* requester or does not outrank the requester; in particular it is never  *)
(* skipped because the approver is missing or inactive.                    *)
RequiredSkipsOnlyUpward ==
  Result = "skip" /\ required =>
    /\ Chosen # None /\ ActiveUser(Chosen)
    /\ Chosen = requester \/ LevelOf(Chosen) <= LevelOf(requester)

=============================================================================
