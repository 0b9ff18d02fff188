------------------------- MODULE ApproverResolution -------------------------
(***************************************************************************)
(* Who decides on an approver step of a request: the candidate a step's    *)
(* resolver yields for a requester, and the outcome of evaluating the step *)
(* (assign the candidate, skip the step, or refuse the whole operation).   *)
(* Pure operators over the master data of Directory.                       *)
(***************************************************************************)
EXTENDS Directory

CONSTANT RhTitle   \* the job title with code RH_MANAGER (codes are unique), or None

RoleResolvers == {"TEAM_LEADER", "DEPARTMENT_MANAGER", "RH_MANAGER"}
Resolvers == RoleResolvers \cup Titles
ASSUME TitlesAreNoRoles == Titles \cap RoleResolvers = {}   \* ids are not names
StepKinds == {"CONCEPTION", "APPROVER"}

(* _validate_step_configuration: an approver step has exactly one of a     *)
(* resolver type and an approver job title, a conception step has neither. *)
WellConfigured(kind, role, jt) ==
  IF kind = "APPROVER" THEN (role # None) # (jt # None) ELSE role = None /\ jt = None

(* _validate_approver_job_title, for steps resolved by a job title.        *)
TitleCanApprove(jt) == ActiveTitle(jt) /\ title[jt].level > 1
ResolverUsable(resolver) == resolver \in Titles => TitleCanApprove(resolver)

(* Active accounts with an active employee profile in an active job title. *)
Holders(jt) ==
  {u \in Users : ActiveUser(u) /\ ActiveEmployee(u) /\ employee[u].title = jt /\ ActiveTitle(jt)}

Lowest(S) == IF S = {} THEN None ELSE CHOOSE u \in S : \A v \in S : u <= v

Teammates(r) == {u \in Users : employee[r].team # None /\ employee[u].team = employee[r].team}
Colleagues(r) == {u \in Users : employee[r].dept # None /\ employee[u].dept = employee[r].dept}

(* Mutant: the department comes before the team.                           *)
TitleCandidateByDepartment(r, jt) ==
  LET near == Holders(jt) \cap Teammates(r)
      close == Holders(jt) \cap Colleagues(r)
  IN  IF close # {} THEN Lowest(close)
      ELSE IF near # {} THEN Lowest(near)
      ELSE Lowest(Holders(jt))

(* The job title's holder in the requester's team, else in the department, *)
(* else anywhere; the earliest employee first.                             *)
TitleCandidate(r, jt) ==
  LET near == Holders(jt) \cap Teammates(r)
      close == Holders(jt) \cap Colleagues(r)
  IN  IF near # {} THEN Lowest(near)
      ELSE IF close # {} THEN Lowest(close)
      ELSE Lowest(Holders(jt))

ActiveOrNone(u) == IF u # None /\ ActiveUser(u) THEN u ELSE None

TeamLeader(r) ==
  LET t == employee[r].team IN
  IF t # None /\ ActiveTeam(t) THEN ActiveOrNone(team[t].leader) ELSE None

DepartmentManager(r) ==
  LET d == employee[r].dept IN
  IF d # None /\ ActiveDepartment(d) THEN ActiveOrNone(department[d].manager) ELSE None

RhManager == IF RhTitle = None THEN None ELSE Lowest(Holders(RhTitle))

Candidate(r, resolver) ==
  CASE resolver \in Titles -> TitleCandidate(r, resolver)
    [] resolver = "TEAM_LEADER" -> TeamLeader(r)
    [] resolver = "DEPARTMENT_MANAGER" -> DepartmentManager(r)
    [] resolver = "RH_MANAGER" -> RhManager

LevelOf(u) == title[employee[u].title].level

(* Mutant: every step nobody can decide is skipped.                        *)
AlwaysSkipped(required) == "skip"

(* A required step nobody can decide is an error, an optional one is       *)
(* skipped.                                                                *)
Unresolved(required) == IF required THEN "error" ELSE "skip"

(* Mutants: an approver of the requester's level decides, or whoever the   *)
(* resolver yields.                                                        *)
OutcomeAmongPeers(r, resolver, required) ==
  LET c == Candidate(r, resolver) IN
  IF ~ResolverUsable(resolver) THEN "error"
  ELSE IF c = None THEN Unresolved(required)
  ELSE IF c = r THEN "skip"
  ELSE IF ~ActiveTitle(employee[r].title) THEN "error"
  ELSE IF ~ActiveEmployee(c) \/ ~ActiveTitle(employee[c].title) THEN Unresolved(required)
  ELSE IF LevelOf(c) < LevelOf(r) THEN "skip"
  ELSE "assign"

OutcomeUnranked(r, resolver, required) ==
  IF ~ResolverUsable(resolver) THEN "error"
  ELSE IF Candidate(r, resolver) = None THEN Unresolved(required)
  ELSE "assign"

(* _evaluate_approver_step, in the order of its early returns.             *)
Outcome(r, resolver, required) ==
  LET c == Candidate(r, resolver) IN
  IF ~ResolverUsable(resolver) THEN "error"
  ELSE IF c = None THEN Unresolved(required)
  ELSE IF c = r THEN "skip"
  ELSE IF ~ActiveTitle(employee[r].title) THEN "error"
  ELSE IF ~ActiveEmployee(c) \/ ~ActiveTitle(employee[c].title) THEN Unresolved(required)
  ELSE IF LevelOf(c) <= LevelOf(r) THEN "skip"
  ELSE "assign"

=============================================================================
