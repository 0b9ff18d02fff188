----------------------------- MODULE Performance -----------------------------
(***************************************************************************)
(* Team performance: the objectives of a team, at most one of which is to  *)
(* be active, and the daily results its leader submits against it.         *)
(***************************************************************************)
EXTENDS Sessions

CONSTANTS
  Crews,           \* teams
  Leads,           \* users who may lead a crew
  ObjectiveIds,    \* team_objectives.id
  PerfDays,        \* performance_date
  Targets,         \* objective_value
  Achievements,    \* achieved_value
  PerfModes        \* whether requests overlap, the operations of a run

PerfServices == {"organization", "objectives", "results"}
ASSUME TargetsArePositive == Targets \subseteq Nat \ {0} /\ Achievements \subseteq Nat
ASSUME PerfModesAreTyped == PerfModes \subseteq [serial: BOOLEAN, ops: SUBSET PerfServices]

VARIABLES
  perfMode,      \* one of PerfModes, fixed at the start
  crew,          \* teams.leader_user_id and is_active, which the organization changes
  objective,     \* team_objectives, or None
  result,        \* rows of team_daily_performances
  perfSession    \* what a worker is about to commit, or None

perfVars == <<perfMode, crew, objective, result, perfSession>>

ObjectiveRow == [crew: Crews, target: Targets, active: BOOLEAN]
ResultRow == [crew: Crews, day: PerfDays, target: Targets, achieved: Achievements,
              percentage: Nat, by: Leads \cup {"super_admin"}]
ASSUME NoneIsNoObjective == None \notin ObjectiveRow

Submitters == Leads \cup {"super_admin"}
ActiveObjectives(c) == {o \in ObjectiveIds :
  objective[o] # None /\ objective[o].crew = c /\ objective[o].active}

ServePerformance(w, s) ==
  /\ MayServe(perfSession, w, perfMode.serial)
  /\ perfSession' = [perfSession EXCEPT ![w] = s]

-----------------------------------------------------------------------------
(* Objectives.  A session writes the rows it loaded.                       *)

(* _deactivate_other_active_objectives                                     *)
Rivals(c, except) == ActiveObjectives(c) \ {except}

(* create_team_objective                                                   *)
CreateObjective(w) ==
  \E o \in ObjectiveIds, row \in ObjectiveRow :
    /\ crew[row.crew].active
    /\ objective[o] = None
    /\ \A v \in Workers : perfSession[v] # None => perfSession[v].id # o
    /\ ServePerformance(w, [kind |-> "objective", id |-> o, loaded |-> None, new |-> row,
                            rivals |-> IF row.active THEN Rivals(row.crew, o) ELSE {}])
    /\ UNCHANGED <<perfMode, crew, objective, result>>

(* update_team_objective, of the columns the payload names.                *)
UpdateObjective(w) ==
  \E o \in ObjectiveIds, target \in Maybe(Targets), active \in Maybe(BOOLEAN) :
    /\ objective[o] # None
    /\ LET row == objective[o]
           new == [row EXCEPT !.target = IF target = None THEN @ ELSE target,
                              !.active = IF active = None THEN @ ELSE active]
       IN  ServePerformance(w, [kind |-> "objective", id |-> o, loaded |-> row, new |-> new,
                                rivals |-> IF active = TRUE THEN Rivals(row.crew, o) ELSE {}])
    /\ UNCHANGED <<perfMode, crew, objective, result>>

CommitObjective(w) ==
  LET s == perfSession[w] IN
  /\ s # None /\ s.kind = "objective"
  /\ objective' = [o \in ObjectiveIds |->
       CASE o = s.id -> IF s.loaded = None THEN s.new ELSE Flushed(objective[o], s.loaded, s.new)
         [] o \in s.rivals -> [objective[o] EXCEPT !.active = FALSE]
         [] OTHER -> objective[o]]
  /\ perfSession' = [perfSession EXCEPT ![w] = None]
  /\ UNCHANGED <<perfMode, crew, result>>

-----------------------------------------------------------------------------
(* Results                                                                 *)

(* calculate_performance_percentage in hundredths of a percent: round()    *)
(* takes a tie to the even neighbour.                                      *)
Percentage(achieved, target) ==
  LET down == (10000 * achieved) \div target
      rest == (10000 * achieved) % target
  IN  IF 2 * rest > target \/ (2 * rest = target /\ down % 2 = 1) THEN down + 1 ELSE down

(* Mutant: the leader is taken from the team of any objective.             *)
SubmitsForAny(c, user) == \E d \in Crews : crew[d].leader = user

(* _authorize_team_submission                                              *)
SubmitsFor(c, user) == user = "super_admin" \/ crew[c].leader = user

(* submit_daily_performance up to the commit.                              *)
SubmitResult(w) ==
  \E c \in Crews, day \in PerfDays, user \in Submitters, achieved \in Achievements :
    /\ crew[c].active
    /\ SubmitsFor(c, user)
    /\ Cardinality(ActiveObjectives(c)) = 1
    /\ ~ \E r \in result : r.crew = c /\ r.day = day
    /\ LET target == objective[CHOOSE o \in ActiveObjectives(c) : TRUE].target IN
       ServePerformance(w, [kind |-> "result", id |-> None,
         row |-> [crew |-> c, day |-> day, target |-> target, achieved |-> achieved,
                  percentage |-> Percentage(achieved, target), by |-> user]])
    /\ UNCHANGED <<perfMode, crew, objective, result>>

(* Mutant: the unique constraint is missing.                               *)
AnyResult(row) == TRUE

(* uq_team_daily_performances_team_date                                    *)
UniqueResult(row) == ~ \E r \in result : r.crew = row.crew /\ r.day = row.day

(* The commit, which the unique constraint may refuse.                     *)
CommitResult(w) ==
  LET s == perfSession[w] IN
  /\ s # None /\ s.kind = "result"
  /\ result' = IF UniqueResult(s.row) THEN result \cup {s.row} ELSE result
  /\ perfSession' = [perfSession EXCEPT ![w] = None]
  /\ UNCHANGED <<perfMode, crew, objective>>

(* Reading: the list without a team filter, and one team's record.         *)

(* _get_leader_team_ids                                                    *)
LedCrews(user) == {c \in Crews : crew[c].leader = user}

(* list_daily_performances and get_daily_performance, the latter through   *)
(* _authorize_team_read.  Managers of performance read everything.         *)
ListedResults(user, manages) ==
  {r \in result : user = "super_admin" \/ manages \/ r.crew \in LedCrews(user)}
MayReadResult(user, manages, c) == user = "super_admin" \/ manages \/ crew[c].leader = user

-----------------------------------------------------------------------------
(* External: the organization changes a team's leader or its activity, in  *)
(* a request of its own.                                                   *)
ChangeCrew ==
  \E c \in Crews, leader \in Maybe(Leads), active \in BOOLEAN :
    /\ perfMode.serial => \A w \in Workers : perfSession[w] = None
    /\ crew[c] # [leader |-> leader, active |-> active]
    /\ crew' = [crew EXCEPT ![c] = [leader |-> leader, active |-> active]]
    /\ UNCHANGED <<perfMode, objective, result, perfSession>>

PerfInit ==
  /\ perfMode \in PerfModes
  /\ \E leader \in [Crews -> Leads] : crew = [c \in Crews |-> [leader |-> leader[c], active |-> TRUE]]
  /\ objective = [o \in ObjectiveIds |-> None]
  /\ result = {}
  /\ perfSession = [w \in Workers |-> None]

PerfNext ==
  \/ "organization" \in perfMode.ops /\ ChangeCrew
  \/ \E w \in Workers :
       \/ "objectives" \in perfMode.ops /\ (CreateObjective(w) \/ UpdateObjective(w))
       \/ "results" \in perfMode.ops /\ SubmitResult(w)
       \/ CommitObjective(w) \/ CommitResult(w)

PerfSpec == PerfInit /\ [][PerfNext]_perfVars

-----------------------------------------------------------------------------

PerfTypeOK ==
  /\ perfMode \in PerfModes
  /\ crew \in [Crews -> [leader: Maybe(Leads), active: BOOLEAN]]
  /\ objective \in [ObjectiveIds -> Maybe(ObjectiveRow)]
  /\ result \subseteq ResultRow

(* When requests do not overlap a team has at most one active objective,   *)
(* whichever of create and update made it active.                          *)
OneActiveObjective ==
  perfMode.serial => \A c \in Crews : Cardinality(ActiveObjectives(c)) <= 1

(* A team has at most one result a day, also when two submissions overlap  *)
(* and neither sees the other's row.                                       *)
OneResultPerDay ==
  \A r, q \in result : (r.crew = q.crew /\ r.day = q.day) => r = q

(* The list a user gets without a team filter holds exactly the results    *)
(* the user may open one by one.                                           *)
ResultReadsAgree ==
  \A user \in Submitters, manages \in BOOLEAN :
    ListedResults(user, manages) = {r \in result : MayReadResult(user, manages, r.crew)}

(* The result carries the target of the team's one active objective, and   *)
(* comes from the team's leader or a super admin.                          *)
MeetsObjective(r) ==
  /\ \E o \in ObjectiveIds : ActiveObjectives(r.crew) = {o} /\ objective[o].target = r.target
  /\ r.by \in {crew[r.crew].leader, "super_admin"}

(* What requests are about to commit is typed and concerns rows that exist;*)
(* without overlap it was derived from the rows it will meet.              *)
ObjectiveFits(x) ==
  /\ x.id \in ObjectiveIds /\ x.new \in ObjectiveRow /\ x.loaded \in Maybe(ObjectiveRow)
  /\ x.loaded # None => objective[x.id] # None
  /\ \A o \in x.rivals : o \in ObjectiveIds \ {x.id} /\ objective[o] # None
  /\ perfMode.serial => /\ x.loaded = objective[x.id]
                        /\ x.new.active => Rivals(x.new.crew, x.id) \subseteq x.rivals
CommitsFit ==
  \A w \in Workers : LET x == perfSession[w] IN x # None =>
    /\ x.kind = "objective" => ObjectiveFits(x)
    /\ x.kind = "result" => x.row \in ResultRow /\ (perfMode.serial => MeetsObjective(x.row))

(* Objectives and results are unique, and lists and single reads agree.    *)
PerfInv ==
  /\ PerfTypeOK
  /\ CommitsFit
  /\ OneActiveObjective
  /\ OneResultPerDay
  /\ ResultReadsAgree

(* Without overlapping requests every result that is stored meets the      *)
(* objective of its team.                                                  *)
ResultMeetsObjective ==
  [][perfMode.serial => \A r \in result' \ result : MeetsObjective(r)]_perfVars

=============================================================================
