--------------------------- MODULE RequestWorkflow ---------------------------
(***************************************************************************)
(* The request engine: submission, the walk through the workflow steps,    *)
(* approval and rejection by the current approver, and the configuration   *)
(* changes that may happen meanwhile.                                      *)
(*                                                                         *)
(* One request type is modelled; requests of different types share no      *)
(* state.  The submitted field values and the leave rules only decide      *)
(* whether submit is refused before it writes anything, so a refused       *)
(* submission is simply no step.  Approving and rejecting are two steps of *)
(* a worker: reading the request row, and committing.  The walk reads the  *)
(* configuration and the directory at the commit; it does not read the     *)
(* request row again.  The commit sends only the columns that differ from  *)
(* the loaded row.  The update of a workflow step has the same two halves: *)
(* its values are checked against the loaded row, and only the columns     *)
(* that differ from it are sent.                                           *)
(***************************************************************************)
EXTENDS ApproverResolution, Sequences

CONSTANTS
  Requests,     \* ids of the requests that may be submitted
  Steps,        \* ids of the workflow steps that may be configured
  Orders,       \* step_order values
  Workers,      \* threads serving approve and reject calls
  Editors,      \* threads serving updates of workflow steps
  StepEdits,    \* what administrators edit, out of Edits
  DirEdits,     \* the directory operations that happen during a workflow
  MaxEdits,     \* bound on the number of edits of a run
  InitialDir,   \* the directory a run starts with
  InitialSteps  \* the workflows a run starts with

ASSUME OrdersArePositive == Orders \subseteq Nat \ {0}
ASSUME NoneIsNoStep == None \notin Steps
ASSUME MaxEditsIsNat == MaxEdits \in Nat

VARIABLES
  step,         \* request_workflow_steps
  typeActive,   \* request_types.is_active
  row,          \* requests
  history,      \* request_action_history, one entry per committed operation
  notified,     \* notifications queued in the same transaction
  session,      \* what a worker loaded, or None
  updating,     \* the step an editor loaded and its new values, or None
  edits,        \* the number of edits so far
  edited        \* history: what they changed

vars == <<dirVars, step, typeActive, row, history, notified, session, updating, edits, edited>>

Configuration == {"kind", "resolver", "jobTitle"}
StepColumns == Configuration \cup {"order", "required", "active"}

(* "mixed": an update was sent to a step whose configuration another       *)
(* update had changed since it was loaded.                                 *)
Edits == StepColumns \cup {"create", "type", "directory", "mixed"}

Statuses == {"absent", "in_progress", "approved", "rejected"}

StepRow == [present: BOOLEAN, order: Orders, kind: StepKinds, resolver: Maybe(RoleResolvers),
            jobTitle: Maybe(Titles), required: BOOLEAN, active: BOOLEAN]

(* completed: completed_at is set; reason: rejection_reason is set.        *)
RequestRow == [status: Statuses, requester: Maybe(Users), step: Maybe(Steps),
               approver: Maybe(Users), completed: BOOLEAN, reason: BOOLEAN]

(* One committed operation: who did what on which step, the conception     *)
(* steps completed and the approver steps skipped by the walk that         *)
(* followed, in step order, and where the request then waits.              *)
Entry == [action: {"submitted", "approved", "rejected"}, actor: Users, step: Maybe(Steps),
          completed: SUBSET Steps, skipped: SUBSET Steps,
          next: Maybe(Steps), assignee: Maybe(Users)]

NotificationTypes == {"assigned", "step_updated", "approved", "rejected"}

(* A loaded request row, the order of its current step, and the decision.  *)
Session == [decision: {"approve", "reject"}, actor: Users, request: Requests,
            loaded: RequestRow, order: Orders]

StepUpdate == [step: Steps, loaded: StepRow, new: StepRow]

ASSUME InitialDirIsTyped ==
  InitialDir \in [user: [Users -> UserRow], employee: [Users -> EmployeeRow],
                  title: [Titles -> TitleRow], team: [Teams -> TeamRow],
                  department: [Departments -> DepartmentRow]]
ASSUME InitialStepsAreValid ==
  /\ InitialSteps \subseteq [Steps -> StepRow]
  /\ \A W \in InitialSteps, s \in Steps :
       W[s].present => WellConfigured(W[s].kind, W[s].resolver, W[s].jobTitle)
  /\ \A W \in InitialSteps, s, t \in Steps :   \* a unique constraint of the table
       W[s].present /\ W[t].present /\ W[s].order = W[t].order => s = t

-----------------------------------------------------------------------------
(* The walk: _advance_request_workflow                                     *)

(* Mutants: the walk starts at the step decided on, or leaves one out.     *)
RemainingFrom(after) ==
  {s \in Steps : step[s].present /\ step[s].active /\ step[s].order >= after}
RemainingBeyond(after) ==
  {s \in Steps : step[s].present /\ step[s].active /\ step[s].order > after + 1}

Remaining(after) == {s \in Steps : step[s].present /\ step[s].active /\ step[s].order > after}

(* The approver job title comes first, then the resolver type.             *)
ResolverOf(s) == IF step[s].jobTitle # None THEN step[s].jobTitle ELSE step[s].resolver

(* An approver step with neither is refused as unsupported.                *)
OutcomeOf(r, s) ==
  IF step[s].kind = "CONCEPTION" THEN "complete"
  ELSE IF ResolverOf(s) = None THEN "error"
  ELSE Outcome(r, ResolverOf(s), step[s].required)

(* The steps at which the walk ends, and the first of them.                *)
Stops(r, after) == {s \in Remaining(after) : OutcomeOf(r, s) \in {"assign", "error"}}

FirstStop(r, after) ==
  IF Stops(r, after) = {} THEN None
  ELSE CHOOSE s \in Stops(r, after) : \A t \in Stops(r, after) : step[s].order <= step[t].order

Passed(r, after) ==
  LET stop == FirstStop(r, after) IN
  {s \in Remaining(after) : stop = None \/ step[s].order < step[stop].order}

PassedWith(r, after, outcome) == {s \in Passed(r, after) : OutcomeOf(r, s) = outcome}

WalkFails(r, after) ==
  LET stop == FirstStop(r, after) IN stop # None /\ OutcomeOf(r, stop) = "error"

Assignee(r, after) ==
  LET stop == FirstStop(r, after) IN
  IF stop = None THEN None ELSE Candidate(r, ResolverOf(stop))

(* Mutant: the order instead of the step.                                  *)
AdvancedByOrder(r, after) ==
  LET stop == FirstStop(r, after) IN
  [status |-> IF stop = None THEN "approved" ELSE "in_progress",
   requester |-> r, step |-> IF stop = None THEN None ELSE step[stop].order,
   approver |-> Assignee(r, after), completed |-> stop = None, reason |-> FALSE]

(* The request row as the walk leaves it.                                  *)
Advanced(r, after) ==
  LET stop == FirstStop(r, after) IN
  [status |-> IF stop = None THEN "approved" ELSE "in_progress",
   requester |-> r, step |-> stop, approver |-> Assignee(r, after),
   completed |-> stop = None, reason |-> FALSE]

HistoryEntry(action, actor, s, r, after) ==
  [action |-> action, actor |-> actor, step |-> s,
   completed |-> PassedWith(r, after, "complete"), skipped |-> PassedWith(r, after, "skip"),
   next |-> FirstStop(r, after), assignee |-> Assignee(r, after)]

(* The UPDATE of a loaded row: columns equal to the loaded value are not   *)
(* sent and keep what the database holds.                                  *)
Updated(current, loaded, new) ==
  [c \in DOMAIN current |-> IF new[c] # loaded[c] THEN new[c] ELSE current[c]]

Notice(type, u, q) == [type |-> type, to |-> u, request |-> q]

(* Mutant: the requester is told of the assignment, not the approver.      *)
NoticesToRequester(q, r, new) ==
  {Notice(IF new.approver # None THEN "assigned" ELSE "approved", r, q)}

AssignmentNotices(q, r, new) ==
  IF new.approver # None THEN {Notice("assigned", new.approver, q)}
  ELSE {Notice("approved", r, q)}

-----------------------------------------------------------------------------
(* create_request: the employee must be active, the type active, and every *)
(* active approver step must be assignable or skippable, also the ones     *)
(* behind the first assignment.                                            *)
CreateRequest(q, r) ==
  /\ row[q].status = "absent"
  /\ ActiveUser(r) /\ ActiveEmployee(r)
  /\ typeActive
  /\ \A s \in Remaining(0) : OutcomeOf(r, s) # "error"
  /\ row' = [row EXCEPT ![q] = Advanced(r, 0)]
  /\ history' = [history EXCEPT ![q] =
                   Append(@, HistoryEntry("submitted", r, None, r, 0))]
  /\ notified' = notified \cup AssignmentNotices(q, r, Advanced(r, 0))
  /\ UNCHANGED <<dirVars, step, typeActive, session, updating, edits, edited>>

(* Mutant: any active account.                                             *)
ActionableByAnyone(u, q) ==
  ActiveUser(u) /\ row[q].status = "in_progress" /\ row[q].step # None

(* _ensure_request_actionable_by_user: an active account, the pending      *)
(* approver of an in-progress request.                                     *)
Actionable(u, q) ==
  /\ ActiveUser(u)
  /\ row[q].status = "in_progress"
  /\ row[q].step # None /\ row[q].approver = u

(* The first half of approve_current_step and reject_current_step.         *)
LoadForDecision(w, u, q, decision) ==
  /\ session[w] = None
  /\ Actionable(u, q)
  /\ session' = [session EXCEPT ![w] =
                   [decision |-> decision, actor |-> u, request |-> q, loaded |-> row[q],
                    order |-> step[row[q].step].order]]
  /\ UNCHANGED <<dirVars, step, typeActive, row, history, notified, updating, edits, edited>>

Finish(w) == session' = [session EXCEPT ![w] = None]

CommitApprove(w) ==
  LET x == session[w]
      q == x.request
      r == x.loaded.requester
      new == Advanced(r, x.order)
  IN  /\ x # None /\ x.decision = "approve"
      /\ ~WalkFails(r, x.order)
      /\ row' = [row EXCEPT ![q] = Updated(@, x.loaded, new)]
      /\ history' = [history EXCEPT ![q] =
                       Append(@, HistoryEntry("approved", x.actor, x.loaded.step, r, x.order))]
      /\ notified' = notified \cup AssignmentNotices(q, r, new)
                     \cup (IF new.approver # None THEN {Notice("step_updated", r, q)} ELSE {})
      /\ Finish(w)
      /\ UNCHANGED <<dirVars, step, typeActive, updating, edits, edited>>

(* A later step that cannot be resolved refuses the approval: the          *)
(* transaction is rolled back and the request stays where it is.           *)
RollbackApprove(w) ==
  LET x == session[w] IN
  /\ x # None /\ x.decision = "approve"
  /\ WalkFails(x.loaded.requester, x.order)
  /\ Finish(w)
  /\ UNCHANGED <<dirVars, step, typeActive, row, history, notified, updating, edits, edited>>

CommitReject(w) ==
  LET x == session[w]
      q == x.request
  IN  /\ x # None /\ x.decision = "reject"
      /\ \E comment \in BOOLEAN :
           row' = [row EXCEPT ![q] =
                     Updated(@, x.loaded,
                             [x.loaded EXCEPT !.status = "rejected", !.step = None,
                                              !.approver = None, !.completed = TRUE,
                                              !.reason = comment])]
      /\ history' = [history EXCEPT ![q] =
                       Append(@, [action |-> "rejected", actor |-> x.actor,
                                  step |-> x.loaded.step, completed |-> {}, skipped |-> {},
                                  next |-> None, assignee |-> None])]
      /\ notified' = notified \cup {Notice("rejected", x.loaded.requester, q)}
      /\ Finish(w)
      /\ UNCHANGED <<dirVars, step, typeActive, updating, edits, edited>>

-----------------------------------------------------------------------------
(* Configuration changes during a workflow                                 *)

Edit(what) ==
  /\ edits' = edits + 1
  /\ edited' = edited \cup what
  /\ UNCHANGED <<row, history, notified, session, updating>>

OrderFree(s, order) == \A t \in Steps \ {s} : step[t].present => step[t].order # order

ConfigurationAllowed(new) ==
  /\ WellConfigured(new.kind, new.resolver, new.jobTitle)
  /\ new.jobTitle # None => TitleCanApprove(new.jobTitle)

CreateWorkflowStep(s, new) ==
  /\ "create" \in StepEdits
  /\ ~step[s].present
  /\ OrderFree(s, new.order)
  /\ ConfigurationAllowed(new)
  /\ step' = [step EXCEPT ![s] = new]
  /\ Edit({"create"})
  /\ UNCHANGED <<dirVars, typeActive>>

ChangedColumns(loaded, new) == {c \in StepColumns : new[c] # loaded[c]}

(* The first half of update_workflow_step: the final values, those of the  *)
(* payload, else the loaded ones, are checked together.                    *)
LoadStepUpdate(e, s, new) ==
  /\ updating[e] = None
  /\ step[s].present /\ new.present /\ new # step[s]
  /\ ChangedColumns(step[s], new) \subseteq StepEdits
  /\ ConfigurationAllowed(new)
  /\ new.order # step[s].order => OrderFree(s, new.order)
  /\ updating' = [updating EXCEPT ![e] = [step |-> s, loaded |-> step[s], new |-> new]]
  /\ edits' = edits + 1
  /\ UNCHANGED <<dirVars, step, typeActive, row, history, notified, session, edited>>

(* Another update has changed the configuration since it was loaded.       *)
Mixes(x) == \E c \in Configuration : step[x.step][c] # x.loaded[c]

(* The commit sends what differs from the loaded row.                      *)
CommitStepUpdate(e) ==
  LET x == updating[e]
      new == Updated(step[x.step], x.loaded, x.new)
  IN  /\ x # None
      /\ OrderFree(x.step, new.order)
      /\ step' = [step EXCEPT ![x.step] = new]
      /\ updating' = [updating EXCEPT ![e] = None]
      /\ edited' = edited \cup ChangedColumns(x.loaded, x.new)
                   \cup (IF Mixes(x) THEN {"mixed"} ELSE {})
      /\ UNCHANGED <<dirVars, typeActive, row, history, notified, session, edits>>

(* The unique constraint refuses an order that was taken meanwhile.        *)
RollbackStepUpdate(e) ==
  LET x == updating[e] IN
  /\ x # None
  /\ ~OrderFree(x.step, Updated(step[x.step], x.loaded, x.new).order)
  /\ updating' = [updating EXCEPT ![e] = None]
  /\ UNCHANGED <<dirVars, step, typeActive, row, history, notified, session, edits, edited>>

UpdateRequestType ==
  /\ "type" \in StepEdits
  /\ typeActive' = ~typeActive
  /\ Edit({"type"})
  /\ UNCHANGED <<dirVars, step>>

(* Operations of the directory services that change who can approve.  An   *)
(* update of an account that overlaps another sends some of its columns.   *)
DirectoryEdit ==
  /\ \/ \E u \in Users, a \in BOOLEAN :
          /\ "user" \in DirEdits
          /\ user[u].present
          /\ \E W \in SUBSET UpdateUserWrites(u, user[u], [active |-> a]) : Commit(W)
     \/ \E t \in Teams, l \in Maybe(Users) :
          /\ "leader" \in DirEdits
          /\ UpdateTeamAllowed(t, [leader |-> l])
          /\ Commit(UpdateTeamWrites(t, [leader |-> l]))
     \/ \E jt \in Titles :
          /\ "title" \in DirEdits
          /\ DeactivateTitleAllowed(jt)
          /\ Commit(DeactivateTitleWrites(jt))
  /\ Edit({"directory"})
  /\ UNCHANGED <<step, typeActive>>

-----------------------------------------------------------------------------
NoRequest == [status |-> "absent", requester |-> None, step |-> None, approver |-> None,
              completed |-> FALSE, reason |-> FALSE]

Init ==
  /\ user = InitialDir.user
  /\ employee = InitialDir.employee
  /\ title = InitialDir.title
  /\ team = InitialDir.team
  /\ department = InitialDir.department
  /\ step \in InitialSteps
  /\ typeActive = TRUE
  /\ row = [q \in Requests |-> NoRequest]
  /\ history = [q \in Requests |-> <<>>]
  /\ notified = {}
  /\ session = [w \in Workers |-> None]
  /\ updating = [e \in Editors |-> None]
  /\ edits = 0
  /\ edited = {}

Engine ==
  \/ \E q \in Requests, r \in Users : CreateRequest(q, r)
  \/ \E w \in Workers :
       \/ \E u \in Users, q \in Requests, d \in {"approve", "reject"} :
            LoadForDecision(w, u, q, d)
       \/ CommitApprove(w)
       \/ RollbackApprove(w)
       \/ CommitReject(w)

Administration ==
  \/ /\ edits < MaxEdits
     /\ \/ \E s \in Steps, new \in StepRow :
             \/ new.present /\ new.active /\ CreateWorkflowStep(s, new)
             \/ \E e \in Editors : LoadStepUpdate(e, s, new)
        \/ UpdateRequestType
        \/ DirectoryEdit
  \/ \E e \in Editors : CommitStepUpdate(e) \/ RollbackStepUpdate(e)

Next == Engine \/ Administration

Spec == Init /\ [][Next]_vars

-----------------------------------------------------------------------------
(* Views and properties                                                    *)

(* Mutant: only steps that are still active are listed.                    *)
PendingOnActiveSteps(u) ==
  {q \in Requests : /\ row[q].status = "in_progress"
                    /\ row[q].step # None /\ row[q].approver = u
                    /\ step[row[q].step].kind = "APPROVER" /\ step[row[q].step].active}

(* list_pending_approvals_for_user: the in-progress requests assigned to   *)
(* the user whose current step is an approver step.                        *)
PendingApprovals(u) ==
  {q \in Requests : /\ row[q].status = "in_progress"
                    /\ row[q].step # None /\ row[q].approver = u
                    /\ step[row[q].step].kind = "APPROVER"}

EntriesOn(q, s) ==
  {i \in DOMAIN history[q] :
     s = history[q][i].step \/ s \in history[q][i].completed \cup history[q][i].skipped}

(* _build_workflow_progress: the latest history action on a step, else     *)
(* pending for the current step.  Within one entry the walk comes after    *)
(* the decision.                                                           *)
Progress(q, s) ==
  IF EntriesOn(q, s) # {}
    THEN LET e == history[q][CHOOSE i \in EntriesOn(q, s) : \A j \in EntriesOn(q, s) : j <= i] IN
         IF s \in e.completed THEN "completed"
         ELSE IF s \in e.skipped THEN "skipped"
         ELSE e.action
  ELSE IF row[q].step = s THEN "pending" ELSE "waiting"

TypeOK ==
  /\ DirTypeOK
  /\ step \in [Steps -> StepRow]
  /\ typeActive \in BOOLEAN
  /\ row \in [Requests -> RequestRow]
  /\ history \in [Requests -> Seq(Entry)]
  /\ notified \subseteq [type: NotificationTypes, to: Users, request: Requests]
  /\ session \in [Workers -> Session \cup {None}]
  /\ updating \in [Editors -> StepUpdate \cup {None}]
  /\ edits \in 0..MaxEdits /\ edited \subseteq Edits

(* Nobody decides on the own request: the requester is never the pending   *)
(* approver and never the actor of an approval or rejection, whatever      *)
(* requests, configuration changes and stale sessions interleave           *)
(* (_evaluate_approver_step skips self-approval).                          *)
NoSelfDecision ==
  \A q \in Requests :
    /\ row[q].approver # None => row[q].approver # row[q].requester
    /\ \A i \in DOMAIN history[q] :
         history[q][i].action # "submitted" => history[q][i].actor # row[q].requester

(* Whoever decided was made the approver of the request by an earlier      *)
(* committed operation, also when two sessions decide from the same row.   *)
DecidedByAssignee ==
  \A q \in Requests : \A i \in DOMAIN history[q] :
    history[q][i].action # "submitted" =>
      \E j \in 1..(i - 1) : history[q][j].assignee = history[q][i].actor

(* The pending approver has been sent an assignment notification for the   *)
(* request, and the requester of a finished request has been told its      *)
(* outcome: the notifications are written in the deciding transaction.     *)
NotifiedOfDuty ==
  \A q \in Requests :
    /\ row[q].approver # None => Notice("assigned", row[q].approver, q) \in notified
    /\ row[q].status \in {"approved", "rejected"} =>
         Notice(row[q].status, row[q].requester, q) \in notified

(* An in-progress request waits on exactly one step for one approver, and  *)
(* a finished one waits for nobody and is stamped as completed.            *)
Coherent(x) ==
  CASE x.status = "absent" -> x = NoRequest
    [] x.status = "in_progress" ->
         x.step # None /\ x.approver # None /\ ~x.completed /\ ~x.reason
    [] x.status = "approved" ->
         x.step = None /\ x.approver = None /\ x.completed /\ ~x.reason
    [] x.status = "rejected" -> x.step = None /\ x.approver = None /\ x.completed

RowsCoherent == \A q \in Requests : Coherent(row[q])

(* "finish the request as rejected": a rejected request stays rejected.    *)
RejectedStaysRejected ==
  [][\A q \in Requests : row[q].status = "rejected" => row'[q].status = "rejected"]_row

(* Unless administrators added, reordered or switched steps meanwhile, an  *)
(* approved request went through every step of the workflow: each one was  *)
(* approved, skipped, or completed automatically, whatever happened to the *)
(* directory (_advance_request_workflow).  Without overlapping decisions.  *)
ApprovedIsComplete ==
  edited \cap {"create", "order", "active"} = {} =>
  \A q \in Requests, s \in Steps :
    row[q].status = "approved" /\ step[s].present /\ step[s].active => EntriesOn(q, s) # {}

(* Every in-progress request shows up in its approver's list of pending    *)
(* approvals, and its progress view shows the current step as pending.     *)
PendingIsVisible ==
  \A q \in Requests :
    row[q].status = "in_progress" =>
      /\ q \in PendingApprovals(row[q].approver)
      /\ Progress(q, row[q].step) = "pending"

(* Without overlapping decisions and without reordering of the steps, the  *)
(* engine implements RequestLifecycle.                                     *)
Settled(q) == {s \in Steps : EntriesOn(q, s) # {}}

Lifecycle == INSTANCE RequestLifecycle WITH
  status <- [q \in Requests |-> row[q].status],
  awaiting <- [q \in Requests |-> row[q].step],
  settled <- [q \in Requests |-> Settled(q)]

ImplementsLifecycle == Lifecycle!Spec

-----------------------------------------------------------------------------
(* What holds in addition while decisions do not overlap.  The conditions  *)
(* on edited say which configuration changes would break it.               *)

(* A session decides on the row as it is, from the step it waits on.       *)
SessionsFresh ==
  \A w \in Workers : session[w] # None =>
    LET x == session[w] IN
    /\ x.loaded = row[x.request]
    /\ "order" \notin edited => x.order = step[x.loaded.step].order

OrdersDistinct ==
  \A s, t \in Steps :
    step[s].present /\ step[t].present /\ step[s].order = step[t].order => s = t

AwaitsApproverStep ==
  \A q \in Requests : row[q].status = "in_progress" =>
    /\ step[row[q].step].present
    /\ "kind" \notin edited => step[row[q].step].kind = "APPROVER"

(* The steps left behind come before the one the request waits on ...      *)
SettledBehind ==
  \A q \in Requests : \A s \in Settled(q) :
    /\ step[s].present
    /\ "order" \notin edited /\ row[q].status = "in_progress" =>
         step[s].order < step[row[q].step].order

(* ... and none that comes before it was left out.                         *)
NothingLeftOut ==
  edited \cap {"create", "order", "active"} = {} =>
  \A q \in Requests, s \in Steps :
    /\ step[s].present /\ step[s].active
    /\ \/ row[q].status = "approved"
       \/ row[q].status = "in_progress" /\ step[s].order < step[row[q].step].order
    => s \in Settled(q)

OnlyAllowedEdits ==
  /\ edited \cap StepColumns \subseteq StepEdits
  /\ \A e \in Editors : updating[e] # None =>
       /\ ChangedColumns(updating[e].loaded, updating[e].new) \subseteq StepEdits
       /\ updating[e].loaded.present /\ updating[e].new.present

SerialInv ==
  /\ SessionsFresh /\ RowsCoherent /\ OrdersDistinct /\ AwaitsApproverStep
  /\ SettledBehind /\ NothingLeftOut /\ OnlyAllowedEdits

(* The requests are coherent, whoever has to decide one can see it, and    *)
(* the steps they have passed are behind them.                             *)
PendingInv ==
  /\ SerialInv
  /\ PendingIsVisible

-----------------------------------------------------------------------------
(* The inductive invariant behind NoSelfDecision, DecidedByAssignee and    *)
(* NotifiedOfDuty: what they need to know of the configuration, of rows    *)
(* and of the rows sessions have loaded and may still write from.  A step  *)
(* keeps one resolver or none, as its kind asks, until two updates of its  *)
(* configuration overlap and their columns mix.                            *)
StepsConfigured ==
  /\ "mixed" \notin edited => \A s \in Steps :
       step[s].present => WellConfigured(step[s].kind, step[s].resolver, step[s].jobTitle)
  /\ \A e \in Editors : updating[e] # None =>
       LET new == updating[e].new IN WellConfigured(new.kind, new.resolver, new.jobTitle)

WasAssigned(h, u) == \E j \in DOMAIN h : h[j].assignee = u

RowsOwned ==
  \A q \in Requests :
    /\ row[q].status = "absent" => row[q].approver = None /\ history[q] = <<>>
    /\ row[q].status # "absent" => row[q].requester \in Users
    /\ row[q].approver # None => WasAssigned(history[q], row[q].approver)

SessionsCurrent ==
  \A w \in Workers : session[w] # None =>
    LET x == session[w] IN
    /\ row[x.request].status # "absent"
    /\ x.loaded.status = "in_progress"
    /\ x.loaded.requester = row[x.request].requester
    /\ x.loaded.approver = x.actor
    /\ x.actor # x.loaded.requester
    /\ WasAssigned(history[x.request], x.actor)

WorkflowInv ==
  /\ TypeOK /\ StepsConfigured /\ RowsOwned /\ SessionsCurrent
  /\ NoSelfDecision /\ DecidedByAssignee /\ NotifiedOfDuty

=============================================================================
