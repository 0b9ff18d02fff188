------------------------ MODULE RequestWorkflowProofs ------------------------
(***************************************************************************)
(* The request engine for every directory, workflow configuration, number  *)
(* of requests and number of overlapping worker threads: nobody decides on *)
(* the own request, only assigned approvers decide, and whoever has to act *)
(* or to know has been notified.  For a single worker: requests are        *)
(* coherent and visible, rejections final, approvals complete, and the     *)
(* engine implements RequestLifecycle.                                     *)
(***************************************************************************)
EXTENDS RequestWorkflow, DirectoryProofs

-----------------------------------------------------------------------------
(* The walk                                                                *)

(* A workflow with stops has a first one, none before it.                  *)
LEMMA FirstStopIsStop ==
  ASSUME step \in [Steps -> StepRow], NEW r, NEW after
  PROVE  IF Stops(r, after) = {} THEN FirstStop(r, after) = None
         ELSE /\ FirstStop(r, after) \in Stops(r, after)
              /\ \A t \in Stops(r, after) : step[FirstStop(r, after)].order <= step[t].order
<1> DEFINE S == Stops(r, after)
           O == {step[s].order : s \in S}
<1>1. CASE S = {}
  BY <1>1 DEF FirstStop
<1>2. CASE S # {}
  <2>1. O \subseteq Nat /\ O # {}
    <3>1. \A x \in S : x \in Steps
      BY DEF Stops, Remaining
    <3>2. \A x \in Steps : step[x].order \in Nat
      BY OrdersArePositive DEF StepRow
    <3>. HIDE DEF S
    <3>. QED  BY <1>2, <3>1, <3>2
  <2>2. PICK n \in O : \A m \in O : n <= m
    <3>. HIDE DEF O
    <3>. QED  BY <2>1, LeastNat
  <2>3. \E s \in S : \A t \in S : step[s].order <= step[t].order
    BY <2>2
  <2>. QED  BY <1>2, <2>3 DEF FirstStop
<1>. QED  BY <1>1, <1>2

(* The walk stops at stored steps only.                                    *)
LEMMA StopsAreSteps ==
  ASSUME NEW r, NEW after
  PROVE  Stops(r, after) \subseteq {s \in Steps : step[s].present}
  BY DEF Stops, Remaining

(* Unless the walk fails, it ends with nobody, or with an active approver  *)
(* who is not the requester.                                               *)
LEMMA AssigneeIsOther ==
  ASSUME TypeOK, NEW r \in Users, NEW after, ~WalkFails(r, after)
  PROVE  /\ FirstStop(r, after) \in Maybe(Steps)
         /\ FirstStop(r, after) = None => Assignee(r, after) = None
         /\ FirstStop(r, after) # None => Assignee(r, after) \in Users \ {r}
<1> DEFINE s == FirstStop(r, after)
<1>1. step \in [Steps -> StepRow] /\ DirTypeOK
  BY DEF TypeOK
<1>2. CASE Stops(r, after) = {}
  BY <1>1, <1>2, FirstStopIsStop DEF Assignee, Maybe
<1>3. CASE Stops(r, after) # {}
  <2>1. s \in Stops(r, after)
    BY <1>1, <1>3, FirstStopIsStop
  <2>2. s \in Steps /\ step[s].present /\ s # None
    BY <2>1, StopsAreSteps, NoneIsNoStep
  <2>3. OutcomeOf(r, s) = "assign"
    BY <2>1, <2>2 DEF Stops, WalkFails
  <2>4. ResolverOf(s) # None /\ Outcome(r, ResolverOf(s), step[s].required) = "assign"
    BY <2>3 DEF OutcomeOf
  <2>5. ResolverOf(s) \in Resolvers /\ step[s].required \in BOOLEAN
    BY <1>1, <2>2, <2>4 DEF ResolverOf, Resolvers, StepRow, Maybe
  <2>6. Candidate(r, ResolverOf(s)) \in Users \ {r}
    BY <1>1, <2>4, <2>5, AssignedIsSuperior
  <2>. QED  BY <2>2, <2>6 DEF Assignee, Maybe
<1>. QED  BY <1>2, <1>3

(* The walk leaves a typed row.                                            *)
LEMMA AdvancedType ==
  ASSUME TypeOK, NEW r \in Users, NEW after, ~WalkFails(r, after)
  PROVE  /\ Advanced(r, after) \in RequestRow
         /\ Advanced(r, after).requester = r
         /\ Advanced(r, after).approver = Assignee(r, after)
         /\ Advanced(r, after).status \in {"approved", "in_progress"}
         /\ Advanced(r, after).status = "approved" <=> Assignee(r, after) = None
         /\ Assignee(r, after) \in Maybe(Users) /\ Assignee(r, after) # r
<1>1. None \notin Users
  BY NoneIsNoId
<1>2. /\ Assignee(r, after) \in Maybe(Users) /\ Assignee(r, after) # r
      /\ FirstStop(r, after) = None <=> Assignee(r, after) = None
      /\ FirstStop(r, after) \in Maybe(Steps)
  BY <1>1, AssigneeIsOther DEF Maybe
<1>. QED  BY <1>2 DEF Advanced, RequestRow, Statuses, Maybe

(* A history entry is typed and names its action and actor.                *)
LEMMA EntryType ==
  ASSUME TypeOK, NEW r \in Users, NEW after, ~WalkFails(r, after),
         NEW action \in {"submitted", "approved", "rejected"}, NEW actor \in Users,
         NEW s \in Maybe(Steps)
  PROVE  /\ HistoryEntry(action, actor, s, r, after) \in Entry
         /\ HistoryEntry(action, actor, s, r, after).action = action
         /\ HistoryEntry(action, actor, s, r, after).actor = actor
         /\ HistoryEntry(action, actor, s, r, after).assignee = Assignee(r, after)
<1>1. PassedWith(r, after, "complete") \subseteq Steps /\ PassedWith(r, after, "skip") \subseteq Steps
  BY DEF PassedWith, Passed, Remaining
<1>2. FirstStop(r, after) \in Maybe(Steps) /\ Assignee(r, after) \in Maybe(Users)
  BY AssigneeIsOther DEF Maybe
<1>. QED  BY <1>1, <1>2 DEF HistoryEntry, Entry

-----------------------------------------------------------------------------
(* Rows and histories                                                      *)

(* A flush writes the changed columns and leaves the others.               *)
LEMMA UpdatedRow ==
  ASSUME NEW cur \in RequestRow, NEW loaded \in RequestRow, NEW new \in RequestRow
  PROVE  LET u == Updated(cur, loaded, new) IN
         /\ u \in RequestRow
         /\ u.status = IF new.status # loaded.status THEN new.status ELSE cur.status
         /\ u.requester = IF new.requester # loaded.requester THEN new.requester ELSE cur.requester
         /\ u.approver = IF new.approver # loaded.approver THEN new.approver ELSE cur.approver
<1> DEFINE Cols == {"status", "requester", "step", "approver", "completed", "reason"}
           u == Updated(cur, loaded, new)
<1>1. DOMAIN cur = Cols
  BY DEF RequestRow
<1>2. u = [c \in Cols |-> IF new[c] # loaded[c] THEN new[c] ELSE cur[c]]
  BY <1>1 DEF Updated
<1>3. /\ u.status = IF new.status # loaded.status THEN new.status ELSE cur.status
      /\ u.requester = IF new.requester # loaded.requester THEN new.requester ELSE cur.requester
      /\ u.approver = IF new.approver # loaded.approver THEN new.approver ELSE cur.approver
      /\ u.step = IF new.step # loaded.step THEN new.step ELSE cur.step
      /\ u.completed = IF new.completed # loaded.completed THEN new.completed ELSE cur.completed
      /\ u.reason = IF new.reason # loaded.reason THEN new.reason ELSE cur.reason
  BY <1>2
<1>4. u = [c \in Cols |-> u[c]]
  BY <1>2
<1>. HIDE DEF u
<1>5. u \in RequestRow
  BY <1>3, <1>4 DEF RequestRow
<1>. QED  BY <1>3, <1>5 DEF u

(* One more entry: earlier entries stay, and so does who was assigned.     *)
Grown(q, e) ==
  /\ history' \in [Requests -> Seq(Entry)]
  /\ history'[q] # <<>>
  /\ \A p \in Requests : p # q => history'[p] = history[p]
  /\ \A p \in Requests : \A u : WasAssigned(history[p], u) => WasAssigned(history'[p], u)
  /\ \A u : e.assignee = u => WasAssigned(history'[q], u)
  /\ \A p \in Requests : \A i \in DOMAIN history'[p] :
       \/ i \in DOMAIN history[p] /\ history'[p][i] = history[p][i]
       \/ p = q /\ history'[p][i] = e

(* An entry by the requester or the assigned approver fits a history.      *)
LEMMA HistoryGrows ==
  ASSUME history \in [Requests -> Seq(Entry)],
         NEW q \in Requests, NEW e \in Entry,
         history' = [history EXCEPT ![q] = Append(history[q], e)],
         DecidedByAssignee, e.action = "submitted" \/ WasAssigned(history[q], e.actor)
  PROVE  Grown(q, e) /\ DecidedByAssignee'
<1> DEFINE h == history[q]
           n == Len(h)
<1>1. h \in Seq(Entry) /\ n \in Nat /\ DOMAIN h = 1..n
  OBVIOUS
<1>2. /\ history'[q] = Append(h, e)
      /\ \A p \in Requests : p # q => history'[p] = history[p]
  OBVIOUS
<1>3. /\ Append(h, e) \in Seq(Entry) /\ DOMAIN Append(h, e) = 1..(n + 1)
      /\ Append(h, e)[n + 1] = e /\ Append(h, e) # <<>>
      /\ \A i \in 1..n : Append(h, e)[i] = h[i]
  BY <1>1
<1>4. history' \in [Requests -> Seq(Entry)]
  BY <1>3
<1>. HIDE DEF h, n
<1>5. \A p \in Requests : \A i \in DOMAIN history'[p] :
        \/ i \in DOMAIN history[p] /\ history'[p][i] = history[p][i]
        \/ p = q /\ i = n + 1 /\ history'[p][i] = e
  BY <1>1, <1>2, <1>3 DEF h
<1>6. \A p \in Requests : \A i \in DOMAIN history[p] :
        i \in DOMAIN history'[p] /\ history'[p][i] = history[p][i]
  BY <1>1, <1>2, <1>3 DEF h
<1>7. n + 1 \in DOMAIN history'[q] /\ history'[q][n + 1] = e
  BY <1>1, <1>2, <1>3
<1>8. DecidedByAssignee'
  <2> SUFFICES ASSUME NEW p \in Requests, NEW i \in DOMAIN history'[p],
                      history'[p][i].action # "submitted"
               PROVE  \E j \in 1..(i - 1) : history'[p][j].assignee = history'[p][i].actor
    BY DEF DecidedByAssignee
  <2>1. CASE i \in DOMAIN history[p] /\ history'[p][i] = history[p][i]
    <3>1. PICK j \in 1..(i - 1) : history[p][j].assignee = history[p][i].actor
      BY <2>1 DEF DecidedByAssignee
    <3>2. j \in DOMAIN history[p]
      BY <2>1, <3>1
    <3>. QED  BY <1>6, <2>1, <3>1, <3>2
  <2>2. CASE p = q /\ i = n + 1 /\ history'[p][i] = e
    <3>1. PICK j \in DOMAIN h : h[j].assignee = e.actor
      BY <2>2 DEF WasAssigned, h
    <3>2. j \in 1..(i - 1)
      BY <1>1, <2>2, <3>1
    <3>. QED  BY <1>6, <2>2, <3>1, <3>2 DEF h
  <2>. QED  BY <1>5, <2>1, <2>2
<1>9. \A p \in Requests : \A u : WasAssigned(history[p], u) => WasAssigned(history'[p], u)
  BY <1>6 DEF WasAssigned
<1>10. \A u : e.assignee = u => WasAssigned(history'[q], u)
  BY <1>7 DEF WasAssigned
<1>. QED  BY <1>2, <1>3, <1>4, <1>5, <1>8, <1>9, <1>10 DEF Grown

-----------------------------------------------------------------------------
(* Submissions and decisions                                               *)

(* A committed operation on q keeps the invariant if it leaves the         *)
(* requester alone, its actor was assigned, and the new approver is        *)
(* another user who is recorded and notified, as is a final outcome.       *)
LEMMA CommittedOperation ==
  ASSUME WorkflowInv, NEW q \in Requests,
         NEW new, new \in RequestRow, NEW e, e \in Entry,
         row' = [row EXCEPT ![q] = new],
         history' = [history EXCEPT ![q] = Append(history[q], e)],
         notified \subseteq notified',
         notified' \subseteq [type: NotificationTypes, to: Users, request: Requests],
         session' \in [Workers -> Session \cup {None}],
         \A w \in Workers : session'[w] = session[w] \/ session'[w] = None,
         UNCHANGED <<dirVars, step, typeActive, updating, edits, edited>>,
         new.status # "absent", new.requester \in Users,
         row[q].status # "absent" => new.requester = row[q].requester,
         e.action = "submitted" \/ (e.actor # new.requester /\ WasAssigned(history[q], e.actor)),
         new.approver # None =>
           /\ new.approver # new.requester
           /\ e.assignee = new.approver \/ WasAssigned(history[q], new.approver)
           /\ Notice("assigned", new.approver, q) \in notified',
         new.status \in {"approved", "rejected"} =>
           Notice(new.status, new.requester, q) \in notified'
  PROVE  WorkflowInv'
<1>1. /\ TypeOK /\ StepsConfigured /\ RowsOwned /\ SessionsCurrent
      /\ NoSelfDecision /\ DecidedByAssignee /\ NotifiedOfDuty
  BY DEF WorkflowInv
<1>2. /\ row \in [Requests -> RequestRow] /\ history \in [Requests -> Seq(Entry)]
      /\ row'[q] = new
      /\ \A p \in Requests : p # q => row'[p] = row[p]
  BY <1>1 DEF TypeOK
<1>3. Grown(q, e) /\ DecidedByAssignee'
  BY <1>1, <1>2, HistoryGrows
<1>4. TypeOK'
  BY <1>1, <1>2, <1>3
  DEF Grown, TypeOK, DirTypeOK, dirVars, UserRow, EmployeeRow, TitleRow, TeamRow, DepartmentRow, Maybe
<1>5. StepsConfigured'
  BY <1>1 DEF StepsConfigured
<1>6. RowsOwned'
  <2> SUFFICES ASSUME NEW p \in Requests
               PROVE  /\ row'[p].status = "absent" => row'[p].approver = None /\ history'[p] = <<>>
                      /\ row'[p].status # "absent" => row'[p].requester \in Users
                      /\ row'[p].approver # None => WasAssigned(history'[p], row'[p].approver)
    BY DEF RowsOwned
  <2>1. CASE p = q
    BY <1>2, <1>3, <2>1 DEF Grown
  <2>2. CASE p # q
    BY <1>1, <1>2, <1>3, <2>2 DEF Grown, RowsOwned
  <2>. QED  BY <2>1, <2>2
<1>7. SessionsCurrent'
  <2> SUFFICES ASSUME NEW w \in Workers, session'[w] # None
               PROVE  LET x == session'[w] IN
                      /\ row'[x.request].status # "absent"
                      /\ x.loaded.status = "in_progress"
                      /\ x.loaded.requester = row'[x.request].requester
                      /\ x.loaded.approver = x.actor
                      /\ x.actor # x.loaded.requester
                      /\ WasAssigned(history'[x.request], x.actor)
    BY DEF SessionsCurrent
  <2> DEFINE x == session[w]
  <2>1. session'[w] = x /\ x \in Session /\ x.request \in Requests
    BY <1>1 DEF TypeOK, Session
  <2>2. /\ row[x.request].status # "absent"
        /\ x.loaded.status = "in_progress"
        /\ x.loaded.requester = row[x.request].requester
        /\ x.loaded.approver = x.actor
        /\ x.actor # x.loaded.requester
        /\ WasAssigned(history[x.request], x.actor)
    BY <1>1, <2>1 DEF SessionsCurrent
  <2>3. WasAssigned(history'[x.request], x.actor)
    BY <1>3, <2>1, <2>2 DEF Grown
  <2>4. /\ row'[x.request].status # "absent"
        /\ row'[x.request].requester = row[x.request].requester
    BY <1>2, <2>1, <2>2
  <2>. QED  BY <2>1, <2>2, <2>3, <2>4
<1>8. NoSelfDecision'
  <2> SUFFICES ASSUME NEW p \in Requests
               PROVE  /\ row'[p].approver # None => row'[p].approver # row'[p].requester
                      /\ \A i \in DOMAIN history'[p] :
                           history'[p][i].action # "submitted" =>
                             history'[p][i].actor # row'[p].requester
    BY DEF NoSelfDecision
  <2>1. CASE p = q
    <3>1. row[q].status = "absent" => DOMAIN history[q] = {}
      BY <1>1 DEF RowsOwned
    <3>. QED  BY <1>1, <1>2, <1>3, <2>1, <3>1 DEF Grown, NoSelfDecision
  <2>2. CASE p # q
    BY <1>1, <1>2, <1>3, <2>2 DEF Grown, NoSelfDecision
  <2>. QED  BY <2>1, <2>2
<1>9. NotifiedOfDuty'
  BY <1>1, <1>2 DEF NotifiedOfDuty, Notice
<1>. QED  BY <1>3, <1>4, <1>5, <1>6, <1>7, <1>8, <1>9 DEF WorkflowInv

(* A submission keeps the invariant.                                       *)
LEMMA CreateKeepsInv ==
  ASSUME WorkflowInv, NEW q \in Requests, NEW r \in Users, CreateRequest(q, r)
  PROVE  WorkflowInv'
<1> DEFINE new == Advanced(r, 0)
           e == HistoryEntry("submitted", r, None, r, 0)
<1>1. TypeOK /\ StepsConfigured
  BY DEF WorkflowInv
<1>2. ~WalkFails(r, 0)
  <2>1. step \in [Steps -> StepRow]
    BY <1>1 DEF TypeOK
  <2>. QED  BY <2>1, FirstStopIsStop DEF CreateRequest, WalkFails, Stops
<1>3. /\ new \in RequestRow /\ new.requester = r /\ new.approver = Assignee(r, 0)
      /\ new.status \in {"approved", "in_progress"}
      /\ new.status = "approved" <=> Assignee(r, 0) = None
      /\ Assignee(r, 0) \in Maybe(Users) /\ Assignee(r, 0) # r
  BY <1>1, <1>2, AdvancedType
<1>4. e \in Entry /\ e.action = "submitted" /\ e.assignee = Assignee(r, 0)
  BY <1>1, <1>2, EntryType DEF Maybe
<1>5. /\ row' = [row EXCEPT ![q] = new]
      /\ history' = [history EXCEPT ![q] = Append(history[q], e)]
      /\ notified' = notified \cup AssignmentNotices(q, r, new)
      /\ session' = session /\ UNCHANGED <<dirVars, step, typeActive, updating, edits, edited>>
      /\ row[q].status = "absent"
  BY DEF CreateRequest
<1>. HIDE DEF new, e
<1>6. AssignmentNotices(q, r, new) =
        IF new.approver # None THEN {Notice("assigned", new.approver, q)}
                               ELSE {Notice("approved", r, q)}
  BY DEF AssignmentNotices
<1>7. /\ notified \subseteq notified'
      /\ notified' \subseteq [type: NotificationTypes, to: Users, request: Requests]
  BY <1>1, <1>3, <1>5, <1>6 DEF TypeOK, Notice, NotificationTypes, Maybe
<1>8. session' \in [Workers -> Session \cup {None}]
  BY <1>1, <1>5 DEF TypeOK
<1>. QED  BY <1>3, <1>4, <1>5, <1>6, <1>7, <1>8, CommittedOperation

(* What a worker knows of the request it has loaded.                       *)
LEMMA SessionFacts ==
  ASSUME WorkflowInv, NEW w \in Workers, session[w] # None
  PROVE  LET x == session[w] IN
         /\ x \in Session /\ x.request \in Requests /\ x.actor \in Users
         /\ x.loaded \in RequestRow /\ row[x.request] \in RequestRow
         /\ row[x.request].status # "absent"
         /\ x.loaded.status = "in_progress"
         /\ x.loaded.requester \in Users
         /\ x.loaded.requester = row[x.request].requester
         /\ x.actor # x.loaded.requester
         /\ WasAssigned(history[x.request], x.actor)
         /\ row[x.request].approver # None =>
              /\ row[x.request].approver # row[x.request].requester
              /\ WasAssigned(history[x.request], row[x.request].approver)
              /\ Notice("assigned", row[x.request].approver, x.request) \in notified
         /\ row[x.request].status \in {"approved", "rejected"} =>
              Notice(row[x.request].status, row[x.request].requester, x.request) \in notified
<1> DEFINE x == session[w]
<1>1. x \in Session /\ row \in [Requests -> RequestRow]
  BY DEF WorkflowInv, TypeOK
<1>2. x.request \in Requests /\ x.actor \in Users /\ x.loaded \in RequestRow
  BY <1>1 DEF Session
<1>3. /\ row[x.request].status # "absent"
      /\ x.loaded.status = "in_progress"
      /\ x.loaded.requester = row[x.request].requester
      /\ x.actor # x.loaded.requester
      /\ WasAssigned(history[x.request], x.actor)
  BY DEF WorkflowInv, SessionsCurrent
<1>4. /\ row[x.request].status # "absent" => row[x.request].requester \in Users
      /\ row[x.request].approver # None => WasAssigned(history[x.request], row[x.request].approver)
  BY <1>2 DEF WorkflowInv, RowsOwned
<1>5. row[x.request].approver # None => row[x.request].approver # row[x.request].requester
  BY <1>2 DEF WorkflowInv, NoSelfDecision
<1>6. /\ row[x.request].approver # None =>
           Notice("assigned", row[x.request].approver, x.request) \in notified
      /\ row[x.request].status \in {"approved", "rejected"} =>
           Notice(row[x.request].status, row[x.request].requester, x.request) \in notified
  BY <1>2 DEF WorkflowInv, NotifiedOfDuty
<1>. QED  BY <1>1, <1>2, <1>3, <1>4, <1>5, <1>6

(* A finished request leaves typed sessions.                               *)
LEMMA FinishType ==
  ASSUME TypeOK, NEW w \in Workers, Finish(w)
  PROVE  /\ session' \in [Workers -> Session \cup {None}]
         /\ \A v \in Workers : session'[v] = session[v] \/ session'[v] = None
  BY DEF TypeOK, Finish

(* An approval keeps the invariant.                                        *)
LEMMA ApproveKeepsInv ==
  ASSUME WorkflowInv, NEW w \in Workers, CommitApprove(w)
  PROVE  WorkflowInv'
<1> DEFINE x == session[w]
           q == x.request
           r == x.loaded.requester
           adv == Advanced(r, x.order)
           new == Updated(row[q], x.loaded, adv)
           e == HistoryEntry("approved", x.actor, x.loaded.step, r, x.order)
<1>1. TypeOK /\ StepsConfigured
  BY DEF WorkflowInv
<1>2. /\ x # None /\ ~WalkFails(r, x.order)
      /\ row' = [row EXCEPT ![q] = new]
      /\ history' = [history EXCEPT ![q] = Append(history[q], e)]
      /\ notified' = notified \cup AssignmentNotices(q, r, adv)
                     \cup (IF adv.approver # None THEN {Notice("step_updated", r, q)} ELSE {})
      /\ Finish(w) /\ UNCHANGED <<dirVars, step, typeActive, updating, edits, edited>>
  BY DEF CommitApprove
<1>3. /\ q \in Requests /\ x.actor \in Users /\ r \in Users
      /\ x.loaded \in RequestRow /\ row[q] \in RequestRow
      /\ x.loaded.status = "in_progress" /\ row[q].status # "absent"
      /\ r = row[q].requester /\ x.actor # r
      /\ WasAssigned(history[q], x.actor)
      /\ row[q].approver # None =>
           /\ row[q].approver # row[q].requester
           /\ WasAssigned(history[q], row[q].approver)
           /\ Notice("assigned", row[q].approver, q) \in notified
      /\ row[q].status \in {"approved", "rejected"} =>
           Notice(row[q].status, row[q].requester, q) \in notified
  BY <1>2, SessionFacts
<1>4. x.loaded.step \in Maybe(Steps)
  BY <1>3 DEF RequestRow
<1>. HIDE DEF x, q, r
<1>5. /\ adv \in RequestRow /\ adv.requester = r /\ adv.approver = Assignee(r, x.order)
      /\ adv.status \in {"approved", "in_progress"}
      /\ adv.status = "approved" <=> adv.approver = None
      /\ adv.approver \in Maybe(Users) /\ adv.approver # r
  BY <1>1, <1>2, <1>3, AdvancedType
<1>6. /\ e \in Entry /\ e.action = "approved" /\ e.actor = x.actor
      /\ e.assignee = adv.approver
  BY <1>1, <1>2, <1>3, <1>4, <1>5, EntryType
<1>. HIDE DEF adv, e
<1>7. /\ new \in RequestRow
      /\ new.status = IF adv.status # "in_progress" THEN adv.status ELSE row[q].status
      /\ new.requester = r
      /\ new.approver = adv.approver \/ new.approver = row[q].approver
  BY <1>3, <1>5, UpdatedRow DEF r
<1>. HIDE DEF new
<1>8. AssignmentNotices(q, r, adv) =
        IF adv.approver # None THEN {Notice("assigned", adv.approver, q)}
                               ELSE {Notice("approved", r, q)}
  BY DEF AssignmentNotices
<1>9. /\ notified \subseteq notified'
      /\ adv.approver # None => Notice("assigned", adv.approver, q) \in notified'
      /\ adv.approver = None => Notice("approved", r, q) \in notified'
  BY <1>2, <1>8
<1>10. notified' \subseteq [type: NotificationTypes, to: Users, request: Requests]
  BY <1>1, <1>2, <1>3, <1>5, <1>8 DEF TypeOK, Notice, NotificationTypes, Maybe
<1>11. /\ session' \in [Workers -> Session \cup {None}]
       /\ \A v \in Workers : session'[v] = session[v] \/ session'[v] = None
  BY <1>1, <1>2, FinishType
<1>12. new.approver # None =>
         /\ new.approver # new.requester
         /\ e.assignee = new.approver \/ WasAssigned(history[q], new.approver)
         /\ Notice("assigned", new.approver, q) \in notified'
  BY <1>3, <1>5, <1>6, <1>7, <1>9
<1>13. new.status # "absent" /\ new.requester \in Users
  BY <1>3, <1>5, <1>7
<1>14. new.status \in {"approved", "rejected"} => Notice(new.status, new.requester, q) \in notified'
  BY <1>3, <1>5, <1>7, <1>9
<1>. QED
  BY <1>2, <1>3, <1>6, <1>7, <1>9, <1>10, <1>11, <1>12, <1>13, <1>14, CommittedOperation

(* A rejection keeps the invariant.                                        *)
LEMMA RejectKeepsInv ==
  ASSUME WorkflowInv, NEW w \in Workers, CommitReject(w)
  PROVE  WorkflowInv'
<1> DEFINE x == session[w]
           q == x.request
           r == x.loaded.requester
           rejected(comment) ==
             [x.loaded EXCEPT !.status = "rejected", !.step = None, !.approver = None,
                              !.completed = TRUE, !.reason = comment]
           e == [action |-> "rejected", actor |-> x.actor, step |-> x.loaded.step,
                 completed |-> {}, skipped |-> {}, next |-> None, assignee |-> None]
<1>1. TypeOK
  BY DEF WorkflowInv
<1>2. PICK comment \in BOOLEAN :
        row' = [row EXCEPT ![q] = Updated(row[q], x.loaded, rejected(comment))]
  BY DEF CommitReject
<1>3. /\ x # None
      /\ history' = [history EXCEPT ![q] = Append(history[q], e)]
      /\ notified' = notified \cup {Notice("rejected", r, q)}
      /\ Finish(w) /\ UNCHANGED <<dirVars, step, typeActive, updating, edits, edited>>
  BY DEF CommitReject
<1>4. /\ q \in Requests /\ x.actor \in Users /\ r \in Users
      /\ x.loaded \in RequestRow /\ row[q] \in RequestRow
      /\ x.loaded.status = "in_progress" /\ row[q].status # "absent"
      /\ r = row[q].requester /\ x.actor # r
      /\ WasAssigned(history[q], x.actor)
      /\ row[q].approver # None =>
           /\ row[q].approver # row[q].requester
           /\ WasAssigned(history[q], row[q].approver)
           /\ Notice("assigned", row[q].approver, q) \in notified
  BY <1>3, SessionFacts
<1> DEFINE rej == rejected(comment)
           new == Updated(row[q], x.loaded, rej)
<1>5. /\ rej \in RequestRow /\ rej.status = "rejected" /\ rej.requester = r
      /\ rej.approver = None
  BY <1>4 DEF RequestRow, Statuses, Maybe
<1>6. e \in Entry /\ e.actor = x.actor
  <2>1. x.loaded.step \in Maybe(Steps)
    BY <1>4 DEF RequestRow
  <2>. QED  BY <1>4, <2>1 DEF Entry, Maybe
<1>7. /\ session' \in [Workers -> Session \cup {None}]
      /\ \A v \in Workers : session'[v] = session[v] \/ session'[v] = None
  BY <1>1, <1>3, FinishType
<1>. HIDE DEF x, q, r, e, rejected, rej
<1>8. /\ new \in RequestRow /\ new.status = "rejected" /\ new.requester = r
      /\ new.approver = None \/ new.approver = row[q].approver
  BY <1>4, <1>5, UpdatedRow DEF r
<1>9. /\ notified \subseteq notified' /\ Notice("rejected", r, q) \in notified'
      /\ notified' \subseteq [type: NotificationTypes, to: Users, request: Requests]
  BY <1>1, <1>3, <1>4 DEF TypeOK, Notice, NotificationTypes
<1>10. row' = [row EXCEPT ![q] = new]
  BY <1>2 DEF rej
<1>. HIDE DEF new
<1>. QED
  BY <1>3, <1>4, <1>6, <1>7, <1>8, <1>9, <1>10, CommittedOperation

-----------------------------------------------------------------------------
(* Steps that leave requests, history and notifications alone              *)

(* If rows, history and notifications stay, what is left to show are the   *)
(* types, the configuration and the sessions.                              *)
LEMMA RequestsUntouched ==
  ASSUME WorkflowInv, UNCHANGED <<row, history, notified>>,
         TypeOK', StepsConfigured',
         \A w \in Workers : session'[w] = session[w] \/ session'[w] = None
  PROVE  WorkflowInv'
<1>1. /\ RowsOwned' /\ NoSelfDecision' /\ DecidedByAssignee' /\ NotifiedOfDuty'
  BY DEF WorkflowInv, RowsOwned, NoSelfDecision, DecidedByAssignee, NotifiedOfDuty
<1>2. SessionsCurrent'
  BY DEF WorkflowInv, SessionsCurrent
<1>. QED  BY <1>1, <1>2 DEF WorkflowInv

(* Loading a request keeps the invariant.                                  *)
LEMMA LoadKeepsInv ==
  ASSUME WorkflowInv, NEW w \in Workers, NEW u \in Users, NEW q \in Requests,
         NEW d \in {"approve", "reject"}, LoadForDecision(w, u, q, d)
  PROVE  WorkflowInv'
<1> DEFINE x == [decision |-> d, actor |-> u, request |-> q, loaded |-> row[q],
                 order |-> step[row[q].step].order]
<1>1. /\ TypeOK /\ StepsConfigured /\ RowsOwned /\ SessionsCurrent
      /\ NoSelfDecision /\ DecidedByAssignee /\ NotifiedOfDuty
  BY DEF WorkflowInv
<1>2. /\ session' = [session EXCEPT ![w] = x]
      /\ row[q].status = "in_progress" /\ row[q].step # None /\ row[q].approver = u
      /\ UNCHANGED <<dirVars, step, typeActive, row, history, notified, updating, edits, edited>>
  BY DEF LoadForDecision, Actionable
<1>3. row[q] \in RequestRow /\ row[q].step \in Steps
  BY <1>1, <1>2 DEF TypeOK, RequestRow, Maybe
<1>4. x \in Session
  BY <1>1, <1>3 DEF TypeOK, StepRow, Session
<1>5. /\ x.request = q /\ x.actor = u /\ x.loaded = row[q]
  OBVIOUS
<1>. HIDE DEF x
<1>6. TypeOK'
  BY <1>1, <1>2, <1>4
  DEF TypeOK, DirTypeOK, dirVars, UserRow, EmployeeRow, TitleRow, TeamRow, DepartmentRow, Maybe
<1>7. /\ StepsConfigured' /\ RowsOwned' /\ NoSelfDecision' /\ DecidedByAssignee'
      /\ NotifiedOfDuty'
  BY <1>1, <1>2
  DEF StepsConfigured, RowsOwned, NoSelfDecision, DecidedByAssignee, NotifiedOfDuty
<1>8. u # None /\ u # row[q].requester /\ WasAssigned(history[q], u)
  BY <1>1, <1>2, NoneIsNoId DEF NoSelfDecision, RowsOwned
<1>9. SessionsCurrent'
  <2>1. session'[w] = x /\ \A v \in Workers : v # w => session'[v] = session[v]
    BY <1>1, <1>2 DEF TypeOK
  <2>. QED  BY <1>1, <1>2, <1>5, <1>8, <2>1 DEF SessionsCurrent
<1>. QED  BY <1>6, <1>7, <1>9 DEF WorkflowInv

(* A request that ends without a commit keeps it.                          *)
LEMMA RollbackKeepsInv ==
  ASSUME WorkflowInv, NEW w \in Workers, RollbackApprove(w)
  PROVE  WorkflowInv'
<1>1. TypeOK /\ StepsConfigured
  BY DEF WorkflowInv
<1>2. Finish(w) /\ UNCHANGED <<dirVars, step, typeActive, row, history, notified, updating, edits, edited>>
  BY DEF RollbackApprove
<1>3. /\ session' \in [Workers -> Session \cup {None}]
      /\ \A v \in Workers : session'[v] = session[v] \/ session'[v] = None
  BY <1>1, <1>2, FinishType
<1>4. TypeOK'
  BY <1>1, <1>2, <1>3
  DEF TypeOK, DirTypeOK, dirVars, UserRow, EmployeeRow, TitleRow, TeamRow, DepartmentRow, Maybe
<1>5. StepsConfigured'
  BY <1>1, <1>2 DEF StepsConfigured
<1>. QED  BY <1>2, <1>3, <1>4, <1>5, RequestsUntouched

(* An edit changes the configuration or the directory to well-typed values.*)
LEMMA EditKeepsInv ==
  ASSUME WorkflowInv, edits < MaxEdits, NEW what \in SUBSET Edits, Edit(what), DirTypeOK', step' \in [Steps -> StepRow], typeActive' \in BOOLEAN,
         StepsConfigured'
  PROVE  WorkflowInv'
<1>1. TypeOK
  BY DEF WorkflowInv
<1>2. TypeOK'
  BY <1>1, MaxEditsIsNat DEF TypeOK, Edit
<1>. QED  BY <1>2, RequestsUntouched DEF Edit

(* A new step keeps the invariant.                                         *)
LEMMA StepCreateKeepsInv ==
  ASSUME WorkflowInv, edits < MaxEdits, NEW s \in Steps, NEW new \in StepRow,
         CreateWorkflowStep(s, new)
  PROVE  WorkflowInv'
<1>1. TypeOK /\ StepsConfigured
  BY DEF WorkflowInv
<1>2. /\ step' = [step EXCEPT ![s] = new]
      /\ WellConfigured(new.kind, new.resolver, new.jobTitle)
      /\ UNCHANGED <<dirVars, typeActive>> /\ Edit({"create"})
  BY DEF CreateWorkflowStep, ConfigurationAllowed
<1>3. DirTypeOK'
  BY <1>1, <1>2
  DEF TypeOK, DirTypeOK, dirVars, UserRow, EmployeeRow, TitleRow, TeamRow, DepartmentRow, Maybe
<1>4. step' \in [Steps -> StepRow] /\ typeActive' \in BOOLEAN
  BY <1>1, <1>2 DEF TypeOK
<1>5. StepsConfigured'
  BY <1>1, <1>2 DEF TypeOK, StepsConfigured, Edit
<1>6. {"create"} \in SUBSET Edits
  BY DEF Edits
<1>. QED  BY <1>2, <1>3, <1>4, <1>5, <1>6, EditKeepsInv

(* An update of a step starts from a validated combination of values.      *)
LEMMA LoadUpdateKeepsInv ==
  ASSUME WorkflowInv, edits < MaxEdits, NEW e \in Editors, NEW s \in Steps, NEW new \in StepRow,
         LoadStepUpdate(e, s, new)
  PROVE  WorkflowInv'
<1> DEFINE x == [step |-> s, loaded |-> step[s], new |-> new]
<1>1. TypeOK /\ StepsConfigured
  BY DEF WorkflowInv
<1>2. /\ WellConfigured(new.kind, new.resolver, new.jobTitle)
      /\ updating' = [updating EXCEPT ![e] = x] /\ edits' = edits + 1
      /\ UNCHANGED <<dirVars, step, typeActive, row, history, notified, session, edited>>
  BY DEF LoadStepUpdate, ConfigurationAllowed
<1>3. x \in StepUpdate /\ x.new = new
  BY <1>1 DEF TypeOK, StepUpdate
<1>. HIDE DEF x
<1>4. DirTypeOK'
  BY <1>1, <1>2
  DEF TypeOK, DirTypeOK, dirVars, UserRow, EmployeeRow, TitleRow, TeamRow, DepartmentRow, Maybe
<1>5. TypeOK'
  BY <1>1, <1>2, <1>3, <1>4, MaxEditsIsNat DEF TypeOK
<1>6. StepsConfigured'
  <2>1. \A f \in Editors : updating'[f] = IF f = e THEN x ELSE updating[f]
    BY <1>1, <1>2 DEF TypeOK
  <2>. QED  BY <1>1, <1>2, <1>3, <2>1 DEF StepsConfigured
<1>. QED  BY <1>2, <1>5, <1>6, RequestsUntouched

(* The UPDATE of a step: columns equal to the loaded ones keep their value.*)
LEMMA UpdatedStep ==
  ASSUME NEW cur \in StepRow, NEW loaded \in StepRow, NEW new \in StepRow
  PROVE  LET u == Updated(cur, loaded, new) IN
         /\ u \in StepRow
         /\ u.present = IF new.present # loaded.present THEN new.present ELSE cur.present
         /\ u.order = IF new.order # loaded.order THEN new.order ELSE cur.order
         /\ u.kind = IF new.kind # loaded.kind THEN new.kind ELSE cur.kind
         /\ u.resolver = IF new.resolver # loaded.resolver THEN new.resolver ELSE cur.resolver
         /\ u.jobTitle = IF new.jobTitle # loaded.jobTitle THEN new.jobTitle ELSE cur.jobTitle
         /\ u.active = IF new.active # loaded.active THEN new.active ELSE cur.active
<1> DEFINE Cols == {"present", "order", "kind", "resolver", "jobTitle", "required", "active"}
           u == Updated(cur, loaded, new)
<1>1. DOMAIN cur = Cols
  BY DEF StepRow
<1>2. u = [c \in Cols |-> IF new[c] # loaded[c] THEN new[c] ELSE cur[c]]
  BY <1>1 DEF Updated
<1>3. /\ u.present = IF new.present # loaded.present THEN new.present ELSE cur.present
      /\ u.order = IF new.order # loaded.order THEN new.order ELSE cur.order
      /\ u.kind = IF new.kind # loaded.kind THEN new.kind ELSE cur.kind
      /\ u.resolver = IF new.resolver # loaded.resolver THEN new.resolver ELSE cur.resolver
      /\ u.jobTitle = IF new.jobTitle # loaded.jobTitle THEN new.jobTitle ELSE cur.jobTitle
      /\ u.required = IF new.required # loaded.required THEN new.required ELSE cur.required
      /\ u.active = IF new.active # loaded.active THEN new.active ELSE cur.active
  BY <1>2
<1>4. u = [c \in Cols |-> u[c]]
  BY <1>2
<1>. HIDE DEF u
<1>5. u \in StepRow
  BY <1>3, <1>4 DEF StepRow
<1>. QED  BY <1>3, <1>5 DEF u

(* A commit of an update sends columns that were validated together; only  *)
(* beside columns another update has changed may they not fit.             *)
LEMMA CommitUpdateKeepsInv ==
  ASSUME WorkflowInv, NEW e \in Editors, CommitStepUpdate(e)
  PROVE  WorkflowInv'
<1> DEFINE x == updating[e]
           new == Updated(step[x.step], x.loaded, x.new)
           what == ChangedColumns(x.loaded, x.new) \cup (IF Mixes(x) THEN {"mixed"} ELSE {})
<1>1. TypeOK /\ StepsConfigured
  BY DEF WorkflowInv
<1>2. /\ x # None
      /\ step' = [step EXCEPT ![x.step] = new]
      /\ updating' = [updating EXCEPT ![e] = None]
      /\ edited' = edited \cup what
      /\ UNCHANGED <<dirVars, typeActive, row, history, notified, session, edits>>
  BY DEF CommitStepUpdate
<1>3. x.step \in Steps /\ x.loaded \in StepRow /\ x.new \in StepRow /\ step[x.step] \in StepRow
  BY <1>1, <1>2 DEF TypeOK, StepUpdate
<1>4. WellConfigured(x.new.kind, x.new.resolver, x.new.jobTitle)
  BY <1>1, <1>2 DEF StepsConfigured
<1>5. what \subseteq Edits
  BY DEF Edits, ChangedColumns
<1>6. "mixed" \notin what =>
        /\ step[x.step].kind = x.loaded.kind /\ step[x.step].resolver = x.loaded.resolver
        /\ step[x.step].jobTitle = x.loaded.jobTitle
  BY DEF Mixes, Configuration
<1>. HIDE DEF x, what
<1>7. /\ new \in StepRow
      /\ "mixed" \notin what => WellConfigured(new.kind, new.resolver, new.jobTitle)
  BY <1>3, <1>4, <1>6, UpdatedStep
<1>. HIDE DEF new
<1>8. DirTypeOK'
  BY <1>1, <1>2
  DEF TypeOK, DirTypeOK, dirVars, UserRow, EmployeeRow, TitleRow, TeamRow, DepartmentRow, Maybe
<1>9. TypeOK'
  BY <1>1, <1>2, <1>5, <1>7, <1>8 DEF TypeOK
<1>10. StepsConfigured'
  <2>1. \A s \in Steps : step'[s] = IF s = x.step THEN new ELSE step[s]
    BY <1>1, <1>2 DEF TypeOK
  <2>2. \A f \in Editors : updating'[f] = IF f = e THEN None ELSE updating[f]
    BY <1>1, <1>2 DEF TypeOK
  <2>. QED  BY <1>1, <1>2, <1>7, <2>1, <2>2 DEF StepsConfigured
<1>. QED  BY <1>2, <1>9, <1>10, RequestsUntouched

(* A refused commit changes no step.                                       *)
LEMMA RollbackUpdateKeepsInv ==
  ASSUME WorkflowInv, NEW e \in Editors, RollbackStepUpdate(e)
  PROVE  WorkflowInv'
<1>1. TypeOK /\ StepsConfigured
  BY DEF WorkflowInv
<1>2. /\ updating' = [updating EXCEPT ![e] = None]
      /\ UNCHANGED <<dirVars, step, typeActive, row, history, notified, session, edits, edited>>
  BY DEF RollbackStepUpdate
<1>3. DirTypeOK'
  BY <1>1, <1>2
  DEF TypeOK, DirTypeOK, dirVars, UserRow, EmployeeRow, TitleRow, TeamRow, DepartmentRow, Maybe
<1>4. TypeOK'
  BY <1>1, <1>2, <1>3 DEF TypeOK
<1>5. StepsConfigured'
  <2>1. \A f \in Editors : updating'[f] = IF f = e THEN None ELSE updating[f]
    BY <1>1, <1>2 DEF TypeOK
  <2>. QED  BY <1>1, <1>2, <2>1 DEF StepsConfigured
<1>. QED  BY <1>2, <1>4, <1>5, RequestsUntouched

(* Edits of request types keep the invariant.                              *)
LEMMA TypeEditKeepsInv ==
  ASSUME WorkflowInv, edits < MaxEdits, UpdateRequestType
  PROVE  WorkflowInv'
<1>1. TypeOK /\ StepsConfigured
  BY DEF WorkflowInv
<1>2. typeActive' = ~typeActive /\ Edit({"type"}) /\ UNCHANGED <<dirVars, step>>
  BY DEF UpdateRequestType
<1>3. DirTypeOK'
  BY <1>1, <1>2
  DEF TypeOK, DirTypeOK, dirVars, UserRow, EmployeeRow, TitleRow, TeamRow, DepartmentRow, Maybe
<1>4. step' \in [Steps -> StepRow] /\ typeActive' \in BOOLEAN
  BY <1>1, <1>2 DEF TypeOK
<1>5. StepsConfigured'
  BY <1>1, <1>2 DEF StepsConfigured, Edit
<1>6. {"type"} \in SUBSET Edits
  BY DEF Edits
<1>. QED  BY <1>2, <1>3, <1>4, <1>5, <1>6, EditKeepsInv

(* Edits of the directory keep the invariant.                              *)
LEMMA DirectoryEditKeepsInv ==
  ASSUME WorkflowInv, edits < MaxEdits, DirectoryEdit
  PROVE  WorkflowInv'
<1>1. TypeOK /\ StepsConfigured /\ DirTypeOK
  BY DEF WorkflowInv, TypeOK
<1>2. Edit({"directory"}) /\ UNCHANGED <<step, typeActive>>
  BY DEF DirectoryEdit
<1>3. DirTypeOK'
  <2>1. ASSUME NEW u \in Users, NEW a \in BOOLEAN,
               NEW W \in SUBSET UpdateUserWrites(u, user[u], [active |-> a]), Commit(W)
        PROVE  DirTypeOK'
    <3> DEFINE ch == [active |-> a]
    <3>1. DOMAIN ch = {"active"} /\ ch["active"] \in BOOLEAN
      OBVIOUS
    <3>. HIDE DEF ch
    <3>2. user[u] \in UserRow
      BY <1>1 DEF DirTypeOK
    <3>3. WritesOK(UpdateUserWrites(u, user[u], ch))
      BY <3>1, <3>2, UpdateUserOK
    <3>4. WritesOK(W)
      BY <3>3 DEF WritesOK, ch
    <3>. QED  BY <1>1, <2>1, <3>4, CommitKeepsTypes
  <2>2. ASSUME NEW t \in Teams, NEW l \in Maybe(Users),
               Commit(UpdateTeamWrites(t, [leader |-> l]))
        PROVE  DirTypeOK'
    BY <1>1, <2>2, UpdateTeamOK, CommitKeepsTypes
  <2>3. ASSUME NEW jt \in Titles, Commit(DeactivateTitleWrites(jt))  PROVE DirTypeOK'
    BY <1>1, <2>3, DeactivateTitleOK, CommitKeepsTypes
  <2>. QED  BY <2>1, <2>2, <2>3 DEF DirectoryEdit
<1>4. step' \in [Steps -> StepRow] /\ typeActive' \in BOOLEAN
  BY <1>1, <1>2 DEF TypeOK
<1>5. StepsConfigured'
  BY <1>1, <1>2 DEF StepsConfigured, Edit
<1>6. {"directory"} \in SUBSET Edits
  BY DEF Edits
<1>. QED  BY <1>2, <1>3, <1>4, <1>5, <1>6, EditKeepsInv

-----------------------------------------------------------------------------
(* The invariant and the theorems                                          *)

(* An empty engine has the invariant.                                      *)
LEMMA InitInv == Init => WorkflowInv
<1> SUFFICES ASSUME Init  PROVE WorkflowInv
  OBVIOUS
<1>1. DirTypeOK
  BY InitialDirIsTyped DEF Init, DirTypeOK
<1>2. row \in [Requests -> RequestRow]
  BY DEF Init, NoRequest, RequestRow, Statuses, Maybe
<1>3. history \in [Requests -> Seq(Entry)]
  BY DEF Init
<1>4. TypeOK
  BY <1>1, <1>2, <1>3, InitialStepsAreValid, MaxEditsIsNat DEF Init, TypeOK
<1>5. StepsConfigured
  BY InitialStepsAreValid DEF Init, StepsConfigured
<1>6. \A q \in Requests : row[q] = NoRequest /\ history[q] = <<>> /\ DOMAIN history[q] = {}
  BY DEF Init
<1>7. RowsOwned /\ NoSelfDecision /\ DecidedByAssignee /\ NotifiedOfDuty
  BY <1>6 DEF NoRequest, RowsOwned, NoSelfDecision, DecidedByAssignee, NotifiedOfDuty
<1>8. SessionsCurrent
  BY DEF Init, SessionsCurrent
<1>. QED  BY <1>4, <1>5, <1>7, <1>8 DEF WorkflowInv

(* Every step keeps it.                                                    *)
LEMMA NextInv == WorkflowInv /\ [Next]_vars => WorkflowInv'
<1> SUFFICES ASSUME WorkflowInv, [Next]_vars  PROVE WorkflowInv'
  OBVIOUS
<1>1. CASE Engine
  BY <1>1, CreateKeepsInv, LoadKeepsInv, ApproveKeepsInv, RollbackKeepsInv, RejectKeepsInv
  DEF Engine
<1>2. CASE Administration
  BY <1>2, StepCreateKeepsInv, LoadUpdateKeepsInv, CommitUpdateKeepsInv, RollbackUpdateKeepsInv,
     TypeEditKeepsInv, DirectoryEditKeepsInv
  DEF Administration
<1>3. CASE UNCHANGED vars
  <2>1. TypeOK' /\ StepsConfigured'
    BY <1>3
    DEF WorkflowInv, TypeOK, StepsConfigured, vars, DirTypeOK, dirVars,
        UserRow, EmployeeRow, TitleRow, TeamRow, DepartmentRow, Maybe
  <2>. QED  BY <1>3, <2>1, RequestsUntouched DEF vars
<1>. QED  BY <1>1, <1>2, <1>3 DEF Next

(* The inductive invariant of the engine, with the types of its variables, *)
(* for any number of worker threads and any workflow.                      *)
THEOREM WorkflowInvariant == Spec => []WorkflowInv
  BY InitInv, NextInv, PTL DEF Spec

(* Nobody is ever the pending approver of, or decides on, the own request, *)
(* whatever requests, stale sessions and configuration changes interleave. *)
THEOREM NobodyDecidesOwnRequest == Spec => []NoSelfDecision
<1>1. WorkflowInv => NoSelfDecision
  BY DEF WorkflowInv
<1>. QED  BY <1>1, WorkflowInvariant, PTL

(* Every decision in the history was made by somebody an earlier committed *)
(* operation had assigned to the request.                                  *)
THEOREM DecisionsByAssignees == Spec => []DecidedByAssignee
<1>1. WorkflowInv => DecidedByAssignee
  BY DEF WorkflowInv
<1>. QED  BY <1>1, WorkflowInvariant, PTL

(* A pending approver has an assignment notification, and the requester of *)
(* a finished request has one of its outcome.                              *)
THEOREM DutiesAreNotified == Spec => []NotifiedOfDuty
<1>1. WorkflowInv => NotifiedOfDuty
  BY DEF WorkflowInv
<1>. QED  BY <1>1, WorkflowInvariant, PTL

-----------------------------------------------------------------------------
(* Decisions that do not overlap                                           *)

OneWorker == \A v, w \in Workers : v = w

(* The steps one history entry leaves behind.                              *)
LeftBehind(e) == {s \in Steps : s = e.step \/ s \in e.completed \cup e.skipped}

(* One more entry settles the steps it leaves behind.                      *)
LEMMA SettledGrows ==
  ASSUME history \in [Requests -> Seq(Entry)],
         NEW q \in Requests, NEW e \in Entry,
         history' = [history EXCEPT ![q] = Append(history[q], e)]
  PROVE  /\ Settled(q)' = Settled(q) \cup LeftBehind(e)
         /\ \A p \in Requests : p # q => Settled(p)' = Settled(p)
<1> DEFINE h == history[q]
           n == Len(h)
<1>1. h \in Seq(Entry) /\ n \in Nat /\ DOMAIN h = 1..n
  OBVIOUS
<1>2. /\ history'[q] = Append(h, e)
      /\ \A p \in Requests : p # q => history'[p] = history[p]
  OBVIOUS
<1>3. /\ DOMAIN Append(h, e) = 1..(n + 1)
      /\ Append(h, e)[n + 1] = e
      /\ \A i \in 1..n : Append(h, e)[i] = h[i]
  BY <1>1
<1>. HIDE DEF h, n
<1>4. \A i \in 1..(n + 1) : i = n + 1 \/ i \in 1..n
  BY <1>1
<1>5. 1..n \subseteq 1..(n + 1) /\ n + 1 \in 1..(n + 1)
  BY <1>1
<1>6. Settled(q) = {s \in Steps : \E i \in 1..n : s \in LeftBehind(h[i])}
  BY <1>1 DEF Settled, EntriesOn, LeftBehind, h
<1>7. Settled(q)' = {s \in Steps : \E i \in 1..(n + 1) : s \in LeftBehind(Append(h, e)[i])}
  <2>1. DOMAIN history'[q] = 1..(n + 1) /\ \A i \in 1..(n + 1) : history'[q][i] = Append(h, e)[i]
    BY <1>2, <1>3
  <2>. QED  BY <2>1 DEF Settled, EntriesOn, LeftBehind
<1>8. Settled(q)' = Settled(q) \cup LeftBehind(e)
  <2>1. LeftBehind(e) \subseteq Steps
    BY DEF LeftBehind
  <2>. QED  BY <1>3, <1>4, <1>5, <1>6, <1>7, <2>1
<1>9. \A p \in Requests : p # q => Settled(p)' = Settled(p)
  BY <1>2 DEF Settled, EntriesOn
<1>. QED  BY <1>8, <1>9

(* The evaluation of a step assigns, skips or fails.                       *)
LEMMA OutcomeIs ==
  ASSUME NEW r, NEW x, NEW req
  PROVE  Outcome(r, x, req) \in {"assign", "skip", "error"}
  BY DEF Outcome, Unresolved

(* The walk from a step on: it stops at a later approver step or at none,  *)
(* and completes or skips every remaining step before that.                *)
LEMMA WalkFacts ==
  ASSUME TypeOK, NEW r \in Users, NEW after \in Nat, ~WalkFails(r, after)
  PROVE  LET stop == FirstStop(r, after)
             passed == PassedWith(r, after, "complete") \cup PassedWith(r, after, "skip")
         IN  /\ stop # None =>
                  /\ stop \in Remaining(after) /\ step[stop].kind = "APPROVER"
                  /\ Assignee(r, after) \in Users
             /\ stop = None => Assignee(r, after) = None
             /\ passed \subseteq Remaining(after)
             /\ \A s \in Remaining(after) :
                  s \in passed <=> (stop = None \/ step[s].order < step[stop].order)
<1> DEFINE stop == FirstStop(r, after)
           passed == PassedWith(r, after, "complete") \cup PassedWith(r, after, "skip")
<1>1. step \in [Steps -> StepRow] /\ DirTypeOK
  BY DEF TypeOK
<1>2. IF Stops(r, after) = {} THEN stop = None
      ELSE stop \in Stops(r, after) /\ \A t \in Stops(r, after) : step[stop].order <= step[t].order
  BY <1>1, FirstStopIsStop
<1>3. ASSUME stop # None
      PROVE  stop \in Remaining(after) /\ step[stop].kind = "APPROVER"
  <2>1. stop \in Remaining(after) /\ OutcomeOf(r, stop) # "error" /\ OutcomeOf(r, stop) # "complete"
    BY <1>2, <1>3 DEF Stops, WalkFails
  <2>2. step[stop].kind \in StepKinds
    BY <1>1, <2>1 DEF Remaining, StepRow
  <2>. QED  BY <2>1, <2>2 DEF StepKinds, OutcomeOf
<1>4. \A s \in Remaining(after) : step[s].order \in Nat
  BY <1>1, OrdersArePositive DEF Remaining, StepRow
<1>5. ASSUME NEW s \in Remaining(after), stop = None \/ step[s].order < step[stop].order
      PROVE  OutcomeOf(r, s) \in {"complete", "skip"}
  <2>1. s \notin Stops(r, after)
    <3>1. CASE stop = None
      BY <1>2, <1>3, <3>1, NoneIsNoStep DEF Stops, Remaining
    <3>2. CASE stop # None
      BY <1>2, <1>3, <1>4, <1>5, <3>2
    <3>. QED  BY <3>1, <3>2
  <2>2. OutcomeOf(r, s) \in {"complete", "assign", "skip", "error"}
    BY OutcomeIs DEF OutcomeOf
  <2>. QED  BY <2>1, <2>2 DEF Stops
<1>6. /\ passed \subseteq Remaining(after)
      /\ \A s \in Remaining(after) :
           s \in passed <=> (stop = None \/ step[s].order < step[stop].order)
  BY <1>5 DEF PassedWith, Passed
<1>7. /\ stop # None => Assignee(r, after) \in Users
      /\ stop = None => Assignee(r, after) = None
  BY AssigneeIsOther
<1>. QED  BY <1>3, <1>6, <1>7

(* A flush of a row loaded as it is stores the new row.                    *)
LEMMA UpdatedFresh ==
  ASSUME NEW cur \in RequestRow, NEW new \in RequestRow
  PROVE  Updated(cur, cur, new) = new
<1> DEFINE Cols == {"status", "requester", "step", "approver", "completed", "reason"}
<1>1. DOMAIN cur = Cols /\ new = [c \in Cols |-> new[c]]
  BY DEF RequestRow
<1>2. Updated(cur, cur, new) = [c \in Cols |-> new[c]]
  BY <1>1 DEF Updated
<1>. QED  BY <1>1, <1>2

(* What is awaited, settled and left out after a committed operation on q  *)
(* that leaves the steps behind that e names and waits where new says.     *)
LEMMA SerialCommit ==
  ASSUME WorkflowInv, SerialInv, NEW q \in Requests,
         NEW new, new \in RequestRow, NEW e, e \in Entry,
         row' = [row EXCEPT ![q] = new],
         history' = [history EXCEPT ![q] = Append(history[q], e)],
         UNCHANGED <<step, updating, edited>>,
         \A w \in Workers : session'[w] # None =>
           session'[w] = session[w] /\ session[w].request # q,
         new.status # "absent", Coherent(new),
         new.status = "in_progress" =>
           step[new.step].present /\ step[new.step].kind = "APPROVER",
         \A s \in LeftBehind(e) : step[s].present,
         "order" \notin edited /\ new.status = "in_progress" =>
           \A s \in Settled(q) \cup LeftBehind(e) : step[s].order < step[new.step].order,
         edited \cap {"create", "order", "active"} = {} =>
           \A s \in Steps :
             /\ step[s].present /\ step[s].active
             /\ \/ new.status = "approved"
                \/ new.status = "in_progress" /\ step[s].order < step[new.step].order
             => s \in Settled(q) \cup LeftBehind(e)
  PROVE  SerialInv'
<1>1. /\ row \in [Requests -> RequestRow] /\ history \in [Requests -> Seq(Entry)]
      /\ \A w \in Workers : session[w] # None => session[w] \in Session
  BY DEF WorkflowInv, TypeOK
<1>2. /\ row'[q] = new /\ \A p \in Requests : p # q => row'[p] = row[p]
      /\ Settled(q)' = Settled(q) \cup LeftBehind(e)
      /\ \A p \in Requests : p # q => Settled(p)' = Settled(p)
  BY <1>1, SettledGrows
<1>3. /\ SessionsFresh /\ RowsCoherent /\ OrdersDistinct /\ AwaitsApproverStep
      /\ SettledBehind /\ NothingLeftOut /\ OnlyAllowedEdits
  BY DEF SerialInv
<1>4. SessionsFresh'
  <2> SUFFICES ASSUME NEW w \in Workers, session'[w] # None
               PROVE  /\ session'[w].loaded = row'[session'[w].request]
                      /\ "order" \notin edited' =>
                           session'[w].order = step'[session'[w].loaded.step].order
    BY DEF SessionsFresh
  <2>1. session'[w] = session[w] /\ session[w].request # q /\ session[w].request \in Requests
    BY <1>1 DEF Session
  <2>. QED  BY <1>2, <1>3, <2>1 DEF SessionsFresh
<1>5. RowsCoherent'
  <2>1. ASSUME NEW p \in Requests, p # q  PROVE Coherent(row'[p])
    BY <1>2, <1>3, <2>1 DEF RowsCoherent
  <2>2. Coherent(row'[q])
    BY <1>2
  <2>3. \A p \in Requests : Coherent(row'[p])
    BY ONLY <2>1, <2>2
  <2>. QED  BY ONLY <2>3 DEF RowsCoherent, Coherent
<1>6. OrdersDistinct' /\ OnlyAllowedEdits'
  BY <1>3 DEF OrdersDistinct, OnlyAllowedEdits
<1>7. AwaitsApproverStep'
  BY <1>2, <1>3 DEF AwaitsApproverStep
<1>8. SettledBehind'
  <2>1. ASSUME NEW p \in Requests, NEW s \in Settled(p)'
        PROVE  /\ step'[s].present
               /\ "order" \notin edited' /\ row'[p].status = "in_progress" =>
                    step'[s].order < step'[row'[p].step].order
    <3>1. CASE p = q
      BY <1>2, <1>3, <2>1, <3>1 DEF SettledBehind
    <3>2. CASE p # q
      BY <1>2, <1>3, <2>1, <3>2 DEF SettledBehind
    <3>. QED  BY <3>1, <3>2
  <2>. QED  BY <2>1 DEF SettledBehind
<1>9. NothingLeftOut'
  <2>1. ASSUME edited \cap {"create", "order", "active"} = {}, NEW p \in Requests, NEW s \in Steps,
               step[s].present /\ step[s].active,
               \/ row'[p].status = "approved"
               \/ row'[p].status = "in_progress" /\ step[s].order < step[row'[p].step].order
        PROVE  s \in Settled(p)'
    <3>1. CASE p = q
      BY <1>2, <2>1, <3>1
    <3>2. CASE p # q
      BY <1>2, <1>3, <2>1, <3>2 DEF NothingLeftOut
    <3>. QED  BY <3>1, <3>2
  <2>. QED  BY <2>1 DEF NothingLeftOut
<1>. QED  BY <1>4, <1>5, <1>6, <1>7, <1>8, <1>9 DEF SerialInv

(* The row the walk leaves is coherent and waits on an approver step.      *)
LEMMA AdvancedCoherent ==
  ASSUME TypeOK, NEW r \in Users, NEW after \in Nat, ~WalkFails(r, after)
  PROVE  LET new == Advanced(r, after) IN
         /\ Coherent(new) /\ new.step = FirstStop(r, after)
         /\ new.status = IF FirstStop(r, after) = None THEN "approved" ELSE "in_progress"
         /\ new.status = "in_progress" =>
              /\ new.step \in Remaining(after) /\ step[new.step].kind = "APPROVER"
<1>1. /\ FirstStop(r, after) # None =>
           /\ FirstStop(r, after) \in Remaining(after)
           /\ step[FirstStop(r, after)].kind = "APPROVER"
           /\ Assignee(r, after) \in Users
      /\ FirstStop(r, after) = None => Assignee(r, after) = None
  BY WalkFacts
<1>. QED  BY <1>1, NoneIsNoId DEF Advanced, Coherent

(* An entry of a walk leaves behind the step decided on and what the walk  *)
(* passed.                                                                 *)
LEMMA LeftByWalk ==
  ASSUME NEW action, NEW actor, NEW s0 \in Maybe(Steps), NEW r, NEW after
  PROVE  LeftBehind(HistoryEntry(action, actor, s0, r, after)) =
           (Steps \cap {s0}) \cup PassedWith(r, after, "complete") \cup PassedWith(r, after, "skip")
<1>1. PassedWith(r, after, "complete") \subseteq Steps /\ PassedWith(r, after, "skip") \subseteq Steps
  BY DEF PassedWith, Passed, Remaining
<1>. QED  BY <1>1 DEF LeftBehind, HistoryEntry

(* A submission keeps the serial invariant.                                *)
LEMMA CreateKeepsSerial ==
  ASSUME WorkflowInv, SerialInv, NEW q \in Requests, NEW r \in Users, CreateRequest(q, r)
  PROVE  SerialInv'
<1> DEFINE new == Advanced(r, 0)
           e == HistoryEntry("submitted", r, None, r, 0)
           passed == PassedWith(r, 0, "complete") \cup PassedWith(r, 0, "skip")
<1>1. TypeOK /\ StepsConfigured /\ RowsOwned /\ SessionsCurrent
  BY DEF WorkflowInv
<1>2. step \in [Steps -> StepRow]
  BY <1>1 DEF TypeOK
<1>3. ~WalkFails(r, 0)
  BY <1>2, FirstStopIsStop DEF CreateRequest, WalkFails, Stops
<1>4. new \in RequestRow /\ e \in Entry /\ None \in Maybe(Steps)
  BY <1>1, <1>3, AdvancedType, EntryType DEF Maybe
<1>5. /\ Coherent(new) /\ new.step = FirstStop(r, 0)
      /\ new.status = IF FirstStop(r, 0) = None THEN "approved" ELSE "in_progress"
      /\ new.status = "in_progress" =>
           /\ new.step \in Remaining(0) /\ step[new.step].kind = "APPROVER"
  BY <1>1, <1>3, AdvancedCoherent
<1>6. /\ passed \subseteq Remaining(0)
      /\ \A s \in Remaining(0) :
           s \in passed <=> (FirstStop(r, 0) = None \/ step[s].order < step[FirstStop(r, 0)].order)
  BY <1>1, <1>3, WalkFacts
<1>7. LeftBehind(e) = passed
  BY <1>4, LeftByWalk, NoneIsNoStep
<1>8. Settled(q) = {}
  BY <1>1 DEF RowsOwned, Settled, EntriesOn, CreateRequest
<1>9. /\ row' = [row EXCEPT ![q] = new]
      /\ history' = [history EXCEPT ![q] = Append(history[q], e)]
      /\ UNCHANGED <<step, updating, edited, session>> /\ row[q].status = "absent"
  BY DEF CreateRequest
<1>. HIDE DEF new, e, passed
<1>10. \A s \in Steps : step[s].present /\ step[s].active => s \in Remaining(0)
  <2>1. \A s \in Steps : step[s].order \in Orders
    BY <1>2 DEF StepRow
  <2>2. \A n \in Orders : n > 0
    BY OrdersArePositive
  <2>. QED  BY <2>1, <2>2 DEF Remaining
<1>11. \A w \in Workers : session[w] # None => session[w].request # q
  BY <1>1, <1>9 DEF SessionsCurrent
<1>12. \A s \in Remaining(0) : step[s].present
  BY DEF Remaining
<1>. QED
  BY <1>4, <1>5, <1>6, <1>7, <1>8, <1>9, <1>10, <1>11, <1>12, NoneIsNoStep, SerialCommit

(* A worker's decision, when it is the only one: on the row as it is,      *)
(* waiting on a configured step.                                           *)
LEMMA FreshSession ==
  ASSUME WorkflowInv, SerialInv, NEW w \in Workers, session[w] # None
  PROVE  LET x == session[w] IN
         /\ x.request \in Requests /\ x.loaded = row[x.request]
         /\ x.loaded \in RequestRow /\ x.loaded.status = "in_progress"
         /\ x.loaded.step \in Steps /\ step[x.loaded.step].present
         /\ x.actor \in Users /\ x.loaded.requester \in Users /\ x.order \in Nat
         /\ "order" \notin edited => x.order = step[x.loaded.step].order
<1> DEFINE x == session[w]
<1>1. /\ x \in Session /\ x.request \in Requests /\ x.actor \in Users
      /\ x.loaded \in RequestRow /\ x.loaded.status = "in_progress" /\ x.loaded.requester \in Users
  BY SessionFacts
<1>2. x.loaded = row[x.request] /\ ("order" \notin edited => x.order = step[x.loaded.step].order)
  BY DEF SerialInv, SessionsFresh
<1>3. x.loaded.step \in Steps /\ step[x.loaded.step].present
  <2>1. x.loaded.step # None
    BY <1>1, <1>2 DEF SerialInv, RowsCoherent, Coherent
  <2>2. x.loaded.step \in Maybe(Steps)
    BY <1>1 DEF RequestRow
  <2>. QED  BY <1>1, <1>2, <2>1, <2>2 DEF Maybe, SerialInv, AwaitsApproverStep
<1>4. x.order \in Nat
  BY <1>1, OrdersArePositive DEF Session
<1>. QED  BY <1>1, <1>2, <1>3, <1>4

(* With one worker, nobody else has a request loaded.                      *)
LEMMA NoOtherSession ==
  ASSUME OneWorker, WorkflowInv, NEW w \in Workers, Finish(w)
  PROVE  \A v \in Workers : session'[v] = None
  BY DEF OneWorker, WorkflowInv, TypeOK, Finish

(* What an approval commits when it is the only decision.                  *)
LEMMA ApprovalIs ==
  ASSUME WorkflowInv, SerialInv, NEW w \in Workers, CommitApprove(w)
  PROVE  LET x == session[w]
             r == x.loaded.requester
             new == Advanced(r, x.order)
             e == HistoryEntry("approved", x.actor, x.loaded.step, r, x.order)
             stop == FirstStop(r, x.order)
             passed == PassedWith(r, x.order, "complete") \cup PassedWith(r, x.order, "skip")
         IN  /\ row' = [row EXCEPT ![x.request] = new]
             /\ history' = [history EXCEPT ![x.request] = Append(history[x.request], e)]
             /\ new \in RequestRow /\ e \in Entry /\ Coherent(new) /\ new.step = stop
             /\ new.status = IF stop = None THEN "approved" ELSE "in_progress"
             /\ stop # None => stop \in Remaining(x.order) /\ step[stop].kind = "APPROVER"
             /\ passed \subseteq Remaining(x.order)
             /\ \A s \in Remaining(x.order) :
                  s \in passed <=> (stop = None \/ step[s].order < step[stop].order)
             /\ LeftBehind(e) = passed \cup {x.loaded.step}
<1> DEFINE x == session[w]
           r == x.loaded.requester
           new == Advanced(r, x.order)
           e == HistoryEntry("approved", x.actor, x.loaded.step, r, x.order)
           stop == FirstStop(r, x.order)
           passed == PassedWith(r, x.order, "complete") \cup PassedWith(r, x.order, "skip")
<1>1. TypeOK /\ StepsConfigured
  BY DEF WorkflowInv
<1>2. /\ x # None /\ ~WalkFails(r, x.order)
      /\ row' = [row EXCEPT ![x.request] = Updated(row[x.request], x.loaded, new)]
      /\ history' = [history EXCEPT ![x.request] = Append(history[x.request], e)]
  BY DEF CommitApprove
<1>3. /\ x.request \in Requests /\ x.loaded = row[x.request] /\ x.loaded \in RequestRow
      /\ x.loaded.step \in Steps /\ r \in Users /\ x.actor \in Users /\ x.order \in Nat
  BY <1>2, FreshSession
<1>. HIDE DEF x, r
<1>4. new \in RequestRow /\ e \in Entry
  BY <1>1, <1>2, <1>3, AdvancedType, EntryType DEF Maybe
<1>5. Updated(row[x.request], x.loaded, new) = new
  BY <1>3, <1>4, UpdatedFresh
<1>6. /\ Coherent(new) /\ new.step = stop
      /\ new.status = IF stop = None THEN "approved" ELSE "in_progress"
  BY <1>1, <1>2, <1>3, AdvancedCoherent
<1>7. /\ stop # None => stop \in Remaining(x.order) /\ step[stop].kind = "APPROVER"
      /\ passed \subseteq Remaining(x.order)
      /\ \A s \in Remaining(x.order) :
           s \in passed <=> (stop = None \/ step[s].order < step[stop].order)
  BY <1>1, <1>2, <1>3, WalkFacts
<1>8. LeftBehind(e) = passed \cup {x.loaded.step}
  BY <1>3, LeftByWalk DEF Maybe
<1>. QED  BY <1>2, <1>4, <1>5, <1>6, <1>7, <1>8 DEF x, r

(* An approval keeps the serial invariant.                                 *)
LEMMA ApproveKeepsSerial ==
  ASSUME OneWorker, WorkflowInv, SerialInv, NEW w \in Workers, CommitApprove(w)
  PROVE  SerialInv'
<1> DEFINE x == session[w]
           q == x.request
           r == x.loaded.requester
           new == Advanced(r, x.order)
           e == HistoryEntry("approved", x.actor, x.loaded.step, r, x.order)
           stop == FirstStop(r, x.order)
           passed == PassedWith(r, x.order, "complete") \cup PassedWith(r, x.order, "skip")
<1>1. /\ row' = [row EXCEPT ![q] = new]
      /\ history' = [history EXCEPT ![q] = Append(history[q], e)]
      /\ new \in RequestRow /\ e \in Entry /\ Coherent(new) /\ new.step = stop
      /\ new.status = IF stop = None THEN "approved" ELSE "in_progress"
      /\ stop # None => stop \in Remaining(x.order) /\ step[stop].kind = "APPROVER"
      /\ passed \subseteq Remaining(x.order)
      /\ \A s \in Remaining(x.order) :
           s \in passed <=> (stop = None \/ step[s].order < step[stop].order)
      /\ LeftBehind(e) = passed \cup {x.loaded.step}
  BY ApprovalIs
<1>2. x # None /\ Finish(w) /\ UNCHANGED <<step, updating, edited>>
  BY DEF CommitApprove
<1>3. /\ q \in Requests /\ x.loaded = row[q] /\ x.loaded.status = "in_progress"
      /\ x.loaded.step \in Steps /\ step[x.loaded.step].present /\ x.order \in Nat
      /\ "order" \notin edited => x.order = step[x.loaded.step].order
  BY <1>2, FreshSession
<1>4. \A v \in Workers : session'[v] = None
  BY <1>2, NoOtherSession
<1>5. \A s \in Steps : step[s].order \in Nat
  BY OrdersArePositive DEF WorkflowInv, TypeOK, StepRow
<1>6. OrdersDistinct /\ SettledBehind /\ NothingLeftOut
  BY DEF SerialInv
<1>. HIDE DEF x, q, r, new, e, stop, passed
<1>7. \A s \in Remaining(x.order) :
        s \in Steps /\ step[s].present /\ step[s].active /\ step[s].order > x.order
  BY DEF Remaining
<1>8. \A s \in LeftBehind(e) : step[s].present
  BY <1>1, <1>3, <1>7
<1>9. ASSUME "order" \notin edited, new.status = "in_progress",
             NEW s \in Settled(q) \cup LeftBehind(e)
      PROVE  step[s].order < step[new.step].order
  <2>1. stop # None /\ stop \in Steps /\ step[stop].order > x.order
    BY <1>1, <1>7, <1>9
  <2>2. CASE s \in Settled(q)
    <3>1. step[s].order < x.order /\ s \in Steps
      BY <1>3, <1>6, <1>9, <2>2 DEF SettledBehind, Settled
    <3>. QED  BY <1>1, <1>3, <1>5, <2>1, <3>1
  <2>3. CASE s = x.loaded.step
    BY <1>1, <1>3, <1>9, <2>1, <2>3
  <2>4. CASE s \in passed
    BY <1>1, <2>1, <2>4
  <2>. QED  BY <1>1, <1>9, <2>2, <2>3, <2>4
<1>10. ASSUME edited \cap {"create", "order", "active"} = {}, NEW s \in Steps,
              step[s].present, step[s].active,
              \/ new.status = "approved"
              \/ new.status = "in_progress" /\ step[s].order < step[new.step].order
       PROVE  s \in Settled(q) \cup LeftBehind(e)
  <2>1. x.order = step[x.loaded.step].order
    BY <1>3, <1>10
  <2>2. CASE step[s].order < x.order
    BY <1>3, <1>6, <1>10, <2>1, <2>2 DEF NothingLeftOut
  <2>3. CASE step[s].order = x.order
    BY <1>1, <1>3, <1>6, <1>10, <2>1, <2>3 DEF OrdersDistinct
  <2>4. CASE step[s].order > x.order
    <3>1. s \in Remaining(x.order)
      BY <1>10, <2>4 DEF Remaining
    <3>. QED  BY <1>1, <1>10, <3>1
  <2>. QED  BY <1>3, <1>5, <1>10, <2>2, <2>3, <2>4
<1>11. /\ new.status # "absent"
       /\ new.status = "in_progress" => step[new.step].present /\ step[new.step].kind = "APPROVER"
  BY <1>1, <1>7
<1>. QED  BY <1>1, <1>2, <1>3, <1>4, <1>8, <1>9, <1>10, <1>11, SerialCommit

(* What a rejection commits when it is the only decision.                  *)
LEMMA RejectionIs ==
  ASSUME WorkflowInv, SerialInv, NEW w \in Workers, CommitReject(w)
  PROVE  LET x == session[w]
             e == [action |-> "rejected", actor |-> x.actor, step |-> x.loaded.step,
                   completed |-> {}, skipped |-> {}, next |-> None, assignee |-> None]
         IN  \E new \in RequestRow :
               /\ row' = [row EXCEPT ![x.request] = new]
               /\ history' = [history EXCEPT ![x.request] = Append(history[x.request], e)]
               /\ e \in Entry /\ Coherent(new) /\ new.status = "rejected" /\ new.step = None
               /\ LeftBehind(e) = {x.loaded.step}
<1> DEFINE x == session[w]
           rejected(comment) ==
             [x.loaded EXCEPT !.status = "rejected", !.step = None, !.approver = None,
                              !.completed = TRUE, !.reason = comment]
           e == [action |-> "rejected", actor |-> x.actor, step |-> x.loaded.step,
                 completed |-> {}, skipped |-> {}, next |-> None, assignee |-> None]
<1>1. PICK comment \in BOOLEAN :
        row' = [row EXCEPT ![x.request] = Updated(row[x.request], x.loaded, rejected(comment))]
  BY DEF CommitReject
<1>2. x # None /\ history' = [history EXCEPT ![x.request] = Append(history[x.request], e)]
  BY DEF CommitReject
<1>3. /\ x.request \in Requests /\ x.loaded = row[x.request] /\ x.loaded \in RequestRow
      /\ x.loaded.step \in Steps /\ x.actor \in Users
  BY <1>2, FreshSession
<1> DEFINE new == rejected(comment)
<1>4. new \in RequestRow /\ new.status = "rejected" /\ new.step = None /\ Coherent(new)
  BY <1>3 DEF RequestRow, Statuses, Maybe, Coherent
<1>5. Updated(row[x.request], x.loaded, new) = new
  <2>. HIDE DEF x, new
  <2>. QED  BY <1>3, <1>4, UpdatedFresh
<1>6. e \in Entry
  BY <1>3 DEF Entry, Maybe
<1>7. LeftBehind(e) = {x.loaded.step}
  BY <1>3 DEF LeftBehind
<1>. HIDE DEF x, e, rejected
<1>8. row' = [row EXCEPT ![x.request] = new]
  BY <1>1, <1>5
<1>. QED  BY <1>2, <1>4, <1>6, <1>7, <1>8 DEF x, e

(* A rejection keeps the serial invariant.                                 *)
LEMMA RejectKeepsSerial ==
  ASSUME OneWorker, WorkflowInv, SerialInv, NEW w \in Workers, CommitReject(w)
  PROVE  SerialInv'
<1> DEFINE x == session[w]
           q == x.request
           e == [action |-> "rejected", actor |-> x.actor, step |-> x.loaded.step,
                 completed |-> {}, skipped |-> {}, next |-> None, assignee |-> None]
<1>1. PICK new \in RequestRow :
        /\ row' = [row EXCEPT ![q] = new]
        /\ history' = [history EXCEPT ![q] = Append(history[q], e)]
        /\ e \in Entry /\ Coherent(new) /\ new.status = "rejected" /\ new.step = None
        /\ LeftBehind(e) = {x.loaded.step}
  BY RejectionIs
<1>2. x # None /\ Finish(w) /\ UNCHANGED <<step, updating, edited>>
  BY DEF CommitReject
<1>3. q \in Requests /\ step[x.loaded.step].present
  BY <1>2, FreshSession
<1>4. \A v \in Workers : session'[v] = None
  BY <1>2, NoOtherSession
<1>. HIDE DEF x, q, e
<1>5. \A s \in LeftBehind(e) : step[s].present
  BY <1>1, <1>3
<1>. QED  BY <1>1, <1>2, <1>3, <1>4, <1>5, SerialCommit

(* While rows, histories and steps stay, only the sessions matter.         *)
LEMMA SerialUntouched ==
  ASSUME SerialInv, UNCHANGED <<step, row, history, edited>>, SessionsFresh', OnlyAllowedEdits'
  PROVE  SerialInv'
<1>1. /\ RowsCoherent /\ OrdersDistinct /\ AwaitsApproverStep
      /\ SettledBehind /\ NothingLeftOut /\ OnlyAllowedEdits
  BY DEF SerialInv
<1>2. \A q : Settled(q)' = Settled(q)
  BY DEF Settled, EntriesOn
<1>3. RowsCoherent'
  BY <1>1 DEF RowsCoherent, Coherent
<1>4. OrdersDistinct' /\ AwaitsApproverStep'
  BY <1>1 DEF OrdersDistinct, AwaitsApproverStep
<1>5. SettledBehind' /\ NothingLeftOut'
  BY <1>1, <1>2 DEF SettledBehind, NothingLeftOut
<1>. QED  BY <1>3, <1>4, <1>5 DEF SerialInv

(* Loading a request keeps the serial invariant.                           *)
LEMMA LoadKeepsSerial ==
  ASSUME WorkflowInv, SerialInv, NEW w \in Workers, NEW u \in Users, NEW q \in Requests,
         NEW d \in {"approve", "reject"}, LoadForDecision(w, u, q, d)
  PROVE  SerialInv'
<1>1. UNCHANGED <<step, row, history, updating, edited>>
  BY DEF LoadForDecision
<1>2. /\ session'[w].loaded = row[q] /\ session'[w].request = q
      /\ session'[w].order = step[row[q].step].order
      /\ \A v \in Workers : v # w => session'[v] = session[v]
  BY DEF LoadForDecision, WorkflowInv, TypeOK
<1>3. SessionsFresh'
  BY <1>1, <1>2 DEF SerialInv, SessionsFresh
<1>4. OnlyAllowedEdits'
  BY <1>1 DEF SerialInv, OnlyAllowedEdits
<1>. QED  BY <1>1, <1>3, <1>4, SerialUntouched

(* Giving up keeps the serial invariant.                                   *)
LEMMA RollbackKeepsSerial ==
  ASSUME WorkflowInv, SerialInv, NEW w \in Workers, RollbackApprove(w)
  PROVE  SerialInv'
<1>1. UNCHANGED <<step, row, history, updating, edited>>
  BY DEF RollbackApprove
<1>2. \A v \in Workers : session'[v] = session[v] \/ session'[v] = None
  BY FinishType DEF RollbackApprove, WorkflowInv
<1>3. SessionsFresh'
  BY <1>1, <1>2 DEF SerialInv, SessionsFresh
<1>4. OnlyAllowedEdits'
  BY <1>1 DEF SerialInv, OnlyAllowedEdits
<1>. QED  BY <1>1, <1>3, <1>4, SerialUntouched

(* An edit of the configuration: what it changes is recorded, a step that  *)
(* exists stays, and only recorded columns of existing steps change.       *)
LEMMA EditKeepsSerial ==
  ASSUME WorkflowInv, SerialInv, NEW what, edited' = edited \cup what,
         UNCHANGED <<row, history, session>>, OnlyAllowedEdits',
         \A s \in Steps :
           /\ step[s].present =>
                /\ step'[s].present
                /\ "order" \notin what => step'[s].order = step[s].order
                /\ "kind" \notin what => step'[s].kind = step[s].kind
                /\ "active" \notin what => step'[s].active = step[s].active
           /\ "create" \notin what => (step'[s].present <=> step[s].present),
         OrdersDistinct'
  PROVE  SerialInv'
<1>1. UNCHANGED <<row, history, session>> /\ edited' = edited \cup what
  OBVIOUS
<1>2. /\ SessionsFresh /\ RowsCoherent /\ OrdersDistinct /\ AwaitsApproverStep
      /\ SettledBehind /\ NothingLeftOut /\ OnlyAllowedEdits
  BY DEF SerialInv
<1>3. \A p \in Requests : Settled(p)' = Settled(p) /\ Settled(p) \subseteq Steps
  BY <1>1 DEF Settled, EntriesOn
<1>4. ASSUME NEW p \in Requests, row[p].status = "in_progress"
      PROVE  row[p].step \in Steps /\ step[row[p].step].present
  BY <1>2, <1>4 DEF WorkflowInv, TypeOK, RequestRow, RowsCoherent, Coherent, AwaitsApproverStep, Maybe
<1>5. SessionsFresh'
  <2> SUFFICES ASSUME NEW w \in Workers, session[w] # None
               PROVE  /\ session[w].loaded = row[session[w].request]
                      /\ "order" \notin edited \cup what =>
                           session[w].order = step'[session[w].loaded.step].order
    BY <1>1 DEF SessionsFresh
  <2>1. session[w].loaded.step \in Steps /\ step[session[w].loaded.step].present
    BY FreshSession
  <2>. QED  BY <1>2, <2>1 DEF SessionsFresh
<1>6. RowsCoherent'
  BY <1>1, <1>2 DEF RowsCoherent, Coherent
<1>7. AwaitsApproverStep'
  BY <1>1, <1>2, <1>4 DEF AwaitsApproverStep
<1>8. SettledBehind'
  <2> SUFFICES ASSUME NEW p \in Requests, NEW s \in Settled(p)
               PROVE  /\ step'[s].present
                      /\ "order" \notin edited \cup what /\ row[p].status = "in_progress" =>
                           step'[s].order < step'[row[p].step].order
    BY <1>1, <1>3 DEF SettledBehind
  <2>. QED  BY <1>2, <1>3, <1>4 DEF SettledBehind
<1>9. NothingLeftOut'
  <2> SUFFICES ASSUME (edited \cup what) \cap {"create", "order", "active"} = {},
                      NEW p \in Requests, NEW s \in Steps,
                      step'[s].present /\ step'[s].active,
                      \/ row[p].status = "approved"
                      \/ row[p].status = "in_progress" /\ step'[s].order < step'[row[p].step].order
               PROVE  s \in Settled(p)
    BY <1>1, <1>3 DEF NothingLeftOut
  <2>1. step[s].present /\ step[s].active /\ step'[s].order = step[s].order
    OBVIOUS
  <2>. QED  BY <1>2, <1>4, <2>1 DEF NothingLeftOut
<1>. QED  BY <1>5, <1>6, <1>7, <1>8, <1>9 DEF SerialInv

(* A new step keeps the serial invariant: it settles nothing again.        *)
LEMMA StepCreateKeepsSerial ==
  ASSUME WorkflowInv, SerialInv, NEW s \in Steps, NEW new \in StepRow, new.present,
         CreateWorkflowStep(s, new)
  PROVE  SerialInv'
<1>1. /\ step' = [step EXCEPT ![s] = new] /\ OrderFree(s, new.order) /\ ~step[s].present
      /\ UNCHANGED <<row, history, session, updating>> /\ edited' = edited \cup {"create"}
  BY DEF CreateWorkflowStep, Edit
<1>2. step'[s] = new /\ \A t \in Steps : t # s => step'[t] = step[t]
  BY <1>1 DEF WorkflowInv, TypeOK
<1>3. OrdersDistinct'
  BY <1>1, <1>2 DEF OrdersDistinct, OrderFree, SerialInv
<1>4. OnlyAllowedEdits'
  BY <1>1 DEF OnlyAllowedEdits, SerialInv, StepColumns, Configuration
<1>. QED  BY <1>1, <1>2, <1>3, <1>4, EditKeepsSerial

(* Loading a step for an update changes none.                              *)
LEMMA LoadUpdateKeepsSerial ==
  ASSUME WorkflowInv, SerialInv, NEW e \in Editors, NEW s \in Steps, NEW new \in StepRow,
         LoadStepUpdate(e, s, new)
  PROVE  SerialInv'
<1> DEFINE x == [step |-> s, loaded |-> step[s], new |-> new]
<1>1. /\ UNCHANGED <<step, row, history, session, edited>>
      /\ updating' = [updating EXCEPT ![e] = x]
      /\ ChangedColumns(x.loaded, x.new) \subseteq StepEdits
      /\ x.loaded.present /\ x.new.present
  BY DEF LoadStepUpdate
<1>. HIDE DEF x
<1>2. \A f \in Editors : updating'[f] = IF f = e THEN x ELSE updating[f]
  BY <1>1 DEF WorkflowInv, TypeOK
<1>3. OnlyAllowedEdits'
  BY <1>1, <1>2 DEF SerialInv, OnlyAllowedEdits, ChangedColumns
<1>4. SessionsFresh'
  BY <1>1 DEF SerialInv, SessionsFresh
<1>. QED  BY <1>1, <1>3, <1>4, SerialUntouched

(* The commit of an update keeps the serial invariant.                     *)
LEMMA CommitUpdateKeepsSerial ==
  ASSUME WorkflowInv, SerialInv, NEW e \in Editors, CommitStepUpdate(e)
  PROVE  SerialInv'
<1> DEFINE x == updating[e]
           new == Updated(step[x.step], x.loaded, x.new)
           what == ChangedColumns(x.loaded, x.new) \cup (IF Mixes(x) THEN {"mixed"} ELSE {})
<1>1. /\ x # None /\ OrderFree(x.step, new.order)
      /\ step' = [step EXCEPT ![x.step] = new]
      /\ updating' = [updating EXCEPT ![e] = None]
      /\ edited' = edited \cup what
      /\ UNCHANGED <<row, history, session>>
  BY DEF CommitStepUpdate
<1>2. x.step \in Steps /\ x.loaded \in StepRow /\ x.new \in StepRow /\ step[x.step] \in StepRow
  BY <1>1 DEF WorkflowInv, TypeOK, StepUpdate
<1>3. x.loaded.present /\ x.new.present /\ what \cap StepColumns \subseteq StepEdits
  BY <1>1 DEF SerialInv, OnlyAllowedEdits, StepColumns, Configuration
<1>4. /\ "order" \notin what => x.new.order = x.loaded.order
      /\ "kind" \notin what => x.new.kind = x.loaded.kind
      /\ "active" \notin what => x.new.active = x.loaded.active
  BY DEF ChangedColumns, StepColumns, Configuration
<1>. HIDE DEF x, what
<1>5. /\ new.present = step[x.step].present
      /\ "order" \notin what => new.order = step[x.step].order
      /\ "kind" \notin what => new.kind = step[x.step].kind
      /\ "active" \notin what => new.active = step[x.step].active
  BY <1>2, <1>3, <1>4, UpdatedStep DEF StepRow
<1>. HIDE DEF new
<1>6. step'[x.step] = new /\ \A t \in Steps : t # x.step => step'[t] = step[t]
  BY <1>1, <1>2 DEF WorkflowInv, TypeOK
<1>7. OrdersDistinct'
  BY <1>1, <1>6 DEF OrdersDistinct, OrderFree, SerialInv
<1>8. OnlyAllowedEdits'
  <2>1. \A f \in Editors : updating'[f] = IF f = e THEN None ELSE updating[f]
    BY <1>1 DEF WorkflowInv, TypeOK
  <2>. QED  BY <1>1, <1>3, <2>1 DEF OnlyAllowedEdits, SerialInv, ChangedColumns
<1>. QED  BY <1>1, <1>5, <1>6, <1>7, <1>8, EditKeepsSerial

(* So does a refused one.                                                  *)
LEMMA RollbackUpdateKeepsSerial ==
  ASSUME WorkflowInv, SerialInv, NEW e \in Editors, RollbackStepUpdate(e)
  PROVE  SerialInv'
<1>1. /\ UNCHANGED <<step, row, history, session, edited>>
      /\ updating' = [updating EXCEPT ![e] = None]
  BY DEF RollbackStepUpdate
<1>2. \A f \in Editors : updating'[f] = IF f = e THEN None ELSE updating[f]
  BY <1>1 DEF WorkflowInv, TypeOK
<1>3. OnlyAllowedEdits'
  BY <1>1, <1>2 DEF SerialInv, OnlyAllowedEdits, ChangedColumns
<1>4. SessionsFresh'
  BY <1>1 DEF SerialInv, SessionsFresh
<1>. QED  BY <1>1, <1>3, <1>4, SerialUntouched

(* Switching the type on or off and editing the directory change no step.  *)
LEMMA OtherEditKeepsSerial ==
  ASSUME WorkflowInv, SerialInv, UpdateRequestType \/ DirectoryEdit
  PROVE  SerialInv'
<1>1. PICK what \in {{"type"}, {"directory"}} : step' = step /\ Edit(what)
  BY DEF UpdateRequestType, DirectoryEdit
<1>2. OnlyAllowedEdits'
  BY <1>1 DEF Edit, SerialInv, OnlyAllowedEdits, StepColumns, Configuration
<1>3. OrdersDistinct'
  BY <1>1 DEF SerialInv, OrdersDistinct
<1>4. UNCHANGED <<step, row, history, session>> /\ edited' = edited \cup what
  BY <1>1 DEF Edit
<1>. QED  BY <1>2, <1>3, <1>4, EditKeepsSerial

(* An empty engine has the serial invariant.                               *)
LEMMA InitSerial == Init => SerialInv
<1> SUFFICES ASSUME Init  PROVE SerialInv
  OBVIOUS
<1>1. \A q \in Requests : row[q] = NoRequest /\ history[q] = <<>> /\ DOMAIN history[q] = {}
  BY DEF Init
<1>2. \A q \in Requests : Settled(q) = {}
  BY <1>1 DEF Settled, EntriesOn
<1>3. \A q \in Requests : Coherent(row[q]) /\ row[q].status = "absent"
  <2>1. NoRequest.status = "absent"
    BY DEF NoRequest
  <2>. QED  BY <1>1, <2>1 DEF Coherent
<1>4. RowsCoherent /\ AwaitsApproverStep /\ SettledBehind /\ NothingLeftOut
  BY <1>2, <1>3 DEF RowsCoherent, AwaitsApproverStep, SettledBehind, NothingLeftOut
<1>5. SessionsFresh /\ OnlyAllowedEdits
  BY DEF Init, SessionsFresh, OnlyAllowedEdits
<1>6. OrdersDistinct
  BY InitialStepsAreValid DEF Init, OrdersDistinct
<1>. QED  BY <1>4, <1>5, <1>6 DEF SerialInv

(* Every step of one worker keeps it.                                      *)
LEMMA NextSerial == OneWorker /\ WorkflowInv /\ SerialInv /\ [Next]_vars => SerialInv'
<1> SUFFICES ASSUME OneWorker, WorkflowInv, SerialInv, [Next]_vars  PROVE SerialInv'
  OBVIOUS
<1>1. CASE Engine
  BY <1>1, CreateKeepsSerial, LoadKeepsSerial, ApproveKeepsSerial, RollbackKeepsSerial,
     RejectKeepsSerial
  DEF Engine
<1>2. CASE Administration
  BY <1>2, StepCreateKeepsSerial, LoadUpdateKeepsSerial, CommitUpdateKeepsSerial,
     RollbackUpdateKeepsSerial, OtherEditKeepsSerial
  DEF Administration
<1>3. CASE UNCHANGED vars
  <2>1. SessionsFresh'
    BY <1>3 DEF vars, SerialInv, SessionsFresh
  <2>2. OnlyAllowedEdits'
    BY <1>3 DEF vars, SerialInv, OnlyAllowedEdits
  <2>. QED  BY <1>3, <2>1, <2>2, SerialUntouched DEF vars
<1>. QED  BY <1>1, <1>2, <1>3 DEF Next

(* The inductive invariant of the engine while decisions do not overlap.   *)
THEOREM SerialInvariant ==
  ASSUME OneWorker  PROVE Spec => [](WorkflowInv /\ SerialInv)
<1>1. WorkflowInv /\ SerialInv /\ [Next]_vars => SerialInv'
  BY NextSerial
<1>. QED  BY <1>1, InitSerial, WorkflowInvariant, PTL DEF Spec

(* While decisions do not overlap and nobody reorders the steps or changes *)
(* their kind, an in-progress request waits on one approver step, pending  *)
(* in its progress view, and shows up in the approver's list.              *)
THEOREM PendingRequestsAreVisible ==
  ASSUME OneWorker, {"order", "kind"} \cap StepEdits = {}
  PROVE  Spec => []PendingInv
<1>1. WorkflowInv /\ SerialInv => PendingInv
  <2> SUFFICES ASSUME WorkflowInv, SerialInv  PROVE PendingIsVisible
    BY DEF PendingInv
  <2>1. "order" \notin edited /\ "kind" \notin edited
    BY DEF SerialInv, OnlyAllowedEdits, StepColumns, Configuration
  <2> SUFFICES ASSUME NEW q \in Requests, row[q].status = "in_progress"
               PROVE  /\ q \in PendingApprovals(row[q].approver)
                      /\ Progress(q, row[q].step) = "pending"
    BY DEF PendingIsVisible
  <2>2. row[q].step # None /\ row[q] \in RequestRow
    BY DEF SerialInv, RowsCoherent, Coherent, WorkflowInv, TypeOK
  <2>3. row[q].step \in Steps
    BY <2>2 DEF RequestRow, Maybe
  <2>4. step[row[q].step].kind = "APPROVER"
    BY <2>1 DEF SerialInv, AwaitsApproverStep
  <2>5. row[q].step \notin Settled(q)
    <3>1. step[row[q].step].order \in Nat
      BY <2>3, OrdersArePositive DEF WorkflowInv, TypeOK, StepRow
    <3>. QED  BY <2>1, <3>1 DEF SerialInv, SettledBehind
  <2>6. EntriesOn(q, row[q].step) = {}
    BY <2>3, <2>5 DEF Settled
  <2>. QED  BY <2>2, <2>4, <2>6 DEF PendingApprovals, Progress
<1>. QED  BY <1>1, SerialInvariant, PTL

(* While decisions do not overlap, an approved request went through every  *)
(* active step, unless steps were added, reordered or switched meanwhile.  *)
THEOREM ApprovedWentThroughAll ==
  ASSUME OneWorker  PROVE Spec => []ApprovedIsComplete
<1>1. WorkflowInv /\ SerialInv => ApprovedIsComplete
  BY DEF SerialInv, NothingLeftOut, ApprovedIsComplete, Settled
<1>. QED  BY <1>1, SerialInvariant, PTL

(* Nothing is decided on a request that has been rejected.                 *)
THEOREM RejectionsAreFinal ==
  ASSUME OneWorker  PROVE Spec => RejectedStaysRejected
<1> DEFINE Keeps == \A q \in Requests : row[q].status = "rejected" => row'[q].status = "rejected"
<1>1. WorkflowInv /\ SerialInv /\ [Next]_vars => [Keeps]_row
  <2> SUFFICES ASSUME WorkflowInv, SerialInv, [Next]_vars, NEW q \in Requests,
                      row[q].status = "rejected", row' # row
               PROVE  row'[q].status = "rejected"
    OBVIOUS
  <2>1. row \in [Requests -> RequestRow]
    BY DEF WorkflowInv, TypeOK
  <2>2. ASSUME NEW p \in Requests, NEW r \in Users, CreateRequest(p, r)
        PROVE  row'[q] = row[q]
    BY <2>1, <2>2 DEF CreateRequest
  <2>3. ASSUME NEW w \in Workers, CommitApprove(w) \/ CommitReject(w)
        PROVE  row'[q] = row[q]
    <3>1. session[w] # None
      BY <2>3 DEF CommitApprove, CommitReject
    <3>2. row[session[w].request].status = "in_progress"
      BY <3>1, FreshSession
    <3>. QED  BY <2>1, <2>3, <3>2 DEF CommitApprove, CommitReject
  <2>4. \A w \in Workers : /\ ~RollbackApprove(w)
                           /\ \A u \in Users, p \in Requests, d \in {"approve", "reject"} :
                                ~LoadForDecision(w, u, p, d)
    BY DEF LoadForDecision, RollbackApprove
  <2>5. ASSUME Administration  PROVE FALSE
    BY <2>5
    DEF Administration, CreateWorkflowStep, LoadStepUpdate, CommitStepUpdate, RollbackStepUpdate,
        UpdateRequestType, DirectoryEdit, Edit
  <2>6. ~UNCHANGED vars
    BY DEF vars
  <2>7. Engine
    BY <2>5, <2>6 DEF Next
  <2>8. \/ \E p \in Requests, r \in Users : CreateRequest(p, r)
        \/ \E w \in Workers : CommitApprove(w) \/ CommitReject(w)
    BY <2>4, <2>7 DEF Engine
  <2>. QED  BY <2>2, <2>3, <2>8
<1>. QED  BY <1>1, SerialInvariant, PTL DEF Spec, RejectedStaysRejected

-----------------------------------------------------------------------------
(* The engine implements RequestLifecycle                                  *)

(* A committed operation as the lifecycle sees it.                         *)
LEMMA LifecycleView ==
  ASSUME WorkflowInv, NEW q \in Requests, NEW new, NEW e \in Entry,
         row' = [row EXCEPT ![q] = new],
         history' = [history EXCEPT ![q] = Append(history[q], e)]
  PROVE  /\ [p \in Requests |-> row[p].status]' =
              [[p \in Requests |-> row[p].status] EXCEPT ![q] = new.status]
         /\ [p \in Requests |-> row[p].step]' =
              [[p \in Requests |-> row[p].step] EXCEPT ![q] = new.step]
         /\ [p \in Requests |-> Settled(p)]' =
              [[p \in Requests |-> Settled(p)] EXCEPT ![q] = Settled(q) \cup LeftBehind(e)]
<1>1. row \in [Requests -> RequestRow] /\ history \in [Requests -> Seq(Entry)]
  BY DEF WorkflowInv, TypeOK
<1>2. row'[q] = new /\ \A p \in Requests : p # q => row'[p] = row[p]
  BY <1>1
<1>3. /\ Settled(q)' = Settled(q) \cup LeftBehind(e)
      /\ \A p \in Requests : p # q => Settled(p)' = Settled(p)
  BY <1>1, SettledGrows
<1>4. [p \in Requests |-> row'[p].status] = [[p \in Requests |-> row[p].status] EXCEPT ![q] = new.status]
  <2>1. \A p \in Requests : row'[p].status = IF p = q THEN new.status ELSE row[p].status
    BY <1>2
  <2>. QED  BY <2>1
<1>5. [p \in Requests |-> row'[p].step] = [[p \in Requests |-> row[p].step] EXCEPT ![q] = new.step]
  <2>1. \A p \in Requests : row'[p].step = IF p = q THEN new.step ELSE row[p].step
    BY <1>2
  <2>. QED  BY <2>1
<1>6. [p \in Requests |-> Settled(p)'] =
        [[p \in Requests |-> Settled(p)] EXCEPT ![q] = Settled(q) \cup LeftBehind(e)]
  BY <1>3
<1>. QED  BY <1>4, <1>5, <1>6

(* What leaves the rows alone is a stutter of the life cycle.              *)
LEMMA LifecycleStays ==
  ASSUME UNCHANGED <<row, history>>
  PROVE  UNCHANGED Lifecycle!vars
<1>1. \A p : Settled(p)' = Settled(p)
  BY DEF Settled, EntriesOn
<1>. QED  BY <1>1 DEF Lifecycle!vars

(* A submission is a submission of the life cycle.                         *)
LEMMA CreateIsSubmit ==
  ASSUME WorkflowInv, NEW q \in Requests, NEW r \in Users, CreateRequest(q, r)
  PROVE  Lifecycle!Submit(q)
<1> DEFINE new == Advanced(r, 0)
           e == HistoryEntry("submitted", r, None, r, 0)
<1>1. TypeOK /\ StepsConfigured /\ RowsOwned
  BY DEF WorkflowInv
<1>2. ~WalkFails(r, 0)
  BY <1>1, FirstStopIsStop DEF CreateRequest, WalkFails, Stops, TypeOK
<1>3. e \in Entry /\ None \in Maybe(Steps)
  BY <1>1, <1>2, EntryType DEF Maybe
<1>4. /\ new.step = FirstStop(r, 0)
      /\ new.status = IF new.step = None THEN "approved" ELSE "in_progress"
  BY <1>1, <1>2, AdvancedCoherent
<1>5. LeftBehind(e) = PassedWith(r, 0, "complete") \cup PassedWith(r, 0, "skip")
  BY <1>3, LeftByWalk, NoneIsNoStep
<1>6. Settled(q) = {} /\ row[q].status = "absent"
  BY <1>1 DEF RowsOwned, Settled, EntriesOn, CreateRequest
<1>7. new.step \in Steps \cup {None} /\ new.step \notin LeftBehind(e) /\ LeftBehind(e) \in SUBSET Steps
  <2>1. FirstStop(r, 0) \in Maybe(Steps)
    BY <1>1, <1>2, AssigneeIsOther
  <2>2. LeftBehind(e) \subseteq Remaining(0) /\ Remaining(0) \subseteq Steps
    BY <1>1, <1>2, <1>5, WalkFacts DEF Remaining
  <2>3. FirstStop(r, 0) # None => FirstStop(r, 0) \notin LeftBehind(e)
    <3>1. \A s \in Steps : step[s].order \in Nat
      BY <1>1, OrdersArePositive DEF TypeOK, StepRow
    <3>. QED  BY <1>1, <1>2, <1>5, <2>2, <3>1, WalkFacts
  <2>. QED  BY <1>4, <2>1, <2>2, <2>3, NoneIsNoStep DEF Maybe
<1>8. row' = [row EXCEPT ![q] = new] /\ history' = [history EXCEPT ![q] = Append(history[q], e)]
  BY DEF CreateRequest
<1>. HIDE DEF new, e
<1>9. /\ [p \in Requests |-> row[p].status]' =
           [[p \in Requests |-> row[p].status] EXCEPT ![q] = new.status]
      /\ [p \in Requests |-> row[p].step]' =
           [[p \in Requests |-> row[p].step] EXCEPT ![q] = new.step]
      /\ [p \in Requests |-> Settled(p)]' =
           [[p \in Requests |-> Settled(p)] EXCEPT ![q] = Settled(q) \cup LeftBehind(e)]
  BY <1>3, <1>8, LifecycleView
<1>10. Settled(q) \cup LeftBehind(e) = LeftBehind(e)
  BY <1>6
<1>11. PICK s \in Steps \cup {None}, S \in SUBSET Steps : s = new.step /\ S = LeftBehind(e)
  BY <1>7
<1>12. Lifecycle!MovesTo(q, s, S)
  BY <1>4, <1>7, <1>9, <1>10, <1>11 DEF Lifecycle!MovesTo
<1>. QED  BY <1>6, <1>12 DEF Lifecycle!Submit

(* An approval is an approval of the life cycle.                           *)
LEMMA ApproveIsApprove ==
  ASSUME OneWorker, WorkflowInv, SerialInv, "order" \notin edited, NEW w \in Workers,
         CommitApprove(w)
  PROVE  \E p \in Requests : Lifecycle!Approve(p)
<1> DEFINE x == session[w]
           q == x.request
           r == x.loaded.requester
           new == Advanced(r, x.order)
           e == HistoryEntry("approved", x.actor, x.loaded.step, r, x.order)
           left == Settled(q) \cup LeftBehind(e)
<1>1. /\ row' = [row EXCEPT ![q] = new]
      /\ history' = [history EXCEPT ![q] = Append(history[q], e)]
      /\ new \in RequestRow /\ e \in Entry
      /\ new.status = IF new.step = None THEN "approved" ELSE "in_progress"
      /\ x.loaded.step \in LeftBehind(e)
  BY ApprovalIs
<1>2. x # None
  BY DEF CommitApprove
<1>3. q \in Requests /\ x.loaded = row[q] /\ row[q].status = "in_progress"
  BY <1>2, FreshSession
<1>4. SerialInv' /\ edited' = edited
  BY ApproveKeepsSerial DEF CommitApprove
<1>. HIDE DEF x, q, r, new, e
<1>5. PICK p \in Requests : p = q
  BY <1>3
<1>6. Settled(p)' = left /\ row'[p] = new
  <2>1. row \in [Requests -> RequestRow] /\ history \in [Requests -> Seq(Entry)]
    BY DEF WorkflowInv, TypeOK
  <2>. QED  BY <1>1, <1>5, <2>1, SettledGrows
<1>7. new.step \in Steps \cup {None} /\ left \in SUBSET Steps
  BY <1>1 DEF RequestRow, Maybe, Settled, LeftBehind
<1>8. new.step \notin left
  <2>1. CASE new.step = None
    BY <1>7, <2>1, NoneIsNoStep
  <2>2. CASE new.step # None
    <3>1. \A s \in left : step[s].order < step[new.step].order
      <4>1. step' = step
        BY DEF CommitApprove
      <4>2. \A s \in Settled(p)' : "order" \notin edited' /\ row'[p].status = "in_progress" =>
              step'[s].order < step'[row'[p].step].order
        BY <1>4 DEF SerialInv, SettledBehind
      <4>. QED  BY <1>1, <1>4, <1>6, <2>2, <4>1, <4>2
    <3>2. step[new.step].order \in Nat
      BY <1>7, <2>2, OrdersArePositive DEF WorkflowInv, TypeOK, StepRow
    <3>. QED  BY <3>1, <3>2
  <2>. QED  BY <2>1, <2>2
<1>9. PICK s \in Steps \cup {None}, S \in SUBSET Steps : s = new.step /\ S = left
  BY <1>7
<1>10. /\ [u \in Requests |-> row[u].status]' =
           [[u \in Requests |-> row[u].status] EXCEPT ![q] = new.status]
      /\ [u \in Requests |-> row[u].step]' =
           [[u \in Requests |-> row[u].step] EXCEPT ![q] = new.step]
      /\ [u \in Requests |-> Settled(u)]' =
           [[u \in Requests |-> Settled(u)] EXCEPT ![q] = left]
  <2>1. /\ q \in Requests /\ e \in Entry
        /\ row' = [row EXCEPT ![q] = new]
        /\ history' = [history EXCEPT ![q] = Append(history[q], e)]
    BY <1>1, <1>3
  <2>. HIDE DEF left
  <2>2. left = Settled(q) \cup LeftBehind(e)
    BY DEF left
  <2>. QED  BY ONLY WorkflowInv, <2>1, <2>2, LifecycleView
<1>11. Lifecycle!MovesTo(p, s, S)
  BY <1>1, <1>5, <1>8, <1>9, <1>10 DEF Lifecycle!MovesTo
<1>12. Settled(p) \cup {row[p].step} \subseteq S
  BY <1>1, <1>3, <1>5, <1>9
<1>13. Lifecycle!Approve(p)
  BY <1>3, <1>5, <1>11, <1>12 DEF Lifecycle!Approve
<1>. QED  BY <1>13

(* A rejection is a rejection of the life cycle.                           *)
LEMMA RejectIsReject ==
  ASSUME WorkflowInv, SerialInv, NEW w \in Workers, CommitReject(w)
  PROVE  \E p \in Requests : Lifecycle!Reject(p)
<1> DEFINE x == session[w]
           q == x.request
           e == [action |-> "rejected", actor |-> x.actor, step |-> x.loaded.step,
                 completed |-> {}, skipped |-> {}, next |-> None, assignee |-> None]
<1>1. PICK new \in RequestRow :
        /\ row' = [row EXCEPT ![q] = new]
        /\ history' = [history EXCEPT ![q] = Append(history[q], e)]
        /\ e \in Entry /\ new.status = "rejected" /\ new.step = None
        /\ LeftBehind(e) = {x.loaded.step}
  BY RejectionIs
<1>2. x # None
  BY DEF CommitReject
<1>3. q \in Requests /\ x.loaded = row[q] /\ row[q].status = "in_progress"
  BY <1>2, FreshSession
<1>. HIDE DEF x, q, e
<1>4. /\ [p \in Requests |-> row[p].status]' =
           [[p \in Requests |-> row[p].status] EXCEPT ![q] = new.status]
      /\ [p \in Requests |-> row[p].step]' =
           [[p \in Requests |-> row[p].step] EXCEPT ![q] = new.step]
      /\ [p \in Requests |-> Settled(p)]' =
           [[p \in Requests |-> Settled(p)] EXCEPT ![q] = Settled(q) \cup LeftBehind(e)]
  <2>1. /\ q \in Requests /\ e \in Entry
        /\ row' = [row EXCEPT ![q] = new]
        /\ history' = [history EXCEPT ![q] = Append(history[q], e)]
    BY <1>1, <1>3
  <2>. QED  BY ONLY WorkflowInv, <2>1, LifecycleView
<1>5. PICK p \in Requests : p = q
  BY <1>3
<1>6. Lifecycle!Reject(p)
  BY <1>1, <1>3, <1>4, <1>5 DEF Lifecycle!Reject
<1>. QED  BY <1>6

(* While decisions do not overlap and nobody reorders the steps, every     *)
(* step of the engine is one of the lifecycle or changes nothing it sees:  *)
(* the engine implements it.                                               *)
THEOREM EngineImplementsLifecycle ==
  ASSUME OneWorker, "order" \notin StepEdits
  PROVE  Spec => ImplementsLifecycle
<1>1. Init => Lifecycle!Init
  <2> SUFFICES ASSUME Init  PROVE Lifecycle!Init
    OBVIOUS
  <2>1. \A q \in Requests : row[q] = NoRequest /\ Settled(q) = {}
    BY DEF Init, Settled, EntriesOn
  <2>2. NoRequest.status = "absent" /\ NoRequest.step = None
    BY DEF NoRequest
  <2>. QED  BY <2>1, <2>2 DEF Lifecycle!Init
<1>2. WorkflowInv /\ SerialInv /\ [Next]_vars => [Lifecycle!Next]_(Lifecycle!vars)
  <2> SUFFICES ASSUME WorkflowInv, SerialInv, [Next]_vars
               PROVE  Lifecycle!Next \/ UNCHANGED Lifecycle!vars
    OBVIOUS
  <2>1. "order" \notin edited
    BY DEF SerialInv, OnlyAllowedEdits, StepColumns, Configuration
  <2>2. ASSUME NEW q \in Requests, NEW r \in Users, CreateRequest(q, r)
        PROVE  Lifecycle!Next
    BY <2>2, CreateIsSubmit DEF Lifecycle!Next
  <2>3. ASSUME NEW w \in Workers, CommitApprove(w)  PROVE Lifecycle!Next
    BY <2>1, <2>3, ApproveIsApprove DEF Lifecycle!Next
  <2>4. ASSUME NEW w \in Workers, CommitReject(w)  PROVE Lifecycle!Next
    BY <2>4, RejectIsReject DEF Lifecycle!Next
  <2>5. ASSUME NEW w \in Workers,
               \/ \E u \in Users, q \in Requests, d \in {"approve", "reject"} :
                    LoadForDecision(w, u, q, d)
               \/ RollbackApprove(w)
        PROVE  UNCHANGED Lifecycle!vars
    BY <2>5, LifecycleStays DEF LoadForDecision, RollbackApprove
  <2>6. ASSUME Administration  PROVE UNCHANGED Lifecycle!vars
    BY <2>6, LifecycleStays
    DEF Administration, CreateWorkflowStep, LoadStepUpdate, CommitStepUpdate, RollbackStepUpdate,
        UpdateRequestType, DirectoryEdit, Edit
  <2>7. ASSUME UNCHANGED vars  PROVE UNCHANGED Lifecycle!vars
    BY <2>7, LifecycleStays DEF vars
  <2>. QED  BY <2>2, <2>3, <2>4, <2>5, <2>6, <2>7 DEF Next, Engine
<1>. QED
  BY <1>1, <1>2, SerialInvariant, PTL DEF Spec, ImplementsLifecycle, Lifecycle!Spec

=============================================================================
