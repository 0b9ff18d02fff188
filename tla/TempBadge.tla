------------------------------ MODULE TempBadge ------------------------------
(***************************************************************************)
(* Forgot-badge requests and the temporary NFC cards lent for a day: the   *)
(* request service, the assignments that tie a card to an employee on a    *)
(* date, and the scans that use and give back such a card.                 *)
(*                                                                         *)
(* Each worker serves one HTTP request with its own session: one step      *)
(* reads the rows, checks them and computes the writes, a second one       *)
(* commits them.  A scan commits twice: first the attendance, then, in     *)
(* the check-out hook, the end of the assignment; the process may die or   *)
(* the hook may fail and be logged in between.                             *)
(*                                                                         *)
(* The pool of temporary cards is fixed (no service creates or disables a  *)
(* temporary card).  Employees are active ones.  Who holds the permission  *)
(* to approve, reject, complete and release is left out, and so are notes. *)
(***************************************************************************)
EXTENDS Naturals, FiniteSets, Sequences

CONSTANTS
  Employees,
  Requests,     \* ids of the forgot-badge requests that may be created
  Cards,        \* the pool of temporary cards
  Workers,      \* threads serving requests
  FirstDay,     \* the date a run starts on
  LastDay,      \* bound on the dates
  MaxScans,     \* bound on the number of recorded scans
  MayCrash,     \* whether a hook may be lost after the scan's commit
  None          \* SQL NULL

ASSUME SomeDay == LastDay \in Nat /\ FirstDay \in 1..LastDay
ASSUME ScanBound == MaxScans \in Nat
ASSUME CrashFlag == MayCrash \in BOOLEAN
Days == 1..LastDay   \* dates

VARIABLES
  today,
  request,      \* forgot_badge_requests
  assignment,   \* temporary_nfc_assignments, by id
  card,         \* nfc_cards.status
  scans,        \* attendance_raw_scan_events made with a temporary card
  session       \* what a worker is about to do

vars == <<today, request, assignment, card, scans, session>>

Maybe(S) == S \cup {None}

Open == {"PENDING", "APPROVED"}

RequestRow == [status: Open \cup {"absent", "REJECTED", "CANCELLED", "COMPLETED"},
               employee: Maybe(Employees), on: Maybe(Days), card: Maybe(Cards),
               date: Maybe(Days)]
AssignmentRow == [request: Requests, employee: Employees, card: Cards, date: Days,
                  status: {"ACTIVE", "USED", "RELEASED", "EXPIRED"}]
Scan == [employee: Employees, card: Cards, date: Days, type: {"IN", "OUT"}]
CardStatus == {"AVAILABLE", "ASSIGNED"}

ASSUME NoneIsNoRow ==
  None \notin Employees \cup Requests \cup Cards /\ None \notin Nat /\ None \notin AssignmentRow

-----------------------------------------------------------------------------
(* Column writes of a commit                                               *)

(* An update of rows of one table: ids to the columns that change.         *)
NoChange == [i \in {} |-> None]
On(id, ch) == [i \in {id} |-> ch]
Updated(row, ch) == [c \in DOMAIN row |-> IF c \in DOMAIN ch THEN ch[c] ELSE row[c]]
Patched(rows, W) ==
  [i \in DOMAIN rows |-> IF i \in DOMAIN W THEN Updated(rows[i], W[i]) ELSE rows[i]]

(* The writes of a handler; new is the assignment it inserts, or None.     *)
Writes(reqs, asgs, cards, new) ==
  [kind |-> "commit", requests |-> reqs, assignments |-> asgs, cards |-> cards, new |-> new]

(* Mutant: the card is forgotten.                                          *)
FreeCardForgotten(c, loaded) == NoChange

(* nfc_card.status = AVAILABLE on a card loaded with the given status.     *)
FreeCard(c, loaded) == IF loaded = "AVAILABLE" THEN NoChange ELSE On(c, "AVAILABLE")

Idle == [kind |-> "idle"]

Begin(w, W) ==
  /\ session[w].kind = "idle"
  /\ session' = [session EXCEPT ![w] = W]
  /\ UNCHANGED <<today, request, assignment, card, scans>>

-----------------------------------------------------------------------------
(* Queries                                                                 *)

OnCard(c, d) == {i \in DOMAIN assignment : assignment[i].card = c /\ assignment[i].date = d}
ActiveIn(S) == {i \in S : assignment[i].status = "ACTIVE"}

(* _get_temporary_assignment_by_card: the latest one, whatever its status. *)
LatestOnCard(c, d) ==
  IF OnCard(c, d) = {} THEN None ELSE CHOOSE i \in OnCard(c, d) : \A j \in OnCard(c, d) : j <= i

ActiveOfRequest(q) == ActiveIn({i \in DOMAIN assignment : assignment[i].request = q})

-----------------------------------------------------------------------------
(* The request service                                                     *)

(* One open request per employee and day, the day being the one it was     *)
(* made on or the one it was approved for.                                 *)
NoOpenRequestToday(e) ==
  \A q \in Requests :
    request[q].employee = e /\ request[q].status \in Open => today \notin {request[q].on, request[q].date}

(* Request ids come from a sequence.                                       *)
Inserts(W, q) ==
  W.kind = "commit" /\ q \in DOMAIN W.requests /\ "employee" \in DOMAIN W.requests[q]

NotBeingInserted(q) == \A w \in Workers : ~Inserts(session[w], q)

CreateRequest(w) ==
  \E q \in Requests, e \in Employees :
    /\ request[q].status = "absent" /\ NotBeingInserted(q)
    /\ NoOpenRequestToday(e)
    /\ Begin(w, Writes(On(q, [status |-> "PENDING", employee |-> e, on |-> today]),
                       NoChange, NoChange, None))

(* _validate_temporary_card_available                                      *)
CardAvailable(c, d) ==
  /\ card[c] = "AVAILABLE"
  /\ LET i == LatestOnCard(c, d) IN i # None => assignment[i].status \notin {"ACTIVE", "USED"}

Loan(q, c, d) ==
  [request |-> q, employee |-> request[q].employee, card |-> c, date |-> d, status |-> "ACTIVE"]

(* Mutants: the request is not told the date, or the row of an earlier     *)
(* assignment of the card is taken over.                                   *)
UndatedApproval(q, c, d) ==
  Writes(On(q, [status |-> "APPROVED", card |-> c]), NoChange, On(c, "ASSIGNED"), Loan(q, c, d))

RelentApproval(q, c, d) ==
  LET old == LatestOnCard(c, d)
      lent == [status |-> "APPROVED", card |-> c, date |-> d]
  IN  IF old = None THEN Writes(On(q, lent), NoChange, On(c, "ASSIGNED"), Loan(q, c, d))
      ELSE Writes(On(q, lent), On(old, Loan(q, c, d)), On(c, "ASSIGNED"), None)

(* What is still active on the card for the date is closed.                *)
Approval(q, c, d) ==
  Writes(On(q, [status |-> "APPROVED", card |-> c, date |-> d]),
         [i \in ActiveIn(OnCard(c, d)) |-> [status |-> "EXPIRED"]],
         On(c, "ASSIGNED"), Loan(q, c, d))

(* The approver chooses a card and the date it is valid for.               *)
ApproveRequest(w) ==
  \E q \in Requests, c \in Cards, d \in Days :
    request[q].status = "PENDING" /\ CardAvailable(c, d) /\ Begin(w, Approval(q, c, d))

RejectRequest(w) ==
  \E q \in Requests :
    /\ request[q].status = "PENDING"
    /\ Begin(w, Writes(On(q, [status |-> "REJECTED"]), NoChange, NoChange, None))

(* _release_temporary_assignment_if_exists with the request's new status:  *)
(* one active assignment of the request is released, if there is any.      *)
EndRequest(w, q, status) ==
  \/ /\ request[q].status # "APPROVED" \/ ActiveOfRequest(q) = {}
     /\ Begin(w, Writes(On(q, [status |-> status]), NoChange, NoChange, None))
  \/ /\ request[q].status = "APPROVED"
     /\ \E i \in ActiveOfRequest(q) :
          Begin(w, Writes(On(q, [status |-> status]), On(i, [status |-> "RELEASED"]),
                          FreeCard(assignment[i].card, card[assignment[i].card]), None))

(* By the requester, while the request is pending or approved.             *)
CancelRequest(w) ==
  \E q \in Requests : request[q].status \in Open /\ EndRequest(w, q, "CANCELLED")

CompleteRequest(w) ==
  \E q \in Requests : request[q].status = "APPROVED" /\ EndRequest(w, q, "COMPLETED")

(* release_temporary_card: the request itself stays approved.              *)
ReleaseTemporaryCard(w) ==
  \E i \in ActiveIn(DOMAIN assignment) :
    Begin(w, Writes(NoChange, On(i, [status |-> "RELEASED"]),
                    FreeCard(assignment[i].card, card[assignment[i].card]), None))

(* The tables as the writes leave them.                                    *)
RequestsAfter(W) == Patched(request, W.requests)
AssignmentsAfter(W) ==
  LET updated == Patched(assignment, W.assignments) IN
  IF W.new = None THEN updated ELSE Append(updated, W.new)
CardsAfter(W) == Updated(card, W.cards)

CommitWrites(w) ==
  LET W == session[w] IN
  /\ W.kind = "commit"
  /\ request' = RequestsAfter(W)
  /\ assignment' = AssignmentsAfter(W)
  /\ card' = CardsAfter(W)
  /\ session' = [session EXCEPT ![w] = Idle]
  /\ UNCHANGED <<today, scans>>

-----------------------------------------------------------------------------
(* Scans with a temporary card: ingest_nfc_scan_event                      *)

(* The card is resolved to the employee of its latest assignment for the   *)
(* date of the scan, which has to be active.                               *)
LoadScan(w) ==
  \E c \in Cards, d \in Days, type \in {"IN", "OUT"} :
    LET i == LatestOnCard(c, d) IN
    /\ i # None /\ assignment[i].status = "ACTIVE"
    /\ Begin(w, [kind |-> "scan", loaded |-> card[c],
                 scan |-> [employee |-> assignment[i].employee, card |-> c, date |-> d,
                           type |-> type]])

HookFollows(scan) == scan.type = "OUT"

CommitScan(w) ==
  LET s == session[w] IN
  /\ s.kind = "scan"
  /\ Len(scans) < MaxScans
  /\ scans' = Append(scans, s.scan)
  /\ session' = [session EXCEPT ![w] = IF HookFollows(s.scan) THEN [s EXCEPT !.kind = "hook"] ELSE Idle]
  /\ UNCHANGED <<today, request, assignment, card>>

(* Mutant: the card is freed, its assignment stays active.                 *)
HookFreesCardOnly(s, i) == Writes(NoChange, NoChange, FreeCard(s.scan.card, s.loaded), None)

HookWrites(s, i) ==
  Writes(NoChange, On(i, [status |-> "USED"]), FreeCard(s.scan.card, s.loaded), None)

(* on_check_out_with_assignment_id reads an active assignment of the card  *)
(* for the date; the card row is the one loaded when the scan began.       *)
CheckOutHook(w) ==
  LET s == session[w]
      active == ActiveIn(OnCard(s.scan.card, s.scan.date))
  IN  /\ s.kind = "hook"
      /\ \/ \E i \in active : session' = [session EXCEPT ![w] = HookWrites(s, i)]
         \/ active = {} /\ session' = [session EXCEPT ![w] = Idle]
      /\ UNCHANGED <<today, request, assignment, card, scans>>

(* The process dies after the scan's commit, or the hook raises and the    *)
(* exception is logged.                                                    *)
LoseHook(w) ==
  /\ MayCrash
  /\ session[w].kind = "hook"
  /\ session' = [session EXCEPT ![w] = Idle]
  /\ UNCHANGED <<today, request, assignment, card, scans>>

(* Midnight; a handler under way keeps the day it has read.                *)
NextDay ==
  /\ today + 1 \in Days
  /\ today' = today + 1
  /\ UNCHANGED <<request, assignment, card, scans, session>>

-----------------------------------------------------------------------------
Init ==
  /\ today = FirstDay
  /\ request = [q \in Requests |-> [status |-> "absent", employee |-> None, on |-> None,
                                    card |-> None, date |-> None]]
  /\ assignment = <<>>
  /\ card = [c \in Cards |-> "AVAILABLE"]
  /\ scans = <<>>
  /\ session = [w \in Workers |-> Idle]

(* Steps a thread takes once it serves a request.                          *)
Proceed(w) == CommitWrites(w) \/ CommitScan(w) \/ CheckOutHook(w)

Next ==
  \/ \E w \in Workers :
       \/ CreateRequest(w) \/ ApproveRequest(w) \/ RejectRequest(w)
       \/ CancelRequest(w) \/ CompleteRequest(w) \/ ReleaseTemporaryCard(w)
       \/ LoadScan(w) \/ Proceed(w) \/ LoseHook(w)
  \/ NextDay

Spec == Init /\ [][Next]_vars

(* A thread that began to serve a request goes on with it.                 *)
FairSpec == Spec /\ \A w \in Workers : WF_vars(Proceed(w))

-----------------------------------------------------------------------------
RequestWriteOK(ch) ==
  /\ DOMAIN ch \in {{"status"}, {"status", "employee", "on"}, {"status", "card", "date"}}
  /\ ch.status \in Open \cup {"REJECTED", "CANCELLED", "COMPLETED"}
  /\ "employee" \in DOMAIN ch => ch.employee \in Employees /\ ch.on \in Days
  /\ "card" \in DOMAIN ch => ch.card \in Cards /\ ch.date \in Days

(* What a session holds has the types of the columns it will meet.         *)
SessionOK(s) ==
  /\ s.kind \in {"idle", "commit", "scan", "hook"}
  /\ s.kind = "commit" =>
       /\ DOMAIN s.requests \subseteq Requests
       /\ \A q \in DOMAIN s.requests : RequestWriteOK(s.requests[q])
       /\ DOMAIN s.assignments \subseteq DOMAIN assignment
       /\ \A i \in DOMAIN s.assignments :
            /\ DOMAIN s.assignments[i] = {"status"}
            /\ s.assignments[i].status \in {"USED", "RELEASED", "EXPIRED"}
       /\ DOMAIN s.cards \subseteq Cards
       /\ \A c \in DOMAIN s.cards : s.cards[c] \in CardStatus
       /\ s.new \in Maybe(AssignmentRow)
  /\ s.kind \in {"scan", "hook"} => s.loaded \in CardStatus /\ s.scan \in Scan

TypeOK ==
  /\ today \in Days
  /\ request \in [Requests -> RequestRow]
  /\ \A q \in Requests : request[q].status # "absent" => request[q].employee \in Employees
  /\ assignment \in Seq(AssignmentRow)
  /\ card \in [Cards -> CardStatus]
  /\ scans \in Seq(Scan)
  /\ \A w \in Workers : SessionOK(session[w])

(* A card is out of the pool exactly while one assignment, of whatever     *)
(* date, is active on it: approve_request takes it out, and every way of   *)
(* ending the assignment puts it back.  Without overlapping requests.      *)
CardHeldByOne ==
  \A c \in Cards :
    Cardinality(ActiveIn({i \in DOMAIN assignment : assignment[i].card = c})) =
      (IF card[c] = "ASSIGNED" THEN 1 ELSE 0)

(* An active assignment belongs to an approved request, for the card and   *)
(* the date the request shows: no other end of a request leaves its card   *)
(* with the employee.  Without overlapping requests.                       *)
ActiveBelongsToApproved ==
  \A i \in ActiveIn(DOMAIN assignment) :
    LET q == request[assignment[i].request] IN
    /\ q.status = "APPROVED"
    /\ q.card = assignment[i].card /\ q.date = assignment[i].date
    /\ q.employee = assignment[i].employee

(* A session with a temporary card ends with the check-out of the employee *)
(* it was lent to: a used assignment has that employee's check-out, and no *)
(* second check-out is accepted on the card for the date.  Without         *)
(* overlapping requests and lost hooks.                                    *)
CheckOuts(c, d) == {n \in DOMAIN scans : scans[n].type = "OUT" /\ scans[n].card = c /\ scans[n].date = d}

OneCheckOutPerSession ==
  /\ \A c \in Cards, d \in Days : Cardinality(CheckOuts(c, d)) <= 1
  /\ \A i \in DOMAIN assignment : assignment[i].status = "USED" =>
       \E n \in CheckOuts(assignment[i].card, assignment[i].date) :
         scans[n].employee = assignment[i].employee

-----------------------------------------------------------------------------
(* Without overlap the tables are in order before and after each commit    *)

ActiveOn(loans, c) == {i \in DOMAIN loans : loans[i].card = c /\ loans[i].status = "ACTIVE"}

HeldByOne(loans, pool) ==
  \A c \in Cards : IF pool[c] = "ASSIGNED" THEN \E i \in ActiveOn(loans, c) : ActiveOn(loans, c) = {i}
                                          ELSE ActiveOn(loans, c) = {}

BelongToApproved(rows, loans) ==
  \A i \in DOMAIN loans : loans[i].status = "ACTIVE" =>
    LET q == rows[loans[i].request] IN
    /\ q.status = "APPROVED" /\ q.employee = loans[i].employee
    /\ q.card = loans[i].card /\ q.date = loans[i].date

UsedByBorrower(loans) ==
  \A i \in DOMAIN loans : loans[i].status = "USED" =>
    \E n \in CheckOuts(loans[i].card, loans[i].date) : scans[n].employee = loans[i].employee

(* The latest loan of the card for the date is used.                       *)
GivenBack(loans, c, d) ==
  \E i \in DOMAIN loans :
    /\ loans[i].card = c /\ loans[i].date = d /\ loans[i].status = "USED"
    /\ \A j \in DOMAIN loans : loans[j].card = c /\ loans[j].date = d => j <= i

(* The card of a scan under way is out, lent to the employee of the scan;  *)
(* the scan is the first check-out on the card for the date.               *)
ScanUnderWay(s) ==
  LET lent == OnCard(s.scan.card, s.scan.date)
      earlier == CheckOuts(s.scan.card, s.scan.date)
  IN  /\ \E i \in lent :
           /\ \A j \in lent : j <= i
           /\ assignment[i].status = "ACTIVE" /\ assignment[i].employee = s.scan.employee
      /\ s.loaded = card[s.scan.card]
      /\ IF s.kind = "scan" THEN earlier = {}
                            ELSE s.scan.type = "OUT" /\ \E n \in earlier : scans[n] = s.scan

(* A handler gives the card back after its check-out.                      *)
GivesBack(s, c, d) ==
  \/ s.kind = "commit" /\ GivenBack(AssignmentsAfter(s), c, d)
  \/ s.kind = "hook" /\ s.scan.card = c /\ s.scan.date = d

SerialLoans ==
  /\ HeldByOne(assignment, card)
  /\ BelongToApproved(request, assignment)
  /\ UsedByBorrower(assignment)
  /\ \A c \in Cards, d \in Days :
       /\ \A m, n \in CheckOuts(c, d) : m = n
       /\ CheckOuts(c, d) # {} =>
            \/ GivenBack(assignment, c, d)
            \/ \E w \in Workers : GivesBack(session[w], c, d)
  /\ \A w \in Workers : LET s == session[w] IN
       /\ s.kind = "commit" =>
            /\ HeldByOne(AssignmentsAfter(s), CardsAfter(s))
            /\ BelongToApproved(RequestsAfter(s), AssignmentsAfter(s))
            /\ UsedByBorrower(AssignmentsAfter(s))
            /\ \A c \in Cards, d \in Days :
                 CheckOuts(c, d) # {} => GivenBack(AssignmentsAfter(s), c, d)
       /\ s.kind \in {"scan", "hook"} => ScanUnderWay(s)

(* What holds of a card from its way out of the pool to its way back,      *)
(* without overlapping requests and lost hooks.                            *)
LoanInv ==
  /\ TypeOK
  /\ SerialLoans
  /\ CardHeldByOne
  /\ ActiveBelongsToApproved
  /\ OneCheckOutPerSession

-----------------------------------------------------------------------------

(* However requests overlap and hooks get lost, a scan is credited to an   *)
(* employee the card was lent to for the date of the scan.                 *)
Borrowed(scan) ==
  \E i \in DOMAIN assignment :
    /\ assignment[i].card = scan.card /\ assignment[i].date = scan.date
    /\ assignment[i].employee = scan.employee

ScanCreditedToBorrower == \A n \in DOMAIN scans : Borrowed(scans[n])

(* However requests overlap, the card and date an approved or completed    *)
(* request shows are those of an assignment made for it and its employee.  *)
Backed(q) ==
  \E i \in DOMAIN assignment :
    /\ assignment[i].request = q
    /\ assignment[i].employee = request[q].employee
    /\ assignment[i].card = request[q].card /\ assignment[i].date = request[q].date

HandledIsBacked ==
  \A q \in Requests : request[q].status \in {"APPROVED", "COMPLETED"} => Backed(q)

(* A card found used was checked out on that date, even when the check-out *)
(* hook races with other handlers.                                         *)
CheckedOut(i) == CheckOuts(assignment[i].card, assignment[i].date) # {}

UsedWasCheckedOut == \A i \in DOMAIN assignment : assignment[i].status = "USED" => CheckedOut(i)

(* The writes to a request that a session is about to commit: only the     *)
(* insert meets an absent row, an approval brings its assignment, and a    *)
(* completion meets a request that has one.                                *)
FitsRequest(W, q) ==
  LET ch == W.requests[q] IN
  /\ "employee" \in DOMAIN ch <=> request[q].status = "absent"
  /\ "employee" \in DOMAIN ch => ch.status = "PENDING"
  /\ ch.status = "APPROVED" => "card" \in DOMAIN ch
  /\ ch.status = "COMPLETED" => Backed(q)
  /\ "card" \in DOMAIN ch =>
       /\ W.new # None /\ W.new.request = q /\ W.new.employee = request[q].employee
       /\ W.new.card = ch.card /\ W.new.date = ch.date

(* What sessions are about to do fits the rows they will meet, whatever    *)
(* the others commit before.                                               *)
FitsSession(s) ==
  /\ s.kind = "commit" =>
       /\ \A q \in DOMAIN s.requests : FitsRequest(s, q)
       /\ \A i \in DOMAIN s.assignments : s.assignments[i].status = "USED" => CheckedOut(i)
       /\ s.new # None => s.new.status = "ACTIVE"
  /\ s.kind \in {"scan", "hook"} => Borrowed(s.scan)
  /\ s.kind = "hook" => CheckOuts(s.scan.card, s.scan.date) # {}

SessionsFit ==
  /\ \A w \in Workers : FitsSession(session[w])
  /\ \A v, w \in Workers, q \in Requests :
       Inserts(session[v], q) /\ Inserts(session[w], q) => v = w

(* Scans and loans explain each other, however requests overlap: every     *)
(* scan has a borrower, every card found used has its check-out, and what  *)
(* sessions are about to commit keeps it so.                               *)
ScansMatchLoans ==
  /\ TypeOK
  /\ SessionsFit
  /\ ScanCreditedToBorrower
  /\ UsedWasCheckedOut

(* "This employee already has an active temporary NFC card for today.":    *)
(* an employee holds at most one card for a date.                          *)
OneCardPerEmployee ==
  \A e \in Employees, d \in Days :
    Cardinality({i \in ActiveIn(DOMAIN assignment) :
                   assignment[i].employee = e /\ assignment[i].date = d}) <= 1

(* After a check-out the card is given back: its assignment does not stay  *)
(* active.                                                                 *)
CheckOutReleases ==
  \A c \in Cards, d \in Days :
    CheckOuts(c, d) # {} ~> ActiveIn(OnCard(c, d)) = {}

=============================================================================
