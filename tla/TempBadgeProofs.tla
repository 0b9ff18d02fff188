--------------------------- MODULE TempBadgeProofs ---------------------------
(***************************************************************************)
(* Temporary cards for any number of employees, requests, cards and days.  *)
(* With any number of workers and lost hooks: what a request shows and     *)
(* what a scan is credited to is backed by an assignment.  With one worker *)
(* and no lost hook: what holds of a card from its way out of the pool to  *)
(* its way back.                                                           *)
(***************************************************************************)
EXTENDS TempBadge, FiniteSetTheorems, WellFoundedInduction, TLAPS

-----------------------------------------------------------------------------
(* What the writes of a session leave in the tables                        *)

(* The rows of a sequence of assignments.                                  *)
LEMMA LoanRow ==
  ASSUME NEW loans \in Seq(AssignmentRow), NEW i \in DOMAIN loans
  PROVE  /\ loans[i] \in AssignmentRow
         /\ DOMAIN loans[i] = {"request", "employee", "card", "date", "status"}
         /\ loans[i].request \in Requests /\ loans[i].employee \in Employees
         /\ loans[i].card \in Cards /\ loans[i].date \in Days
         /\ loans[i].status \in {"ACTIVE", "USED", "RELEASED", "EXPIRED"}
         /\ i \in Nat /\ i <= Len(loans)
<1>1. loans[i] \in AssignmentRow /\ i \in Nat /\ i <= Len(loans)
  OBVIOUS
<1>. QED  BY <1>1 DEF AssignmentRow

(* An update of a loan changes nothing but its status.                     *)
LEMMA UpdatedLoan ==
  ASSUME NEW row \in AssignmentRow, NEW ch, DOMAIN ch = {"status"},
         ch.status \in {"USED", "RELEASED", "EXPIRED"}
  PROVE  /\ Updated(row, ch) \in AssignmentRow
         /\ Updated(row, ch).request = row.request /\ Updated(row, ch).employee = row.employee
         /\ Updated(row, ch).card = row.card /\ Updated(row, ch).date = row.date
         /\ Updated(row, ch).status = ch.status
<1> DEFINE u == Updated(row, ch)
           r == [request |-> row.request, employee |-> row.employee, card |-> row.card,
                 date |-> row.date, status |-> ch.status]
<1>1. DOMAIN row = {"request", "employee", "card", "date", "status"}
  BY DEF AssignmentRow
<1>2. u = [c \in DOMAIN row |-> IF c \in DOMAIN ch THEN ch[c] ELSE row[c]]
  BY DEF Updated
<1>3. DOMAIN u = DOMAIN r /\ \A c \in DOMAIN r : u[c] = r[c]
  BY <1>1, <1>2
<1>4. u = r
  BY <1>1, <1>2, <1>3
<1>. HIDE DEF u
<1>5. r \in AssignmentRow
  BY DEF AssignmentRow
<1>. QED  BY <1>4, <1>5 DEF u

(* What a commit makes of the assignments.                                 *)
LEMMA LoansAfter ==
  ASSUME TypeOK, NEW W, W.kind = "commit", SessionOK(W)
  PROVE  LET after == AssignmentsAfter(W) IN
         /\ after \in Seq(AssignmentRow)
         /\ DOMAIN after =
              DOMAIN assignment \cup (IF W.new = None THEN {} ELSE {Len(assignment) + 1})
         /\ \A i \in DOMAIN assignment :
              /\ after[i].request = assignment[i].request
              /\ after[i].employee = assignment[i].employee
              /\ after[i].card = assignment[i].card /\ after[i].date = assignment[i].date
              /\ after[i].status = IF i \in DOMAIN W.assignments THEN W.assignments[i].status
                                                                ELSE assignment[i].status
         /\ W.new # None => after[Len(assignment) + 1] = W.new
<1> DEFINE n == Len(assignment)
           updated == Patched(assignment, W.assignments)
<1>1. assignment \in Seq(AssignmentRow) /\ n \in Nat /\ DOMAIN assignment = 1..n
  BY DEF TypeOK
<1>2. ASSUME NEW i \in DOMAIN assignment
      PROVE  /\ updated[i] \in AssignmentRow
             /\ updated[i].request = assignment[i].request
             /\ updated[i].employee = assignment[i].employee
             /\ updated[i].card = assignment[i].card /\ updated[i].date = assignment[i].date
             /\ updated[i].status = IF i \in DOMAIN W.assignments THEN W.assignments[i].status
                                                                 ELSE assignment[i].status
  <2>1. assignment[i] \in AssignmentRow
    BY <1>1
  <2>2. CASE i \in DOMAIN W.assignments
    <3>1. updated[i] = Updated(assignment[i], W.assignments[i])
      BY <2>2 DEF Patched
    <3>2. /\ DOMAIN W.assignments[i] = {"status"}
          /\ W.assignments[i].status \in {"USED", "RELEASED", "EXPIRED"}
      BY <2>2 DEF SessionOK
    <3>. QED  BY <2>1, <2>2, <3>1, <3>2, UpdatedLoan
  <2>3. CASE i \notin DOMAIN W.assignments
    BY <2>1, <2>3 DEF Patched
  <2>. QED  BY <2>2, <2>3
<1>3. updated \in Seq(AssignmentRow) /\ Len(updated) = n /\ DOMAIN updated = 1..n
  <2>1. updated = [i \in 1..n |-> updated[i]]
    BY <1>1 DEF Patched
  <2>. HIDE DEF updated
  <2>. QED  BY <1>1, <1>2, <2>1
<1>. HIDE DEF updated, n
<1>4. CASE W.new = None
  BY <1>1, <1>2, <1>3, <1>4 DEF AssignmentsAfter, updated, n
<1>5. CASE W.new # None
  <2>1. W.new \in AssignmentRow
    BY <1>5 DEF SessionOK, Maybe
  <2>2. AssignmentsAfter(W) = Append(updated, W.new)
    BY <1>5 DEF AssignmentsAfter, updated
  <2>3. /\ Append(updated, W.new) \in Seq(AssignmentRow)
        /\ DOMAIN Append(updated, W.new) = 1..(n + 1)
        /\ Append(updated, W.new)[n + 1] = W.new
        /\ \A i \in 1..n : Append(updated, W.new)[i] = updated[i]
    BY <1>1, <1>3, <2>1
  <2>4. 1..(n + 1) = 1..n \cup {n + 1}
    BY <1>1
  <2>. QED  BY <1>1, <1>2, <1>5, <2>2, <2>3, <2>4 DEF n
<1>. QED  BY <1>4, <1>5

RequestColumns == {"status", "employee", "on", "card", "date"}

(* What a commit makes of the requests.                                    *)
LEMMA RequestsAreAfter ==
  ASSUME TypeOK, NEW W, W.kind = "commit", SessionOK(W)
  PROVE  /\ RequestsAfter(W) \in [Requests -> RequestRow]
         /\ \A q \in Requests :
              /\ q \notin DOMAIN W.requests => RequestsAfter(W)[q] = request[q]
              /\ q \in DOMAIN W.requests => \A c \in RequestColumns :
                   RequestsAfter(W)[q][c] = IF c \in DOMAIN W.requests[q] THEN W.requests[q][c]
                                                                        ELSE request[q][c]
<1>1. RequestsAfter(W) = [q \in Requests |-> IF q \in DOMAIN W.requests
                                               THEN Updated(request[q], W.requests[q])
                                               ELSE request[q]]
  BY DEF TypeOK, RequestsAfter, Patched
<1>2. ASSUME NEW q \in DOMAIN W.requests
      PROVE  /\ Updated(request[q], W.requests[q]) \in RequestRow
             /\ \A c \in RequestColumns :
                  Updated(request[q], W.requests[q])[c] =
                    IF c \in DOMAIN W.requests[q] THEN W.requests[q][c] ELSE request[q][c]
  <2> DEFINE row == request[q]
             ch == W.requests[q]
             u == Updated(row, ch)
             F(c) == IF c \in DOMAIN ch THEN ch[c] ELSE row[c]
             r == [status |-> F("status"), employee |-> F("employee"), on |-> F("on"),
                   card |-> F("card"), date |-> F("date")]
  <2>1. row \in RequestRow /\ RequestWriteOK(ch)
    BY DEF TypeOK, SessionOK
  <2>2. u = [c \in RequestColumns |-> F(c)]
    BY <2>1 DEF Updated, RequestRow, RequestColumns
  <2>3. u = r
    BY <2>2 DEF RequestColumns
  <2>4. /\ F("status") \in Open \cup {"absent", "REJECTED", "CANCELLED", "COMPLETED"}
        /\ F("employee") \in Maybe(Employees) /\ F("on") \in Maybe(Days)
        /\ F("card") \in Maybe(Cards) /\ F("date") \in Maybe(Days)
    <3>. HIDE DEF row, ch
    <3>. QED  BY <2>1 DEF RequestRow, RequestWriteOK, Maybe
  <2>. HIDE DEF F
  <2>5. r \in RequestRow
    BY <2>4 DEF RequestRow
  <2>. QED  BY <2>2, <2>3, <2>5 DEF F
<1>. QED  BY <1>1, <1>2 DEF TypeOK

(* What a commit makes of the cards.                                       *)
LEMMA CardsAreAfter ==
  ASSUME TypeOK, NEW W, W.kind = "commit", SessionOK(W)
  PROVE  /\ CardsAfter(W) \in [Cards -> CardStatus]
         /\ \A c \in Cards :
              CardsAfter(W)[c] = IF c \in DOMAIN W.cards THEN W.cards[c] ELSE card[c]
  BY DEF TypeOK, SessionOK, CardsAfter, Updated

-----------------------------------------------------------------------------
(* Overlapping requests                                                    *)

OverlapInv ==
  /\ TypeOK
  /\ session = [w \in Workers |-> session[w]]
  /\ SessionsFit
  /\ ScanCreditedToBorrower
  /\ UsedWasCheckedOut
  /\ HandledIsBacked

(* Assignments are never removed and never change hands.                   *)
Grown ==
  \A i \in DOMAIN assignment :
    /\ i \in DOMAIN assignment'
    /\ assignment'[i].request = assignment[i].request
    /\ assignment'[i].employee = assignment[i].employee
    /\ assignment'[i].card = assignment[i].card /\ assignment'[i].date = assignment[i].date

(* Assignments left alone have grown, trivially.                           *)
LEMMA UnchangedGrown == ASSUME UNCHANGED assignment  PROVE Grown
  BY DEF Grown

(* A commit adds assignments and changes nobody's card or date.            *)
LEMMA CommitGrown ==
  ASSUME TypeOK, NEW w \in Workers, CommitWrites(w)
  PROVE  Grown
<1>1. session[w].kind = "commit" /\ SessionOK(session[w])
  BY DEF TypeOK, CommitWrites
<1>2. assignment' = AssignmentsAfter(session[w])
  BY DEF CommitWrites
<1>. QED  BY <1>1, <1>2, LoansAfter DEF Grown

(* A scan credited to a borrower stays so.                                 *)
LEMMA StillBorrowed ==
  ASSUME Grown, NEW scan, Borrowed(scan)
  PROVE  Borrowed(scan)'
  BY DEF Grown, Borrowed

(* Scans are only added.                                                   *)
LEMMA StillCheckedOut ==
  ASSUME TypeOK, NEW c, NEW d, CheckOuts(c, d) # {},
         scans' = scans \/ \E scan \in Scan : scans' = Append(scans, scan)
  PROVE  (CheckOuts(c, d) # {})'
<1>1. PICK n \in DOMAIN scans : scans[n].type = "OUT" /\ scans[n].card = c /\ scans[n].date = d
  BY DEF CheckOuts
<1>2. n \in DOMAIN scans' /\ scans'[n] = scans[n]
  BY DEF TypeOK
<1>. QED  BY <1>1, <1>2 DEF CheckOuts

(* A session stays in order while no assignment disappears.                *)
LEMMA StaysOK ==
  ASSUME NEW s, SessionOK(s), DOMAIN assignment \subseteq DOMAIN assignment'
  PROVE  SessionOK(s)'
  BY DEF SessionOK

(* What a session is about to do still fits after a step of another one.   *)
LEMMA StaysFit ==
  ASSUME TypeOK, NEW s, SessionOK(s), FitsSession(s), Grown,
         scans' = scans \/ \E scan \in Scan : scans' = Append(scans, scan),
         s.kind = "commit" => \A q \in DOMAIN s.requests :
           /\ request'[q].status = "absent" <=> request[q].status = "absent"
           /\ request[q].status # "absent" => request'[q].employee = request[q].employee
           /\ Backed(q) => Backed(q)'
  PROVE  FitsSession(s)'
<1>1. CASE s.kind = "commit"
  <2>1. ASSUME NEW q \in DOMAIN s.requests  PROVE FitsRequest(s, q)'
    <3>1. FitsRequest(s, q)
      BY <1>1 DEF FitsSession
    <3>2. "card" \in DOMAIN s.requests[q] => "employee" \notin DOMAIN s.requests[q]
      BY <1>1 DEF SessionOK, RequestWriteOK
    <3>. QED  BY <1>1, <3>1, <3>2 DEF FitsRequest
  <2>2. ASSUME NEW i \in DOMAIN s.assignments, s.assignments[i].status = "USED"
        PROVE  CheckedOut(i)'
    <3>1. i \in DOMAIN assignment /\ CheckedOut(i)
      BY <1>1, <2>2 DEF FitsSession, SessionOK
    <3> DEFINE c == assignment[i].card
               d == assignment[i].date
    <3>2. CheckOuts(c, d) # {}
      BY <3>1 DEF CheckedOut
    <3>3. PICK n \in DOMAIN scans : scans[n].type = "OUT" /\ scans[n].card = c /\ scans[n].date = d
      BY <3>2 DEF CheckOuts
    <3>4. n \in DOMAIN scans' /\ scans'[n] = scans[n]
      BY DEF TypeOK
    <3>5. assignment'[i].card = c /\ assignment'[i].date = d
      BY <3>1 DEF Grown
    <3>. QED  BY <3>3, <3>4, <3>5 DEF CheckedOut, CheckOuts
  <2>. QED  BY <1>1, <2>1, <2>2 DEF FitsSession
<1>2. CASE s.kind # "commit"
  <2>1. s.kind \in {"scan", "hook"} => Borrowed(s.scan)'
    BY StillBorrowed DEF FitsSession
  <2>2. s.kind = "hook" => (CheckOuts(s.scan.card, s.scan.date) # {})'
    BY StillCheckedOut DEF FitsSession
  <2>. QED  BY <1>2, <2>1, <2>2 DEF FitsSession
<1>. QED  BY <1>1, <1>2

(* A session begins, goes on to its hook or ends without touching a table. *)
LEMMA TurnKeeps ==
  ASSUME OverlapInv, NEW w \in Workers, NEW W, session' = [session EXCEPT ![w] = W],
         SessionOK(W), FitsSession(W), \A q \in Requests : Inserts(W, q) => NotBeingInserted(q),
         UNCHANGED <<today, request, assignment, card, scans>>
  PROVE  OverlapInv'
<1>1. session'[w] = W /\ \A v \in Workers : v # w => session'[v] = session[v]
  BY DEF OverlapInv
<1>2. session' = [v \in Workers |-> session'[v]]
  BY DEF OverlapInv
<1>3. ASSUME NEW v \in Workers  PROVE SessionOK(session[v])' /\ FitsSession(session[v])'
  <2>1. PICK s : s = session'[v]
    OBVIOUS
  <2>2. SessionOK(s) /\ FitsSession(s)
    BY <1>1, <2>1 DEF OverlapInv, TypeOK, SessionsFit
  <2>3. SessionOK(s)'
    BY <2>2, StaysOK
  <2>4. Grown
    BY UnchangedGrown
  <2>5. \A q : Backed(q) => Backed(q)'
    BY DEF Backed
  <2>6. FitsSession(s)'
    BY <2>2, <2>4, <2>5, StaysFit DEF OverlapInv
  <2>7. SessionOK(session[v])'
    BY <2>1, <2>3 DEF SessionOK
  <2>8. FitsSession(session[v])'
    BY <2>1, <2>6 DEF FitsSession, FitsRequest, Borrowed, CheckOuts, CheckedOut
  <2>. QED  BY <2>7, <2>8
<1>4. ASSUME NEW v1 \in Workers, NEW v2 \in Workers, NEW q \in Requests,
             Inserts(session'[v1], q), Inserts(session'[v2], q)
      PROVE  v1 = v2
  BY <1>1, <1>4 DEF OverlapInv, SessionsFit, NotBeingInserted
<1>5. TypeOK'
  BY <1>3 DEF OverlapInv, TypeOK
<1>6. SessionsFit'
  BY <1>3, <1>4 DEF SessionsFit, Inserts
<1>7. ScanCreditedToBorrower' /\ UsedWasCheckedOut' /\ HandledIsBacked'
  BY DEF OverlapInv, ScanCreditedToBorrower, Borrowed, UsedWasCheckedOut, CheckedOut, CheckOuts,
         HandledIsBacked, Backed
<1>. QED  BY <1>2, <1>5, <1>6, <1>7 DEF OverlapInv

(* What a commit leaves in the columns of a request.                       *)
LEMMA CommittedRequest ==
  ASSUME TypeOK, NEW w \in Workers, CommitWrites(w), NEW q \in Requests
  PROVE  LET W == session[w] IN
         /\ q \notin DOMAIN W.requests => request'[q] = request[q]
         /\ q \in DOMAIN W.requests =>
              /\ request'[q].status = W.requests[q].status
              /\ "employee" \notin DOMAIN W.requests[q] => request'[q].employee = request[q].employee
              /\ "employee" \in DOMAIN W.requests[q] =>
                   request'[q].employee = W.requests[q].employee
              /\ IF "card" \in DOMAIN W.requests[q]
                   THEN /\ request'[q].card = W.requests[q].card
                        /\ request'[q].date = W.requests[q].date
                        /\ "employee" \notin DOMAIN W.requests[q]
                   ELSE request'[q].card = request[q].card /\ request'[q].date = request[q].date
<1> DEFINE W == session[w]
<1>1. W.kind = "commit" /\ SessionOK(W)
  BY DEF TypeOK, CommitWrites
<1>2. request' = RequestsAfter(W)
  BY DEF CommitWrites
<1>3. q \in DOMAIN W.requests => RequestWriteOK(W.requests[q])
  BY <1>1 DEF SessionOK
<1>. HIDE DEF W
<1>4. CASE q \notin DOMAIN W.requests
  BY <1>1, <1>2, <1>4, RequestsAreAfter DEF W
<1>5. CASE q \in DOMAIN W.requests
  <2> DEFINE ch == W.requests[q]
  <2>1. \A c \in RequestColumns : request'[q][c] = IF c \in DOMAIN ch THEN ch[c] ELSE request[q][c]
    BY <1>1, <1>2, <1>5, RequestsAreAfter
  <2>2. DOMAIN ch \in {{"status"}, {"status", "employee", "on"}, {"status", "card", "date"}}
    BY <1>3, <1>5 DEF RequestWriteOK
  <2>3. /\ request'[q]["status"] = ch["status"]
        /\ request'[q]["employee"] = IF "employee" \in DOMAIN ch THEN ch["employee"] ELSE request[q]["employee"]
        /\ request'[q]["card"] = IF "card" \in DOMAIN ch THEN ch["card"] ELSE request[q]["card"]
        /\ request'[q]["date"] = IF "date" \in DOMAIN ch THEN ch["date"] ELSE request[q]["date"]
    BY <2>1, <2>2 DEF RequestColumns
  <2>4. "card" \in DOMAIN ch <=> "date" \in DOMAIN ch
    BY <2>2
  <2>5. "card" \in DOMAIN ch => "employee" \notin DOMAIN ch
    BY <2>2
  <2>. QED  BY <1>5, <2>3, <2>4, <2>5 DEF W
<1>. QED  BY <1>4, <1>5

(* A commit leaves every handled request backed by a loan.                 *)
LEMMA CommitBacks ==
  ASSUME OverlapInv, NEW w \in Workers, CommitWrites(w), NEW q \in Requests
  PROVE  /\ Backed(q) /\ ~Inserts(session[w], q) => Backed(q)'
         /\ request'[q].status \in {"APPROVED", "COMPLETED"} => Backed(q)'
<1> DEFINE W == session[w]
           n == Len(assignment) + 1
<1>1. W.kind = "commit" /\ SessionOK(W) /\ FitsSession(W) /\ TypeOK
  BY DEF OverlapInv, TypeOK, SessionsFit, CommitWrites
<1>2. Grown
  BY CommitGrown DEF OverlapInv
<1>3. assignment' = AssignmentsAfter(W)
  BY DEF CommitWrites
<1>4. W.new # None => n \in DOMAIN assignment' /\ assignment'[n] = W.new
  BY <1>1, <1>3, LoansAfter
<1>5. q \in DOMAIN W.requests => FitsRequest(W, q)
  BY <1>1 DEF FitsSession
<1>6. /\ q \notin DOMAIN W.requests => request'[q] = request[q]
      /\ q \in DOMAIN W.requests =>
           /\ request'[q].status = W.requests[q].status
           /\ "employee" \notin DOMAIN W.requests[q] => request'[q].employee = request[q].employee
           /\ IF "card" \in DOMAIN W.requests[q]
                THEN /\ request'[q].card = W.requests[q].card
                     /\ request'[q].date = W.requests[q].date
                     /\ "employee" \notin DOMAIN W.requests[q]
                ELSE request'[q].card = request[q].card /\ request'[q].date = request[q].date
  BY <1>1, CommittedRequest
<1>7. Inserts(W, q) <=> q \in DOMAIN W.requests /\ "employee" \in DOMAIN W.requests[q]
  BY <1>1 DEF Inserts
<1>. HIDE DEF W, n
<1>8. CASE q \in DOMAIN W.requests /\ "card" \in DOMAIN W.requests[q]
  <2>1. W.new # None /\ W.new.request = q /\ W.new.employee = request[q].employee
        /\ W.new.card = W.requests[q].card /\ W.new.date = W.requests[q].date
    BY <1>5, <1>8 DEF FitsRequest
  <2>2. Backed(q)'
    BY <1>4, <1>6, <1>8, <2>1 DEF Backed
  <2>. QED  BY <2>2
<1>9. CASE ~(q \in DOMAIN W.requests /\ "card" \in DOMAIN W.requests[q])
  <2>1. Backed(q) /\ ~Inserts(W, q) => Backed(q)'
    <3> SUFFICES ASSUME Backed(q), ~Inserts(W, q)  PROVE Backed(q)'
      OBVIOUS
    <3>1. /\ request'[q].employee = request[q].employee
          /\ request'[q].card = request[q].card /\ request'[q].date = request[q].date
      BY <1>6, <1>7, <1>9
    <3>. QED  BY <1>2, <3>1 DEF Backed, Grown
  <2>2. ASSUME request'[q].status \in {"APPROVED", "COMPLETED"}
        PROVE  Backed(q) /\ ~Inserts(W, q)
    <3>1. CASE q \in DOMAIN W.requests
      BY <1>5, <1>6, <1>7, <1>9, <2>2, <3>1 DEF FitsRequest
    <3>2. CASE q \notin DOMAIN W.requests
      BY <1>6, <1>7, <2>2, <3>2 DEF OverlapInv, HandledIsBacked
    <3>. QED  BY <3>1, <3>2
  <2>. QED  BY <2>1, <2>2 DEF W
<1>. QED  BY <1>8, <1>9 DEF W

(* A commit keeps the invariant.                                           *)
LEMMA CommitKeeps ==
  ASSUME OverlapInv, NEW w \in Workers, CommitWrites(w)
  PROVE  OverlapInv'
<1> DEFINE W == session[w]
<1>1. W.kind = "commit" /\ SessionOK(W) /\ FitsSession(W) /\ TypeOK /\ scans' = scans
  BY DEF OverlapInv, TypeOK, SessionsFit, CommitWrites
<1>2. Grown
  BY CommitGrown DEF OverlapInv
<1>3. /\ session'[w] = Idle /\ \A v \in Workers : v # w => session'[v] = session[v]
      /\ session' = [v \in Workers |-> session'[v]]
  BY DEF OverlapInv, CommitWrites
<1>4. ASSUME NEW q \in Requests
      PROVE  /\ request'[q].status = "absent" <=> request[q].status = "absent" /\ ~Inserts(W, q)
             /\ ~Inserts(W, q) => request'[q].employee = request[q].employee
  <2>1. CASE q \notin DOMAIN W.requests
    <3>1. request'[q] = request[q]
      BY <1>1, <2>1, CommittedRequest
    <3>. QED  BY <2>1, <3>1 DEF Inserts
  <2>2. CASE q \in DOMAIN W.requests
    <3>1. FitsRequest(W, q) /\ RequestWriteOK(W.requests[q])
      BY <1>1, <2>2 DEF FitsSession, SessionOK
    <3>2. /\ request'[q].status = W.requests[q].status
          /\ "employee" \notin DOMAIN W.requests[q] => request'[q].employee = request[q].employee
      BY <1>1, <2>2, CommittedRequest
    <3>. HIDE DEF W
    <3>. QED  BY <1>1, <2>2, <3>1, <3>2 DEF Inserts, FitsRequest, RequestWriteOK, Open
  <2>. QED  BY <2>1, <2>2
<1>5. ASSUME NEW v \in Workers  PROVE SessionOK(session[v])' /\ FitsSession(session[v])'
  <2>1. PICK s : s = session'[v]
    OBVIOUS
  <2>2. SessionOK(s)' /\ FitsSession(s)'
    <3>1. CASE v = w
      BY <1>3, <2>1, <3>1 DEF Idle, SessionOK, FitsSession
    <3>2. CASE v # w
      <4>1. s = session[v] /\ SessionOK(s) /\ FitsSession(s)
        BY <1>3, <2>1, <3>2 DEF OverlapInv, TypeOK, SessionsFit
      <4>2. ASSUME s.kind = "commit", NEW q \in DOMAIN s.requests
            PROVE  /\ request'[q].status = "absent" <=> request[q].status = "absent"
                   /\ request[q].status # "absent" => request'[q].employee = request[q].employee
                   /\ Backed(q) => Backed(q)'
        <5>1. q \in Requests /\ FitsRequest(s, q)
          BY <4>1, <4>2 DEF SessionOK, FitsSession
        <5>2. ~Inserts(W, q)
          <6> SUFFICES ASSUME Inserts(W, q)  PROVE FALSE
            OBVIOUS
          <6>1. FitsRequest(W, q)
            BY <1>1 DEF FitsSession, Inserts
          <6>2. "employee" \in DOMAIN W.requests[q]
            BY DEF Inserts
          <6>3. request[q].status = "absent"
            BY <6>1, <6>2 DEF FitsRequest
          <6>4. Inserts(s, q)
            BY <4>2, <5>1, <6>3 DEF FitsRequest, Inserts
          <6>. QED  BY <3>2, <4>1, <5>1, <6>4 DEF OverlapInv, SessionsFit
        <5>. QED  BY <1>4, <5>1, <5>2, CommitBacks
      <4>3. SessionOK(s)'
        BY <1>2, <4>1, StaysOK DEF Grown
      <4>4. FitsSession(s)'
        BY <1>1, <1>2, <4>1, <4>2, StaysFit
      <4>. QED  BY <4>3, <4>4
    <3>. QED  BY <3>1, <3>2
  <2>3. SessionOK(session[v])'
    BY <2>1, <2>2 DEF SessionOK
  <2>4. FitsSession(session[v])'
    BY <2>1, <2>2 DEF FitsSession, FitsRequest, Borrowed, CheckOuts, CheckedOut
  <2>. QED  BY <2>3, <2>4
<1>6. ASSUME NEW v1 \in Workers, NEW v2 \in Workers, NEW q \in Requests,
             Inserts(session'[v1], q), Inserts(session'[v2], q)
      PROVE  v1 = v2
  <2>1. ~Inserts(Idle, q)
    BY DEF Inserts, Idle
  <2>2. v1 # w /\ v2 # w /\ session'[v1] = session[v1] /\ session'[v2] = session[v2]
    BY <1>3, <1>6, <2>1
  <2>. QED  BY <1>6, <2>2 DEF OverlapInv, SessionsFit
<1>7. TypeOK'
  <2>1. /\ assignment' = AssignmentsAfter(W) /\ request' = RequestsAfter(W)
        /\ card' = CardsAfter(W) /\ UNCHANGED <<today, scans>>
    BY DEF CommitWrites
  <2>2. assignment' \in Seq(AssignmentRow)
    BY <1>1, <2>1, LoansAfter
  <2>3. request' \in [Requests -> RequestRow]
    BY <1>1, <2>1, RequestsAreAfter
  <2>4. card' \in [Cards -> CardStatus]
    BY <1>1, <2>1, CardsAreAfter
  <2>5. ASSUME NEW q \in Requests, request'[q].status # "absent"
        PROVE  request'[q].employee \in Employees
    <3>1. CASE Inserts(W, q)
      <4>1. q \in DOMAIN W.requests /\ "employee" \in DOMAIN W.requests[q]
        BY <3>1 DEF Inserts
      <4>2. W.requests[q].employee \in Employees
        BY <1>1, <4>1 DEF SessionOK, RequestWriteOK
      <4>3. request'[q].employee = W.requests[q].employee
        BY <1>1, <4>1, CommittedRequest
      <4>. QED  BY <4>2, <4>3
    <3>2. CASE ~Inserts(W, q)
      BY <1>1, <1>4, <2>5, <3>2 DEF TypeOK
    <3>. QED  BY <3>1, <3>2
  <2>. QED  BY <1>1, <1>5, <2>1, <2>2, <2>3, <2>4, <2>5 DEF TypeOK
<1>8. SessionsFit'
  BY <1>5, <1>6 DEF SessionsFit, Inserts
<1>9. ScanCreditedToBorrower'
  <2>1. ASSUME NEW n \in DOMAIN scans'  PROVE Borrowed(scans[n])'
    <3>1. PICK scan : scan = scans[n]
      OBVIOUS
    <3>2. Borrowed(scan)
      BY <1>1, <3>1 DEF OverlapInv, ScanCreditedToBorrower
    <3>3. Borrowed(scan)'
      BY <1>2, <3>2, StillBorrowed
    <3>. QED  BY <1>1, <3>1, <3>3 DEF Borrowed
  <2>. QED  BY <2>1 DEF ScanCreditedToBorrower
<1>10. UsedWasCheckedOut'
  <2>1. ASSUME NEW i \in DOMAIN assignment', assignment'[i].status = "USED"
        PROVE  /\ i \in DOMAIN assignment /\ CheckedOut(i)
               /\ assignment'[i].card = assignment[i].card /\ assignment'[i].date = assignment[i].date
    <3>1. assignment' = AssignmentsAfter(W)
      BY DEF CommitWrites
    <3>2. i \in DOMAIN assignment
      BY <1>1, <2>1, <3>1, LoansAfter DEF FitsSession
    <3>3. i \in DOMAIN W.assignments => W.assignments[i].status = "USED"
      BY <1>1, <2>1, <3>1, <3>2, LoansAfter
    <3>4. i \notin DOMAIN W.assignments => assignment[i].status = "USED"
      BY <1>1, <2>1, <3>1, <3>2, LoansAfter
    <3>5. CheckedOut(i)
      BY <1>1, <3>2, <3>3, <3>4 DEF FitsSession, OverlapInv, UsedWasCheckedOut
    <3>. QED  BY <1>2, <3>2, <3>5 DEF Grown
  <2>. QED  BY <1>1, <2>1 DEF UsedWasCheckedOut, CheckedOut, CheckOuts
<1>11. HandledIsBacked'
  BY CommitBacks DEF HandledIsBacked
<1>. QED  BY <1>3, <1>7, <1>8, <1>9, <1>10, <1>11 DEF OverlapInv

-----------------------------------------------------------------------------
(* The operations                                                          *)

(* Writes of a handler that updates one request and nothing else.          *)
LEMMA RequestOnly ==
  ASSUME NEW q \in Requests, NEW ch, RequestWriteOK(ch), NEW W,
         W = Writes(On(q, ch), NoChange, NoChange, None),
         FitsRequest(W, q)
  PROVE  SessionOK(W) /\ FitsSession(W) /\ \A p \in Requests : Inserts(W, p) =>
           p = q /\ "employee" \in DOMAIN ch
<1>1. /\ W.kind = "commit" /\ W.requests = On(q, ch) /\ W.assignments = NoChange
      /\ W.cards = NoChange /\ W.new = None
  BY DEF Writes
<1>2. DOMAIN On(q, ch) = {q} /\ On(q, ch)[q] = ch /\ DOMAIN NoChange = {}
  BY DEF On, NoChange
<1>3. SessionOK(W)
  BY <1>1, <1>2 DEF SessionOK, Maybe
<1>4. FitsSession(W)
  BY <1>1, <1>2 DEF FitsSession
<1>. QED  BY <1>1, <1>2, <1>3, <1>4 DEF Inserts

(* Writes of a handler that ends one assignment.                           *)
LEMMA EndingLoan ==
  ASSUME TypeOK, NEW i \in DOMAIN assignment, NEW status \in {"USED", "RELEASED"},
         status = "USED" => CheckedOut(i), NEW c \in Cards, NEW loaded,
         NEW reqs, NEW W, W = Writes(reqs, On(i, [status |-> status]), FreeCard(c, loaded), None),
         \/ reqs = NoChange
         \/ \E q \in Requests : \E ch :
              /\ reqs = On(q, ch) /\ DOMAIN ch = {"status"}
              /\ RequestWriteOK(ch) /\ FitsRequest(W, q)
  PROVE  SessionOK(W) /\ FitsSession(W) /\ \A p \in Requests : ~Inserts(W, p)
<1> DEFINE lent == [status |-> status]
<1>1. /\ W.kind = "commit" /\ W.requests = reqs /\ W.assignments = On(i, lent)
      /\ W.cards = FreeCard(c, loaded) /\ W.new = None
  BY DEF Writes
<1>2. DOMAIN lent = {"status"} /\ lent.status = status
  OBVIOUS
<1>. HIDE DEF lent
<1>3. DOMAIN On(i, lent) = {i} /\ On(i, lent)[i] = lent
  BY DEF On
<1>4. /\ DOMAIN FreeCard(c, loaded) \subseteq Cards
      /\ \A x \in DOMAIN FreeCard(c, loaded) : FreeCard(c, loaded)[x] \in CardStatus
  BY DEF FreeCard, NoChange, On, CardStatus
<1>5. /\ DOMAIN reqs \subseteq Requests
      /\ \A q \in DOMAIN reqs : RequestWriteOK(reqs[q]) /\ FitsRequest(W, q) /\ DOMAIN reqs[q] = {"status"}
  <2>1. CASE reqs = NoChange
    BY <2>1 DEF NoChange
  <2>2. CASE \E q \in Requests : \E ch :
               /\ reqs = On(q, ch) /\ DOMAIN ch = {"status"}
               /\ RequestWriteOK(ch) /\ FitsRequest(W, q)
    BY <2>2 DEF On
  <2>. QED  BY <2>1, <2>2
<1>6. SessionOK(W)
  BY <1>1, <1>2, <1>3, <1>4, <1>5 DEF SessionOK, Maybe
<1>7. FitsSession(W)
  BY <1>1, <1>2, <1>3, <1>5 DEF FitsSession
<1>. QED  BY <1>1, <1>5, <1>6, <1>7 DEF Inserts

(* The creation of a request keeps the invariant.                          *)
LEMMA CreateKeeps ==
  ASSUME OverlapInv, NEW w \in Workers, CreateRequest(w)
  PROVE  OverlapInv'
<1>1. PICK q \in Requests, e \in Employees :
        /\ request[q].status = "absent" /\ NotBeingInserted(q)
        /\ Begin(w, Writes(On(q, [status |-> "PENDING", employee |-> e, on |-> today]),
                           NoChange, NoChange, None))
  BY DEF CreateRequest
<1> DEFINE ch == [status |-> "PENDING", employee |-> e, on |-> today]
           W == Writes(On(q, ch), NoChange, NoChange, None)
<1>2. /\ DOMAIN ch = {"status", "employee", "on"} /\ ch.status = "PENDING"
      /\ ch.employee \in Employees /\ ch.on \in Days
  BY DEF OverlapInv, TypeOK
<1>. HIDE DEF ch
<1>3. RequestWriteOK(ch)
  BY <1>2 DEF RequestWriteOK, Open
<1>4. W.requests[q] = ch
  BY DEF Writes, On
<1>5. FitsRequest(W, q)
  BY <1>1, <1>2, <1>4 DEF FitsRequest
<1>. HIDE DEF W
<1>6. SessionOK(W) /\ FitsSession(W) /\ \A p \in Requests : Inserts(W, p) => p = q
  BY <1>3, <1>5, RequestOnly DEF W
<1>7. Begin(w, W)
  BY <1>1 DEF W, ch
<1>. QED  BY <1>1, <1>6, <1>7, TurnKeeps DEF Begin

(* An approval keeps the invariant.                                        *)
LEMMA ApproveKeeps ==
  ASSUME OverlapInv, NEW w \in Workers, ApproveRequest(w)
  PROVE  OverlapInv'
<1>1. PICK q \in Requests, c \in Cards, d \in Days :
        request[q].status = "PENDING" /\ CardAvailable(c, d) /\ Begin(w, Approval(q, c, d))
  BY DEF ApproveRequest
<1> DEFINE ch == [status |-> "APPROVED", card |-> c, date |-> d]
           expired == [status |-> "EXPIRED"]
           asgs == [i \in ActiveIn(OnCard(c, d)) |-> expired]
           loan == Loan(q, c, d)
           W == Approval(q, c, d)
<1>2. request[q].employee \in Employees /\ request[q].status # "absent"
  BY <1>1 DEF OverlapInv, TypeOK
<1>3. /\ W.kind = "commit" /\ W.requests = On(q, ch) /\ W.assignments = asgs
      /\ W.cards = On(c, "ASSIGNED") /\ W.new = loan
  BY DEF Approval, Writes
<1>4. /\ loan \in AssignmentRow /\ loan # None /\ loan.status = "ACTIVE"
      /\ loan.request = q /\ loan.employee = request[q].employee /\ loan.card = c /\ loan.date = d
  BY <1>2, NoneIsNoRow DEF Loan, AssignmentRow
<1>5. /\ DOMAIN ch = {"status", "card", "date"} /\ ch.status = "APPROVED"
      /\ ch.card = c /\ ch.date = d
  OBVIOUS
<1>6. /\ DOMAIN asgs \subseteq DOMAIN assignment
      /\ \A i \in DOMAIN asgs : DOMAIN asgs[i] = {"status"} /\ asgs[i].status = "EXPIRED"
  BY DEF ActiveIn, OnCard
<1>7. /\ DOMAIN On(q, ch) = {q} /\ On(q, ch)[q] = ch
      /\ DOMAIN On(c, "ASSIGNED") = {c} /\ On(c, "ASSIGNED")[c] = "ASSIGNED"
  BY DEF On
<1>. HIDE DEF ch, asgs, loan, W
<1>8. RequestWriteOK(ch)
  BY <1>5 DEF RequestWriteOK, Open
<1>9. FitsRequest(W, q)
  BY <1>2, <1>3, <1>4, <1>5, <1>7 DEF FitsRequest
<1>10. SessionOK(W)
  BY <1>3, <1>4, <1>6, <1>7, <1>8 DEF SessionOK, Maybe, CardStatus
<1>11. FitsSession(W) /\ \A p \in Requests : ~Inserts(W, p)
  BY <1>3, <1>4, <1>5, <1>6, <1>7, <1>9 DEF FitsSession, Inserts
<1>. QED  BY <1>1, <1>10, <1>11, TurnKeeps DEF Begin, W

(* A write of a final status fits its request.                             *)
LEMMA StatusOnly ==
  ASSUME NEW q \in Requests, request[q].status # "absent", NEW W,
         NEW status \in {"REJECTED", "CANCELLED", "COMPLETED"},
         status = "COMPLETED" => Backed(q),
         W.requests = On(q, [status |-> status])
  PROVE  /\ DOMAIN [status |-> status] = {"status"}
         /\ RequestWriteOK([status |-> status]) /\ FitsRequest(W, q)
<1> DEFINE ch == [status |-> status]
<1>1. DOMAIN ch = {"status"} /\ ch.status = status /\ W.requests[q] = ch
  BY DEF On
<1>. HIDE DEF ch
<1>2. RequestWriteOK(ch) /\ FitsRequest(W, q)
  BY <1>1 DEF RequestWriteOK, FitsRequest
<1>. QED  BY <1>1, <1>2 DEF ch

(* A cancellation or completion keeps the invariant.                       *)
LEMMA EndKeeps ==
  ASSUME OverlapInv, NEW w \in Workers, NEW q \in Requests, request[q].status # "absent",
         NEW status \in {"CANCELLED", "COMPLETED"}, status = "COMPLETED" => Backed(q),
         EndRequest(w, q, status)
  PROVE  OverlapInv'
<1> DEFINE ch == [status |-> status]
<1>1. CASE Begin(w, Writes(On(q, ch), NoChange, NoChange, None))
  <2> DEFINE W == Writes(On(q, ch), NoChange, NoChange, None)
  <2>1. W.requests = On(q, ch)
    BY DEF Writes
  <2>2. RequestWriteOK(ch) /\ FitsRequest(W, q) /\ DOMAIN ch = {"status"}
    BY <2>1, StatusOnly
  <2>. HIDE DEF ch, W
  <2>3. SessionOK(W) /\ FitsSession(W) /\ \A p \in Requests : ~Inserts(W, p)
    BY <2>2, RequestOnly DEF W
  <2>. QED  BY <1>1, <2>3, TurnKeeps DEF Begin, W
<1>2. ASSUME NEW i \in ActiveOfRequest(q),
             Begin(w, Writes(On(q, ch), On(i, [status |-> "RELEASED"]),
                             FreeCard(assignment[i].card, card[assignment[i].card]), None))
      PROVE  OverlapInv'
  <2> DEFINE c == assignment[i].card
             W == Writes(On(q, ch), On(i, [status |-> "RELEASED"]), FreeCard(c, card[c]), None)
  <2>1. i \in DOMAIN assignment /\ TypeOK
    BY DEF ActiveOfRequest, ActiveIn, OverlapInv
  <2>2. c \in Cards
    BY <2>1, LoanRow DEF TypeOK
  <2>3. W.requests = On(q, ch)
    BY DEF Writes
  <2>4. RequestWriteOK(ch) /\ FitsRequest(W, q) /\ DOMAIN ch = {"status"}
    BY <2>3, StatusOnly
  <2>5. SessionOK(W) /\ FitsSession(W) /\ \A p \in Requests : ~Inserts(W, p)
    BY <2>1, <2>2, <2>4, EndingLoan
  <2>. HIDE DEF W
  <2>. QED  BY <1>2, <2>5, TurnKeeps DEF Begin, W
<1>. QED  BY <1>1, <1>2 DEF EndRequest

(* A release keeps the invariant.                                          *)
LEMMA ReleaseKeeps ==
  ASSUME OverlapInv, NEW w \in Workers, ReleaseTemporaryCard(w)
  PROVE  OverlapInv'
<1>1. PICK i \in ActiveIn(DOMAIN assignment) :
        Begin(w, Writes(NoChange, On(i, [status |-> "RELEASED"]),
                        FreeCard(assignment[i].card, card[assignment[i].card]), None))
  BY DEF ReleaseTemporaryCard
<1> DEFINE c == assignment[i].card
           W == Writes(NoChange, On(i, [status |-> "RELEASED"]), FreeCard(c, card[c]), None)
<1>2. i \in DOMAIN assignment /\ TypeOK
  BY DEF ActiveIn, OverlapInv
<1>3. c \in Cards
  BY <1>2, LoanRow DEF TypeOK
<1>4. SessionOK(W) /\ FitsSession(W) /\ \A p \in Requests : ~Inserts(W, p)
  BY <1>2, <1>3, EndingLoan
<1>. HIDE DEF W
<1>. QED  BY <1>1, <1>4, TurnKeeps DEF Begin, W

(* A nonempty set of natural numbers has a least element, and a nonempty   *)
(* set of positions up to n a greatest one.                                *)
LEMMA LeastNat ==
  ASSUME NEW S, S \subseteq Nat, S # {}
  PROVE  \E x \in S : \A y \in S : x <= y
<1> DEFINE R == OpToRel(<, Nat)
<1>1. PICK x \in S : \A y \in S : ~(<<y, x>> \in R)
  <2>. HIDE DEF R
  <2>1. IsWellFoundedOn(R, Nat)
    BY NatLessThanWellFounded DEF R
  <2>. QED  BY <2>1, WFMin
<1>2. \A y \in S : ~(y < x)
  BY <1>1 DEF OpToRel
<1>. QED  BY <1>2

(* A bounded nonempty set of numbers has a greatest one.                   *)
LEMMA GreatestUpTo ==
  ASSUME NEW n \in Nat, NEW S, S \subseteq 1..n, S # {}
  PROVE  \E x \in S : \A y \in S : y <= x
<1> DEFINE T == {n - x : x \in S}
<1>1. T \subseteq Nat /\ T # {}
  <2>1. \A x \in S : x \in Int /\ n - x \in Nat
    OBVIOUS
  <2>2. PICK x \in S : TRUE
    OBVIOUS
  <2>3. n - x \in T
    OBVIOUS
  <2>. QED  BY <2>1, <2>3
<1>2. PICK t \in T : \A y \in T : t <= y
  <2>. HIDE DEF T
  <2>. QED  BY <1>1, LeastNat
<1>3. PICK x \in S : t = n - x
  OBVIOUS
<1>4. ASSUME NEW y \in S  PROVE y <= x
  <2>1. n - y \in T
    OBVIOUS
  <2>. HIDE DEF T
  <2>2. n - x <= n - y
    BY <1>2, <1>3, <2>1
  <2>3. x \in Int /\ y \in Int
    OBVIOUS
  <2>. QED  BY <2>2, <2>3
<1>. QED  BY <1>4

(* The latest assignment of a card for a date is the last of them.         *)
LEMMA LatestIs ==
  ASSUME TypeOK, NEW c, NEW d
  PROVE  LET i == LatestOnCard(c, d) IN
         /\ i = None <=> OnCard(c, d) = {}
         /\ i # None => i \in OnCard(c, d) /\ i \in DOMAIN assignment /\ \A j \in OnCard(c, d) : j <= i
<1>1. assignment \in Seq(AssignmentRow) /\ OnCard(c, d) \subseteq DOMAIN assignment
  BY DEF TypeOK, OnCard
<1>2. Len(assignment) \in Nat /\ DOMAIN assignment = 1..Len(assignment)
  BY <1>1
<1>3. CASE OnCard(c, d) = {}
  BY <1>3 DEF LatestOnCard
<1>4. CASE OnCard(c, d) # {}
  <2>1. \E i \in OnCard(c, d) : \A j \in OnCard(c, d) : j <= i
    BY <1>1, <1>2, <1>4, GreatestUpTo
  <2>2. /\ LatestOnCard(c, d) \in OnCard(c, d)
        /\ \A j \in OnCard(c, d) : j <= LatestOnCard(c, d)
    BY <1>4, <2>1 DEF LatestOnCard
  <2>. QED  BY <1>1, <1>2, <1>4, <2>2, NoneIsNoRow
<1>. QED  BY <1>3, <1>4

(* A scan that looks up its assignment keeps the invariant.                *)
LEMMA LoadKeeps ==
  ASSUME OverlapInv, NEW w \in Workers, LoadScan(w)
  PROVE  OverlapInv'
<1>1. PICK c \in Cards, d \in Days, type \in {"IN", "OUT"} :
        LET i == LatestOnCard(c, d) IN
        /\ i # None /\ assignment[i].status = "ACTIVE"
        /\ Begin(w, [kind |-> "scan", loaded |-> card[c],
                     scan |-> [employee |-> assignment[i].employee, card |-> c, date |-> d,
                               type |-> type]])
  BY DEF LoadScan
<1> DEFINE i == LatestOnCard(c, d)
           scan == [employee |-> assignment[i].employee, card |-> c, date |-> d, type |-> type]
           W == [kind |-> "scan", loaded |-> card[c], scan |-> scan]
<1>2. i \in DOMAIN assignment /\ assignment[i].card = c /\ assignment[i].date = d
  BY <1>1, LatestIs DEF OverlapInv, OnCard
<1>. HIDE DEF i
<1>3. assignment[i].employee \in Employees
  BY <1>2, LoanRow DEF OverlapInv, TypeOK
<1>4. scan \in Scan /\ Borrowed(scan)
  BY <1>2, <1>3 DEF Scan, Borrowed
<1>5. card[c] \in CardStatus
  BY DEF OverlapInv, TypeOK
<1>. HIDE DEF scan
<1>6. SessionOK(W) /\ FitsSession(W) /\ \A p \in Requests : ~Inserts(W, p)
  BY <1>4, <1>5 DEF SessionOK, FitsSession, Inserts
<1>. QED  BY <1>1, <1>6, TurnKeeps DEF Begin, i, scan

(* The check-out hook keeps the invariant.                                 *)
LEMMA HookKeeps ==
  ASSUME OverlapInv, NEW w \in Workers, CheckOutHook(w)
  PROVE  OverlapInv'
<1> DEFINE s == session[w]
           c == s.scan.card
           d == s.scan.date
<1>1. s.kind = "hook" /\ SessionOK(s) /\ FitsSession(s) /\ TypeOK
  BY DEF OverlapInv, TypeOK, SessionsFit, CheckOutHook
<1>2. c \in Cards /\ CheckOuts(c, d) # {}
  BY <1>1 DEF SessionOK, FitsSession, Scan
<1>3. ASSUME NEW i \in ActiveIn(OnCard(c, d)), session' = [session EXCEPT ![w] = HookWrites(s, i)]
      PROVE  OverlapInv'
  <2>1. i \in DOMAIN assignment /\ CheckedOut(i)
    BY <1>2 DEF ActiveIn, OnCard, CheckedOut
  <2> DEFINE W == HookWrites(s, i)
  <2>2. SessionOK(W) /\ FitsSession(W) /\ \A p \in Requests : ~Inserts(W, p)
    BY <1>1, <1>2, <2>1, EndingLoan DEF HookWrites
  <2>. QED  BY <1>3, <2>2, TurnKeeps DEF CheckOutHook
<1>4. SessionOK(Idle) /\ FitsSession(Idle) /\ \A p \in Requests : ~Inserts(Idle, p)
  BY DEF SessionOK, FitsSession, Inserts, Idle
<1>5. ASSUME session' = [session EXCEPT ![w] = Idle]  PROVE OverlapInv'
  BY <1>4, <1>5, TurnKeeps DEF CheckOutHook
<1>. QED  BY <1>3, <1>5 DEF CheckOutHook

(* A hook that gets lost keeps the invariant.                              *)
LEMMA LoseKeeps ==
  ASSUME OverlapInv, NEW w \in Workers, LoseHook(w)
  PROVE  OverlapInv'
<1>1. SessionOK(Idle) /\ FitsSession(Idle) /\ \A p \in Requests : ~Inserts(Idle, p)
  BY DEF SessionOK, FitsSession, Inserts, Idle
<1>. QED  BY <1>1, TurnKeeps DEF LoseHook

(* A scan keeps the invariant.                                             *)
LEMMA ScanKeeps ==
  ASSUME OverlapInv, NEW w \in Workers, CommitScan(w)
  PROVE  OverlapInv'
<1> DEFINE s == session[w]
           next == IF HookFollows(s.scan) THEN [s EXCEPT !.kind = "hook"] ELSE Idle
           n == Len(scans) + 1
<1>1. s.kind = "scan" /\ SessionOK(s) /\ FitsSession(s) /\ TypeOK
  BY DEF OverlapInv, TypeOK, SessionsFit, CommitScan
<1>2. s.scan \in Scan /\ s.loaded \in CardStatus /\ Borrowed(s.scan)
  BY <1>1 DEF SessionOK, FitsSession
<1>3. /\ scans' = Append(scans, s.scan) /\ session' = [session EXCEPT ![w] = next]
      /\ UNCHANGED <<today, request, assignment, card>>
  BY DEF CommitScan
<1>4. /\ n \in DOMAIN scans' /\ scans'[n] = s.scan /\ scans' \in Seq(Scan)
      /\ \A m \in DOMAIN scans' : m \in DOMAIN scans \/ m = n
      /\ \A m \in DOMAIN scans : m \in DOMAIN scans' /\ scans'[m] = scans[m]
  BY <1>1, <1>2, <1>3 DEF TypeOK
<1>5. next.kind \in {"hook", "idle"} /\ (next.kind = "hook" => next.scan = s.scan /\ next.loaded = s.loaded)
  BY DEF Idle
<1>6. next.kind = "hook" => s.scan.type = "OUT"
  BY DEF Idle, HookFollows
<1>. HIDE DEF next
<1>7. session'[w] = next /\ \A v \in Workers : v # w => session'[v] = session[v]
  BY <1>3 DEF OverlapInv
<1>8. session' = [v \in Workers |-> session'[v]]
  BY <1>3 DEF OverlapInv
<1>9. Grown
  BY <1>3, UnchangedGrown
<1>10. \A q : Backed(q) => Backed(q)'
  BY <1>3 DEF Backed
<1>11. ASSUME NEW v \in Workers  PROVE SessionOK(session[v])' /\ FitsSession(session[v])'
  <2>1. PICK t : t = session'[v]
    OBVIOUS
  <2>2. SessionOK(t)' /\ FitsSession(t)'
    <3>1. CASE v = w
      <4>1. t = next
        BY <1>7, <2>1, <3>1
      <4>2. SessionOK(t)'
        BY <1>2, <1>5, <4>1 DEF SessionOK
      <4>3. PICK scan : scan = s.scan
        OBVIOUS
      <4>4. Borrowed(scan)'
        BY <1>2, <1>9, <4>3, StillBorrowed
      <4>5. t.kind = "hook" => t.scan = scan /\ scan.type = "OUT"
        BY <1>5, <1>6, <4>1, <4>3
      <4>6. scan.type = "OUT" => (CheckOuts(scan.card, scan.date) # {})'
        BY <1>4, <4>3 DEF CheckOuts
      <4>7. t.kind \in {"hook", "idle"}
        BY <1>5, <4>1
      <4>8. t.kind = "hook" => Borrowed(t.scan)' /\ (CheckOuts(t.scan.card, t.scan.date) # {})'
        BY <4>4, <4>5, <4>6
      <4>. QED  BY <4>2, <4>7, <4>8 DEF FitsSession
    <3>2. CASE v # w
      <4>1. SessionOK(t) /\ FitsSession(t)
        BY <1>7, <2>1, <3>2 DEF OverlapInv, TypeOK, SessionsFit
      <4>2. SessionOK(t)'
        BY <1>3, <4>1, StaysOK
      <4>3. \E scan \in Scan : scans' = Append(scans, scan)
        BY <1>2, <1>3
      <4>4. FitsSession(t)'
        BY <1>1, <1>3, <1>9, <1>10, <4>1, <4>3, StaysFit
      <4>. QED  BY <4>2, <4>4
    <3>. QED  BY <3>1, <3>2
  <2>3. SessionOK(session[v])'
    BY <2>1, <2>2 DEF SessionOK
  <2>4. FitsSession(session[v])'
    BY <2>1, <2>2 DEF FitsSession, FitsRequest, Borrowed, CheckOuts, CheckedOut
  <2>. QED  BY <2>3, <2>4
<1>12. ASSUME NEW v1 \in Workers, NEW v2 \in Workers, NEW q \in Requests,
             Inserts(session'[v1], q), Inserts(session'[v2], q)
      PROVE  v1 = v2
  <2>1. ~Inserts(next, q)
    BY <1>5 DEF Inserts
  <2>2. v1 # w /\ v2 # w /\ session'[v1] = session[v1] /\ session'[v2] = session[v2]
    BY <1>7, <1>12, <2>1
  <2>. QED  BY <1>12, <2>2 DEF OverlapInv, SessionsFit
<1>13. TypeOK'
  BY <1>1, <1>3, <1>4, <1>11 DEF TypeOK
<1>14. SessionsFit'
  BY <1>11, <1>12 DEF SessionsFit, Inserts
<1>15. ScanCreditedToBorrower'
  <2>1. ASSUME NEW m \in DOMAIN scans'  PROVE Borrowed(scans[m])'
    <3>1. PICK scan : scan = scans'[m]
      OBVIOUS
    <3>2. Borrowed(scan)
      BY <1>2, <1>4, <3>1 DEF OverlapInv, ScanCreditedToBorrower
    <3>3. Borrowed(scan)'
      BY <1>9, <3>2, StillBorrowed
    <3>. QED  BY <3>1, <3>3 DEF Borrowed
  <2>. QED  BY <2>1 DEF ScanCreditedToBorrower
<1>16. UsedWasCheckedOut'
  <2>1. ASSUME NEW i \in DOMAIN assignment, assignment[i].status = "USED"
        PROVE  CheckedOut(i)'
    <3>1. PICK m \in DOMAIN scans : /\ scans[m].type = "OUT" /\ scans[m].card = assignment[i].card
                                   /\ scans[m].date = assignment[i].date
      BY <2>1 DEF OverlapInv, UsedWasCheckedOut, CheckedOut, CheckOuts
    <3>. QED  BY <1>3, <1>4, <3>1 DEF CheckedOut, CheckOuts
  <2>. QED  BY <1>3, <2>1 DEF UsedWasCheckedOut
<1>17. HandledIsBacked'
  BY <1>3, <1>10 DEF OverlapInv, HandledIsBacked
<1>. QED  BY <1>8, <1>13, <1>14, <1>15, <1>16, <1>17 DEF OverlapInv

(* The next day keeps the invariant.                                       *)
LEMMA DayKeeps ==
  ASSUME OverlapInv, UNCHANGED <<request, assignment, card, scans, session>>, today' \in Days
  PROVE  OverlapInv'
<1>1. TypeOK'
  BY DEF OverlapInv, TypeOK, SessionOK
<1>2. \A w \in Workers : FitsSession(session[w])'
  BY DEF OverlapInv, SessionsFit, FitsSession, FitsRequest, Borrowed, CheckOuts, CheckedOut, Backed
<1>3. SessionsFit'
  BY <1>2 DEF OverlapInv, SessionsFit, Inserts
<1>4. ScanCreditedToBorrower' /\ UsedWasCheckedOut' /\ HandledIsBacked'
  BY DEF OverlapInv, ScanCreditedToBorrower, Borrowed, UsedWasCheckedOut, CheckedOut, CheckOuts,
         HandledIsBacked, Backed
<1>. QED  BY <1>1, <1>3, <1>4 DEF OverlapInv

(* The empty desk has the invariant.                                       *)
LEMMA InitOverlap == Init => OverlapInv
<1> SUFFICES ASSUME Init  PROVE OverlapInv
  OBVIOUS
<1>1. /\ today \in Days /\ DOMAIN assignment = {} /\ DOMAIN scans = {}
      /\ assignment \in Seq(AssignmentRow) /\ scans \in Seq(Scan)
  BY SomeDay DEF Init, Days
<1>2. /\ request \in [Requests -> RequestRow] /\ \A q \in Requests : request[q].status = "absent"
  BY DEF Init, RequestRow, Maybe
<1>3. card \in [Cards -> CardStatus]
  BY DEF Init, CardStatus
<1>4. session = [w \in Workers |-> session[w]] /\ \A w \in Workers : session[w].kind = "idle"
  BY DEF Init, Idle
<1>5. TypeOK
  BY <1>1, <1>2, <1>3, <1>4 DEF TypeOK, SessionOK
<1>6. SessionsFit
  BY <1>4 DEF SessionsFit, FitsSession, Inserts
<1>7. ScanCreditedToBorrower /\ UsedWasCheckedOut /\ HandledIsBacked
  BY <1>1, <1>2 DEF ScanCreditedToBorrower, UsedWasCheckedOut, HandledIsBacked
<1>. QED  BY <1>4, <1>5, <1>6, <1>7 DEF OverlapInv

(* Every step keeps it.                                                    *)
LEMMA NextOverlap == OverlapInv /\ [Next]_vars => OverlapInv'
<1> SUFFICES ASSUME OverlapInv, [Next]_vars  PROVE OverlapInv'
  OBVIOUS
<1>1. ASSUME NEW w \in Workers,
             \/ CreateRequest(w) \/ ApproveRequest(w) \/ RejectRequest(w)
             \/ CancelRequest(w) \/ CompleteRequest(w) \/ ReleaseTemporaryCard(w)
             \/ LoadScan(w) \/ Proceed(w) \/ LoseHook(w)
      PROVE  OverlapInv'
  <2>1. CASE RejectRequest(w)
    <3>1. PICK q \in Requests :
            /\ request[q].status = "PENDING"
            /\ Begin(w, Writes(On(q, [status |-> "REJECTED"]), NoChange, NoChange, None))
      BY <2>1 DEF RejectRequest
    <3> DEFINE ch == [status |-> "REJECTED"]
               W == Writes(On(q, ch), NoChange, NoChange, None)
    <3>2. W.requests = On(q, ch)
      BY DEF Writes
    <3>3. RequestWriteOK(ch) /\ FitsRequest(W, q) /\ DOMAIN ch = {"status"}
      BY <3>1, <3>2, StatusOnly
    <3>. HIDE DEF ch, W
    <3>4. SessionOK(W) /\ FitsSession(W) /\ \A p \in Requests : ~Inserts(W, p)
      BY <3>3, RequestOnly DEF W
    <3>. QED  BY <3>1, <3>4, TurnKeeps DEF Begin, W, ch
  <2>2. CASE CancelRequest(w)
    BY <2>2, EndKeeps DEF CancelRequest, Open
  <2>3. CASE CompleteRequest(w)
    <3>1. PICK q \in Requests : request[q].status = "APPROVED" /\ EndRequest(w, q, "COMPLETED")
      BY <2>3 DEF CompleteRequest
    <3>2. Backed(q)
      BY <3>1 DEF OverlapInv, HandledIsBacked
    <3>. QED  BY <3>1, <3>2, EndKeeps
  <2>. QED
    BY <1>1, <2>1, <2>2, <2>3, CreateKeeps, ApproveKeeps, ReleaseKeeps, LoadKeeps, LoseKeeps,
       CommitKeeps, ScanKeeps, HookKeeps DEF Proceed
<1>2. CASE NextDay
  BY <1>2, DayKeeps DEF NextDay
<1>3. CASE UNCHANGED vars
  BY <1>3, DayKeeps DEF vars, OverlapInv, TypeOK
<1>. QED  BY <1>1, <1>2, <1>3 DEF Next

(* It holds in every state.                                                *)
LEMMA AlwaysOverlap == Spec => []OverlapInv
<1>. QED  BY InitOverlap, NextOverlap, PTL DEF Spec

(* With any number of workers and lost hooks: the card and the date that   *)
(* an approved or completed request shows are those of an assignment made  *)
(* for it and its employee, although approve_request, cancel_request and   *)
(* complete_request check the status before their commits.                 *)
THEOREM HandledRequestsAreBacked == Spec => []HandledIsBacked
<1>1. OverlapInv => HandledIsBacked
  BY DEF OverlapInv
<1>. QED  BY <1>1, AlwaysOverlap, PTL

(* With any number of workers and lost hooks: a scan is credited to an     *)
(* employee the card was lent to for the date, and a card found used was   *)
(* checked out.                                                            *)
THEOREM ScansAndLoansMatch == Spec => []ScansMatchLoans
<1>1. OverlapInv => ScansMatchLoans
  BY DEF OverlapInv, ScansMatchLoans
<1>. QED  BY <1>1, AlwaysOverlap, PTL

-----------------------------------------------------------------------------
(* One worker and no lost hook                                             *)

OneAtATime == (\A v, w \in Workers : v = w) /\ ~MayCrash

SerialInv == OverlapInv /\ SerialLoans

(* What a session is about to commit, or the scan under way, leaves the    *)
(* loans in order.                                                         *)
KeepsOrder(s) ==
  /\ s.kind = "commit" =>
       /\ HeldByOne(AssignmentsAfter(s), CardsAfter(s))
       /\ BelongToApproved(RequestsAfter(s), AssignmentsAfter(s))
       /\ UsedByBorrower(AssignmentsAfter(s))
       /\ \A c \in Cards, d \in Days :
            CheckOuts(c, d) # {} => GivenBack(AssignmentsAfter(s), c, d)
  /\ s.kind \in {"scan", "hook"} => ScanUnderWay(s)

(* The one active assignment of a card that is out.                        *)
LEMMA ActiveIsHeld ==
  ASSUME TypeOK, HeldByOne(assignment, card), NEW i \in DOMAIN assignment,
         assignment[i].status = "ACTIVE"
  PROVE  LET c == assignment[i].card IN
         c \in Cards /\ card[c] = "ASSIGNED" /\ ActiveOn(assignment, c) = {i}
<1>1. assignment[i].card \in Cards
  BY LoanRow DEF TypeOK
<1>2. i \in ActiveOn(assignment, assignment[i].card)
  BY DEF ActiveOn
<1>. QED  BY <1>1, <1>2 DEF HeldByOne, TypeOK, CardStatus

(* A commit of requests alone leaves assignments and cards.                *)
LEMMA UnchangedLoans ==
  ASSUME TypeOK, NEW W, W.assignments = NoChange, W.cards = NoChange, W.new = None
  PROVE  AssignmentsAfter(W) = assignment /\ CardsAfter(W) = card
<1>1. DOMAIN W.assignments = {} /\ DOMAIN W.cards = {}
  BY DEF NoChange
<1>2. AssignmentsAfter(W) = [i \in DOMAIN assignment |-> assignment[i]]
  BY <1>1 DEF AssignmentsAfter, Patched
<1>3. assignment = [i \in DOMAIN assignment |-> assignment[i]]
  BY DEF TypeOK
<1>4. CardsAfter(W) = [c \in DOMAIN card |-> card[c]]
  BY <1>1 DEF CardsAfter, Updated
<1>. QED  BY <1>2, <1>3, <1>4 DEF TypeOK

(* While every session is idle, a card checked out for a date is back.     *)
LEMMA IdleGivenBack ==
  ASSUME SerialLoans, \A w \in Workers : session[w].kind = "idle",
         NEW c \in Cards, NEW d \in Days, CheckOuts(c, d) # {}
  PROVE  GivenBack(assignment, c, d)
  BY DEF SerialLoans, GivesBack

(* A request's row changes while no card is lent for it.                   *)
LEMMA RequestKeepsOrder ==
  ASSUME SerialInv, \A w \in Workers : session[w].kind = "idle",
         NEW q \in Requests, request[q].status # "APPROVED" \/ ActiveOfRequest(q) = {},
         NEW ch, NEW W, W = Writes(On(q, ch), NoChange, NoChange, None), SessionOK(W)
  PROVE  KeepsOrder(W)
<1>1. /\ W.kind = "commit" /\ W.assignments = NoChange /\ W.cards = NoChange /\ W.new = None
      /\ W.requests = On(q, ch)
  BY DEF Writes
<1>2. TypeOK /\ SerialLoans
  BY DEF SerialInv, OverlapInv
<1>3. AssignmentsAfter(W) = assignment /\ CardsAfter(W) = card
  BY <1>1, <1>2, UnchangedLoans
<1>4. ASSUME NEW i \in DOMAIN assignment, assignment[i].status = "ACTIVE"
      PROVE  RequestsAfter(W)[assignment[i].request] = request[assignment[i].request]
  <2>1. assignment[i].request \in Requests
    BY <1>2, LoanRow DEF TypeOK
  <2>2. request[assignment[i].request].status = "APPROVED"
    BY <1>2, <1>4 DEF SerialLoans, BelongToApproved
  <2>3. assignment[i].request # q
    BY <1>4, <2>2 DEF ActiveOfRequest, ActiveIn
  <2>4. assignment[i].request \notin DOMAIN W.requests
    BY <1>1, <2>3 DEF On
  <2>. QED  BY <1>1, <1>2, <2>1, <2>4, RequestsAreAfter
<1>5. BelongToApproved(RequestsAfter(W), assignment)
  BY <1>2, <1>4 DEF SerialLoans, BelongToApproved
<1>6. HeldByOne(assignment, card) /\ UsedByBorrower(assignment)
  BY <1>2 DEF SerialLoans
<1>7. \A c \in Cards, d \in Days : CheckOuts(c, d) # {} => GivenBack(assignment, c, d)
  BY <1>2, IdleGivenBack
<1>. QED  BY <1>1, <1>3, <1>5, <1>6, <1>7 DEF KeepsOrder

(* The writes of a handler that ends the active assignment i: released, or *)
(* used after a check-out that nothing else is lent for.                   *)
LEMMA EndKeepsOrder ==
  ASSUME SerialInv, NEW i \in DOMAIN assignment, assignment[i].status = "ACTIVE",
         NEW status \in {"USED", "RELEASED"}, NEW reqs, NEW W, SessionOK(W),
         W = Writes(reqs, On(i, [status |-> status]),
                    FreeCard(assignment[i].card, card[assignment[i].card]), None),
         DOMAIN reqs \subseteq {assignment[i].request},
         status = "USED" => \E n \in CheckOuts(assignment[i].card, assignment[i].date) :
                              scans[n].employee = assignment[i].employee,
         \A c \in Cards, d \in Days : CheckOuts(c, d) # {} =>
           \/ GivenBack(assignment, c, d)
           \/ /\ status = "USED" /\ assignment[i].card = c /\ assignment[i].date = d
              /\ \A j \in OnCard(c, d) : j <= i
  PROVE  KeepsOrder(W)
<1> DEFINE x == assignment[i].card
           lent == [status |-> status]
           after == AssignmentsAfter(W)
           pool == CardsAfter(W)
           rows == RequestsAfter(W)
<1>1. TypeOK /\ SerialLoans
  BY DEF SerialInv, OverlapInv
<1>2. x \in Cards /\ card[x] = "ASSIGNED" /\ ActiveOn(assignment, x) = {i}
  BY <1>1, ActiveIsHeld DEF SerialLoans
<1>3. /\ W.kind = "commit" /\ W.requests = reqs /\ W.assignments = On(i, lent)
      /\ W.cards = FreeCard(x, card[x]) /\ W.new = None
  BY DEF Writes
<1>4. /\ DOMAIN W.assignments = {i} /\ W.assignments[i].status = status
      /\ DOMAIN W.cards = {x} /\ W.cards[x] = "AVAILABLE"
  BY <1>2, <1>3 DEF On, FreeCard
<1>5. /\ DOMAIN after = DOMAIN assignment
      /\ \A j \in DOMAIN assignment :
           /\ after[j].request = assignment[j].request
           /\ after[j].employee = assignment[j].employee
           /\ after[j].card = assignment[j].card /\ after[j].date = assignment[j].date
           /\ after[j].status = IF j = i THEN status ELSE assignment[j].status
  BY <1>1, <1>3, <1>4, LoansAfter
<1>6. \A c \in Cards : pool[c] = IF c = x THEN "AVAILABLE" ELSE card[c]
  BY <1>1, <1>3, <1>4, CardsAreAfter
<1>7. ASSUME NEW j \in DOMAIN assignment, j # i, assignment[j].status = "ACTIVE"
      PROVE  rows[assignment[j].request] = request[assignment[j].request]
  <2>1. assignment[j].request \in Requests
    BY <1>1, LoanRow DEF TypeOK
  <2>2. assignment[j].request # assignment[i].request
    <3> SUFFICES ASSUME assignment[j].request = assignment[i].request  PROVE FALSE
      OBVIOUS
    <3>1. assignment[j].card = x
      BY <1>1, <1>7 DEF SerialLoans, BelongToApproved
    <3>. QED  BY <1>2, <1>7, <3>1 DEF ActiveOn
  <2>. QED  BY <1>1, <1>3, <2>1, <2>2, RequestsAreAfter
<1>. HIDE DEF after, pool, rows, lent
<1>8. HeldByOne(after, pool)
  <2> SUFFICES ASSUME NEW c \in Cards
               PROVE  IF pool[c] = "ASSIGNED"
                        THEN \E j \in ActiveOn(after, c) : ActiveOn(after, c) = {j}
                        ELSE ActiveOn(after, c) = {}
    BY DEF HeldByOne
  <2>1. CASE c = x
    <3>1. ActiveOn(after, c) = {}
      BY <1>2, <1>5, <2>1 DEF ActiveOn
    <3>. QED  BY <1>6, <2>1, <3>1
  <2>2. CASE c # x
    <3>1. ActiveOn(after, c) = ActiveOn(assignment, c)
      BY <1>5, <2>2 DEF ActiveOn
    <3>. QED  BY <1>1, <1>6, <2>2, <3>1 DEF SerialLoans, HeldByOne
  <2>. QED  BY <2>1, <2>2
<1>9. BelongToApproved(rows, after)
  <2>1. \A j \in DOMAIN assignment : after[j].status = "ACTIVE" => j # i /\ assignment[j].status = "ACTIVE"
    BY <1>5
  <2>. QED  BY <1>1, <1>5, <1>7, <2>1 DEF SerialLoans, BelongToApproved
<1>10. UsedByBorrower(after)
  BY <1>1, <1>5 DEF SerialLoans, UsedByBorrower
<1>11. ASSUME NEW c \in Cards, NEW d \in Days, CheckOuts(c, d) # {}
       PROVE  GivenBack(after, c, d)
  <2>1. CASE GivenBack(assignment, c, d)
    BY <1>5, <2>1 DEF GivenBack
  <2>2. CASE /\ status = "USED" /\ assignment[i].card = c /\ assignment[i].date = d
             /\ \A j \in OnCard(c, d) : j <= i
    BY <1>5, <2>2 DEF GivenBack, OnCard
  <2>. QED  BY <1>11, <2>1, <2>2
<1>. QED  BY <1>3, <1>8, <1>9, <1>10, <1>11 DEF KeepsOrder, after, pool, rows

(* An approval lends a card that is in the pool and was not used for the   *)
(* date.                                                                   *)
LEMMA ApprovalKeepsOrder ==
  ASSUME SerialInv, \A w \in Workers : session[w].kind = "idle",
         NEW q \in Requests, NEW c \in Cards, NEW d \in Days,
         request[q].status = "PENDING", CardAvailable(c, d), SessionOK(Approval(q, c, d))
  PROVE  KeepsOrder(Approval(q, c, d))
<1> DEFINE W == Approval(q, c, d)
           ch == [status |-> "APPROVED", card |-> c, date |-> d]
           loan == Loan(q, c, d)
           n == Len(assignment) + 1
           after == AssignmentsAfter(W)
           pool == CardsAfter(W)
           rows == RequestsAfter(W)
<1>1. TypeOK /\ SerialLoans
  BY DEF SerialInv, OverlapInv
<1>2. /\ W.kind = "commit" /\ W.requests = On(q, ch)
      /\ W.assignments = [i \in ActiveIn(OnCard(c, d)) |-> [status |-> "EXPIRED"]]
      /\ W.cards = On(c, "ASSIGNED") /\ W.new = loan /\ SessionOK(W)
  BY DEF Approval, Writes
<1>3. ActiveOn(assignment, c) = {} /\ card[c] = "AVAILABLE"
  BY <1>1 DEF CardAvailable, SerialLoans, HeldByOne
<1>4. ActiveIn(OnCard(c, d)) = {}
  BY <1>3 DEF ActiveIn, OnCard, ActiveOn
<1>5. DOMAIN W.assignments = {}
  BY <1>2, <1>4
<1>6. /\ loan # None /\ loan.status = "ACTIVE" /\ loan.request = q
      /\ loan.employee = request[q].employee /\ loan.card = c /\ loan.date = d
  <2>1. request[q].employee \in Employees
    BY <1>1 DEF TypeOK
  <2>2. loan \in AssignmentRow
    BY <2>1 DEF Loan, AssignmentRow
  <2>. QED  BY <2>2, NoneIsNoRow DEF Loan
<1>. HIDE DEF W, loan
<1>7. /\ DOMAIN after = DOMAIN assignment \cup {n} /\ after[n] = loan
      /\ \A i \in DOMAIN assignment :
           /\ after[i].request = assignment[i].request
           /\ after[i].employee = assignment[i].employee
           /\ after[i].card = assignment[i].card /\ after[i].date = assignment[i].date
           /\ after[i].status = assignment[i].status
  BY <1>1, <1>2, <1>5, <1>6, LoansAfter
<1>8. n \notin DOMAIN assignment
  BY <1>1 DEF TypeOK
<1>9. \A x \in Cards : pool[x] = IF x = c THEN "ASSIGNED" ELSE card[x]
  BY <1>1, <1>2, CardsAreAfter DEF On
<1>10. /\ \A p \in Requests : p # q => rows[p] = request[p]
       /\ rows[q].status = "APPROVED" /\ rows[q].employee = request[q].employee
       /\ rows[q].card = c /\ rows[q].date = d
  <2>1. DOMAIN W.requests = {q} /\ W.requests[q] = ch
    BY <1>2 DEF On
  <2>2. \A p \in Requests : p # q => rows[p] = request[p]
    BY <1>1, <1>2, <2>1, RequestsAreAfter
  <2>3. \A k \in RequestColumns : rows[q][k] = IF k \in DOMAIN ch THEN ch[k] ELSE request[q][k]
    BY <1>1, <1>2, <2>1, RequestsAreAfter
  <2>4. /\ rows[q]["status"] = "APPROVED" /\ rows[q]["employee"] = request[q]["employee"]
        /\ rows[q]["card"] = c /\ rows[q]["date"] = d
    BY <2>3 DEF RequestColumns
  <2>. QED  BY <2>2, <2>4
<1>. HIDE DEF ch, n, after, pool, rows
<1>11. HeldByOne(after, pool)
  <2> SUFFICES ASSUME NEW x \in Cards
               PROVE  IF pool[x] = "ASSIGNED"
                        THEN \E j \in ActiveOn(after, x) : ActiveOn(after, x) = {j}
                        ELSE ActiveOn(after, x) = {}
    BY DEF HeldByOne
  <2>1. CASE x = c
    <3>1. ActiveOn(after, x) = {n}
      BY <1>3, <1>6, <1>7, <2>1 DEF ActiveOn
    <3>. QED  BY <1>9, <2>1, <3>1
  <2>2. CASE x # c
    <3>1. ActiveOn(after, x) = ActiveOn(assignment, x)
      BY <1>6, <1>7, <2>2 DEF ActiveOn
    <3>. QED  BY <1>1, <1>9, <2>2, <3>1 DEF SerialLoans, HeldByOne
  <2>. QED  BY <2>1, <2>2
<1>12. BelongToApproved(rows, after)
  <2> SUFFICES ASSUME NEW i \in DOMAIN after, after[i].status = "ACTIVE"
               PROVE  LET r == rows[after[i].request] IN
                      /\ r.status = "APPROVED" /\ r.employee = after[i].employee
                      /\ r.card = after[i].card /\ r.date = after[i].date
    BY DEF BelongToApproved
  <2>1. CASE i = n
    BY <1>6, <1>7, <1>10, <2>1
  <2>2. CASE i # n
    <3>1. i \in DOMAIN assignment /\ assignment[i].status = "ACTIVE"
      BY <1>7, <2>2
    <3>2. assignment[i].request \in Requests
      BY <1>1, <3>1, LoanRow DEF TypeOK
    <3>3. LET r == request[assignment[i].request] IN
          /\ r.status = "APPROVED" /\ r.employee = assignment[i].employee
          /\ r.card = assignment[i].card /\ r.date = assignment[i].date
      BY <1>1, <3>1 DEF SerialLoans, BelongToApproved
    <3>4. assignment[i].request # q
      BY <3>3
    <3>. QED  BY <1>7, <1>10, <3>1, <3>2, <3>3, <3>4
  <2>. QED  BY <2>1, <2>2
<1>13. UsedByBorrower(after)
  BY <1>1, <1>6, <1>7 DEF SerialLoans, UsedByBorrower
<1>14. ASSUME NEW x \in Cards, NEW y \in Days, CheckOuts(x, y) # {}
       PROVE  GivenBack(after, x, y)
  <2>1. PICK i \in DOMAIN assignment :
          /\ assignment[i].card = x /\ assignment[i].date = y /\ assignment[i].status = "USED"
          /\ \A j \in DOMAIN assignment : assignment[j].card = x /\ assignment[j].date = y => j <= i
    BY <1>1, <1>14, IdleGivenBack DEF GivenBack
  <2>2. ~(x = c /\ y = d)
    <3> SUFFICES ASSUME x = c, y = d  PROVE FALSE
      OBVIOUS
    <3> DEFINE k == LatestOnCard(c, d)
    <3>1. i \in OnCard(c, d)
      BY <2>1 DEF OnCard
    <3>2. k # None /\ k \in OnCard(c, d) /\ k \in DOMAIN assignment /\ i <= k
      BY <1>1, <3>1, LatestIs
    <3>. HIDE DEF k
    <3>3. k <= i
      BY <2>1, <3>2 DEF OnCard
    <3>4. i = k
      BY <1>1, <3>2, <3>3, LoanRow DEF TypeOK
    <3>. QED  BY <2>1, <3>2, <3>4 DEF CardAvailable, k
  <2>. QED  BY <1>6, <1>7, <2>1, <2>2 DEF GivenBack
<1>. QED  BY <1>2, <1>11, <1>12, <1>13, <1>14 DEF KeepsOrder, after, pool, rows, W

(* The latest assignment of a card for a date is the only one active.      *)
LEMMA ScanStartsInOrder ==
  ASSUME SerialInv, \A w \in Workers : session[w].kind = "idle",
         NEW c \in Cards, NEW d \in Days, NEW W, W.kind = "scan", W.loaded = card[c],
         LatestOnCard(c, d) # None, assignment[LatestOnCard(c, d)].status = "ACTIVE",
         W.scan.card = c, W.scan.date = d,
         W.scan.employee = assignment[LatestOnCard(c, d)].employee
  PROVE  KeepsOrder(W)
<1> DEFINE k == LatestOnCard(c, d)
<1>1. TypeOK /\ SerialLoans
  BY DEF SerialInv, OverlapInv
<1>2. k \in OnCard(c, d) /\ k \in DOMAIN assignment /\ \A j \in OnCard(c, d) : j <= k
  BY <1>1, LatestIs
<1>. HIDE DEF k
<1>3. CheckOuts(c, d) = {}
  <2> SUFFICES ASSUME CheckOuts(c, d) # {}  PROVE FALSE
    OBVIOUS
  <2>1. PICK i \in DOMAIN assignment :
          /\ assignment[i].card = c /\ assignment[i].date = d /\ assignment[i].status = "USED"
          /\ \A j \in DOMAIN assignment : assignment[j].card = c /\ assignment[j].date = d => j <= i
    BY <1>1, IdleGivenBack DEF GivenBack
  <2>2. i <= k /\ k <= i
    BY <1>2, <2>1 DEF OnCard
  <2>3. i = k
    BY <1>1, <1>2, <2>1, <2>2, LoanRow DEF TypeOK
  <2>. QED  BY <2>1, <2>3 DEF k
<1>. QED  BY <1>2, <1>3 DEF KeepsOrder, ScanUnderWay, k

(* A session begins or goes on to the commit of its hook.                  *)
LEMMA TurnKeepsSerial ==
  ASSUME OneAtATime, SerialInv, OverlapInv', NEW w \in Workers, NEW W,
         session' = [session EXCEPT ![w] = W], KeepsOrder(W),
         \/ W.kind = "scan" /\ session[w].kind = "idle"
         \/ W.kind = "commit",
         UNCHANGED <<request, assignment, card, scans>>
  PROVE  SerialInv'
<1>1. \A v \in Workers : v = w /\ session'[v] = W
  BY DEF OneAtATime, SerialInv, OverlapInv
<1>2. /\ HeldByOne(assignment, card) /\ BelongToApproved(request, assignment)
      /\ UsedByBorrower(assignment)
      /\ \A c \in Cards, d \in Days : \A m, n \in CheckOuts(c, d) : m = n
  BY DEF SerialInv, SerialLoans
<1>3. /\ HeldByOne(assignment, card)' /\ BelongToApproved(request, assignment)'
      /\ UsedByBorrower(assignment)'
      /\ (\A c \in Cards, d \in Days : \A m, n \in CheckOuts(c, d) : m = n)'
  BY <1>2 DEF HeldByOne, BelongToApproved, UsedByBorrower, CheckOuts
<1>4. PICK a, r, p : a = AssignmentsAfter(W) /\ r = RequestsAfter(W) /\ p = CardsAfter(W)
  OBVIOUS
<1>5. ASSUME NEW v \in Workers
      PROVE  /\ AssignmentsAfter(session[v])' = a /\ RequestsAfter(session[v])' = r
             /\ CardsAfter(session[v])' = p
  BY <1>1, <1>4 DEF AssignmentsAfter, RequestsAfter, CardsAfter, Patched
<1>6. W.kind = "commit" =>
        /\ HeldByOne(a, p) /\ BelongToApproved(r, a) /\ UsedByBorrower(a)
        /\ \A c \in Cards, d \in Days : CheckOuts(c, d) # {} => GivenBack(a, c, d)
  BY <1>4 DEF KeepsOrder
<1>7. ASSUME NEW v \in Workers, W.kind = "commit"
      PROVE  /\ HeldByOne(AssignmentsAfter(session[v]), CardsAfter(session[v]))'
             /\ BelongToApproved(RequestsAfter(session[v]), AssignmentsAfter(session[v]))'
             /\ UsedByBorrower(AssignmentsAfter(session[v]))'
             /\ (\A c \in Cards, d \in Days :
                  CheckOuts(c, d) # {} => GivenBack(AssignmentsAfter(session[v]), c, d))'
  <2>1. HeldByOne(AssignmentsAfter(session[v]), CardsAfter(session[v]))'
    BY <1>5, <1>6, <1>7 DEF HeldByOne, ActiveOn
  <2>2. BelongToApproved(RequestsAfter(session[v]), AssignmentsAfter(session[v]))'
    BY <1>5, <1>6, <1>7 DEF BelongToApproved
  <2>3. UsedByBorrower(AssignmentsAfter(session[v]))'
    BY <1>5, <1>6, <1>7 DEF UsedByBorrower, CheckOuts
  <2>4. (\A c \in Cards, d \in Days :
           CheckOuts(c, d) # {} => GivenBack(AssignmentsAfter(session[v]), c, d))'
    BY <1>5, <1>6, <1>7 DEF GivenBack, CheckOuts
  <2>. QED  BY <2>1, <2>2, <2>3, <2>4
<1>8. ASSUME NEW v \in Workers, W.kind = "scan"  PROVE ScanUnderWay(session[v])'
  <2>1. PICK c, d, on, n : /\ c = W.scan.card /\ d = W.scan.date
                         /\ on = OnCard(c, d) /\ n = CheckOuts(c, d)
    OBVIOUS
  <2>2. /\ \E i \in on : /\ \A j \in on : j <= i
                        /\ assignment[i].status = "ACTIVE"
                        /\ assignment[i].employee = W.scan.employee
        /\ W.loaded = card[c] /\ n = {}
    BY <1>8, <2>1 DEF KeepsOrder, ScanUnderWay
  <2>3. OnCard(session[v].scan.card, session[v].scan.date)' = on
    BY <1>1, <2>1 DEF OnCard
  <2>4. CheckOuts(session[v].scan.card, session[v].scan.date)' = n
    BY <1>1, <2>1 DEF CheckOuts
  <2>. QED  BY <1>1, <1>8, <2>1, <2>2, <2>3, <2>4 DEF ScanUnderWay
<1>9. ASSUME NEW c \in Cards, NEW d \in Days, (CheckOuts(c, d) # {})'
      PROVE  \/ GivenBack(assignment, c, d)'
             \/ \E v \in Workers : GivesBack(session[v], c, d)'
  <2>1. CASE W.kind = "commit"
    BY <1>1, <1>7, <1>9, <2>1 DEF GivesBack
  <2>2. CASE W.kind = "scan" /\ session[w].kind = "idle"
    <3>1. CheckOuts(c, d) # {}
      BY <1>9 DEF CheckOuts
    <3>2. GivenBack(assignment, c, d)
      BY <1>1, <2>2, <3>1, IdleGivenBack DEF OneAtATime, SerialInv
    <3>. QED  BY <3>2 DEF GivenBack
  <2>. QED  BY <2>1, <2>2
<1>10. W.kind \in {"commit", "scan"}
  OBVIOUS
<1>11. SerialLoans'
  BY <1>1, <1>3, <1>7, <1>8, <1>9, <1>10 DEF SerialLoans
<1>. QED  BY <1>11 DEF SerialInv

(* A session that begins keeps the serial invariant.                       *)
LEMMA BeginKeepsSerial ==
  ASSUME OneAtATime, SerialInv, OverlapInv', NEW w \in Workers, NEW W, Begin(w, W),
         KeepsOrder(W), W.kind \in {"scan", "commit"}
  PROVE  SerialInv'
  BY TurnKeepsSerial DEF Begin

(* One at a time: whoever begins finds everybody idle.                     *)
LEMMA AllIdle ==
  ASSUME OneAtATime, NEW w \in Workers, session[w].kind = "idle"
  PROVE  \A v \in Workers : session[v].kind = "idle"
  BY DEF OneAtATime

(* What a session is about to commit is typed, as the step that begins it  *)
(* keeps the types.                                                        *)
LEMMA BegunOK ==
  ASSUME OverlapInv, OverlapInv', NEW w \in Workers, NEW W, Begin(w, W)
  PROVE  SessionOK(W)
<1>1. PICK s : s = session'[w]
  OBVIOUS
<1>2. s = W /\ assignment' = assignment
  BY <1>1 DEF OverlapInv, Begin
<1>3. SessionOK(s)'
  BY <1>1 DEF OverlapInv, TypeOK, SessionOK
<1>. QED  BY <1>2, <1>3 DEF SessionOK

(* The end of a request keeps the serial invariant.                        *)
LEMMA EndKeepsSerial ==
  ASSUME OneAtATime, SerialInv, OverlapInv', NEW w \in Workers, NEW q \in Requests, NEW status,
         EndRequest(w, q, status)
  PROVE  SerialInv'
<1> DEFINE ch == [status |-> status]
<1>1. OverlapInv /\ TypeOK /\ SerialLoans
  BY DEF SerialInv, OverlapInv
<1>2. CASE /\ request[q].status # "APPROVED" \/ ActiveOfRequest(q) = {}
           /\ Begin(w, Writes(On(q, ch), NoChange, NoChange, None))
  <2> DEFINE W == Writes(On(q, ch), NoChange, NoChange, None)
  <2>1. SessionOK(W)
    BY <1>1, <1>2, BegunOK
  <2>2. \A v \in Workers : session[v].kind = "idle"
    BY <1>2, AllIdle DEF Begin
  <2>3. W.kind = "commit"
    BY DEF Writes
  <2>4. KeepsOrder(W)
    BY <1>2, <2>1, <2>2, RequestKeepsOrder
  <2>. HIDE DEF W
  <2>. QED  BY <1>2, <2>3, <2>4, BeginKeepsSerial DEF W
<1>3. ASSUME request[q].status = "APPROVED", NEW i \in ActiveOfRequest(q),
             Begin(w, Writes(On(q, ch), On(i, [status |-> "RELEASED"]),
                             FreeCard(assignment[i].card, card[assignment[i].card]), None))
      PROVE  SerialInv'
  <2> DEFINE W == Writes(On(q, ch), On(i, [status |-> "RELEASED"]),
                         FreeCard(assignment[i].card, card[assignment[i].card]), None)
  <2>1. SessionOK(W)
    BY <1>1, <1>3, BegunOK
  <2>2. \A v \in Workers : session[v].kind = "idle"
    BY <1>3, AllIdle DEF Begin
  <2>3. W.kind = "commit"
    BY DEF Writes
  <2>4. i \in DOMAIN assignment /\ assignment[i].status = "ACTIVE" /\ assignment[i].request = q
    BY DEF ActiveOfRequest, ActiveIn
  <2>5. DOMAIN On(q, ch) \subseteq {assignment[i].request}
    BY <2>4 DEF On
  <2>6. \A c \in Cards, d \in Days : CheckOuts(c, d) # {} => GivenBack(assignment, c, d)
    BY <1>1, <2>2, IdleGivenBack
  <2>7. KeepsOrder(W)
    BY <2>1, <2>4, <2>5, <2>6, EndKeepsOrder
  <2>. HIDE DEF W
  <2>. QED  BY <1>3, <2>3, <2>7, BeginKeepsSerial DEF W
<1>. QED  BY <1>2, <1>3 DEF EndRequest

(* The operations at the desk keep the serial invariant.                   *)
LEMMA OperationsKeepSerial ==
  ASSUME OneAtATime, SerialInv, OverlapInv', NEW w \in Workers,
         \/ CreateRequest(w) \/ ApproveRequest(w) \/ RejectRequest(w) \/ CancelRequest(w)
         \/ CompleteRequest(w) \/ ReleaseTemporaryCard(w) \/ LoadScan(w)
  PROVE  SerialInv'
<1>1. OverlapInv /\ TypeOK /\ SerialLoans
  BY DEF SerialInv, OverlapInv
<1>2. ASSUME NEW q \in Requests, NEW ch, request[q].status # "APPROVED",
             Begin(w, Writes(On(q, ch), NoChange, NoChange, None))
      PROVE  SerialInv'
  <2> DEFINE W == Writes(On(q, ch), NoChange, NoChange, None)
  <2>1. SessionOK(W) /\ \A v \in Workers : session[v].kind = "idle"
    BY <1>1, <1>2, BegunOK, AllIdle DEF Begin
  <2>2. W.kind = "commit"
    BY DEF Writes
  <2>3. KeepsOrder(W)
    BY <1>2, <2>1, RequestKeepsOrder
  <2>. HIDE DEF W
  <2>. QED  BY <1>2, <2>2, <2>3, BeginKeepsSerial DEF W
<1>3. CASE CreateRequest(w)
  <2>1. PICK q \in Requests, e \in Employees :
          /\ request[q].status = "absent"
          /\ Begin(w, Writes(On(q, [status |-> "PENDING", employee |-> e, on |-> today]),
                             NoChange, NoChange, None))
    BY <1>3 DEF CreateRequest
  <2>. QED  BY <1>2, <2>1
<1>4. CASE RejectRequest(w)
  <2>1. PICK q \in Requests :
          /\ request[q].status = "PENDING"
          /\ Begin(w, Writes(On(q, [status |-> "REJECTED"]), NoChange, NoChange, None))
    BY <1>4 DEF RejectRequest
  <2>. QED  BY <1>2, <2>1
<1>5. CASE CancelRequest(w) \/ CompleteRequest(w)
  BY <1>5, EndKeepsSerial DEF CancelRequest, CompleteRequest
<1>6. CASE ApproveRequest(w)
  <2>1. PICK q \in Requests, c \in Cards, d \in Days :
          request[q].status = "PENDING" /\ CardAvailable(c, d) /\ Begin(w, Approval(q, c, d))
    BY <1>6 DEF ApproveRequest
  <2>2. SessionOK(Approval(q, c, d)) /\ \A v \in Workers : session[v].kind = "idle"
    BY <1>1, <2>1, BegunOK, AllIdle DEF Begin
  <2>3. Approval(q, c, d).kind = "commit"
    BY DEF Approval, Writes
  <2>4. KeepsOrder(Approval(q, c, d))
    BY <2>1, <2>2, ApprovalKeepsOrder
  <2>. QED  BY <2>1, <2>3, <2>4, BeginKeepsSerial
<1>7. CASE ReleaseTemporaryCard(w)
  <2>1. PICK i \in ActiveIn(DOMAIN assignment) :
          Begin(w, Writes(NoChange, On(i, [status |-> "RELEASED"]),
                          FreeCard(assignment[i].card, card[assignment[i].card]), None))
    BY <1>7 DEF ReleaseTemporaryCard
  <2> DEFINE W == Writes(NoChange, On(i, [status |-> "RELEASED"]),
                         FreeCard(assignment[i].card, card[assignment[i].card]), None)
  <2>2. SessionOK(W) /\ \A v \in Workers : session[v].kind = "idle"
    BY <1>1, <2>1, BegunOK, AllIdle DEF Begin
  <2>3. W.kind = "commit" /\ DOMAIN NoChange = {}
    BY DEF Writes, NoChange
  <2>4. i \in DOMAIN assignment /\ assignment[i].status = "ACTIVE"
    BY DEF ActiveIn
  <2>5. \A c \in Cards, d \in Days : CheckOuts(c, d) # {} => GivenBack(assignment, c, d)
    BY <1>1, <2>2, IdleGivenBack
  <2>6. KeepsOrder(W)
    BY <2>2, <2>3, <2>4, <2>5, EndKeepsOrder
  <2>. HIDE DEF W
  <2>. QED  BY <2>1, <2>3, <2>6, BeginKeepsSerial DEF W
<1>8. CASE LoadScan(w)
  <2>1. PICK c \in Cards, d \in Days, type \in {"IN", "OUT"} :
          LET i == LatestOnCard(c, d) IN
          /\ i # None /\ assignment[i].status = "ACTIVE"
          /\ Begin(w, [kind |-> "scan", loaded |-> card[c],
                       scan |-> [employee |-> assignment[i].employee, card |-> c, date |-> d,
                                 type |-> type]])
    BY <1>8 DEF LoadScan
  <2> DEFINE i == LatestOnCard(c, d)
             W == [kind |-> "scan", loaded |-> card[c],
                   scan |-> [employee |-> assignment[i].employee, card |-> c, date |-> d,
                             type |-> type]]
  <2>2. \A v \in Workers : session[v].kind = "idle"
    BY <2>1, AllIdle DEF Begin
  <2>3. KeepsOrder(W)
    BY <2>1, <2>2, ScanStartsInOrder
  <2>4. W.kind = "scan"
    OBVIOUS
  <2>. HIDE DEF W
  <2>. QED  BY <2>1, <2>3, <2>4, BeginKeepsSerial DEF W
<1>. QED  BY <1>3, <1>4, <1>5, <1>6, <1>7, <1>8

(* The check-out hook keeps the serial invariant.                          *)
LEMMA HookKeepsSerial ==
  ASSUME OneAtATime, SerialInv, OverlapInv', NEW w \in Workers, CheckOutHook(w)
  PROVE  SerialInv'
<1> DEFINE s == session[w]
           c == s.scan.card
           d == s.scan.date
<1>1. TypeOK /\ SerialLoans /\ s.kind = "hook" /\ SessionOK(s)
  BY DEF SerialInv, OverlapInv, TypeOK, CheckOutHook
<1>2. c \in Cards /\ d \in Days
  BY <1>1 DEF SessionOK, Scan
<1>3. ScanUnderWay(s)
  BY <1>1 DEF SerialLoans
<1>4. PICK k \in OnCard(c, d) :
        /\ \A j \in OnCard(c, d) : j <= k
        /\ assignment[k].status = "ACTIVE" /\ assignment[k].employee = s.scan.employee
  BY <1>3 DEF ScanUnderWay
<1>5. s.loaded = card[c] /\ \E n \in CheckOuts(c, d) : scans[n] = s.scan
  BY <1>1, <1>3 DEF ScanUnderWay
<1>6. k \in DOMAIN assignment /\ assignment[k].card = c /\ assignment[k].date = d
  BY DEF OnCard
<1>. HIDE DEF s, c, d
<1>7. ActiveOn(assignment, c) = {k}
  BY <1>1, <1>4, <1>6, ActiveIsHeld DEF SerialLoans
<1>8. ActiveIn(OnCard(c, d)) = {k}
  BY <1>4, <1>6, <1>7 DEF ActiveIn, OnCard, ActiveOn
<1>9. session' = [session EXCEPT ![w] = HookWrites(s, k)]
  BY <1>8 DEF CheckOutHook, s, c, d
<1> DEFINE W == Writes(NoChange, On(k, [status |-> "USED"]),
                       FreeCard(assignment[k].card, card[assignment[k].card]), None)
<1>10. W = HookWrites(s, k) /\ W.kind = "commit" /\ DOMAIN NoChange = {}
  BY <1>5, <1>6 DEF HookWrites, Writes, NoChange, c
<1>11. SessionOK(W)
  <2>1. PICK t : t = session'[w]
    OBVIOUS
  <2>2. t = W /\ assignment' = assignment
    BY <1>9, <1>10, <2>1 DEF SerialInv, OverlapInv, CheckOutHook
  <2>3. SessionOK(t)'
    BY <2>1 DEF OverlapInv, TypeOK, SessionOK
  <2>. QED  BY <2>2, <2>3 DEF SessionOK
<1>12. \E n \in CheckOuts(assignment[k].card, assignment[k].date) :
         scans[n].employee = assignment[k].employee
  BY <1>4, <1>5, <1>6 DEF s
<1>13. ASSUME NEW x \in Cards, NEW y \in Days, CheckOuts(x, y) # {}
       PROVE  \/ GivenBack(assignment, x, y)
              \/ assignment[k].card = x /\ assignment[k].date = y /\ \A j \in OnCard(x, y) : j <= k
  <2>1. \A v \in Workers : v = w
    BY DEF OneAtATime
  <2>2. GivenBack(assignment, x, y) \/ GivesBack(s, x, y)
    BY <1>1, <1>13, <2>1 DEF SerialLoans, s
  <2>3. GivesBack(s, x, y) => c = x /\ d = y
    BY <1>1 DEF GivesBack, s, c, d
  <2>. QED  BY <1>4, <1>6, <2>2, <2>3
<1>14. KeepsOrder(W)
  <2>. HIDE DEF W
  <2>. QED  BY <1>4, <1>6, <1>10, <1>11, <1>12, <1>13, EndKeepsOrder DEF W
<1>. HIDE DEF W
<1>15. session' = [session EXCEPT ![w] = W]
  BY <1>9, <1>10
<1>. QED  BY <1>10, <1>14, <1>15, TurnKeepsSerial DEF CheckOutHook

(* A commit keeps the serial invariant.                                    *)
LEMMA CommitKeepsSerial ==
  ASSUME OneAtATime, SerialInv, OverlapInv', NEW w \in Workers, CommitWrites(w)
  PROVE  SerialInv'
<1>1. PICK W, a, r, p : /\ W = session[w] /\ a = AssignmentsAfter(W) /\ r = RequestsAfter(W)
                        /\ p = CardsAfter(W)
  OBVIOUS
<1>2. /\ W.kind = "commit" /\ assignment' = a /\ request' = r /\ card' = p /\ scans' = scans
      /\ \A v \in Workers : session'[v] = Idle
  BY <1>1 DEF CommitWrites, OneAtATime, SerialInv, OverlapInv
<1>3. /\ HeldByOne(a, p) /\ BelongToApproved(r, a) /\ UsedByBorrower(a)
      /\ \A c \in Cards, d \in Days : CheckOuts(c, d) # {} => GivenBack(a, c, d)
      /\ \A c \in Cards, d \in Days : \A m, n \in CheckOuts(c, d) : m = n
  BY <1>1, <1>2 DEF SerialInv, SerialLoans
<1>4. HeldByOne(assignment, card)'
  BY <1>2, <1>3 DEF HeldByOne, ActiveOn
<1>5. BelongToApproved(request, assignment)' /\ UsedByBorrower(assignment)'
  BY <1>2, <1>3 DEF BelongToApproved, UsedByBorrower, CheckOuts
<1>6. ASSUME NEW c \in Cards, NEW d \in Days
      PROVE  /\ (\A m, n \in CheckOuts(c, d) : m = n)'
             /\ (CheckOuts(c, d) # {} => GivenBack(assignment, c, d))'
  BY <1>2, <1>3 DEF CheckOuts, GivenBack
<1>7. \A v \in Workers : session'[v].kind = "idle"
  BY <1>2 DEF Idle
<1>8. SerialLoans'
  BY <1>4, <1>5, <1>6, <1>7 DEF SerialLoans
<1>. QED  BY <1>8 DEF SerialInv

(* A scan keeps the serial invariant.                                      *)
LEMMA ScanKeepsSerial ==
  ASSUME OneAtATime, SerialInv, OverlapInv', NEW w \in Workers, CommitScan(w)
  PROVE  SerialInv'
<1>1. PICK s, c, d, n : /\ s = session[w] /\ c = s.scan.card /\ d = s.scan.date
                        /\ n = Len(scans) + 1
  OBVIOUS
<1>2. /\ s.kind = "scan" /\ SessionOK(s) /\ TypeOK /\ SerialLoans
      /\ scans' = Append(scans, s.scan) /\ UNCHANGED <<request, assignment, card>>
  BY <1>1 DEF CommitScan, SerialInv, OverlapInv, TypeOK
<1>3. s.scan \in Scan /\ c \in Cards /\ d \in Days /\ s.scan.type \in {"IN", "OUT"}
  BY <1>1, <1>2 DEF SessionOK, Scan
<1>4. /\ DOMAIN scans' = DOMAIN scans \cup {n} /\ n \notin DOMAIN scans /\ scans'[n] = s.scan
      /\ \A m \in DOMAIN scans : scans'[m] = scans[m]
  BY <1>1, <1>2, <1>3 DEF TypeOK
<1>5. PICK next : next = session'[w]
  OBVIOUS
<1>6. IF s.scan.type = "OUT" THEN next.kind = "hook" /\ next.scan = s.scan /\ next.loaded = s.loaded
                             ELSE next.kind = "idle"
  BY <1>1, <1>2, <1>5 DEF CommitScan, SerialInv, OverlapInv, HookFollows, Idle
<1>7. \A v \in Workers : v = w /\ session[v] = s /\ session'[v] = next
  BY <1>1, <1>5 DEF OneAtATime
<1>8. ScanUnderWay(s) /\ CheckOuts(c, d) = {}
  BY <1>1, <1>2 DEF SerialLoans, ScanUnderWay
<1>9. ASSUME NEW x, NEW y
      PROVE  CheckOuts(x, y)' = CheckOuts(x, y) \cup
               (IF s.scan.type = "OUT" /\ x = c /\ y = d THEN {n} ELSE {})
  BY <1>1, <1>4 DEF CheckOuts
<1>10. HeldByOne(assignment, card)' /\ BelongToApproved(request, assignment)'
  BY <1>2 DEF SerialLoans, HeldByOne, BelongToApproved, ActiveOn
<1>11. UsedByBorrower(assignment)'
  <2>1. ASSUME NEW i \in DOMAIN assignment, assignment[i].status = "USED"
        PROVE  \E m \in CheckOuts(assignment[i].card, assignment[i].date)' :
                 scans'[m].employee = assignment[i].employee
    <3>1. PICK m \in CheckOuts(assignment[i].card, assignment[i].date) :
            scans[m].employee = assignment[i].employee
      BY <1>2, <2>1 DEF SerialLoans, UsedByBorrower
    <3>2. m \in DOMAIN scans /\ scans[m].type = "OUT" /\ scans[m].card = assignment[i].card
          /\ scans[m].date = assignment[i].date
      BY DEF CheckOuts
    <3>3. m \in CheckOuts(assignment[i].card, assignment[i].date)'
      BY <1>2, <1>4, <3>2 DEF CheckOuts
    <3>. QED  BY <1>4, <3>1, <3>2, <3>3
  <2>. QED  BY <1>2, <2>1 DEF UsedByBorrower, CheckOuts
<1>12. ASSUME NEW x \in Cards, NEW y \in Days
       PROVE  (\A m1, m2 \in CheckOuts(x, y) : m1 = m2)'
  <2>1. \A m1, m2 \in CheckOuts(x, y) : m1 = m2
    BY <1>2 DEF SerialLoans
  <2>. QED  BY <1>8, <1>9, <2>1
<1>13. ASSUME NEW x \in Cards, NEW y \in Days, CheckOuts(x, y)' # {}
       PROVE  GivenBack(assignment, x, y)' \/ \E v \in Workers : GivesBack(session[v], x, y)'
  <2>1. CASE s.scan.type = "OUT" /\ x = c /\ y = d
    BY <1>1, <1>6, <1>7, <2>1 DEF GivesBack
  <2>2. CASE CheckOuts(x, y) # {}
    <3>1. \A v \in Workers : ~GivesBack(session[v], x, y)
      BY <1>2, <1>7 DEF GivesBack
    <3>2. GivenBack(assignment, x, y)
      BY <1>2, <2>2, <3>1 DEF SerialLoans
    <3>. QED  BY <1>2, <3>2 DEF GivenBack
  <2>. QED  BY <1>9, <1>13, <2>1, <2>2
<1>14. ASSUME NEW v \in Workers, next.kind \in {"scan", "hook"}
       PROVE  ScanUnderWay(session[v])'
  <2>1. s.scan.type = "OUT" /\ next.kind = "hook" /\ next.scan = s.scan /\ next.loaded = s.loaded
    BY <1>6, <1>14
  <2>2. PICK on : on = OnCard(c, d)
    OBVIOUS
  <2>3. /\ \E i \in on : /\ \A j \in on : j <= i
                        /\ assignment[i].status = "ACTIVE"
                        /\ assignment[i].employee = s.scan.employee
        /\ s.loaded = card[c]
    BY <1>1, <1>8, <2>2 DEF ScanUnderWay
  <2>4. OnCard(session[v].scan.card, session[v].scan.date)' = on
    BY <1>1, <1>2, <1>7, <2>1, <2>2 DEF OnCard
  <2>5. n \in CheckOuts(session[v].scan.card, session[v].scan.date)'
    BY <1>1, <1>4, <1>7, <2>1 DEF CheckOuts
  <2>. QED  BY <1>1, <1>2, <1>4, <1>7, <2>1, <2>3, <2>4, <2>5 DEF ScanUnderWay
<1>15. next.kind \in {"hook", "idle"} /\ next.kind # "commit"
  BY <1>6
<1>16. SerialLoans'
  BY <1>7, <1>10, <1>11, <1>12, <1>13, <1>14, <1>15 DEF SerialLoans
<1>. QED  BY <1>16 DEF SerialInv

(* A step that leaves the tables alone keeps the serial invariant.         *)
LEMMA StillSerial ==
  ASSUME SerialInv, OverlapInv', UNCHANGED <<request, assignment, card, scans, session>>
  PROVE  SerialInv'
<1>. SerialLoans
  BY DEF SerialInv
<1>1. HeldByOne(assignment, card)' /\ BelongToApproved(request, assignment)'
  BY DEF SerialLoans, HeldByOne, BelongToApproved, ActiveOn
<1>2. ASSUME NEW c, NEW d  PROVE CheckOuts(c, d)' = CheckOuts(c, d)
  BY DEF CheckOuts
<1>3. UsedByBorrower(assignment)'
  BY DEF SerialLoans, UsedByBorrower, CheckOuts
<1>4. ASSUME NEW c \in Cards, NEW d \in Days
      PROVE  (\A m, n \in CheckOuts(c, d) : m = n)'
  BY <1>2 DEF SerialLoans
<1>5. ASSUME NEW c \in Cards, NEW d \in Days, CheckOuts(c, d)' # {}
      PROVE  (GivenBack(assignment, c, d) \/ \E w \in Workers : GivesBack(session[w], c, d))'
  <2>1. CASE GivenBack(assignment, c, d)
    BY <2>1 DEF GivenBack
  <2>2. CASE \E w \in Workers : GivesBack(session[w], c, d)
    <3>1. PICK w \in Workers : GivesBack(session[w], c, d)
      BY <2>2
    <3>2. PICK s : s = session[w]
      OBVIOUS
    <3>3. GivesBack(s, c, d)'
      BY <3>1, <3>2 DEF GivesBack, GivenBack, AssignmentsAfter
    <3>4. session[w]' = s
      BY <3>2
    <3>5. GivesBack(session[w], c, d)'
      BY <3>3, <3>4 DEF GivesBack, GivenBack, AssignmentsAfter
    <3>6. \E v \in Workers : GivesBack(session[v], c, d)'
      BY <3>5
    <3>. QED  BY <3>6
  <2>3. CheckOuts(c, d) # {}
    BY <1>2, <1>5
  <2>4. GivenBack(assignment, c, d) \/ \E w \in Workers : GivesBack(session[w], c, d)
    BY <2>3 DEF SerialLoans
  <2>. QED  BY <2>1, <2>2, <2>4
<1>6. ASSUME NEW w \in Workers, session[w].kind = "commit"
      PROVE  /\ HeldByOne(AssignmentsAfter(session[w]), CardsAfter(session[w]))'
             /\ BelongToApproved(RequestsAfter(session[w]), AssignmentsAfter(session[w]))'
             /\ UsedByBorrower(AssignmentsAfter(session[w]))'
             /\ \A c \in Cards, d \in Days :
                  CheckOuts(c, d)' # {} => GivenBack(AssignmentsAfter(session[w]), c, d)'
  <2>1. PICK a, k, r : /\ a = AssignmentsAfter(session[w]) /\ k = CardsAfter(session[w])
                       /\ r = RequestsAfter(session[w])
    OBVIOUS
  <2>2. /\ a = AssignmentsAfter(session[w])' /\ k = CardsAfter(session[w])'
        /\ r = RequestsAfter(session[w])'
    BY <2>1 DEF AssignmentsAfter, CardsAfter, RequestsAfter
  <2>3. /\ HeldByOne(a, k) /\ BelongToApproved(r, a) /\ UsedByBorrower(a)
        /\ \A c \in Cards, d \in Days : CheckOuts(c, d) # {} => GivenBack(a, c, d)
    BY <1>6, <2>1 DEF SerialLoans
  <2>4. UsedByBorrower(a)'
    BY <2>3 DEF UsedByBorrower, CheckOuts
  <2>5. HeldByOne(a, k)' /\ BelongToApproved(r, a)'
        /\ \A c \in Cards, d \in Days : CheckOuts(c, d)' # {} => GivenBack(a, c, d)'
    BY <1>2, <2>3 DEF HeldByOne, BelongToApproved, ActiveOn, GivenBack
  <2>6. HeldByOne(AssignmentsAfter(session[w]), CardsAfter(session[w]))'
    BY <2>2, <2>5 DEF HeldByOne, ActiveOn
  <2>7. BelongToApproved(RequestsAfter(session[w]), AssignmentsAfter(session[w]))'
    BY <2>2, <2>5 DEF BelongToApproved
  <2>8. UsedByBorrower(AssignmentsAfter(session[w]))'
    BY <2>2, <2>4 DEF UsedByBorrower
  <2>9. ASSUME NEW c \in Cards, NEW d \in Days, CheckOuts(c, d)' # {}
        PROVE  GivenBack(AssignmentsAfter(session[w]), c, d)'
    BY <2>2, <2>5, <2>9 DEF GivenBack
  <2>. QED  BY <2>6, <2>7, <2>8, <2>9
<1>7. ASSUME NEW w \in Workers, session[w].kind \in {"scan", "hook"}
      PROVE  ScanUnderWay(session[w])'
  <2>1. PICK s, on, earlier : /\ s = session[w] /\ on = OnCard(s.scan.card, s.scan.date)
                              /\ earlier = CheckOuts(s.scan.card, s.scan.date)
    OBVIOUS
  <2>2. on = OnCard(s.scan.card, s.scan.date)' /\ earlier = CheckOuts(s.scan.card, s.scan.date)'
    BY <1>2, <2>1 DEF OnCard
  <2>3. ScanUnderWay(s)
    BY <1>7, <2>1 DEF SerialLoans
  <2>4. ScanUnderWay(s)'
    BY <2>1, <2>2, <2>3 DEF ScanUnderWay
  <2>5. session[w]' = s
    BY <2>1
  <2>. QED  BY <2>1, <2>2, <2>4, <2>5 DEF ScanUnderWay, OnCard, CheckOuts
<1>8. SerialLoans'
  BY <1>1, <1>3, <1>4, <1>5, <1>6, <1>7 DEF SerialLoans
<1>. QED  BY <1>8 DEF SerialInv

(* The empty desk has the serial invariant.                                *)
LEMMA InitSerial == Init => SerialInv
<1> SUFFICES ASSUME Init  PROVE SerialInv
  OBVIOUS
<1>1. DOMAIN assignment = {} /\ DOMAIN scans = {} /\ \A c \in Cards : card[c] = "AVAILABLE"
  BY DEF Init
<1>2. \A w \in Workers : session[w].kind = "idle"
  BY DEF Init, Idle
<1>3. SerialLoans
  BY <1>1, <1>2 DEF SerialLoans, HeldByOne, ActiveOn, BelongToApproved, UsedByBorrower, CheckOuts
<1>. QED  BY <1>3, InitOverlap DEF SerialInv

(* Every step, one at a time, keeps it.                                    *)
LEMMA NextSerial == OneAtATime /\ SerialInv /\ [Next]_vars => SerialInv'
<1> SUFFICES ASSUME OneAtATime, SerialInv, [Next]_vars  PROVE SerialInv'
  OBVIOUS
<1>1. OverlapInv'
  BY NextOverlap DEF SerialInv
<1>2. ASSUME NEW w \in Workers, LoseHook(w)  PROVE FALSE
  BY <1>2 DEF LoseHook, OneAtATime
<1>3. CASE NextDay
  BY <1>1, <1>3, StillSerial DEF NextDay
<1>4. CASE UNCHANGED vars
  BY <1>1, <1>4, StillSerial DEF vars
<1>. QED
  BY <1>1, <1>2, <1>3, <1>4, OperationsKeepSerial, CommitKeepsSerial, ScanKeepsSerial,
     HookKeepsSerial DEF Next, Proceed

(* One request at a time and no lost hook: a card is out of the pool       *)
(* exactly while one assignment is active on it, the assignment belongs to *)
(* an approved request that shows its card and date, and the session with  *)
(* a card ends with one check-out, by the employee it was lent to.         *)
THEOREM LoansInOrder == ASSUME OneAtATime  PROVE Spec => []LoanInv
<1>1. Init => SerialInv
  BY InitSerial
<1>2. SerialInv /\ [Next]_vars => SerialInv'
  BY NextSerial
<1>3. SerialInv => LoanInv
  <2> SUFFICES ASSUME SerialInv  PROVE LoanInv
    OBVIOUS
  <2>1. TypeOK /\ SerialLoans
    BY DEF SerialInv, OverlapInv
  <2>2. CardHeldByOne
    <3> SUFFICES ASSUME NEW c \in Cards
                 PROVE  Cardinality(ActiveOn(assignment, c)) = IF card[c] = "ASSIGNED" THEN 1 ELSE 0
      BY DEF CardHeldByOne, ActiveIn, ActiveOn
    <3>. QED  BY <2>1, FS_Singleton, FS_EmptySet DEF SerialLoans, HeldByOne
  <2>3. ActiveBelongsToApproved
    BY <2>1 DEF SerialLoans, BelongToApproved, ActiveBelongsToApproved, ActiveIn
  <2>4. OneCheckOutPerSession
    <3>1. ASSUME NEW c \in Cards, NEW d \in Days  PROVE Cardinality(CheckOuts(c, d)) <= 1
      <4>1. \A m, n \in CheckOuts(c, d) : m = n
        BY <2>1 DEF SerialLoans
      <4>2. CASE CheckOuts(c, d) = {}
        BY <4>2, FS_EmptySet
      <4>3. CASE CheckOuts(c, d) # {}
        <5>1. PICK n : n \in CheckOuts(c, d)
          BY <4>3
        <5>2. CheckOuts(c, d) = {n}
          BY <4>1, <5>1
        <5>3. Cardinality({n}) = 1
          BY FS_Singleton
        <5>. QED  BY <5>2, <5>3
      <4>. QED  BY <4>2, <4>3
    <3>. QED  BY <2>1, <3>1 DEF SerialLoans, UsedByBorrower, OneCheckOutPerSession
  <2>. QED  BY <2>1, <2>2, <2>3, <2>4 DEF LoanInv
<1>. QED  BY <1>1, <1>2, <1>3, PTL DEF Spec

=============================================================================
