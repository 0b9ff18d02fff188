-------------------------- MODULE RequestLifecycle --------------------------
(***************************************************************************)
(* What the request engine promises to a requester: a request is submitted *)
(* once; it waits on one workflow step after the other, never on a step it *)
(* has left behind; each decision settles the step it waits on, and        *)
(* possibly others that need no decision; a rejection or the approval of   *)
(* the last step ends it for good.                                         *)
(***************************************************************************)
CONSTANTS Requests, Steps, None

VARIABLES
  status,    \* "absent", "in_progress", "approved" or "rejected"
  awaiting,  \* the step the request waits on, or None
  settled    \* the steps the request has left behind

vars == <<status, awaiting, settled>>

Init ==
  /\ status = [q \in Requests |-> "absent"]
  /\ awaiting = [q \in Requests |-> None]
  /\ settled = [q \in Requests |-> {}]

(* The request now waits on s having left S behind, or is approved.        *)
MovesTo(q, s, S) ==
  /\ s \notin S
  /\ status' = [status EXCEPT ![q] = IF s = None THEN "approved" ELSE "in_progress"]
  /\ awaiting' = [awaiting EXCEPT ![q] = s]
  /\ settled' = [settled EXCEPT ![q] = S]

Submit(q) ==
  /\ status[q] = "absent"
  /\ \E s \in Steps \cup {None}, S \in SUBSET Steps : MovesTo(q, s, S)

Approve(q) ==
  /\ status[q] = "in_progress"
  /\ \E s \in Steps \cup {None}, S \in SUBSET Steps :
       settled[q] \cup {awaiting[q]} \subseteq S /\ MovesTo(q, s, S)

Reject(q) ==
  /\ status[q] = "in_progress"
  /\ status' = [status EXCEPT ![q] = "rejected"]
  /\ awaiting' = [awaiting EXCEPT ![q] = None]
  /\ settled' = [settled EXCEPT ![q] = @ \cup {awaiting[q]}]

Next == \E q \in Requests : Submit(q) \/ Approve(q) \/ Reject(q)

Spec == Init /\ [][Next]_vars

=============================================================================
