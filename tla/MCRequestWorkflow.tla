-------------------------- MODULE MCRequestWorkflow --------------------------
(***************************************************************************)
(* A team of a requester (1), the team leader (2), who also manages the    *)
(* department, and an RH manager (3) two levels up; a conception step, a   *)
(* team-leader step, an optional department-manager step and an RH step.   *)
(***************************************************************************)
EXTENDS RequestWorkflow, TLC

CONSTANTS clerk, lead, rh, t1, d1, s1, s2, s3

Account == [present |-> TRUE, active |-> TRUE, admin |-> FALSE]
Employed(jt, t) ==
  [present |-> TRUE, active |-> TRUE, title |-> jt, team |-> t, dept |-> d1]

MCDir ==
  [user |-> [u \in Users |-> Account],
   employee |-> [u \in Users |-> CASE u = 1 -> Employed(clerk, t1)
                                   [] u = 2 -> Employed(lead, t1)
                                   [] u = 3 -> Employed(rh, None)],
   title |-> [jt \in Titles |-> [present |-> TRUE, active |-> TRUE,
                                 level |-> CASE jt = clerk -> 1 [] jt = lead -> 2 [] jt = rh -> 3]],
   team |-> [t \in Teams |-> [present |-> TRUE, active |-> TRUE, dept |-> d1, leader |-> 2]],
   department |-> [d \in Departments |-> [present |-> TRUE, active |-> TRUE, manager |-> 2]]]

Conception(order) ==
  [present |-> TRUE, order |-> order, kind |-> "CONCEPTION", resolver |-> None, jobTitle |-> None,
   required |-> TRUE, active |-> TRUE]

Approver(order, resolver, required) ==
  [Conception(order) EXCEPT !.kind = "APPROVER", !.resolver = resolver, !.required = required]

TitleApprover(order, jt) ==
  [Conception(order) EXCEPT !.kind = "APPROVER", !.jobTitle = jt]

Unused == [Conception(1) EXCEPT !.present = FALSE, !.required = FALSE, !.active = FALSE]

(* Leader, then a title step resolved by the RH title, a conception step.  *)
MCThreeSteps ==
  s1 :> Approver(1, "TEAM_LEADER", TRUE) @@ s2 :> Conception(2)
  @@ s3 :> TitleApprover(3, rh)

(* Two steps decided by the same person, and the RH manager.               *)
MCSamePerson ==
  s1 :> Approver(1, "TEAM_LEADER", TRUE)
  @@ s2 :> Approver(2, "DEPARTMENT_MANAGER", FALSE)
  @@ s3 :> Approver(3, "RH_MANAGER", TRUE)

(* One step is not configured yet.                                         *)
MCGrowing ==
  s1 :> Approver(1, "TEAM_LEADER", TRUE) @@ s2 :> Unused
  @@ s3 :> Approver(3, "RH_MANAGER", FALSE)

MCFixed == {MCThreeSteps, MCSamePerson, MCGrowing}
MCThree == {MCThreeSteps}
MCOpen == {MCGrowing}

=============================================================================
