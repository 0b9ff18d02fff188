-------------------------- MODULE MCApproverCases --------------------------
(* Instances of ApproverCases for TLC.                                     *)
EXTENDS Hierarchy

CONSTANTS clerk, rh, chief, d1

Row(active, level) == [present |-> TRUE, active |-> active, level |-> level]
RowsOf(clerkRows, rhRows, chiefRows) ==
  {[jt \in Titles |-> CASE jt = clerk -> a [] jt = rh -> b [] jt = chief -> c] :
     a \in clerkRows, b \in rhRows, c \in chiefRows}
AnyRow == [present : {TRUE}, active : BOOLEAN, level : {1, 2}]

(* Two people, in one department, whose ranks and duties vary; the third   *)
(* account may lead a team or manage the department without a profile.     *)
Ranks ==
  [people |-> {1, 2}, held |-> {clerk, rh}, departments |-> {d1}, heads |-> Maybe(Users),
   titles |-> RowsOf(AnyRow, AnyRow, {Row(TRUE, 2)})]

(* Three people in one job title whose teams and departments vary.         *)
Places ==
  [people |-> Users, held |-> {rh}, departments |-> Departments, heads |-> {None},
   titles |-> RowsOf({Row(TRUE, 1)}, {Row(TRUE, 2)}, {Row(TRUE, 2)})]

(* Three people on three levels, one of which may be vacant.               *)
Ladder ==
  [people |-> Users, held |-> Titles, departments |-> {d1}, heads |-> {None},
   titles |-> RowsOf({Row(TRUE, 0)}, {Row(TRUE, 1), Row(FALSE, 1)}, {Row(TRUE, 2)})]

MCFamilies == {Ranks, Places, Ladder}

=============================================================================
