----------------------------- MODULE MCDirectory -----------------------------
(* Instances of DirectorySessions for TLC.                                 *)
EXTENDS DirectorySessions

(* Serial use of the organization, of the users service and of the two     *)
(* services that write accounts, and overlapping use of these two.         *)
MCModes ==
  {[serial |-> TRUE, ops |-> {"organization"}],
   [serial |-> TRUE, ops |-> {"users"}],
   [serial |-> TRUE, ops |-> {"users", "employees", "titles"}],
   [serial |-> FALSE, ops |-> {"users", "employees", "titles", "title_updates"}]}

MCOverlap == {[serial |-> FALSE, ops |-> {"organization"}]}

=============================================================================
