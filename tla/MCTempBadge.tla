----------------------------- MODULE MCTempBadge -----------------------------
(* Instances of TempBadge for TLC.                                         *)
EXTENDS TempBadge, TLC

(* Employees, cards, requests and workers are interchangeable.             *)
Symmetric ==
  Permutations(Employees) \cup Permutations(Cards) \cup Permutations(Requests)
  \cup Permutations(Workers)

=============================================================================
