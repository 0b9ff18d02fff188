------------------------------ MODULE Sessions ------------------------------
(***************************************************************************)
(* What the components share: worker threads that serve one HTTP request   *)
(* at a time with a database session of their own, and the way a session   *)
(* writes rows.                                                            *)
(*                                                                         *)
(* A handler that reads rows and later commits writes derived from them is *)
(* two steps of a worker.  The components that extend this module name     *)
(* their variables and operators apart, so that several of them can be     *)
(* model-checked side by side.                                             *)
(***************************************************************************)
EXTENDS Naturals, FiniteSets

CONSTANTS
  Workers,   \* threads serving requests
  None       \* SQL NULL, a missing row, an idle worker

ASSUME NoneIsNoNumber == None \notin Nat

Maybe(S) == S \cup {None}

(* The row after the UPDATE of a loaded row: columns equal to the loaded   *)
(* value are not sent and keep what the database holds.                    *)
Flushed(current, loaded, new) ==
  [c \in DOMAIN current |-> IF new[c] # loaded[c] THEN new[c] ELSE current[c]]

(* Serving a request: the worker is free, and if requests are not to       *)
(* overlap one worker serves them all.                                     *)
MayServe(session, w, serial) ==
  session[w] = None /\ (serial => w = CHOOSE v \in Workers : TRUE)

=============================================================================
