----------------------------- MODULE RateLimiter -----------------------------
(***************************************************************************)
(* InMemoryRateLimiter: the sliding-window limiter in front of the login,  *)
(* refresh and password endpoints.  One bucket of accepted stamps per      *)
(* path and client; is_allowed runs under one lock, but reads the clock    *)
(* twice: to trim the bucket and to stamp the accepted request.            *)
(*                                                                         *)
(* The code keeps a list of stamps.  Here all accepted stamps stay in      *)
(* accepted and a bucket is the set of the positions it still holds, so    *)
(* that the list's length is the set's cardinality.                        *)
(***************************************************************************)
EXTENDS Integers, FiniteSets, Sequences

CONSTANTS
  Keys,          \* "path:client" strings
  MaxRequests,   \* max_requests of the endpoint
  Window,        \* window_seconds of the endpoint
  LastTick,      \* bound on the clock
  Free           \* the lock is not held

ASSUME LimitsArePositive == MaxRequests \in Nat \ {0} /\ Window \in Nat \ {0}
ASSUME LastTickIsNat == LastTick \in Nat
ASSUME FreeIsNoHolder == Free \notin [key: Keys, at: Nat]

VARIABLES
  clock,     \* time.time(), not stepping backwards
  accepted,  \* per key the stamps of all accepted requests
  bucket,    \* per key the positions of the stamps the limiter still holds
  lock       \* the request inside is_allowed and when it trimmed, or Free

vars == <<clock, accepted, bucket, lock>>

Tick ==
  /\ clock < LastTick
  /\ clock' = clock + 1
  /\ UNCHANGED <<accepted, bucket, lock>>

(* Mutant: the window is one tick short.                                   *)
InShorterWindow(k, i, now) == accepted[k][i] > now - Window + 1

InWindow(k, i, now) == accepted[k][i] > now - Window

Trimmed(k, now) == {i \in bucket[k] : InWindow(k, i, now)}

(* Acquire the lock and trim.                                              *)
Trim(k) ==
  /\ lock = Free
  /\ lock' = [key |-> k, at |-> clock]
  /\ bucket' = [bucket EXCEPT ![k] = Trimmed(k, clock)]
  /\ UNCHANGED <<clock, accepted>>

HasRoom(k) == Cardinality(bucket[k]) < MaxRequests

Accept(k) ==
  /\ lock # Free /\ lock.key = k
  /\ HasRoom(k)
  /\ accepted' = [accepted EXCEPT ![k] = Append(@, clock)]
  /\ bucket' = [bucket EXCEPT ![k] = @ \cup {Len(accepted[k]) + 1}]
  /\ lock' = Free
  /\ UNCHANGED clock

(* 429 Too Many Requests.                                                  *)
Deny(k) ==
  /\ lock # Free /\ lock.key = k
  /\ ~HasRoom(k)
  /\ lock' = Free
  /\ UNCHANGED <<clock, accepted, bucket>>

Init ==
  /\ clock = 0
  /\ accepted = [k \in Keys |-> <<>>]
  /\ bucket = [k \in Keys |-> {}]
  /\ lock = Free

Next == Tick \/ \E k \in Keys : Trim(k) \/ Accept(k) \/ Deny(k)

Spec == Init /\ [][Next]_vars

-----------------------------------------------------------------------------
TypeOK ==
  /\ clock \in Nat
  /\ accepted \in [Keys -> Seq(Nat)]
  /\ bucket \in [Keys -> SUBSET Nat]
  /\ lock \in [key: Keys, at: Nat] \cup {Free}

(* No window of the configured length holds more than max_requests         *)
(* accepted requests: each one comes at least a window after the one       *)
(* max_requests before it.                                                 *)
LimitHolds ==
  \A k \in Keys : \A i \in 1..Len(accepted[k]) :
    i + MaxRequests <= Len(accepted[k]) =>
      accepted[k][i + MaxRequests] >= accepted[k][i] + Window

(* A client is refused only if max_requests of its requests were accepted  *)
(* in the window that ended when the limiter trimmed: clients do not use   *)
(* up each other's budget, and refused requests do not count.              *)
DeniedOnlyWhenFull ==
  [][lock # Free /\ lock' = Free /\ accepted' = accepted =>
       Cardinality({i \in DOMAIN accepted[lock.key] : InWindow(lock.key, i, lock.at)})
         >= MaxRequests]_vars

-----------------------------------------------------------------------------
(* The inductive invariant behind LimitHolds: stamps are in order, and the *)
(* positions a bucket no longer holds are at least a window old.           *)
Ordered ==
  \A k \in Keys : \A i \in 1..Len(accepted[k]) :
    /\ accepted[k][i] <= clock
    /\ \A j \in 1..i : accepted[k][j] <= accepted[k][i]

ForgottenAreOld ==
  \A k \in Keys :
    /\ bucket[k] \subseteq 1..Len(accepted[k])
    /\ \A i \in 1..Len(accepted[k]) \ bucket[k] : accepted[k][i] + Window <= clock

(* While a request is inside, its bucket holds only stamps of its window.  *)
HeldAreRecent ==
  lock # Free => \A i \in bucket[lock.key] : InWindow(lock.key, i, lock.at)

(* The limiter's inductive invariant.                                      *)
LimiterInv == TypeOK /\ Ordered /\ ForgottenAreOld /\ HeldAreRecent /\ LimitHolds

=============================================================================
