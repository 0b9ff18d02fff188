--------------------------- MODULE PlatformProofs ---------------------------
(***************************************************************************)
(* The services the others stand on: the rate limiter, the logins, the     *)
(* scanner app, and the installation with its permissions; and the         *)
(* dashboard, which reads them all.                                        *)
(***************************************************************************)
EXTENDS RateLimiter, Logins, ScannerApp, SetupWizard, Dashboard, FiniteSetTheorems, SequenceTheorems, TLAPS

-----------------------------------------------------------------------------
(***************************************************************************)
(* For every set of keys, limit, window and length of run: the limiter     *)
(* never accepts more than max_requests requests of a client in a window.  *)
(***************************************************************************)

(* If the bucket has room, the stamp max_requests before the next one is   *)
(* a window old: otherwise all stamps from it on would still be held.      *)
LEMMA RoomMeansOld ==
  ASSUME TypeOK, Ordered, ForgottenAreOld,
         NEW k \in Keys, HasRoom(k),
         NEW i \in 1..Len(accepted[k]), i + MaxRequests = Len(accepted[k]) + 1
  PROVE  accepted[k][i] + Window <= clock
<1> DEFINE len == Len(accepted[k])
<1>1. /\ len \in Nat /\ clock \in Nat /\ Window \in Nat /\ MaxRequests \in Nat
      /\ \A j \in 1..len : accepted[k][j] \in Nat
  BY LimitsArePositive DEF TypeOK
<1>2. bucket[k] \subseteq 1..len /\ IsFiniteSet(bucket[k])
  <2>1. bucket[k] \subseteq 1..len
    BY DEF ForgottenAreOld
  <2>2. IsFiniteSet(1..len)
    <3>1. 1 \in Int /\ len \in Int
      BY <1>1
    <3>. HIDE DEF len
    <3>. QED  BY <3>1, FS_Interval
  <2>. QED  BY <2>1, <2>2, FS_Subset
<1>3. PICK j \in i..len : j \notin bucket[k]
  <2> SUFFICES ASSUME i..len \subseteq bucket[k]  PROVE FALSE
    OBVIOUS
  <2>1. Cardinality(i..len) <= Cardinality(bucket[k])
    BY <1>2, FS_Subset
  <2>2. Cardinality(i..len) = MaxRequests
    <3>1. /\ i \in Int /\ len \in Int /\ ~(i > len)
          /\ len - i + 1 = MaxRequests
      BY <1>1, LimitsArePositive
    <3>. HIDE DEF len
    <3>2. Cardinality(i..len) = len - i + 1
      BY <3>1, FS_Interval
    <3>. QED  BY <3>1, <3>2
  <2>3. Cardinality(bucket[k]) \in Nat
    BY <1>2, FS_CardinalityType
  <2>. QED  BY <1>1, <2>1, <2>2, <2>3 DEF HasRoom
<1>4. accepted[k][j] + Window <= clock
  BY <1>1, <1>3 DEF ForgottenAreOld
<1>5. accepted[k][i] <= accepted[k][j]
  BY <1>1, <1>3 DEF Ordered
<1>. QED  BY <1>1, <1>3, <1>4, <1>5

(* An empty limiter has the invariant.                                     *)
LEMMA LimiterStarts == Init => LimiterInv
  BY DEF Init, LimiterInv, TypeOK, Ordered, ForgottenAreOld, HeldAreRecent, LimitHolds

(* Every request and every passing moment keeps it.                        *)
LEMMA LimiterSteps == LimiterInv /\ [Next]_vars => LimiterInv'
<1> SUFFICES ASSUME LimiterInv, [Next]_vars  PROVE LimiterInv'
  OBVIOUS
<1>. USE LimitsArePositive, LastTickIsNat
<1>0. TypeOK /\ Ordered /\ ForgottenAreOld /\ HeldAreRecent /\ LimitHolds
  BY DEF LimiterInv
<1>1. CASE Tick
  <2>1. TypeOK' /\ LimitHolds'
    BY <1>0, <1>1 DEF TypeOK, LimitHolds, Tick
  <2>2. Ordered' /\ ForgottenAreOld'
    BY <1>0, <1>1 DEF TypeOK, Ordered, ForgottenAreOld, Tick
  <2>3. HeldAreRecent'
    BY <1>0, <1>1 DEF HeldAreRecent, InWindow, Tick
  <2>. QED  BY <2>1, <2>2, <2>3 DEF LimiterInv
<1>2. ASSUME NEW k \in Keys, Trim(k)  PROVE LimiterInv'
  <2>1. TypeOK'
    BY <1>0, <1>2 DEF TypeOK, Trim, Trimmed
  <2>2. Ordered' /\ LimitHolds'
    BY <1>0, <1>2 DEF Ordered, LimitHolds, Trim
  <2>3. ForgottenAreOld'
    BY <1>0, <1>2 DEF TypeOK, ForgottenAreOld, Trim, Trimmed, InWindow
  <2>4. HeldAreRecent'
    BY <1>0, <1>2 DEF TypeOK, HeldAreRecent, Trim, Trimmed, InWindow
  <2>. QED  BY <2>1, <2>2, <2>3, <2>4 DEF LimiterInv
<1>3. ASSUME NEW k \in Keys, Accept(k)  PROVE LimiterInv'
  <2> DEFINE len == Len(accepted[k])
  <2>1. /\ accepted' = [accepted EXCEPT ![k] = Append(accepted[k], clock)]
        /\ bucket' = [bucket EXCEPT ![k] = bucket[k] \cup {len + 1}]
        /\ lock' = Free /\ clock' = clock /\ HasRoom(k)
    BY <1>3 DEF Accept
  <2>2. /\ accepted[k] \in Seq(Nat) /\ len \in Nat /\ clock \in Nat
        /\ accepted'[k] = Append(accepted[k], clock)
        /\ \A j \in 1..len : accepted[k][j] \in Nat
    BY <1>0, <2>1 DEF TypeOK
  <2>3. /\ Len(accepted'[k]) = len + 1
        /\ accepted'[k][len + 1] = clock
        /\ \A j \in 1..len : accepted'[k][j] = accepted[k][j]
    BY <2>2
  <2>4. \A h \in Keys \ {k} : accepted'[h] = accepted[h] /\ bucket'[h] = bucket[h]
    BY <1>0, <2>1 DEF TypeOK
  <2>5. bucket'[k] = bucket[k] \cup {len + 1}
    BY <1>0, <2>1 DEF TypeOK
  <2>6. TypeOK'
    BY <1>0, <2>1, <2>2 DEF TypeOK
  <2>7. Ordered'
    BY <1>0, <2>1, <2>2, <2>3, <2>4 DEF Ordered
  <2>8. ForgottenAreOld'
    BY <1>0, <2>1, <2>2, <2>3, <2>4, <2>5 DEF ForgottenAreOld
  <2>9. LimitHolds'
    <3>1. ASSUME NEW i \in 1..(len + 1), i + MaxRequests <= len + 1
          PROVE  accepted'[k][i + MaxRequests] >= accepted'[k][i] + Window
      <4>. i + MaxRequests <= len \/ i + MaxRequests = len + 1
        <5>1. i \in Nat /\ len \in Nat /\ MaxRequests \in Nat /\ i + MaxRequests <= len + 1
          BY <2>2, <3>1
        <5>. HIDE DEF len
        <5>. QED  BY <5>1
      <4>1. CASE i + MaxRequests <= len
        BY <1>0, <2>2, <2>3, <3>1, <4>1 DEF LimitHolds
      <4>2. CASE i + MaxRequests = len + 1
        <5>1. i \in 1..len
          BY <2>2, <4>2
        <5>2. accepted[k][i] + Window <= clock
          BY <1>0, <2>1, <4>2, <5>1, RoomMeansOld
        <5>. QED  BY <2>2, <2>3, <4>2, <5>1, <5>2
      <4>. QED  BY <4>1, <4>2
    <3>. QED  BY <1>0, <2>3, <2>4, <3>1 DEF LimitHolds
  <2>10. HeldAreRecent'
    BY <2>1 DEF HeldAreRecent
  <2>. QED  BY <2>6, <2>7, <2>8, <2>9, <2>10 DEF LimiterInv
<1>4. ASSUME NEW k \in Keys, Deny(k)  PROVE LimiterInv'
  BY <1>0, <1>4
  DEF LimiterInv, TypeOK, Ordered, ForgottenAreOld, HeldAreRecent, LimitHolds, Deny
<1>5. CASE UNCHANGED vars
  BY <1>0, <1>5
  DEF LimiterInv, TypeOK, Ordered, ForgottenAreOld, HeldAreRecent, LimitHolds, InWindow, vars
<1>. QED  BY <1>1, <1>2, <1>3, <1>4, <1>5 DEF Next

(* No client gets more than max_requests requests accepted in any window:  *)
(* each accepted request comes at least a window after the one             *)
(* max_requests before it.                                                 *)
THEOREM LimiterHoldsLimit == Spec => []LimitHolds
<1>1. LimiterInv => LimitHolds
  BY DEF LimiterInv
<1>. QED  BY <1>1, LimiterStarts, LimiterSteps, PTL DEF Spec

(* The inductive invariant, which contains the variables' types.           *)
THEOREM LimiterInvariant == Spec => []LimiterInv
  BY LimiterStarts, LimiterSteps, PTL DEF Spec

-----------------------------------------------------------------------------
(* A refusal leaves the lock with the stamps it counted still held.        *)
LEMMA DenialIsFull ==
  ASSUME LimiterInv, [Next]_vars, lock # Free, lock' = Free, accepted' = accepted
  PROVE  Cardinality({i \in DOMAIN accepted[lock.key] : InWindow(lock.key, i, lock.at)})
           >= MaxRequests
<1>0. TypeOK /\ ForgottenAreOld /\ HeldAreRecent
  BY DEF LimiterInv
<1>1. ~Tick /\ ~UNCHANGED vars /\ ~(\E k \in Keys : Trim(k))
  BY DEF Tick, Trim, vars
<1>2. ~(\E k \in Keys : Accept(k))
  <2> SUFFICES ASSUME NEW k \in Keys, Accept(k)  PROVE FALSE
    OBVIOUS
  <2>1. accepted[k] \in Seq(Nat) /\ clock \in Nat
    BY <1>0 DEF TypeOK
  <2>2. accepted'[k] = Append(accepted[k], clock)
    BY <1>0 DEF TypeOK, Accept
  <2>3. Len(accepted'[k]) # Len(accepted[k])
    BY <2>1, <2>2
  <2>. QED  BY <2>3
<1>3. PICK k \in Keys : Deny(k)
  BY <1>1, <1>2 DEF Next
<1>. DEFINE Recent == {i \in DOMAIN accepted[k] : InWindow(k, i, lock.at)}
<1>4. lock.key = k /\ ~HasRoom(k) /\ MaxRequests \in Nat
  BY <1>3, LimitsArePositive DEF Deny
<1>5. Len(accepted[k]) \in Nat /\ DOMAIN accepted[k] = 1..Len(accepted[k])
  BY <1>0 DEF TypeOK
<1>6. bucket[k] \subseteq Recent
  BY <1>0, <1>4, <1>5 DEF ForgottenAreOld, HeldAreRecent
<1>7. IsFiniteSet(Recent)
  <2>. DEFINE held == Len(accepted[k])
  <2>0. 1 \in Int /\ held \in Int
    BY <1>5
  <2>1. IsFiniteSet(1..Len(accepted[k]))
    <3>. HIDE DEF held
    <3>1. IsFiniteSet(1..held)
      BY <2>0, FS_Interval
    <3>. QED  BY <3>1 DEF held
  <2>2. Recent \subseteq 1..Len(accepted[k])
    BY <1>5
  <2>. QED  BY <2>1, <2>2, FS_Subset
<1>8. /\ Cardinality(bucket[k]) <= Cardinality(Recent)
      /\ Cardinality(bucket[k]) \in Nat /\ Cardinality(Recent) \in Nat
  <2>. HIDE DEF Recent
  <2>. QED  BY <1>6, <1>7, FS_Subset, FS_CardinalityType
<1>. QED  BY <1>4, <1>8 DEF HasRoom

(* Refusals are due: the client's accepted requests fill the window.       *)
THEOREM LimiterDeniesOnlyWhenFull == Spec => DeniedOnlyWhenFull
<1>1. LimiterInv /\ [Next]_vars =>
        [lock # Free /\ lock' = Free /\ accepted' = accepted =>
           Cardinality({i \in DOMAIN accepted[lock.key] : InWindow(lock.key, i, lock.at)})
             >= MaxRequests]_vars
  BY DenialIsFull
<1>. QED  BY <1>1, LimiterInvariant, PTL DEF Spec, DeniedOnlyWhenFull

-----------------------------------------------------------------------------
(***************************************************************************)
(* For any number of accounts, devices, tokens and workers: a session that *)
(* is renewed stays with its device and its account however renewals       *)
(* overlap, and while requests do not overlap a login has one good token   *)
(* and whoever has a temporary password has to change it.                  *)
(***************************************************************************)

(* The worker that serves all requests when they do not overlap.           *)
OnlyWorker == CHOOSE v \in Workers : TRUE

(* What a session loaded has the types of the tables, and the token it     *)
(* renews still has its device, its account and its login.                 *)
LoadedToken(x) ==
  /\ x.token \in Issued /\ x.loaded \in TokenRow
  /\ x.device \in Maybe(Devices) /\ x.now \in Nat
  /\ x.device # None /\ x.loaded.device # None => x.device = x.loaded.device
  /\ token[x.token].account = x.loaded.account
  /\ token[x.token].device = x.loaded.device
  /\ token[x.token].login = x.loaded.login

LoadedAccount(x) ==
  x.account \in Accounts /\ x.loaded \in AccountRow /\ x.new \in AccountRow /\ x.hashed \in BOOLEAN

Loaded(x) ==
  /\ x.kind = "login" => x.account \in Accounts /\ x.device \in Maybe(Devices) /\ x.now \in Nat
  /\ x.kind = "rotate" => LoadedToken(x)
  /\ x.kind = "account" => LoadedAccount(x)

(* Without overlap what was loaded is what is stored: the token is good    *)
(* until the renewal commits, and a new row has the password of the old    *)
(* one, or a new password that must be changed if it is temporary.         *)
Current(x) ==
  /\ x.kind = "rotate" => ~token[x.token].revoked /\ ~x.loaded.revoked
  /\ x.kind = "account" =>
       /\ x.loaded = account[x.account]
       /\ IF x.hashed THEN x.new.password \in TemporaryWords => x.new.mustChange
          ELSE x.new.password = x.loaded.password

LoginSessionsHold ==
  /\ DOMAIN loginSession = Workers
  /\ \A w \in Workers : loginSession[w] # None =>
       /\ Loaded(loginSession[w])
       /\ loginMode.serial => w = OnlyWorker /\ Current(loginSession[w])

(* A token descends from tokens that exist, and its login from a token.    *)
Descent ==
  \A t \in Issued : token[t].login \in Issued /\ (token[t].parent # None => token[t].parent \in Issued)

(* The good tokens of a login are one, said without counting.              *)
GoodTokenUnique ==
  loginMode.serial =>
    \A t, u \in Issued :
      token[t].login = token[u].login /\ ~token[t].revoked /\ ~token[u].revoked => t = u

TokensHold == Descent /\ GoodTokenUnique /\ SessionStaysBound

LoginsFit == LoginTypeOK /\ LoginSessionsHold /\ TokensHold /\ TemporaryMustChange

-----------------------------------------------------------------------------
(* Rows                                                                    *)

(* What a flush that ends a token stores of it.                            *)
LEMMA FlushedToken ==
  ASSUME NEW cur \in TokenRow, NEW loaded \in TokenRow
  PROVE  /\ Spent(cur, loaded) \in TokenRow
         /\ Spent(cur, loaded).account = cur.account
         /\ Spent(cur, loaded).device = cur.device
         /\ Spent(cur, loaded).login = cur.login
         /\ Spent(cur, loaded).parent = cur.parent
         /\ cur.revoked \/ ~loaded.revoked => Spent(cur, loaded).revoked
<1> DEFINE Cols == {"account", "device", "expires", "revoked", "login", "parent"}
           new == [loaded EXCEPT !.revoked = TRUE]
           u == Spent(cur, loaded)
<1>1. DOMAIN cur = Cols
  BY DEF TokenRow
<1>2. u = [c \in Cols |-> IF new[c] # loaded[c] THEN new[c] ELSE cur[c]]
  BY <1>1 DEF Spent, Flushed
<1>3. /\ new.account = loaded.account /\ new.device = loaded.device
      /\ new.expires = loaded.expires /\ new.revoked = TRUE
      /\ new.login = loaded.login /\ new.parent = loaded.parent
  BY DEF TokenRow
<1>. HIDE DEF new
<1>4. /\ u.account = cur.account /\ u.device = cur.device /\ u.expires = cur.expires
      /\ u.login = cur.login /\ u.parent = cur.parent
      /\ u.revoked = IF TRUE # loaded.revoked THEN TRUE ELSE cur.revoked
  BY <1>2, <1>3
<1>5. u = [c \in Cols |-> u[c]]
  BY <1>2
<1>. HIDE DEF u
<1>6. u.revoked \in BOOLEAN /\ (cur.revoked \/ ~loaded.revoked => u.revoked)
  BY <1>4 DEF TokenRow
<1>7. u \in TokenRow
  BY <1>4, <1>5, <1>6 DEF TokenRow
<1>. QED  BY <1>4, <1>6, <1>7 DEF u

(* A flush stores an account, and the new one if nothing came between.     *)
LEMMA FlushedAccount ==
  ASSUME NEW cur \in AccountRow, NEW loaded \in AccountRow, NEW new \in AccountRow
  PROVE  /\ Flushed(cur, loaded, new) \in AccountRow
         /\ cur = loaded => Flushed(cur, loaded, new) = new
<1> DEFINE Cols == {"active", "password", "mustChange"}
           u == Flushed(cur, loaded, new)
<1>1. DOMAIN cur = Cols /\ new = [c \in Cols |-> new[c]]
  BY DEF AccountRow
<1>2. u = [c \in Cols |-> IF new[c] # loaded[c] THEN new[c] ELSE cur[c]]
  BY <1>1 DEF Flushed
<1>3. /\ u.active \in BOOLEAN /\ u.password \in Passwords /\ u.mustChange \in BOOLEAN
  BY <1>2 DEF AccountRow
<1>4. u = [c \in Cols |-> u[c]]
  BY <1>2
<1>5. cur = loaded => u = new
  BY <1>1, <1>2
<1>. HIDE DEF u
<1>6. u \in AccountRow
  BY <1>3, <1>4 DEF AccountRow
<1>. QED  BY <1>5, <1>6 DEF u

-----------------------------------------------------------------------------
(* Requests begin                                                          *)

(* The sessions after a request begins: one more, and the tables as before.*)
LEMMA BeginKeeps ==
  ASSUME LoginsFit, NEW w \in Workers, NEW s, LoginBegin(w, s),
         Loaded(s), loginMode.serial => Current(s)
  PROVE  LoginsFit'
<1>1. /\ loginSession' = [loginSession EXCEPT ![w] = s]
      /\ loginMode.serial => w = OnlyWorker
      /\ UNCHANGED <<loginMode, account, token, tick, waived>>
  BY DEF LoginBegin, MayServe, OnlyWorker
<1>2. /\ DOMAIN loginSession' = Workers /\ loginSession'[w] = s
      /\ \A v \in Workers : v # w => loginSession'[v] = loginSession[v]
  BY <1>1 DEF LoginsFit, LoginSessionsHold
<1>3. Issued' = Issued
  BY <1>1 DEF Issued
<1>4. \A x : (Loaded(x) => Loaded(x)') /\ (Current(x) => Current(x)')
  BY <1>1, <1>3 DEF Loaded, LoadedToken, LoadedAccount, Current
<1>5. LoginSessionsHold'
  BY <1>1, <1>2, <1>4 DEF LoginsFit, LoginSessionsHold
<1>. QED
  BY <1>1, <1>3, <1>5 DEF LoginsFit, LoginTypeOK, TokensHold, Descent, GoodTokenUnique,
                          SessionStaysBound, TemporaryMustChange

(* A login keeps what sessions hold.                                       *)
LEMMA LoginKeeps == ASSUME LoginsFit, NEW w \in Workers, Login(w)  PROVE LoginsFit'
<1>1. PICK a \in Accounts, d \in Maybe(Devices) :
        LoginBegin(w, [kind |-> "login", account |-> a, device |-> d, now |-> tick])
  BY DEF Login
<1> DEFINE s == [kind |-> "login", account |-> a, device |-> d, now |-> tick]
<1>2. tick \in Nat
  BY LoginModesAreTyped DEF LoginsFit, LoginTypeOK
<1>3. Loaded(s) /\ Current(s)
  BY <1>2 DEF Loaded, Current
<1>. QED  BY <1>1, <1>3, BeginKeeps

(* A rotation keeps what sessions hold.                                    *)
LEMMA RotateKeeps == ASSUME LoginsFit, NEW w \in Workers, Rotate(w)  PROVE LoginsFit'
<1>1. PICK t \in TokenIds, d \in Maybe(Devices) :
        /\ Usable(t, d)
        /\ LoginBegin(w, [kind |-> "rotate", token |-> t, loaded |-> token[t], device |-> d,
                          now |-> tick])
  BY DEF Rotate
<1> DEFINE s == [kind |-> "rotate", token |-> t, loaded |-> token[t], device |-> d, now |-> tick]
<1>2. tick \in Nat
  BY LoginModesAreTyped DEF LoginsFit, LoginTypeOK
<1>3. /\ t \in Issued /\ token[t] \in TokenRow /\ ~token[t].revoked
      /\ d # None /\ token[t].device # None => d = token[t].device
  BY <1>1 DEF Usable, Issued, LoginsFit, LoginTypeOK, Maybe
<1>4. Loaded(s) /\ Current(s)
  BY <1>2, <1>3 DEF Loaded, LoadedToken, Current
<1>. QED  BY <1>1, <1>4, BeginKeeps

(* A service loads an account to give it a new row.                        *)
LEMMA LoadAccountKeeps ==
  ASSUME LoginsFit, NEW w \in Workers, NEW a \in Accounts, NEW new \in AccountRow,
         NEW hashed \in BOOLEAN, LoadAccount(w, a, new, hashed),
         IF hashed THEN new.password \in TemporaryWords => new.mustChange
         ELSE new.password = account[a].password
  PROVE  LoginsFit'
<1> DEFINE s == [kind |-> "account", account |-> a, loaded |-> account[a], new |-> new,
                 hashed |-> hashed]
<1>1. LoginBegin(w, s)
  BY DEF LoadAccount
<1>2. account[a] \in AccountRow
  BY DEF LoginsFit, LoginTypeOK
<1>3. Loaded(s) /\ Current(s)
  BY <1>2 DEF Loaded, LoadedAccount, Current
<1>. QED  BY <1>1, <1>3, BeginKeeps

(* Password changes and resets keep what sessions hold.                    *)
LEMMA PasswordKeeps ==
  ASSUME LoginsFit, NEW w \in Workers,
         ChangePassword(w) \/ ResetUserPassword(w) \/ UpdateUserPassword(w)
  PROVE  LoginsFit'
<1>1. account \in [Accounts -> AccountRow]
  BY DEF LoginsFit, LoginTypeOK
<1>2. ASSUME NEW a \in Accounts, NEW word \in Passwords, NEW flag \in BOOLEAN,
             LoadAccount(w, a, [account[a] EXCEPT !.password = word, !.mustChange = flag], TRUE),
             word \in TemporaryWords => flag
      PROVE  LoginsFit'
  <2> DEFINE new == [account[a] EXCEPT !.password = word, !.mustChange = flag]
  <2>1. new \in AccountRow /\ new.password = word /\ new.mustChange = flag
    BY <1>1 DEF AccountRow
  <2>. QED  BY <1>2, <2>1, LoadAccountKeeps
<1>3. ASSUME NEW a \in Accounts, NEW flag \in BOOLEAN,
             LoadAccount(w, a, [account[a] EXCEPT !.mustChange = flag], FALSE)
      PROVE  LoginsFit'
  <2> DEFINE new == [account[a] EXCEPT !.mustChange = flag]
  <2>1. new \in AccountRow /\ new.password = account[a].password
    BY <1>1 DEF AccountRow
  <2>. QED  BY <1>3, <2>1, LoadAccountKeeps
<1>4. CASE ChangePassword(w)
  <2>1. PICK a \in Accounts, word \in ChosenWords :
          LoadAccount(w, a, [account[a] EXCEPT !.password = word, !.mustChange = FALSE], TRUE)
    BY <1>4 DEF ChangePassword
  <2>2. word \in Passwords /\ word \notin TemporaryWords
    BY WordsAreApart DEF Passwords
  <2>. QED  BY <1>2, <2>1, <2>2
<1>5. CASE ResetUserPassword(w)
  <2>1. PICK a \in Accounts, word \in TemporaryWords :
          LoadAccount(w, a, [account[a] EXCEPT !.password = word, !.mustChange = TRUE], TRUE)
    BY <1>5 DEF ResetUserPassword, ResetRow
  <2>2. word \in Passwords
    BY DEF Passwords
  <2>. QED  BY <1>2, <2>1, <2>2
<1>6. CASE UpdateUserPassword(w)
  <2>1. PICK a \in Accounts, flag \in BOOLEAN :
          \/ LoadAccount(w, a, [account[a] EXCEPT !.mustChange = flag], FALSE)
          \/ \E word \in ChosenWords :
               LoadAccount(w, a, [account[a] EXCEPT !.password = word, !.mustChange = flag], TRUE)
    BY <1>6 DEF UpdateUserPassword
  <2>2. \A word \in ChosenWords : word \in Passwords /\ word \notin TemporaryWords
    BY WordsAreApart DEF Passwords
  <2>. QED  BY <1>2, <1>3, <2>1, <2>2
<1>. QED  BY <1>4, <1>5, <1>6

(* Activation and deactivation keep what sessions hold.                    *)
LEMMA ActivationKeeps == ASSUME LoginsFit, NEW w \in Workers, SetUserActive(w)  PROVE LoginsFit'
<1>1. PICK a \in Accounts : LoadAccount(w, a, [account[a] EXCEPT !.active = ~@], FALSE)
  BY DEF SetUserActive
<1> DEFINE new == [account[a] EXCEPT !.active = ~@]
<1>2. account[a] \in AccountRow
  BY DEF LoginsFit, LoginTypeOK
<1>3. new \in AccountRow /\ new.password = account[a].password
  BY <1>2 DEF AccountRow
<1>. QED  BY <1>1, <1>3, LoadAccountKeeps

-----------------------------------------------------------------------------
(* Requests end                                                            *)

(* The session of a worker ends; what the others loaded stays true, and    *)
(* without overlap there are no others.                                    *)
LEMMA EndKeeps ==
  ASSUME LoginsFit, NEW w \in Workers, loginSession[w] # None, LoginFinish(w), UNCHANGED loginMode,
         \A t \in Issued : /\ t \in Issued'
                           /\ token'[t].account = token[t].account
                           /\ token'[t].device = token[t].device
                           /\ token'[t].login = token[t].login
  PROVE  LoginSessionsHold'
<1>1. /\ DOMAIN loginSession' = Workers /\ loginSession'[w] = None
      /\ \A v \in Workers : v # w => loginSession'[v] = loginSession[v]
  BY DEF LoginFinish, LoginsFit, LoginSessionsHold
<1>2. \A v \in Workers : loginSession'[v] # None =>
        v # w /\ loginSession[v] # None /\ loginSession'[v] = loginSession[v]
  BY <1>1
<1>3. \A x : Loaded(x) => Loaded(x)'
  BY DEF Loaded, LoadedToken, LoadedAccount
<1>4. loginMode'.serial => \A v \in Workers : loginSession'[v] = None
  BY <1>2 DEF LoginsFit, LoginSessionsHold
<1>. QED  BY <1>1, <1>2, <1>3, <1>4 DEF LoginsFit, LoginSessionsHold

(* A token is added: one of a new login, or the successor of one that is   *)
(* spent with it.                                                          *)
LEMMA TokenAdded ==
  ASSUME LoginsFit, NEW w \in Workers, loginSession[w] # None, LoginFinish(w),
         UNCHANGED <<loginMode, account, tick, waived>>,
         NEW f \in TokenIds, token[f] = None, NEW row \in TokenRow,
         token' \in [TokenIds -> Maybe(TokenRow)], token'[f] = row,
         \A t \in TokenIds : t # f /\ token[t] = None => token'[t] = None,
         \A t \in Issued : /\ token'[t] \in TokenRow
                           /\ token'[t].account = token[t].account
                           /\ token'[t].device = token[t].device
                           /\ token'[t].login = token[t].login
                           /\ token'[t].parent = token[t].parent
                           /\ token[t].revoked => token'[t].revoked,
         row.parent = None => row.login = f,
         row.parent # None =>
           LET p == row.parent IN
           /\ p \in Issued
           /\ row.login = token[p].login /\ row.account = token[p].account
           /\ token[p].device # None => row.device = token[p].device
           /\ loginMode.serial => ~token[p].revoked /\ token'[p].revoked
  PROVE  LoginsFit'
<1>1. Issued' = Issued \cup {f} /\ f \notin Issued
  BY NoneIsNoToken DEF Issued
<1>2. Descent'
  BY <1>1 DEF LoginsFit, TokensHold, Descent
<1>3. GoodTokenUnique'
  <2> SUFFICES ASSUME loginMode.serial, NEW t \in Issued', NEW u \in Issued', t # u,
                      token'[t].login = token'[u].login, ~token'[t].revoked, ~token'[u].revoked
               PROVE  FALSE
    BY DEF GoodTokenUnique
  <2>1. \A v \in Issued : token[v].login = row.login => token'[v].revoked
    <3> SUFFICES ASSUME NEW v \in Issued, token[v].login = row.login, ~token'[v].revoked
                 PROVE  FALSE
      OBVIOUS
    <3>1. ~token[v].revoked /\ token[v].login \in Issued
      BY DEF LoginsFit, TokensHold, Descent
    <3>2. row.parent # None
      BY <1>1, <3>1
    <3>3. v = row.parent
      BY <3>1, <3>2 DEF LoginsFit, TokensHold, GoodTokenUnique
    <3>. QED  BY <3>2, <3>3
  <2>2. ~(t \in Issued /\ u \in Issued)
    BY DEF LoginsFit, TokensHold, GoodTokenUnique
  <2>. QED  BY <1>1, <2>1, <2>2
<1>4. SessionStaysBound'
  <2> SUFFICES ASSUME NEW t \in Issued', token'[t].parent # None
               PROVE  LET p == token'[token'[t].parent] IN
                      /\ p.device # None => token'[t].device = p.device
                      /\ token'[t].account = p.account
    BY DEF SessionStaysBound
  <2>1. CASE t \in Issued
    <3>1. token[t].parent \in Issued /\ token[t].parent # None
      BY <2>1 DEF LoginsFit, TokensHold, Descent
    <3>. QED  BY <2>1, <3>1 DEF LoginsFit, TokensHold, SessionStaysBound
  <2>2. CASE t = f
    BY <2>2
  <2>. QED  BY <1>1, <2>1, <2>2
<1>5. LoginSessionsHold'
  BY <1>1, EndKeeps
<1>6. LoginTypeOK' /\ TemporaryMustChange'
  BY DEF LoginsFit, LoginTypeOK, TemporaryMustChange
<1>. QED  BY <1>2, <1>3, <1>4, <1>5, <1>6 DEF LoginsFit, TokensHold

(* The next token id is unused.                                            *)
LEMMA FreshIsFree == FreeTokens # {} => FreshToken \in TokenIds /\ token[FreshToken] = None
  BY DEF FreshToken, FreeTokens

(* The commit of a login adds one token.                                   *)
LEMMA CommitLoginKeeps == ASSUME LoginsFit, NEW w \in Workers, CommitLogin(w)  PROVE LoginsFit'
<1> DEFINE x == loginSession[w]
           f == FreshToken
           row == [account |-> x.account, device |-> x.device, expires |-> x.now + Lifetime,
                   revoked |-> FALSE, login |-> f, parent |-> None]
<1>1. /\ x # None /\ LoginFinish(w) /\ UNCHANGED <<loginMode, account, tick, waived>>
      /\ token' = [token EXCEPT ![f] = row]
      /\ f \in TokenIds /\ token[f] = None
  BY FreshIsFree DEF CommitLogin
<1>2. x.account \in Accounts /\ x.device \in Maybe(Devices) /\ x.now \in Nat
  BY DEF CommitLogin, LoginsFit, LoginSessionsHold, Loaded
<1>3. row \in TokenRow
  <2>1. x.now + Lifetime \in Nat /\ FALSE \in BOOLEAN
    BY <1>2, LifetimeIsPositive
  <2>. QED  BY <1>1, <1>2, <2>1 DEF TokenRow, Maybe
<1>4. row.parent = None /\ row.login = f
  OBVIOUS
<1>5. token \in [TokenIds -> Maybe(TokenRow)]
  BY DEF LoginsFit, LoginTypeOK
<1>. HIDE DEF x, f, row
<1>6. /\ token' \in [TokenIds -> Maybe(TokenRow)] /\ token'[f] = row
      /\ \A t \in TokenIds : t # f => token'[t] = token[t]
  BY <1>1, <1>3, <1>5 DEF Maybe
<1>7. \A t \in Issued : t # f /\ token'[t] \in TokenRow /\ token'[t] = token[t]
  BY <1>1, <1>5, <1>6 DEF Issued, Maybe
<1>. QED  BY <1>1, <1>3, <1>4, <1>6, <1>7, TokenAdded DEF x

(* The commit of a rotation ends one token and adds one.                   *)
LEMMA CommitRotationKeeps == ASSUME LoginsFit, NEW w \in Workers, CommitRotation(w)  PROVE LoginsFit'
<1> DEFINE x == loginSession[w]
           f == FreshToken
           p == x.token
           spent == Spent(token[p], x.loaded)
           row == [account |-> x.loaded.account, device |-> NextDevice(x.device, x.loaded.device),
                   expires |-> x.now + Lifetime, revoked |-> FALSE,
                   login |-> x.loaded.login, parent |-> p]
<1>1. /\ x # None /\ LoginFinish(w) /\ UNCHANGED <<loginMode, account, tick, waived>>
      /\ token' = [token EXCEPT ![p] = spent, ![f] = row]
      /\ f \in TokenIds /\ token[f] = None
  BY FreshIsFree DEF CommitRotation
<1>2. LoadedToken(x) /\ (loginMode.serial => ~token[p].revoked /\ ~x.loaded.revoked)
  BY DEF CommitRotation, LoginsFit, LoginSessionsHold, Loaded, Current
<1>3. /\ token \in [TokenIds -> Maybe(TokenRow)]
      /\ p \in Issued /\ p \in TokenIds /\ p # f /\ token[p] \in TokenRow
  BY <1>1, <1>2 DEF LoginsFit, LoginTypeOK, LoadedToken, Issued, Maybe
<1>4. /\ spent \in TokenRow
      /\ spent.account = token[p].account /\ spent.device = token[p].device
      /\ spent.login = token[p].login /\ spent.parent = token[p].parent
      /\ token[p].revoked \/ ~x.loaded.revoked => spent.revoked
  BY <1>2, <1>3, FlushedToken DEF LoadedToken
<1>5. row \in TokenRow
  <2>1. x.now + Lifetime \in Nat /\ FALSE \in BOOLEAN
    BY <1>2, LifetimeIsPositive DEF LoadedToken
  <2>2. x.loaded.account \in Accounts /\ x.loaded.login \in TokenIds /\ x.loaded.device \in Maybe(Devices)
    BY <1>2 DEF LoadedToken, TokenRow
  <2>3. NextDevice(x.device, x.loaded.device) \in Maybe(Devices)
    BY <1>2, <2>2 DEF LoadedToken, NextDevice
  <2>. QED  BY <1>3, <2>1, <2>2, <2>3 DEF TokenRow, Maybe
<1>6. /\ row.parent = p /\ row.account = x.loaded.account /\ row.login = x.loaded.login
      /\ row.device = NextDevice(x.device, x.loaded.device)
  OBVIOUS
<1>7. /\ row.login = token[p].login /\ row.account = token[p].account
      /\ token[p].device # None => row.device = token[p].device
  <2>. HIDE DEF row, x
  <2>. QED  BY <1>2, <1>6 DEF LoadedToken, NextDevice
<1>. HIDE DEF f, row, spent
<1>8. /\ token' \in [TokenIds -> Maybe(TokenRow)] /\ token'[f] = row /\ token'[p] = spent
      /\ \A t \in TokenIds : t # f /\ t # p => token'[t] = token[t]
  BY <1>1, <1>3, <1>4, <1>5 DEF Maybe
<1>9. \A t \in Issued : t \in TokenIds /\ t # f /\ token[t] \in TokenRow
  BY <1>1, <1>3 DEF Issued, Maybe
<1>10. \A t \in TokenIds : t # f /\ token[t] = None => token'[t] = None
  BY <1>3, <1>8, NoneIsNoToken
<1>11. ASSUME NEW t \in Issued
       PROVE  /\ token'[t] \in TokenRow
              /\ token'[t].account = token[t].account
              /\ token'[t].device = token[t].device
              /\ token'[t].login = token[t].login
              /\ token'[t].parent = token[t].parent
              /\ token[t].revoked => token'[t].revoked
  <2>1. CASE t = p
    BY <1>4, <1>8, <2>1
  <2>2. CASE t # p
    BY <1>8, <1>9, <2>2
  <2>. QED  BY <2>1, <2>2
<1>12. loginMode.serial => ~token[p].revoked /\ token'[p].revoked
  BY <1>2, <1>4, <1>8
<1>13. row.parent = None => row.login = f
  BY <1>3, <1>6, NoneIsNoParent
<1>14. /\ row.parent \in Issued
       /\ row.login = token[row.parent].login /\ row.account = token[row.parent].account
       /\ token[row.parent].device # None => row.device = token[row.parent].device
       /\ loginMode.serial => ~token[row.parent].revoked /\ token'[row.parent].revoked
  BY <1>3, <1>6, <1>7, <1>12
<1>. HIDE DEF p
<1>15. token[f] = None /\ f \in TokenIds /\ row \in TokenRow /\ loginSession[w] # None
  BY <1>1, <1>5 DEF x
<1>. QED  BY <1>1, <1>8, <1>10, <1>11, <1>13, <1>14, <1>15, TokenAdded

(* The commit of an account changes no token.                              *)
LEMMA CommitAccountKeeps == ASSUME LoginsFit, NEW w \in Workers, CommitAccount(w)  PROVE LoginsFit'
<1> DEFINE x == loginSession[w]
           flushed == Flushed(account[x.account], x.loaded, x.new)
           new == Stored(x)
<1>1. /\ x # None /\ LoginFinish(w) /\ UNCHANGED <<loginMode, token, tick>>
      /\ account' = [account EXCEPT ![x.account] = new]
      /\ waived' = Waivers(x)
  BY DEF CommitAccount
<1>2. /\ LoadedAccount(x)
      /\ loginMode.serial =>
           /\ x.loaded = account[x.account]
           /\ IF x.hashed THEN x.new.password \in TemporaryWords => x.new.mustChange
              ELSE x.new.password = x.loaded.password
  BY DEF CommitAccount, LoginsFit, LoginSessionsHold, Loaded, Current
<1>3. account \in [Accounts -> AccountRow] /\ waived \subseteq Accounts
  BY DEF LoginsFit, LoginTypeOK
<1>4. new \in AccountRow /\ (loginMode.serial => new = x.new)
  <2>1. flushed \in AccountRow /\ (loginMode.serial => flushed = x.new)
    BY <1>2, <1>3, FlushedAccount DEF LoadedAccount
  <2>2. new = [flushed EXCEPT !.password = IF x.hashed THEN x.new.password ELSE flushed.password]
    BY DEF Stored
  <2>3. x.new \in AccountRow /\ x.new.password \in Passwords
    BY <1>2 DEF LoadedAccount, AccountRow
  <2>. HIDE DEF flushed, new, x
  <2>. QED  BY <2>1, <2>2, <2>3 DEF AccountRow
<1>5. waived' \subseteq Accounts /\ \A a \in Accounts : a # x.account => (a \in waived' <=> a \in waived)
  BY <1>1, <1>2, <1>3 DEF Waivers, LoadedAccount
<1>6. TemporaryMustChange'
  <2>1. /\ account'[x.account] = new
        /\ \A a \in Accounts : a # x.account => account'[a] = account[a]
    BY <1>1, <1>2, <1>3 DEF LoadedAccount
  <2> SUFFICES ASSUME loginMode.serial, NEW a \in Accounts, a \notin waived',
                      account'[a].password \in TemporaryWords
               PROVE  account'[a].mustChange
    BY <1>1 DEF TemporaryMustChange
  <2>2. CASE a # x.account
    BY <1>5, <2>1, <2>2 DEF LoginsFit, TemporaryMustChange
  <2>3. CASE a = x.account
    <3>1. account'[a] = x.new
      BY <1>4, <2>1, <2>3
    <3>2. CASE x.hashed
      BY <1>2, <3>1, <3>2
    <3>3. CASE ~x.hashed /\ ~x.new.mustChange
      <4>1. ~x.loaded.mustChange /\ a \notin waived
        BY <1>1, <2>3, <3>3 DEF Waivers
      <4>2. x.loaded = account[a] /\ x.loaded.password \in TemporaryWords
        BY <1>2, <2>3, <3>1, <3>3
      <4>. QED  BY <4>1, <4>2 DEF LoginsFit, TemporaryMustChange
    <3>. QED  BY <3>1, <3>2, <3>3
  <2>. QED  BY <2>2, <2>3
<1>. HIDE DEF new, x
<1>7. Issued' = Issued
  BY <1>1 DEF Issued
<1>8. LoginSessionsHold'
  BY <1>1, <1>7, EndKeeps DEF x
<1>9. LoginTypeOK' /\ TokensHold'
  BY <1>1, <1>3, <1>4, <1>5, <1>7 DEF LoginsFit, LoginTypeOK, TokensHold, Descent, GoodTokenUnique, SessionStaysBound
<1>. QED  BY <1>6, <1>8, <1>9 DEF LoginsFit

(* Passing time changes no row.                                            *)
LEMMA HourKeeps == ASSUME LoginsFit, HourPasses  PROVE LoginsFit'
<1>1. UNCHANGED <<loginMode, account, token, waived, loginSession>> /\ tick' = tick + 1 /\ tick < loginMode.last
  BY DEF HourPasses
<1>2. LoginTypeOK'
  BY <1>1, LoginModesAreTyped DEF LoginsFit, LoginTypeOK
<1>3. Issued' = Issued
  BY <1>1 DEF Issued
<1>4. \A y : (Loaded(y) => Loaded(y)') /\ (Current(y) => Current(y)')
  BY <1>1, <1>3 DEF Loaded, LoadedToken, LoadedAccount, Current
<1>. QED
  BY <1>1, <1>2, <1>3, <1>4 DEF LoginsFit, LoginSessionsHold, TokensHold, Descent, GoodTokenUnique,
                                SessionStaysBound, TemporaryMustChange

-----------------------------------------------------------------------------

(* A set without two different elements has at most one.                   *)
LEMMA OneOrNone ==
  ASSUME NEW S, \A t, u \in S : t = u  PROVE Cardinality(S) <= 1
<1>1. CASE S = {}
  BY <1>1, FS_EmptySet
<1>2. CASE S # {}
  <2>1. PICK t \in S : S = {t}
    BY <1>2
  <2>2. Cardinality({t}) = 1
    BY FS_Singleton
  <2>. QED  BY <2>1, <2>2
<1>. QED  BY <1>1, <1>2

(* Tokens and passwords hold for every number of accounts, devices, tokens *)
(* and workers (rotate_refresh_token, reset_user_password).                *)
THEOREM LoginsHold == LoginSpec => []LoginInv
<1>1. LoginInit => LoginsFit
  <2> SUFFICES ASSUME LoginInit  PROVE LoginsFit
    OBVIOUS
  <2>1. Issued = {}
    BY DEF LoginInit, Issued
  <2>2. account \in [Accounts -> AccountRow] /\ \A a \in Accounts : account[a].mustChange
    <3>1. PICK word \in TemporaryWords :
            account = [a \in Accounts |-> [active |-> TRUE, password |-> word, mustChange |-> TRUE]]
      BY DEF LoginInit
    <3> DEFINE first == [active |-> TRUE, password |-> word, mustChange |-> TRUE]
    <3>2. first \in AccountRow /\ first.mustChange
      BY DEF AccountRow, Passwords
    <3>. QED  BY <3>1, <3>2
  <2>3. LoginTypeOK
    BY <2>2, LoginModesAreTyped DEF LoginInit, LoginTypeOK, Maybe
  <2>. QED
    BY <2>1, <2>2, <2>3 DEF LoginInit, LoginsFit, LoginSessionsHold, TokensHold, Descent, GoodTokenUnique,
                            SessionStaysBound, TemporaryMustChange
<1>2. LoginsFit /\ [LoginNext]_loginVars => LoginsFit'
  <2> SUFFICES ASSUME LoginsFit, [LoginNext]_loginVars  PROVE LoginsFit'
    OBVIOUS
  <2>1. ASSUME NEW w \in Workers, Login(w) \/ Rotate(w)  PROVE LoginsFit'
    BY <2>1, LoginKeeps, RotateKeeps
  <2>2. ASSUME NEW w \in Workers,
               ChangePassword(w) \/ ResetUserPassword(w) \/ UpdateUserPassword(w)
        PROVE  LoginsFit'
    BY <2>2, PasswordKeeps
  <2>3. ASSUME NEW w \in Workers, SetUserActive(w)  PROVE LoginsFit'
    BY <2>3, ActivationKeeps
  <2>4. ASSUME NEW w \in Workers, CommitLogin(w) \/ CommitRotation(w) \/ CommitAccount(w)
        PROVE  LoginsFit'
    BY <2>4, CommitLoginKeeps, CommitRotationKeeps, CommitAccountKeeps
  <2>5. CASE HourPasses
    BY <2>5, HourKeeps
  <2>6. CASE UNCHANGED loginVars
    <3>1. UNCHANGED <<loginMode, account, token, tick, waived, loginSession>>
      BY <2>6 DEF loginVars
    <3>2. Issued' = Issued
      BY <3>1 DEF Issued
    <3>3. \A y : (Loaded(y) => Loaded(y)') /\ (Current(y) => Current(y)')
      BY <3>1, <3>2 DEF Loaded, LoadedToken, LoadedAccount, Current
    <3>. QED
      BY <3>1, <3>2, <3>3 DEF LoginsFit, LoginTypeOK, LoginSessionsHold, TokensHold, Descent,
                              GoodTokenUnique, SessionStaysBound, TemporaryMustChange
  <2>. QED  BY <2>1, <2>2, <2>3, <2>4, <2>5, <2>6 DEF LoginNext
<1>3. LoginsFit => LoginInv
  <2> SUFFICES ASSUME LoginsFit  PROVE LoginInv
    OBVIOUS
  <2>1. OneGoodTokenPerLogin
    <3> SUFFICES ASSUME loginMode.serial, NEW l \in Issued
                 PROVE  Cardinality({t \in Issued : token[t].login = l /\ ~token[t].revoked}) <= 1
      BY DEF OneGoodTokenPerLogin
    <3>1. \A t, u \in {t \in Issued : token[t].login = l /\ ~token[t].revoked} : t = u
      BY DEF LoginsFit, TokensHold, GoodTokenUnique
    <3>. HIDE DEF Issued
    <3>. QED  BY <3>1, OneOrNone
  <2>. QED  BY <2>1 DEF LoginsFit, TokensHold, LoginInv
<1>. QED  BY <1>1, <1>2, <1>3, PTL DEF LoginSpec

-----------------------------------------------------------------------------
(***************************************************************************)
(* However generations of builds overlap and whenever the process starts   *)
(* again, the current build is the newest one and every build's origin is  *)
(* stored once, for any number of workers, builds and origins.             *)
(***************************************************************************)

(* What a session goes by stays true until it commits: the builds it saw   *)
(* exist, and an origin it does not add is stored.                         *)
BuildSessionsHold ==
  /\ buildSession \in [Workers -> Maybe([origin: Maybe(Origin), isNew: BOOLEAN, old: SUBSET Nat])]
  /\ \A w \in Workers : buildSession[w] # None =>
       LET s == buildSession[w] IN
       /\ s.origin \in Maybe(Origin)
       /\ s.old \subseteq DOMAIN build
       /\ s.isNew => s.origin \in Origin
       /\ ~s.isNew => s.origin \in Maybe(OriginRows)

(* The newest build is active, so it is the largest active id.             *)
NewestIsActive == build # <<>> => build[Len(build)].active

BuildsHold == BuildSessionsHold /\ NewestIsActive /\ ScannerTypeOK /\ BuildOriginsAreAdmitted

(* The current build, which is chosen as the largest active id, is the     *)
(* newest one.                                                             *)
LEMMA NewestIsLargest ==
  ASSUME ScannerTypeOK, NewestIsActive  PROVE NewestBuildIsCurrent
<1> SUFFICES ASSUME build # <<>>  PROVE CurrentBuild = Len(build)
  BY DEF NewestBuildIsCurrent
<1>1. build \in Seq(BuildRow) /\ Len(build) \in Nat \ {0} /\ DOMAIN build = 1..Len(build)
  BY LenProperties DEF ScannerTypeOK
<1>2. Len(build) \in ActiveBuilds /\ \A c \in ActiveBuilds : c \in Nat /\ c <= Len(build)
  BY <1>1 DEF ActiveBuilds, NewestIsActive
<1>. DEFINE Largest(b) == \A c \in ActiveBuilds : c <= b
<1>3. \A b \in ActiveBuilds : Largest(b) => b = Len(build)
  BY <1>1, <1>2
<1>. HIDE DEF Largest
<1>4. (CHOOSE b \in ActiveBuilds : Largest(b)) = Len(build)
  <2>1. Largest(Len(build))
    BY <1>2 DEF Largest
  <2>. QED  BY <1>2, <1>3, <2>1
<1>. QED  BY <1>2, <1>4 DEF CurrentBuild, Largest

(* An origin in lower case is an origin.                                   *)
LEMMA LoweredIsOrigin == \A o \in Origin : Lowered(o) \in Origin
  BY FALSE \in BOOLEAN DEF Origin, Lowered

(* The settings contribute origins.                                        *)
LEMMA SettingsAreOrigins == FromSettings \subseteq Origin
<1> SUFFICES ASSUME NEW s \in KnownSites  PROVE [site |-> s, capitals |-> FALSE] \in Origin
  BY DEF FromSettings
<1>. QED  BY SitesAreKnown, FALSE \in BOOLEAN DEF Origin

(* The rows after a build is added.                                        *)
LEMMA NewBuildRows ==
  ASSUME build \in Seq(BuildRow), NEW s, s.origin \in Maybe(Origin)
  PROVE  /\ WithNewBuild(s) \in Seq(BuildRow)
         /\ Len(WithNewBuild(s)) = Len(build) + 1
         /\ DOMAIN build \subseteq DOMAIN WithNewBuild(s)
         /\ WithNewBuild(s)[Len(build) + 1].active
         /\ \A b \in DOMAIN WithNewBuild(s) :
              \/ WithNewBuild(s)[b].origin = s.origin
              \/ b \in DOMAIN build /\ WithNewBuild(s)[b].origin = build[b].origin
<1> DEFINE n == Len(build)
           kept == [b \in DOMAIN build |-> [build[b] EXCEPT !.active = @ /\ b \notin s.old]]
           row == [origin |-> s.origin, active |-> TRUE]
<1>1. n \in Nat /\ DOMAIN build = 1..n /\ \A b \in 1..n : build[b] \in BuildRow
  BY LenProperties, ElementOfSeq
<1>2. \A b \in 1..n : kept[b] \in BuildRow /\ kept[b].origin = build[b].origin
  <2> TAKE b \in 1..n
  <2>1. build[b] \in [origin: Maybe(Origin), active: BOOLEAN]
    BY <1>1 DEF BuildRow
  <2>2. kept[b] = [build[b] EXCEPT !.active = build[b].active /\ b \notin s.old]
    BY <1>1
  <2>. QED  BY <2>1, <2>2 DEF BuildRow
<1>3. row \in BuildRow /\ row.active /\ row.origin = s.origin
  BY DEF BuildRow
<1>4. kept \in [1..n -> BuildRow]
  BY <1>1, <1>2
<1>. HIDE DEF kept, row
<1>5. kept \in Seq(BuildRow) /\ Len(kept) = n
  BY <1>1, <1>4
<1>6. WithNewBuild(s) = Append(kept, row)
  BY DEF WithNewBuild, kept, row
<1>7. /\ Append(kept, row) \in Seq(BuildRow)
      /\ Len(Append(kept, row)) = n + 1
      /\ \A i \in 1..n : Append(kept, row)[i] = kept[i]
      /\ Append(kept, row)[n + 1] = row
  BY <1>3, <1>5, AppendProperties
<1>8. DOMAIN Append(kept, row) = 1..n + 1
  BY <1>7, LenProperties
<1>9. 1..n \subseteq 1..n + 1 /\ \A b \in 1..n + 1 : b \in 1..n \/ b = n + 1
  BY <1>1
<1>. QED  BY <1>1, <1>2, <1>3, <1>6, <1>7, <1>8, <1>9

(* A generation of a build begins: only the sessions change.               *)
LEMMA GenerateKeeps ==
  ASSUME BuildsHold, NEW w \in Workers, GenerateBuild(w)  PROVE BuildsHold'
<1>1. PICK origin \in Maybe(Origin) :
        /\ buildSession' = [buildSession EXCEPT ![w] =
             [origin |-> origin, isNew |-> origin # None /\ origin \notin OriginRows,
              old |-> ActiveBuilds]]
        /\ UNCHANGED <<build, allowedOrigin, admitted>>
  BY DEF GenerateBuild
<1> DEFINE s == [origin |-> origin, isNew |-> origin # None /\ origin \notin OriginRows,
                 old |-> ActiveBuilds]
<1>2. /\ s.origin \in Maybe(Origin) /\ s.isNew \in BOOLEAN
      /\ s.isNew => s.origin \in Origin
      /\ ~s.isNew => s.origin \in Maybe(OriginRows)
  BY DEF Maybe
<1>3. ActiveBuilds \subseteq DOMAIN build /\ ActiveBuilds \in SUBSET Nat /\ s.old = ActiveBuilds
  BY LenProperties DEF BuildsHold, ScannerTypeOK, ActiveBuilds
<1>4. s \in Maybe([origin: Maybe(Origin), isNew: BOOLEAN, old: SUBSET Nat])
  BY <1>2, <1>3 DEF Maybe
<1>5. buildSession' = [buildSession EXCEPT ![w] = s] /\ UNCHANGED <<build, allowedOrigin, admitted>>
  BY <1>1
<1>. HIDE DEF s
<1>6. BuildSessionsHold'
  BY <1>2, <1>3, <1>4, <1>5 DEF BuildsHold, BuildSessionsHold, OriginRows
<1>. QED
  BY <1>5, <1>6 DEF BuildsHold, NewestIsActive, ScannerTypeOK, BuildOriginsAreAdmitted, OriginRows

(* Origins stored once stay so when one that is not among them is added.   *)
LEMMA OriginsAfter ==
  ASSUME allowedOrigin \in Seq(Origin), NEW o \in Origin, o \notin OriginRows,
         \A i, j \in DOMAIN allowedOrigin : allowedOrigin[i] = allowedOrigin[j] => i = j,
         allowedOrigin' = Append(allowedOrigin, o)
  PROVE  /\ allowedOrigin' \in Seq(Origin)
         /\ OriginRows \subseteq OriginRows'
         /\ o \in OriginRows'
         /\ \A i, j \in DOMAIN allowedOrigin' : allowedOrigin'[i] = allowedOrigin'[j] => i = j
<1> DEFINE n == Len(allowedOrigin)
           after == Append(allowedOrigin, o)
<1>1. n \in Nat /\ DOMAIN allowedOrigin = 1..n
  BY LenProperties
<1>2. /\ after \in Seq(Origin) /\ Len(after) = n + 1
      /\ \A i \in 1..n : after[i] = allowedOrigin[i]
      /\ after[n + 1] = o
  BY AppendProperties
<1>3. DOMAIN after = 1..n + 1
  BY <1>2, LenProperties
<1>. HIDE DEF after
<1>4. \A i \in 1..n : allowedOrigin[i] # o
  BY <1>1 DEF OriginRows
<1>5. 1..n \subseteq 1..n + 1 /\ n + 1 \in 1..n + 1 /\ \A i \in 1..n + 1 : i \in 1..n \/ i = n + 1
  BY <1>1
<1>6. \A i, j \in 1..n + 1 : after[i] = after[j] => i = j
  BY <1>1, <1>2, <1>4, <1>5
<1>7. allowedOrigin' = after
  BY DEF after
<1>. QED  BY <1>1, <1>2, <1>3, <1>5, <1>6, <1>7 DEF OriginRows

(* A build is committed, or lost because its origin was added meanwhile.   *)
LEMMA CommitKeeps ==
  ASSUME BuildsHold, NEW w \in Workers, CommitBuild(w)  PROVE BuildsHold'
<1> DEFINE s == buildSession[w]
<1>1. /\ s # None /\ admitted' = admitted
      /\ buildSession' = [buildSession EXCEPT ![w] = None]
      /\ Len(build) < LastBuild \/ OriginTaken(s)
      /\ IF OriginTaken(s)
           THEN UNCHANGED <<build, allowedOrigin>>
           ELSE /\ build' = WithNewBuild(s)
                /\ allowedOrigin' = IF s.isNew THEN Append(allowedOrigin, s.origin) ELSE allowedOrigin
  BY DEF CommitBuild
<1>2. /\ s.origin \in Maybe(Origin)
      /\ s.isNew => s.origin \in Origin
      /\ ~s.isNew => s.origin \in Maybe(OriginRows)
  BY <1>1 DEF BuildsHold, BuildSessionsHold
<1>3. /\ build \in Seq(BuildRow) /\ allowedOrigin \in Seq(Origin)
      /\ Len(build) \in Nat /\ DOMAIN build = 1..Len(build)
      /\ admitted \in [origins: SUBSET Origin, stored: SUBSET Origin]
  BY LenProperties DEF BuildsHold, ScannerTypeOK
<1>. HIDE DEF s
<1>4. /\ allowedOrigin' \in Seq(Origin)
      /\ OriginRows \subseteq OriginRows'
      /\ ~OriginTaken(s) => s.origin \in Maybe(OriginRows')
      /\ \A i, j \in DOMAIN allowedOrigin' : allowedOrigin'[i] = allowedOrigin'[j] => i = j
  <2>0. \A i, j \in DOMAIN allowedOrigin : allowedOrigin[i] = allowedOrigin[j] => i = j
    BY DEF BuildsHold, BuildOriginsAreAdmitted
  <2>1. CASE s.isNew /\ s.origin \notin OriginRows
    <3>1. allowedOrigin' = Append(allowedOrigin, s.origin)
      BY <1>1, <2>1 DEF OriginTaken
    <3>. QED  BY <1>2, <1>3, <2>0, <2>1, <3>1, OriginsAfter DEF Maybe
  <2>2. CASE ~(s.isNew /\ s.origin \notin OriginRows)
    <3>1. allowedOrigin' = allowedOrigin /\ (~OriginTaken(s) => ~s.isNew)
      BY <1>1, <2>2 DEF OriginTaken
    <3>. QED  BY <1>2, <1>3, <2>0, <3>1 DEF OriginRows, Maybe
  <2>. QED  BY <2>1, <2>2
<1>5. /\ build' \in Seq(BuildRow) /\ Len(build') <= LastBuild
      /\ DOMAIN build \subseteq DOMAIN build'
      /\ NewestIsActive'
      /\ \A b \in DOMAIN build' : build'[b].origin \in Maybe(OriginRows')
  <2>1. \A b \in DOMAIN build : build[b].origin \in Maybe(OriginRows')
    BY <1>4 DEF BuildsHold, BuildOriginsAreAdmitted, Maybe
  <2>2. CASE OriginTaken(s)
    <3>1. build' = build
      BY <1>1, <2>2
    <3>. QED  BY <1>3, <2>1, <3>1 DEF BuildsHold, NewestIsActive, ScannerTypeOK
  <2>3. CASE ~OriginTaken(s)
    <3>1. build' = WithNewBuild(s) /\ Len(build) < LastBuild
      BY <1>1, <2>3
    <3>2. /\ build' \in Seq(BuildRow)
          /\ Len(build') = Len(build) + 1
          /\ DOMAIN build \subseteq DOMAIN build'
          /\ build'[Len(build) + 1].active
          /\ \A b \in DOMAIN build' :
               \/ build'[b].origin = s.origin
               \/ b \in DOMAIN build /\ build'[b].origin = build[b].origin
      BY <1>2, <1>3, <3>1, NewBuildRows
    <3>3. Len(build') <= LastBuild
      BY <1>3, <3>1, <3>2, SitesAreKnown
    <3>4. NewestIsActive'
      BY <3>2 DEF NewestIsActive
    <3>. QED  BY <1>4, <2>1, <2>3, <3>2, <3>3, <3>4
  <2>. QED  BY <2>2, <2>3
<1>6. BuildSessionsHold'
  <2>1. buildSession' \in [Workers -> Maybe([origin: Maybe(Origin), isNew: BOOLEAN, old: SUBSET Nat])]
    BY <1>1 DEF BuildsHold, BuildSessionsHold, Maybe
  <2>2. \A v \in Workers : buildSession'[v] # None => v # w /\ buildSession'[v] = buildSession[v]
    BY <1>1 DEF BuildsHold, BuildSessionsHold
  <2>. QED  BY <1>4, <1>5, <2>1, <2>2 DEF BuildsHold, BuildSessionsHold, Maybe
<1>7. BuildOriginsAreAdmitted'
  BY <1>1, <1>4, <1>5 DEF BuildsHold, BuildOriginsAreAdmitted
<1>. QED  BY <1>1, <1>3, <1>4, <1>5, <1>6, <1>7 DEF BuildsHold, ScannerTypeOK

(* The process starts again and reads the origins of the settings and the  *)
(* table.                                                                  *)
LEMMA RestartKeeps ==
  ASSUME BuildsHold, Restart  PROVE BuildsHold'
<1>1. PICK readable \in BOOLEAN :
        /\ admitted' = [origins |-> FromSettings \cup
                          (IF readable THEN {Lowered(o) : o \in OriginRows} ELSE {}),
                        stored |-> IF readable THEN OriginRows ELSE {}]
        /\ buildSession' = [w \in Workers |-> None]
        /\ UNCHANGED <<build, allowedOrigin>>
  BY DEF Restart
<1>2. OriginRows \subseteq Origin
  BY LenProperties, ElementOfSeq DEF BuildsHold, ScannerTypeOK, OriginRows
<1>3. {Lowered(o) : o \in OriginRows} \subseteq Origin
  BY <1>2, LoweredIsOrigin
<1>4. admitted'.origins \in SUBSET Origin /\ admitted'.stored \in SUBSET Origin
  BY <1>1, <1>2, <1>3, SettingsAreOrigins
<1>5. admitted' \in [origins: SUBSET Origin, stored: SUBSET Origin]
  BY <1>1, <1>2, <1>3, SettingsAreOrigins
<1>6. \A o \in admitted'.stored : [site |-> o.site, capitals |-> FALSE] \in admitted'.origins
  BY <1>1 DEF Lowered
<1>7. BuildSessionsHold'
  BY <1>1 DEF BuildSessionsHold, Maybe
<1>. QED
  BY <1>1, <1>5, <1>6, <1>7
     DEF BuildsHold, NewestIsActive, ScannerTypeOK, BuildOriginsAreAdmitted, OriginRows

(* The current build and the origins that browsers need follow the builds  *)
(* however generations overlap (generate_build, get_merged_browser_origins).*)
THEOREM BuildsAndOriginsHold == ScannerSpec => []BuildInv
<1>1. ScannerInit => BuildsHold
  <2> SUFFICES ASSUME ScannerInit  PROVE BuildsHold
    OBVIOUS
  <2>1. build = <<>> /\ allowedOrigin = <<>> /\ OriginRows = {}
    BY DEF ScannerInit, OriginRows
  <2>2. build \in Seq(BuildRow) /\ Len(build) = 0 /\ allowedOrigin \in Seq(Origin)
    BY <2>1, EmptySeq
  <2>3. BuildSessionsHold
    BY DEF ScannerInit, BuildSessionsHold, Maybe
  <2>4. ScannerTypeOK
    BY <2>2, SitesAreKnown, SettingsAreOrigins DEF ScannerInit, ScannerTypeOK
  <2>5. NewestIsActive /\ BuildOriginsAreAdmitted
    BY <2>1 DEF ScannerInit, NewestIsActive, BuildOriginsAreAdmitted
  <2>. QED  BY <2>3, <2>4, <2>5 DEF BuildsHold
<1>2. BuildsHold /\ [ScannerNext]_scannerVars => BuildsHold'
  <2> SUFFICES ASSUME BuildsHold, [ScannerNext]_scannerVars  PROVE BuildsHold'
    OBVIOUS
  <2>1. CASE Restart
    BY <2>1, RestartKeeps
  <2>2. ASSUME NEW w \in Workers, GenerateBuild(w)  PROVE BuildsHold'
    BY <2>2, GenerateKeeps
  <2>3. ASSUME NEW w \in Workers, CommitBuild(w)  PROVE BuildsHold'
    BY <2>3, CommitKeeps
  <2>4. CASE UNCHANGED scannerVars
    BY <2>4 DEF scannerVars, BuildsHold, BuildSessionsHold, NewestIsActive, ScannerTypeOK,
                BuildOriginsAreAdmitted, OriginRows
  <2>. QED  BY <2>1, <2>2, <2>3, <2>4 DEF ScannerNext
<1>3. BuildsHold => BuildInv
  BY NewestIsLargest DEF BuildsHold, BuildInv
<1>. QED  BY <1>1, <1>2, <1>3, PTL DEF ScannerSpec

-----------------------------------------------------------------------------
(***************************************************************************)
(* The installation and its permissions.  For every set of rows, modes and *)
(* workers, however often a step breaks off and is done again: the tables  *)
(* keep their types, grants are replaced, the catalog is restored and the  *)
(* progress of the wizard is backed by the tables.  The invariants are     *)
(* SetupTyped (with what a request under way may rely on), GrantsBacked,   *)
(* CatalogBacked, WizardBacked and PeopleBacked; each but the first rests  *)
(* on it alone.                                                            *)
(***************************************************************************)

(* The progress, and the requests that may be under way.                   *)
WizardStates ==
  [last: 0..7, department: Maybe(UnitIds), teams: [Slots -> Maybe(UnitIds)],
   codes: [CodesHere -> Maybe(RowIds)], users: [Roles -> Maybe(StaffIds)]]

AssignRequests ==
  [op: {"assign"}, title: accMode.titles, rows: SUBSET RowIds,
   deleted: SUBSET (accMode.titles \X RowIds)]
MigrateRequests == [op: {"migrate"}, stage: {"codes", "clear", "grant", "done"}]
SeedRequests ==
  [op: {"seed"}, step: {0, 3, 4, 5}, titles: SUBSET accMode.titles, codes: SUBSET CodesHere,
   grants: SUBSET accMode.titles, stored: [CodesHere -> Maybe(RowIds)], state: Maybe(WizardStates)]
UnitRequests == [op: {"units"}, next: 0..3, ask: UnitPayloads, state: WizardStates]
StaffRequests ==
  [op: {"staff"}, next: 1..6, ask: StaffPayloads, state: WizardStates,
   made: [Roles -> Maybe(StaffIds)]]

(* Those that write no row of a table but the progress.                    *)
ShortOps == {"readiness", "review", "complete"}
ShortRequests == [op: ShortOps, state: WizardStates]

Requests ==
  AssignRequests \cup MigrateRequests \cup SeedRequests \cup UnitRequests \cup StaffRequests
    \cup ShortRequests

(* The units a state of the wizard remembers are there.                    *)
UnitsThere(x) == \A u \in UnitIds : u \in StoredUnits(x) => unit[u] # None

(* What a request under way may rely on.                                   *)
Prepared(s) ==
  /\ s.op = "seed" /\ s.step # 0 => s.state \in WizardStates /\ UnitsThere(s.state)
  /\ s.op \in {"units", "staff"} \cup ShortOps => UnitsThere(s.state)
  /\ s.op = "staff" => OrganizationThere(s.state)

(* The inductive invariant: types, one request at a time in a serial mode. *)
TablesTyped ==
  /\ accMode \in AccessModes
  /\ permRow \in [RowIds -> Maybe(PermissionRows(accMode.codes))]
  /\ titleRows \subseteq accMode.titles
  /\ granted \subseteq accMode.titles \X RowIds
  /\ asked \in [accMode.titles -> SUBSET RowIds]
  /\ installed \in BOOLEAN /\ wizard \in WizardStates
  /\ unit \in [UnitIds -> Maybe(UnitRows)] /\ staff \in [StaffIds -> Maybe(StaffRows)]

TheWorker == CHOOSE v \in Workers : TRUE

SessionsTyped ==
  /\ accSession \in [Workers -> Maybe(Requests)]
  /\ accMode.serial => \A v \in Workers : accSession[v] # None => v = TheWorker

SessionsPrepared == \A v \in Workers : accSession[v] # None => Prepared(accSession[v])

SetupTyped == TablesTyped /\ SessionsTyped /\ SessionsPrepared /\ UnitsThere(wizard)

(* A request is known by its operation.                                    *)
LEMMA RequestOf ==
  ASSUME NEW s \in Requests
  PROVE  /\ s.op = "assign" => s \in AssignRequests
         /\ s.op = "migrate" => s \in MigrateRequests
         /\ s.op = "seed" => s \in SeedRequests
         /\ s.op = "units" => s \in UnitRequests
         /\ s.op = "staff" => s \in StaffRequests
         /\ s.op \in ShortOps => s \in ShortRequests
<1>1. /\ s \in AssignRequests => s.op = "assign"
      /\ s \in MigrateRequests => s.op = "migrate"
      /\ s \in SeedRequests => s.op = "seed"
      /\ s \in UnitRequests => s.op = "units"
      /\ s \in StaffRequests => s.op = "staff"
      /\ s \in ShortRequests => s.op \in ShortOps
  BY DEF AssignRequests, MigrateRequests, SeedRequests, UnitRequests, StaffRequests, ShortRequests
<1>. QED  BY <1>1 DEF Requests, ShortOps

(* The sets of a mode, while the mode stays.                               *)
LEMMA ModeKeeps ==
  ASSUME accMode' = accMode
  PROVE  /\ CodesHere' = CodesHere /\ WizardStates' = WizardStates /\ Requests' = Requests
         /\ SeedRequests' = SeedRequests /\ NothingStored' = NothingStored
<1>1. CodesHere' = CodesHere
  BY DEF CodesHere
<1>2. WizardStates' = WizardStates
  BY <1>1 DEF WizardStates
<1>. QED  BY <1>1, <1>2 DEF Requests, AssignRequests, MigrateRequests, SeedRequests, UnitRequests,
             StaffRequests, ShortRequests, NothingStored

(* A session that begins, goes on or ends, while units are only added.     *)
LEMMA SessionsGoOn ==
  ASSUME SetupTyped, NEW w \in Workers, NEW x,
         accMode' = accMode, accSession' = [accSession EXCEPT ![w] = x],
         accSession[w] # None \/ MayServe(accSession, w, accMode.serial) \/ x = None,
         \A u \in UnitIds : unit[u] # None => unit'[u] # None,
         x \in Maybe(Requests),
         x # None => Prepared(x)'
  PROVE  SessionsTyped' /\ SessionsPrepared'
<1>1. accSession \in [Workers -> Maybe(Requests)]
  BY DEF SetupTyped, SessionsTyped
<1>2. /\ accSession' \in [Workers -> Maybe(Requests)] /\ accSession'[w] = x
      /\ \A v \in Workers : v # w => accSession'[v] = accSession[v]
  BY <1>1
<1>3. SessionsTyped'
  <2>1. accMode.serial /\ x # None => w = TheWorker
    BY DEF SetupTyped, SessionsTyped, MayServe, TheWorker
  <2>. QED  BY <1>2, <2>1, ModeKeeps DEF SetupTyped, SessionsTyped, TheWorker
<1>4. ASSUME NEW s, Prepared(s)  PROVE Prepared(s)'
  BY <1>4, ModeKeeps DEF Prepared, UnitsThere, OrganizationThere, StoredUnits
<1>5. \A v \in Workers : accSession'[v] # None =>
        \E s : s = accSession'[v] /\ Prepared(s)'
  <2>1. ASSUME NEW v \in Workers, v # w, accSession'[v] # None
        PROVE  \E s : s = accSession'[v] /\ Prepared(s)'
    <3>1. PICK s : s = accSession[v]
      OBVIOUS
    <3>2. s = accSession'[v] /\ Prepared(s)
      BY <1>2, <2>1, <3>1 DEF SetupTyped, SessionsPrepared
    <3>. QED  BY <1>4, <3>2
  <2>. QED  BY <1>2, <2>1
<1>6. SessionsPrepared'
  BY <1>5 DEF SessionsPrepared, Prepared
<1>. QED  BY <1>3, <1>6

AccessTables == <<permRow, titleRows, granted, asked>>
WizardTables == <<installed, wizard, unit, staff>>

(* A session goes on to x, and at most the tables of the permissions       *)
(* change, within their types.                                             *)
LEMMA AccessKeepsTypes ==
  ASSUME SetupTyped, NEW w \in Workers, NEW x, UNCHANGED <<accMode, WizardTables>>,
         accSession' = [accSession EXCEPT ![w] = x],
         accSession[w] # None \/ MayServe(accSession, w, accMode.serial),
         x \in Maybe(Requests), x # None => Prepared(x)',
         permRow' \in [RowIds -> Maybe(PermissionRows(accMode.codes))],
         titleRows' \subseteq accMode.titles,
         granted' \subseteq accMode.titles \X RowIds,
         asked' \in [accMode.titles -> SUBSET RowIds]
  PROVE  SetupTyped'
<1>1. UNCHANGED <<accMode, installed, wizard, unit, staff>>
  BY DEF WizardTables
<1>2. SessionsTyped' /\ SessionsPrepared'
  BY <1>1, SessionsGoOn
<1>3. TablesTyped'
  BY <1>1, ModeKeeps DEF SetupTyped, TablesTyped
<1>4. UnitsThere(wizard)'
  BY <1>1 DEF SetupTyped, UnitsThere, StoredUnits
<1>. QED  BY <1>2, <1>3, <1>4 DEF SetupTyped

(* The two halves of an assignment keep the types.                         *)
LEMMA AssignmentTyped ==
  ASSUME SetupTyped, NEW w \in Workers, UNCHANGED <<accMode, WizardTables>>,
         \/ \E title \in accMode.titles, rows \in SUBSET ExistingRows : LoadAssignment(w, title, rows)
         \/ CommitAssignment(w)
  PROVE  SetupTyped'
<1>1. /\ permRow \in [RowIds -> Maybe(PermissionRows(accMode.codes))]
      /\ titleRows \subseteq accMode.titles /\ granted \subseteq accMode.titles \X RowIds
      /\ asked \in [accMode.titles -> SUBSET RowIds]
  BY DEF SetupTyped, TablesTyped
<1>2. ASSUME NEW title \in accMode.titles, NEW rows \in SUBSET ExistingRows,
             LoadAssignment(w, title, rows)
      PROVE  SetupTyped'
  <2>1. PICK x : x = [op |-> "assign", title |-> title, rows |-> rows,
                      deleted |-> GrantsOf(title, GrantedTo(title))]
    OBVIOUS
  <2>2. GrantsOf(title, GrantedTo(title)) \subseteq accMode.titles \X RowIds /\ rows \subseteq RowIds
    BY DEF GrantsOf, GrantedTo, ExistingRows
  <2>3. x \in AssignRequests /\ x.op = "assign"
    BY <2>1, <2>2 DEF AssignRequests
  <2>4. x \in Maybe(Requests) /\ Prepared(x)'
    BY <2>3 DEF Requests, Maybe, Prepared, ShortOps
  <2>5. /\ MayServe(accSession, w, accMode.serial) /\ accSession' = [accSession EXCEPT ![w] = x]
        /\ UNCHANGED <<permRow, titleRows, granted, asked>>
    BY <1>2, <2>1 DEF LoadAssignment, permissionVars
  <2>. QED  BY <1>1, <2>4, <2>5, AccessKeepsTypes
<1>3. CASE CommitAssignment(w)
  <2>1. PICK s : s = accSession[w]
    OBVIOUS
  <2>2. s # None /\ s.op = "assign" /\ accSession' = [accSession EXCEPT ![w] = None]
        /\ UNCHANGED <<permRow, titleRows>>
    BY <1>3, <2>1 DEF CommitAssignment
  <2>3. s \in AssignRequests
    BY <2>1, <2>2, RequestOf DEF SetupTyped, SessionsTyped, Maybe
  <2>4. s.title \in accMode.titles /\ s.rows \subseteq RowIds
    BY <2>3 DEF AssignRequests
  <2>5. \/ UNCHANGED <<granted, asked>>
        \/ /\ granted' = (granted \ s.deleted) \cup GrantsOf(s.title, s.rows)
           /\ asked' = [asked EXCEPT ![s.title] = s.rows]
    BY <1>3, <2>1 DEF CommitAssignment, Replaced
  <2>6. granted' \subseteq accMode.titles \X RowIds /\ asked' \in [accMode.titles -> SUBSET RowIds]
    BY <1>1, <2>4, <2>5 DEF GrantsOf
  <2>. QED  BY <1>1, <2>1, <2>2, <2>6, AccessKeepsTypes DEF Maybe
<1>. QED  BY <1>2, <1>3

(* Rows that are inserted for codes, as the migration and the seeding do.  *)
LEMMA RowForIs ==
  ASSUME NEW stored, NEW code, NEW row \in RowFor(stored, code)
  PROVE  \/ stored # None /\ row = stored
         \/ row \in RowIds /\ permRow[row] # None /\ permRow[row].code = code
         \/ row \in RowIds /\ permRow[row] = None
BY DEF RowFor, OneOf, RowWithCode, FreeRows, ExistingRows

(* Rows for missing codes are rows; the others stay.                       *)
LEMMA WithRowsIs ==
  ASSUME NEW codes, NEW id \in Injection(codes, FreeRows)
  PROVE  \A r \in RowIds :
           \/ WithRows(id)[r] = permRow[r] /\ r \notin Range(id)
           \/ \E c \in codes : /\ id[c] = r /\ WithRows(id)[r] = PermissionRow(c, TRUE)
                               /\ permRow[r] = None
<1>1. id \in [codes -> FreeRows]
  BY DEF Injection
<1>2. ASSUME NEW r \in RowIds, r \in Range(id)
      PROVE  \E c \in codes : /\ id[c] = r /\ WithRows(id)[r] = PermissionRow(c, TRUE)
                              /\ permRow[r] = None
  <2>1. \E c \in DOMAIN id : id[c] = r
    BY <1>2 DEF Range
  <2>2. PICK c : c = CHOOSE d \in DOMAIN id : id[d] = r
    OBVIOUS
  <2>3. c \in DOMAIN id /\ id[c] = r
    BY <2>1, <2>2
  <2>4. c \in codes /\ permRow[r] = None
    BY <1>1, <2>3 DEF FreeRows, ExistingRows
  <2>5. WithRows(id)[r] = PermissionRow(c, TRUE)
    BY <1>2, <2>2 DEF WithRows
  <2>. QED  BY <2>3, <2>4, <2>5
<1>3. ASSUME NEW r \in RowIds, r \notin Range(id)  PROVE WithRows(id)[r] = permRow[r]
  BY <1>3 DEF WithRows
<1>. QED  BY <1>2, <1>3

(* The three commits of the migration keep the types.                      *)
LEMMA MigrationTyped ==
  ASSUME SetupTyped, NEW w \in Workers, UNCHANGED <<accMode, WizardTables>>,
         BeginMigration(w) \/ MigrateCodes(w) \/ ClearGrants(w) \/ GrantMigrated(w) \/ EndMigration(w)
  PROVE  SetupTyped'
<1>1. /\ permRow \in [RowIds -> Maybe(PermissionRows(accMode.codes))]
      /\ titleRows \subseteq accMode.titles /\ granted \subseteq accMode.titles \X RowIds
      /\ asked \in [accMode.titles -> SUBSET RowIds]
  BY DEF SetupTyped, TablesTyped
<1>2. ASSUME NEW stage \in {"codes", "clear", "grant", "done"}
      PROVE  LET x == [op |-> "migrate", stage |-> stage] IN
             x \in Maybe(Requests) /\ (x # None => Prepared(x)')
  <2>1. PICK x : x = [op |-> "migrate", stage |-> stage]
    OBVIOUS
  <2>2. x \in MigrateRequests /\ x.op = "migrate"
    BY <2>1 DEF MigrateRequests
  <2>. QED  BY <2>1, <2>2 DEF Requests, Maybe, Prepared, ShortOps
<1>3. CASE BeginMigration(w)
  <2>1. PICK x : x = [op |-> "migrate", stage |-> "codes"]
    OBVIOUS
  <2>2. x \in Maybe(Requests) /\ (x # None => Prepared(x)')
    BY <1>2, <2>1
  <2>. QED  BY <1>1, <1>3, <2>1, <2>2, AccessKeepsTypes DEF BeginMigration, permissionVars
<1>4. ASSUME NEW stage, NEW next \in {"codes", "clear", "grant", "done"}, Migrating(w, stage),
             accSession' = [accSession EXCEPT ![w].stage = next]
      PROVE  \E x : /\ accSession' = [accSession EXCEPT ![w] = x] /\ accSession[w] # None
                    /\ x \in Maybe(Requests) /\ (x # None => Prepared(x)')
  <2>1. PICK s : s = accSession[w]
    OBVIOUS
  <2>2. s # None /\ s.op = "migrate"
    BY <1>4, <2>1 DEF Migrating
  <2>3. s \in MigrateRequests
    BY <2>1, <2>2, RequestOf DEF SetupTyped, SessionsTyped, Maybe
  <2>4. PICK x : x = [op |-> "migrate", stage |-> next]
    OBVIOUS
  <2>5. [s EXCEPT !.stage = next] = x
    BY <2>3, <2>4 DEF MigrateRequests
  <2>6. accSession' = [accSession EXCEPT ![w] = x]
    BY <1>4, <2>1, <2>5
  <2>. QED  BY <1>2, <2>1, <2>2, <2>4, <2>6
<1>5. CASE MigrateCodes(w)
  <2>1. PICK x : /\ accSession' = [accSession EXCEPT ![w] = x] /\ accSession[w] # None
                 /\ x \in Maybe(Requests) /\ (x # None => Prepared(x)')
    BY <1>4, <1>5 DEF MigrateCodes
  <2>2. \/ permRow' = permRow
        \/ \E id \in Injection(MissingCodes, FreeRows) : permRow' = WithRows(id)
    BY <1>5 DEF MigrateCodes, OneOf
  <2>3. ASSUME NEW id \in Injection(MissingCodes, FreeRows), permRow' = WithRows(id)
        PROVE  permRow' \in [RowIds -> Maybe(PermissionRows(accMode.codes))]
    <3>1. \A c \in MissingCodes : PermissionRow(c, TRUE) \in PermissionRows(accMode.codes)
      BY DEF MissingCodes, MigratedCodes, PermissionRow, PermissionRows
    <3>2. ASSUME NEW r \in RowIds  PROVE WithRows(id)[r] \in Maybe(PermissionRows(accMode.codes))
      <4>a. PICK codes : codes = MissingCodes
        OBVIOUS
      <4>b. id \in Injection(codes, FreeRows)
        BY <2>3, <4>a
      <4>c. \A q \in RowIds :
             \/ WithRows(id)[q] = permRow[q] /\ q \notin Range(id)
             \/ \E c \in codes : /\ id[c] = q /\ WithRows(id)[q] = PermissionRow(c, TRUE)
                                 /\ permRow[q] = None
        BY ONLY <4>b, WithRowsIs
      <4>0. WithRows(id)[r] = permRow[r] \/ \E c \in MissingCodes : WithRows(id)[r] = PermissionRow(c, TRUE)
        BY <3>2, <4>a, <4>c
      <4>1. CASE WithRows(id)[r] = permRow[r]
        BY <1>1, <4>1
      <4>2. CASE \E c \in MissingCodes : WithRows(id)[r] = PermissionRow(c, TRUE)
        BY <3>1, <4>2 DEF Maybe
      <4>. QED  BY <4>0, <4>1, <4>2
    <3>3. WithRows(id) = [r \in RowIds |-> WithRows(id)[r]]
      BY DEF WithRows
    <3>. QED  BY <2>3, <3>2, <3>3
  <2>4. permRow' \in [RowIds -> Maybe(PermissionRows(accMode.codes))]
    BY <1>1, <2>2, <2>3
  <2>. QED  BY <1>1, <1>5, <2>1, <2>4, AccessKeepsTypes DEF MigrateCodes
<1>6. CASE ClearGrants(w)
  <2>1. PICK x : /\ accSession' = [accSession EXCEPT ![w] = x] /\ accSession[w] # None
                 /\ x \in Maybe(Requests) /\ (x # None => Prepared(x)')
    BY <1>4, <1>6 DEF ClearGrants
  <2>2. granted' = {} /\ asked' \in [accMode.titles -> SUBSET RowIds] /\ UNCHANGED <<permRow, titleRows>>
    BY <1>1, <1>6 DEF ClearGrants
  <2>. QED  BY <1>1, <2>1, <2>2, AccessKeepsTypes
<1>7. CASE GrantMigrated(w)
  <2>1. PICK x : /\ accSession' = [accSession EXCEPT ![w] = x] /\ accSession[w] # None
                 /\ x \in Maybe(Requests) /\ (x # None => Prepared(x)')
    BY <1>4, <1>7 DEF GrantMigrated
  <2>2. PICK titles : titles = titleRows \cap DOMAIN MigratedGrants
    OBVIOUS
  <2>3. \A t \in titles : /\ RowsOfCodes(MigratedGrants[t]) \subseteq RowIds
                          /\ GrantsOf(t, RowsOfCodes(MigratedGrants[t])) \subseteq accMode.titles \X RowIds
    BY <1>1, <2>2 DEF RowsOfCodes, ExistingRows, GrantsOf
  <2>4. /\ UNCHANGED <<permRow, titleRows>>
        /\ \/ UNCHANGED <<granted, asked>>
           \/ /\ granted' = granted
                    \cup UNION {GrantsOf(t, RowsOfCodes(MigratedGrants[t])) : t \in titles}
              /\ asked' = [t \in DOMAIN asked |-> IF t \in titles THEN RowsOfCodes(MigratedGrants[t])
                                                  ELSE asked[t]]
    BY <1>7, <2>2 DEF GrantMigrated
  <2>5. asked' \in [accMode.titles -> SUBSET RowIds]
    BY <1>1, <2>3, <2>4
  <2>6. granted' \subseteq accMode.titles \X RowIds
    BY <1>1, <2>3, <2>4
  <2>. QED  BY <1>1, <2>1, <2>4, <2>5, <2>6, AccessKeepsTypes
<1>8. CASE EndMigration(w)
  BY <1>1, <1>8, AccessKeepsTypes DEF EndMigration, Migrating, permissionVars, Maybe
<1>. QED  BY <1>3, <1>5, <1>6, <1>7, <1>8

(* What a request that seeds rows looks like.                              *)
LEMMA SeedingIs ==
  ASSUME SetupTyped, NEW w \in Workers, IsSeeding(w)
  PROVE  accSession[w] # None /\ accSession[w] \in SeedRequests
BY RequestOf DEF SetupTyped, SessionsTyped, IsSeeding, Maybe

(* What seeding a code does.                                               *)
CodeSeeded(w, s, code, row, x) ==
  /\ row \in RowFor(s.stored[code], code) /\ row \in RowIds
  /\ RowWithCode(code) \subseteq {row}
  /\ permRow' = [permRow EXCEPT ![row] = PermissionRow(code, TRUE)]
  /\ x \in SeedRequests /\ x.op = "seed" /\ x.step = s.step /\ x.state = s.state
  /\ x.titles = s.titles /\ x.grants = s.grants
  /\ x.codes = s.codes \ {code} /\ x.stored = [s.stored EXCEPT ![code] = row]
  /\ accSession' = [accSession EXCEPT ![w] = x]

(* Seeding a code ends the request or writes one row.                      *)
LEMMA SeedCodeDoes ==
  ASSUME SetupTyped, NEW w \in Workers, SeedCode(w)
  PROVE  /\ UNCHANGED <<titleRows, granted, asked>>
         /\ accSession[w] # None /\ accSession[w] \in SeedRequests /\ accSession[w].op = "seed"
         /\ accSession[w].titles = {}
         /\ \E code \in accSession[w].codes :
              \/ permRow' = permRow /\ accSession' = [accSession EXCEPT ![w] = None]
              \/ \E row, x : CodeSeeded(w, accSession[w], code, row, x)
<1>1. PICK s, code : s = accSession[w] /\ code = CHOOSE c \in s.codes : TRUE
  OBVIOUS
<1>2. s \in SeedRequests /\ s # None /\ s.codes # {} /\ code \in s.codes
  BY <1>1, SeedingIs DEF SeedCode
<1>3. code \in CodesHere /\ s.op = "seed"
  BY <1>2 DEF SeedRequests
<1>4. code = CHOOSE c \in accSession[w].codes : TRUE
  BY <1>1
<1>5. \E row \in RowFor(accSession[w].stored[code], code) :
        IF RowWithCode(code) \subseteq {row}
        THEN /\ permRow' = [permRow EXCEPT ![row] = SeededRow(row, code)]
             /\ accSession' = [accSession EXCEPT ![w].codes = @ \ {code}, ![w].stored[code] = row]
        ELSE permRow' = permRow /\ accSession' = [accSession EXCEPT ![w] = None]
  BY ONLY SeedCode(w), <1>4 DEF SeedCode
<1>6. PICK row \in RowFor(accSession[w].stored[code], code) :
        \/ /\ RowWithCode(code) \subseteq {row}
           /\ permRow' = [permRow EXCEPT ![row] = SeededRow(row, code)]
           /\ accSession' = [accSession EXCEPT ![w].codes = @ \ {code}, ![w].stored[code] = row]
        \/ permRow' = permRow /\ accSession' = [accSession EXCEPT ![w] = None]
  BY ONLY <1>5
<1>7. ASSUME /\ RowWithCode(code) \subseteq {row}
             /\ permRow' = [permRow EXCEPT ![row] = SeededRow(row, code)]
             /\ accSession' = [accSession EXCEPT ![w].codes = @ \ {code}, ![w].stored[code] = row]
      PROVE  \E x : CodeSeeded(w, s, code, row, x)
  <2>1. PICK x : x = [s EXCEPT !.codes = s.codes \ {code}, !.stored = [s.stored EXCEPT ![code] = row]]
    OBVIOUS
  <2>2. accSession \in [Workers -> Maybe(Requests)]
    BY DEF SetupTyped, SessionsTyped
  <2>3. accSession' = [accSession EXCEPT ![w] = x]
    BY <1>1, <1>2, <1>7, <2>1, <2>2 DEF SeedRequests
  <2>4. row \in RowIds
    BY <1>1, <1>2, <1>3, <1>6, RowForIs DEF SeedRequests, Maybe
  <2>5. /\ x \in SeedRequests /\ x.op = "seed" /\ x.step = s.step /\ x.state = s.state
        /\ x.titles = s.titles /\ x.grants = s.grants
        /\ x.codes = s.codes \ {code} /\ x.stored = [s.stored EXCEPT ![code] = row]
    BY <1>2, <1>3, <2>1, <2>4 DEF SeedRequests, Maybe
  <2>. QED  BY <1>1, <1>6, <1>7, <2>3, <2>4, <2>5 DEF CodeSeeded, SeededRow
<1>8. UNCHANGED <<titleRows, granted, asked>> /\ s.titles = {}
  BY <1>1 DEF SeedCode
<1>. QED  BY <1>1, <1>2, <1>3, <1>6, <1>7, <1>8

(* What seeding the grants of a title does.                                *)
GrantsSeeded(w, s, title, rows, deleted, x) ==
  /\ title \in s.grants /\ rows \subseteq ExistingRows
  /\ deleted \subseteq GrantsOf(title, GrantedTo(title))
  /\ accMode.serial => deleted = GrantsOf(title, GrantedTo(title))
  /\ granted' = (granted \ deleted) \cup GrantsOf(title, rows)
  /\ asked' = [asked EXCEPT ![title] = rows]
  /\ x \in SeedRequests /\ x.op = "seed" /\ x.step = s.step /\ x.state = s.state
  /\ x.codes = s.codes /\ x.stored = s.stored
  /\ accSession' = [accSession EXCEPT ![w] = x]

(* Seeding the grants of a title ends the request or replaces them.        *)
LEMMA SeedGrantsDoes ==
  ASSUME SetupTyped, NEW w \in Workers, SeedGrants(w)
  PROVE  /\ UNCHANGED <<permRow, titleRows>> /\ IsSeeding(w)
         /\ accSession[w] # None /\ accSession[w] \in SeedRequests /\ accSession[w].op = "seed"
         /\ \/ UNCHANGED <<granted, asked>> /\ accSession' = [accSession EXCEPT ![w] = None]
            \/ \E title, rows, deleted, x :
                 GrantsSeeded(w, accSession[w], title, rows, deleted, x)
<1>1. PICK s, title : s = accSession[w] /\ title = CHOOSE t \in s.grants : TRUE
  OBVIOUS
<1>2. s \in SeedRequests /\ s # None /\ s.grants # {} /\ title \in s.grants /\ IsSeeding(w)
  BY <1>1, SeedingIs DEF SeedGrants
<1>3. PICK x : x = [s EXCEPT !.grants = s.grants \ {title}]
  OBVIOUS
<1>4. /\ x \in SeedRequests /\ x.op = "seed" /\ x.step = s.step /\ x.state = s.state
      /\ x.codes = s.codes /\ x.stored = s.stored /\ s.op = "seed"
  BY <1>2, <1>3 DEF SeedRequests
<1>5. PICK rows : rows = RowsOfCodes(RoleMatrix[title] \cap CodesHere)
  OBVIOUS
<1>6. rows \subseteq ExistingRows
  BY <1>5 DEF RowsOfCodes
<1>7. PICK there : there = GrantsOf(title, GrantedTo(title))
  OBVIOUS
<1>8. PICK deleted \in IF accMode.serial THEN {there} ELSE SUBSET there :
        \/ UNCHANGED <<granted, asked>> /\ accSession' = [accSession EXCEPT ![w] = None]
        \/ /\ granted' = Replaced(deleted, title, rows)
           /\ asked' = [asked EXCEPT ![title] = rows]
           /\ accSession' = [accSession EXCEPT ![w].grants = @ \ {title}]
  BY <1>1, <1>5, <1>7 DEF SeedGrants
<1>9. accSession' = [accSession EXCEPT ![w].grants = @ \ {title}] =>
        accSession' = [accSession EXCEPT ![w] = x]
  BY <1>1, <1>3
<1>10. deleted \subseteq there /\ (accMode.serial => deleted = there)
  BY <1>8
<1>11. UNCHANGED <<permRow, titleRows>>
  BY DEF SeedGrants
<1>12. CASE /\ granted' = Replaced(deleted, title, rows)
            /\ asked' = [asked EXCEPT ![title] = rows]
            /\ accSession' = [accSession EXCEPT ![w].grants = @ \ {title}]
  <2>1. GrantsSeeded(w, s, title, rows, deleted, x)
    BY <1>2, <1>4, <1>6, <1>7, <1>9, <1>10, <1>12 DEF GrantsSeeded, Replaced
  <2>. QED  BY <1>1, <1>2, <1>4, <1>11, <2>1
<1>. QED  BY <1>1, <1>2, <1>4, <1>8, <1>11, <1>12

(* Seeding keeps the types.                                                *)
LEMMA SeedingTyped ==
  ASSUME SetupTyped, NEW w \in Workers, UNCHANGED <<accMode, WizardTables>>,
         \/ EnsureCanonicalPermissions(w) \/ SeedTitle(w) \/ SeedCode(w) \/ SeedGrants(w)
         \/ EndRepair(w) \/ BreakOff(w)
  PROVE  SetupTyped'
<1>1. /\ permRow \in [RowIds -> Maybe(PermissionRows(accMode.codes))]
      /\ titleRows \subseteq accMode.titles /\ granted \subseteq accMode.titles \X RowIds
      /\ asked \in [accMode.titles -> SUBSET RowIds]
  BY DEF SetupTyped, TablesTyped
<1>2. CASE EnsureCanonicalPermissions(w)
  <2>1. PICK grants \in {{}, accMode.titles} :
          accSession' = [accSession EXCEPT ![w] =
            Seeding(0, accMode.titles, CodesHere, grants, NothingStored, None)]
    BY <1>2 DEF EnsureCanonicalPermissions
  <2>2. PICK x : x = Seeding(0, accMode.titles, CodesHere, grants, NothingStored, None)
    OBVIOUS
  <2>3. x \in SeedRequests /\ x.op = "seed" /\ x.step = 0
    BY <2>2 DEF SeedRequests, Seeding, NothingStored, Maybe
  <2>4. x \in Maybe(Requests) /\ Prepared(x)'
    BY <2>3 DEF Requests, Maybe, Prepared, ShortOps
  <2>. QED  BY <1>1, <1>2, <2>1, <2>2, <2>4, AccessKeepsTypes DEF EnsureCanonicalPermissions, permissionVars
<1>3. ASSUME IsSeeding(w), NEW x \in SeedRequests, x.step = accSession[w].step,
             x.state = accSession[w].state
      PROVE  x \in Maybe(Requests) /\ (x # None => Prepared(x)')
  <2>1. x.op = "seed"
    BY DEF SeedRequests
  <2>2. x.step # 0 => x.state \in WizardStates /\ UnitsThere(x.state)
    BY <1>3 DEF SetupTyped, SessionsPrepared, Prepared, IsSeeding
  <2>3. Prepared(x)'
    BY <2>1, <2>2, ModeKeeps DEF Prepared, ShortOps, UnitsThere, StoredUnits, WizardTables
  <2>. QED  BY <2>3 DEF Requests, Maybe
<1>4. CASE SeedTitle(w)
  <2>1. PICK s, title : s = accSession[w] /\ title = CHOOSE t \in s.titles : TRUE
    OBVIOUS
  <2>2. s \in SeedRequests /\ s # None /\ s.titles # {} /\ title \in s.titles
    BY <1>4, <2>1, SeedingIs DEF SeedTitle
  <2>3. PICK x : x = [s EXCEPT !.titles = s.titles \ {title}]
    OBVIOUS
  <2>4. x \in SeedRequests /\ x.step = s.step /\ x.state = s.state
    BY <2>2, <2>3 DEF SeedRequests
  <2>5. accSession' = [accSession EXCEPT ![w] = x]
    BY <1>4, <2>1, <2>3 DEF SeedTitle
  <2>6. titleRows' \subseteq accMode.titles
    BY <1>1, <1>4, <2>1, <2>2 DEF SeedTitle, SeedRequests
  <2>. QED  BY <1>1, <1>3, <1>4, <2>1, <2>2, <2>4, <2>5, <2>6, AccessKeepsTypes DEF SeedTitle
<1>5. CASE SeedCode(w)
  <2>1. PICK s : s = accSession[w]
    OBVIOUS
  <2>2. /\ UNCHANGED <<titleRows, granted, asked>> /\ s \in SeedRequests /\ s # None
        /\ \E code \in s.codes :
             \/ permRow' = permRow /\ accSession' = [accSession EXCEPT ![w] = None]
             \/ \E row, x : CodeSeeded(w, s, code, row, x)
    BY <1>5, <2>1, SeedCodeDoes
  <2>3. CASE permRow' = permRow /\ accSession' = [accSession EXCEPT ![w] = None]
    BY <1>1, <2>1, <2>2, <2>3, AccessKeepsTypes DEF Maybe
  <2>4. ASSUME NEW code \in s.codes, NEW row, NEW x, CodeSeeded(w, s, code, row, x)
        PROVE  SetupTyped'
    <3>1. code \in accMode.codes
      BY <2>2 DEF SeedRequests, CodesHere
    <3>2. PermissionRow(code, TRUE) \in PermissionRows(accMode.codes)
      BY <3>1 DEF PermissionRow, PermissionRows
    <3>3. permRow' \in [RowIds -> Maybe(PermissionRows(accMode.codes))]
      BY <1>1, <2>4, <3>2 DEF CodeSeeded, Maybe
    <3>4. x \in Maybe(Requests) /\ (x # None => Prepared(x)')
      BY <1>3, <1>5, <2>1, <2>4 DEF CodeSeeded, SeedCode
    <3>. QED  BY <1>1, <2>1, <2>2, <2>4, <3>3, <3>4, AccessKeepsTypes DEF CodeSeeded
  <2>. QED  BY <2>2, <2>3, <2>4
<1>6. CASE SeedGrants(w)
  <2>1. PICK s : s = accSession[w]
    OBVIOUS
  <2>2. /\ UNCHANGED <<permRow, titleRows>> /\ IsSeeding(w) /\ s # None /\ s \in SeedRequests
        /\ \/ UNCHANGED <<granted, asked>> /\ accSession' = [accSession EXCEPT ![w] = None]
           \/ \E title, rows, deleted, x : GrantsSeeded(w, s, title, rows, deleted, x)
    BY <1>6, <2>1, SeedGrantsDoes
  <2>3. CASE UNCHANGED <<granted, asked>> /\ accSession' = [accSession EXCEPT ![w] = None]
    BY <1>1, <2>1, <2>2, <2>3, AccessKeepsTypes DEF Maybe
  <2>4. ASSUME NEW title, NEW rows, NEW deleted, NEW x,
               GrantsSeeded(w, s, title, rows, deleted, x)
        PROVE  SetupTyped'
    <3>1. rows \subseteq RowIds /\ title \in accMode.titles
      BY <2>2, <2>4 DEF GrantsSeeded, ExistingRows, SeedRequests
    <3>2. granted' \subseteq accMode.titles \X RowIds /\ asked' \in [accMode.titles -> SUBSET RowIds]
      BY <1>1, <2>4, <3>1 DEF GrantsSeeded, GrantsOf
    <3>3. /\ x \in SeedRequests /\ x.step = s.step /\ x.state = s.state
          /\ accSession' = [accSession EXCEPT ![w] = x]
      BY <2>4 DEF GrantsSeeded
    <3>4. x \in Maybe(Requests) /\ (x # None => Prepared(x)')
      BY <1>3, <2>1, <2>2, <3>3
    <3>. QED  BY <1>1, <2>1, <2>2, <3>2, <3>3, <3>4, AccessKeepsTypes
  <2>. QED  BY <2>2, <2>3, <2>4
<1>7. CASE EndRepair(w) \/ BreakOff(w)
  <2>1. /\ accSession[w] # None /\ accSession' = [accSession EXCEPT ![w] = None]
        /\ UNCHANGED <<permRow, titleRows, granted, asked>>
    BY <1>7 DEF EndRepair, BreakOff, Seeded, IsSeeding, permissionVars
  <2>. QED  BY <1>1, <2>1, AccessKeepsTypes DEF Maybe
<1>. QED  BY <1>2, <1>4, <1>5, <1>6, <1>7

(* Editing the catalog keeps the types.                                    *)
LEMMA EditTyped ==
  ASSUME SetupTyped, NEW w \in Workers, UNCHANGED <<accMode, WizardTables>>,
         \/ \E code \in accMode.codes : CreatePermission(w, code)
         \/ \E r \in ExistingRows, code \in accMode.codes, active \in BOOLEAN :
              UpdatePermission(w, r, code, active)
  PROVE  SetupTyped'
<1>1. /\ permRow \in [RowIds -> Maybe(PermissionRows(accMode.codes))]
      /\ UNCHANGED <<titleRows, granted, asked, accSession>>
      /\ \E r \in RowIds, code \in accMode.codes, active \in BOOLEAN :
           permRow' = [permRow EXCEPT ![r] = PermissionRow(code, active)]
  BY DEF SetupTyped, TablesTyped, CreatePermission, UpdatePermission, OneOf, FreeRows, ExistingRows
<1>2. permRow' \in [RowIds -> Maybe(PermissionRows(accMode.codes))]
  BY <1>1 DEF PermissionRow, PermissionRows, Maybe
<1>3. UNCHANGED <<accMode, installed, wizard, unit, staff>>
  BY DEF WizardTables
<1>4. TablesTyped'
  BY <1>1, <1>2, <1>3, ModeKeeps DEF SetupTyped, TablesTyped
<1>5. SessionsTyped' /\ UnitsThere(wizard)'
  BY <1>1, <1>3, ModeKeeps DEF SetupTyped, SessionsTyped, TheWorker, UnitsThere, StoredUnits
<1>6. SessionsPrepared'
  BY <1>1, <1>3, ModeKeeps DEF SetupTyped, SessionsPrepared, Prepared, UnitsThere, StoredUnits,
     OrganizationThere
<1>. QED  BY <1>4, <1>5, <1>6 DEF SetupTyped

(* The same of a session of the wizard, which only adds units.             *)
LEMMA WizardKeepsTypes ==
  ASSUME SetupTyped, NEW w \in Workers, NEW x, UNCHANGED <<accMode, AccessTables>>,
         accSession' = [accSession EXCEPT ![w] = x],
         accSession[w] # None \/ MayServe(accSession, w, accMode.serial) \/ x = None,
         \A u \in UnitIds : unit[u] # None => unit'[u] # None,
         x \in Maybe(Requests), x # None => Prepared(x)',
         installed' \in BOOLEAN, wizard' \in WizardStates, UnitsThere(wizard)',
         unit' \in [UnitIds -> Maybe(UnitRows)], staff' \in [StaffIds -> Maybe(StaffRows)]
  PROVE  SetupTyped'
<1>1. UNCHANGED <<accMode, permRow, titleRows, granted, asked>>
  BY DEF AccessTables
<1>2. SessionsTyped' /\ SessionsPrepared'
  BY <1>1, SessionsGoOn
<1>3. TablesTyped'
  BY <1>1, ModeKeeps DEF SetupTyped, TablesTyped
<1>. QED  BY <1>2, <1>3 DEF SetupTyped

(* The beginning of a step of the wizard.                                  *)
LEMMA BeginningTyped ==
  ASSUME SetupTyped, NEW w \in Workers, UNCHANGED accMode,
         \/ \E payload \in UnitPayloads : BeginOrganization(w, payload)
         \/ \E payload \in StaffPayloads : BeginStaff(w, payload)
         \/ BeginTitles(w) \/ BeginCodes(w) \/ BeginGrants(w)
  PROVE  SetupTyped'
<1>1. /\ installed \in BOOLEAN /\ wizard \in WizardStates /\ UnitsThere(wizard)
      /\ unit \in [UnitIds -> Maybe(UnitRows)] /\ staff \in [StaffIds -> Maybe(StaffRows)]
  BY DEF SetupTyped, TablesTyped
<1>2. ASSUME NEW x, Serve(w, x), x \in Requests, Prepared(x)  PROVE SetupTyped'
  <2>1. /\ MayServe(accSession, w, accMode.serial) /\ accSession' = [accSession EXCEPT ![w] = x]
        /\ UNCHANGED <<permRow, titleRows, granted, asked, installed, wizard, unit, staff>>
    BY <1>2 DEF Serve, permissionVars, tableVars
  <2>2. Prepared(x)' /\ UnitsThere(wizard)'
    BY <1>1, <1>2, <2>1, ModeKeeps DEF Prepared, UnitsThere, OrganizationThere, StoredUnits
  <2>. QED  BY <1>1, <1>2, <2>1, <2>2, WizardKeepsTypes DEF AccessTables, Maybe
<1>3. ASSUME NEW payload \in UnitPayloads, BeginOrganization(w, payload)  PROVE SetupTyped'
  <2>1. PICK x : x = [op |-> "units", next |-> 0, ask |-> payload, state |-> wizard]
    OBVIOUS
  <2>2. x \in UnitRequests /\ x.op = "units" /\ x.state = wizard
    BY <1>1, <2>1 DEF UnitRequests
  <2>3. x \in Requests /\ Prepared(x)
    BY <1>1, <2>2 DEF Requests, Prepared
  <2>. QED  BY <1>2, <1>3, <2>1, <2>3 DEF BeginOrganization
<1>4. ASSUME NEW payload \in StaffPayloads, BeginStaff(w, payload)  PROVE SetupTyped'
  <2>1. PICK x : x = [op |-> "staff", next |-> 1, ask |-> payload, state |-> wizard,
                      made |-> [r \in Roles |-> None]]
    OBVIOUS
  <2>2. x \in StaffRequests /\ x.op = "staff" /\ x.state = wizard
    BY <1>1, <2>1 DEF StaffRequests, Maybe
  <2>3. x \in Requests /\ Prepared(x)
    BY <1>1, <1>4, <2>2 DEF Requests, Prepared, BeginStaff
  <2>. QED  BY <1>2, <1>4, <2>1, <2>3 DEF BeginStaff
<1>5. ASSUME NEW step \in {3, 4, 5}, NEW titles \in SUBSET accMode.titles,
             NEW codes \in SUBSET CodesHere, NEW grants \in SUBSET accMode.titles,
             NEW stored \in [CodesHere -> Maybe(RowIds)],
             Serve(w, Seeding(step, titles, codes, grants, stored, wizard))
      PROVE  SetupTyped'
  <2>1. PICK x : x = Seeding(step, titles, codes, grants, stored, wizard)
    OBVIOUS
  <2>2. x \in SeedRequests /\ x.op = "seed" /\ x.state = wizard
    BY <1>1, <2>1 DEF SeedRequests, Seeding, Maybe
  <2>3. x \in Requests /\ Prepared(x)
    BY <1>1, <2>2 DEF Requests, Prepared
  <2>. QED  BY <1>2, <1>5, <2>1, <2>3
<1>6. NothingStored \in [CodesHere -> Maybe(RowIds)] /\ wizard.codes \in [CodesHere -> Maybe(RowIds)]
  BY <1>1 DEF NothingStored, Maybe, WizardStates
<1>7. CASE BeginTitles(w)
  BY <1>5, <1>6, <1>7 DEF BeginTitles
<1>8. CASE BeginCodes(w)
  BY <1>5, <1>6, <1>8 DEF BeginCodes
<1>9. CASE BeginGrants(w)
  BY <1>5, <1>6, <1>9 DEF BeginGrants
<1>. QED  BY <1>3, <1>4, <1>7, <1>8, <1>9

(* The unit a payload is saved as: the remembered one, which is there, one *)
(* with its code or a free one.                                            *)
LEMMA UnitForIs ==
  ASSUME NEW stored \in Maybe(UnitIds), NEW kind, NEW code, NEW u \in UnitFor(stored, kind, code)
  PROVE  /\ u \in UnitIds
         /\ stored # None => u = stored
         /\ stored = None => \/ unit[u] # None /\ unit[u].kind = kind /\ unit[u].code = code
                             \/ unit[u] = None
BY DEF UnitFor, OneOf, UnitsWithCode, FreeUnits, Maybe

(* What saving a unit does.                                                *)
UnitSaved(w, s, u, kind, code, parent, state) ==
  /\ u \in UnitFor(IF s.next = 0 THEN s.state.department ELSE s.state.teams[s.next], kind, code)
  /\ kind = (IF s.next = 0 THEN "department" ELSE "team")
  /\ code = (IF s.next = 0 THEN s.ask.department ELSE s.ask.teams[s.next])
  /\ parent = (IF s.next = 0 THEN None ELSE s.state.department)
  /\ state = (IF s.next = 0 THEN [s.state EXCEPT !.department = u]
              ELSE [s.state EXCEPT !.teams = [s.state.teams EXCEPT ![s.next] = u]])
  /\ UnitsWithCode(kind, code) \subseteq {u}
  /\ unit' = [unit EXCEPT ![u] = UnitRow(u, kind, code, parent)]
  /\ accSession' = [accSession EXCEPT ![w] = [s EXCEPT !.next = s.next + 1, !.state = state]]

(* Saving a unit ends the request or writes one unit and remembers it.     *)
LEMMA SaveUnitDoes ==
  ASSUME SetupTyped, NEW w \in Workers, SaveUnit(w)
  PROVE  /\ UNCHANGED <<permissionVars, installed, wizard, staff>>
         /\ accSession[w] # None /\ accSession[w] \in UnitRequests /\ accSession[w].op = "units"
         /\ accSession[w].next \in {0, 1, 2}
         /\ \/ unit' = unit /\ accSession' = [accSession EXCEPT ![w] = None]
            \/ \E u, kind, code, parent, state :
                 UnitSaved(w, accSession[w], u, kind, code, parent, state)
<1>1. PICK s : s = accSession[w]
  OBVIOUS
<1>2. /\ s # None /\ s.op = "units" /\ s.next \in {0} \cup Slots
      /\ UNCHANGED <<permissionVars, installed, wizard, staff>>
  BY <1>1 DEF SaveUnit, Running
<1>3. s \in UnitRequests
  BY <1>1, <1>2, RequestOf DEF SetupTyped, SessionsTyped, Maybe
<1>4. accSession \in [Workers -> Maybe(Requests)]
  BY DEF SetupTyped, SessionsTyped
<1>5. s.next \in {0, 1, 2}
  BY <1>2 DEF Slots
<1>6. PICK kind, code, stored, parent :
        /\ kind = (IF s.next = 0 THEN "department" ELSE "team")
        /\ code = (IF s.next = 0 THEN s.ask.department ELSE s.ask.teams[s.next])
        /\ stored = (IF s.next = 0 THEN s.state.department ELSE s.state.teams[s.next])
        /\ parent = (IF s.next = 0 THEN None ELSE s.state.department)
  OBVIOUS
<1>7. \E u \in UnitFor(stored, kind, code) :
        IF UnitsWithCode(kind, code) \subseteq {u}
        THEN /\ unit' = [unit EXCEPT ![u] = UnitRow(u, kind, code, parent)]
             /\ accSession' = [accSession EXCEPT ![w].next = @ + 1,
                  ![w].state = IF s.next = 0 THEN [@ EXCEPT !.department = u]
                               ELSE [@ EXCEPT !.teams[s.next] = u]]
        ELSE unit' = unit /\ accSession' = [accSession EXCEPT ![w] = None]
  BY <1>1, <1>6 DEF SaveUnit
<1>8. PICK u \in UnitFor(stored, kind, code) :
        \/ /\ UnitsWithCode(kind, code) \subseteq {u}
           /\ unit' = [unit EXCEPT ![u] = UnitRow(u, kind, code, parent)]
           /\ accSession' = [accSession EXCEPT ![w].next = @ + 1,
                ![w].state = IF s.next = 0 THEN [@ EXCEPT !.department = u]
                             ELSE [@ EXCEPT !.teams[s.next] = u]]
        \/ unit' = unit /\ accSession' = [accSession EXCEPT ![w] = None]
  BY ONLY <1>7
<1>9. ASSUME /\ UnitsWithCode(kind, code) \subseteq {u}
             /\ unit' = [unit EXCEPT ![u] = UnitRow(u, kind, code, parent)]
             /\ accSession' = [accSession EXCEPT ![w].next = @ + 1,
                  ![w].state = IF s.next = 0 THEN [@ EXCEPT !.department = u]
                               ELSE [@ EXCEPT !.teams[s.next] = u]]
      PROVE  \E state : UnitSaved(w, s, u, kind, code, parent, state)
  <2>1. PICK state : state = (IF s.next = 0 THEN [s.state EXCEPT !.department = u]
                       ELSE [s.state EXCEPT !.teams = [s.state.teams EXCEPT ![s.next] = u]])
    OBVIOUS
  <2>2. s.state \in WizardStates
    BY <1>3 DEF UnitRequests
  <2>3. CASE s.next = 0
    <3>1. accSession' = [accSession EXCEPT ![w].next = @ + 1,
                  ![w].state = [@ EXCEPT !.department = u]]
      BY ONLY <1>9, <2>3
    <3>2. accSession' = [accSession EXCEPT ![w] = [s EXCEPT !.next = s.next + 1, !.state = state]]
      BY <1>1, <1>3, <1>4, <2>1, <2>3, <3>1 DEF UnitRequests
    <3>. QED  BY <1>6, <1>8, <1>9, <2>1, <3>2 DEF UnitSaved
  <2>4. CASE s.next # 0
    <3>1. accSession' = [accSession EXCEPT ![w].next = @ + 1,
                  ![w].state = [@ EXCEPT !.teams[s.next] = u]]
      BY ONLY <1>9, <2>4
    <3>2. accSession' = [accSession EXCEPT ![w] = [s EXCEPT !.next = s.next + 1, !.state = state]]
      BY <1>1, <1>3, <1>4, <2>1, <2>2, <2>4, <3>1 DEF UnitRequests, WizardStates
    <3>. QED  BY <1>6, <1>8, <1>9, <2>1, <3>2 DEF UnitSaved
  <2>. QED  BY <2>3, <2>4
<1>. QED  BY <1>1, <1>2, <1>3, <1>5, <1>8, <1>9

(* Saving a unit keeps the types.                                          *)
LEMMA SaveUnitTyped ==
  ASSUME SetupTyped, NEW w \in Workers, UNCHANGED accMode, SaveUnit(w)
  PROVE  SetupTyped'
<1>1. /\ installed \in BOOLEAN /\ wizard \in WizardStates /\ UnitsThere(wizard)
      /\ unit \in [UnitIds -> Maybe(UnitRows)] /\ staff \in [StaffIds -> Maybe(StaffRows)]
  BY DEF SetupTyped, TablesTyped
<1>2. PICK s : s = accSession[w]
  OBVIOUS
<1>3. /\ UNCHANGED <<permRow, titleRows, granted, asked, installed, wizard, staff>>
      /\ s # None /\ s \in UnitRequests /\ s.op = "units" /\ s.next \in {0, 1, 2}
  BY <1>2, SaveUnitDoes DEF permissionVars
<1>4. CASE unit' = unit /\ accSession' = [accSession EXCEPT ![w] = None]
  <2>1. UnitsThere(wizard)'
    BY <1>1, <1>3, <1>4 DEF UnitsThere, StoredUnits
  <2>. QED  BY <1>1, <1>2, <1>3, <1>4, <2>1, WizardKeepsTypes DEF AccessTables, Maybe
<1>5. ASSUME NEW u, NEW kind, NEW code, NEW parent, NEW state,
             UnitSaved(w, s, u, kind, code, parent, state)
      PROVE  SetupTyped'
  <2>1. s.state \in WizardStates /\ s.ask \in UnitPayloads /\ UnitsThere(s.state)
    BY <1>2, <1>3 DEF UnitRequests, SetupTyped, SessionsPrepared, Prepared
  <2>2. /\ s.state.department \in Maybe(UnitIds) /\ s.state.teams \in [Slots -> Maybe(UnitIds)]
        /\ (s.next # 0 => s.next \in Slots)
    BY <1>3, <2>1 DEF WizardStates, Slots
  <2>3. u \in UnitIds
    BY <1>5, <2>2, UnitForIs DEF UnitSaved
  <2>4. /\ kind \in {"department", "team"} /\ code \in STRING /\ parent \in Maybe(UnitIds)
    BY <1>5, <2>1, <2>2, UnitPayloadsAreTyped DEF UnitSaved, Maybe, Slots
  <2>5. HeadOf(u) \in Maybe(StaffIds)
    BY <1>1, <2>3 DEF HeadOf, Maybe, UnitRows
  <2>6. UnitRow(u, kind, code, parent) \in UnitRows
    BY <2>4, <2>5 DEF UnitRow, UnitRows
  <2>7. PICK row : row = UnitRow(u, kind, code, parent)
    OBVIOUS
  <2>8. unit' = [unit EXCEPT ![u] = row] /\ row \in UnitRows /\ row # None
    BY <1>5, <2>6, <2>7, UnitPayloadsAreTyped DEF UnitSaved
  <2>9. /\ unit' \in [UnitIds -> Maybe(UnitRows)]
        /\ \A v \in UnitIds : unit[v] # None => unit'[v] # None
        /\ unit'[u] # None
    BY <1>1, <2>3, <2>8 DEF Maybe
  <2>10. state \in WizardStates
    BY <1>5, <2>1, <2>2, <2>3 DEF UnitSaved, WizardStates, Maybe
  <2>11. StoredUnits(state) \subseteq StoredUnits(s.state) \cup {u}
    BY <1>5, <2>1, <2>2 DEF UnitSaved, WizardStates, StoredUnits
  <2>12. UnitsThere(state)'
    BY <2>1, <2>9, <2>11 DEF UnitsThere, StoredUnits
  <2>13. PICK x : x = [s EXCEPT !.next = s.next + 1, !.state = state]
    OBVIOUS
  <2>14. x \in UnitRequests /\ x.op = "units" /\ x.state = state
    <3>1. PICK n : n = s.next + 1
      OBVIOUS
    <3>2. n \in 0..3 /\ x = [s EXCEPT !.next = n, !.state = state]
      BY <1>3, <2>13, <3>1
    <3>. QED  BY <1>3, <2>10, <3>2 DEF UnitRequests
  <2>15. x \in Maybe(Requests) /\ Prepared(x)'
    BY <2>12, <2>14 DEF Requests, Maybe, Prepared
  <2>16. accSession' = [accSession EXCEPT ![w] = x]
    BY <1>5, <2>13 DEF UnitSaved
  <2>17. UnitsThere(wizard)'
    BY <1>1, <1>3, <2>9 DEF UnitsThere, StoredUnits
  <2>. QED  BY <1>1, <1>2, <1>3, <2>9, <2>15, <2>16, <2>17, WizardKeepsTypes DEF AccessTables
<1>. QED  BY <1>2, <1>4, <1>5, SaveUnitDoes

(* The employee a role gets: the remembered one, else a new one.           *)
LEMMA EmployeeForIs ==
  ASSUME NEW stored \in Maybe(StaffIds), NEW e \in EmployeeFor(stored)
  PROVE  /\ e \in StaffIds
         /\ stored # None => e = stored
         /\ stored = None => staff[e] = None
BY DEF EmployeeFor, OneOf, Maybe

(* What saving an employee does.                                           *)
EmployeeSaved(w, s, e, row, x) ==
  /\ e \in EmployeeFor(s.state.users[s.next])
  /\ HoldersOf(s.ask[s.next]) \subseteq {e}
  /\ row = [matricule |-> s.ask[s.next], role |-> RoleTitle[s.next],
            team |-> TeamFor(s.state, s.next)]
  /\ staff' = [staff EXCEPT ![e] = row]
  /\ x = [s EXCEPT !.next = s.next + 1, !.made = [s.made EXCEPT ![s.next] = e]]
  /\ accSession' = [accSession EXCEPT ![w] = x]

(* Saving an employee ends the request or writes one employee.             *)
LEMMA SaveEmployeeDoes ==
  ASSUME SetupTyped, NEW w \in Workers, SaveEmployee(w)
  PROVE  /\ UNCHANGED <<permissionVars, installed, wizard, unit>>
         /\ accSession[w] # None /\ accSession[w] \in StaffRequests /\ accSession[w].op = "staff"
         /\ accSession[w].next \in Roles
         /\ \/ staff' = staff /\ accSession' = [accSession EXCEPT ![w] = None]
            \/ \E e, row, x : EmployeeSaved(w, accSession[w], e, row, x)
<1>1. PICK s : s = accSession[w]
  OBVIOUS
<1>2. /\ s # None /\ s.op = "staff" /\ s.next \in Roles
      /\ UNCHANGED <<permissionVars, installed, wizard, unit>>
  BY <1>1 DEF SaveEmployee, Running
<1>3. s \in StaffRequests
  BY <1>1, <1>2, RequestOf DEF SetupTyped, SessionsTyped, Maybe
<1>4. accSession \in [Workers -> Maybe(Requests)]
  BY DEF SetupTyped, SessionsTyped
<1>5. \E e \in EmployeeFor(s.state.users[s.next]) :
        IF HoldersOf(s.ask[s.next]) \subseteq {e} /\ s.ask[s.next] \notin TakenMatricules
        THEN /\ staff' = [staff EXCEPT ![e] = [matricule |-> s.ask[s.next],
                            role |-> RoleTitle[s.next], team |-> TeamFor(s.state, s.next)]]
             /\ accSession' = [accSession EXCEPT ![w].next = @ + 1, ![w].made[s.next] = e]
        ELSE staff' = staff /\ accSession' = [accSession EXCEPT ![w] = None]
  BY <1>1 DEF SaveEmployee
<1>6. PICK e \in EmployeeFor(s.state.users[s.next]) :
        \/ /\ HoldersOf(s.ask[s.next]) \subseteq {e}
           /\ staff' = [staff EXCEPT ![e] = [matricule |-> s.ask[s.next],
                          role |-> RoleTitle[s.next], team |-> TeamFor(s.state, s.next)]]
           /\ accSession' = [accSession EXCEPT ![w].next = @ + 1, ![w].made[s.next] = e]
        \/ staff' = staff /\ accSession' = [accSession EXCEPT ![w] = None]
  BY ONLY <1>5
<1>7. ASSUME /\ HoldersOf(s.ask[s.next]) \subseteq {e}
             /\ staff' = [staff EXCEPT ![e] = [matricule |-> s.ask[s.next],
                            role |-> RoleTitle[s.next], team |-> TeamFor(s.state, s.next)]]
             /\ accSession' = [accSession EXCEPT ![w].next = @ + 1, ![w].made[s.next] = e]
      PROVE  \E row, x : EmployeeSaved(w, s, e, row, x)
  <2>1. PICK row, x :
          /\ row = [matricule |-> s.ask[s.next], role |-> RoleTitle[s.next],
                    team |-> TeamFor(s.state, s.next)]
          /\ x = [s EXCEPT !.next = s.next + 1, !.made = [s.made EXCEPT ![s.next] = e]]
    OBVIOUS
  <2>2. accSession' = [accSession EXCEPT ![w] = x]
    BY <1>1, <1>3, <1>4, <1>7, <2>1 DEF StaffRequests
  <2>. QED  BY <1>6, <1>7, <2>1, <2>2 DEF EmployeeSaved
<1>. QED  BY <1>1, <1>2, <1>3, <1>6, <1>7

(* Saving an employee keeps the types.                                     *)
LEMMA SaveEmployeeTyped ==
  ASSUME SetupTyped, NEW w \in Workers, UNCHANGED accMode, SaveEmployee(w)
  PROVE  SetupTyped'
<1>1. /\ installed \in BOOLEAN /\ wizard \in WizardStates /\ UnitsThere(wizard)
      /\ unit \in [UnitIds -> Maybe(UnitRows)] /\ staff \in [StaffIds -> Maybe(StaffRows)]
  BY DEF SetupTyped, TablesTyped
<1>2. PICK s : s = accSession[w]
  OBVIOUS
<1>3. /\ UNCHANGED <<permRow, titleRows, granted, asked, installed, wizard, unit>>
      /\ s # None /\ s \in StaffRequests /\ s.op = "staff" /\ s.next \in Roles
  BY <1>2, SaveEmployeeDoes DEF permissionVars
<1>4. UnitsThere(wizard)'
  BY <1>1, <1>3 DEF UnitsThere, StoredUnits
<1>5. CASE staff' = staff /\ accSession' = [accSession EXCEPT ![w] = None]
  BY <1>1, <1>2, <1>3, <1>4, <1>5, WizardKeepsTypes DEF AccessTables, Maybe
<1>6. ASSUME NEW e, NEW row, NEW x, EmployeeSaved(w, s, e, row, x)
      PROVE  SetupTyped'
  <2>1. /\ s.state \in WizardStates /\ s.ask \in StaffPayloads
        /\ UnitsThere(s.state) /\ OrganizationThere(s.state)
    BY <1>2, <1>3 DEF StaffRequests, SetupTyped, SessionsPrepared, Prepared
  <2>2. e \in StaffIds
    BY <1>3, <1>6, <2>1, EmployeeForIs DEF EmployeeSaved, WizardStates
  <2>3. TeamFor(s.state, s.next) \in Maybe(UnitIds)
    BY <1>3, <2>1 DEF TeamFor, RoleSlot, WizardStates, Roles, Slots, Maybe
  <2>4. RoleTitle[s.next] \in {RoleTitle[r] : r \in Roles}
    BY <1>3
  <2>5. row \in StaffRows
    BY <1>3, <1>6, <2>1, <2>3, <2>4 DEF EmployeeSaved, StaffRows, Roles
  <2>6. staff' \in [StaffIds -> Maybe(StaffRows)]
    BY <1>1, <1>6, <2>5 DEF EmployeeSaved, Maybe
  <2>7. x \in StaffRequests /\ x.op = "staff" /\ x.state = s.state
    <3>1. PICK n, made : n = s.next + 1 /\ made = [s.made EXCEPT ![s.next] = e]
      OBVIOUS
    <3>2. n \in 1..6 /\ made \in [Roles -> Maybe(StaffIds)]
      BY <1>3, <2>2, <3>1 DEF Roles, StaffRequests, Maybe
    <3>3. x = [s EXCEPT !.next = n, !.made = made]
      BY <1>6, <3>1 DEF EmployeeSaved
    <3>. QED  BY <1>3, <3>2, <3>3 DEF StaffRequests
  <2>8. UnitsThere(x.state)' /\ OrganizationThere(x.state)
    BY <1>3, <2>1, <2>7 DEF UnitsThere, StoredUnits
  <2>9. x \in Maybe(Requests) /\ Prepared(x)'
    BY <2>7, <2>8 DEF Requests, Maybe, Prepared, OrganizationThere, StoredUnits
  <2>10. accSession' = [accSession EXCEPT ![w] = x]
    BY <1>6 DEF EmployeeSaved
  <2>. QED  BY <1>1, <1>2, <1>3, <1>4, <2>6, <2>9, <2>10, WizardKeepsTypes DEF AccessTables
<1>. QED  BY <1>2, <1>5, <1>6, SaveEmployeeDoes

(* Raising the last step leaves the rest of the progress alone.            *)
LEMMA AtLeastIs ==
  ASSUME NEW state \in WizardStates, NEW step \in 0..7
  PROVE  /\ AtLeast(state, step) \in WizardStates
         /\ AtLeast(state, step).department = state.department
         /\ AtLeast(state, step).teams = state.teams
         /\ AtLeast(state, step).codes = state.codes
         /\ AtLeast(state, step).users = state.users
         /\ AtLeast(state, step).last >= state.last
         /\ AtLeast(state, step).last \in {state.last, step}
BY DEF AtLeast, WizardStates

(* What the leadership step does.                                          *)
LEMMA SyncLeadershipDoes ==
  ASSUME SetupTyped, NEW w \in Workers, SyncLeadership(w)
  PROVE  /\ UNCHANGED <<permissionVars, installed, wizard, staff>>
         /\ accSession[w] # None /\ accSession[w] \in StaffRequests /\ accSession[w].op = "staff"
         /\ accSession[w].next = 5
         /\ accSession' = [accSession EXCEPT ![w] = [accSession[w] EXCEPT !.next = 6]]
         /\ unit' \in [UnitIds -> Maybe(UnitRows)]
         /\ \A u \in UnitIds :
              /\ u \notin StoredUnits(accSession[w].state) => unit'[u] = unit[u]
              /\ u \in StoredUnits(accSession[w].state) =>
                   /\ unit[u] \in UnitRows
                   /\ unit'[u] = [unit[u] EXCEPT !.head =
                        accSession[w].made[LeaderRole(accSession[w].state, u)]]
<1>1. PICK s : s = accSession[w]
  OBVIOUS
<1>2. /\ s # None /\ s.op = "staff" /\ s.next = 5
      /\ UNCHANGED <<permissionVars, installed, wizard, staff>>
  BY <1>1 DEF SyncLeadership, Running
<1>3. s \in StaffRequests
  BY <1>1, <1>2, RequestOf DEF SetupTyped, SessionsTyped, Maybe
<1>4. accSession \in [Workers -> Maybe(Requests)] /\ unit \in [UnitIds -> Maybe(UnitRows)]
  BY DEF SetupTyped, SessionsTyped, TablesTyped
<1>5. accSession' = [accSession EXCEPT ![w] = [s EXCEPT !.next = 6]]
  BY <1>1, <1>3, <1>4 DEF SyncLeadership
<1>6. unit' = [u \in UnitIds |->
         IF u \in StoredUnits(s.state) THEN [unit[u] EXCEPT !.head = s.made[LeaderRole(s.state, u)]]
         ELSE unit[u]]
  BY <1>1 DEF SyncLeadership
<1>7. UnitsThere(s.state)
  BY <1>1, <1>2 DEF SetupTyped, SessionsPrepared, Prepared
<1>8. ASSUME NEW u \in UnitIds, u \in StoredUnits(s.state)
      PROVE  /\ unit[u] \in UnitRows
             /\ unit'[u] = [unit[u] EXCEPT !.head = s.made[LeaderRole(s.state, u)]]
             /\ unit'[u] \in UnitRows
  <2>1. unit[u] \in UnitRows
    BY <1>4, <1>7, <1>8 DEF UnitsThere, Maybe
  <2>2. LeaderRole(s.state, u) \in Roles
    BY DEF LeaderRole, Roles
  <2>3. s.made[LeaderRole(s.state, u)] \in Maybe(StaffIds)
    BY <1>3, <2>2 DEF StaffRequests
  <2>4. unit'[u] = [unit[u] EXCEPT !.head = s.made[LeaderRole(s.state, u)]]
    BY <1>6, <1>8
  <2>. QED  BY <2>1, <2>3, <2>4 DEF UnitRows
<1>9. \A u \in UnitIds : u \notin StoredUnits(s.state) => unit'[u] = unit[u]
  BY <1>6
<1>10. unit' \in [UnitIds -> Maybe(UnitRows)]
  <2>1. \A u \in UnitIds : unit'[u] \in Maybe(UnitRows)
    BY <1>4, <1>8, <1>9 DEF Maybe
  <2>2. unit' = [u \in UnitIds |-> unit'[u]]
    BY <1>6
  <2>. QED  BY <2>1, <2>2
<1>. QED  BY <1>1, <1>2, <1>3, <1>5, <1>8, <1>9, <1>10

(* The leadership step keeps the types.                                    *)
LEMMA SyncLeadershipTyped ==
  ASSUME SetupTyped, NEW w \in Workers, UNCHANGED accMode, SyncLeadership(w)
  PROVE  SetupTyped'
<1>1. /\ installed \in BOOLEAN /\ wizard \in WizardStates /\ UnitsThere(wizard)
      /\ unit \in [UnitIds -> Maybe(UnitRows)] /\ staff \in [StaffIds -> Maybe(StaffRows)]
  BY DEF SetupTyped, TablesTyped
<1>2. PICK s, x : s = accSession[w] /\ x = [s EXCEPT !.next = 6]
  OBVIOUS
<1>3. /\ UNCHANGED <<permRow, titleRows, granted, asked, installed, wizard, staff>>
      /\ s # None /\ s \in StaffRequests /\ s.op = "staff"
      /\ accSession' = [accSession EXCEPT ![w] = x]
      /\ unit' \in [UnitIds -> Maybe(UnitRows)]
  BY <1>2, SyncLeadershipDoes DEF permissionVars
<1>4. \A u \in UnitIds : unit[u] # None => unit'[u] # None
  <2>1. ASSUME NEW u \in UnitIds, u \in StoredUnits(s.state)  PROVE unit'[u] # None
    <3>1. /\ unit[u] \in UnitRows
          /\ unit'[u] = [unit[u] EXCEPT !.head = s.made[LeaderRole(s.state, u)]]
      BY <1>2, <2>1, SyncLeadershipDoes
    <3>2. LeaderRole(s.state, u) \in Roles
      BY DEF LeaderRole, Roles
    <3>3. s.made[LeaderRole(s.state, u)] \in Maybe(StaffIds)
      BY <1>3, <3>2 DEF StaffRequests
    <3>4. unit'[u] \in UnitRows
      BY <3>1, <3>3 DEF UnitRows
    <3>. QED  BY <3>4, UnitPayloadsAreTyped
  <2>2. \A u \in UnitIds : u \notin StoredUnits(s.state) => unit'[u] = unit[u]
    BY <1>2, SyncLeadershipDoes
  <2>. QED  BY <2>1, <2>2
<1>5. x \in StaffRequests /\ x.op = "staff" /\ x.state = s.state
  BY <1>2, <1>3 DEF StaffRequests
<1>6. UnitsThere(wizard)'
  BY <1>1, <1>3, <1>4 DEF UnitsThere, StoredUnits
<1>7. UnitsThere(s.state) /\ OrganizationThere(s.state)
  BY <1>2, <1>3 DEF SetupTyped, SessionsPrepared, Prepared
<1>8. UnitsThere(x.state)' /\ OrganizationThere(x.state)
  BY <1>4, <1>5, <1>7 DEF UnitsThere, StoredUnits
<1>9. x \in Maybe(Requests) /\ Prepared(x)'
  BY <1>5, <1>8 DEF Requests, Maybe, Prepared, OrganizationThere, StoredUnits
<1>. QED  BY <1>1, <1>2, <1>3, <1>4, <1>6, <1>9, WizardKeepsTypes DEF AccessTables

(* The end of a step.                                                      *)
LEMMA PersistTyped ==
  ASSUME SetupTyped, NEW w \in Workers, UNCHANGED accMode, NEW state \in WizardStates,
         UnitsThere(state), accSession[w] # None, Persist(w, state)
  PROVE  SetupTyped'
<1>1. /\ installed \in BOOLEAN
      /\ unit \in [UnitIds -> Maybe(UnitRows)] /\ staff \in [StaffIds -> Maybe(StaffRows)]
  BY DEF SetupTyped, TablesTyped
<1>2. /\ UNCHANGED <<permRow, titleRows, granted, asked, installed, unit, staff>>
      /\ wizard' = state /\ accSession' = [accSession EXCEPT ![w] = None]
  BY DEF Persist, permissionVars, tableVars
<1>3. wizard' \in WizardStates /\ UnitsThere(wizard)'
  BY <1>2, ModeKeeps DEF UnitsThere, StoredUnits
<1>. QED  BY <1>1, <1>2, <1>3, WizardKeepsTypes DEF AccessTables, Maybe

(* What the end of a step persists.                                        *)
LEMMA PersistDoes ==
  ASSUME SetupTyped, NEW w \in Workers, PersistUnits(w) \/ PersistSeeding(w) \/ PersistStaff(w)
  PROVE  /\ accSession[w] # None
         /\ \E state \in WizardStates :
              /\ Persist(w, state) /\ UnitsThere(state)
              /\ \/ /\ accSession[w].op = "units" /\ accSession[w] \in UnitRequests
                    /\ accSession[w].next = 3
                    /\ state.department = accSession[w].state.department
                    /\ state.teams = accSession[w].state.teams
                    /\ state.codes = accSession[w].state.codes
                    /\ state.users = accSession[w].state.users
                 \/ /\ accSession[w].op = "seed" /\ accSession[w] \in SeedRequests
                    /\ Seeded(w) /\ accSession[w].step # 0
                    /\ \E old \in WizardStates :
                         /\ old = (IF accSession[w].step = 5 THEN wizard ELSE accSession[w].state)
                         /\ state.department = old.department /\ state.teams = old.teams
                         /\ state.codes = (IF accSession[w].step = 4 THEN accSession[w].stored
                                           ELSE old.codes)
                         /\ state.users = old.users
                 \/ /\ accSession[w].op = "staff" /\ accSession[w] \in StaffRequests
                    /\ accSession[w].next = 6
                    /\ state.department = accSession[w].state.department
                    /\ state.teams = accSession[w].state.teams
                    /\ state.codes = accSession[w].state.codes
                    /\ state.users = accSession[w].made
<1>1. PICK s : s = accSession[w]
  OBVIOUS
<1>2. wizard \in WizardStates /\ UnitsThere(wizard) /\ accSession[w] \in Maybe(Requests)
  BY DEF SetupTyped, SessionsTyped, TablesTyped
<1>3. \A state, old : state \in WizardStates /\ state.department = old.department
                     /\ state.teams = old.teams /\ UnitsThere(old) => UnitsThere(state)
  BY DEF UnitsThere, StoredUnits
<1>4. CASE PersistUnits(w)
  <2>1. s # None /\ s.op = "units" /\ s.next = 3 /\ Persist(w, AtLeast(s.state, 2))
    BY <1>1, <1>4 DEF PersistUnits, Running
  <2>2. s \in UnitRequests
    BY <1>1, <1>2, <2>1, RequestOf DEF Maybe
  <2>3. UnitsThere(s.state) /\ s.state \in WizardStates
    BY <1>1, <2>1, <2>2 DEF SetupTyped, SessionsPrepared, Prepared, UnitRequests
  <2>4. PICK state : state = AtLeast(s.state, 2)
    OBVIOUS
  <2>5. /\ state \in WizardStates /\ state.department = s.state.department
        /\ state.teams = s.state.teams /\ state.codes = s.state.codes
        /\ state.users = s.state.users
    BY <2>3, <2>4, AtLeastIs
  <2>. QED  BY <1>1, <1>3, <2>1, <2>2, <2>3, <2>4, <2>5
<1>5. CASE PersistSeeding(w)
  <2>1. s # None /\ s.op = "seed" /\ s.step # 0 /\ Seeded(w) /\ Persist(w, SeededState(s))
    BY <1>1, <1>5 DEF PersistSeeding, Seeded, IsSeeding
  <2>2. s \in SeedRequests /\ s.step \in {3, 4, 5}
    BY <1>1, <1>2, <2>1, RequestOf DEF Maybe, SeedRequests
  <2>3. UnitsThere(s.state) /\ s.state \in WizardStates
    BY <1>1, <2>1 DEF SetupTyped, SessionsPrepared, Prepared
  <2>4. PICK old : old = (IF s.step = 5 THEN wizard ELSE s.state)
    OBVIOUS
  <2>5. PICK new : new = (IF s.step = 4 THEN [old EXCEPT !.codes = s.stored] ELSE old)
    OBVIOUS
  <2>6. old \in WizardStates /\ UnitsThere(old)
    BY <1>2, <2>3, <2>4
  <2>7. /\ new \in WizardStates /\ new.department = old.department /\ new.teams = old.teams
        /\ new.codes = (IF s.step = 4 THEN s.stored ELSE old.codes) /\ new.users = old.users
    BY <2>2, <2>5, <2>6 DEF WizardStates, SeedRequests
  <2>8. PICK state : state = AtLeast(new, s.step)
    OBVIOUS
  <2>9. /\ state \in WizardStates /\ state.department = new.department
        /\ state.teams = new.teams /\ state.codes = new.codes
        /\ state.users = new.users
    BY <2>2, <2>7, <2>8, AtLeastIs
  <2>10. SeededState(s) = state
    BY <2>4, <2>5, <2>8 DEF SeededState
  <2>11. UnitsThere(state)
    BY <1>3, <2>6, <2>7, <2>9
  <2>. QED  BY <1>1, <2>1, <2>2, <2>4, <2>6, <2>7, <2>9, <2>10, <2>11
<1>6. CASE PersistStaff(w)
  <2>1. /\ s # None /\ s.op = "staff" /\ s.next = 6
        /\ Persist(w, AtLeast([s.state EXCEPT !.users = s.made], 6))
    BY <1>1, <1>6 DEF PersistStaff, Running
  <2>2. s \in StaffRequests
    BY <1>1, <1>2, <2>1, RequestOf DEF Maybe
  <2>3. UnitsThere(s.state) /\ s.state \in WizardStates
    BY <1>1, <2>1, <2>2 DEF SetupTyped, SessionsPrepared, Prepared, StaffRequests
  <2>4. PICK new : new = [s.state EXCEPT !.users = s.made]
    OBVIOUS
  <2>5. /\ new \in WizardStates /\ new.department = s.state.department
        /\ new.teams = s.state.teams /\ new.codes = s.state.codes /\ new.users = s.made
    BY <2>2, <2>3, <2>4 DEF WizardStates, StaffRequests
  <2>6. PICK state : state = AtLeast(new, 6)
    OBVIOUS
  <2>7. /\ state \in WizardStates /\ state.department = s.state.department
        /\ state.teams = s.state.teams /\ state.codes = s.state.codes
        /\ state.users = s.made
    BY <2>5, <2>6, AtLeastIs
  <2>8. Persist(w, state)
    BY <2>1, <2>4, <2>6
  <2>. QED  BY <1>1, <1>3, <2>1, <2>2, <2>3, <2>7, <2>8
<1>. QED  BY <1>4, <1>5, <1>6

(* The requests that write no row of a table but the progress.             *)
ShortMove(w) ==
  \/ BeginReadiness(w) \/ SaveReadiness(w)
  \/ ReviewInstallation(w) \/ LoadInstallation(w) \/ CompleteInstallation(w)

(* They remember the progress, or end by writing what they remember.       *)
LEMMA ShortDoes ==
  ASSUME SetupTyped, NEW w \in Workers, ShortMove(w)
  PROVE  /\ UNCHANGED <<permRow, titleRows, granted, asked, unit, staff>>
         /\ accSession[w] # None \/ MayServe(accSession, w, accMode.serial)
         /\ \/ /\ UNCHANGED <<installed, wizard>>
               /\ \E x : /\ accSession' = [accSession EXCEPT ![w] = x]
                         /\ x = None \/ (x \in ShortRequests /\ x.op \in ShortOps /\ x.state = wizard)
            \/ /\ accSession[w] # None /\ accSession[w] \in ShortRequests
               /\ accSession[w].op \in ShortOps /\ installed' \in BOOLEAN
               /\ accSession' = [accSession EXCEPT ![w] = None]
               /\ \E state \in WizardStates :
                    /\ wizard' = state
                    /\ state.department = accSession[w].state.department
                    /\ state.teams = accSession[w].state.teams
                    /\ state.codes = accSession[w].state.codes
                    /\ state.users = accSession[w].state.users
<1>1. PICK s, y : s = accSession[w] /\ y = wizard
  OBVIOUS
<1>2. /\ y \in WizardStates /\ s \in Maybe(Requests) /\ installed \in BOOLEAN
      /\ accSession \in [Workers -> Maybe(Requests)]
  BY <1>1 DEF SetupTyped, SessionsTyped, TablesTyped
<1>3. ASSUME NEW op \in ShortOps
      PROVE  \E x : /\ x = [op |-> op, state |-> y]
                    /\ x \in ShortRequests /\ x.op \in ShortOps /\ x.state = y
  <2>1. PICK x : x = [op |-> op, state |-> y]
    OBVIOUS
  <2>2. x \in ShortRequests /\ x.op = op /\ x.state = y
    BY <1>2, <2>1 DEF ShortRequests
  <2>. QED  BY <2>1, <2>2
<1>4. ASSUME NEW op \in ShortOps, Running(w, op)
      PROVE  s # None /\ s \in ShortRequests /\ s.op = op /\ s.state \in WizardStates
  <2>1. s # None /\ s.op = op
    BY <1>1, <1>4 DEF Running
  <2>. QED  BY <1>2, <1>4, <2>1, RequestOf DEF Maybe, ShortRequests
<1>5. CASE BeginReadiness(w) \/ ReviewInstallation(w)
  <2>1. PICK op \in ShortOps : Serve(w, [op |-> op, state |-> wizard])
    BY <1>5 DEF BeginReadiness, ReviewInstallation, ShortOps
  <2>. QED  BY <1>1, <1>3, <2>1 DEF Serve, permissionVars, tableVars
<1>6. CASE LoadInstallation(w)
  <2>1. /\ s # None /\ UNCHANGED <<permRow, titleRows, granted, asked, installed, wizard, unit, staff>>
        /\ \/ accSession' = [accSession EXCEPT ![w] = None]
           \/ accSession' = [accSession EXCEPT ![w] = [op |-> "complete", state |-> y]]
    BY <1>1, <1>6 DEF LoadInstallation, Running, permissionVars, tableVars
  <2>. QED  BY <1>1, <1>3, <2>1 DEF ShortOps
<1>7. CASE SaveReadiness(w)
  <2>1. s # None /\ s \in ShortRequests /\ s.op \in ShortOps /\ s.state \in WizardStates
    BY <1>4, <1>7 DEF SaveReadiness, ShortOps
  <2>2. /\ UNCHANGED <<permRow, titleRows, granted, asked, installed, unit, staff>>
        /\ wizard' = AtLeast(s.state, 1) /\ accSession' = [accSession EXCEPT ![w] = None]
    BY <1>1, <1>7 DEF SaveReadiness, Persist, permissionVars, tableVars
  <2>. QED  BY <1>1, <1>2, <2>1, <2>2, AtLeastIs
<1>8. CASE CompleteInstallation(w)
  <2>1. s # None /\ s \in ShortRequests /\ s.op \in ShortOps /\ s.state \in WizardStates
    BY <1>4, <1>8 DEF CompleteInstallation, ShortOps
  <2>2. PICK state : state = [s.state EXCEPT !.last = 7]
    OBVIOUS
  <2>3. /\ state \in WizardStates /\ state.department = s.state.department
        /\ state.teams = s.state.teams /\ state.codes = s.state.codes
        /\ state.users = s.state.users
    BY <2>1, <2>2 DEF WizardStates
  <2>4. /\ UNCHANGED <<permRow, titleRows, granted, asked, unit, staff>> /\ installed' = TRUE
        /\ wizard' = state /\ accSession' = [accSession EXCEPT ![w] = None]
    BY <1>1, <1>8, <2>2 DEF CompleteInstallation, permissionVars, tableVars
  <2>. QED  BY <1>1, <2>1, <2>3, <2>4
<1>. QED  BY <1>5, <1>6, <1>7, <1>8 DEF ShortMove

(* So they keep the types.                                                 *)
LEMMA ShortTyped ==
  ASSUME SetupTyped, NEW w \in Workers, UNCHANGED accMode, ShortMove(w)
  PROVE  SetupTyped'
<1>1. /\ installed \in BOOLEAN /\ wizard \in WizardStates /\ UnitsThere(wizard)
      /\ unit \in [UnitIds -> Maybe(UnitRows)] /\ staff \in [StaffIds -> Maybe(StaffRows)]
  BY DEF SetupTyped, TablesTyped
<1>2. /\ UNCHANGED <<permRow, titleRows, granted, asked, unit, staff>>
      /\ accSession[w] # None \/ MayServe(accSession, w, accMode.serial)
  BY ShortDoes
<1>3. ASSUME UNCHANGED <<installed, wizard>>, NEW x, accSession' = [accSession EXCEPT ![w] = x],
             x = None \/ (x \in ShortRequests /\ x.op \in ShortOps /\ x.state = wizard)
      PROVE  SetupTyped'
  <2>1. UnitsThere(wizard)'
    BY <1>1, <1>2, <1>3 DEF UnitsThere, StoredUnits
  <2>2. x \in Maybe(Requests) /\ (x # None => Prepared(x)')
    BY <1>3, <2>1 DEF Requests, Maybe, Prepared, ShortOps
  <2>. QED  BY <1>1, <1>2, <1>3, <2>1, <2>2, WizardKeepsTypes DEF AccessTables
<1>4. ASSUME accSession[w] # None, accSession[w].op \in ShortOps, installed' \in BOOLEAN,
             accSession' = [accSession EXCEPT ![w] = None], NEW state \in WizardStates,
             wizard' = state, state.department = accSession[w].state.department,
             state.teams = accSession[w].state.teams
      PROVE  SetupTyped'
  <2>1. UnitsThere(accSession[w].state)
    BY <1>4 DEF SetupTyped, SessionsPrepared, Prepared
  <2>2. wizard' \in WizardStates /\ UnitsThere(wizard)'
    BY <1>2, <1>4, <2>1, ModeKeeps DEF UnitsThere, StoredUnits
  <2>. QED  BY <1>1, <1>2, <1>4, <2>2, WizardKeepsTypes DEF AccessTables, Maybe
<1>. QED  BY <1>3, <1>4, ShortDoes

(* The invariant holds initially.                                          *)
LEMMA SetupStartsTyped == SetupInit => SetupTyped
<1>1. ASSUME SetupInit  PROVE SetupTyped
  <2>1. /\ accMode \in AccessModes /\ permRow = accMode.rows /\ titleRows = accMode.there
        /\ granted = {} /\ asked = [t \in accMode.titles |-> {}]
        /\ accSession = [w \in Workers |-> None] /\ installed = FALSE /\ wizard = InitialWizard
        /\ unit = [u \in UnitIds |-> None] /\ staff = [e \in StaffIds |-> None]
    BY <1>1 DEF SetupInit, AccessInit
  <2>2. /\ permRow \in [RowIds -> Maybe(PermissionRows(accMode.codes))]
        /\ titleRows \subseteq accMode.titles
    BY <2>1, AccessModesAreTyped
  <2>3. wizard \in WizardStates /\ StoredUnits(wizard) = {None}
    BY <2>1 DEF InitialWizard, WizardStates, NothingStored, StoredUnits, Maybe, Slots
  <2>4. UnitsThere(wizard)
    BY <2>3, UnitPayloadsAreTyped DEF UnitsThere
  <2>5. TablesTyped
    BY <2>1, <2>2, <2>3 DEF TablesTyped, Maybe
  <2>6. SessionsTyped /\ SessionsPrepared
    BY <2>1 DEF SessionsTyped, SessionsPrepared, Maybe
  <2>. QED  BY <2>4, <2>5, <2>6 DEF SetupTyped
<1>. QED  BY <1>1

(* A step is a step of one worker.                                         *)
EditMove(w) ==
  \/ \E code \in accMode.codes : CreatePermission(w, code)
  \/ \E r \in ExistingRows, code \in accMode.codes, active \in BOOLEAN :
       UpdatePermission(w, r, code, active)

(* The moves of one worker on the permissions.                             *)
AccessMove(w) ==
  \/ "edit" \in accMode.ops /\ EditMove(w)
  \/ \E title \in accMode.titles, rows \in SUBSET ExistingRows : LoadAssignment(w, title, rows)
  \/ BeginMigration(w) \/ EnsureCanonicalPermissions(w)
  \/ CommitAssignment(w) \/ MigrateCodes(w) \/ ClearGrants(w) \/ GrantMigrated(w)
  \/ EndMigration(w) \/ SeedTitle(w) \/ SeedCode(w) \/ SeedGrants(w) \/ EndRepair(w)
  \/ BreakOff(w)

(* The moves of one worker in the wizard.                                  *)
WizardMove(w) ==
  \/ /\ "wizard" \in accMode.ops
     /\ \/ ShortMove(w)
        \/ \E payload \in UnitPayloads : BeginOrganization(w, payload)
        \/ \E payload \in StaffPayloads : BeginStaff(w, payload)
  \/ BeginTitles(w) \/ BeginCodes(w) \/ BeginGrants(w)
  \/ SaveUnit(w) \/ SaveEmployee(w) \/ SyncLeadership(w)
  \/ PersistUnits(w) \/ PersistSeeding(w) \/ PersistStaff(w)

(* A step is a move of the permissions or of the wizard.                   *)
LEMMA SetupMoves ==
  ASSUME SetupNext
  PROVE  UNCHANGED accMode /\ \E w \in Workers : \/ AccessMove(w) /\ UNCHANGED WizardTables
                                                 \/ WizardMove(w)
<1>1. CASE AccessStep /\ UNCHANGED <<installed, wizard, tableVars>>
  <2>1. UNCHANGED WizardTables /\ UNCHANGED accMode
    BY <1>1 DEF WizardTables, tableVars, AccessStep
  <2>2. \E w \in Workers : AccessMove(w)
    BY <1>1 DEF AccessStep, AccessMove, EditMove
  <2>. QED  BY <2>1, <2>2
<1>2. CASE WizardStep
  BY <1>2 DEF WizardStep, WizardMove, ShortMove
<1>. QED  BY <1>1, <1>2 DEF SetupNext

(* Every step keeps it.                                                    *)
LEMMA SetupKeepsTypes == SetupTyped /\ [SetupNext]_setupVars => SetupTyped'
<1>1. ASSUME SetupTyped, NEW w \in Workers, UNCHANGED accMode, AccessMove(w),
             UNCHANGED WizardTables
      PROVE  SetupTyped'
  <2>1. UNCHANGED <<accMode, WizardTables>>
    BY <1>1
  <2>2. CASE EditMove(w)
    BY <1>1, <2>1, <2>2, EditTyped DEF EditMove
  <2>3. CASE \/ \E title \in accMode.titles, rows \in SUBSET ExistingRows :
                  LoadAssignment(w, title, rows)
             \/ CommitAssignment(w)
    BY <1>1, <2>1, <2>3, AssignmentTyped
  <2>4. CASE \/ BeginMigration(w) \/ MigrateCodes(w) \/ ClearGrants(w) \/ GrantMigrated(w)
             \/ EndMigration(w)
    BY <1>1, <2>1, <2>4, MigrationTyped
  <2>5. CASE \/ EnsureCanonicalPermissions(w) \/ SeedTitle(w) \/ SeedCode(w) \/ SeedGrants(w)
             \/ EndRepair(w) \/ BreakOff(w)
    BY <1>1, <2>1, <2>5, SeedingTyped
  <2>. QED  BY <1>1, <2>2, <2>3, <2>4, <2>5 DEF AccessMove
<1>2. ASSUME SetupTyped, NEW w \in Workers, UNCHANGED accMode, WizardMove(w)
      PROVE  SetupTyped'
  <2>1. CASE ShortMove(w)
    BY <1>2, <2>1, ShortTyped
  <2>2. CASE \/ \E payload \in UnitPayloads : BeginOrganization(w, payload)
             \/ \E payload \in StaffPayloads : BeginStaff(w, payload)
             \/ BeginTitles(w) \/ BeginCodes(w) \/ BeginGrants(w)
    BY <1>2, <2>2, BeginningTyped
  <2>3. CASE SaveUnit(w) \/ SaveEmployee(w) \/ SyncLeadership(w)
    BY <1>2, <2>3, SaveUnitTyped, SaveEmployeeTyped, SyncLeadershipTyped
  <2>4. CASE PersistUnits(w) \/ PersistSeeding(w) \/ PersistStaff(w)
    <3>1. accSession[w] # None /\ \E state \in WizardStates : Persist(w, state) /\ UnitsThere(state)
      BY <1>2, <2>4, PersistDoes
    <3>. QED  BY <1>2, <3>1, PersistTyped
  <2>. QED  BY <1>2, <2>1, <2>2, <2>3, <2>4 DEF WizardMove
<1>3. ASSUME SetupTyped, UNCHANGED setupVars  PROVE SetupTyped'
  <2>1. UNCHANGED <<accMode, permRow, titleRows, granted, asked, accSession, installed, wizard,
                    unit, staff>>
    BY <1>3 DEF setupVars, accVars, tableVars
  <2>2. TablesTyped' /\ SessionsTyped' /\ UnitsThere(wizard)'
    BY <1>3, <2>1, ModeKeeps DEF SetupTyped, TablesTyped, SessionsTyped, TheWorker, UnitsThere,
       StoredUnits
  <2>3. SessionsPrepared'
    BY <1>3, <2>1, ModeKeeps DEF SetupTyped, SessionsPrepared, Prepared, UnitsThere,
       OrganizationThere, StoredUnits
  <2>. QED  BY <2>2, <2>3 DEF SetupTyped
<1>. QED  BY <1>1, <1>2, <1>3, SetupMoves

(* Tables and requests keep their types, and units are never removed.      *)
LEMMA SetupIsTyped == SetupSpec => []SetupTyped
BY SetupStartsTyped, SetupKeepsTypes, PTL DEF SetupSpec

-----------------------------------------------------------------------------
(* The grants.                                                             *)
GrantsRest(s) ==
  /\ s.op = "assign" =>
       /\ s.rows \subseteq ExistingRows /\ s.deleted \subseteq GrantsOf(s.title, RowIds)
       /\ accMode.serial => s.deleted = GrantsOf(s.title, GrantedTo(s.title))
  /\ s.op = "migrate" /\ s.stage = "grant" /\ accMode.serial => granted = {}

GrantsBacked ==
  /\ granted \subseteq accMode.titles \X ExistingRows
  /\ PermissionsReplaced
  /\ \A v \in Workers : accSession[v] # None => GrantsRest(accSession[v])

(* A session that does not touch the grants goes on.                       *)
LEMMA GrantsLeftAlone ==
  ASSUME SetupTyped, GrantsBacked, NEW w \in Workers, NEW x,
         UNCHANGED <<accMode, granted, asked>>,
         \A r \in RowIds : permRow[r] # None => permRow'[r] # None,
         accSession' = [accSession EXCEPT ![w] = x],
         x # None => x.op # "assign" /\ (x.op = "migrate" => x.stage # "grant")
  PROVE  GrantsBacked'
<1>1. ExistingRows \subseteq ExistingRows'
  BY DEF ExistingRows
<1>2. granted' \subseteq accMode'.titles \X ExistingRows'
  BY <1>1 DEF GrantsBacked
<1>3. PermissionsReplaced'
  BY DEF GrantsBacked, PermissionsReplaced, GrantedTo
<1>4. ASSUME NEW s, GrantsRest(s)  PROVE GrantsRest(s)'
  BY <1>1, <1>4 DEF GrantsRest, GrantedTo, GrantsOf
<1>5. \A v \in Workers : accSession'[v] = x \/ accSession'[v] = accSession[v]
  BY DEF SetupTyped, SessionsTyped
<1>6. \A v \in Workers : accSession'[v] # None => \E s : s = accSession'[v] /\ GrantsRest(s)'
  <2>1. ASSUME NEW v \in Workers, accSession'[v] # None
        PROVE  \E s : s = accSession'[v] /\ GrantsRest(s)'
    <3>1. CASE accSession'[v] = x
      BY <2>1, <3>1 DEF GrantsRest
    <3>2. CASE accSession'[v] = accSession[v]
      <4>1. PICK s : s = accSession[v]
        OBVIOUS
      <4>2. GrantsRest(s)
        BY <2>1, <3>2, <4>1 DEF GrantsBacked
      <4>. QED  BY <1>4, <3>2, <4>1, <4>2
    <3>. QED  BY <1>5, <3>1, <3>2
  <2>. QED  BY <2>1
<1>7. (\A v \in Workers : accSession[v] # None => GrantsRest(accSession[v]))'
  BY <1>6 DEF GrantsRest
<1>. QED  BY <1>2, <1>3, <1>7 DEF GrantsBacked

(* A session that writes the grants leaves what the others rely on.        *)
LEMMA GrantsWritten ==
  ASSUME SetupTyped, GrantsBacked, NEW w \in Workers, NEW x,
         UNCHANGED <<accMode, permRow>>, accSession[w] # None,
         accSession' = [accSession EXCEPT ![w] = x],
         x # None => x.op # "assign" /\ (x.op = "migrate" /\ x.stage = "grant" => granted' = {}),
         granted' \subseteq accMode.titles \X ExistingRows,
         PermissionsReplaced'
  PROVE  GrantsBacked'
<1>1. ExistingRows' = ExistingRows
  BY DEF ExistingRows
<1>2. granted' \subseteq accMode'.titles \X ExistingRows'
  BY <1>1
<1>3. \A v \in Workers : v # w => accSession'[v] = accSession[v]
  BY DEF SetupTyped, SessionsTyped
<1>4. accSession'[w] = x
  BY DEF SetupTyped, SessionsTyped
<1>5. ASSUME NEW v \in Workers, v # w, accSession'[v] # None
      PROVE  \E s : s = accSession'[v] /\ GrantsRest(s)'
  <2>1. ~accMode.serial
    BY <1>3, <1>5 DEF SetupTyped, SessionsTyped
  <2>2. PICK s : s = accSession[v]
    OBVIOUS
  <2>3. GrantsRest(s)
    BY <1>3, <1>5, <2>2 DEF GrantsBacked
  <2>4. GrantsRest(s)'
    BY <1>1, <2>1, <2>3 DEF GrantsRest, GrantsOf
  <2>. QED  BY <1>3, <1>5, <2>2, <2>4
<1>6. (\A v \in Workers : accSession[v] # None => GrantsRest(accSession[v]))'
  BY <1>4, <1>5 DEF GrantsRest
<1>. QED  BY <1>2, <1>6 DEF GrantsBacked

(* Rows of the catalog stay.                                               *)
LEMMA RowsStay ==
  ASSUME SetupTyped, NEW w \in Workers,
         \/ \E code \in accMode.codes : CreatePermission(w, code)
         \/ \E r \in ExistingRows, code \in accMode.codes, active \in BOOLEAN :
              UpdatePermission(w, r, code, active)
         \/ SeedCode(w) \/ MigrateCodes(w)
  PROVE  \A r \in RowIds : permRow[r] # None => permRow'[r] # None
<1>1. /\ permRow \in [RowIds -> Maybe(PermissionRows(accMode.codes))]
      /\ None \notin PermissionRows(accMode.codes)
  BY AccessModesAreTyped DEF SetupTyped, TablesTyped
<1>2. \A code \in accMode.codes, active \in BOOLEAN : PermissionRow(code, active) # None
  BY <1>1 DEF PermissionRow, PermissionRows
<1>3. CASE \E code \in accMode.codes : CreatePermission(w, code)
  BY <1>1, <1>2, <1>3 DEF CreatePermission
<1>4. CASE \E r \in ExistingRows, code \in accMode.codes, active \in BOOLEAN :
             UpdatePermission(w, r, code, active)
  BY <1>1, <1>2, <1>4 DEF UpdatePermission
<1>5. CASE SeedCode(w)
  <2>1. PICK code : code = CHOOSE c \in accSession[w].codes : TRUE
    OBVIOUS
  <2>2. code \in accMode.codes
    BY <1>5, <2>1, SeedingIs DEF SeedCode, SeedRequests, CodesHere
  <2>3. permRow' = permRow \/ \E row : permRow' = [permRow EXCEPT ![row] = PermissionRow(code, TRUE)]
    BY <1>5, <2>1 DEF SeedCode, SeededRow
  <2>. QED  BY <1>1, <1>2, <2>2, <2>3
<1>6. CASE MigrateCodes(w)
  <2>1. PICK codes : codes = MissingCodes
    OBVIOUS
  <2>2. \/ permRow' = permRow
        \/ \E id \in Injection(codes, FreeRows) : permRow' = WithRows(id)
    BY <1>6, <2>1 DEF MigrateCodes, OneOf
  <2>3. ASSUME NEW id \in Injection(codes, FreeRows), permRow' = WithRows(id), NEW r \in RowIds,
               permRow[r] # None
        PROVE  permRow'[r] = permRow[r]
    <3>1. \/ WithRows(id)[r] = permRow[r]
          \/ permRow[r] = None
      BY ONLY r \in RowIds, WithRowsIs, id \in Injection(codes, FreeRows)
    <3>. QED  BY <2>3, <3>1
  <2>. QED  BY <2>2, <2>3
<1>. QED  BY <1>3, <1>4, <1>5, <1>6

(* An assignment leaves its title what was asked for, unless others        *)
(* overlapped.                                                             *)
LEMMA AssignmentReplaces ==
  ASSUME SetupTyped, GrantsBacked, NEW w \in Workers, UNCHANGED accMode,
         \/ \E title \in accMode.titles, rows \in SUBSET ExistingRows : LoadAssignment(w, title, rows)
         \/ CommitAssignment(w)
  PROVE  GrantsBacked'
<1>1. /\ granted \subseteq accMode.titles \X ExistingRows
      /\ asked \in [accMode.titles -> SUBSET RowIds]
      /\ accSession \in [Workers -> Maybe(Requests)]
  BY DEF SetupTyped, TablesTyped, SessionsTyped, GrantsBacked
<1>2. ASSUME NEW title \in accMode.titles, NEW rows \in SUBSET ExistingRows,
             LoadAssignment(w, title, rows)
      PROVE  GrantsBacked'
  <2>1. PICK x : x = [op |-> "assign", title |-> title, rows |-> rows,
                      deleted |-> GrantsOf(title, GrantedTo(title))]
    OBVIOUS
  <2>2. /\ accSession' = [accSession EXCEPT ![w] = x]
        /\ UNCHANGED <<permRow, titleRows, granted, asked>>
    BY <1>2, <2>1 DEF LoadAssignment, permissionVars
  <2>3. GrantsRest(x)
    BY <2>1 DEF GrantsRest, GrantsOf, GrantedTo
  <2>4. \A v \in Workers : accSession'[v] # None =>
          \E s : s = accSession'[v] /\ GrantsRest(s)
    BY <1>1, <2>2, <2>3 DEF GrantsBacked
  <2>5. \A v \in Workers : accSession'[v] # None =>
          \E s : s = accSession'[v] /\ GrantsRest(s)'
    BY <2>2, <2>4 DEF GrantsRest, GrantedTo, GrantsOf, ExistingRows
  <2>6. (\A v \in Workers : accSession[v] # None => GrantsRest(accSession[v]))'
    BY <2>5 DEF GrantsRest
  <2>. QED  BY <2>2, <2>6 DEF GrantsBacked, PermissionsReplaced, GrantedTo, ExistingRows
<1>3. CASE CommitAssignment(w)
  <2>1. PICK s : s = accSession[w]
    OBVIOUS
  <2>2. s # None /\ s.op = "assign" /\ accSession' = [accSession EXCEPT ![w] = None]
        /\ UNCHANGED <<permRow, titleRows>>
    BY <1>3, <2>1 DEF CommitAssignment
  <2>3. s.title \in accMode.titles
    BY <1>1, <2>1, <2>2, RequestOf DEF Maybe, AssignRequests
  <2>4. /\ s.rows \subseteq ExistingRows /\ s.deleted \subseteq GrantsOf(s.title, RowIds)
        /\ accMode.serial => s.deleted = GrantsOf(s.title, GrantedTo(s.title))
    BY <2>1, <2>2 DEF GrantsBacked, GrantsRest
  <2>5. \/ UNCHANGED <<granted, asked>>
        \/ /\ granted' = (granted \ s.deleted) \cup GrantsOf(s.title, s.rows)
           /\ asked' = [asked EXCEPT ![s.title] = s.rows]
    BY <1>3, <2>1 DEF CommitAssignment, Replaced
  <2>6. granted' \subseteq accMode.titles \X ExistingRows
    BY <1>1, <2>3, <2>4, <2>5 DEF GrantsOf
  <2>7. CASE UNCHANGED <<granted, asked>>
    <3>1. PermissionsReplaced'
      BY <2>7 DEF GrantsBacked, PermissionsReplaced, GrantedTo
    <3>. QED  BY <2>1, <2>2, <2>6, <3>1, GrantsWritten
  <2>8. CASE /\ granted' = (granted \ s.deleted) \cup GrantsOf(s.title, s.rows)
             /\ asked' = [asked EXCEPT ![s.title] = s.rows]
    <3>1. ASSUME NEW t \in accMode.titles, t # s.title
          PROVE  asked'[t] = asked[t] /\ GrantedTo(t)' = GrantedTo(t)
      <4>1. \A r : <<t, r>> \in granted' <=> <<t, r>> \in granted
        BY <2>4, <2>8, <3>1 DEF GrantsOf
      <4>. QED  BY <1>1, <2>8, <3>1, <4>1 DEF GrantedTo
    <3>2. \A r \in RowIds : <<s.title, r>> \in granted' <=>
             \/ <<s.title, r>> \in granted /\ <<s.title, r>> \notin s.deleted
             \/ r \in s.rows
      BY <2>8 DEF GrantsOf
    <3>3. asked'[s.title] = s.rows /\ s.rows \subseteq RowIds
      BY <1>1, <2>3, <2>4, <2>8 DEF ExistingRows
    <3>4. s.rows \subseteq GrantedTo(s.title)'
      BY <3>2, <3>3 DEF GrantedTo
    <3>5. accMode.serial => GrantedTo(s.title)' = s.rows
      <4>1. ASSUME accMode.serial, NEW r \in RowIds, <<s.title, r>> \in granted
            PROVE  <<s.title, r>> \in s.deleted
        BY <2>4, <4>1 DEF GrantsOf, GrantedTo
      <4>. QED  BY <3>2, <3>3, <4>1 DEF GrantedTo
    <3>6. PermissionsReplaced'
      BY <3>1, <3>3, <3>4, <3>5 DEF GrantsBacked, PermissionsReplaced
    <3>. QED  BY <2>1, <2>2, <2>6, <3>6, GrantsWritten
  <2>. QED  BY <2>5, <2>7, <2>8
<1>. QED  BY <1>2, <1>3

(* So does the migration, which clears all grants first.                   *)
LEMMA MigrationReplaces ==
  ASSUME SetupTyped, GrantsBacked, NEW w \in Workers, UNCHANGED accMode,
         ClearGrants(w) \/ GrantMigrated(w)
  PROVE  GrantsBacked'
<1>1. /\ granted \subseteq accMode.titles \X ExistingRows /\ titleRows \subseteq accMode.titles
      /\ asked \in [accMode.titles -> SUBSET RowIds]
      /\ accSession \in [Workers -> Maybe(Requests)]
  BY DEF SetupTyped, TablesTyped, SessionsTyped, GrantsBacked
<1>2. ASSUME NEW stage, NEW next, Migrating(w, stage),
             accSession' = [accSession EXCEPT ![w].stage = next]
      PROVE  \E x : /\ accSession' = [accSession EXCEPT ![w] = x] /\ accSession[w] # None
                    /\ x.op = "migrate" /\ x.stage = next
  <2>1. PICK s : s = accSession[w]
    OBVIOUS
  <2>2. s # None /\ s.op = "migrate"
    BY <1>2, <2>1 DEF Migrating
  <2>3. s \in MigrateRequests
    BY <1>1, <2>1, <2>2, RequestOf DEF Maybe
  <2>4. PICK x : x = [s EXCEPT !.stage = next]
    OBVIOUS
  <2>5. x.op = "migrate" /\ x.stage = next
    BY <2>3, <2>4 DEF MigrateRequests
  <2>6. accSession' = [accSession EXCEPT ![w] = x]
    BY <1>2, <2>1, <2>4
  <2>. QED  BY <2>1, <2>2, <2>5, <2>6
<1>3. CASE ClearGrants(w)
  <2>1. PICK x : /\ accSession' = [accSession EXCEPT ![w] = x] /\ accSession[w] # None
                 /\ x.op = "migrate" /\ x.stage = "grant"
    BY <1>2, <1>3 DEF ClearGrants
  <2>2. granted' = {} /\ asked' = [t \in accMode.titles |-> {}] /\ UNCHANGED <<permRow, titleRows>>
    BY <1>1, <1>3 DEF ClearGrants
  <2>3. PermissionsReplaced'
    BY <2>2 DEF PermissionsReplaced, GrantedTo
  <2>. QED  BY <2>1, <2>2, <2>3, GrantsWritten
<1>4. CASE GrantMigrated(w)
  <2>1. PICK x : /\ accSession' = [accSession EXCEPT ![w] = x] /\ accSession[w] # None
                 /\ x.op = "migrate" /\ x.stage = "done"
    BY <1>2, <1>4 DEF GrantMigrated
  <2>2. accMode.serial => granted = {}
    BY <1>4 DEF GrantMigrated, Migrating, GrantsBacked, GrantsRest
  <2>3. PICK titles : titles = titleRows \cap DOMAIN MigratedGrants
    OBVIOUS
  <2>4. \/ UNCHANGED <<granted, asked>>
        \/ /\ granted' = granted
                 \cup UNION {GrantsOf(t, RowsOfCodes(MigratedGrants[t])) : t \in titles}
           /\ asked' = [t \in accMode.titles |-> IF t \in titles THEN RowsOfCodes(MigratedGrants[t])
                                                 ELSE asked[t]]
    BY <1>1, <1>4, <2>3 DEF GrantMigrated
  <2>5. UNCHANGED <<permRow, titleRows>>
    BY <1>4 DEF GrantMigrated
  <2>6. CASE UNCHANGED <<granted, asked>>
    <3>1. PermissionsReplaced'
      BY <2>6 DEF GrantsBacked, PermissionsReplaced, GrantedTo
    <3>. QED  BY <1>1, <2>1, <2>5, <2>6, <3>1, GrantsWritten
  <2>7. CASE /\ granted' = granted
                    \cup UNION {GrantsOf(t, RowsOfCodes(MigratedGrants[t])) : t \in titles}
              /\ asked' = [t \in accMode.titles |-> IF t \in titles THEN RowsOfCodes(MigratedGrants[t])
                                                    ELSE asked[t]]
    <3>1. \A codes : RowsOfCodes(codes) \subseteq ExistingRows /\ ExistingRows \subseteq RowIds
      BY DEF RowsOfCodes, ExistingRows
    <3>2. titles \subseteq accMode.titles
      BY <1>1, <2>3
    <3>3. \A t \in titles :
            GrantsOf(t, RowsOfCodes(MigratedGrants[t])) \subseteq accMode.titles \X ExistingRows
      BY <3>1, <3>2 DEF GrantsOf
    <3>4. granted' \subseteq accMode.titles \X ExistingRows
      BY <1>1, <2>7, <3>3
    <3>5. \A t, r : <<t, r>> \in granted' <=>
            \/ <<t, r>> \in granted
            \/ t \in titles /\ r \in RowsOfCodes(MigratedGrants[t])
      BY <2>7 DEF GrantsOf
    <3>6. ASSUME NEW t \in accMode.titles
          PROVE  /\ asked'[t] \subseteq GrantedTo(t)'
                 /\ accMode.serial => GrantedTo(t)' = asked'[t]
      <4>1. asked[t] \subseteq GrantedTo(t) /\ (accMode.serial => asked[t] = {} /\ granted = {})
        BY <2>2 DEF GrantsBacked, PermissionsReplaced, GrantedTo
      <4>2. GrantedTo(t)' = GrantedTo(t) \cup
               (IF t \in titles THEN RowsOfCodes(MigratedGrants[t]) ELSE {})
        BY <3>1, <3>5 DEF GrantedTo
      <4>3. asked'[t] = IF t \in titles THEN RowsOfCodes(MigratedGrants[t]) ELSE asked[t]
        BY <2>7
      <4>4. accMode.serial => GrantedTo(t) = {}
        BY <4>1 DEF GrantedTo
      <4>. QED  BY <4>1, <4>2, <4>3, <4>4
    <3>7. PermissionsReplaced'
      BY <3>6 DEF PermissionsReplaced
    <3>. QED  BY <2>1, <2>5, <3>4, <3>7, GrantsWritten
  <2>. QED  BY <2>4, <2>6, <2>7
<1>. QED  BY <1>3, <1>4

(* So does the seeding of a title.                                         *)
LEMMA SeedingReplaces ==
  ASSUME SetupTyped, GrantsBacked, NEW w \in Workers, UNCHANGED accMode, SeedGrants(w)
  PROVE  GrantsBacked'
<1>1. /\ granted \subseteq accMode.titles \X ExistingRows
      /\ asked \in [accMode.titles -> SUBSET RowIds]
      /\ accSession \in [Workers -> Maybe(Requests)]
  BY DEF SetupTyped, TablesTyped, SessionsTyped, GrantsBacked
<1>2. PICK s : s = accSession[w]
  OBVIOUS
<1>3. /\ UNCHANGED <<permRow, titleRows>> /\ s # None /\ s \in SeedRequests
      /\ \/ UNCHANGED <<granted, asked>> /\ accSession' = [accSession EXCEPT ![w] = None]
         \/ \E title, rows, deleted, x : GrantsSeeded(w, s, title, rows, deleted, x)
  BY <1>2, SeedGrantsDoes
<1>4. CASE UNCHANGED <<granted, asked>> /\ accSession' = [accSession EXCEPT ![w] = None]
  <2>1. PermissionsReplaced'
    BY <1>4 DEF GrantsBacked, PermissionsReplaced, GrantedTo
  <2>. QED  BY <1>1, <1>2, <1>3, <1>4, <2>1, GrantsWritten
<1>5. ASSUME NEW title, NEW rows, NEW deleted, NEW x, GrantsSeeded(w, s, title, rows, deleted, x)
      PROVE  GrantsBacked'
  <2>1. /\ rows \subseteq ExistingRows /\ ExistingRows \subseteq RowIds
        /\ title \in accMode.titles /\ x.op = "seed"
    BY <1>3, <1>5 DEF GrantsSeeded, ExistingRows, SeedRequests
  <2>2. /\ granted' = (granted \ deleted) \cup GrantsOf(title, rows)
        /\ asked' = [asked EXCEPT ![title] = rows]
        /\ deleted \subseteq GrantsOf(title, GrantedTo(title))
        /\ accMode.serial => deleted = GrantsOf(title, GrantedTo(title))
        /\ accSession' = [accSession EXCEPT ![w] = x]
    BY <1>5 DEF GrantsSeeded
  <2>3. granted' \subseteq accMode.titles \X ExistingRows
    BY <1>1, <2>1, <2>2 DEF GrantsOf
  <2>4. ASSUME NEW t \in accMode.titles, t # title
        PROVE  asked'[t] = asked[t] /\ GrantedTo(t)' = GrantedTo(t)
    <3>1. \A r : <<t, r>> \in granted' <=> <<t, r>> \in granted
      BY <2>2, <2>4 DEF GrantsOf
    <3>. QED  BY <1>1, <2>2, <2>4, <3>1 DEF GrantedTo
  <2>5. asked'[title] = rows /\ rows \subseteq GrantedTo(title)'
    BY <1>1, <2>1, <2>2 DEF GrantedTo, GrantsOf
  <2>6. accMode.serial => GrantedTo(title)' = rows
    <3>1. accMode.serial => \A r \in RowIds : <<title, r>> \in granted' <=> r \in rows
      BY <2>2 DEF GrantsOf, GrantedTo
    <3>. QED  BY <2>1, <3>1 DEF GrantedTo
  <2>7. PermissionsReplaced'
    BY <2>4, <2>5, <2>6 DEF GrantsBacked, PermissionsReplaced
  <2>. QED  BY <1>2, <1>3, <2>1, <2>2, <2>3, <2>7, GrantsWritten
<1>. QED  BY <1>3, <1>4, <1>5

(* How a step of the wizard leaves its session.                            *)
LEMMA WizardSessions ==
  ASSUME SetupTyped, NEW w \in Workers, WizardMove(w)
  PROVE  /\ UNCHANGED <<permRow, titleRows, granted, asked>>
         /\ accSession[w] # None \/ MayServe(accSession, w, accMode.serial)
         /\ \/ wizard'.codes = wizard.codes \/ PersistUnits(w) \/ PersistSeeding(w) \/ PersistStaff(w)
            \/ /\ accSession[w] # None /\ accSession[w].op \in ShortOps
               /\ wizard'.codes = accSession[w].state.codes
         /\ \E x : /\ accSession' = [accSession EXCEPT ![w] = x]
                   /\ \/ x = None
                      \/ /\ x.op \in {"units", "staff"} \cup ShortOps /\ x.state \in WizardStates
                         /\ x.op \in ShortOps => ShortMove(w)
                         /\ \/ x.state.codes = wizard.codes
                            \/ /\ accSession[w] # None /\ accSession[w].op \in {"units", "staff"}
                               /\ x.state.codes = accSession[w].state.codes
                      \/ /\ ~installed /\ accSession[w] = None
                         /\ \/ x = Seeding(3, accMode.titles, {}, {}, NothingStored, wizard)
                            \/ x = Seeding(4, {}, CodesHere, {}, wizard.codes, wizard)
                            \/ x = Seeding(5, {}, {}, accMode.titles, NothingStored, wizard)
<1>1. accSession \in [Workers -> Maybe(Requests)] /\ wizard \in WizardStates
  BY DEF SetupTyped, SessionsTyped, TablesTyped
<1>2. CASE ShortMove(w)
  <2>1. CASE UNCHANGED <<installed, wizard>>
    BY <1>1, <1>2, <2>1, ShortDoes
  <2>2. CASE ~UNCHANGED <<installed, wizard>>
    <3>1. /\ accSession[w] # None /\ accSession[w].op \in ShortOps
          /\ accSession' = [accSession EXCEPT ![w] = None]
          /\ wizard'.codes = accSession[w].state.codes
      BY <1>2, <2>2, ShortDoes
    <3>. QED  BY <1>2, <3>1, ShortDoes
  <2>. QED  BY <2>1, <2>2
<1>3. ASSUME NEW x, Serve(w, x)
      PROVE  /\ UNCHANGED <<permRow, titleRows, granted, asked>>
             /\ MayServe(accSession, w, accMode.serial)
             /\ accSession' = [accSession EXCEPT ![w] = x] /\ ~installed /\ accSession[w] = None
             /\ wizard' = wizard
  BY <1>3 DEF Serve, permissionVars, MayServe
<1>4. ASSUME NEW payload \in UnitPayloads, BeginOrganization(w, payload)
      PROVE  \E x : Serve(w, x) /\ x.op = "units" /\ x.state = wizard
  <2>1. PICK x : x = [op |-> "units", next |-> 0, ask |-> payload, state |-> wizard]
    OBVIOUS
  <2>. QED  BY <1>4, <2>1 DEF BeginOrganization
<1>5. ASSUME NEW payload \in StaffPayloads, BeginStaff(w, payload)
      PROVE  \E x : Serve(w, x) /\ x.op = "staff" /\ x.state = wizard
  <2>1. PICK x : x = [op |-> "staff", next |-> 1, ask |-> payload, state |-> wizard,
                      made |-> [r \in Roles |-> None]]
    OBVIOUS
  <2>. QED  BY <1>5, <2>1 DEF BeginStaff
<1>6. CASE \/ \E payload \in UnitPayloads : BeginOrganization(w, payload)
           \/ \E payload \in StaffPayloads : BeginStaff(w, payload)
  <2>1. PICK x : Serve(w, x) /\ x.op \in {"units", "staff"} /\ x.state = wizard
    BY <1>4, <1>5, <1>6
  <2>. QED  BY <1>1, <1>3, <2>1 DEF ShortOps
<1>7. CASE BeginTitles(w) \/ BeginCodes(w) \/ BeginGrants(w)
  <2>1. PICK x : /\ Serve(w, x)
                 /\ \/ x = Seeding(3, accMode.titles, {}, {}, NothingStored, wizard)
                    \/ x = Seeding(4, {}, CodesHere, {}, wizard.codes, wizard)
                    \/ x = Seeding(5, {}, {}, accMode.titles, NothingStored, wizard)
    BY <1>7 DEF BeginTitles, BeginCodes, BeginGrants
  <2>. QED  BY <1>3, <2>1
<1>8. CASE SaveUnit(w)
  <2>1. PICK s : s = accSession[w]
    OBVIOUS
  <2>2. /\ UNCHANGED <<permRow, titleRows, granted, asked, wizard>>
        /\ s # None /\ s \in UnitRequests /\ s.op = "units"
    BY <1>8, <2>1, SaveUnitDoes DEF permissionVars
  <2>3. CASE accSession' = [accSession EXCEPT ![w] = None]
    BY <2>1, <2>2, <2>3
  <2>4. CASE \E u, kind, code, parent, state : UnitSaved(w, s, u, kind, code, parent, state)
    <3>1. PICK u, kind, code, parent, state : UnitSaved(w, s, u, kind, code, parent, state)
      BY <2>4
    <3>2. s.state \in WizardStates
      BY <2>2 DEF UnitRequests
    <3>3. s.next \in {0, 1, 2} /\ (s.next # 0 => s.next \in Slots)
      BY <1>8, <2>1, SaveUnitDoes DEF Slots
    <3>4. u \in UnitIds
      <4>1. PICK stored : stored = IF s.next = 0 THEN s.state.department ELSE s.state.teams[s.next]
        OBVIOUS
      <4>2. stored \in Maybe(UnitIds)
        BY <3>2, <3>3, <4>1 DEF WizardStates
      <4>. QED  BY <3>1, <4>1, <4>2, UnitForIs DEF UnitSaved
    <3>5. state \in WizardStates
      BY <3>1, <3>2, <3>3, <3>4 DEF UnitSaved, WizardStates, Maybe
    <3>6. PICK x : x = [s EXCEPT !.next = s.next + 1, !.state = state]
      OBVIOUS
    <3>7. x.op = "units" /\ x.state \in WizardStates /\ x.state = state
      BY <2>2, <3>5, <3>6 DEF UnitRequests
    <3>8. state.codes = s.state.codes
      BY <3>1, <3>2 DEF UnitSaved, WizardStates
    <3>. QED  BY <2>1, <2>2, <3>1, <3>6, <3>7, <3>8 DEF UnitSaved, ShortOps
  <2>. QED  BY <1>8, <2>1, <2>3, <2>4, SaveUnitDoes
<1>9. CASE SaveEmployee(w)
  <2>1. PICK s : s = accSession[w]
    OBVIOUS
  <2>2. /\ UNCHANGED <<permRow, titleRows, granted, asked, wizard>>
        /\ s # None /\ s \in StaffRequests /\ s.op = "staff"
    BY <1>9, <2>1, SaveEmployeeDoes DEF permissionVars
  <2>3. CASE accSession' = [accSession EXCEPT ![w] = None]
    BY <2>1, <2>2, <2>3
  <2>4. CASE \E e, row, x : EmployeeSaved(w, s, e, row, x)
    <3>1. PICK e, row, x : EmployeeSaved(w, s, e, row, x)
      BY <2>4
    <3>2. x.op = "staff" /\ x.state \in WizardStates /\ x.state = s.state
      BY <2>2, <3>1 DEF StaffRequests, EmployeeSaved
    <3>. QED  BY <2>1, <2>2, <3>1, <3>2 DEF EmployeeSaved, ShortOps
  <2>. QED  BY <1>9, <2>1, <2>3, <2>4, SaveEmployeeDoes
<1>10. CASE SyncLeadership(w)
  <2>1. PICK s, x : s = accSession[w] /\ x = [s EXCEPT !.next = 6]
    OBVIOUS
  <2>2. /\ UNCHANGED <<permRow, titleRows, granted, asked, wizard>> /\ s # None
        /\ s \in StaffRequests /\ s.op = "staff" /\ accSession' = [accSession EXCEPT ![w] = x]
    BY <1>10, <2>1, SyncLeadershipDoes DEF permissionVars
  <2>3. x.op = "staff" /\ x.state \in WizardStates /\ x.state = s.state
    BY <2>1, <2>2 DEF StaffRequests
  <2>. QED  BY <2>1, <2>2, <2>3 DEF ShortOps
<1>11. CASE PersistUnits(w) \/ PersistSeeding(w) \/ PersistStaff(w)
  <2>1. accSession[w] # None /\ \E state : Persist(w, state)
    BY <1>11, PersistDoes
  <2>. QED  BY <1>11, <2>1 DEF Persist, permissionVars
<1>. QED  BY <1>2, <1>6, <1>7, <1>8, <1>9, <1>10, <1>11 DEF WizardMove

(* The other steps of the permissions leave the grants alone.              *)
QuietMove(w) ==
  \/ EditMove(w)
  \/ BeginMigration(w) \/ MigrateCodes(w) \/ EndMigration(w)
  \/ EnsureCanonicalPermissions(w) \/ SeedTitle(w) \/ SeedCode(w) \/ EndRepair(w) \/ BreakOff(w)

(* The moves that touch no grants and remove no row.                       *)
LEMMA QuietSessions ==
  ASSUME SetupTyped, NEW w \in Workers, QuietMove(w)
  PROVE  /\ UNCHANGED <<granted, asked>>
         /\ \A r \in RowIds : permRow[r] # None => permRow'[r] # None
         /\ \E x : /\ accSession' = [accSession EXCEPT ![w] = x]
                   /\ x # None => x.op # "assign" /\ (x.op = "migrate" => x.stage # "grant")
<1>1. accSession \in [Workers -> Maybe(Requests)]
  BY DEF SetupTyped, SessionsTyped
<1>2. CASE EditMove(w)
  <2>1. UNCHANGED <<granted, asked, accSession>> /\ accSession[w] = None
    BY <1>2 DEF EditMove, CreatePermission, UpdatePermission, MayServe
  <2>2. accSession' = [accSession EXCEPT ![w] = None]
    BY <1>1, <2>1
  <2>. QED  BY <1>2, <2>1, <2>2, RowsStay DEF EditMove
<1>3. CASE BeginMigration(w)
  <2>1. PICK x : x = [op |-> "migrate", stage |-> "codes"]
    OBVIOUS
  <2>2. x.op = "migrate" /\ x.stage = "codes"
    BY <2>1
  <2>3. accSession' = [accSession EXCEPT ![w] = x] /\ UNCHANGED <<permRow, granted, asked>>
    BY <1>3, <2>1 DEF BeginMigration, permissionVars
  <2>. QED  BY <2>2, <2>3
<1>4. CASE MigrateCodes(w)
  <2>1. PICK s, x : s = accSession[w] /\ x = [s EXCEPT !.stage = "clear"]
    OBVIOUS
  <2>2. s # None /\ s.op = "migrate" /\ accSession' = [accSession EXCEPT ![w] = x]
    BY <1>4, <2>1 DEF MigrateCodes, Migrating
  <2>3. s \in MigrateRequests
    BY <1>1, <2>1, <2>2, RequestOf DEF Maybe
  <2>4. x.op = "migrate" /\ x.stage = "clear"
    BY <2>1, <2>3 DEF MigrateRequests
  <2>. QED  BY <1>4, <2>2, <2>4, RowsStay DEF MigrateCodes
<1>5. CASE EnsureCanonicalPermissions(w)
  <2>1. PICK grants :
          accSession' = [accSession EXCEPT ![w] =
            Seeding(0, accMode.titles, CodesHere, grants, NothingStored, None)]
    BY <1>5 DEF EnsureCanonicalPermissions
  <2>2. PICK x : x = Seeding(0, accMode.titles, CodesHere, grants, NothingStored, None)
    OBVIOUS
  <2>3. x.op = "seed"
    BY <2>2 DEF Seeding
  <2>. QED  BY <1>5, <2>1, <2>2, <2>3 DEF EnsureCanonicalPermissions, permissionVars
<1>6. CASE SeedTitle(w)
  <2>1. PICK s, title, x : /\ s = accSession[w] /\ title = CHOOSE t \in s.titles : TRUE
                           /\ x = [s EXCEPT !.titles = s.titles \ {title}]
    OBVIOUS
  <2>2. s \in SeedRequests
    BY <1>6, <2>1, SeedingIs DEF SeedTitle
  <2>3. accSession' = [accSession EXCEPT ![w] = x] /\ UNCHANGED <<permRow, granted, asked>>
    BY <1>6, <2>1 DEF SeedTitle
  <2>4. x.op = "seed"
    BY <2>1, <2>2 DEF SeedRequests
  <2>. QED  BY <2>3, <2>4
<1>7. CASE SeedCode(w)
  <2>1. /\ UNCHANGED <<granted, asked>>
        /\ \E x : accSession' = [accSession EXCEPT ![w] = x] /\ (x # None => x.op = "seed")
    <3>1. PICK s : s = accSession[w]
      OBVIOUS
    <3>2. /\ UNCHANGED <<granted, asked>>
          /\ \/ accSession' = [accSession EXCEPT ![w] = None]
             \/ \E code, row, x : CodeSeeded(w, s, code, row, x)
      BY <1>7, <3>1, SeedCodeDoes
    <3>. QED  BY <3>2 DEF CodeSeeded
  <2>. QED  BY <1>7, <2>1, RowsStay
<1>8. CASE EndMigration(w) \/ EndRepair(w) \/ BreakOff(w)
  BY <1>8 DEF EndMigration, EndRepair, BreakOff, permissionVars
<1>. QED  BY <1>2, <1>3, <1>4, <1>5, <1>6, <1>7, <1>8 DEF QuietMove

(* Every step keeps the invariant of the grants.                           *)
LEMMA GrantsStayBacked ==
  ASSUME SetupTyped, GrantsBacked, [SetupNext]_setupVars
  PROVE  GrantsBacked'
<1>1. ASSUME NEW w \in Workers, UNCHANGED accMode, AccessMove(w)  PROVE GrantsBacked'
  <2>1. CASE QuietMove(w)
    <3>1. PICK x : /\ accSession' = [accSession EXCEPT ![w] = x]
                   /\ x # None => x.op # "assign" /\ (x.op = "migrate" => x.stage # "grant")
      BY <2>1, QuietSessions
    <3>. QED  BY <1>1, <2>1, <3>1, QuietSessions, GrantsLeftAlone
  <2>2. CASE \/ \E title \in accMode.titles, rows \in SUBSET ExistingRows :
                  LoadAssignment(w, title, rows)
             \/ CommitAssignment(w)
    BY <1>1, <2>2, AssignmentReplaces
  <2>3. CASE ClearGrants(w) \/ GrantMigrated(w)
    BY <1>1, <2>3, MigrationReplaces
  <2>4. CASE SeedGrants(w)
    BY <1>1, <2>4, SeedingReplaces
  <2>. QED  BY <1>1, <2>1, <2>2, <2>3, <2>4 DEF AccessMove, QuietMove
<1>2. ASSUME NEW w \in Workers, UNCHANGED accMode, WizardMove(w)  PROVE GrantsBacked'
  <2>1. /\ UNCHANGED <<permRow, titleRows, granted, asked>>
        /\ \E x : /\ accSession' = [accSession EXCEPT ![w] = x]
                  /\ x # None => x.op # "assign" /\ x.op # "migrate"
    BY <1>2, WizardSessions DEF Seeding, ShortOps
  <2>2. PICK x : /\ accSession' = [accSession EXCEPT ![w] = x]
                 /\ x # None => x.op # "assign" /\ x.op # "migrate"
    BY <2>1
  <2>. QED  BY <1>2, <2>1, <2>2, GrantsLeftAlone
<1>3. CASE UNCHANGED setupVars
  <2>1. UNCHANGED <<accMode, permRow, granted, asked, accSession>>
    BY <1>3 DEF setupVars, accVars
  <2>. QED  BY <2>1 DEF GrantsBacked, GrantsRest, PermissionsReplaced, GrantedTo, ExistingRows, GrantsOf
<1>. QED  BY <1>1, <1>2, <1>3, SetupMoves

(* After every assignment, migration, seeding and repair a title is        *)
(* granted what was asked for last; if assignments overlap, nothing that   *)
(* was asked for is missing.                                               *)
THEOREM GrantsAreReplaced == SetupSpec => []PermissionsReplaced
<1>1. SetupInit => GrantsBacked
  BY DEF SetupInit, AccessInit, GrantsBacked, PermissionsReplaced, GrantedTo
<1>2. SetupTyped /\ GrantsBacked /\ [SetupNext]_setupVars => GrantsBacked'
  BY GrantsStayBacked
<1>3. GrantsBacked => PermissionsReplaced
  BY DEF GrantsBacked
<1>. QED  BY <1>1, <1>2, <1>3, SetupIsTyped, PTL DEF SetupSpec

-----------------------------------------------------------------------------
(* The catalog.  Remembered ids are those of rows with the codes, as long  *)
(* as nobody renames codes, and without overlap all of them are remembered *)
(* or none, under ids of their own.                                        *)
CodesNamed(codes) ==
  \A c \in CodesHere : codes[c] # None =>
    permRow[codes[c]] # None /\ permRow[codes[c]].code = c

CodesWhole(codes) ==
  /\ (\A c \in CodesHere : codes[c] = None) \/ (\A c \in CodesHere : codes[c] # None)
  /\ \A c, d \in CodesHere : codes[c] # None /\ codes[c] = codes[d] => c = d

CodesFine(codes) ==
  ("edit" \notin accMode.ops => CodesNamed(codes)) /\ (accMode.serial => CodesWhole(codes))

(* A seeding under way: the codes done are on active rows of their own.    *)
CodesInOrder(left, stored) ==
  /\ \A c \in CodesHere \ left : stored[c] # None /\ permRow[stored[c]] = PermissionRow(c, TRUE)
  /\ (\A c \in left : stored[c] = None) \/ (\A c \in left : stored[c] # None)
  /\ \A c, d \in CodesHere : stored[c] # None /\ stored[c] = stored[d] => c = d

CatalogRest(s) ==
  /\ s.op \in {"units", "staff"} \cup ShortOps => CodesFine(s.state.codes)
  /\ s.op = "seed" /\ s.step # 0 => CodesFine(s.state.codes)
  /\ s.op = "seed" /\ "edit" \notin accMode.ops => CodesNamed(s.stored)
  /\ s.op = "seed" /\ s.step \in {0, 4} /\ accMode.serial => CodesInOrder(s.codes, s.stored)

CatalogBacked ==
  /\ CodesFine(wizard.codes)
  /\ \A v \in Workers : accSession[v] # None => CatalogRest(accSession[v])

NamesStay ==
  \A r \in RowIds : permRow[r] # None => permRow'[r] # None /\ permRow'[r].code = permRow[r].code

(* Remembered ids stay fine while rows keep their codes.                   *)
LEMMA CodesStayFine ==
  ASSUME accMode' = accMode, "edit" \in accMode.ops \/ NamesStay,
         NEW codes \in [CodesHere -> Maybe(RowIds)]
  PROVE  /\ "edit" \notin accMode.ops /\ CodesNamed(codes) => CodesNamed(codes)'
         /\ CodesFine(codes) => CodesFine(codes)'
<1>1. CodesHere' = CodesHere
  BY ModeKeeps
<1>2. "edit" \notin accMode.ops /\ CodesNamed(codes) => CodesNamed(codes)'
  BY <1>1 DEF CodesNamed, NamesStay, Maybe
<1>3. CodesWhole(codes) => CodesWhole(codes)'
  BY <1>1 DEF CodesWhole
<1>. QED  BY <1>2, <1>3 DEF CodesFine

(* A session goes on to x, and rows keep their codes.                      *)
LEMMA CatalogGoesOn ==
  ASSUME SetupTyped, CatalogBacked, NEW w \in Workers, NEW x, accMode' = accMode,
         accSession' = [accSession EXCEPT ![w] = x], accMode.serial => w = TheWorker,
         "edit" \in accMode.ops \/ NamesStay,
         x # None => CatalogRest(x)', CodesFine(wizard.codes)'
  PROVE  CatalogBacked'
<1>1. /\ accSession \in [Workers -> Maybe(Requests)]
      /\ accMode.serial => \A v \in Workers : accSession[v] # None => v = TheWorker
  BY DEF SetupTyped, SessionsTyped
<1>2. ASSUME NEW v \in Workers, v # w, accSession'[v] # None
      PROVE  \E s : s = accSession'[v] /\ CatalogRest(s)'
  <2>1. PICK s : s = accSession[v]
    OBVIOUS
  <2>2. s = accSession'[v] /\ s \in Requests /\ CatalogRest(s) /\ ~accMode.serial
    BY <1>1, <1>2, <2>1 DEF CatalogBacked, Maybe
  <2>3. /\ s.op = "seed" => s.stored \in [CodesHere -> Maybe(RowIds)]
        /\ s.op \in {"units", "staff"} \cup ShortOps => s.state.codes \in [CodesHere -> Maybe(RowIds)]
    BY <2>2, RequestOf DEF SeedRequests, UnitRequests, StaffRequests, ShortRequests, WizardStates
  <2>4. s.op = "seed" /\ s.step # 0 => s.state.codes \in [CodesHere -> Maybe(RowIds)]
    BY <1>2, <2>1, <2>2 DEF SetupTyped, SessionsPrepared, Prepared, WizardStates
  <2>5. CatalogRest(s)'
    BY <2>2, <2>3, <2>4, CodesStayFine DEF CatalogRest
  <2>. QED  BY <2>2, <2>5
<1>3. accSession'[w] = x
  BY <1>1
<1>4. \A v \in Workers : accSession'[v] # None => \E s : s = accSession'[v] /\ CatalogRest(s)'
  BY <1>2, <1>3
<1>5. (\A v \in Workers : accSession[v] # None => CatalogRest(accSession[v]))'
  BY <1>4 DEF CatalogRest
<1>. QED  BY <1>5 DEF CatalogBacked

(* Without edits, no step renames a code.                                  *)
LEMMA MigrationRenamesNone ==
  ASSUME SetupTyped, NEW w \in Workers, MigrateCodes(w)
  PROVE  NamesStay
<1>1. PICK codes : codes = MissingCodes
  OBVIOUS
<1>2. \/ permRow' = permRow
      \/ \E id \in Injection(codes, FreeRows) : permRow' = WithRows(id)
  BY <1>1 DEF MigrateCodes, OneOf
<1>3. ASSUME NEW id \in Injection(codes, FreeRows), permRow' = WithRows(id), NEW r \in RowIds,
             permRow[r] # None
      PROVE  permRow'[r] = permRow[r]
  <2>1. \/ WithRows(id)[r] = permRow[r]
        \/ permRow[r] = None
    BY ONLY r \in RowIds, WithRowsIs, id \in Injection(codes, FreeRows)
  <2>. QED  BY <1>3, <2>1
<1>. QED  BY <1>2, <1>3 DEF NamesStay

(* A seeding stays in order from one code to the next.                     *)
LEMMA SeedingInOrder ==
  ASSUME SetupTyped, CatalogBacked, NEW w \in Workers, accMode' = accMode,
         NEW s, s = accSession[w], s \in SeedRequests, s.op = "seed", s # None,
         NEW code \in s.codes, NEW row, NEW x, CodeSeeded(w, s, code, row, x)
  PROVE  /\ "edit" \in accMode.ops \/ NamesStay
         /\ CatalogRest(x)'
<1>1. /\ permRow \in [RowIds -> Maybe(PermissionRows(accMode.codes))]
      /\ None \notin PermissionRows(accMode.codes)
  BY AccessModesAreTyped DEF SetupTyped, TablesTyped
<1>2. code \in CodesHere /\ s.codes \subseteq CodesHere /\ s.stored \in [CodesHere -> Maybe(RowIds)]
  BY DEF SeedRequests
<1>3. code \in accMode.codes /\ PermissionRow(code, TRUE).code = code
      /\ PermissionRow(code, TRUE) \in PermissionRows(accMode.codes)
  BY <1>2 DEF CodesHere, PermissionRow, PermissionRows
<1>4. CatalogRest(s)
  BY DEF CatalogBacked
<1>5. PICK new, stored : new = PermissionRow(code, TRUE) /\ stored = s.stored
  OBVIOUS
<1>6. /\ row \in RowIds /\ permRow' = [permRow EXCEPT ![row] = new]
      /\ x.op = "seed" /\ x.step = s.step /\ x.state = s.state
      /\ x.codes = s.codes \ {code} /\ x.stored = [stored EXCEPT ![code] = row]
  BY <1>5 DEF CodeSeeded
<1>7. \/ stored[code] # None /\ row = stored[code]
      \/ stored[code] = None /\ permRow[row] # None /\ permRow[row].code = code
      \/ stored[code] = None /\ permRow[row] = None
  <2>1. row \in RowFor(stored[code], code)
    BY <1>5 DEF CodeSeeded
  <2>. QED  BY <2>1 DEF RowFor, OneOf, RowWithCode, FreeRows, ExistingRows
<1>8. new # None /\ new.code = code
  BY <1>1, <1>3, <1>5
<1>9. ASSUME "edit" \notin accMode.ops
      PROVE  NamesStay /\ CodesNamed(x.stored)'
  <2>1. CodesNamed(stored)
    BY <1>4, <1>5, <1>9 DEF CatalogRest
  <2>2. permRow[row] # None => permRow[row].code = code
    BY <1>2, <1>7, <2>1 DEF CodesNamed
  <2>3. NamesStay
    BY <1>1, <1>6, <1>8, <2>2 DEF NamesStay
  <2>4. ASSUME NEW c \in CodesHere, x.stored[c] # None
        PROVE  permRow'[x.stored[c]] # None /\ permRow'[x.stored[c]].code = c
    <3>1. CASE c = code
      BY <1>1, <1>2, <1>5, <1>6, <1>8, <3>1
    <3>2. CASE c # code
      <4>1. x.stored[c] = stored[c] /\ stored[c] \in RowIds
        BY <1>2, <1>5, <1>6, <2>4, <3>2 DEF Maybe
      <4>. QED  BY <2>1, <2>3, <2>4, <4>1 DEF CodesNamed, NamesStay
    <3>. QED  BY <3>1, <3>2
  <2>. QED  BY <2>3, <2>4, ModeKeeps DEF CodesNamed
<1>10. ASSUME accMode.serial, s.step \in {0, 4}  PROVE CodesInOrder(x.codes, x.stored)'
  <2>1. CodesInOrder(s.codes, stored)
    BY <1>4, <1>5, <1>10 DEF CatalogRest
  <2>2. ASSUME NEW c \in CodesHere, c # code, stored[c] = row  PROVE FALSE
    <3>1. stored[code] = None
      BY <1>2, <1>6, <1>7, <2>1, <2>2 DEF CodesInOrder
    <3>2. \A d \in s.codes : stored[d] = None
      BY <1>2, <2>1, <3>1 DEF CodesInOrder
    <3>3. c \notin s.codes
      BY <1>6, <2>2, <3>2, AccessModesAreTyped
    <3>4. permRow[row] = PermissionRow(c, TRUE)
      BY <2>1, <2>2, <3>3 DEF CodesInOrder
    <3>5. permRow[row].code = c /\ permRow[row] # None
      <4>1. c \in accMode.codes
        BY DEF CodesHere
      <4>2. /\ PermissionRow(c, TRUE).code = c
            /\ PermissionRow(c, TRUE) \in PermissionRows(accMode.codes)
        BY <4>1 DEF PermissionRow, PermissionRows
      <4>. QED  BY <1>1, <3>4, <4>2
    <3>. QED  BY <1>7, <2>2, <3>1, <3>5
  <2>3. x.stored[code] = row /\ \A c \in CodesHere : c # code => x.stored[c] = stored[c]
    BY <1>2, <1>5, <1>6
  <2>4. row # None /\ permRow'[row] = new
    BY <1>1, <1>6, AccessModesAreTyped
  <2>5. ASSUME NEW c \in CodesHere, c \notin x.codes
        PROVE  x.stored[c] # None /\ permRow'[x.stored[c]] = PermissionRow(c, TRUE)
    <3>1. CASE c = code
      BY <1>5, <2>3, <2>4, <3>1
    <3>2. CASE c # code
      <4>1. c \notin s.codes /\ x.stored[c] = stored[c]
        BY <1>6, <2>3, <2>5, <3>2
      <4>2. stored[c] # None /\ permRow[stored[c]] = PermissionRow(c, TRUE) /\ stored[c] \in RowIds
        BY <1>2, <1>5, <2>1, <4>1 DEF CodesInOrder, Maybe
      <4>3. stored[c] # row
        BY <2>2, <3>2
      <4>. QED  BY <1>1, <1>6, <4>1, <4>2, <4>3
    <3>. QED  BY <3>1, <3>2
  <2>6. (\A c \in x.codes : x.stored[c] = None) \/ (\A c \in x.codes : x.stored[c] # None)
    BY <1>2, <1>6, <2>1, <2>3 DEF CodesInOrder
  <2>7. ASSUME NEW c \in CodesHere, NEW d \in CodesHere, x.stored[c] # None,
               x.stored[c] = x.stored[d]
        PROVE  c = d
    BY <2>1, <2>2, <2>3, <2>7 DEF CodesInOrder
  <2>. QED  BY <2>5, <2>6, <2>7, ModeKeeps DEF CodesInOrder, PermissionRow
<1>11. s.op = "seed" /\ s.step # 0 => CodesFine(s.state.codes) /\ s.state \in WizardStates
  BY <1>4 DEF CatalogRest, SetupTyped, SessionsPrepared, Prepared
<1>12. s.step # 0 => CodesFine(x.state.codes)'
  BY <1>6, <1>9, <1>11, CodesStayFine DEF WizardStates
<1>. QED  BY <1>6, <1>9, <1>10, <1>12 DEF CatalogRest, ShortOps

(* The moves of the permissions keep the invariant of the catalog.         *)
LEMMA CatalogStaysInAccess ==
  ASSUME SetupTyped, CatalogBacked, NEW w \in Workers, UNCHANGED <<accMode, WizardTables>>,
         AccessMove(w)
  PROVE  CatalogBacked'
<1>1. accMode' = accMode /\ wizard' = wizard
  BY DEF WizardTables
<1>2. /\ accSession \in [Workers -> Maybe(Requests)]
      /\ accMode.serial /\ accSession[w] # None => w = TheWorker
      /\ wizard.codes \in [CodesHere -> Maybe(RowIds)]
  BY DEF SetupTyped, SessionsTyped, TablesTyped, WizardStates
<1>3. \/ MayServe(accSession, w, accMode.serial) \/ MayServe(accSession, w, TRUE)
      => (accMode.serial => w = TheWorker)
  BY DEF MayServe, TheWorker
<1>4. ASSUME NEW x, accSession' = [accSession EXCEPT ![w] = x], accMode.serial => w = TheWorker,
             "edit" \in accMode.ops \/ NamesStay, x # None => CatalogRest(x)'
      PROVE  CatalogBacked'
  <2>1. CodesFine(wizard.codes)'
    <3>1. CodesFine(wizard.codes) /\ CodesHere' = CodesHere
      BY <1>1, ModeKeeps DEF CatalogBacked
    <3>. QED  BY <1>1, <1>2, <1>4, <3>1, CodesStayFine DEF CodesFine, CodesNamed, CodesWhole
  <2>. QED  BY <1>1, <1>4, <2>1, CatalogGoesOn
<1>5. permRow' = permRow => NamesStay
  BY DEF NamesStay
<1>6. CASE "edit" \in accMode.ops /\ EditMove(w)
  <2>1. MayServe(accSession, w, TRUE) /\ UNCHANGED accSession
    BY <1>6 DEF EditMove, CreatePermission, UpdatePermission
  <2>2. accSession' = [accSession EXCEPT ![w] = None]
    BY <1>2, <2>1 DEF MayServe
  <2>. QED  BY <1>3, <1>4, <1>6, <2>1, <2>2
<1>7. ASSUME NEW title \in accMode.titles, NEW rows \in SUBSET ExistingRows,
             LoadAssignment(w, title, rows)
      PROVE  CatalogBacked'
  <2>1. PICK x : x = [op |-> "assign", title |-> title, rows |-> rows,
                      deleted |-> GrantsOf(title, GrantedTo(title))]
    OBVIOUS
  <2>2. x.op = "assign"
    BY <2>1
  <2>3. CatalogRest(x)'
    BY <2>2 DEF CatalogRest, ShortOps
  <2>4. /\ accSession' = [accSession EXCEPT ![w] = x] /\ permRow' = permRow
        /\ MayServe(accSession, w, accMode.serial)
    BY <1>7, <2>1 DEF LoadAssignment, permissionVars
  <2>. QED  BY <1>3, <1>4, <1>5, <2>3, <2>4
<1>8. CASE CommitAssignment(w) \/ EndMigration(w) \/ EndRepair(w) \/ BreakOff(w)
  <2>1. accSession[w] # None /\ accSession' = [accSession EXCEPT ![w] = None] /\ permRow' = permRow
    BY <1>8 DEF CommitAssignment, EndMigration, EndRepair, BreakOff, Migrating, Seeded, IsSeeding,
       permissionVars
  <2>. QED  BY <1>2, <1>4, <1>5, <2>1
<1>9. CASE BeginMigration(w)
  <2>1. PICK x : x = [op |-> "migrate", stage |-> "codes"]
    OBVIOUS
  <2>2. x.op = "migrate"
    BY <2>1
  <2>3. CatalogRest(x)'
    BY <2>2 DEF CatalogRest, ShortOps
  <2>4. /\ accSession' = [accSession EXCEPT ![w] = x] /\ permRow' = permRow
        /\ MayServe(accSession, w, accMode.serial)
    BY <1>9, <2>1 DEF BeginMigration, permissionVars
  <2>. QED  BY <1>3, <1>4, <1>5, <2>3, <2>4
<1>10. CASE MigrateCodes(w) \/ ClearGrants(w) \/ GrantMigrated(w)
  <2>1. PICK s : s = accSession[w]
    OBVIOUS
  <2>2. /\ s # None /\ s.op = "migrate"
        /\ \E stage : accSession' = [accSession EXCEPT ![w].stage = stage]
    BY <1>10, <2>1 DEF MigrateCodes, ClearGrants, GrantMigrated, Migrating
  <2>3. PICK stage : accSession' = [accSession EXCEPT ![w].stage = stage]
    BY <2>2
  <2>4. PICK x : x = [s EXCEPT !.stage = stage]
    OBVIOUS
  <2>5. s \in MigrateRequests
    BY <1>2, <2>1, <2>2, RequestOf DEF Maybe
  <2>6. x.op = "migrate"
    BY <2>4, <2>5 DEF MigrateRequests
  <2>7. CatalogRest(x)'
    BY <2>6 DEF CatalogRest, ShortOps
  <2>8. accSession' = [accSession EXCEPT ![w] = x]
    BY <2>1, <2>3, <2>4
  <2>9. NamesStay
    BY <1>5, <1>10, MigrationRenamesNone DEF ClearGrants, GrantMigrated
  <2>. QED  BY <1>2, <1>4, <2>1, <2>2, <2>7, <2>8, <2>9
<1>11. CASE EnsureCanonicalPermissions(w)
  <2>1. PICK grants :
          accSession' = [accSession EXCEPT ![w] =
            Seeding(0, accMode.titles, CodesHere, grants, NothingStored, None)]
    BY <1>11 DEF EnsureCanonicalPermissions
  <2>2. PICK x : x = Seeding(0, accMode.titles, CodesHere, grants, NothingStored, None)
    OBVIOUS
  <2>3. /\ x.op = "seed" /\ x.step = 0 /\ x.codes = CodesHere
        /\ \A c \in CodesHere : x.stored[c] = None
    BY <2>2 DEF Seeding, NothingStored
  <2>4. CodesInOrder(x.codes, x.stored)' /\ CodesNamed(x.stored)'
    BY <1>1, <2>3, ModeKeeps DEF CodesInOrder, CodesNamed
  <2>5. CatalogRest(x)'
    BY <2>3, <2>4 DEF CatalogRest, ShortOps
  <2>6. permRow' = permRow /\ MayServe(accSession, w, accMode.serial)
    BY <1>11 DEF EnsureCanonicalPermissions, permissionVars
  <2>. QED  BY <1>3, <1>4, <1>5, <2>1, <2>2, <2>5, <2>6
<1>12. ASSUME NEW x \in SeedRequests, IsSeeding(w), accSession' = [accSession EXCEPT ![w] = x],
              x.codes = accSession[w].codes, x.stored = accSession[w].stored,
              x.step = accSession[w].step, x.state = accSession[w].state, permRow' = permRow
       PROVE  CatalogBacked'
  <2>1. PICK s : s = accSession[w]
    OBVIOUS
  <2>2. s # None /\ s \in SeedRequests /\ s.op = "seed" /\ x.op = "seed"
    BY <1>12, <2>1, SeedingIs DEF SeedRequests
  <2>3. CatalogRest(s)
    BY <2>1, <2>2 DEF CatalogBacked
  <2>4. CatalogRest(x)
    BY <1>12, <2>1, <2>2, <2>3 DEF CatalogRest
  <2>5. CatalogRest(x)'
    BY <1>1, <1>12, <2>4, ModeKeeps
       DEF CatalogRest, CodesFine, CodesNamed, CodesWhole, CodesInOrder, PermissionRow
  <2>. QED  BY <1>2, <1>4, <1>5, <1>12, <2>1, <2>2, <2>5
<1>13. CASE SeedTitle(w)
  <2>1. PICK s, title, x : /\ s = accSession[w] /\ title = CHOOSE t \in s.titles : TRUE
                           /\ x = [s EXCEPT !.titles = s.titles \ {title}]
    OBVIOUS
  <2>2. s \in SeedRequests
    BY <1>13, <2>1, SeedingIs DEF SeedTitle
  <2>3. accSession' = [accSession EXCEPT ![w] = x] /\ UNCHANGED permRow /\ IsSeeding(w)
    BY <1>13, <2>1 DEF SeedTitle
  <2>4. /\ x \in SeedRequests /\ x.codes = s.codes /\ x.stored = s.stored /\ x.step = s.step
        /\ x.state = s.state
    BY <2>1, <2>2 DEF SeedRequests
  <2>. QED  BY <1>12, <2>1, <2>3, <2>4
<1>14. CASE SeedGrants(w)
  <2>1. PICK s : s = accSession[w]
    OBVIOUS
  <2>2. /\ UNCHANGED permRow /\ IsSeeding(w) /\ s # None
        /\ \/ accSession' = [accSession EXCEPT ![w] = None]
           \/ \E title, rows, deleted, x : GrantsSeeded(w, s, title, rows, deleted, x)
    BY <1>14, <2>1, SeedGrantsDoes
  <2>3. CASE accSession' = [accSession EXCEPT ![w] = None]
    BY <1>2, <1>4, <1>5, <2>1, <2>2, <2>3
  <2>4. CASE \E title, rows, deleted, x : GrantsSeeded(w, s, title, rows, deleted, x)
    BY <1>12, <2>1, <2>2, <2>4 DEF GrantsSeeded
  <2>. QED  BY <2>2, <2>3, <2>4
<1>15. CASE SeedCode(w)
  <2>1. PICK s : s = accSession[w]
    OBVIOUS
  <2>2. /\ s \in SeedRequests /\ s # None /\ s.op = "seed"
        /\ \E code \in s.codes :
             \/ permRow' = permRow /\ accSession' = [accSession EXCEPT ![w] = None]
             \/ \E row, x : CodeSeeded(w, s, code, row, x)
    BY <1>15, <2>1, SeedCodeDoes
  <2>3. CASE permRow' = permRow /\ accSession' = [accSession EXCEPT ![w] = None]
    BY <1>2, <1>4, <1>5, <2>1, <2>2, <2>3
  <2>4. ASSUME NEW code \in s.codes, NEW row, NEW x, CodeSeeded(w, s, code, row, x)
        PROVE  CatalogBacked'
    <3>1. ("edit" \in accMode.ops \/ NamesStay) /\ CatalogRest(x)'
      BY <1>1, <2>1, <2>2, <2>4, SeedingInOrder
    <3>2. accSession' = [accSession EXCEPT ![w] = x]
      BY <2>4 DEF CodeSeeded
    <3>. QED  BY <1>2, <1>4, <2>1, <2>2, <3>1, <3>2
  <2>. QED  BY <2>2, <2>3, <2>4
<1>. QED  BY <1>6, <1>7, <1>8, <1>9, <1>10, <1>11, <1>13, <1>14, <1>15 DEF AccessMove

(* The moves of the wizard keep it.                                        *)
LEMMA CatalogStaysInWizard ==
  ASSUME SetupTyped, CatalogBacked, NEW w \in Workers, UNCHANGED accMode, WizardMove(w)
  PROVE  CatalogBacked'
<1>1. /\ accSession \in [Workers -> Maybe(Requests)]
      /\ accMode.serial /\ accSession[w] # None => w = TheWorker
      /\ wizard \in WizardStates
  BY DEF SetupTyped, SessionsTyped, TablesTyped
<1>2. permRow' = permRow /\ NamesStay /\ (accMode.serial => w = TheWorker)
  BY <1>1, WizardSessions DEF NamesStay, MayServe, TheWorker
<1>3. ASSUME NEW codes, CodesFine(codes)  PROVE CodesFine(codes)'
  BY <1>2, <1>3, ModeKeeps DEF CodesFine, CodesNamed, CodesWhole
<1>4. CodesFine(wizard.codes) /\ \A v \in Workers : accSession[v] # None => CatalogRest(accSession[v])
  BY DEF CatalogBacked
<1>5. PICK codes : codes = wizard'.codes
  OBVIOUS
<1>6. CodesFine(codes)
  <2>1. CASE wizard'.codes = wizard.codes
    BY <1>4, <1>5, <2>1
  <2>2. CASE PersistUnits(w) \/ PersistSeeding(w) \/ PersistStaff(w)
    <3>1. PICK s : s = accSession[w]
      OBVIOUS
    <3>2. PICK state \in WizardStates :
            /\ Persist(w, state)
            /\ \/ s.op \in {"units", "staff"} /\ state.codes = s.state.codes
               \/ /\ s.op = "seed" /\ s \in SeedRequests /\ Seeded(w) /\ s.step # 0
                  /\ \E old \in WizardStates :
                       /\ old = (IF s.step = 5 THEN wizard ELSE s.state)
                       /\ state.codes = (IF s.step = 4 THEN s.stored ELSE old.codes)
      BY <2>2, <3>1, PersistDoes
    <3>3. s # None /\ CatalogRest(s) /\ codes = state.codes
      BY <1>4, <1>5, <2>2, <3>1, <3>2, PersistDoes DEF Persist
    <3>4. CASE s.op \in {"units", "staff"} /\ state.codes = s.state.codes
      BY <3>3, <3>4 DEF CatalogRest
    <3>5. CASE /\ s.op = "seed" /\ s \in SeedRequests /\ Seeded(w) /\ s.step # 0
               /\ state.codes = (IF s.step = 4 THEN s.stored
                                 ELSE IF s.step = 5 THEN wizard.codes ELSE s.state.codes)
      <4>1. CASE s.step # 4
        BY <1>4, <3>3, <3>5, <4>1 DEF CatalogRest
      <4>2. CASE s.step = 4
        <5>1. s.codes = {}
          BY <3>1, <3>5 DEF Seeded
        <5>2. "edit" \notin accMode.ops => CodesNamed(s.stored)
          BY <3>3, <3>5 DEF CatalogRest
        <5>3. accMode.serial => CodesWhole(s.stored)
          BY <3>3, <3>5, <4>2, <5>1 DEF CatalogRest, CodesInOrder, CodesWhole
        <5>. QED  BY <3>3, <3>5, <4>2, <5>2, <5>3 DEF CodesFine
      <4>. QED  BY <4>1, <4>2
    <3>. QED  BY <3>2, <3>4, <3>5
  <2>3. CASE /\ accSession[w] # None /\ accSession[w].op \in ShortOps
             /\ wizard'.codes = accSession[w].state.codes
    BY <1>4, <1>5, <2>3 DEF CatalogRest
  <2>. QED  BY <2>1, <2>2, <2>3, WizardSessions
<1>7. CodesFine(wizard.codes)'
  BY <1>3, <1>5, <1>6, <1>2, ModeKeeps DEF CodesFine, CodesNamed, CodesWhole
<1>8. PICK x : /\ accSession' = [accSession EXCEPT ![w] = x]
               /\ \/ x = None
                  \/ /\ x.op \in {"units", "staff"} \cup ShortOps /\ x.state \in WizardStates
                     /\ \/ x.state.codes = wizard.codes
                        \/ /\ accSession[w] # None /\ accSession[w].op \in {"units", "staff"}
                           /\ x.state.codes = accSession[w].state.codes
                  \/ /\ ~installed /\ accSession[w] = None
                     /\ \/ x = Seeding(3, accMode.titles, {}, {}, NothingStored, wizard)
                        \/ x = Seeding(4, {}, CodesHere, {}, wizard.codes, wizard)
                        \/ x = Seeding(5, {}, {}, accMode.titles, NothingStored, wizard)
  BY WizardSessions
<1>9. x # None => CatalogRest(x)
  <2>1. CASE /\ x.op \in {"units", "staff"} \cup ShortOps
             /\ \/ x.state.codes = wizard.codes
                \/ /\ accSession[w] # None /\ accSession[w].op \in {"units", "staff"}
                   /\ x.state.codes = accSession[w].state.codes
    BY <1>4, <2>1 DEF CatalogRest, ShortOps
  <2>2. CASE x = Seeding(4, {}, CodesHere, {}, wizard.codes, wizard)
    <3>1. /\ x.op = "seed" /\ x.step = 4 /\ x.state = wizard /\ x.codes = CodesHere
          /\ x.stored = wizard.codes
      BY <2>2 DEF Seeding
    <3>2. accMode.serial => CodesInOrder(CodesHere, wizard.codes)
      BY <1>4 DEF CodesFine, CodesWhole, CodesInOrder
    <3>. QED  BY <1>4, <3>1, <3>2 DEF CatalogRest, CodesFine, ShortOps
  <2>3. CASE \/ x = Seeding(3, accMode.titles, {}, {}, NothingStored, wizard)
             \/ x = Seeding(5, {}, {}, accMode.titles, NothingStored, wizard)
    <3>1. /\ x.op = "seed" /\ x.step \in {3, 5} /\ x.state = wizard /\ x.stored = NothingStored
      BY <2>3 DEF Seeding
    <3>2. CodesNamed(NothingStored)
      BY DEF CodesNamed, NothingStored
    <3>. QED  BY <1>4, <3>1, <3>2 DEF CatalogRest, ShortOps
  <2>. QED  BY <1>8, <2>1, <2>2, <2>3
<1>10. x # None => CatalogRest(x)'
  BY <1>2, <1>9, ModeKeeps DEF CatalogRest, CodesFine, CodesNamed, CodesWhole, CodesInOrder,
     PermissionRow
<1>. QED  BY <1>2, <1>7, <1>8, <1>10, CatalogGoesOn

(* The ids the wizard remembers for codes are those of their rows.         *)
LEMMA CatalogIsBacked == SetupSpec => []CatalogBacked
<1>1. SetupInit => CatalogBacked
  BY DEF SetupInit, AccessInit, CatalogBacked, CodesFine, CodesNamed, CodesWhole, InitialWizard,
     NothingStored
<1>2. ASSUME SetupTyped, CatalogBacked, [SetupNext]_setupVars  PROVE CatalogBacked'
  <2>1. CASE SetupNext
    BY <1>2, <2>1, SetupMoves, CatalogStaysInAccess, CatalogStaysInWizard
  <2>2. CASE UNCHANGED setupVars
    <3>1. UNCHANGED <<accMode, permRow, accSession, wizard>>
      BY <2>2 DEF setupVars, accVars
    <3>2. ASSUME NEW codes, CodesFine(codes)  PROVE CodesFine(codes)'
      BY <3>1, <3>2, ModeKeeps DEF CodesFine, CodesNamed, CodesWhole
    <3>3. ASSUME NEW s, CatalogRest(s)  PROVE CatalogRest(s)'
      BY <3>1, <3>3, ModeKeeps DEF CatalogRest, CodesFine, CodesNamed, CodesWhole, CodesInOrder,
         PermissionRow
    <3>4. \A v \in Workers : accSession'[v] # None => \E s : s = accSession'[v] /\ CatalogRest(s)'
      BY <1>2, <3>1, <3>3 DEF CatalogBacked
    <3>5. (\A v \in Workers : accSession[v] # None => CatalogRest(accSession[v]))'
      BY <3>4 DEF CatalogRest
    <3>6. CodesFine(wizard.codes)'
      BY <1>2, <3>1, ModeKeeps DEF CatalogBacked, CodesFine, CodesNamed, CodesWhole
    <3>. QED  BY <3>5, <3>6 DEF CatalogBacked
  <2>. QED  BY <1>2, <2>1, <2>2
<1>. QED  BY <1>1, <1>2, SetupIsTyped, PTL DEF SetupSpec

(* Without overlap, every code has an active row when the catalog has been *)
(* seeded or repaired, whatever administrators renamed or deactivated.     *)
THEOREM CatalogIsRestored == SetupSpec => []CatalogRestored
<1>1. ASSUME SetupTyped, CatalogBacked  PROVE CatalogRestored
  <2>1. ASSUME NEW w \in Workers, accMode.serial, Seeded(w), accSession[w].step \in {0, 4},
               NEW code \in CodesHere
        PROVE  \E r \in RowWithCode(code) : permRow[r].active
    <3>1. PICK s : s = accSession[w]
      OBVIOUS
    <3>2. s # None /\ s \in SeedRequests /\ s.op = "seed" /\ s.codes = {}
      BY <1>1, <2>1, <3>1, SeedingIs DEF Seeded, IsSeeding
    <3>3. CodesInOrder({}, s.stored)
      BY <1>1, <2>1, <3>1, <3>2 DEF CatalogBacked, CatalogRest
    <3>4. PICK r : r = s.stored[code]
      OBVIOUS
    <3>5. r \in RowIds /\ permRow[r] = PermissionRow(code, TRUE)
      BY <3>2, <3>3, <3>4 DEF SeedRequests, CodesInOrder, Maybe
    <3>6. code \in accMode.codes
      BY DEF CodesHere
    <3>7. PermissionRow(code, TRUE) \in PermissionRows(accMode.codes)
          /\ PermissionRow(code, TRUE).code = code /\ PermissionRow(code, TRUE).active
      BY <3>6 DEF PermissionRow, PermissionRows
    <3>8. permRow[r] # None
      BY <1>1, <3>5, <3>7, AccessModesAreTyped DEF SetupTyped, TablesTyped
    <3>. QED  BY <3>5, <3>7, <3>8 DEF RowWithCode, ExistingRows
  <2>. QED  BY <2>1 DEF CatalogRestored
<1>. QED  BY <1>1, SetupIsTyped, CatalogIsBacked, PTL

-----------------------------------------------------------------------------
(* The progress of the wizard, while its steps do not overlap: units and   *)
(* employees are remembered all or not at all, and what is remembered is   *)
(* in the tables as the steps wrote it.                                    *)
SameProgress(x, y) == x.department = y.department /\ x.teams = y.teams /\ x.users = y.users

NoUnits(x) == x.department = None /\ \A i \in Slots : x.teams[i] = None

(* The department and its two teams are there.                             *)
UnitsBacked(x) ==
  /\ x.department \in UnitIds /\ unit[x.department] # None
  /\ unit[x.department].kind = "department"
  /\ \A i \in Slots : /\ x.teams[i] \in UnitIds /\ unit[x.teams[i]] # None
                      /\ unit[x.teams[i]].kind = "team" /\ unit[x.teams[i]].parent = x.department
  /\ x.teams[1] # x.teams[2]

(* They are led by the users of their roles.                               *)
HeadsAre(x, users) ==
  /\ unit[x.department].head = users[2]
  /\ \A i \in Slots : unit[x.teams[i]].head = users[i + 2]

(* The employees of the first roles are there, and are different ones.     *)
PlacesAre(x, users, next) ==
  /\ \A r \in Roles : r < next =>
       /\ users[r] \in StaffIds /\ staff[users[r]] # None
       /\ staff[users[r]].role = RoleTitle[r] /\ staff[users[r]].team = TeamFor(x, r)
  /\ \A r, q \in Roles : r < next /\ q < next /\ users[r] = users[q] => r = q

NoStaff(x) == \A r \in Roles : x.users[r] = None
StaffBacked(x) == UnitsBacked(x) /\ PlacesAre(x, x.users, 5) /\ HeadsAre(x, x.users)

Backed(x) == (NoUnits(x) \/ UnitsBacked(x)) /\ (NoStaff(x) \/ StaffBacked(x))

(* The steps under way.                                                    *)
UnitsDone(s) ==
  /\ IF s.next = 0 THEN s.state.department = None
     ELSE /\ s.state.department \in UnitIds /\ unit[s.state.department] # None
          /\ unit[s.state.department].kind = "department"
  /\ \A i \in Slots :
       IF i < s.next
       THEN /\ s.state.teams[i] \in UnitIds /\ unit[s.state.teams[i]] # None
            /\ unit[s.state.teams[i]].kind = "team" /\ unit[s.state.teams[i]].code = s.ask.teams[i]
            /\ unit[s.state.teams[i]].parent = s.state.department
       ELSE s.state.teams[i] = None

(* The units step rewrites the remembered units or adds new ones.          *)
UnitsUnderWay(s) ==
  /\ s.state.users = wizard.users
  /\ \/ /\ UnitsBacked(wizard)
        /\ s.state.department = wizard.department /\ s.state.teams = wizard.teams
     \/ NoUnits(wizard) /\ NoStaff(wizard) /\ UnitsDone(s)

(* The employees step rewrites the remembered ones or adds new ones.       *)
StaffUnderWay(s) ==
  /\ SameProgress(s.state, wizard) /\ UnitsBacked(wizard)
  /\ PlacesAre(wizard, s.made, s.next)
  /\ NoStaff(wizard) \/ \A r \in Roles : r < s.next => s.made[r] = wizard.users[r]
  /\ s.next = 6 => HeadsAre(wizard, s.made)

WizardRest(s) ==
  /\ s.op = "units" => UnitsUnderWay(s)
  /\ s.op = "staff" => StaffUnderWay(s)
  /\ (s.op = "seed" /\ s.step # 0) \/ s.op \in ShortOps => SameProgress(s.state, wizard)

WizardBacked ==
  accMode.serial =>
    Backed(wizard) /\ \A v \in Workers : accSession[v] # None => WizardRest(accSession[v])

(* The only request under way goes on to x.                                *)
LEMMA WizardGoesOn ==
  ASSUME SetupTyped, NEW w \in Workers, NEW x, accMode' = accMode,
         accSession' = [accSession EXCEPT ![w] = x], accMode.serial => w = TheWorker,
         accMode.serial => Backed(wizard)' /\ (x # None => WizardRest(x)')
  PROVE  WizardBacked'
<1>1. /\ accSession \in [Workers -> Maybe(Requests)]
      /\ accMode.serial => \A v \in Workers : accSession[v] # None => v = TheWorker
  BY DEF SetupTyped, SessionsTyped
<1>2. accMode.serial => \A v \in Workers : accSession'[v] # None => accSession'[v] = x
  BY <1>1
<1>3. accMode.serial => \A v \in Workers : accSession'[v] # None =>
        \E s : s = accSession'[v] /\ WizardRest(s)'
  BY <1>2
<1>4. accMode.serial => (\A v \in Workers : accSession[v] # None => WizardRest(accSession[v]))'
  BY <1>3 DEF WizardRest
<1>. QED  BY <1>4 DEF WizardBacked

(* States with the same units and employees are backed alike.              *)
LEMMA ProgressCarriesOver ==
  ASSUME NEW x, NEW y, SameProgress(x, y)
  PROVE  /\ UnitsBacked(y) => UnitsBacked(x)
         /\ NoUnits(y) => NoUnits(x)
         /\ NoStaff(y) => NoStaff(x)
         /\ StaffBacked(y) => StaffBacked(x)
         /\ Backed(y) => Backed(x)
         /\ \A r : TeamFor(x, r) = TeamFor(y, r)
BY DEF SameProgress, UnitsBacked, NoUnits, NoStaff, StaffBacked, Backed, PlacesAre, HeadsAre, TeamFor

(* What a session of the permissions becomes.                              *)
LEMMA AccessSessions ==
  ASSUME SetupTyped, NEW w \in Workers, AccessMove(w)
  PROVE  /\ \/ accSession[w] # None
            \/ MayServe(accSession, w, accMode.serial) \/ MayServe(accSession, w, TRUE)
         /\ \E x : /\ accSession' = [accSession EXCEPT ![w] = x]
                   /\ \/ x = None \/ x.op \in {"assign", "migrate"}
                      \/ /\ x.op = "seed"
                         /\ \/ x.step = 0
                            \/ /\ accSession[w] # None /\ accSession[w].op = "seed"
                               /\ x.step = accSession[w].step /\ x.state = accSession[w].state
<1>1. accSession \in [Workers -> Maybe(Requests)]
  BY DEF SetupTyped, SessionsTyped
<1>2. CASE EditMove(w)
  <2>1. MayServe(accSession, w, TRUE) /\ UNCHANGED accSession
    BY <1>2 DEF EditMove, CreatePermission, UpdatePermission
  <2>2. accSession' = [accSession EXCEPT ![w] = None]
    BY <1>1, <2>1 DEF MayServe
  <2>. QED  BY <2>1, <2>2
<1>3. ASSUME NEW title \in accMode.titles, NEW rows \in SUBSET ExistingRows,
             LoadAssignment(w, title, rows)
      PROVE  /\ MayServe(accSession, w, accMode.serial)
             /\ \E x : accSession' = [accSession EXCEPT ![w] = x] /\ x.op = "assign"
  <2>1. PICK x : x = [op |-> "assign", title |-> title, rows |-> rows,
                      deleted |-> GrantsOf(title, GrantedTo(title))]
    OBVIOUS
  <2>2. x.op = "assign"
    BY <2>1
  <2>. QED  BY <1>3, <2>1, <2>2 DEF LoadAssignment
<1>4. CASE CommitAssignment(w) \/ EndMigration(w) \/ EndRepair(w) \/ BreakOff(w)
  BY <1>4 DEF CommitAssignment, EndMigration, EndRepair, BreakOff, Migrating, Seeded, IsSeeding
<1>5. CASE BeginMigration(w)
  <2>1. PICK x : x = [op |-> "migrate", stage |-> "codes"]
    OBVIOUS
  <2>2. x.op = "migrate"
    BY <2>1
  <2>. QED  BY <1>5, <2>1, <2>2 DEF BeginMigration
<1>6. CASE MigrateCodes(w) \/ ClearGrants(w) \/ GrantMigrated(w)
  <2>1. PICK s : s = accSession[w]
    OBVIOUS
  <2>2. /\ s # None /\ s.op = "migrate"
        /\ \E stage : accSession' = [accSession EXCEPT ![w].stage = stage]
    BY <1>6, <2>1 DEF MigrateCodes, ClearGrants, GrantMigrated, Migrating
  <2>3. PICK stage : accSession' = [accSession EXCEPT ![w].stage = stage]
    BY <2>2
  <2>4. PICK x : x = [s EXCEPT !.stage = stage]
    OBVIOUS
  <2>5. s \in MigrateRequests
    BY <1>1, <2>1, <2>2, RequestOf DEF Maybe
  <2>6. x.op = "migrate"
    BY <2>4, <2>5 DEF MigrateRequests
  <2>7. accSession' = [accSession EXCEPT ![w] = x]
    BY <2>1, <2>3, <2>4
  <2>. QED  BY <2>1, <2>2, <2>6, <2>7
<1>7. CASE EnsureCanonicalPermissions(w)
  <2>1. PICK grants :
          accSession' = [accSession EXCEPT ![w] =
            Seeding(0, accMode.titles, CodesHere, grants, NothingStored, None)]
    BY <1>7 DEF EnsureCanonicalPermissions
  <2>2. PICK x : x = Seeding(0, accMode.titles, CodesHere, grants, NothingStored, None)
    OBVIOUS
  <2>3. x.op = "seed" /\ x.step = 0
    BY <2>2 DEF Seeding
  <2>. QED  BY <1>7, <2>1, <2>2, <2>3 DEF EnsureCanonicalPermissions
<1>8. CASE SeedTitle(w)
  <2>1. PICK s, title, x : /\ s = accSession[w] /\ title = CHOOSE t \in s.titles : TRUE
                           /\ x = [s EXCEPT !.titles = s.titles \ {title}]
    OBVIOUS
  <2>2. s \in SeedRequests /\ s # None
    BY <1>8, <2>1, SeedingIs DEF SeedTitle
  <2>3. accSession' = [accSession EXCEPT ![w] = x]
    BY <1>8, <2>1 DEF SeedTitle
  <2>4. s.op = "seed" /\ x.op = "seed" /\ x.step = s.step /\ x.state = s.state
    BY <2>1, <2>2 DEF SeedRequests
  <2>. QED  BY <2>1, <2>2, <2>3, <2>4
<1>9. CASE SeedGrants(w)
  <2>1. PICK s : s = accSession[w]
    OBVIOUS
  <2>2. /\ s # None /\ s.op = "seed"
        /\ \/ accSession' = [accSession EXCEPT ![w] = None]
           \/ \E title, rows, deleted, x : GrantsSeeded(w, s, title, rows, deleted, x)
    BY <1>9, <2>1, SeedGrantsDoes
  <2>. QED  BY <2>1, <2>2 DEF GrantsSeeded
<1>10. CASE SeedCode(w)
  <2>1. PICK s : s = accSession[w]
    OBVIOUS
  <2>2. /\ s # None /\ s.op = "seed"
        /\ \/ accSession' = [accSession EXCEPT ![w] = None]
           \/ \E code, row, x : CodeSeeded(w, s, code, row, x)
    BY <1>10, <2>1, SeedCodeDoes
  <2>. QED  BY <2>1, <2>2 DEF CodeSeeded
<1>. QED  BY <1>2, <1>3, <1>4, <1>5, <1>6, <1>7, <1>8, <1>9, <1>10 DEF AccessMove

(* The moves of the permissions leave units and employees alone.           *)
LEMMA ProgressStaysInAccess ==
  ASSUME SetupTyped, WizardBacked, NEW w \in Workers, UNCHANGED <<accMode, WizardTables>>,
         AccessMove(w)
  PROVE  WizardBacked'
<1>1. UNCHANGED <<accMode, wizard, unit, staff>>
  BY DEF WizardTables
<1>2. PICK x : /\ accSession' = [accSession EXCEPT ![w] = x]
               /\ \/ x = None \/ x.op \in {"assign", "migrate"}
                  \/ /\ x.op = "seed"
                     /\ \/ x.step = 0
                        \/ /\ accSession[w] # None /\ accSession[w].op = "seed"
                           /\ x.step = accSession[w].step /\ x.state = accSession[w].state
  BY AccessSessions
<1>3. accMode.serial => w = TheWorker
  BY AccessSessions DEF MayServe, TheWorker, SetupTyped, SessionsTyped
<1>4. accMode.serial => Backed(wizard)'
  BY <1>1 DEF WizardBacked, Backed, NoUnits, UnitsBacked, NoStaff, StaffBacked, PlacesAre, HeadsAre,
     TeamFor
<1>5. accMode.serial /\ x # None => WizardRest(x)'
  BY <1>1, <1>2 DEF WizardBacked, WizardRest, SameProgress, ShortOps
<1>. QED  BY <1>1, <1>2, <1>3, <1>4, <1>5, WizardGoesOn

(* What is backed stays so while units keep their kinds, parents and heads.*)
LEMMA UnitsStayBacked ==
  ASSUME NEW x, UnitsBacked(x),
         \A u \in UnitIds : u \in StoredUnits(x) =>
           unit'[u] # None /\ unit'[u].kind = unit[u].kind,
         \A i \in Slots : unit'[x.teams[i]].parent = unit[x.teams[i]].parent
  PROVE  /\ UnitsBacked(x)'
         /\ UNCHANGED staff /\ StaffBacked(x)
            /\ (\A u \in UnitIds : u \in StoredUnits(x) => unit'[u].head = unit[u].head)
              => StaffBacked(x)'
<1>1. /\ x.department \in UnitIds /\ x.department \in StoredUnits(x)
      /\ \A i \in Slots : x.teams[i] \in UnitIds /\ x.teams[i] \in StoredUnits(x)
  BY DEF UnitsBacked, StoredUnits
<1>2. UnitsBacked(x)'
  BY <1>1 DEF UnitsBacked
<1>3. ASSUME UNCHANGED staff, StaffBacked(x),
             \A u \in UnitIds : u \in StoredUnits(x) => unit'[u].head = unit[u].head
      PROVE  StaffBacked(x)'
  <2>1. HeadsAre(x, x.users)'
    BY <1>1, <1>3 DEF StaffBacked, HeadsAre
  <2>2. PlacesAre(x, x.users, 5)'
    BY <1>3 DEF StaffBacked, PlacesAre, TeamFor
  <2>. QED  BY <1>2, <2>1, <2>2 DEF StaffBacked
<1>. QED  BY <1>2, <1>3

(* Saving a unit keeps what the progress remembers backed.                 *)
LEMMA SaveUnitKeepsProgress ==
  ASSUME SetupTyped, WizardBacked, NEW w \in Workers, UNCHANGED accMode, SaveUnit(w),
         accMode.serial
  PROVE  \E x : /\ accSession' = [accSession EXCEPT ![w] = x]
                /\ Backed(wizard)' /\ (x # None => WizardRest(x)')
<1>1. PICK s : s = accSession[w]
  OBVIOUS
<1>2. /\ UNCHANGED <<wizard, staff>> /\ s # None /\ s \in UnitRequests /\ s.op = "units"
      /\ s.next \in {0, 1, 2}
      /\ \/ unit' = unit /\ accSession' = [accSession EXCEPT ![w] = None]
         \/ \E u, kind, code, parent, state : UnitSaved(w, s, u, kind, code, parent, state)
  BY <1>1, SaveUnitDoes
<1>3. Backed(wizard) /\ UnitsUnderWay(s)
  BY <1>1, <1>2 DEF WizardBacked, WizardRest
<1>4. /\ wizard \in WizardStates /\ s.state \in WizardStates /\ s.ask \in UnitPayloads
      /\ unit \in [UnitIds -> Maybe(UnitRows)]
  BY <1>2 DEF SetupTyped, TablesTyped, UnitRequests
<1>5. CASE unit' = unit /\ accSession' = [accSession EXCEPT ![w] = None]
  <2>1. Backed(wizard)'
    BY <1>2, <1>3, <1>5 DEF Backed, NoUnits, UnitsBacked, NoStaff, StaffBacked, PlacesAre, HeadsAre,
       TeamFor
  <2>. QED  BY <1>5, <2>1
<1>6. ASSUME NEW u, NEW kind, NEW code, NEW parent, NEW state,
             UnitSaved(w, s, u, kind, code, parent, state)
      PROVE  \E x : /\ accSession' = [accSession EXCEPT ![w] = x]
                    /\ Backed(wizard)' /\ (x # None => WizardRest(x)')
  <2>1. PICK stored, row, x :
          /\ stored = (IF s.next = 0 THEN s.state.department ELSE s.state.teams[s.next])
          /\ row = UnitRow(u, kind, code, parent)
          /\ x = [s EXCEPT !.next = s.next + 1, !.state = state]
    OBVIOUS
  <2>2. s.next # 0 => s.next \in Slots
    BY <1>2 DEF Slots
  <2>3. stored \in Maybe(UnitIds)
    BY <1>4, <2>1, <2>2 DEF WizardStates
  <2>4. /\ u \in UnitIds /\ (stored # None => u = stored)
        /\ stored = None => \/ unit[u] # None /\ unit[u].kind = kind /\ unit[u].code = code
                            \/ unit[u] = None
    BY <1>6, <2>1, <2>3, UnitForIs DEF UnitSaved
  <2>5. /\ unit' = [unit EXCEPT ![u] = row] /\ accSession' = [accSession EXCEPT ![w] = x]
        /\ kind = (IF s.next = 0 THEN "department" ELSE "team")
        /\ code = (IF s.next = 0 THEN s.ask.department ELSE s.ask.teams[s.next])
        /\ parent = (IF s.next = 0 THEN None ELSE s.state.department)
    BY <1>6, <2>1 DEF UnitSaved
  <2>6. /\ row.kind = kind /\ row.code = code /\ row.parent = parent
        /\ unit[u] # None => row.head = unit[u].head
    BY <2>1 DEF UnitRow, HeadOf
  <2>7. /\ x.op = "units" /\ x.next = s.next + 1 /\ x.ask = s.ask /\ x.state = state
    BY <1>2, <2>1 DEF UnitRequests
  <2>8. /\ state.users = s.state.users
        /\ s.next = 0 => state.department = u /\ state.teams = s.state.teams
        /\ s.next # 0 => /\ state.department = s.state.department
                         /\ state.teams = [s.state.teams EXCEPT ![s.next] = u]
    BY <1>4, <1>6 DEF UnitSaved, WizardStates
  <2>9. s.state.teams \in [Slots -> Maybe(UnitIds)]
    BY <1>4 DEF WizardStates
  <2>10. row # None
    <3>1. HeadOf(u) \in Maybe(StaffIds)
      BY <1>4, <2>4 DEF HeadOf, Maybe, UnitRows
    <3>2. /\ kind \in {"department", "team"} /\ code \in STRING /\ parent \in Maybe(UnitIds)
      BY <1>4, <2>2, <2>5, UnitPayloadsAreTyped DEF WizardStates, Maybe
    <3>3. row \in UnitRows
      BY <2>1, <3>1, <3>2 DEF UnitRow, UnitRows
    <3>. QED  BY <3>3, UnitPayloadsAreTyped
  <2>11. /\ unit'[u] = row
         /\ \A v \in UnitIds : v # u => unit'[v] = unit[v]
    BY <1>4, <2>4, <2>5
  <2>12. CASE /\ UnitsBacked(wizard)
              /\ s.state.department = wizard.department /\ s.state.teams = wizard.teams
    <3>1. u = stored /\ u \in StoredUnits(wizard)
      BY <2>1, <2>2, <2>4, <2>12, UnitPayloadsAreTyped DEF UnitsBacked, StoredUnits
    <3>2. unit[u] # None /\ unit[u].kind = kind /\ (s.next # 0 => unit[u].parent = parent)
      BY <2>1, <2>2, <2>5, <2>12, <3>1 DEF UnitsBacked
    <3>3. s.next = 0 => \A i \in Slots : wizard.teams[i] # u
      BY <2>1, <2>5, <2>12, <3>1 DEF UnitsBacked
    <3>4. PICK y : y = wizard
      OBVIOUS
    <3>5. UnitsBacked(y)
      BY <2>12, <3>4
    <3>6. \A v \in UnitIds : v \in StoredUnits(y) =>
             unit'[v] # None /\ unit'[v].kind = unit[v].kind /\ unit'[v].head = unit[v].head
      <4>1. ASSUME NEW v \in UnitIds, v \in StoredUnits(y)
            PROVE  unit'[v] # None /\ unit'[v].kind = unit[v].kind /\ unit'[v].head = unit[v].head
        <5>1. unit[v] # None
          BY <3>5, <4>1 DEF UnitsBacked, StoredUnits
        <5>2. CASE v = u
          BY <2>6, <2>10, <2>11, <3>2, <5>2
        <5>3. CASE v # u
          BY <2>11, <5>1, <5>3
        <5>. QED  BY <5>2, <5>3
      <4>. QED  BY <4>1
    <3>7. ASSUME NEW i \in Slots  PROVE unit'[y.teams[i]].parent = unit[y.teams[i]].parent
      <4>1. y.teams[i] \in UnitIds
        BY <3>5 DEF UnitsBacked
      <4>2. CASE y.teams[i] = u
        BY <2>6, <2>11, <3>2, <3>3, <3>4, <4>2
      <4>3. CASE y.teams[i] # u
        BY <2>11, <4>1, <4>3
      <4>. QED  BY <4>2, <4>3
    <3>8. UnitsBacked(y)' /\ (StaffBacked(y) => StaffBacked(y)')
      BY <1>2, <3>5, <3>6, <3>7, UnitsStayBacked
    <3>9. UnitsBacked(wizard)' /\ Backed(wizard)'
      <4>1. wizard' = y
        BY <1>2, <3>4
      <4>2. NoStaff(y) \/ StaffBacked(y)
        BY <1>3, <3>4 DEF Backed
      <4>3. NoStaff(y) => NoStaff(wizard)'
        BY <4>1 DEF NoStaff
      <4>4. UnitsBacked(wizard)'
        BY <3>8, <4>1 DEF UnitsBacked
      <4>5. StaffBacked(y)' => StaffBacked(wizard)'
        BY <4>1 DEF StaffBacked, UnitsBacked, PlacesAre, HeadsAre, TeamFor
      <4>. QED  BY <3>8, <4>2, <4>3, <4>4, <4>5 DEF Backed
    <3>10. /\ state.department = wizard.department
           /\ state.teams = wizard.teams /\ state.users = wizard.users
      <4>1. s.state.users = wizard.users
        BY <1>3 DEF UnitsUnderWay
      <4>2. CASE s.next = 0
        BY <2>1, <2>8, <2>12, <3>1, <4>1, <4>2
      <4>3. CASE s.next # 0
        <5>1. u = s.state.teams[s.next]
          BY <2>1, <3>1, <4>3
        <5>2. [s.state.teams EXCEPT ![s.next] = u] = s.state.teams
          BY <2>9, <5>1
        <5>. QED  BY <2>8, <2>12, <4>1, <4>3, <5>2
      <4>. QED  BY <4>2, <4>3
    <3>11. WizardRest(x)'
      BY <1>2, <2>7, <3>9, <3>10 DEF WizardRest, ShortOps, UnitsUnderWay
    <3>. QED  BY <2>5, <3>9, <3>11
  <2>13. CASE NoUnits(wizard) /\ NoStaff(wizard) /\ UnitsDone(s)
    <3>1. s.next = 0 => s.state.department = None
      BY <2>13 DEF UnitsDone
    <3>2. s.next # 0 => /\ s.state.department \in UnitIds /\ unit[s.state.department] # None
                        /\ unit[s.state.department].kind = "department"
      BY <2>13 DEF UnitsDone
    <3>3. s.next # 0 => s.state.teams[s.next] = None
      BY <1>2, <2>2, <2>13 DEF UnitsDone
    <3>4. stored = None
      BY <2>1, <3>1, <3>3
    <3>5. \/ unit[u] # None /\ unit[u].kind = kind /\ unit[u].code = code
          \/ unit[u] = None
      BY <2>4, <3>4
    <3>6. ASSUME NEW i \in Slots, i < s.next
          PROVE  /\ s.state.teams[i] # u /\ s.state.teams[i] \in UnitIds
                 /\ unit[s.state.teams[i]] # None /\ unit[s.state.teams[i]].kind = "team"
                 /\ unit[s.state.teams[i]].code = s.ask.teams[i]
                 /\ unit[s.state.teams[i]].parent = s.state.department
      <4>1. i = 1 /\ s.next = 2
        BY <1>2, <3>6 DEF Slots
      <4>2. s.ask.teams[i] # code
        BY <1>4, <2>5, <4>1, UnitPayloadsAreTyped
      <4>3. /\ s.state.teams[i] \in UnitIds
            /\ unit[s.state.teams[i]] # None /\ unit[s.state.teams[i]].kind = "team"
            /\ unit[s.state.teams[i]].code = s.ask.teams[i]
            /\ unit[s.state.teams[i]].parent = s.state.department
        BY <2>13, <3>6 DEF UnitsDone
      <4>. QED  BY <3>5, <4>2, <4>3
    <3>7. s.next # 0 => s.state.department # u
      BY <2>5, <3>2, <3>5
    <3>8. /\ state.department \in UnitIds /\ unit'[state.department] # None
          /\ unit'[state.department].kind = "department"
      <4>1. CASE s.next = 0
        BY <2>4, <2>5, <2>6, <2>8, <2>10, <2>11, <4>1
      <4>2. CASE s.next # 0
        BY <2>8, <2>11, <3>2, <3>7, <4>2
      <4>. QED  BY <4>1, <4>2
    <3>9. ASSUME NEW i \in Slots, i < s.next + 1
          PROVE  /\ state.teams[i] \in UnitIds /\ unit'[state.teams[i]] # None
                 /\ unit'[state.teams[i]].kind = "team"
                 /\ unit'[state.teams[i]].code = s.ask.teams[i]
                 /\ unit'[state.teams[i]].parent = state.department
      <4>1. s.next # 0 /\ (i = s.next \/ i < s.next)
        BY <1>2, <3>9 DEF Slots
      <4>2. CASE i = s.next
        <5>1. state.teams[i] = u
          BY <2>2, <2>8, <2>9, <4>1, <4>2
        <5>. QED  BY <2>4, <2>5, <2>6, <2>8, <2>10, <2>11, <4>1, <4>2, <5>1
      <4>3. CASE i < s.next
        <5>1. state.teams[i] = s.state.teams[i]
          <6>1. i # s.next
            BY <1>2, <4>3 DEF Slots
          <6>. QED  BY <2>2, <2>8, <2>9, <4>1, <6>1
        <5>2. unit'[state.teams[i]] = unit[s.state.teams[i]]
          BY <2>11, <3>6, <4>3, <5>1
        <5>. QED  BY <2>8, <3>6, <4>1, <4>3, <5>1, <5>2
      <4>. QED  BY <4>1, <4>2, <4>3
    <3>10. ASSUME NEW i \in Slots, ~(i < s.next + 1)  PROVE state.teams[i] = None
      <4>1. ~(i < s.next) /\ i # s.next
        BY <1>2, <3>10 DEF Slots
      <4>2. s.state.teams[i] = None
        BY <2>13, <4>1 DEF UnitsDone
      <4>. QED  BY <2>2, <2>8, <2>9, <4>1, <4>2
    <3>11. UnitsDone(x)'
      <4>1. x.next # 0
        BY <1>2, <2>7
      <4>. QED  BY <2>7, <3>8, <3>9, <3>10, <4>1 DEF UnitsDone
    <3>12. NoUnits(wizard)' /\ NoStaff(wizard)'
      BY <1>2, <2>13 DEF NoUnits, NoStaff
    <3>13. WizardRest(x)'
      BY <1>2, <1>3, <2>7, <2>8, <3>11, <3>12 DEF WizardRest, ShortOps, UnitsUnderWay
    <3>. QED  BY <2>5, <3>12, <3>13 DEF Backed
  <2>. QED  BY <1>3, <2>12, <2>13 DEF UnitsUnderWay
<1>. QED  BY <1>2, <1>5, <1>6

(* Saving an employee does: it is the remembered one or a new one.         *)
LEMMA SaveEmployeeKeepsProgress ==
  ASSUME SetupTyped, WizardBacked, NEW w \in Workers, UNCHANGED accMode, SaveEmployee(w),
         accMode.serial
  PROVE  \E x : /\ accSession' = [accSession EXCEPT ![w] = x]
                /\ Backed(wizard)' /\ (x # None => WizardRest(x)')
<1>1. PICK s : s = accSession[w]
  OBVIOUS
<1>2. /\ UNCHANGED <<wizard, unit>> /\ s # None /\ s \in StaffRequests /\ s.op = "staff"
      /\ s.next \in Roles
      /\ \/ staff' = staff /\ accSession' = [accSession EXCEPT ![w] = None]
         \/ \E e, row, x : EmployeeSaved(w, s, e, row, x)
  BY <1>1, SaveEmployeeDoes
<1>3. Backed(wizard) /\ StaffUnderWay(s)
  BY <1>1, <1>2 DEF WizardBacked, WizardRest
<1>4. /\ wizard \in WizardStates /\ s.state \in WizardStates /\ s.made \in [Roles -> Maybe(StaffIds)]
      /\ staff \in [StaffIds -> Maybe(StaffRows)]
  BY <1>2 DEF SetupTyped, TablesTyped, StaffRequests
<1>5. CASE staff' = staff /\ accSession' = [accSession EXCEPT ![w] = None]
  <2>1. Backed(wizard)'
    BY <1>2, <1>3, <1>5 DEF Backed, NoUnits, UnitsBacked, NoStaff, StaffBacked, PlacesAre, HeadsAre,
       TeamFor
  <2>. QED  BY <1>5, <2>1
<1>6. ASSUME NEW e, NEW row, NEW x, EmployeeSaved(w, s, e, row, x)
      PROVE  /\ accSession' = [accSession EXCEPT ![w] = x]
             /\ Backed(wizard)' /\ (x # None => WizardRest(x)')
  <2>1. PICK y, role, stored : y = wizard /\ role = s.next /\ stored = s.state.users[s.next]
    OBVIOUS
  <2>2. /\ SameProgress(s.state, y) /\ UnitsBacked(y) /\ PlacesAre(y, s.made, role)
        /\ NoStaff(y) \/ \A r \in Roles : r < role => s.made[r] = y.users[r]
        /\ role \in Roles /\ stored = y.users[role] /\ stored \in Maybe(StaffIds)
    BY <1>2, <1>3, <1>4, <2>1 DEF StaffUnderWay, SameProgress, WizardStates
  <2>3. /\ e \in StaffIds
        /\ stored # None => e = stored
        /\ stored = None => staff[e] = None
    BY <1>6, <2>1, <2>2, EmployeeForIs DEF EmployeeSaved
  <2>4. /\ staff' = [staff EXCEPT ![e] = row]
        /\ row.role = RoleTitle[role] /\ row.team = TeamFor(y, role)
    <3>1. TeamFor(s.state, role) = TeamFor(y, role)
      BY <2>2, ProgressCarriesOver
    <3>2. row = [matricule |-> s.ask[role], role |-> RoleTitle[role], team |-> TeamFor(s.state, role)]
      BY <1>6, <2>1 DEF EmployeeSaved
    <3>3. row.role = RoleTitle[role] /\ row.team = TeamFor(s.state, role)
      BY <3>2
    <3>. QED  BY <1>6, <3>1, <3>3 DEF EmployeeSaved
  <2>5. row # None
    <3>1. TeamFor(s.state, role) \in Maybe(UnitIds)
      BY <1>4, <2>2 DEF TeamFor, RoleSlot, WizardStates, Roles, Slots, Maybe
    <3>2. row \in StaffRows
      <4>1. row = [matricule |-> s.ask[role], role |-> RoleTitle[role], team |-> TeamFor(s.state, role)]
        BY <1>6, <2>1 DEF EmployeeSaved
      <4>2. s.ask \in StaffPayloads /\ RoleTitle[role] \in {RoleTitle[r] : r \in Roles}
        BY <1>2, <2>2 DEF StaffRequests
      <4>. QED  BY <2>2, <3>1, <4>1, <4>2 DEF StaffRows
    <3>. QED  BY <3>2, UnitPayloadsAreTyped
  <2>6. staff'[e] = row /\ \A q \in StaffIds : q # e => staff'[q] = staff[q]
    BY <1>4, <2>3, <2>4
  <2>7. /\ x.op = "staff" /\ x.next = role + 1 /\ x.state = s.state
        /\ x.made = [s.made EXCEPT ![role] = e] /\ accSession' = [accSession EXCEPT ![w] = x]
    BY <1>2, <1>6, <2>1 DEF EmployeeSaved, StaffRequests
  <2>8. x.made[role] = e /\ \A r \in Roles : r # role => x.made[r] = s.made[r]
    BY <1>4, <2>2, <2>7
  <2>9. \A r \in Roles : r < role + 1 <=> r < role \/ r = role
    BY <2>2 DEF Roles
  <2>10. role + 1 # 6
    BY <2>2 DEF Roles
  <2>11. wizard' = y /\ UNCHANGED unit
    BY <1>2, <2>1
  <2>12. UnitsBacked(y)'
    BY <2>2, <2>11 DEF UnitsBacked
  <2>13. CASE NoStaff(y)
    <3>1. staff[e] = None
      BY <2>2, <2>3, <2>13 DEF NoStaff
    <3>2. ASSUME NEW r \in Roles, r < role
          PROVE  /\ x.made[r] = s.made[r] /\ s.made[r] \in StaffIds /\ s.made[r] # e
                 /\ staff'[s.made[r]] = staff[s.made[r]] /\ staff[s.made[r]] # None
                 /\ staff[s.made[r]].role = RoleTitle[r] /\ staff[s.made[r]].team = TeamFor(y, r)
      <4>1. /\ s.made[r] \in StaffIds /\ staff[s.made[r]] # None
            /\ staff[s.made[r]].role = RoleTitle[r] /\ staff[s.made[r]].team = TeamFor(y, r)
        BY <2>2, <3>2 DEF PlacesAre
      <4>2. r # role
        BY <2>2, <3>2 DEF Roles
      <4>. QED  BY <2>6, <2>8, <3>1, <4>1, <4>2
    <3>3. \A r \in Roles : r < role + 1 =>
            /\ x.made[r] \in StaffIds /\ staff'[x.made[r]] # None
            /\ staff'[x.made[r]].role = RoleTitle[r] /\ staff'[x.made[r]].team = TeamFor(y, r)
      BY <2>3, <2>4, <2>5, <2>6, <2>8, <2>9, <3>2
    <3>4. \A r, q \in Roles : r < role + 1 /\ q < role + 1 /\ x.made[r] = x.made[q] => r = q
      <4>1. \A r, q \in Roles : r < role /\ q < role /\ s.made[r] = s.made[q] => r = q
        BY <2>2 DEF PlacesAre
      <4>. QED  BY <2>8, <2>9, <3>2, <4>1
    <3>5. PlacesAre(y, x.made, role + 1)'
      BY <3>3, <3>4 DEF PlacesAre, TeamFor
    <3>6. NoStaff(y)' /\ Backed(wizard)'
      BY <2>11, <2>12, <2>13 DEF NoStaff, Backed, UnitsBacked
    <3>7. StaffUnderWay(x)'
      BY <2>2, <2>7, <2>10, <2>11, <2>12, <3>5, <3>6
         DEF StaffUnderWay, SameProgress, UnitsBacked, PlacesAre, TeamFor, NoStaff
    <3>. QED  BY <2>7, <3>6, <3>7 DEF WizardRest, ShortOps
  <2>14. CASE StaffBacked(y)
    <3>1. /\ \A r \in Roles : /\ y.users[r] \in StaffIds /\ staff[y.users[r]] # None
                              /\ staff[y.users[r]].role = RoleTitle[r]
                              /\ staff[y.users[r]].team = TeamFor(y, r)
          /\ \A r, q \in Roles : y.users[r] = y.users[q] => r = q
      BY <2>14 DEF StaffBacked, PlacesAre, Roles
    <3>2. e = y.users[role]
      BY <2>2, <2>3, <3>1, UnitPayloadsAreTyped
    <3>3. \A r \in Roles : /\ staff'[y.users[r]] # None
                           /\ staff'[y.users[r]].role = RoleTitle[r]
                           /\ staff'[y.users[r]].team = TeamFor(y, r)
      <4>1. ASSUME NEW r \in Roles
            PROVE  /\ staff'[y.users[r]] # None
                   /\ staff'[y.users[r]].role = RoleTitle[r]
                   /\ staff'[y.users[r]].team = TeamFor(y, r)
        <5>1. CASE r = role
          BY <2>4, <2>5, <2>6, <3>2, <5>1
        <5>2. CASE r # role
          BY <2>2, <2>6, <3>1, <3>2, <5>2
        <5>. QED  BY <5>1, <5>2
      <4>. QED  BY <4>1
    <3>4. PlacesAre(y, y.users, 5)'
      BY <3>1, <3>3 DEF PlacesAre, TeamFor
    <3>5. StaffBacked(y)'
      <4>1. HeadsAre(y, y.users)'
        BY <2>11, <2>14 DEF StaffBacked, HeadsAre
      <4>. QED  BY <2>12, <3>4, <4>1 DEF StaffBacked
    <3>6. \A r \in Roles : r < role => s.made[r] = y.users[r]
      BY <2>2, <3>1, UnitPayloadsAreTyped DEF NoStaff
    <3>7. \A r \in Roles : r < role + 1 => x.made[r] = y.users[r]
      BY <2>8, <2>9, <3>2, <3>6
    <3>8. PlacesAre(y, x.made, role + 1)'
      BY <3>1, <3>3, <3>7 DEF PlacesAre, TeamFor
    <3>9. Backed(wizard)'
      BY <2>11, <2>12, <3>5 DEF Backed, StaffBacked, UnitsBacked, PlacesAre, HeadsAre, TeamFor
    <3>10. StaffUnderWay(x)'
      BY <2>2, <2>7, <2>10, <2>11, <2>12, <3>7, <3>8
         DEF StaffUnderWay, SameProgress, UnitsBacked, PlacesAre, TeamFor, NoStaff
    <3>. QED  BY <2>7, <3>9, <3>10 DEF WizardRest, ShortOps
  <2>. QED  BY <1>3, <2>1, <2>13, <2>14 DEF Backed
<1>. QED  BY <1>2, <1>5, <1>6

(* The leadership step does: it writes heads only.                         *)
LEMMA SyncLeadershipKeepsProgress ==
  ASSUME SetupTyped, WizardBacked, NEW w \in Workers, UNCHANGED accMode, SyncLeadership(w),
         accMode.serial
  PROVE  \E x : /\ accSession' = [accSession EXCEPT ![w] = x]
                /\ Backed(wizard)' /\ (x # None => WizardRest(x)')
<1>1. PICK s, x, y : s = accSession[w] /\ x = [s EXCEPT !.next = 6] /\ y = wizard
  OBVIOUS
<1>2. /\ UNCHANGED <<wizard, staff>> /\ s # None /\ s \in StaffRequests /\ s.op = "staff"
      /\ s.next = 5 /\ accSession' = [accSession EXCEPT ![w] = x]
      /\ \A u \in UnitIds :
           /\ u \notin StoredUnits(s.state) => unit'[u] = unit[u]
           /\ u \in StoredUnits(s.state) =>
                unit[u] \in UnitRows /\ unit'[u] = [unit[u] EXCEPT !.head = s.made[LeaderRole(s.state, u)]]
  BY <1>1, SyncLeadershipDoes
<1>3. Backed(y) /\ StaffUnderWay(s)
  BY <1>1, <1>2 DEF WizardBacked, WizardRest
<1>4. /\ SameProgress(s.state, y) /\ UnitsBacked(y) /\ PlacesAre(y, s.made, 5)
      /\ NoStaff(y) \/ \A r \in Roles : r < 5 => s.made[r] = y.users[r]
  BY <1>1, <1>2, <1>3 DEF StaffUnderWay
<1>5. \A u : /\ u \in StoredUnits(s.state) <=> u \in StoredUnits(y)
             /\ LeaderRole(s.state, u) = LeaderRole(y, u)
  BY <1>4 DEF SameProgress, StoredUnits, LeaderRole
<1>6. s.made \in [Roles -> Maybe(StaffIds)]
  BY <1>2 DEF StaffRequests
<1>7. ASSUME NEW u \in UnitIds, u \in StoredUnits(y)
      PROVE  /\ unit'[u] # None /\ unit'[u].kind = unit[u].kind
             /\ unit'[u].parent = unit[u].parent
             /\ unit'[u].head = s.made[LeaderRole(y, u)]
  <2>1. unit[u] \in UnitRows /\ unit'[u] = [unit[u] EXCEPT !.head = s.made[LeaderRole(y, u)]]
    BY <1>2, <1>5, <1>7
  <2>2. LeaderRole(y, u) \in Roles
    BY DEF LeaderRole, Roles
  <2>3. s.made[LeaderRole(y, u)] \in Maybe(StaffIds)
    BY <1>6, <2>2
  <2>4. unit'[u] \in UnitRows
    BY <2>1, <2>3 DEF UnitRows
  <2>5. /\ unit'[u].kind = unit[u].kind /\ unit'[u].parent = unit[u].parent
        /\ unit'[u].head = s.made[LeaderRole(y, u)]
    BY <2>1 DEF UnitRows
  <2>. QED  BY <2>4, <2>5, UnitPayloadsAreTyped
<1>8. /\ y.department \in UnitIds /\ y.department \in StoredUnits(y)
      /\ \A i \in Slots : /\ y.teams[i] \in UnitIds /\ y.teams[i] \in StoredUnits(y)
                          /\ y.teams[i] # y.department
      /\ y.teams[1] # y.teams[2]
  BY <1>4 DEF UnitsBacked, StoredUnits
<1>9. /\ LeaderRole(y, y.department) = 2
      /\ \A i \in Slots : LeaderRole(y, y.teams[i]) = i + 2
  BY <1>8 DEF LeaderRole, Slots
<1>10. HeadsAre(y, s.made)'
  BY <1>7, <1>8, <1>9 DEF HeadsAre
<1>11. UnitsBacked(y)'
  BY <1>4, <1>7, <1>8, UnitsStayBacked
<1>12. PlacesAre(y, s.made, 5)'
  BY <1>2, <1>4 DEF PlacesAre, TeamFor
<1>13. wizard' = y
  BY <1>1, <1>2
<1>14. StaffBacked(y) => StaffBacked(y)'
  <2>1. ASSUME StaffBacked(y)  PROVE StaffBacked(y)'
    <3>1. \A r \in Roles : y.users[r] \in StaffIds
      BY <2>1 DEF StaffBacked, PlacesAre, Roles
    <3>2. \A r \in Roles : s.made[r] = y.users[r]
      BY <1>4, <3>1, UnitPayloadsAreTyped DEF NoStaff, Roles
    <3>3. HeadsAre(y, y.users)'
      BY <1>10, <3>2 DEF HeadsAre, Roles, Slots
    <3>4. PlacesAre(y, y.users, 5)'
      BY <1>2, <2>1 DEF StaffBacked, PlacesAre, TeamFor
    <3>. QED  BY <1>11, <3>3, <3>4 DEF StaffBacked
  <2>. QED  BY <2>1
<1>15. Backed(wizard)'
  <2>1. NoStaff(y) => NoStaff(wizard)'
    BY <1>13 DEF NoStaff
  <2>2. StaffBacked(y)' => StaffBacked(wizard)'
    BY <1>13 DEF StaffBacked, UnitsBacked, PlacesAre, HeadsAre, TeamFor
  <2>3. UnitsBacked(wizard)'
    BY <1>11, <1>13 DEF UnitsBacked
  <2>. QED  BY <1>3, <1>14, <2>1, <2>2, <2>3 DEF Backed
<1>16. /\ x.op = "staff" /\ x.next = 6 /\ x.state = s.state /\ x.made = s.made
  BY <1>1, <1>2 DEF StaffRequests
<1>17. StaffUnderWay(x)'
  <2>1. PlacesAre(y, x.made, 6)'
    BY <1>12, <1>16 DEF PlacesAre, Roles
  <2>2. NoStaff(y) \/ \A r \in Roles : x.made[r] = y.users[r]
    BY <1>4, <1>16 DEF Roles
  <2>. QED  BY <1>4, <1>10, <1>11, <1>13, <1>16, <2>1, <2>2
            DEF StaffUnderWay, SameProgress, UnitsBacked, PlacesAre, TeamFor, NoStaff, HeadsAre
<1>. QED  BY <1>2, <1>15, <1>16, <1>17 DEF WizardRest, ShortOps

(* What the end of a step persists is backed.                              *)
LEMMA PersistKeepsProgress ==
  ASSUME SetupTyped, WizardBacked, NEW w \in Workers, UNCHANGED accMode, accMode.serial,
         PersistUnits(w) \/ PersistSeeding(w) \/ PersistStaff(w)
  PROVE  accSession' = [accSession EXCEPT ![w] = None] /\ Backed(wizard)'
<1>1. PICK s, y : s = accSession[w] /\ y = wizard
  OBVIOUS
<1>2. s # None /\ Backed(y) /\ WizardRest(s)
  BY <1>1, PersistDoes DEF WizardBacked
<1>3. PICK state \in WizardStates :
        /\ Persist(w, state)
        /\ \/ /\ s.op = "units" /\ s \in UnitRequests /\ s.next = 3
              /\ state.department = s.state.department /\ state.teams = s.state.teams
              /\ state.users = s.state.users
           \/ /\ s.op = "seed" /\ s.step # 0
              /\ \E old \in WizardStates :
                   /\ old = (IF s.step = 5 THEN y ELSE s.state)
                   /\ state.department = old.department /\ state.teams = old.teams
                   /\ state.users = old.users
           \/ /\ s.op = "staff" /\ s \in StaffRequests /\ s.next = 6
              /\ state.department = s.state.department /\ state.teams = s.state.teams
              /\ state.users = s.made
  BY <1>1, PersistDoes
<1>4. /\ wizard' = state /\ UNCHANGED <<unit, staff>>
      /\ accSession' = [accSession EXCEPT ![w] = None]
  BY <1>3 DEF Persist, tableVars
<1>5. Backed(state)
  <2>1. CASE /\ s.op = "units" /\ s \in UnitRequests /\ s.next = 3
             /\ state.department = s.state.department /\ state.teams = s.state.teams
             /\ state.users = s.state.users
    <3>1. s.state.users = y.users
      BY <1>1, <1>2, <2>1 DEF WizardRest, UnitsUnderWay
    <3>2. CASE /\ s.state.department = y.department /\ s.state.teams = y.teams
      BY <1>2, <2>1, <3>1, <3>2, ProgressCarriesOver DEF SameProgress
    <3>3. CASE NoUnits(y) /\ NoStaff(y) /\ UnitsDone(s)
      <4>1. /\ s.state.department \in UnitIds /\ unit[s.state.department] # None
            /\ unit[s.state.department].kind = "department"
        BY <2>1, <3>3 DEF UnitsDone
      <4>2. \A i \in Slots :
              /\ s.state.teams[i] \in UnitIds /\ unit[s.state.teams[i]] # None
              /\ unit[s.state.teams[i]].kind = "team" /\ unit[s.state.teams[i]].code = s.ask.teams[i]
              /\ unit[s.state.teams[i]].parent = s.state.department
        <5>1. \A i \in Slots : i < s.next
          BY <2>1 DEF Slots
        <5>. QED  BY <3>3, <5>1 DEF UnitsDone
      <4>3. s.ask.teams[1] # s.ask.teams[2]
        BY <2>1, UnitPayloadsAreTyped DEF UnitRequests
      <4>4. s.state.teams[1] # s.state.teams[2]
        BY <4>2, <4>3 DEF Slots
      <4>5. UnitsBacked(state)
        BY <2>1, <4>1, <4>2, <4>4 DEF UnitsBacked
      <4>6. NoStaff(state)
        BY <2>1, <3>1, <3>3 DEF NoStaff
      <4>. QED  BY <4>5, <4>6 DEF Backed
    <3>. QED  BY <1>1, <1>2, <2>1, <3>2, <3>3 DEF WizardRest, UnitsUnderWay
  <2>2. CASE /\ s.op = "seed" /\ s.step # 0
             /\ \E old \in WizardStates :
                  /\ old = (IF s.step = 5 THEN y ELSE s.state)
                  /\ state.department = old.department /\ state.teams = old.teams
                  /\ state.users = old.users
    <3>1. SameProgress(s.state, y)
      BY <1>1, <1>2, <2>2 DEF WizardRest
    <3>2. SameProgress(state, y)
      BY <2>2, <3>1 DEF SameProgress
    <3>. QED  BY <1>2, <3>2, ProgressCarriesOver
  <2>3. CASE /\ s.op = "staff" /\ s \in StaffRequests /\ s.next = 6
             /\ state.department = s.state.department /\ state.teams = s.state.teams
             /\ state.users = s.made
    <3>1. SameProgress(s.state, y) /\ UnitsBacked(y) /\ PlacesAre(y, s.made, 6) /\ HeadsAre(y, s.made)
      BY <1>1, <1>2, <2>3 DEF WizardRest, StaffUnderWay
    <3>2. state.department = y.department /\ state.teams = y.teams
      BY <2>3, <3>1 DEF SameProgress
    <3>3. UnitsBacked(state)
      BY <3>1, <3>2 DEF UnitsBacked
    <3>4. PlacesAre(state, s.made, 5)
      <4>1. \A r : TeamFor(state, r) = TeamFor(y, r)
        BY <3>2 DEF TeamFor
      <4>2. \A r \in Roles : r < 6
        BY DEF Roles
      <4>. QED  BY <3>1, <4>1, <4>2 DEF PlacesAre
    <3>5. HeadsAre(state, s.made)
      BY <3>1, <3>2 DEF HeadsAre
    <3>. QED  BY <2>3, <3>3, <3>4, <3>5 DEF Backed, StaffBacked
  <2>. QED  BY <1>3, <2>1, <2>2, <2>3
<1>6. Backed(wizard)'
  BY <1>4, <1>5 DEF Backed, NoUnits, UnitsBacked, NoStaff, StaffBacked, PlacesAre, HeadsAre, TeamFor
<1>. QED  BY <1>4, <1>6

(* A step begins from progress that is backed.                             *)
LEMMA BeginningKeepsProgress ==
  ASSUME SetupTyped, WizardBacked, NEW w \in Workers, UNCHANGED accMode, accMode.serial,
         \/ \E payload \in UnitPayloads : BeginOrganization(w, payload)
         \/ \E payload \in StaffPayloads : BeginStaff(w, payload)
         \/ BeginTitles(w) \/ BeginCodes(w) \/ BeginGrants(w)
  PROVE  \E x : /\ accSession' = [accSession EXCEPT ![w] = x]
                /\ Backed(wizard)' /\ (x # None => WizardRest(x)')
<1>1. PICK y : y = wizard
  OBVIOUS
<1>2. Backed(y) /\ y \in WizardStates
  BY <1>1 DEF WizardBacked, SetupTyped, TablesTyped
<1>3. ASSUME NEW x, Serve(w, x), WizardRest(x)
      PROVE  \E z : /\ accSession' = [accSession EXCEPT ![w] = z]
                    /\ Backed(wizard)' /\ (z # None => WizardRest(z)')
  <2>1. UNCHANGED <<wizard, unit, staff>> /\ accSession' = [accSession EXCEPT ![w] = x]
    BY <1>3 DEF Serve, tableVars
  <2>2. Backed(wizard)'
    BY <1>1, <1>2, <2>1 DEF Backed, NoUnits, UnitsBacked, NoStaff, StaffBacked, PlacesAre, HeadsAre,
       TeamFor
  <2>3. WizardRest(x)'
    <3>1. UnitsUnderWay(x) => UnitsUnderWay(x)'
      BY <2>1 DEF UnitsUnderWay, UnitsDone, UnitsBacked, NoUnits, NoStaff
    <3>2. StaffUnderWay(x) => StaffUnderWay(x)'
      BY <2>1 DEF StaffUnderWay, SameProgress, UnitsBacked, PlacesAre, HeadsAre, NoStaff, TeamFor
    <3>. QED  BY <1>3, <2>1, <3>1, <3>2 DEF WizardRest, SameProgress
  <2>. QED  BY <2>1, <2>2, <2>3
<1>4. ASSUME NEW payload \in UnitPayloads, BeginOrganization(w, payload)
      PROVE  \E x : Serve(w, x) /\ WizardRest(x)
  <2>1. PICK x : x = [op |-> "units", next |-> 0, ask |-> payload, state |-> y]
    OBVIOUS
  <2>2. x.op = "units" /\ x.next = 0 /\ x.state = y /\ Serve(w, x)
    BY <1>1, <1>4, <2>1 DEF BeginOrganization
  <2>3. NoUnits(y) => NoStaff(y) /\ UnitsDone(x)
    <3>1. ASSUME NoUnits(y)  PROVE NoStaff(y) /\ UnitsDone(x)
      <4>1. ~UnitsBacked(y)
        BY <3>1, UnitPayloadsAreTyped DEF NoUnits, UnitsBacked
      <4>2. UnitsDone(x)
        <5>1. \A i \in Slots : ~(i < 0)
          BY DEF Slots
        <5>. QED  BY <2>2, <3>1, <5>1 DEF NoUnits, UnitsDone
      <4>. QED  BY <1>2, <4>1, <4>2 DEF Backed, StaffBacked
    <3>. QED  BY <3>1
  <2>4. UnitsUnderWay(x)
    BY <1>1, <1>2, <2>2, <2>3 DEF UnitsUnderWay, Backed
  <2>. QED  BY <2>2, <2>4 DEF WizardRest, ShortOps
<1>5. ASSUME NEW payload \in StaffPayloads, BeginStaff(w, payload)
      PROVE  \E x : Serve(w, x) /\ WizardRest(x)
  <2>1. PICK x : x = [op |-> "staff", next |-> 1, ask |-> payload, state |-> y,
                      made |-> [r \in Roles |-> None]]
    OBVIOUS
  <2>2. x.op = "staff" /\ x.next = 1 /\ x.state = y /\ Serve(w, x) /\ OrganizationThere(y)
    BY <1>1, <1>5, <2>1 DEF BeginStaff
  <2>3. UnitsBacked(y)
    BY <1>2, <2>2 DEF Backed, NoUnits, OrganizationThere, StoredUnits
  <2>4. \A r \in Roles : ~(r < 1)
    BY DEF Roles
  <2>5. StaffUnderWay(x)
    BY <1>1, <2>2, <2>3, <2>4 DEF StaffUnderWay, SameProgress, PlacesAre
  <2>. QED  BY <2>2, <2>5 DEF WizardRest, ShortOps
<1>6. CASE BeginTitles(w) \/ BeginCodes(w) \/ BeginGrants(w)
  <2>1. PICK x : /\ Serve(w, x)
                 /\ \/ x = Seeding(3, accMode.titles, {}, {}, NothingStored, wizard)
                    \/ x = Seeding(4, {}, CodesHere, {}, wizard.codes, wizard)
                    \/ x = Seeding(5, {}, {}, accMode.titles, NothingStored, wizard)
    BY <1>6 DEF BeginTitles, BeginCodes, BeginGrants
  <2>2. x.op = "seed" /\ x.state = wizard
    BY <2>1 DEF Seeding
  <2>3. WizardRest(x)
    BY <2>2 DEF WizardRest, SameProgress, ShortOps
  <2>. QED  BY <1>3, <2>1, <2>3
<1>. QED  BY <1>3, <1>4, <1>5, <1>6

(* The short requests leave units and employees alone.                     *)
LEMMA ShortKeepsProgress ==
  ASSUME SetupTyped, WizardBacked, NEW w \in Workers, UNCHANGED accMode, accMode.serial, ShortMove(w)
  PROVE  \E z : /\ accSession' = [accSession EXCEPT ![w] = z]
                /\ Backed(wizard)' /\ (z # None => WizardRest(z)')
<1>1. PICK y : y = wizard
  OBVIOUS
<1>2. Backed(y) /\ UNCHANGED <<unit, staff>>
  BY <1>1, ShortDoes DEF WizardBacked
<1>3. ASSUME NEW state, Backed(state), wizard' = state  PROVE Backed(wizard)'
  BY <1>2, <1>3 DEF Backed, NoUnits, UnitsBacked, NoStaff, StaffBacked, PlacesAre, HeadsAre, TeamFor
<1>4. ASSUME UNCHANGED <<installed, wizard>>, NEW x, accSession' = [accSession EXCEPT ![w] = x],
             x = None \/ (x \in ShortRequests /\ x.op \in ShortOps /\ x.state = wizard)
      PROVE  Backed(wizard)' /\ (x # None => WizardRest(x)')
  <2>1. Backed(wizard)'
    BY <1>1, <1>2, <1>3, <1>4
  <2>2. x # None => WizardRest(x)'
    BY <1>4 DEF WizardRest, SameProgress, ShortOps
  <2>. QED  BY <2>1, <2>2
<1>5. ASSUME accSession[w] # None, accSession[w].op \in ShortOps, NEW state, wizard' = state,
             state.department = accSession[w].state.department,
             state.teams = accSession[w].state.teams, state.users = accSession[w].state.users
      PROVE  Backed(wizard)'
  <2>1. SameProgress(accSession[w].state, y)
    BY <1>1, <1>5 DEF WizardBacked, WizardRest
  <2>2. SameProgress(state, y)
    BY <1>5, <2>1 DEF SameProgress
  <2>. QED  BY <1>2, <1>3, <1>5, <2>2, ProgressCarriesOver
<1>. QED  BY <1>4, <1>5, ShortDoes

(* While requests do not overlap, the progress is backed by the tables.    *)
LEMMA WizardIsBacked == SetupSpec => []WizardBacked
<1>1. SetupInit => WizardBacked
  <2>1. ASSUME SetupInit  PROVE Backed(wizard) /\ \A v \in Workers : accSession[v] = None
    BY <2>1 DEF SetupInit, AccessInit, InitialWizard, Backed, NoUnits, NoStaff
  <2>. QED  BY <2>1 DEF WizardBacked
<1>2. ASSUME SetupTyped, WizardBacked, [SetupNext]_setupVars  PROVE WizardBacked'
  <2>1. ASSUME NEW w \in Workers, UNCHANGED accMode, WizardMove(w)  PROVE WizardBacked'
    <3>1. PICK x : accSession' = [accSession EXCEPT ![w] = x]
      BY <1>2, <2>1, WizardSessions
    <3>2. accMode.serial => w = TheWorker
      BY <1>2, <2>1, WizardSessions DEF MayServe, TheWorker, SetupTyped, SessionsTyped
    <3>3. ASSUME accMode.serial
          PROVE  \E z : /\ accSession' = [accSession EXCEPT ![w] = z]
                        /\ Backed(wizard)' /\ (z # None => WizardRest(z)')
      <4>1. CASE ShortMove(w)
        BY <1>2, <2>1, <3>3, <4>1, ShortKeepsProgress
      <4>2. CASE \/ \E payload \in UnitPayloads : BeginOrganization(w, payload)
                 \/ \E payload \in StaffPayloads : BeginStaff(w, payload)
                 \/ BeginTitles(w) \/ BeginCodes(w) \/ BeginGrants(w)
        BY <1>2, <2>1, <3>3, <4>2, BeginningKeepsProgress
      <4>3. CASE SaveUnit(w)
        BY <1>2, <2>1, <3>3, <4>3, SaveUnitKeepsProgress
      <4>4. CASE SaveEmployee(w)
        BY <1>2, <2>1, <3>3, <4>4, SaveEmployeeKeepsProgress
      <4>5. CASE SyncLeadership(w)
        BY <1>2, <2>1, <3>3, <4>5, SyncLeadershipKeepsProgress
      <4>6. CASE PersistUnits(w) \/ PersistSeeding(w) \/ PersistStaff(w)
        BY <1>2, <2>1, <3>3, <4>6, PersistKeepsProgress
      <4>. QED  BY <2>1, <4>1, <4>2, <4>3, <4>4, <4>5, <4>6 DEF WizardMove
    <3>4. CASE accMode.serial
      <4>1. PICK z : /\ accSession' = [accSession EXCEPT ![w] = z]
                     /\ Backed(wizard)' /\ (z # None => WizardRest(z)')
        BY <3>3, <3>4
      <4>. QED  BY <1>2, <2>1, <3>2, <4>1, WizardGoesOn
    <3>5. CASE ~accMode.serial
      BY <2>1, <3>5 DEF WizardBacked
    <3>. QED  BY <3>4, <3>5
  <2>2. CASE UNCHANGED setupVars
    <3>1. UNCHANGED <<accMode, accSession, wizard, unit, staff>>
      BY <2>2 DEF setupVars, accVars, tableVars
    <3>2. Backed(wizard) => Backed(wizard)'
      BY <3>1 DEF Backed, NoUnits, UnitsBacked, NoStaff, StaffBacked, PlacesAre, HeadsAre, TeamFor
    <3>3. ASSUME NEW s, WizardRest(s)  PROVE WizardRest(s)'
      <4>1. UnitsUnderWay(s) => UnitsUnderWay(s)'
        BY <3>1 DEF UnitsUnderWay, UnitsDone, UnitsBacked, NoUnits, NoStaff
      <4>2. StaffUnderWay(s) => StaffUnderWay(s)'
        BY <3>1 DEF StaffUnderWay, SameProgress, UnitsBacked, PlacesAre, HeadsAre, NoStaff, TeamFor
      <4>. QED  BY <3>1, <3>3, <4>1, <4>2 DEF WizardRest, SameProgress
    <3>4. accMode.serial => \A v \in Workers : accSession'[v] # None =>
            \E s : s = accSession'[v] /\ WizardRest(s)'
      BY <1>2, <3>1, <3>3 DEF WizardBacked
    <3>5. accMode.serial => (\A v \in Workers : accSession[v] # None => WizardRest(accSession[v]))'
      BY <3>4 DEF WizardRest
    <3>. QED  BY <1>2, <3>1, <3>2, <3>5 DEF WizardBacked
  <2>. QED  BY <1>2, <2>1, <2>2, SetupMoves, ProgressStaysInAccess
<1>. QED  BY <1>1, <1>2, SetupIsTyped, PTL DEF SetupSpec

-----------------------------------------------------------------------------
(* The employees of the wizard, however its steps overlap: those it        *)
(* remembers are there with the titles of their roles, all or none, and    *)
(* nobody changes the title of an employee afterwards.                     *)
PeopleHold(users, next) ==
  /\ \A r \in Roles : r < next => /\ users[r] \in StaffIds /\ staff[users[r]] # None
                                  /\ staff[users[r]].role = RoleTitle[r]
  /\ \A r, q \in Roles : r < next /\ q < next /\ users[r] = users[q] => r = q

PeopleFine(x) == NoStaff(x) \/ PeopleHold(x.users, 5)

PeopleRest(s) ==
  /\ s.op \in {"units", "staff"} \cup ShortOps \/ (s.op = "seed" /\ s.step # 0) =>
       PeopleFine(s.state)
  /\ s.op = "staff" =>
       /\ PeopleHold(s.made, s.next)
       /\ NoStaff(s.state) \/ \A r \in Roles : r < s.next => s.made[r] = s.state.users[r]

PeopleBacked ==
  PeopleFine(wizard) /\ \A v \in Workers : accSession[v] # None => PeopleRest(accSession[v])

TitlesStay ==
  \A e \in StaffIds : staff[e] # None => staff'[e] # None /\ staff'[e].role = staff[e].role

(* What is held of the employees stays while titles stay.                  *)
LEMMA PeopleStay ==
  ASSUME TitlesStay
  PROVE  /\ \A users, n : PeopleHold(users, n) => PeopleHold(users, n)'
         /\ \A x : PeopleFine(x) => PeopleFine(x)'
         /\ \A s : PeopleRest(s) => PeopleRest(s)'
<1>1. ASSUME NEW users, NEW n, PeopleHold(users, n)  PROVE PeopleHold(users, n)'
  BY <1>1 DEF TitlesStay, PeopleHold
<1>2. ASSUME NEW x, PeopleFine(x)  PROVE PeopleFine(x)'
  BY <1>1, <1>2 DEF PeopleFine, NoStaff
<1>3. ASSUME NEW s, PeopleRest(s)  PROVE PeopleRest(s)'
  BY <1>1, <1>2, <1>3 DEF PeopleRest, NoStaff
<1>. QED  BY <1>1, <1>2, <1>3

(* A session goes on to x, and titles stay.                                *)
LEMMA PeopleGoOn ==
  ASSUME SetupTyped, PeopleBacked, NEW w \in Workers, NEW x, TitlesStay,
         accSession' = [accSession EXCEPT ![w] = x], PeopleFine(wizard)',
         x # None => PeopleRest(x)'
  PROVE  PeopleBacked'
<1>1. \A v \in Workers : accSession'[v] = x \/ accSession'[v] = accSession[v]
  BY DEF SetupTyped, SessionsTyped
<1>2. \A v \in Workers : accSession'[v] # None => \E s : s = accSession'[v] /\ PeopleRest(s)'
  <2>1. ASSUME NEW v \in Workers, accSession'[v] # None
        PROVE  \E s : s = accSession'[v] /\ PeopleRest(s)'
    <3>1. PICK s : s = accSession'[v]
      OBVIOUS
    <3>2. CASE s = x
      BY <2>1, <3>1, <3>2
    <3>3. CASE s = accSession[v]
      BY <2>1, <3>1, <3>3, PeopleStay DEF PeopleBacked
    <3>. QED  BY <1>1, <3>1, <3>2, <3>3
  <2>. QED  BY <2>1
<1>3. (\A v \in Workers : accSession[v] # None => PeopleRest(accSession[v]))'
  BY <1>2 DEF PeopleRest
<1>. QED  BY <1>3 DEF PeopleBacked

(* The moves of the permissions leave employees alone.                     *)
LEMMA PeopleInAccess ==
  ASSUME SetupTyped, PeopleBacked, NEW w \in Workers, UNCHANGED <<accMode, WizardTables>>,
         AccessMove(w)
  PROVE  PeopleBacked'
<1>1. UNCHANGED <<accMode, wizard, unit, staff>> /\ TitlesStay
  BY DEF WizardTables, TitlesStay
<1>2. PICK x : /\ accSession' = [accSession EXCEPT ![w] = x]
               /\ \/ x = None \/ x.op \in {"assign", "migrate"}
                  \/ /\ x.op = "seed"
                     /\ \/ x.step = 0
                        \/ /\ accSession[w] # None /\ accSession[w].op = "seed"
                           /\ x.step = accSession[w].step /\ x.state = accSession[w].state
  BY AccessSessions
<1>3. x # None => PeopleRest(x)
  BY <1>2 DEF PeopleBacked, PeopleRest, ShortOps
<1>4. PeopleFine(wizard)'
  BY <1>1, PeopleStay DEF PeopleBacked, PeopleFine, PeopleHold, NoStaff
<1>. QED  BY <1>1, <1>2, <1>3, <1>4, PeopleStay, PeopleGoOn

(* A wizard step that writes no employee.                                  *)
LEMMA PeopleUntouched ==
  ASSUME SetupTyped, PeopleBacked, NEW w \in Workers, UNCHANGED <<accMode, staff>>,
         NEW x, accSession' = [accSession EXCEPT ![w] = x], x # None => PeopleRest(x),
         NEW y, wizard' = y, PeopleFine(y)
  PROVE  PeopleBacked'
<1>1. TitlesStay
  BY DEF TitlesStay
<1>2. PeopleFine(wizard)'
  BY <1>1, PeopleStay DEF PeopleFine, PeopleHold, NoStaff
<1>. QED  BY <1>1, <1>2, PeopleStay, PeopleGoOn

(* So do the moves of the wizard, but for one.                             *)
LEMMA PeopleInWizard ==
  ASSUME SetupTyped, PeopleBacked, NEW w \in Workers, UNCHANGED accMode, WizardMove(w),
         ~SaveEmployee(w)
  PROVE  PeopleBacked'
<1>1. PICK y : y = wizard
  OBVIOUS
<1>2. /\ y \in WizardStates /\ PeopleFine(y) /\ accSession \in [Workers -> Maybe(Requests)]
      /\ NoStaff(y) => \A r \in Roles : y.users[r] = None
  BY <1>1 DEF SetupTyped, SessionsTyped, TablesTyped, PeopleBacked, NoStaff
<1>3. CASE ShortMove(w)
  <2>1. ASSUME UNCHANGED <<installed, wizard>>, NEW x, accSession' = [accSession EXCEPT ![w] = x],
               x = None \/ (x \in ShortRequests /\ x.op \in ShortOps /\ x.state = wizard)
        PROVE  PeopleBacked'
    <3>1. x # None => PeopleRest(x)
      BY <1>1, <1>2, <2>1 DEF PeopleRest, ShortOps
    <3>. QED  BY <1>1, <1>2, <1>3, <2>1, <3>1, ShortDoes, PeopleUntouched
  <2>2. ASSUME accSession[w] # None, accSession[w].op \in ShortOps,
               accSession' = [accSession EXCEPT ![w] = None], NEW state, wizard' = state,
               state.users = accSession[w].state.users
        PROVE  PeopleBacked'
    <3>1. PeopleFine(accSession[w].state)
      BY <2>2 DEF PeopleBacked, PeopleRest
    <3>2. PeopleFine(state)
      BY <2>2, <3>1 DEF PeopleFine, NoStaff
    <3>. QED  BY <1>3, <2>2, <3>2, ShortDoes, PeopleUntouched
  <2>. QED  BY <1>3, <2>1, <2>2, ShortDoes
<1>4. ASSUME NEW x, Serve(w, x), PeopleRest(x)  PROVE PeopleBacked'
  <2>1. UNCHANGED <<wizard, staff>> /\ accSession' = [accSession EXCEPT ![w] = x]
    BY <1>4 DEF Serve, tableVars
  <2>. QED  BY <1>1, <1>2, <1>4, <2>1, PeopleUntouched
<1>5. CASE \/ BeginTitles(w) \/ BeginCodes(w) \/ BeginGrants(w)
  <2>1. PICK x : /\ Serve(w, x)
                 /\ \/ x = Seeding(3, accMode.titles, {}, {}, NothingStored, wizard)
                    \/ x = Seeding(4, {}, CodesHere, {}, wizard.codes, wizard)
                    \/ x = Seeding(5, {}, {}, accMode.titles, NothingStored, wizard)
    BY <1>5 DEF BeginTitles, BeginCodes, BeginGrants
  <2>2. x.op = "seed" /\ x.state = y
    BY <1>1, <2>1 DEF Seeding
  <2>3. PeopleRest(x)
    BY <1>2, <2>2 DEF PeopleRest
  <2>. QED  BY <1>4, <2>1, <2>3
<1>6. ASSUME NEW payload \in UnitPayloads, BeginOrganization(w, payload)  PROVE PeopleBacked'
  <2>1. PICK x : x = [op |-> "units", next |-> 0, ask |-> payload, state |-> y]
    OBVIOUS
  <2>2. x.op = "units" /\ x.state = y /\ Serve(w, x)
    BY <1>1, <1>6, <2>1 DEF BeginOrganization
  <2>3. PeopleRest(x)
    BY <1>2, <2>2 DEF PeopleRest
  <2>. QED  BY <1>4, <2>2, <2>3
<1>7. ASSUME NEW payload \in StaffPayloads, BeginStaff(w, payload)  PROVE PeopleBacked'
  <2>1. PICK x : x = [op |-> "staff", next |-> 1, ask |-> payload, state |-> y,
                      made |-> [r \in Roles |-> None]]
    OBVIOUS
  <2>2. x.op = "staff" /\ x.next = 1 /\ x.state = y /\ Serve(w, x)
    BY <1>1, <1>7, <2>1 DEF BeginStaff
  <2>3. \A r \in Roles : ~(r < 1)
    BY DEF Roles
  <2>4. PeopleRest(x)
    BY <1>2, <2>2, <2>3 DEF PeopleRest, PeopleHold
  <2>. QED  BY <1>4, <2>2, <2>4
<1>8. CASE SaveUnit(w)
  <2>1. PICK s : s = accSession[w]
    OBVIOUS
  <2>2. /\ UNCHANGED <<wizard, staff>> /\ s # None /\ s \in UnitRequests /\ s.op = "units"
        /\ s.next \in {0, 1, 2}
        /\ \/ unit' = unit /\ accSession' = [accSession EXCEPT ![w] = None]
           \/ \E u, kind, code, parent, state : UnitSaved(w, s, u, kind, code, parent, state)
    BY <1>8, <2>1, SaveUnitDoes
  <2>3. PeopleFine(s.state) /\ s.state \in WizardStates
    BY <2>1, <2>2 DEF PeopleBacked, PeopleRest, UnitRequests
  <2>4. CASE accSession' = [accSession EXCEPT ![w] = None]
    BY <1>1, <1>2, <2>2, <2>4, PeopleUntouched
  <2>5. ASSUME NEW u, NEW kind, NEW code, NEW parent, NEW state,
               UnitSaved(w, s, u, kind, code, parent, state)
        PROVE  PeopleBacked'
    <3>1. state = (IF s.next = 0 THEN [s.state EXCEPT !.department = u]
                   ELSE [s.state EXCEPT !.teams = [s.state.teams EXCEPT ![s.next] = u]])
      BY <2>5 DEF UnitSaved
    <3>2. state.users = s.state.users
      BY <2>3, <3>1 DEF WizardStates
    <3>3. PICK x : x = [s EXCEPT !.next = s.next + 1, !.state = state]
      OBVIOUS
    <3>4. x.op = "units" /\ x.state = state /\ accSession' = [accSession EXCEPT ![w] = x]
      BY <2>2, <2>5, <3>3 DEF UnitSaved, UnitRequests
    <3>5. PeopleRest(x)
      BY <2>3, <3>2, <3>4 DEF PeopleRest, PeopleFine, NoStaff
    <3>. QED  BY <1>1, <1>2, <2>2, <3>4, <3>5, PeopleUntouched
  <2>. QED  BY <2>2, <2>4, <2>5
<1>9. CASE SyncLeadership(w)
  <2>1. PICK s, x : s = accSession[w] /\ x = [s EXCEPT !.next = 6]
    OBVIOUS
  <2>2. /\ UNCHANGED <<wizard, staff>> /\ s # None /\ s \in StaffRequests /\ s.op = "staff"
        /\ s.next = 5 /\ accSession' = [accSession EXCEPT ![w] = x]
    BY <1>9, <2>1, SyncLeadershipDoes
  <2>3. x.op = "staff" /\ x.next = 6 /\ x.made = s.made /\ x.state = s.state
    BY <2>1, <2>2 DEF StaffRequests
  <2>4. \A r \in Roles : r < 5 /\ r < 6
    BY DEF Roles
  <2>5. PeopleRest(s)
    BY <2>1, <2>2 DEF PeopleBacked
  <2>6. PeopleRest(x)
    BY <2>2, <2>3, <2>4, <2>5 DEF PeopleRest, PeopleHold
  <2>. QED  BY <1>1, <1>2, <2>2, <2>6, PeopleUntouched
<1>10. CASE PersistUnits(w) \/ PersistSeeding(w) \/ PersistStaff(w)
  <2>1. PICK s : s = accSession[w]
    OBVIOUS
  <2>2. PICK state \in WizardStates :
          /\ s # None /\ Persist(w, state)
          /\ \/ s.op = "units" /\ state.users = s.state.users
             \/ /\ s.op = "seed" /\ s.step # 0
                /\ state.users = y.users \/ state.users = s.state.users
             \/ s.op = "staff" /\ s.next = 6 /\ state.users = s.made
    BY <1>1, <1>10, <2>1, PersistDoes
  <2>3. PeopleRest(s)
    BY <2>1, <2>2 DEF PeopleBacked
  <2>4. \A r \in Roles : r < 5 /\ r < 6
    BY DEF Roles
  <2>5. PeopleFine(state)
    BY <1>2, <2>2, <2>3, <2>4 DEF PeopleRest, PeopleFine, PeopleHold, NoStaff
  <2>6. wizard' = state /\ UNCHANGED staff /\ accSession' = [accSession EXCEPT ![w] = None]
    BY <2>2 DEF Persist, tableVars
  <2>. QED  BY <2>5, <2>6, PeopleUntouched
<1>. QED  BY <1>3, <1>5, <1>6, <1>7, <1>8, <1>9, <1>10 DEF WizardMove

(* Saving an employee writes the remembered one of the role or a new one.  *)
LEMMA PeopleSaved ==
  ASSUME SetupTyped, PeopleBacked, NEW w \in Workers, UNCHANGED accMode, SaveEmployee(w)
  PROVE  PeopleBacked'
<1>1. PICK s : s = accSession[w]
  OBVIOUS
<1>2. /\ UNCHANGED wizard /\ s # None /\ s \in StaffRequests /\ s.op = "staff" /\ s.next \in Roles
      /\ \/ staff' = staff /\ accSession' = [accSession EXCEPT ![w] = None]
         \/ \E e, row, x : EmployeeSaved(w, s, e, row, x)
  BY <1>1, SaveEmployeeDoes
<1>3. PeopleRest(s) /\ PeopleFine(wizard)
  BY <1>1, <1>2 DEF PeopleBacked
<1>4. CASE staff' = staff /\ accSession' = [accSession EXCEPT ![w] = None]
  BY <1>2, <1>3, <1>4, PeopleUntouched
<1>5. ASSUME NEW e, NEW row, NEW x, EmployeeSaved(w, s, e, row, x)
      PROVE  PeopleBacked'
  <2>1. PICK role, stored, users : /\ role = s.next /\ users = s.state.users
                                   /\ stored = users[role]
    OBVIOUS
  <2>2. /\ s.state \in WizardStates /\ s.made \in [Roles -> Maybe(StaffIds)]
        /\ s.ask \in StaffPayloads /\ staff \in [StaffIds -> Maybe(StaffRows)]
        /\ role \in Roles /\ stored \in Maybe(StaffIds)
    BY <1>2, <2>1 DEF SetupTyped, TablesTyped, StaffRequests, WizardStates
  <2>3. /\ e \in StaffIds
        /\ stored # None => e = stored
        /\ stored = None => staff[e] = None
    BY <1>5, <2>1, <2>2, EmployeeForIs DEF EmployeeSaved
  <2>4. row.role = RoleTitle[role] /\ row # None
    <3>1. row = [matricule |-> s.ask[role], role |-> RoleTitle[role], team |-> TeamFor(s.state, role)]
      BY <1>5, <2>1 DEF EmployeeSaved
    <3>2. TeamFor(s.state, role) \in Maybe(UnitIds)
      BY <2>2 DEF TeamFor, RoleSlot, WizardStates, Roles, Slots, Maybe
    <3>3. RoleTitle[role] \in {RoleTitle[r] : r \in Roles}
      BY <2>2
    <3>4. row \in StaffRows
      BY <2>2, <3>1, <3>2, <3>3 DEF StaffRows
    <3>. QED  BY <3>1, <3>4, UnitPayloadsAreTyped
  <2>5. staff'[e] = row /\ \A q \in StaffIds : q # e => staff'[q] = staff[q]
    BY <1>5, <2>2, <2>3 DEF EmployeeSaved
  <2>6. /\ x.op = "staff" /\ x.next = role + 1 /\ x.state = s.state
        /\ x.made = [s.made EXCEPT ![role] = e] /\ accSession' = [accSession EXCEPT ![w] = x]
    BY <1>2, <1>5, <2>1 DEF EmployeeSaved, StaffRequests
  <2>7. x.made[role] = e /\ \A r \in Roles : r # role => x.made[r] = s.made[r]
    BY <2>2, <2>6
  <2>8. \A r \in Roles : /\ r < role + 1 <=> r < role \/ r = role
                         /\ r < 5 /\ ~(role < role)
    BY <2>2 DEF Roles
  <2>9. /\ PeopleFine(s.state) /\ PeopleHold(s.made, role)
        /\ NoStaff(s.state) \/ \A r \in Roles : r < role => s.made[r] = users[r]
    BY <1>2, <1>3, <2>1 DEF PeopleRest
  <2>10. CASE NoStaff(s.state)
    <3>1. staff[e] = None
      BY <2>1, <2>2, <2>3, <2>10 DEF NoStaff
    <3>2. TitlesStay
      BY <2>5, <3>1 DEF TitlesStay
    <3>3. \A r \in Roles : r < role => /\ s.made[r] \in StaffIds /\ s.made[r] # e /\ r # role
                                       /\ staff'[s.made[r]] # None
                                       /\ staff'[s.made[r]].role = RoleTitle[r]
      BY <2>5, <2>8, <2>9, <3>1 DEF PeopleHold
    <3>4. PeopleHold(x.made, role + 1)'
      <4>1. \A r \in Roles : r < role + 1 => /\ x.made[r] \in StaffIds /\ staff'[x.made[r]] # None
                                             /\ staff'[x.made[r]].role = RoleTitle[r]
        BY <2>3, <2>4, <2>5, <2>7, <2>8, <3>3
      <4>2. \A r, q \in Roles : r < role /\ q < role /\ s.made[r] = s.made[q] => r = q
        BY <2>9 DEF PeopleHold
      <4>3. \A r, q \in Roles : r < role + 1 /\ q < role + 1 /\ x.made[r] = x.made[q] => r = q
        BY <2>7, <2>8, <3>3, <4>2
      <4>. QED  BY <4>1, <4>3 DEF PeopleHold
    <3>5. NoStaff(x.state)' /\ PeopleFine(x.state)'
      BY <2>6, <2>10 DEF NoStaff, PeopleFine
    <3>6. PeopleRest(x)'
      BY <2>6, <3>4, <3>5 DEF PeopleRest
    <3>7. PeopleFine(wizard)'
      BY <1>2, <1>3, <3>2, PeopleStay DEF PeopleFine, PeopleHold, NoStaff
    <3>. QED  BY <2>6, <3>2, <3>6, <3>7, PeopleGoOn
  <2>11. CASE PeopleHold(users, 5)
    <3>1. /\ \A r \in Roles : users[r] \in StaffIds /\ staff[users[r]] # None
                              /\ staff[users[r]].role = RoleTitle[r]
          /\ \A r, q \in Roles : users[r] = users[q] => r = q
      BY <2>8, <2>11 DEF PeopleHold
    <3>2. e = users[role]
      BY <2>1, <2>2, <2>3, <3>1, UnitPayloadsAreTyped
    <3>3. TitlesStay
      BY <2>2, <2>4, <2>5, <3>1, <3>2 DEF TitlesStay
    <3>4. \A r \in Roles : r < role => s.made[r] = users[r]
      BY <2>1, <2>2, <2>9, <3>1, UnitPayloadsAreTyped DEF NoStaff
    <3>5. \A r \in Roles : r < role + 1 => x.made[r] = users[r]
      BY <2>7, <2>8, <3>2, <3>4
    <3>6. PeopleHold(users, 5)'
      BY <2>11, <3>3, PeopleStay
    <3>7. PeopleHold(x.made, role + 1)'
      BY <2>8, <3>5, <3>6 DEF PeopleHold
    <3>8. PeopleFine(x.state)'
      BY <2>1, <2>6, <3>6 DEF PeopleFine, PeopleHold
    <3>9. PeopleRest(x)'
      BY <2>1, <2>6, <3>5, <3>7, <3>8 DEF PeopleRest
    <3>10. PeopleFine(wizard)'
      BY <1>2, <1>3, <3>3, PeopleStay DEF PeopleFine, PeopleHold, NoStaff
    <3>. QED  BY <2>6, <3>3, <3>9, <3>10, PeopleGoOn
  <2>. QED  BY <2>1, <2>9, <2>10, <2>11 DEF PeopleFine
<1>. QED  BY <1>2, <1>4, <1>5

(* The employees the wizard remembers have the titles of their roles.      *)
LEMMA PeopleAreBacked == SetupSpec => []PeopleBacked
<1>1. SetupInit => PeopleBacked
  BY DEF SetupInit, AccessInit, InitialWizard, PeopleBacked, PeopleFine, NoStaff
<1>2. ASSUME SetupTyped, PeopleBacked, [SetupNext]_setupVars  PROVE PeopleBacked'
  <2>1. CASE UNCHANGED setupVars
    <3>1. UNCHANGED <<accSession, wizard, staff>>
      BY <2>1 DEF setupVars, accVars, tableVars
    <3>. QED  BY <1>2, <3>1 DEF PeopleBacked, PeopleFine, PeopleRest, PeopleHold, NoStaff
  <2>. QED  BY <1>2, <2>1, SetupMoves, PeopleInAccess, PeopleInWizard, PeopleSaved
<1>. QED  BY <1>1, <1>2, SetupIsTyped, PTL DEF SetupSpec

-----------------------------------------------------------------------------
(* A review, while requests do not overlap: what it found is still there   *)
(* when the installation is locked.                                        *)
ReviewRest(s) ==
  s.op \in {"review", "complete"} =>
    /\ "wizard" \in accMode.ops /\ GrantsThere /\ StaffThere(wizard)
    /\ s.op = "complete" => StaffThere(s.state)

ReviewsHold ==
  accMode.serial => \A v \in Workers : accSession[v] # None => ReviewRest(accSession[v])

(* A session that is not a review under way goes on to one or to another.  *)
LEMMA ReviewGoesOn ==
  ASSUME SetupTyped, NEW w \in Workers, NEW x, UNCHANGED accMode,
         accSession' = [accSession EXCEPT ![w] = x], accMode.serial => w = TheWorker,
         x # None /\ accMode.serial => ReviewRest(x)'
  PROVE  ReviewsHold'
<1>1. \A v \in Workers : accMode.serial /\ accSession'[v] # None => accSession'[v] = x
  BY DEF SetupTyped, SessionsTyped
<1>2. accMode.serial => \A v \in Workers : accSession'[v] # None =>
        \E s : s = accSession'[v] /\ ReviewRest(s)'
  BY <1>1
<1>3. accMode.serial => (\A v \in Workers : accSession[v] # None => ReviewRest(accSession[v]))'
  BY <1>2 DEF ReviewRest
<1>. QED  BY <1>3 DEF ReviewsHold

(* What a step leaves of a review.                                         *)
LEMMA ReviewStays ==
  ASSUME SetupTyped, ReviewsHold, [SetupNext]_setupVars
  PROVE  ReviewsHold'
<1>1. ASSUME NEW w \in Workers, UNCHANGED accMode, AccessMove(w)  PROVE ReviewsHold'
  <2>1. PICK x : /\ accSession' = [accSession EXCEPT ![w] = x]
                 /\ x = None \/ x.op \in {"assign", "migrate", "seed"}
    BY <1>1, AccessSessions
  <2>2. accMode.serial => w = TheWorker
    BY <1>1, AccessSessions DEF MayServe, TheWorker, SetupTyped, SessionsTyped
  <2>. QED  BY <1>1, <2>1, <2>2, ReviewGoesOn DEF ReviewRest
<1>2. ASSUME NEW w \in Workers, UNCHANGED accMode, WizardMove(w)  PROVE ReviewsHold'
  <2>1. accMode.serial => w = TheWorker
    BY <1>2, WizardSessions DEF MayServe, TheWorker, SetupTyped, SessionsTyped
  <2>2. CASE ReviewInstallation(w) /\ "wizard" \in accMode.ops
    <3>1. PICK x : x = [op |-> "review", state |-> wizard]
      OBVIOUS
    <3>2. /\ accSession' = [accSession EXCEPT ![w] = x] /\ x.op = "review"
          /\ UNCHANGED <<permRow, titleRows, granted, wizard>> /\ GrantsThere /\ StaffThere(wizard)
      BY <2>2, <3>1 DEF ReviewInstallation, Serve, Ready, permissionVars
    <3>3. ReviewRest(x)'
      BY <1>2, <2>2, <3>2, ModeKeeps DEF ReviewRest, GrantsThere, GrantedTo, StaffThere
    <3>. QED  BY <1>2, <2>1, <3>2, <3>3, ReviewGoesOn
  <2>3. CASE LoadInstallation(w)
    <3>1. PICK s, x : s = accSession[w] /\ x = [op |-> "complete", state |-> wizard]
      OBVIOUS
    <3>2. /\ s # None /\ s.op = "review" /\ x.op = "complete" /\ x.state = wizard
          /\ UNCHANGED <<permRow, titleRows, granted, wizard>>
          /\ \/ accSession' = [accSession EXCEPT ![w] = None]
             \/ accSession' = [accSession EXCEPT ![w] = x]
      BY <2>3, <3>1 DEF LoadInstallation, Running, permissionVars
    <3>3. accMode.serial => ReviewRest(s)
      BY <3>1, <3>2 DEF ReviewsHold
    <3>4. accMode.serial => ReviewRest(x)'
      BY <1>2, <3>2, <3>3, ModeKeeps DEF ReviewRest, GrantsThere, GrantedTo, StaffThere
    <3>5. CASE accSession' = [accSession EXCEPT ![w] = x]
      BY <1>2, <2>1, <3>4, <3>5, ReviewGoesOn
    <3>6. CASE accSession' = [accSession EXCEPT ![w] = None]
      BY <1>2, <2>1, <3>6, ReviewGoesOn
    <3>. QED  BY <3>2, <3>5, <3>6
  <2>4. CASE ~ReviewInstallation(w) /\ ~LoadInstallation(w)
    <3>1. PICK x : /\ accSession' = [accSession EXCEPT ![w] = x]
                   /\ x = None \/ x.op \notin {"review", "complete"}
      <4>1. CASE ShortMove(w)
        <5>1. CASE BeginReadiness(w)
          <6>1. PICK x : x = [op |-> "readiness", state |-> wizard]
            OBVIOUS
          <6>2. x.op = "readiness" /\ accSession' = [accSession EXCEPT ![w] = x]
            BY <5>1, <6>1 DEF BeginReadiness, Serve
          <6>. QED  BY <6>2
        <5>2. CASE SaveReadiness(w) \/ CompleteInstallation(w)
          BY <5>2 DEF SaveReadiness, CompleteInstallation, Persist
        <5>. QED  BY <2>4, <4>1, <5>1, <5>2 DEF ShortMove
      <4>2. CASE ~ShortMove(w)
        BY <1>2, <4>2, WizardSessions DEF Seeding, ShortOps
      <4>. QED  BY <4>1, <4>2
    <3>. QED  BY <1>2, <2>1, <3>1, ReviewGoesOn DEF ReviewRest
  <2>5. CASE ReviewInstallation(w) /\ "wizard" \notin accMode.ops
    <3>1. accSession[w] = None /\ accSession' = [accSession EXCEPT ![w] = [op |-> "review", state |-> wizard]]
      BY <2>5 DEF ReviewInstallation, Serve, MayServe
    <3>2. accSession'[w].op = "review"
      BY <3>1 DEF SetupTyped, SessionsTyped
    <3>3. BeginTitles(w) \/ BeginCodes(w) \/ BeginGrants(w)
      BY <1>2, <2>5, <3>1 DEF WizardMove, SaveUnit, SaveEmployee, SyncLeadership, PersistUnits,
         PersistSeeding, PersistStaff, Running, Seeded, IsSeeding
    <3>4. \E x : x.op = "seed" /\ accSession' = [accSession EXCEPT ![w] = x]
      BY <3>3 DEF BeginTitles, BeginCodes, BeginGrants, Serve, Seeding
    <3>5. accSession'[w].op = "seed"
      BY <3>4 DEF SetupTyped, SessionsTyped
    <3>. QED  BY <3>2, <3>5
  <2>. QED  BY <2>2, <2>3, <2>4, <2>5
<1>3. CASE UNCHANGED setupVars
  <2>1. UNCHANGED <<accMode, permRow, titleRows, granted, accSession, wizard>>
    BY <1>3 DEF setupVars, accVars
  <2>2. ASSUME NEW s, ReviewRest(s)  PROVE ReviewRest(s)'
    BY <2>1, <2>2, ModeKeeps DEF ReviewRest, GrantsThere, GrantedTo, StaffThere
  <2>3. accMode.serial => \A v \in Workers : accSession'[v] # None =>
          \E s : s = accSession'[v] /\ ReviewRest(s)'
    BY <2>1, <2>2 DEF ReviewsHold
  <2>4. accMode.serial => (\A v \in Workers : accSession[v] # None => ReviewRest(accSession[v]))'
    BY <2>3 DEF ReviewRest
  <2>. QED  BY <2>1, <2>4 DEF ReviewsHold
<1>. QED  BY <1>1, <1>2, <1>3, SetupMoves

(* While requests do not overlap, whoever the wizard installed holds, when *)
(* the installation is completed, what the role matrix gives his role, and *)
(* the four are different people, whatever attempts broke off before.      *)
THEOREM InstallationIsComplete == SetupSpec => InstallsComplete
<1>1. ASSUME SetupTyped, PeopleBacked, ReviewsHold, [SetupNext]_setupVars, accMode.serial,
             ~installed, installed', NEW r \in Roles
      PROVE  /\ RoleMatrix[staff[wizard'.users[r]].role] \cap CodesHere
                  \subseteq {permRow[x].code : x \in GrantedTo(staff[wizard'.users[r]].role)}
             /\ \A q \in Roles : wizard'.users[q] = wizard'.users[r] => q = r
  <2>1. SetupNext
    BY <1>1 DEF setupVars
  <2>2. PICK w \in Workers : (AccessMove(w) /\ UNCHANGED WizardTables) \/ WizardMove(w)
    BY <2>1, SetupMoves
  <2>3. CompleteInstallation(w)
    BY <1>1, <2>2 DEF WizardTables, WizardMove, ShortMove, BeginReadiness, SaveReadiness,
       ReviewInstallation, LoadInstallation, BeginOrganization, BeginTitles, BeginCodes, BeginGrants,
       BeginStaff, Serve, SaveUnit, SaveEmployee, SyncLeadership, PersistUnits, PersistSeeding,
       PersistStaff, Persist
  <2>4. PICK s : s = accSession[w]
    OBVIOUS
  <2>5. s # None /\ s.op = "complete" /\ wizard' = [s.state EXCEPT !.last = 7]
    BY <2>3, <2>4 DEF CompleteInstallation, Running
  <2>6. "wizard" \in accMode.ops /\ GrantsThere /\ StaffThere(s.state)
    BY <1>1, <2>4, <2>5 DEF ReviewsHold, ReviewRest
  <2>7. s.state \in WizardStates
    BY <1>1, <2>4, <2>5, RequestOf DEF SetupTyped, SessionsTyped, Maybe, ShortRequests, ShortOps
  <2>8. wizard'.users = s.state.users
    BY <2>5, <2>7 DEF WizardStates
  <2>9. PeopleHold(s.state.users, 5)
    <3>1. PeopleFine(s.state)
      BY <1>1, <2>4, <2>5 DEF PeopleBacked, PeopleRest, ShortOps
    <3>2. ~NoStaff(s.state)
      BY <1>1, <2>6 DEF StaffThere, NoStaff
    <3>. QED  BY <3>1, <3>2 DEF PeopleFine
  <2>10. \A q \in Roles : q < 5
    BY DEF Roles
  <2>11. staff[wizard'.users[r]].role = RoleTitle[r]
    BY <1>1, <2>8, <2>9, <2>10 DEF PeopleHold
  <2>12. RoleTitle[r] \in accMode.titles
    <3>1. accMode \in AccessModes
      BY <1>1 DEF SetupTyped, TablesTyped
    <3>. QED  BY <1>1, <2>6, <3>1, WizardSeedsItsTitles
  <2>13. RoleMatrix[RoleTitle[r]] \cap CodesHere
           \subseteq {permRow[x].code : x \in GrantedTo(RoleTitle[r])}
    BY <2>6, <2>12 DEF GrantsThere
  <2>14. \A q \in Roles : wizard'.users[q] = wizard'.users[r] => q = r
    BY <1>1, <2>8, <2>9, <2>10 DEF PeopleHold
  <2>. QED  BY <2>11, <2>13, <2>14
<1>2. SetupTyped /\ PeopleBacked /\ ReviewsHold /\ [SetupNext]_setupVars =>
        [accMode.serial /\ ~installed /\ installed' =>
           \A r \in Roles :
             LET role == staff[wizard'.users[r]].role
             IN /\ RoleMatrix[role] \cap CodesHere \subseteq {permRow[x].code : x \in GrantedTo(role)}
                /\ \A q \in Roles : wizard'.users[q] = wizard'.users[r] => q = r]_setupVars
  BY <1>1
<1>3. SetupInit => ReviewsHold
  BY DEF SetupInit, AccessInit, ReviewsHold
<1>4. SetupTyped /\ ReviewsHold /\ [SetupNext]_setupVars => ReviewsHold'
  BY ReviewStays
<1>. QED  BY <1>2, <1>3, <1>4, SetupIsTyped, PeopleAreBacked, PTL DEF SetupSpec, InstallsComplete

(* The tables keep their shape, the grants of a title name permissions and *)
(* titles there are, and the asked ones too.                               *)
LEMMA SetupTypesHold == SetupSpec => []SetupTypeOK
<1>1. ASSUME SetupTyped, GrantsBacked  PROVE SetupTypeOK
  <2>1. \A t \in accMode.titles : asked[t] \subseteq GrantedTo(t) /\ GrantedTo(t) \subseteq ExistingRows
    BY <1>1 DEF GrantsBacked, PermissionsReplaced, GrantedTo
  <2>2. asked \in [accMode.titles -> SUBSET ExistingRows]
    BY <1>1, <2>1 DEF SetupTyped, TablesTyped
  <2>3. StoredUnits(wizard) \subseteq Maybe(UnitIds)
    BY <1>1 DEF SetupTyped, TablesTyped, WizardStates, StoredUnits
  <2>4. wizard.last \in 0..7 /\ wizard.users \in [Roles -> Maybe(StaffIds)]
    BY <1>1 DEF SetupTyped, TablesTyped, WizardStates
  <2>. QED  BY <1>1, <2>2, <2>3, <2>4 DEF SetupTypeOK, SetupTyped, TablesTyped, SessionsTyped, GrantsBacked
<1>2. SetupInit => GrantsBacked
  BY DEF SetupInit, AccessInit, GrantsBacked, PermissionsReplaced, GrantedTo
<1>3. SetupTyped /\ GrantsBacked /\ [SetupNext]_setupVars => GrantsBacked'
  BY GrantsStayBacked
<1>. QED  BY <1>1, <1>2, <1>3, SetupIsTyped, PTL DEF SetupSpec

(* What the wizard remembers is what the tables hold.                      *)
LEMMA ProgressStaysBacked == SetupSpec => []ProgressIsBacked
<1>1. ASSUME SetupTyped, CatalogBacked  PROVE CodesAreBacked
  BY <1>1 DEF CatalogBacked, CodesFine, CodesNamed, CodesAreBacked
<1>2. ASSUME SetupTyped, WizardBacked, accMode.serial  PROVE UnitsAreBacked /\ LeadersAreBacked
  <2>1. Backed(wizard)
    BY <1>2 DEF WizardBacked
  <2>2. 1 \in Slots /\ 1 \in Roles /\ \A r \in Roles : r < 5
    BY DEF Slots, Roles
  <2>3. UnitsAreBacked
    BY <2>1, <2>2 DEF Backed, NoUnits, OrganizationThere, StoredUnits, UnitsAreBacked, UnitsBacked
  <2>4. ASSUME StaffThere(wizard)
        PROVE  /\ unit[wizard.department].head = wizard.users[2]
               /\ \A i \in Slots : /\ unit[wizard.teams[i]].head = wizard.users[i + 2]
                                   /\ staff[wizard.users[i + 2]].role = "TEAM_LEADER"
                                   /\ staff[wizard.users[i + 2]].team = wizard.teams[i]
    <3>1. StaffBacked(wizard)
      BY <2>1, <2>2, <2>4 DEF Backed, NoStaff, StaffThere
    <3>2. HeadsAre(wizard, wizard.users) /\ PlacesAre(wizard, wizard.users, 5)
      BY <3>1 DEF StaffBacked
    <3>3. \A i \in Slots : staff[wizard.users[i + 2]].role = RoleTitle[i + 2]
                           /\ staff[wizard.users[i + 2]].team = TeamFor(wizard, i + 2)
      <4>1. \A i \in Slots : i + 2 \in Roles /\ i + 2 < 5
        BY DEF Slots, Roles
      <4>. QED  BY <3>2, <4>1 DEF PlacesAre
    <3>4. \A i \in Slots : RoleTitle[i + 2] = "TEAM_LEADER" /\ RoleSlot[i + 2] = i
      BY DEF Slots, RoleTitle, RoleSlot
    <3>5. \A i \in Slots : TeamFor(wizard, i + 2) = wizard.teams[i]
      <4>1. \A i \in Slots : i # None
        BY UnitPayloadsAreTyped
      <4>. QED  BY <3>4, <4>1 DEF TeamFor
    <3>. QED  BY <3>2, <3>3, <3>4, <3>5 DEF HeadsAre
  <2>5. LeadersAreBacked
    BY <2>4 DEF LeadersAreBacked
  <2>. QED  BY <2>3, <2>5
<1>3. SetupTyped /\ CatalogBacked /\ WizardBacked => ProgressIsBacked
  BY <1>1, <1>2 DEF ProgressIsBacked
<1>. QED  BY <1>3, SetupIsTyped, CatalogIsBacked, WizardIsBacked, PTL

(* Overlapping, broken off or repeated: the catalog is restored by every   *)
(* seeding, each title is granted what was asked for last, and what the    *)
(* wizard remembers is what the tables hold.                               *)
THEOREM AccessHolds == SetupSpec => []AccessInv
<1>1. SetupTypeOK /\ PermissionsReplaced /\ CatalogRestored /\ ProgressIsBacked => AccessInv
  BY DEF AccessInv
<1>. QED  BY <1>1, SetupTypesHold, GrantsAreReplaced, CatalogIsRestored, ProgressStaysBacked, PTL

-----------------------------------------------------------------------------
(***************************************************************************)
(* For every company, caller and filter: the dashboard agrees with itself. *)
(***************************************************************************)

(* The pairs a sum counts.                                                 *)
Pairs(rows) == UNION {{v} \X (1..rows[v]) : v \in DOMAIN rows}

(* A pair is a key and a place in its count.                               *)
LEMMA PairIs ==
  ASSUME NEW rows
  PROVE  /\ \A z \in Pairs(rows) : z = <<z[1], z[2]>> /\ z[1] \in DOMAIN rows /\ z[2] \in 1..rows[z[1]]
         /\ \A v \in DOMAIN rows : \A i \in 1..rows[v] : <<v, i>> \in Pairs(rows)
<1>1. ASSUME NEW z \in Pairs(rows)
      PROVE  z = <<z[1], z[2]>> /\ z[1] \in DOMAIN rows /\ z[2] \in 1..rows[z[1]]
  <2>1. PICK v \in DOMAIN rows : z \in {v} \X (1..rows[v])
    BY DEF Pairs
  <2>2. z = <<z[1], z[2]>> /\ z[1] = v /\ z[2] \in 1..rows[v]
    BY <2>1
  <2>. QED  BY <2>2
<1>2. ASSUME NEW v \in DOMAIN rows, NEW i \in 1..rows[v]  PROVE <<v, i>> \in Pairs(rows)
  <2>1. <<v, i>> \in {v} \X (1..rows[v])
    OBVIOUS
  <2>. QED  BY <2>1 DEF Pairs
<1>. QED  BY <1>1, <1>2

(* A count by key adds up to what is counted, each under its key.          *)
LEMMA CountsAddUp ==
  ASSUME NEW S, IsFiniteSet(S), NEW key, NEW rows,
         \A e \in S : key[e] \in DOMAIN rows,
         \A v \in DOMAIN rows : rows[v] = Cardinality({e \in S : key[e] = v})
  PROVE  Sum(rows) = Cardinality(S)
<1> DEFINE Class(v) == {e \in S : key[e] = v}
           P == Pairs(rows)
           nth == [v \in DOMAIN rows |-> CHOOSE b : b \in Bijection(1..rows[v], Class(v))]
           g == [z \in P |-> nth[z[1]][z[2]]]
<1>1. \A v \in DOMAIN rows : nth[v] \in Bijection(1..rows[v], Class(v))
  <2>1. ASSUME NEW v \in DOMAIN rows  PROVE nth[v] \in Bijection(1..rows[v], Class(v))
    <3>1. IsFiniteSet(Class(v))
      BY FS_Subset
    <3>2. rows[v] = Cardinality(Class(v))
      OBVIOUS
    <3>. HIDE DEF Class
    <3>3. Bijection(1..rows[v], Class(v)) # {}
      BY <3>1, <3>2, FS_CardinalityType DEF ExistsBijection
    <3>. QED  BY <3>3
  <2>. QED  BY <2>1
<1>2. \A v \in DOMAIN rows :
        /\ \A i \in 1..rows[v] : nth[v][i] \in Class(v)
        /\ \A i, j \in 1..rows[v] : nth[v][i] = nth[v][j] => i = j
        /\ \A e \in Class(v) : \E i \in 1..rows[v] : nth[v][i] = e
  <2> SUFFICES ASSUME NEW v \in DOMAIN rows
               PROVE  /\ \A i \in 1..rows[v] : nth[v][i] \in Class(v)
                      /\ \A i, j \in 1..rows[v] : nth[v][i] = nth[v][j] => i = j
                      /\ \A e \in Class(v) : \E i \in 1..rows[v] : nth[v][i] = e
    BY Zenon
  <2>1. PICK b : b = nth[v]
    OBVIOUS
  <2>2. PICK T : T = Class(v)
    OBVIOUS
  <2>3. b \in Bijection(1..rows[v], T)
    BY <1>1, <2>1, <2>2
  <2>4. b \in [1..rows[v] -> T]
        /\ (\A i, j \in 1..rows[v] : b[i] = b[j] => i = j)
        /\ \A e \in T : \E i \in 1..rows[v] : b[i] = e
    BY ONLY <2>3 DEF Bijection, Injection, Surjection, IsInjective
  <2>. HIDE DEF nth, Class
  <2>. QED  BY <2>1, <2>2, <2>4
<1>. HIDE DEF nth
<1>3. \A z \in P : g[z] \in S /\ key[g[z]] = z[1]
  BY <1>2, PairIs
<1>4. ASSUME NEW y \in P, NEW z \in P, g[y] = g[z]  PROVE y = z
  <2>1. y[1] = z[1]
    BY <1>3, <1>4
  <2>2. y[2] \in 1..rows[y[1]] /\ z[2] \in 1..rows[y[1]] /\ y[1] \in DOMAIN rows
    BY <2>1, PairIs
  <2>3. y[2] = z[2]
    BY <1>2, <1>4, <2>1, <2>2
  <2>. QED  BY <2>1, <2>3, PairIs
<1>5. ASSUME NEW e \in S  PROVE \E z \in P : g[z] = e
  <2>1. key[e] \in DOMAIN rows /\ e \in Class(key[e])
    OBVIOUS
  <2>2. PICK i \in 1..rows[key[e]] : nth[key[e]][i] = e
    BY <1>2, <2>1
  <2>3. <<key[e], i>> \in P
    BY <2>1, PairIs
  <2>4. g[<<key[e], i>>] = e
    BY <2>2, <2>3
  <2>. QED  BY <2>3, <2>4
<1>6. g \in Injection(P, S) /\ g \in Surjection(P, S)
  <2>. HIDE DEF P
  <2>1. g \in [P -> S]
    BY <1>3
  <2>2. \A y, z \in P : g[y] = g[z] => y = z
    BY <1>4
  <2>3. \A e \in S : \E z \in P : g[z] = e
    BY <1>5
  <2>. HIDE DEF g
  <2>. QED  BY <2>1, <2>2, <2>3 DEF Injection, Surjection, IsInjective
<1>7. Cardinality(P) = Cardinality(S)
  <2>. HIDE DEF P, g
  <2>. QED  BY <1>6, FS_Injection
<1>. QED  BY <1>7 DEF Sum, Pairs

(* Finitely many numbers have a sum.                                       *)
LEMMA SumIsNat ==
  ASSUME NEW D, IsFiniteSet(D), NEW r \in [D -> Nat]
  PROVE  IsFiniteSet(Pairs(r)) /\ Sum(r) = Cardinality(Pairs(r)) /\ Sum(r) \in Nat
<1> DEFINE Of(v) == {v} \X (1..r[v])
           all == {Of(v) : v \in D}
           f == [v \in D |-> Of(v)]
<1>1. ASSUME NEW v \in D  PROVE IsFiniteSet(Of(v))
  <2>1. PICK n \in Nat : n = r[v]
    OBVIOUS
  <2>2. IsFiniteSet({v})
    BY FS_Singleton, Zenon
  <2>3. IsFiniteSet(1..n)
    BY FS_Interval
  <2>4. IsFiniteSet({v} \X (1..n))
    BY <2>2, <2>3, FS_Product
  <2>. QED  BY <2>1, <2>4
<1>. HIDE DEF Of
<1>2. f \in Surjection(D, all)
  BY DEF Surjection
<1>3. IsFiniteSet(all)
  <2>. HIDE DEF f, all
  <2>. QED  BY <1>2, FS_Surjection
<1>4. IsFiniteSet(UNION all)
  <2>1. \A T \in all : IsFiniteSet(T)
    BY <1>1
  <2>. HIDE DEF all
  <2>. QED  BY <1>3, <2>1, FS_UNION
<1>5. Pairs(r) = UNION all
  BY DEF Pairs, Of
<1>6. Sum(r) = Cardinality(Pairs(r))
  BY DEF Sum, Pairs
<1>. HIDE DEF all
<1>. QED  BY <1>4, <1>5, <1>6, FS_CardinalityType

(* Sums of two columns add up to the sum of the rows.                      *)
LEMMA SumOfSums ==
  ASSUME NEW D, IsFiniteSet(D), NEW r \in [D -> Nat], NEW s \in [D -> Nat], NEW t \in [D -> Nat],
         \A v \in D : t[v] = r[v] + s[v]
  PROVE  Sum(t) = Sum(r) + Sum(s)
<1> DEFINE P == Pairs(r)
           Q == Pairs(s)
           T == Pairs(t)
           moved == [z \in Q |-> <<z[1], r[z[1]] + z[2]>>]
           R == {moved[z] : z \in Q}
<1>1. /\ IsFiniteSet(P) /\ IsFiniteSet(Q) /\ IsFiniteSet(T)
      /\ Sum(r) = Cardinality(P) /\ Sum(s) = Cardinality(Q) /\ Sum(t) = Cardinality(T)
      /\ Sum(r) \in Nat /\ Sum(s) \in Nat
  BY SumIsNat
<1>2. /\ \A z \in P : z = <<z[1], z[2]>> /\ z[1] \in D /\ z[2] \in 1..r[z[1]]
      /\ \A v \in D : \A i \in 1..r[v] : <<v, i>> \in P
  <2>1. DOMAIN r = D
    OBVIOUS
  <2>. QED  BY <2>1, PairIs
<1>3. /\ \A z \in Q : z = <<z[1], z[2]>> /\ z[1] \in D /\ z[2] \in 1..s[z[1]]
      /\ \A v \in D : \A i \in 1..s[v] : <<v, i>> \in Q
  <2>1. DOMAIN s = D
    OBVIOUS
  <2>. QED  BY <2>1, PairIs
<1>4. /\ \A z \in T : z = <<z[1], z[2]>> /\ z[1] \in D /\ z[2] \in 1..t[z[1]]
      /\ \A v \in D : \A i \in 1..t[v] : <<v, i>> \in T
  <2>1. DOMAIN t = D
    OBVIOUS
  <2>. QED  BY <2>1, PairIs
<1>. HIDE DEF P, Q, T
<1>5. \A y, z \in Q : moved[y] = moved[z] => y = z
  <2>1. ASSUME NEW y \in Q, NEW z \in Q, moved[y] = moved[z]  PROVE y = z
    <3>1. y[1] = z[1] /\ r[y[1]] + y[2] = r[y[1]] + z[2]
      BY <2>1
    <3>2. y[2] \in 1..s[y[1]] /\ z[2] \in 1..s[z[1]] /\ y[1] \in D
      BY <1>3
    <3>3. r[y[1]] \in Nat /\ s[y[1]] \in Nat
      BY <3>2
    <3>4. PICK b, i, k : b = r[y[1]] /\ i = y[2] /\ k = z[2]
      OBVIOUS
    <3>5. b \in Nat /\ i \in Nat /\ k \in Nat
      BY <3>1, <3>2, <3>3, <3>4
    <3>6. b + i = b + k
      BY <3>1, <3>4
    <3>7. i = k
      BY ONLY <3>5, <3>6
    <3>8. y[2] = z[2]
      BY <3>4, <3>7
    <3>. QED  BY <1>3, <3>1, <3>8
  <2>. QED  BY <2>1
<1>6. moved \in Injection(Q, R) /\ moved \in Surjection(Q, R)
  <2>1. moved \in [Q -> R]
    OBVIOUS
  <2>2. \A x \in R : \E z \in Q : moved[z] = x
    OBVIOUS
  <2>. HIDE DEF moved, R
  <2>. QED  BY <1>5, <2>1, <2>2 DEF Injection, Surjection, IsInjective
<1>7. IsFiniteSet(R) /\ Cardinality(R) = Cardinality(Q)
  <2>. HIDE DEF moved, R
  <2>1. IsFiniteSet(R)
    BY <1>1, <1>6, FS_Surjection
  <2>. QED  BY <1>6, <2>1, FS_Injection
<1>8. \A x : x \in R <=> \E v \in D : \E i \in 1..s[v] : x = <<v, r[v] + i>>
  <2>1. ASSUME NEW z \in Q  PROVE \E v \in D : \E i \in 1..s[v] : moved[z] = <<v, r[v] + i>>
    BY <1>3
  <2>2. ASSUME NEW v \in D, NEW i \in 1..s[v]  PROVE <<v, r[v] + i>> \in R
    <3>1. <<v, i>> \in Q
      BY <1>3
    <3>2. moved[<<v, i>>] = <<v, r[v] + i>>
      BY <3>1
    <3>. QED  BY <3>1, <3>2
  <2>. QED  BY <2>1, <2>2
<1>. HIDE DEF moved, R
<1>9. T = P \cup R
  <2>1. ASSUME NEW x \in T  PROVE x \in P \cup R
    <3>0. PICK v \in D : \E k \in 1..t[v] : x = <<v, k>>
      BY <1>4
    <3>1. PICK k \in 1..t[v] : x = <<v, k>>
      BY <3>0
    <3>2. t[v] = r[v] + s[v] /\ r[v] \in Nat /\ s[v] \in Nat
      OBVIOUS
    <3>3. CASE k \in 1..r[v]
      BY <1>2, <3>1, <3>3
    <3>4. CASE k \notin 1..r[v]
      <4>1. k - r[v] \in 1..s[v] /\ k = r[v] + (k - r[v])
        BY <3>1, <3>2, <3>4
      <4>. QED  BY <1>8, <3>1, <4>1
    <3>. QED  BY <3>3, <3>4
  <2>2. ASSUME NEW x \in P  PROVE x \in T
    <3>0. PICK v \in D : \E k \in 1..r[v] : x = <<v, k>>
      BY <1>2
    <3>1. PICK k \in 1..r[v] : x = <<v, k>>
      BY <3>0
    <3>2. t[v] = r[v] + s[v] /\ r[v] \in Nat /\ s[v] \in Nat
      OBVIOUS
    <3>3. k \in 1..t[v]
      BY <3>1, <3>2
    <3>. QED  BY <1>4, <3>1, <3>3
  <2>3. ASSUME NEW x \in R  PROVE x \in T
    <3>0. PICK v \in D : \E i \in 1..s[v] : x = <<v, r[v] + i>>
      BY <1>8
    <3>1. PICK i \in 1..s[v] : x = <<v, r[v] + i>>
      BY <3>0
    <3>2. t[v] = r[v] + s[v] /\ r[v] \in Nat /\ s[v] \in Nat
      OBVIOUS
    <3>3. r[v] + i \in 1..t[v]
      BY <3>1, <3>2
    <3>. QED  BY <1>4, <3>1, <3>3
  <2>. QED  BY <2>1, <2>2, <2>3
<1>10. P \cap R = {}
  <2>1. ASSUME NEW x \in P, x \in R  PROVE FALSE
    <3>1. x[2] \in 1..r[x[1]] /\ x[1] \in D
      BY <1>2
    <3>0. PICK v \in D : \E i \in 1..s[v] : x = <<v, r[v] + i>>
      BY <1>8, <2>1
    <3>2. PICK i \in 1..s[v] : x = <<v, r[v] + i>>
      BY <3>0
    <3>3. r[v] + i \in 1..r[v]
      BY <3>1, <3>2
    <3>4. r[v] \in Nat /\ s[v] \in Nat
      OBVIOUS
    <3>. QED  BY <3>2, <3>3, <3>4
  <2>. QED  BY <2>1
<1>11. Cardinality(T) = Cardinality(P) + Cardinality(R) - Cardinality({})
  BY <1>1, <1>7, <1>9, <1>10, FS_Union
<1>. QED  BY <1>1, <1>7, <1>11, FS_EmptySet

(* The sum of a constant.                                                  *)
LEMMA SumOfConstant ==
  ASSUME NEW D, IsFiniteSet(D), NEW n \in Nat
  PROVE  Sum([v \in D |-> n]) = n * Cardinality(D)
<1> DEFINE r == [v \in D |-> n]
<1>1. Pairs(r) = D \X (1..n)
  <2>1. ASSUME NEW z \in Pairs(r)  PROVE z \in D \X (1..n)
    <3>1. z = <<z[1], z[2]>> /\ z[1] \in DOMAIN r /\ z[2] \in 1..r[z[1]]
      BY PairIs
    <3>. QED  BY <3>1
  <2>2. ASSUME NEW z \in D \X (1..n)  PROVE z \in Pairs(r)
    <3>1. PICK v \in D, i \in 1..n : z = <<v, i>>
      OBVIOUS
    <3>2. <<v, i>> \in Pairs(r)
      BY PairIs
    <3>. QED  BY <3>1, <3>2
  <2>. QED  BY <2>1, <2>2
<1>2. IsFiniteSet(1..n) /\ Cardinality(1..n) = n
  BY FS_Interval
<1>3. Cardinality(D \X (1..n)) = Cardinality(D) * Cardinality(1..n)
  BY <1>2, FS_Product
<1>4. Cardinality(D) \in Nat
  BY FS_CardinalityType
<1>5. Sum(r) = Cardinality(Pairs(r))
  BY DEF Sum, Pairs
<1>. HIDE DEF r
<1>6. Sum(r) = Cardinality(D) * n
  BY <1>1, <1>2, <1>3, <1>5
<1>7. Cardinality(D) * n = n * Cardinality(D)
  BY <1>4
<1>. QED  BY <1>6, <1>7 DEF r

(* What the tables of a company hold.                                      *)
LEMMA CompanyIs ==
  ASSUME DashTypeOK
  PROVE  /\ \A e \in Staff : /\ company.staff[e].squad \in Maybe(Squads)
                             /\ company.staff[e].division \in Maybe(Divisions)
         /\ \A s \in Squads : company.squad[s].division \in Divisions
         /\ \A c \in Cards : /\ company.request[c].requester \in Staff
                            /\ company.request[c].day \in Nat /\ company.request[c].dbDay \in Nat
                            /\ company.request[c].dbDay <= company.request[c].day + 1
                            /\ company.request[c].day <= company.request[c].dbDay + 1
<1>1. company \in Company
  BY CompaniesAreTyped DEF DashTypeOK
<1>2. PICK posts, squads, requests :
        posts = company.staff /\ squads = company.squad /\ requests = company.request
  OBVIOUS
<1>3. \A e \in Staff : posts[e].squad \in Maybe(Squads) /\ posts[e].division \in Maybe(Divisions)
  BY <1>1, <1>2 DEF Company
<1>4. \A s \in Squads : squads[s].division \in Divisions
  BY <1>1, <1>2 DEF Company
<1>5. \A c \in Cards : /\ requests[c].requester \in Staff
                      /\ requests[c].day \in Nat /\ requests[c].dbDay \in Nat
  BY <1>1, <1>2 DEF Company
<1>6. \A c \in Cards : /\ requests[c].dbDay <= requests[c].day + 1
                      /\ requests[c].day <= requests[c].dbDay + 1
  BY <1>2, ZonesAreWithinADay DEF DashTypeOK
<1>. QED  BY <1>2, <1>3, <1>4, <1>5, <1>6

(* What a question names.                                                  *)
LEMMA QuestionIs ==
  ASSUME DashTypeOK, query # None
  PROVE  /\ query.user \in Staff \cup {Guest} /\ query.full \in BOOLEAN
         /\ query.squad \in Maybe(Squads) /\ query.division \in Maybe(Divisions)
         /\ query.from \in Maybe(DashDays) /\ query.to \in Maybe(DashDays)
<1>1. query \in Question
  BY DEF DashTypeOK, Maybe
<1>. QED  BY <1>1 DEF Question

(* Finitely many people are in scope.                                      *)
LEMMA PeopleAreFinite ==
  ASSUME NEW q
  PROVE  /\ Employees(q) \subseteq Staff /\ Active(q) \subseteq Employees(q)
         /\ IsFiniteSet(Employees(q)) /\ IsFiniteSet(Active(q))
<1>1. Employees(q) \subseteq Staff /\ Active(q) \subseteq Employees(q)
  BY DEF Employees, Active
<1>2. IsFiniteSet(Employees(q))
  BY <1>1, TablesAreFinite, FS_Subset
<1>. QED  BY <1>1, <1>2, FS_Subset

(* One row per value accounts for everybody.                               *)
LEMMA BreakdownIsWhole ==
  ASSUME NEW q, NEW column
  PROVE  Sum(Breakdown(q, column)) = Cardinality(Employees(q))
<1> DEFINE rows == Breakdown(q, column)
           key == [e \in Employees(q) |-> company.staff[e][column]]
<1>1. \A e \in Employees(q) : key[e] \in DOMAIN rows
  BY DEF Breakdown
<1>2. ASSUME NEW v \in DOMAIN rows
      PROVE  rows[v] = Cardinality({e \in Employees(q) : key[e] = v})
  <2>1. {e \in Employees(q) : key[e] = v} = {e \in Employees(q) : company.staff[e][column] = v}
    OBVIOUS
  <2>. QED  BY <2>1 DEF Breakdown
<1>. HIDE DEF rows, key
<1>3. Sum(rows) = Cardinality(Employees(q))
  BY <1>1, <1>2, PeopleAreFinite, CountsAddUp
<1>. QED  BY <1>3 DEF rows

(* Every breakdown accounts for everybody.                                 *)
LEMMA EverybodyIsBrokenDown ==
  ASSUME DashTypeOK
  PROVE  BreakdownsAddUp
<1> SUFFICES ASSUME query # None
             PROVE  /\ Sum(ByDivision(query)) = Cardinality(Employees(query))
                    /\ Sum(BySquad(query)) = Cardinality(Employees(query))
                    /\ Sum(Breakdown(query, "title")) = Cardinality(Employees(query))
                    /\ Sum(Breakdown(query, "contract")) = Cardinality(Employees(query))
                    /\ Sum(ByGender(query)) <= Cardinality(Employees(query))
  BY Zenon DEF BreakdownsAddUp
<1>1. Sum(ByDivision(query)) = Cardinality(Employees(query))
  BY BreakdownIsWhole DEF ByDivision
<1>2. Sum(Breakdown(query, "title")) = Cardinality(Employees(query))
  BY BreakdownIsWhole
<1>3. Sum(Breakdown(query, "contract")) = Cardinality(Employees(query))
  BY BreakdownIsWhole
<1>4. Sum(BySquad(query)) = Cardinality(Employees(query))
  <2> DEFINE Row(e) == <<company.staff[e].squad, company.staff[e].division>>
             rows == [r \in {Row(e) : e \in Employees(query)} |->
                        Cardinality({e \in Employees(query) : Row(e) = r})]
             key == [e \in Employees(query) |-> Row(e)]
  <2>1. BySquad(query) = rows
    BY DEF BySquad
  <2>. HIDE DEF Row
  <2>2. \A e \in Employees(query) : key[e] \in DOMAIN rows
    OBVIOUS
  <2>3. ASSUME NEW v \in DOMAIN rows
        PROVE  rows[v] = Cardinality({e \in Employees(query) : key[e] = v})
    <3>1. {e \in Employees(query) : key[e] = v} = {e \in Employees(query) : Row(e) = v}
      OBVIOUS
    <3>. QED  BY <3>1
  <2>. HIDE DEF rows, key
  <2>. QED  BY <2>1, <2>2, <2>3, PeopleAreFinite, CountsAddUp
<1>5. Sum(ByGender(query)) <= Cardinality(Employees(query))
  <2> DEFINE known == {e \in Employees(query) : company.staff[e]["gender"] # None}
             key == [e \in Employees(query) |-> company.staff[e]["gender"]]
             all == Breakdown(query, "gender")
             rows == [g \in DOMAIN all \ {None} |-> all[g]]
  <2>1. ByGender(query) = rows
    BY DEF ByGender
  <2>2. \A e \in known : key[e] \in DOMAIN rows
    BY DEF Breakdown
  <2>3. ASSUME NEW v \in DOMAIN rows
        PROVE  rows[v] = Cardinality({e \in known : key[e] = v})
    <3>1. v \in DOMAIN all /\ v # None
      OBVIOUS
    <3>2. {e \in known : key[e] = v} = {e \in Employees(query) : company.staff[e]["gender"] = v}
      BY <3>1
    <3>3. all[v] = Cardinality({e \in Employees(query) : company.staff[e]["gender"] = v})
      BY <3>1 DEF Breakdown
    <3>. QED  BY <3>1, <3>2, <3>3
  <2>4. IsFiniteSet(known) /\ Cardinality(known) <= Cardinality(Employees(query))
    <3>1. known \subseteq Employees(query)
      OBVIOUS
    <3>. HIDE DEF known
    <3>. QED  BY <3>1, PeopleAreFinite, FS_Subset
  <2>. HIDE DEF rows, key, known
  <2>5. Sum(rows) = Cardinality(known)
    BY <2>2, <2>3, <2>4, CountsAddUp
  <2>. QED  BY <2>1, <2>4, <2>5
<1>. QED  BY <1>1, <1>2, <1>3, <1>4, <1>5

(* A day accounts for everybody once.                                      *)
LEMMA DayIsWhole ==
  ASSUME NEW q, NEW d
  PROVE  LET o == Overview(q, d) IN
         /\ o.present \in Nat /\ o.incomplete \in Nat /\ o.leave \in Nat /\ o.absent \in Nat
         /\ o.present + o.incomplete + o.leave + o.absent = Cardinality(Active(q))
<1> DEFINE A == Active(q)
           P == WithStatus(q, d, "present")
           I == WithStatus(q, d, "incomplete")
           L == WithStatus(q, d, "leave")
<1>1. P \subseteq A /\ I \subseteq A /\ L \subseteq A
  BY DEF WithStatus
<1>2. P \cap I = {} /\ (P \cup I) \cap L = {}
  BY DEF WithStatus
<1>3. IsFiniteSet(A)
  BY PeopleAreFinite
<1>. HIDE DEF A, P, I, L
<1>4. IsFiniteSet(P) /\ IsFiniteSet(I) /\ IsFiniteSet(L)
  BY <1>1, <1>3, FS_Subset
<1>5. IsFiniteSet(P \cup I) /\ Cardinality(P \cup I) = Cardinality(P) + Cardinality(I) - Cardinality({})
  BY <1>2, <1>4, FS_Union
<1>6. /\ IsFiniteSet((P \cup I) \cup L)
      /\ Cardinality((P \cup I) \cup L) = Cardinality(P \cup I) + Cardinality(L) - Cardinality({})
  BY <1>2, <1>4, <1>5, FS_Union
<1>7. (P \cup I) \cup L \subseteq A
  BY <1>1
<1>8. Cardinality((P \cup I) \cup L) <= Cardinality(A)
  BY <1>3, <1>7, FS_Subset
<1>9. PICK p, i, l, n : /\ p = Cardinality(P) /\ i = Cardinality(I) /\ l = Cardinality(L)
                        /\ n = Cardinality(A)
  OBVIOUS
<1>10. p \in Nat /\ i \in Nat /\ l \in Nat /\ n \in Nat
  BY <1>3, <1>4, <1>9, FS_CardinalityType
<1>11. p + i + l <= n
  BY <1>5, <1>6, <1>8, <1>9, <1>10, FS_EmptySet
<1>12. Overview(q, d) = [present |-> p, incomplete |-> i, leave |-> l,
                         absent |-> IF n - p - i - l < 0 THEN 0 ELSE n - p - i - l]
  BY <1>9 DEF Overview, A, P, I, L
<1>13. PICK rest \in Nat : rest = n - p - i - l /\ p + i + l + rest = n
  BY <1>10, <1>11
<1>14. Overview(q, d) = [present |-> p, incomplete |-> i, leave |-> l, absent |-> rest]
  BY <1>10, <1>12, <1>13
<1>15. p + i + l + rest = Cardinality(Active(q))
  BY <1>9, <1>13 DEF A
<1>. QED  BY <1>10, <1>13, <1>14, <1>15

(* Hence a period does.                                                    *)
LEMMA PeriodIsWhole ==
  ASSUME DashTypeOK
  PROVE  AttendanceAddsUp
<1> SUFFICES ASSUME query # None, NEW today \in DashDays
             PROVE  /\ LET o == Overview(query, today) IN
                         o.present + o.incomplete + o.leave + o.absent = Cardinality(Active(query))
                    /\ TotalOf(query, today, "present") + TotalOf(query, today, "incomplete")
                         + TotalOf(query, today, "leave") + TotalOf(query, today, "absent")
                       = Cardinality(Active(query)) * Cardinality(AttendanceDays(query, today))
  BY Zenon DEF AttendanceAddsUp
<1> DEFINE D == AttendanceDays(query, today)
           n == Cardinality(Active(query))
           O(d) == Overview(query, d)
           p == [d \in D |-> O(d)["present"]]
           i == [d \in D |-> O(d)["incomplete"]]
           l == [d \in D |-> O(d)["leave"]]
           a == [d \in D |-> O(d)["absent"]]
           pi == [d \in D |-> p[d] + i[d]]
           pil == [d \in D |-> pi[d] + l[d]]
           all == [d \in D |-> n]
<1>1. IsFiniteSet(D)
  <2>1. IsFiniteSet(DashDays)
    BY DashDaysAreAnInterval, FS_Interval
  <2>2. D \subseteq DashDays
    BY DEF AttendanceDays
  <2>. HIDE DEF D
  <2>. QED  BY <2>1, <2>2, FS_Subset
<1>2. \A d : /\ O(d).present \in Nat /\ O(d).incomplete \in Nat /\ O(d).leave \in Nat /\ O(d).absent \in Nat
             /\ O(d).present + O(d).incomplete + O(d).leave + O(d).absent = n
  BY DayIsWhole
<1>3. n \in Nat
  BY PeopleAreFinite, FS_CardinalityType
<1>4. /\ TotalOf(query, today, "present") = Sum(p) /\ TotalOf(query, today, "incomplete") = Sum(i)
      /\ TotalOf(query, today, "leave") = Sum(l) /\ TotalOf(query, today, "absent") = Sum(a)
  BY DEF TotalOf
<1>. HIDE DEF D, n, O
<1>5. p \in [D -> Nat] /\ i \in [D -> Nat] /\ l \in [D -> Nat] /\ a \in [D -> Nat]
  BY <1>2
<1>6. pi \in [D -> Nat] /\ pil \in [D -> Nat] /\ all \in [D -> Nat]
  BY <1>3, <1>5
<1>7. \A d \in D : all[d] = pil[d] + a[d]
  BY <1>2
<1>8. \A d \in D : pi[d] = p[d] + i[d]
  OBVIOUS
<1>9. \A d \in D : pil[d] = pi[d] + l[d]
  OBVIOUS
<1>10. Sum(all) = n * Cardinality(D)
  BY <1>1, <1>3, SumOfConstant
<1>. HIDE DEF p, i, l, a, pi, pil, all
<1>11. Sum(pi) = Sum(p) + Sum(i)
  BY <1>1, <1>5, <1>6, <1>8, SumOfSums
<1>12. Sum(pil) = Sum(pi) + Sum(l)
  BY <1>1, <1>5, <1>6, <1>9, SumOfSums
<1>13. Sum(all) = Sum(pil) + Sum(a)
  BY <1>1, <1>5, <1>6, <1>7, SumOfSums
<1>14. Sum(p) + Sum(i) + Sum(l) + Sum(a) = n * Cardinality(D)
  BY <1>10, <1>11, <1>12, <1>13
<1>15. LET o == Overview(query, today) IN
         o.present + o.incomplete + o.leave + o.absent = Cardinality(Active(query))
  BY DayIsWhole
<1>. QED  BY <1>4, <1>14, <1>15 DEF D, n

(* What two pages count by different queries is the same set.              *)
LEMMA PagesCountTheSame ==
  ASSUME DashTypeOK
  PROVE  PagesAgree
<1> SUFFICES ASSUME query # None
             PROVE  /\ DivisionsCounted(query) = OrganizationDivisions(query)
                    /\ SquadsCounted(query) = OrganizationSquads(query)
                    /\ \A e \in Employees(query) :
                         LET s == company.staff[e].squad IN
                         s # None /\ (query.division # None => company.squad[s].division = query.division)
                           => s \in SquadsCounted(query)
  BY Zenon DEF PagesAgree
<1>1. OwnSquad(query) \in Maybe(Squads) /\ OwnDivision(query) \in Maybe(Divisions)
  BY CompanyIs DEF OwnSquad, OwnDivision, Maybe
<1>2. LedSquads(query) \subseteq Squads /\ LedDivisions(query) \subseteq Divisions
  BY CompanyIs DEF LedSquads, LedDivisions
<1>3. ViewerSquads(query) \subseteq Squads /\ ViewerDivisions(query) \subseteq Divisions
  BY <1>1, <1>2 DEF ViewerSquads, ViewerDivisions, Maybe
<1>4. DivisionsCounted(query) = OrganizationDivisions(query)
  BY <1>3 DEF DivisionsCounted, OrganizationDivisions
<1>5. SquadsCounted(query) = OrganizationSquads(query)
  BY <1>3 DEF SquadsCounted, OrganizationSquads
<1>6. ASSUME NEW e \in Employees(query), NEW s, s = company.staff[e].squad, s # None,
             query.division # None => company.squad[s].division = query.division
      PROVE  s \in SquadsCounted(query)
  <2>1. e \in Staff /\ Sees(query, e) /\ Filtered(query, e)
    BY DEF Employees
  <2>2. s \in Squads
    BY <1>6, <2>1, CompanyIs DEF Maybe
  <2>3. SquadFiltered(query, s)
    BY <1>6, <2>1 DEF SquadFiltered, Filtered
  <2>4. query.full \/ s \in ViewerSquads(query)
    BY <1>6, <2>1 DEF Sees, ViewerSquads, OwnSquad
  <2>. QED  BY <2>2, <2>3, <2>4 DEF SquadsCounted
<1>. QED  BY <1>4, <1>5, <1>6

(* Requests are counted once, whatever they are grouped by.                *)
LEMMA RequestsAreGrouped ==
  ASSUME NEW q, NEW column
  PROVE  Sum(RequestsBy(q, column)) = Cardinality(RequestsCounted(q))
<1> DEFINE S == RequestsCounted(q)
           rows == RequestsBy(q, column)
           key == [c \in S |-> company.request[c][column]]
<1>1. IsFiniteSet(S)
  <2>1. S \subseteq Cards
    BY DEF RequestsCounted
  <2>. HIDE DEF S
  <2>. QED  BY <2>1, TablesAreFinite, FS_Subset
<1>2. \A c \in S : key[c] \in DOMAIN rows
  BY DEF RequestsBy
<1>3. ASSUME NEW v \in DOMAIN rows  PROVE rows[v] = Cardinality({c \in S : key[c] = v})
  <2>1. {c \in S : key[c] = v} = {c \in S : company.request[c][column] = v}
    OBVIOUS
  <2>. QED  BY <2>1 DEF RequestsBy
<1>. HIDE DEF S, rows, key
<1>4. Sum(rows) = Cardinality(S)
  BY <1>1, <1>2, <1>3, CountsAddUp
<1>. QED  BY <1>4 DEF S, rows

(* The trend counts the requests that the database dates in the range.     *)
InTrend(q) ==
  {c \in Cards : LET r == company.request[c] IN
     /\ company.database = "postgresql"
     /\ SeesRequest(q, r) /\ Filtered(q, r.requester)
     /\ q.from <= r.dbDay /\ r.dbDay <= q.to}

LEMMA TrendIsWhole ==
  ASSUME DashTypeOK, query # None, query.from # None, query.to # None, NEW today \in DashDays
  PROVE  Sum(Trend(query, today)) = Cardinality(InTrend(query))
<1> DEFINE S == InTrend(query)
           rows == Trend(query, today)
           key == [c \in S |-> company.request[c].dbDay]
           Shown == {d \in DashDays : query.from <= d /\ d <= query.to}
<1>1. query.from \in DashDays /\ query.to \in DashDays
  BY QuestionIs DEF Maybe
<1>2. rows = [d \in Shown |-> Cardinality(ShownOn(query, d))]
  BY DEF Trend
<1>3. IsFiniteSet(S)
  <2>1. S \subseteq Cards
    BY DEF InTrend
  <2>. HIDE DEF S
  <2>. QED  BY <2>1, TablesAreFinite, FS_Subset
<1>4. ASSUME NEW c \in S  PROVE company.request[c].dbDay \in Shown
  <2>1. PICK day, from, to : day = company.request[c].dbDay /\ from = query.from /\ to = query.to
    OBVIOUS
  <2>2. c \in Cards /\ from <= day /\ day <= to
    BY <2>1 DEF InTrend
  <2>3. day \in Nat
    BY <2>1, <2>2, CompanyIs
  <2>4. PICK a \in 0..100, b \in 0..100 : DashDays = a..b
    BY DashDaysAreAnInterval
  <2>5. from \in a..b /\ to \in a..b
    BY <1>1, <2>1, <2>4
  <2>6. day \in a..b
    BY ONLY <2>2, <2>3, <2>5
  <2>. QED  BY <2>1, <2>2, <2>4, <2>6
<1>5. ASSUME NEW d \in Shown  PROVE ShownOn(query, d) = {c \in S : company.request[c].dbDay = d}
  <2>1. query.from <= d /\ d <= query.to
    OBVIOUS
  <2>2. ASSUME NEW c  PROVE c \in ShownOn(query, d) <=> c \in S /\ company.request[c].dbDay = d
    <3>1. PICK r : r = company.request[c]
      OBVIOUS
    <3>2. c \in ShownOn(query, d) <=> /\ c \in Cards /\ company.database = "postgresql"
                                      /\ SeesRequest(query, r) /\ Filtered(query, r.requester)
                                      /\ r.dbDay = d
      BY <3>1 DEF ShownOn
    <3>3. c \in S <=> /\ c \in Cards /\ company.database = "postgresql"
                      /\ SeesRequest(query, r) /\ Filtered(query, r.requester)
                      /\ query.from <= r.dbDay /\ r.dbDay <= query.to
      BY <3>1 DEF InTrend
    <3>. HIDE DEF S
    <3>. QED  BY <2>1, <3>1, <3>2, <3>3
  <2>. HIDE DEF S
  <2>. QED  BY <2>2
<1>. HIDE DEF Shown, S
<1>6. \A c \in S : key[c] \in DOMAIN rows
  BY <1>2, <1>4
<1>7. ASSUME NEW d \in DOMAIN rows  PROVE rows[d] = Cardinality({c \in S : key[c] = d})
  <2>1. d \in Shown /\ rows[d] = Cardinality(ShownOn(query, d))
    BY <1>2
  <2>2. {c \in S : key[c] = d} = {c \in S : company.request[c].dbDay = d}
    OBVIOUS
  <2>. QED  BY <1>5, <2>1, <2>2
<1>. HIDE DEF rows, key
<1>8. Sum(rows) = Cardinality(S)
  BY <1>3, <1>6, <1>7, CountsAddUp
<1>. QED  BY <1>8 DEF rows, S

(* Status and type count the same requests; the trend counts them all but  *)
(* at the ends of the range, and these too if days are those of UTC.       *)
LEMMA RequestsAddUp ==
  ASSUME DashTypeOK
  PROVE  RequestCountsAgree
<1> DEFINE S == RequestsCounted(query)
           within == {c \in S : /\ query.from < company.request[c].day
                                /\ company.request[c].day < query.to}
           Utc == \A c \in Cards : company.request[c].dbDay = company.request[c].day
<1> SUFFICES ASSUME query # None
             PROVE  /\ Sum(RequestsBy(query, "status")) = Sum(RequestsBy(query, "type"))
                    /\ (query.from # None /\ query.to # None /\ company.database = "postgresql") =>
                         \A today \in DashDays :
                           /\ Cardinality(within) <= Sum(Trend(query, today))
                           /\ Utc => Sum(Trend(query, today)) = Sum(RequestsBy(query, "status"))
  BY Zenon DEF RequestCountsAgree
<1>1. Sum(RequestsBy(query, "status")) = Sum(RequestsBy(query, "type"))
  BY RequestsAreGrouped
<1>2. ASSUME query.from # None, query.to # None, company.database = "postgresql",
             NEW today \in DashDays
      PROVE  /\ Cardinality(within) <= Sum(Trend(query, today))
             /\ Utc => Sum(Trend(query, today)) = Sum(RequestsBy(query, "status"))
  <2>1. query.from \in Int /\ query.to \in Int
    BY <1>2, QuestionIs, DashDaysAreAnInterval DEF Maybe
  <2>2. ASSUME NEW c \in Cards
        PROVE  /\ c \in within => c \in InTrend(query)
               /\ Utc => (c \in S <=> c \in InTrend(query))
    <3>1. PICK r : r = company.request[c]
      OBVIOUS
    <3>2. PICK day, dbDay, from, to :
            day = r.day /\ dbDay = r.dbDay /\ from = query.from /\ to = query.to
      OBVIOUS
    <3>3. c \in S <=> /\ SeesRequest(query, r) /\ Filtered(query, r.requester)
                      /\ from <= day /\ day < to + 1
      BY <1>2, <3>1, <3>2 DEF RequestsCounted, SubmittedIn
    <3>4. c \in InTrend(query) <=> /\ SeesRequest(query, r) /\ Filtered(query, r.requester)
                                   /\ from <= dbDay /\ dbDay <= to
      BY <1>2, <3>1, <3>2 DEF InTrend
    <3>5. day \in Nat /\ dbDay \in Nat /\ dbDay <= day + 1 /\ day <= dbDay + 1
          /\ from \in Int /\ to \in Int
      BY <2>1, <3>1, <3>2, CompanyIs
    <3>6. (from < day /\ day < to) => from <= dbDay /\ dbDay <= to
      BY ONLY <3>5
    <3>7. day < to + 1 <=> day <= to
      BY ONLY <3>5
    <3>8. c \in within => c \in S /\ from < day /\ day < to
      BY <3>1, <3>2
    <3>9. Utc => dbDay = day
      BY <3>1, <3>2
    <3>. HIDE DEF S, within, Utc
    <3>. QED  BY <3>3, <3>4, <3>6, <3>7, <3>8, <3>9
  <2>3. S \subseteq Cards /\ within \subseteq Cards /\ InTrend(query) \subseteq Cards
    BY DEF RequestsCounted, InTrend
  <2>4. Sum(Trend(query, today)) = Cardinality(InTrend(query))
    BY <1>2, TrendIsWhole
  <2>5. Sum(RequestsBy(query, "status")) = Cardinality(S)
    BY RequestsAreGrouped
  <2>. HIDE DEF S, within, Utc
  <2>6. within \subseteq InTrend(query) /\ (Utc => S = InTrend(query))
    BY <2>2, <2>3
  <2>7. IsFiniteSet(InTrend(query))
    BY <2>3, TablesAreFinite, FS_Subset
  <2>8. Cardinality(within) <= Cardinality(InTrend(query))
    BY <2>6, <2>7, FS_Subset
  <2>. QED  BY <2>4, <2>5, <2>6, <2>8
<1>. QED  BY <1>1, <1>2

(* For every company and every question: whatever the dashboard counts     *)
(* twice it counts alike, breakdowns and days account for everybody in     *)
(* scope, and nobody counts beyond the own scope.                          *)
THEOREM DashboardAgrees == DashSpec => []DashInv
<1>1. DashInit => DashTypeOK
  BY DEF DashInit, DashTypeOK, Maybe
<1>2. DashTypeOK /\ [DashNext]_dashVars => DashTypeOK'
  BY DEF DashTypeOK, DashNext, OpenPage, dashVars, Maybe
<1>3. DashTypeOK => DashInv
  <2> SUFFICES ASSUME DashTypeOK  PROVE DashInv
    OBVIOUS
  <2>1. PerformancePagesAgree
    BY DEF PerformancePagesAgree, OverviewRows, PerformanceRows
  <2>2. ScopeIsConfined
    <3> SUFFICES ASSUME query # None, ~query.full
                 PROVE  LET mine == {query.user} \cup {e \in Staff : \E s \in Squads :
                              company.staff[e].squad = s /\ company.squad[s].leader = query.user}
                        IN  /\ Employees(query) \subseteq mine
                            /\ \A c \in RequestsCounted(query) :
                                 company.request[c].requester \in mine
                                   \/ company.request[c].approver = query.user
      BY Zenon DEF ScopeIsConfined
    <3> DEFINE mine == {query.user} \cup {e \in Staff : \E s \in Squads :
                         company.staff[e].squad = s /\ company.squad[s].leader = query.user}
    <3>1. \A e \in Staff : Sees(query, e) => e \in mine
      BY DEF Sees, LedSquads
    <3>2. Employees(query) \subseteq mine
      BY <3>1 DEF Employees
    <3>3. ASSUME NEW c \in RequestsCounted(query)
          PROVE  company.request[c].requester \in mine \/ company.request[c].approver = query.user
      <4>1. PICK r : r = company.request[c]
        OBVIOUS
      <4>2. c \in Cards /\ SeesRequest(query, r)
        BY <4>1 DEF RequestsCounted
      <4>3. r.requester \in Staff
        BY <4>1, <4>2, CompanyIs
      <4>4. query.user \in mine
        OBVIOUS
      <4>. HIDE DEF mine
      <4>. QED  BY <3>1, <4>1, <4>2, <4>3, <4>4 DEF SeesRequest
    <3>. QED  BY <3>2, <3>3
  <2>. QED  BY <2>1, <2>2, PeriodIsWhole, EverybodyIsBrokenDown, PagesCountTheSame, RequestsAddUp DEF DashInv
<1>. QED  BY <1>1, <1>2, <1>3, PTL DEF DashSpec

=============================================================================
