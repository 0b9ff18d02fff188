------------------------------- MODULE Logins -------------------------------
(***************************************************************************)
(* Accounts and the long-lived sessions of scanner clients: refresh tokens *)
(* that are rotated at each use, deactivation, and the three ways in which *)
(* a password changes.  Access tokens (JWT) carry no state of the server,  *)
(* only the account they name, so a caller of change_password is anyone    *)
(* whose account is active.                                                *)
(*                                                                         *)
(* A password is one of a small set; the temporary ones stand for what     *)
(* reset_user_password generates, the others for what people choose, were  *)
(* it a password they had before.  A new hash differs from every earlier   *)
(* one, so the column is always sent; must_change_password is sent only if *)
(* it differs from what was loaded.                                        *)
(***************************************************************************)
EXTENDS Sessions

CONSTANTS
  Accounts,       \* users
  Devices,        \* scanner devices
  TokenIds,       \* refresh token sessions that can be created
  Lifetime,       \* refresh_token_expire_days
  ChosenWords,    \* passwords people choose
  TemporaryWords, \* passwords the server generates
  LoginModes      \* whether requests overlap, the operations of a run, the last
                  \* moment of its clock

ASSUME LifetimeIsPositive == Lifetime \in Nat \ {0}
ASSUME WordsAreApart == ChosenWords \cap TemporaryWords = {}
LoginServices == {"tokens", "activation", "passwords"}
ASSUME LoginModesAreTyped == LoginModes \subseteq [serial: BOOLEAN, ops: SUBSET LoginServices, last: Nat]

VARIABLES
  loginMode,     \* one of LoginModes, fixed at the start
  account,       \* users: is_active, the password, must_change_password
  token,         \* auth_refresh_token_sessions, or None
  tick,          \* datetime.now
  waived,        \* history: accounts whose owner was let off the duty to change
                 \* the password they still have
  loginSession   \* what a worker is about to commit, or None

loginVars == <<loginMode, account, token, tick, waived, loginSession>>

Passwords == ChosenWords \cup TemporaryWords
AccountRow == [active: BOOLEAN, password: Passwords, mustChange: BOOLEAN]
(* login and parent say where a token comes from; the database does not.   *)
TokenRow == [account: Accounts, device: Maybe(Devices), expires: Nat, revoked: BOOLEAN,
             login: TokenIds, parent: Maybe(TokenIds)]
ASSUME NoneIsNoToken == None \notin TokenRow
ASSUME NoneIsNoParent == None \notin TokenIds

LoginBegin(w, s) ==
  /\ MayServe(loginSession, w, loginMode.serial)
  /\ loginSession' = [loginSession EXCEPT ![w] = s]
  /\ UNCHANGED <<loginMode, account, token, tick, waived>>

LoginFinish(w) == loginSession' = [loginSession EXCEPT ![w] = None]

FreeTokens == {t \in TokenIds : token[t] = None}
FreshToken == CHOOSE t \in FreeTokens : TRUE

-----------------------------------------------------------------------------
(* Refresh tokens                                                          *)

(* authenticate_user, create_refresh_token_session                         *)
Login(w) ==
  \E a \in Accounts, d \in Maybe(Devices) :
    account[a].active /\ LoginBegin(w, [kind |-> "login", account |-> a, device |-> d, now |-> tick])

CommitLogin(w) ==
  LET x == loginSession[w] IN
  /\ x # None /\ x.kind = "login"
  /\ FreeTokens # {}
  /\ token' = [token EXCEPT ![FreshToken] =
                 [account |-> x.account, device |-> x.device, expires |-> x.now + Lifetime,
                  revoked |-> FALSE, login |-> FreshToken, parent |-> None]]
  /\ LoginFinish(w)
  /\ UNCHANGED <<loginMode, account, tick, waived>>

(* A known token, neither revoked nor expired, from the device it was      *)
(* issued to as far as both name one.                                      *)
Usable(t, device) ==
  /\ token[t] # None
  /\ ~token[t].revoked
  /\ tick < token[t].expires
  /\ (device # None /\ token[t].device # None => device = token[t].device)

Rotate(w) ==
  \E t \in TokenIds, d \in Maybe(Devices) :
    /\ Usable(t, d)
    /\ account[token[t].account].active
    /\ LoginBegin(w, [kind |-> "rotate", token |-> t, loaded |-> token[t], device |-> d, now |-> tick])

Spent(current, loaded) == Flushed(current, loaded, [loaded EXCEPT !.revoked = TRUE])

(* Mutant: the next session has the device of the request, named or not.   *)
RequestedDevice(requested, loaded) == requested

NextDevice(requested, loaded) == IF requested # None THEN requested ELSE loaded

CommitRotation(w) ==
  LET x == loginSession[w] IN
  /\ x # None /\ x.kind = "rotate"
  /\ FreeTokens # {}
  /\ token' = [token EXCEPT
       ![x.token] = Spent(@, x.loaded),
       ![FreshToken] = [account |-> x.loaded.account,
                        device |-> NextDevice(x.device, x.loaded.device),
                        expires |-> x.now + Lifetime, revoked |-> FALSE,
                        login |-> x.loaded.login, parent |-> x.token]]
  /\ LoginFinish(w)
  /\ UNCHANGED <<loginMode, account, tick, waived>>

-----------------------------------------------------------------------------
(* Accounts: what a service writes of the row it loaded                    *)

(* hashed: the row gets a new password hash.                               *)
LoadAccount(w, a, new, hashed) ==
  LoginBegin(w, [kind |-> "account", account |-> a, loaded |-> account[a], new |-> new,
                 hashed |-> hashed])

Stored(x) ==
  [Flushed(account[x.account], x.loaded, x.new) EXCEPT
     !.password = IF x.hashed THEN x.new.password ELSE @]

(* The duty goes without a new password.                                   *)
Waivers(x) ==
  IF x.hashed \/ x.new.mustChange THEN waived \ {x.account}
  ELSE IF x.loaded.mustChange THEN waived \cup {x.account} ELSE waived

CommitAccount(w) ==
  LET x == loginSession[w] IN
  /\ x # None /\ x.kind = "account"
  /\ account' = [account EXCEPT ![x.account] = Stored(x)]
  /\ waived' = Waivers(x)
  /\ LoginFinish(w)
  /\ UNCHANGED <<loginMode, token, tick>>

(* change_password, by the owner, who gives the current password and       *)
(* another one.                                                            *)
ChangePassword(w) ==
  \E a \in Accounts, word \in ChosenWords :
    /\ account[a].active
    /\ word # account[a].password
    /\ LoadAccount(w, a, [account[a] EXCEPT !.password = word, !.mustChange = FALSE], TRUE)

ResetRow(row, word) == [row EXCEPT !.password = word, !.mustChange = TRUE]

(* reset_user_password, by a super admin; a super admin who resets the own *)
(* password is active already.                                             *)
ResetUserPassword(w) ==
  \E a \in Accounts, word \in TemporaryWords : LoadAccount(w, a, ResetRow(account[a], word), TRUE)

(* update_user with a password, must_change_password or both: with a new   *)
(* password the flag is cleared unless it is given.                        *)
UpdateUserPassword(w) ==
  \E a \in Accounts, flag \in BOOLEAN :
    \/ LoadAccount(w, a, [account[a] EXCEPT !.mustChange = flag], FALSE)
    \/ \E word \in ChosenWords :
         LoadAccount(w, a, [account[a] EXCEPT !.password = word, !.mustChange = flag], TRUE)

(* update_user or set_user_active with is_active.                          *)
SetUserActive(w) ==
  \E a \in Accounts : LoadAccount(w, a, [account[a] EXCEPT !.active = ~@], FALSE)

HourPasses ==
  /\ tick < loginMode.last
  /\ tick' = tick + 1
  /\ UNCHANGED <<loginMode, account, token, waived, loginSession>>

-----------------------------------------------------------------------------
LoginInit ==
  /\ loginMode \in LoginModes
  /\ account \in {[a \in Accounts |-> [active |-> TRUE, password |-> word, mustChange |-> TRUE]] :
                    word \in TemporaryWords}
  /\ token = [t \in TokenIds |-> None]
  /\ tick = 0
  /\ waived = {}
  /\ loginSession = [w \in Workers |-> None]

LoginNext ==
  \/ \E w \in Workers :
       \/ "tokens" \in loginMode.ops /\ (Login(w) \/ Rotate(w))
       \/ "passwords" \in loginMode.ops
            /\ (ChangePassword(w) \/ ResetUserPassword(w) \/ UpdateUserPassword(w))
       \/ "activation" \in loginMode.ops /\ SetUserActive(w)
       \/ CommitLogin(w) \/ CommitRotation(w) \/ CommitAccount(w)
  \/ "tokens" \in loginMode.ops /\ HourPasses

LoginSpec == LoginInit /\ [][LoginNext]_loginVars

-----------------------------------------------------------------------------
LoginTypeOK ==
  /\ loginMode \in LoginModes
  /\ account \in [Accounts -> AccountRow]
  /\ token \in [TokenIds -> Maybe(TokenRow)]
  /\ tick \in 0..loginMode.last
  /\ waived \subseteq Accounts

Issued == {t \in TokenIds : token[t] # None}

(* Without overlapping rotations a login has one good token at a time,     *)
(* however often it is renewed (rotate_refresh_token).                     *)
OneGoodTokenPerLogin ==
  loginMode.serial =>
    \A l \in Issued :
      Cardinality({t \in Issued : token[t].login = l /\ ~token[t].revoked}) <= 1

(* However renewals overlap, a session that has been bound to a device     *)
(* stays with it, and with its account, from token to token.               *)
SessionStaysBound ==
  \A t \in Issued : token[t].parent # None =>
    LET p == token[token[t].parent] IN
    /\ p.device # None => token[t].device = p.device
    /\ token[t].account = p.account

(* While requests do not overlap, whoever has a temporary password has to  *)
(* change it, unless a super admin has sent must_change_password false for *)
(* the account since (update_user accepts the flag without a password).    *)
TemporaryMustChange ==
  loginMode.serial =>
    \A a \in Accounts \ waived : account[a].password \in TemporaryWords => account[a].mustChange

(* Sessions and passwords hold, each under the overlap it is safe from.    *)
LoginInv ==
  /\ LoginTypeOK
  /\ OneGoodTokenPerLogin
  /\ SessionStaysBound
  /\ TemporaryMustChange

=============================================================================
