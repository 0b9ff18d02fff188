----------------------------- MODULE MCPlatform ------------------------------
(***************************************************************************)
(* The services the others stand on, side by side: a behaviour turns to    *)
(* one of them, the others rest in an initial state.                       *)
(***************************************************************************)
EXTENDS SetupWizard, Logins, Dashboard, ScannerApp, Migrations, RateLimiter, TLC

CONSTANTS e1, e2, e3, s1, s2, d1, d2, q1, q2, q3

VARIABLE focus   \* the service a behaviour turns to

platformVars ==
  <<focus, setupVars, loginVars, dashVars, scannerVars, migrationVars, vars>>

-----------------------------------------------------------------------------
(* Permissions and setup                                                   *)

MCRowIds == 1..57
Numbered(codes) ==
  [r \in MCRowIds |-> IF r \in DOMAIN codes THEN PermissionRow(codes[r], TRUE) ELSE None]
AccessMode(serial, ops, codes, titles, rows, there) ==
  [serial |-> serial, ops |-> ops, codes |-> codes, titles |-> titles, rows |-> Numbered(rows),
   there |-> there]
View == <<"requests", "view">>
Read == <<"requests", "read">>
Create == <<"requests", "create">>
Approve == <<"requests", "approve">>
Officers == {"RH_MANAGER", "DEPARTMENT_MANAGER", "TEAM_LEADER"}
MCAccessModes ==
  {AccessMode(TRUE, {"seed"}, CanonicalPermissions, RoleTitles, <<>>, {}),
   AccessMode(TRUE, {"edit", "repair", "assign", "breakoff"}, {View, Read, Create}, {"EMPLOYEE"},
              <<View, Read>>, {"EMPLOYEE"}),
   AccessMode(FALSE, {"assign"}, {View, Create, Approve}, {"EMPLOYEE"}, <<View, Create, Approve>>,
              {"EMPLOYEE"}),
   AccessMode(FALSE, {"assign", "repair"}, {View}, {"EMPLOYEE"}, <<View>>, {"EMPLOYEE"}),
   AccessMode(TRUE, {"migrate", "assign", "breakoff"}, {View, Create}, {"EMPLOYEE", "TEAM_LEADER"},
              <<Create>>, {"EMPLOYEE", "TEAM_LEADER"}),
   AccessMode(TRUE, {"wizard", "seed", "breakoff"}, {View}, Officers, <<View>>, Officers)}
MCUnitPayloads == {[department |-> "d", teams |-> <<"s", "t">>], [department |-> "e", teams |-> <<"t", "u">>]}
MCStaffPayloads == {<<"m1", "m2", "m3", "m4">>, <<"m1", "m2", "m0", "m4">>}

(* Logins                                                                  *)

LoginMode(serial, ops, last) == [serial |-> serial, ops |-> ops, last |-> last]
MCLoginModes ==
  {LoginMode(TRUE, {"tokens", "activation"}, 2), LoginMode(TRUE, {"passwords", "activation"}, 0),
   LoginMode(FALSE, {"tokens"}, 0), LoginMode(FALSE, {"passwords"}, 0)}

(* Dashboard: the tables of 43 companies, some with an employee in a team  *)
(* of another department; in two of them the zone of the database turns    *)
(* days before or after UTC does, and one is stored by SQLite.             *)

Person(squad, division, active, title, gender, contract) ==
  [squad |-> squad, division |-> division, active |-> active, title |-> title, gender |-> gender,
   contract |-> contract]
Asking(requester, approver, status, type, day) ==
  [requester |-> requester, approver |-> approver, status |-> status, type |-> type, day |-> day,
   dbDay |-> day]
MCUtcCompanies ==
  {[database |-> "postgresql",
    staff |-> (e1 :> Person(s1, d1, TRUE, "leader", "male", "internal"))
                @@ (e2 :> Person(place[1], place[2], active, "member", None, "external"))
                @@ (e3 :> Person(None, d2, TRUE, "head", "female", "internal")),
    squad |-> (s1 :> [division |-> d1, leader |-> leader, active |-> TRUE])
                @@ (s2 :> [division |-> d2, leader |-> e1, active |-> FALSE]),
    division |-> (d1 :> [active |-> TRUE]) @@ (d2 :> [active |-> TRUE]),
    attended |-> (e1 :> (1 :> "present" @@ 2 :> None @@ 3 :> "leave"))
                   @@ (e2 :> (1 :> "present" @@ 2 :> "incomplete" @@ 3 :> None))
                   @@ (e3 :> (1 :> "absent" @@ 2 :> "present" @@ 3 :> None)),
    request |-> (q1 :> Asking(e2, e1, "in_progress", "leave", 1))
                  @@ (q2 :> Asking(e1, e3, "in_progress", "loan", 2))
                  @@ (q3 :> Asking(e3, None, "approved", "leave", 3)),
    performed |-> (s1 :> (1 :> 80 @@ 2 :> None @@ 3 :> 60)) @@ (s2 :> (1 :> 120 @@ 2 :> 0 @@ 3 :> None))] :
   place \in {<<s1, d1>>, <<s2, d2>>, <<s1, d2>>, <<None, d1>>, <<None, None>>}, active \in BOOLEAN,
   leader \in {None, e1, e2, Guest}}

MCCompanies ==
  LET c == CHOOSE x \in MCUtcCompanies : x.squad[s1].leader = e2 /\ x.staff[e2].squad = s1
      Zoned(q1Day, q2Day, q3Day) ==
        [c EXCEPT !.request[q1].dbDay = q1Day, !.request[q2].dbDay = q2Day,
                  !.request[q3].dbDay = q3Day]
  IN  MCUtcCompanies \cup {Zoned(2, 2, 4), Zoned(0, 1, 3), [c EXCEPT !.database = "sqlite"]}

-----------------------------------------------------------------------------

Services ==
  {"setup", "logins", "dashboard", "scanner app", "migrations", "rate limiter"}

(* A service a behaviour does not turn to is in one initial state.         *)
Resting(service, setting, settings) == focus = service \/ setting = CHOOSE s \in settings : TRUE

PlatformInit ==
  /\ focus \in Services
  /\ SetupInit
     /\ Resting("setup", accMode, AccessModes)
  /\ LoginInit
     /\ Resting("logins", loginMode, LoginModes)
  /\ DashInit
     /\ Resting("dashboard", company, Companies)
  /\ ScannerInit
  /\ MigrationInit
  /\ Init

(* A step of the service in focus; the others keep their variables.        *)
Turn(service, step, others) == focus = service /\ step /\ UNCHANGED others

PlatformNext ==
  /\ UNCHANGED focus
  /\ \/ Turn("setup", SetupNext,
             <<loginVars, dashVars, scannerVars, migrationVars, vars>>)
     \/ Turn("logins", LoginNext,
             <<setupVars, dashVars, scannerVars, migrationVars, vars>>)
     \/ Turn("dashboard", DashNext,
             <<setupVars, loginVars, scannerVars, migrationVars, vars>>)
     \/ Turn("scanner app", ScannerNext,
             <<setupVars, loginVars, dashVars, migrationVars, vars>>)
     \/ Turn("migrations", MigrationNext,
             <<setupVars, loginVars, dashVars, scannerVars, vars>>)
     \/ Turn("rate limiter", Next,
             <<setupVars, loginVars, dashVars, scannerVars, migrationVars>>)

PlatformSpec == PlatformInit /\ [][PlatformNext]_platformVars

=============================================================================
