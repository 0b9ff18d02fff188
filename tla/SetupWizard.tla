---------------------------- MODULE SetupWizard ----------------------------
(***************************************************************************)
(* The installation wizard (src/app/apps/setup/service.py, router.py) over *)
(* the tables it fills: one department, two teams, the seeded job titles   *)
(* and permissions, and four operational employees.                        *)
(*                                                                         *)
(* A step commits every row by itself and at the end the progress, a JSON  *)
(* document it read when it began.  A step that breaks off, because the    *)
(* process dies or a row is refused, leaves the rows and no progress;      *)
(* doing it again finds rows by the ids the progress remembers, else by    *)
(* their code, but an employee only by the remembered id.                  *)
(***************************************************************************)
EXTENDS Access

CONSTANTS
  UnitIds,         \* ids of departments and teams: none is inserted when all are taken
  StaffIds,        \* ids of employees, likewise
  UnitPayloads,    \* organization payloads [department, teams]
  StaffPayloads,   \* role -> matricule
  TakenMatricules  \* matricules of accounts that were there before

Slots == 1..2   \* the two teams
Roles == 1..4   \* OPERATIONAL_ROLE_CONFIGS: HR manager, department manager, two team leaders
RoleTitle == <<"RH_MANAGER", "DEPARTMENT_MANAGER", "TEAM_LEADER", "TEAM_LEADER">>
RoleSlot == <<None, None, 1, 2>>

UnitRows == [kind: {"department", "team"}, code: STRING, parent: Maybe(UnitIds), head: Maybe(StaffIds)]
StaffRows == [matricule: {p[r] : p \in StaffPayloads, r \in Roles}, role: {RoleTitle[r] : r \in Roles},
              team: Maybe(UnitIds)]

(* The wizard seeds the titles it gives (ensure_default_job_titles).       *)
ASSUME WizardSeedsItsTitles ==
  \A m \in AccessModes : "wizard" \in m.ops => {RoleTitle[r] : r \in Roles} \subseteq m.titles

(* The codes of the two teams of a payload differ (save_organization_step).*)
ASSUME UnitPayloadsAreTyped ==
  /\ \A p \in UnitPayloads : p.department \in STRING /\ p.teams \in [Slots -> STRING]
                            /\ p.teams[1] # p.teams[2]
  /\ None \notin Slots /\ None \notin UnitIds /\ None \notin UnitRows
  /\ None \notin StaffIds /\ None \notin StaffRows

VARIABLES
  installed,   \* installation_state.is_initialized
  wizard,      \* installation_state.wizard_state
  unit,        \* id -> None or [kind, code, parent, head] of a department or team
  staff        \* id -> None or [matricule, role, team] of an employee and its account

tableVars == <<unit, staff>>
setupVars == <<accVars, installed, wizard, unit, staff>>

InitialWizard ==
  [last |-> 0, department |-> None, teams |-> [i \in Slots |-> None],
   codes |-> NothingStored, users |-> [r \in Roles |-> None]]

AtLeast(state, step) == IF state.last < step THEN [state EXCEPT !.last = step] ELSE state

-----------------------------------------------------------------------------
(* What is still missing: get_review_summary.                              *)
StoredUnits(state) == {state.department} \cup {state.teams[i] : i \in Slots}
OrganizationThere(state) == None \notin StoredUnits(state)
TitlesThere == accMode.titles \subseteq titleRows
CodesThere == \A c \in CodesHere : RowWithCode(c) # {}
GrantsThere ==
  \A t \in accMode.titles :
    RoleMatrix[t] \cap CodesHere \subseteq {permRow[r].code : r \in GrantedTo(t)}
StaffThere(state) == \A r \in Roles : state.users[r] # None

(* Mutant: the grants are not looked at.                                   *)
ReadyWithoutGrants == OrganizationThere(wizard) /\ TitlesThere /\ CodesThere /\ StaffThere(wizard)
Ready == OrganizationThere(wizard) /\ TitlesThere /\ CodesThere /\ GrantsThere /\ StaffThere(wizard)

-----------------------------------------------------------------------------
(* A step begins if the installation is not complete and what it needs is  *)
(* there.  It remembers the progress it read.                              *)
Serve(w, request) ==
  /\ MayServe(accSession, w, accMode.serial)
  /\ ~installed
  /\ accSession' = [accSession EXCEPT ![w] = request]
  /\ UNCHANGED <<permissionVars, installed, wizard, tableVars>>

Running(w, op) == accSession[w] # None /\ accSession[w].op = op

BeginReadiness(w) == Serve(w, [op |-> "readiness", state |-> wizard])

BeginOrganization(w, payload) ==
  Serve(w, [op |-> "units", next |-> 0, ask |-> payload, state |-> wizard])

BeginTitles(w) == Serve(w, Seeding(3, accMode.titles, {}, {}, NothingStored, wizard))

BeginCodes(w) == Serve(w, Seeding(4, {}, CodesHere, {}, wizard.codes, wizard))

BeginGrants(w) ==
  /\ TitlesThere /\ CodesThere
  /\ Serve(w, Seeding(5, {}, {}, accMode.titles, NothingStored, wizard))

BeginStaff(w, payload) ==
  /\ OrganizationThere(wizard) /\ TitlesThere
  /\ Serve(w, [op |-> "staff", next |-> 1, ask |-> payload, state |-> wizard,
               made |-> [r \in Roles |-> None]])

-----------------------------------------------------------------------------
(* _upsert_department and _upsert_team: the remembered row, else the row   *)
(* with the code, else a new one; a code another row has is refused.       *)
UnitsWithCode(kind, code) ==
  {u \in UnitIds : unit[u] # None /\ unit[u].kind = kind /\ unit[u].code = code}
FreeUnits == {u \in UnitIds : unit[u] = None}
UnitFor(stored, kind, code) ==
  IF stored # None THEN {stored}
  ELSE OneOf(IF UnitsWithCode(kind, code) # {} THEN UnitsWithCode(kind, code) ELSE FreeUnits)

HeadOf(u) == IF unit[u] = None THEN None ELSE unit[u].head

UnitRow(u, kind, code, parent) ==
  [kind |-> kind, code |-> code, parent |-> parent, head |-> HeadOf(u)]

SaveUnit(w) ==
  /\ Running(w, "units") /\ accSession[w].next \in {0} \cup Slots
  /\ LET s == accSession[w]
         kind == IF s.next = 0 THEN "department" ELSE "team"
         code == IF s.next = 0 THEN s.ask.department ELSE s.ask.teams[s.next]
         stored == IF s.next = 0 THEN s.state.department ELSE s.state.teams[s.next]
         parent == IF s.next = 0 THEN None ELSE s.state.department
     IN \E u \in UnitFor(stored, kind, code) :
          IF UnitsWithCode(kind, code) \subseteq {u}
          THEN /\ unit' = [unit EXCEPT ![u] = UnitRow(u, kind, code, parent)]
               /\ accSession' = [accSession EXCEPT ![w].next = @ + 1,
                    ![w].state = IF s.next = 0 THEN [@ EXCEPT !.department = u]
                                 ELSE [@ EXCEPT !.teams[s.next] = u]]
          ELSE unit' = unit /\ accSession' = [accSession EXCEPT ![w] = None]
  /\ UNCHANGED <<permissionVars, installed, wizard, staff>>

(* _upsert_operational_employee: the remembered employee, else a new one;  *)
(* a matricule somebody else has is refused.                               *)
HoldersOf(matricule) == {e \in StaffIds : staff[e] # None /\ staff[e].matricule = matricule}
EmployeeFor(stored) ==
  IF stored # None THEN {stored} ELSE OneOf({e \in StaffIds : staff[e] = None})

(* Mutant: every team leader joins the first team.                         *)
TeamForFirst(state, role) == IF RoleSlot[role] = None THEN None ELSE state.teams[1]
TeamFor(state, role) == IF RoleSlot[role] = None THEN None ELSE state.teams[RoleSlot[role]]

SaveEmployee(w) ==
  /\ Running(w, "staff") /\ accSession[w].next \in Roles
  /\ LET s == accSession[w]
         role == s.next
         matricule == s.ask[role]
     IN \E e \in EmployeeFor(s.state.users[role]) :
          IF HoldersOf(matricule) \subseteq {e} /\ matricule \notin TakenMatricules
          THEN /\ staff' = [staff EXCEPT ![e] = [matricule |-> matricule, role |-> RoleTitle[role],
                                                 team |-> TeamFor(s.state, role)]]
               /\ accSession' = [accSession EXCEPT ![w].next = @ + 1, ![w].made[role] = e]
          ELSE /\ staff' = staff
               /\ accSession' = [accSession EXCEPT ![w] = None]
  /\ UNCHANGED <<permissionVars, installed, wizard, unit>>

(* _sync_operational_leadership.                                           *)
LeaderRole(state, u) ==
  IF u = state.department THEN 2 ELSE IF u = state.teams[1] THEN 3 ELSE 4

SyncLeadership(w) ==
  /\ Running(w, "staff") /\ accSession[w].next = 5
  /\ LET s == accSession[w]
     IN unit' = [u \in UnitIds |->
          IF u \in StoredUnits(s.state) THEN [unit[u] EXCEPT !.head = s.made[LeaderRole(s.state, u)]]
          ELSE unit[u]]
  /\ accSession' = [accSession EXCEPT ![w].next = 6]
  /\ UNCHANGED <<permissionVars, installed, wizard, staff>>

-----------------------------------------------------------------------------
(* The end of a step: _persist_wizard_state.                               *)
SeededState(s) ==
  LET fresh == IF s.step = 5 THEN wizard ELSE s.state
  IN AtLeast(IF s.step = 4 THEN [fresh EXCEPT !.codes = s.stored] ELSE fresh, s.step)

Persist(w, state) ==
  /\ wizard' = state
  /\ accSession' = [accSession EXCEPT ![w] = None]
  /\ UNCHANGED <<permissionVars, installed, tableVars>>

SaveReadiness(w) ==
  Running(w, "readiness") /\ Persist(w, AtLeast(accSession[w].state, 1))

PersistUnits(w) ==
  /\ Running(w, "units") /\ accSession[w].next = 3
  /\ Persist(w, AtLeast(accSession[w].state, 2))

PersistSeeding(w) ==
  Seeded(w) /\ accSession[w].step # 0 /\ Persist(w, SeededState(accSession[w]))

PersistStaff(w) ==
  /\ Running(w, "staff") /\ accSession[w].next = 6
  /\ Persist(w, AtLeast([accSession[w].state EXCEPT !.users = accSession[w].made], 6))

(* complete_installation reviews, reads the installation state again,      *)
(* unless it is locked by now, and locks it.  What others commit between   *)
(* these steps is not reviewed.                                            *)
ReviewInstallation(w) == Ready /\ Serve(w, [op |-> "review", state |-> wizard])

LoadInstallation(w) ==
  /\ Running(w, "review")
  /\ accSession' = [accSession EXCEPT ![w] =
       IF installed THEN None ELSE [op |-> "complete", state |-> wizard]]
  /\ UNCHANGED <<permissionVars, installed, wizard, tableVars>>

CompleteInstallation(w) ==
  /\ Running(w, "complete")
  /\ installed' = TRUE
  /\ wizard' = [accSession[w].state EXCEPT !.last = 7]
  /\ accSession' = [accSession EXCEPT ![w] = None]
  /\ UNCHANGED <<permissionVars, tableVars>>

-----------------------------------------------------------------------------
SetupInit ==
  /\ AccessInit
  /\ installed = FALSE
  /\ wizard = InitialWizard
  /\ unit = [u \in UnitIds |-> None]
  /\ staff = [e \in StaffIds |-> None]

WizardStep ==
  /\ \E w \in Workers :
       \/ /\ "wizard" \in accMode.ops
          /\ \/ BeginReadiness(w) \/ SaveReadiness(w)
             \/ \E payload \in UnitPayloads : BeginOrganization(w, payload)
             \/ \E payload \in StaffPayloads : BeginStaff(w, payload)
             \/ ReviewInstallation(w) \/ LoadInstallation(w) \/ CompleteInstallation(w)
       \/ "seed" \in accMode.ops /\ (BeginTitles(w) \/ BeginCodes(w) \/ BeginGrants(w))
       \/ SaveUnit(w) \/ SaveEmployee(w) \/ SyncLeadership(w)
       \/ PersistUnits(w) \/ PersistSeeding(w) \/ PersistStaff(w)
  /\ UNCHANGED accMode

SetupNext == (AccessStep /\ UNCHANGED <<installed, wizard, tableVars>>) \/ WizardStep
SetupSpec == SetupInit /\ [][SetupNext]_setupVars

-----------------------------------------------------------------------------
(* Records of the right shape.                                             *)
SetupTypeOK ==
  /\ accMode \in AccessModes
  /\ permRow \in [RowIds -> Maybe(PermissionRows(accMode.codes))]
  /\ titleRows \subseteq accMode.titles
  /\ granted \subseteq accMode.titles \X ExistingRows
  /\ asked \in [accMode.titles -> SUBSET ExistingRows]
  /\ DOMAIN accSession = Workers
  /\ installed \in BOOLEAN
  /\ wizard.last \in 0..7
  /\ StoredUnits(wizard) \subseteq Maybe(UnitIds)
  /\ wizard.users \in [Roles -> Maybe(StaffIds)]
  /\ unit \in [UnitIds -> Maybe(UnitRows)] /\ staff \in [StaffIds -> Maybe(StaffRows)]

(* The grants of a title are what its last assignment asked for; if        *)
(* assignments overlap, they may hold rows of another one too, but none    *)
(* that was asked for last is missing.                                     *)
(* (assign_permissions_to_job_title, permissions/service.py)               *)
PermissionsReplaced ==
  \A t \in accMode.titles :
    asked[t] \subseteq GrantedTo(t) /\ (accMode.serial => GrantedTo(t) = asked[t])

(* When the catalog has been seeded or repaired, every code of it is held  *)
(* by an active row, whatever administrators renamed or deactivated before *)
(* (_upsert_permission, setup/service.py).                                 *)
CatalogRestored ==
  \A w \in Workers :
    accMode.serial /\ Seeded(w) /\ accSession[w].step \in {0, 4} =>
      \A code \in CodesHere : \E r \in RowWithCode(code) : permRow[r].active

(* Pairs of routes: who may take the first step of a piece of work needs   *)
(* the others to carry it out.                                             *)
Work ==
  ({"create_request"} \X {"list_request_types", "list_request_fields", "list_my_requests",
                          "get_request"})
  \cup ({"approve_request_step"} \X {"reject_request_step", "list_pending_approvals",
                                     "get_request", "list_my_approval_history"})
  \cup ({"approve_forgot_badge_request", "reject_forgot_badge_request"}
        \X {"approve_forgot_badge_request", "reject_forgot_badge_request",
            "complete_forgot_badge_request", "list_forgot_badge_requests",
            "get_forgot_badge_request", "list_nfc_cards", "release_temporary_nfc_card"})
  \cup ({"create_forgot_badge_request"} \X {"list_my_forgot_badge_requests",
                                            "cancel_forgot_badge_request"})
  \cup ({"send_message"} \X {"list_available_recipient_users", "list_sent_messages",
                             "get_message", "reply_to_message"})
  \cup ({"create_announcement"} \X {"list_announcements", "update_announcement",
                                    "add_announcement_attachments"})
  \cup ({"assign_nfc_card"} \X {"list_nfc_cards", "list_employees"})
  \cup ({"generate_monthly_reports"} \X {"list_monthly_reports", "list_daily_summaries"})
  \cup ({"create_task"} \X {"list_tasks", "list_my_tasks", "complete_my_task"})
  \cup ({"create_employee"} \X {"update_employee", "list_employees", "list_departments",
                                "list_teams", "list_job_titles"})
  \cup ({"submit_daily_performance"} \X {"list_daily_performances"})
  \cup ({"assign_permissions_to_job_title"} \X {"list_permissions", "list_job_titles",
                                                "get_job_title_permissions"})

(* After the seeding, a holder of a seeded title who may start a piece of  *)
(* work may also carry it out, and the title of the platform owner opens   *)
(* every route that is not reserved to super admins (the catalog, the role *)
(* matrix and the guards of the routers, which are written apart).         *)
SeededRolesWork ==
  (wizard.last >= 5 /\ CodesHere = CanonicalPermissions) =>
    /\ \A t \in RoleTitles, pair \in Work : MayCall(t, pair[1]) => MayCall(t, pair[2])
    /\ \A route \in DOMAIN Routes : {} \in Routes[route] \/ MayCall("SUPER_ADMIN", route)

(* The progress the wizard persists is backed by the tables, however many  *)
(* attempts broke off: the rows it remembers for permissions have their    *)
(* codes unless an administrator edited them; and while requests do not    *)
(* overlap, the teams it remembers belong to the department, and once the  *)
(* employees are remembered they hold their place and lead their unit.     *)
(* (_persist_wizard_state and the steps before it, setup/service.py)       *)
CodesAreBacked ==
  \A c \in CodesHere : wizard.codes[c] # None /\ "edit" \notin accMode.ops =>
    permRow[wizard.codes[c]].code = c
UnitsAreBacked ==
  OrganizationThere(wizard) =>
    /\ unit[wizard.department].kind = "department"
    /\ \A i \in Slots : unit[wizard.teams[i]].parent = wizard.department
    /\ wizard.teams[1] # wizard.teams[2]
LeadersAreBacked ==
  StaffThere(wizard) =>
    /\ unit[wizard.department].head = wizard.users[2]
    /\ \A i \in Slots : LET leader == wizard.users[i + 2]
                        IN /\ unit[wizard.teams[i]].head = leader
                           /\ staff[leader].role = "TEAM_LEADER"
                           /\ staff[leader].team = wizard.teams[i]
ProgressIsBacked == CodesAreBacked /\ (accMode.serial => UnitsAreBacked /\ LeadersAreBacked)

(* The catalog, the grants and the progress of the wizard fit together.    *)
(* (permissions/service.py, setup/service.py)                              *)
AccessInv ==
  /\ SetupTypeOK
  /\ PermissionsReplaced
  /\ CatalogRestored
  /\ ProgressIsBacked

(* While requests do not overlap: when the installation is completed,      *)
(* everybody the wizard installed holds, through the title, every          *)
(* permission the role matrix gives that role, and the four are different  *)
(* people, whatever attempts broke off before.  It says nothing of grants  *)
(* that others replace between the review and the commit.                  *)
(* (get_review_summary, complete_installation)                             *)
InstallsComplete ==
  [][accMode.serial /\ ~installed /\ installed' =>
       \A r \in Roles :
         LET role == staff[wizard'.users[r]].role
         IN /\ RoleMatrix[role] \cap CodesHere \subseteq {permRow[x].code : x \in GrantedTo(role)}
            /\ \A q \in Roles : wizard'.users[q] = wizard'.users[r] => q = r]_setupVars

=============================================================================
