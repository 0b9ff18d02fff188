----------------------------- MODULE Migrations -----------------------------
(***************************************************************************)
(* The Alembic history: what each revision does to the schema and to the   *)
(* permission rows when it is applied and when it is reverted, the         *)
(* commands that walk the history, and the start of the application, which *)
(* migrates if it can and then lets create_all make the missing tables.    *)
(*                                                                         *)
(* A schema is a set of tables, of the columns, foreign keys and indexes   *)
(* added to a table later, and of the tables each one references; what a   *)
(* table is created with stays with it, the part named "itself".  The      *)
(* database is PostgreSQL: a command runs in one transaction and leaves    *)
(* nothing behind if it fails.                                             *)
(***************************************************************************)
EXTENDS Sequences, SequencesExt

CONSTANTS
  Operated,     \* the permission codes administrators change while the history is walked
  KnownTitles,  \* codes of the job titles there are
  ColdStarts    \* whether the application may start on a database it did not migrate

ASSUME ColdStartsIsFlag == ColdStarts \in BOOLEAN

VARIABLES
  applied,     \* the revisions applied (alembic_version names the last ones)
  schema,      \* parts of the database
  permitted,   \* codes with a row in permissions
  titleHas,    \* job_title_permissions: pairs of a title and a code
  strayed      \* whether create_all has made tables no migration made

migrationVars == <<applied, schema, permitted, titleHas, strayed>>

-----------------------------------------------------------------------------
(* Operations of a migration script                                        *)

Part(table, name, refs) == [table |-> table, name |-> name, refs |-> refs]
CreateTable(table, refs) == [op |-> "create", part |-> Part(table, "itself", refs)]
DropTable(table) == [op |-> "drop", table |-> table]
AddPart(table, name) == [op |-> "add", part |-> Part(table, name, {})]
RemovePart(table, name) == [op |-> "remove", table |-> table, name |-> name]
AddPartIfMissing(table, name) == [op |-> "ensure", part |-> Part(table, name, {})]
RemovePartIfThere(table, name) == [op |-> "discard", table |-> table, name |-> name]
Seed(codes, titles) == [op |-> "seed", codes |-> codes, titles |-> titles]
Unseed(codes) == [op |-> "unseed", codes |-> codes]

Base == [schema |-> {}, permitted |-> {}, titleHas |-> {}]
Failure == [schema |-> {Part("a failed command", "itself", {})}, permitted |-> {}, titleHas |-> {}]

Has(s, table, name) == \E p \in s : p.table = table /\ p.name = name
HasTable(s, table) == Has(s, table, "itself")

(* Whether an operation succeeds on a database.                            *)
Applies(db, o) ==
  CASE o.op = "create" -> /\ ~HasTable(db.schema, o.part.table)
                          /\ \A t \in o.part.refs \ {o.part.table} : HasTable(db.schema, t)
    [] o.op = "drop" -> /\ HasTable(db.schema, o.table)
                        /\ \A p \in db.schema : o.table \in p.refs => p.table = o.table
    [] o.op = "add" -> /\ HasTable(db.schema, o.part.table)
                       /\ ~Has(db.schema, o.part.table, o.part.name)
    [] o.op = "remove" -> Has(db.schema, o.table, o.name)
    [] o.op = "ensure" -> HasTable(db.schema, o.part.table)
    [] o.op = "discard" -> HasTable(db.schema, o.table)
    [] o.op \in {"seed", "unseed"} -> HasTable(db.schema, "job_title_permissions")

(* Its effect.  Foreign keys to permissions and job titles cascade.        *)
After(db, o) ==
  CASE o.op \in {"create", "add", "ensure"} -> [db EXCEPT !.schema = @ \cup {o.part}]
    [] o.op = "drop" ->
         [schema |-> {p \in db.schema : p.table # o.table},
          permitted |-> IF o.table = "permissions" THEN {} ELSE db.permitted,
          titleHas |-> IF o.table = "job_title_permissions" THEN {} ELSE db.titleHas]
    [] o.op \in {"remove", "discard"} ->
         [db EXCEPT !.schema = {p \in @ : ~(p.table = o.table /\ p.name = o.name)}]
    [] o.op = "seed" ->
         [db EXCEPT !.permitted = @ \cup o.codes,
                    !.titleHas = @ \cup ((o.titles \cap KnownTitles) \X o.codes)]
    [] o.op = "unseed" ->
         [db EXCEPT !.permitted = @ \ o.codes, !.titleHas = {g \in @ : g[2] \notin o.codes}]

Ran(db, script) ==
  LET after[i \in 0..Len(script)] ==
        IF i = 0 THEN db
        ELSE LET d == after[i - 1]
                 o == script[i]
             IN  IF d = Failure \/ ~Applies(d, o) THEN Failure ELSE After(d, o)
  IN  after[Len(script)]

-----------------------------------------------------------------------------
(* The revisions, each with what it follows, applies and reverts           *)

Revision(id, follows, up, down) == [id |-> id, follows |-> follows, up |-> up, down |-> down]

(* A revision that creates tables reverts to dropping them, last one first.*)
Tables(names, refs) == [i \in DOMAIN names |-> CreateTable(names[i], refs[names[i]])]
(* Mutant: in the order of their creation.                                 *)
DroppedInOrder(names) == [i \in DOMAIN names |-> DropTable(names[i])]

Dropped(names) == [i \in DOMAIN names |-> DropTable(Reverse(names)[i])]
Creation(id, follows, names, refs) == Revision(id, follows, Tables(names, refs), Dropped(names))

BootstrapUser == Creation("dfccf269ad7b", {}, <<"users">>, [users |-> {}])

Organization ==
  Creation("845f896ebe24", {"dfccf269ad7b"}, <<"job_titles", "departments", "teams">>,
           [job_titles |-> {}, departments |-> {"users"}, teams |-> {"departments", "users"}])

EmployeeTable ==
  Creation("bfed0d9b8dbb", {"845f896ebe24"}, <<"employees">>,
           [employees |-> {"departments", "job_titles", "teams", "users"}])

PermissionTables ==
  Creation("1f30147b4dea", {"bfed0d9b8dbb"}, <<"permissions", "job_title_permissions">>,
           [permissions |-> {}, job_title_permissions |-> {"job_titles", "permissions"}])

RequestTables == <<"request_types", "request_type_fields", "request_workflow_steps", "requests",
                   "request_actions", "request_field_values">>
RequestsEngineUp ==
  Tables(RequestTables,
         [request_types |-> {}, request_type_fields |-> {"request_types"},
          request_workflow_steps |-> {"request_types"},
          requests |-> {"users", "request_workflow_steps", "request_types", "employees"},
          request_actions |-> {"users", "requests", "request_workflow_steps"},
          request_field_values |-> {"request_type_fields", "requests"}])
RequestsEngineDown == Dropped(RequestTables)

LeaveBalance ==
  Revision("9f6c0df7428a", {"5c8eac3602ed"}, <<AddPart("employees", "available_leave_balance_days")>>,
           <<RemovePart("employees", "available_leave_balance_days")>>)

AttendanceTables == <<"attendance_raw_scan_events", "attendance_daily_summaries",
                      "attendance_monthly_reports">>
AttendanceUp ==
  Tables(AttendanceTables,
         [attendance_raw_scan_events |-> {"employees", "users"},
          attendance_daily_summaries |-> {"employees", "requests"},
          attendance_monthly_reports |-> {"employees"}])
AttendanceDown == Dropped(AttendanceTables)

PerformanceRevision ==
  Creation("f3a9c1d4e2b7", {"d2c4e6a1b9f0"}, <<"team_objectives", "team_daily_performances">>,
           [team_objectives |-> {"teams"}, team_daily_performances |-> {"users", "teams"}])

InstallationRevision ==
  Creation("a6b1f5d3c9e2", {"f3a9c1d4e2b7"}, <<"installation_state">>, [installation_state |-> {"users"}])

NotificationsRevision ==
  Creation("c4b7e1a2d9f0", {"a6b1f5d3c9e2"}, <<"notifications">>, [notifications |-> {"users"}])

HierarchyPermission == {"organization.read_hierarchy"}
HierarchySeed == Revision("d8b4e2f1a6c3", {"c4b7e1a2d9f0"},
  <<Seed(HierarchyPermission, {"RH_MANAGER", "DEPARTMENT_MANAGER", "TEAM_LEADER"})>>,
  <<Unseed(HierarchyPermission)>>)

EmployeeImage == Revision("e1a2b3c4d5f6", {"d8b4e2f1a6c3"}, <<AddPart("employees", "image")>>,
                          <<RemovePart("employees", "image")>>)

NfcCards == Creation("7b4c2d1e9f0a", {"e1a2b3c4d5f6"}, <<"nfc_cards">>, [nfc_cards |-> {"employees"}])

AssignCardPermission == {"attendance.nfc.assign_card"}
AssignCardSeed == Revision("8f2c6d1a4b7e", {"7b4c2d1e9f0a"}, <<Seed(AssignCardPermission, {"RH_MANAGER"})>>,
                           <<Unseed(AssignCardPermission)>>)

MessageTables == <<"messages", "message_recipients", "message_templates">>
MessagePermissions == {"messages.read", "messages.send", "messages.templates"}
MessagesUp ==
  Tables(MessageTables, [messages |-> {"users", "messages"},
                         message_recipients |-> {"messages", "users"},
                         message_templates |-> {"users"}])
  \o <<Seed(MessagePermissions, {})>>
MessagesDown == <<Unseed(MessagePermissions)>> \o Dropped(MessageTables)

AnnouncementTables == <<"announcements", "announcement_attachments", "announcement_reads">>
AnnouncementEdits == {"announcements.create", "announcements.update", "announcements.delete"}
AnnouncementsUp ==
  Tables(AnnouncementTables, [announcements |-> {"users"},
                              announcement_attachments |-> {"announcements", "users"},
                              announcement_reads |-> {"announcements", "users"}])
  \o <<Seed({"announcements.read"}, {"RH_MANAGER", "DEPARTMENT_MANAGER", "TEAM_LEADER",
                                     "EMPLOYEE"}),
       Seed(AnnouncementEdits, {"RH_MANAGER", "DEPARTMENT_MANAGER"})>>
AnnouncementsDown ==
  <<Unseed({"announcements.read"} \cup AnnouncementEdits)>> \o Dropped(AnnouncementTables)

MergedHeads == Revision("1aa2bb3cc4dd", {"0f1a2b3c4d5e", "b7c3d9e4f1a2"}, <<>>, <<>>)

RefactoredMessages == {"messages.read_users", "messages.send_all", "messages.send_same_or_down",
                       "messages.reply"}
MessagesRefactorSeed == Revision("2d4e6f8a9b1c", {"1aa2bb3cc4dd"}, <<Seed(RefactoredMessages, {})>>,
                                 <<Unseed(RefactoredMessages)>>)

ScannerTables == <<"allowed_origins", "scanner_app_builds", "auth_refresh_token_sessions">>
ScannerUp == Tables(ScannerTables, [t \in ToSet(ScannerTables) |-> {"users"}])
             \o <<Seed({"attendance.nfc.ingest"}, {})>>
ScannerDown == <<Unseed({"attendance.nfc.ingest"})>> \o Dropped(ScannerTables)

AddReference ==
  [op |-> "add", part |-> Part("request_workflow_steps", "resolver_job_title_id", {"job_titles"})]

ResolverTitle ==
  Revision("4c2f7a9b1d0e", {"3f7a2d1c9e0b"}, <<AddReference>>,
           <<RemovePart("request_workflow_steps", "resolver_job_title_id")>>)

BadgeTables == <<"forgot_badge_requests", "temporary_nfc_assignments">>
ForgotBadgeUp ==
  <<AddPart("employees", "contract_type"), AddPart("employees", "external_company_name"),
    AddPart("employees", "ix_employees_contract_type")>>
  \o Tables(BadgeTables,
            [forgot_badge_requests |-> {"employees", "users", "nfc_cards"},
             temporary_nfc_assignments |-> {"employees", "nfc_cards", "forgot_badge_requests",
                                            "users", "attendance_raw_scan_events"}])
ForgotBadgeDown ==
  Dropped(BadgeTables)
  \o <<RemovePart("employees", "ix_employees_contract_type"),
       RemovePart("employees", "external_company_name"),
       RemovePart("employees", "contract_type")>>

InventoryUp ==
  <<AddPartIfMissing("employees", "contract_type"),
    AddPartIfMissing("employees", "external_company_name"),
    AddPartIfMissing("employees", "ix_employees_contract_type")>>
  \o [i \in 1..3 |-> AddPartIfMissing("nfc_cards", <<"label", "card_type", "status">>[i])]
InventoryDown ==
  [i \in 1..3 |-> RemovePartIfThere("nfc_cards", <<"status", "card_type", "label">>[i])]
  \o <<RemovePartIfThere("employees", "ix_employees_contract_type"),
       RemovePartIfThere("employees", "external_company_name"),
       RemovePartIfThere("employees", "contract_type")>>

EmployeeGender == Revision("7a8b9c0d1e2f", {"b6d4e8f0c2a1"}, <<AddPart("employees", "gender")>>,
                           <<RemovePart("employees", "gender")>>)

TaskTitles == {"SUPER_ADMIN", "RH_MANAGER", "OPERATIONS_MANAGER", "DEPARTMENT_MANAGER",
               "FINANCE_PAYROLL", "ATTENDANCE_MANAGER", "HR_ASSISTANT", "TEAM_LEADER",
               "IT_SUPPORT"}
TasksUp ==
  <<CreateTable("employee_tasks", {"users", "employees"}),
    Seed({"tasks.view", "tasks.complete"}, TaskTitles \cup {"EMPLOYEE"}),
    Seed({"tasks.manage"}, TaskTitles)>>
TasksDown == <<Unseed({"tasks.view", "tasks.complete", "tasks.manage"}),
               DropTable("employee_tasks")>>

History ==
  <<BootstrapUser, Organization, EmployeeTable, PermissionTables,
    Revision("5c8eac3602ed", {"1f30147b4dea"}, RequestsEngineUp, RequestsEngineDown),
    LeaveBalance,
    Revision("d2c4e6a1b9f0", {"9f6c0df7428a"}, AttendanceUp, AttendanceDown),
    PerformanceRevision, InstallationRevision, NotificationsRevision, HierarchySeed,
    EmployeeImage, NfcCards, AssignCardSeed,
    Revision("0f1a2b3c4d5e", {"8f2c6d1a4b7e"}, MessagesUp, MessagesDown),
    Revision("b7c3d9e4f1a2", {"8f2c6d1a4b7e"}, AnnouncementsUp, AnnouncementsDown),
    MergedHeads, MessagesRefactorSeed,
    Revision("3f7a2d1c9e0b", {"2d4e6f8a9b1c"}, ScannerUp, ScannerDown),
    ResolverTitle,
    Revision("a1b2c3d4e5f6", {"4c2f7a9b1d0e"}, ForgotBadgeUp, ForgotBadgeDown),
    Revision("b6d4e8f0c2a1", {"a1b2c3d4e5f6"}, InventoryUp, InventoryDown),
    EmployeeGender,
    Revision("c9d8e7f6a5b4", {"7a8b9c0d1e2f"}, TasksUp, TasksDown)>>

Revisions == ToSet(History)
Identifiers == {r.id : r \in Revisions}

(* What the models declare: create_all makes the tables that are missing,  *)
(* with every column a model has.                                          *)
LateColumns ==
  {<<"employees", c>> : c \in {"available_leave_balance_days", "image", "contract_type",
                               "external_company_name", "ix_employees_contract_type", "gender"}}
  \cup {<<"request_workflow_steps", "resolver_job_title_id">>}
  \cup {<<"nfc_cards", c>> : c \in {"label", "card_type", "status"}}
ModelTables ==
  {"users", "job_titles", "departments", "teams", "employees", "permissions",
   "job_title_permissions"}
  \cup ToSet(RequestTables) \cup ToSet(AttendanceTables) \cup ToSet(MessageTables)
  \cup ToSet(AnnouncementTables) \cup ToSet(ScannerTables) \cup ToSet(BadgeTables)
  \cup {"team_objectives", "team_daily_performances", "installation_state", "notifications",
        "nfc_cards", "employee_tasks"}

-----------------------------------------------------------------------------
(* Commands                                                                *)

Database == [schema |-> schema, permitted |-> permitted, titleHas |-> titleHas]
BecomesDatabase(db) ==
  /\ schema' = db.schema
  /\ permitted' = db.permitted
  /\ titleHas' = db.titleHas

Due == {r \in Revisions : r.id \notin applied /\ r.follows \subseteq applied}
Latest == {r \in Revisions : r.id \in applied /\ \A n \in Revisions :
                                n.id \in applied => r.id \notin n.follows}

(* alembic upgrade, one revision at a time.                                *)
UpgradeOne ==
  \E r \in Due :
    LET db == Ran(Database, r.up) IN
    /\ db # Failure
    /\ BecomesDatabase(db)
    /\ applied' = applied \cup {r.id}
    /\ UNCHANGED strayed

(* One revision that no other applied one follows is taken back: alembic   *)
(* downgrade to the revision below it.  ("downgrade -1" does the same where *)
(* it is unambiguous, that is not at the merge 1aa2bb3cc4dd.)               *)
DowngradeOne ==
  \E r \in Latest :
    LET db == Ran(Database, r.down) IN
    /\ db # Failure
    /\ BecomesDatabase(db)
    /\ applied' = applied \ {r.id}
    /\ UNCHANGED strayed

(* alembic upgrade head: the scripts of the revisions that are missing, in *)
(* the order of the history and in one transaction.                        *)
Upgraded(db, ids) ==
  LET after[i \in 0..Len(History)] ==
        IF i = 0 THEN db
        ELSE LET d == after[i - 1]
                 r == History[i]
             IN  IF r.id \notin ids THEN d ELSE IF d = Failure THEN Failure ELSE Ran(d, r.up)
  IN  after[Len(History)]

Outstanding == Identifiers \ applied
AtHead == Upgraded(Database, Outstanding)

Created(db) ==
  LET missing == {t \in ModelTables : ~HasTable(db.schema, t)} IN
  {Part(t, "itself", {}) : t \in missing} \cup {Part(c[1], c[2], {}) : c \in {l \in LateColumns : l[1] \in missing}}

(* entrypoint.sh migrates to the head; if that fails, or is switched off,  *)
(* the application starts all the same.  At startup create_all makes the   *)
(* missing tables.                                                         *)
StartMigrated ==
  /\ Outstanding # {}
  /\ AtHead # Failure
  /\ BecomesDatabase([AtHead EXCEPT !.schema = @ \cup Created(AtHead)])
  /\ applied' = Identifiers
  /\ strayed' = (strayed \/ Created(AtHead) # {})

StartUnmigrated ==
  /\ ColdStarts
  /\ Created(Database) # {}
  /\ BecomesDatabase([Database EXCEPT !.schema = @ \cup Created(Database)])
  /\ strayed' = TRUE
  /\ UNCHANGED applied

(* Permission rows and grants written through the application.             *)
Administer ==
  /\ HasTable(schema, "job_title_permissions")
  /\ \E c \in Operated :
       \/ permitted' = permitted \cup {c} /\ UNCHANGED titleHas
       \/ \E t \in KnownTitles :
            /\ c \in permitted
            /\ titleHas' \in {titleHas \cup {<<t, c>>}, titleHas \ {<<t, c>>}}
            /\ UNCHANGED permitted
  /\ UNCHANGED <<applied, schema, strayed>>

MigrationInit ==
  /\ applied = {}
  /\ schema = Base.schema /\ permitted = Base.permitted /\ titleHas = Base.titleHas
  /\ strayed = FALSE

MigrationNext ==
  UpgradeOne \/ DowngradeOne \/ StartMigrated \/ StartUnmigrated \/ Administer

MigrationSpec == MigrationInit /\ [][MigrationNext]_migrationVars

-----------------------------------------------------------------------------
(* What must hold                                                          *)

Parts(s) == {<<p.table, p.name>> : p \in s}

(* Every applied set of revisions is closed downwards, and the permission  *)
(* rows are there only with their tables.                                  *)
MigrationTypeOK ==
  /\ applied \subseteq Identifiers
  /\ \A r \in Revisions : r.id \in applied => r.follows \subseteq applied
  /\ strayed \in BOOLEAN
  /\ permitted # {} => HasTable(schema, "permissions")
  /\ titleHas \subseteq KnownTitles \X permitted

(* Whatever was upgraded, reverted and administered before, and on either  *)
(* of the two branches, the next revisions apply, unless the application   *)
(* was started on a database it did not migrate.                           *)
UpgradesApply == ~strayed => \A r \in Due : Ran(Database, r.up) # Failure

(* At the head the database has every table and every column the models    *)
(* declare, so that create_all has nothing to do after the migrations.     *)
HeadServesModels ==
  ~strayed /\ applied = Identifiers =>
    ({<<t, "itself">> : t \in ModelTables} \cup LateColumns) = Parts(schema)

(* The schema is that of the applied revisions however they were reached,  *)
(* but for the columns that reverting b6d4e8f0c2a1 takes from              *)
(* a1b2c3d4e5f6.                                                           *)
InventoryReverted == "a1b2c3d4e5f6" \in applied /\ "b6d4e8f0c2a1" \notin applied
SchemaOf(ids) == Upgraded(Base, ids).schema
SchemaIsThatOfRevisions ==
  ~strayed /\ ~InventoryReverted => schema = SchemaOf(applied)

(* "Revert the latest migration: python -m alembic downgrade -1"           *)
LatestReverts == ~strayed => \A r \in Latest : Ran(Database, r.down) # Failure

(* Every other revision can be reverted.                                   *)
OthersRevert ==
  ~strayed => \A r \in Latest : r.id # "a1b2c3d4e5f6" => Ran(Database, r.down) # Failure

(* The schema is the one the applied revisions and the models describe, and *)
(* revisions can be added to it and, but for one, taken back.              *)
SchemaInv ==
  /\ MigrationTypeOK
  /\ UpgradesApply
  /\ HeadServesModels
  /\ SchemaIsThatOfRevisions
  /\ OthersRevert

=============================================================================
