------------------------------- MODULE Access -------------------------------
(***************************************************************************)
(* Permissions: rows of the catalog, what each job title is granted, and   *)
(* what a caller may therefore do (src/app/apps/permissions/service.py,    *)
(* dependencies.py; the seeding methods of src/app/apps/setup/service.py   *)
(* and the permission migration of src/app/apps/setup/router.py).          *)
(*                                                                         *)
(* Replacing the grants of a title deletes the rows it can see and inserts *)
(* the new ones in one transaction: what another session commits between   *)
(* the two survives.  The migration commits three times; its first         *)
(* transaction first inserts the canonical codes and then renames the      *)
(* legacy ones to them, which the unique index of the codes refuses, and   *)
(* PostgreSQL undoes a transaction whose statement failed although the     *)
(* code only logs the failure and commits.                                 *)
(***************************************************************************)
EXTENDS Sessions, PermissionCatalog, Functions

CONSTANTS
  RowIds,       \* ids of permission rows: nothing is inserted when all are taken
  AccessModes   \* records: what a behavior may do, see MCPlatform

VARIABLES
  accMode,      \* the mode of this behavior
  permRow,      \* id -> None or [code, active]
  titleRows,    \* codes of the job titles there are
  granted,      \* pairs <<title, id>>: the rows of job_title_permissions
  asked,        \* history: title -> the ids of its last committed assignment
  accSession    \* worker -> the request it serves

permissionVars == <<permRow, titleRows, granted, asked>>
accVars == <<accMode, permRow, titleRows, granted, asked, accSession>>

PermissionRow(code, active) == [code |-> code, active |-> active]
PermissionRows(codes) == [code: codes, active: BOOLEAN]

(* A mode: whether requests overlap, the operations of a run, the codes    *)
(* and job titles it is about, and the rows and titles there at the start. *)
ASSUME AccessModesAreTyped ==
  /\ None \notin RowIds
  /\ \A m \in AccessModes :
       /\ m.serial \in BOOLEAN /\ m.there \subseteq m.titles
       /\ m.rows \in [RowIds -> Maybe(PermissionRows(m.codes))] /\ None \notin PermissionRows(m.codes)

(* A member of a set, if there is one.                                     *)
OneOf(S) == IF S = {} THEN {} ELSE {CHOOSE x \in S : TRUE}

ExistingRows == {r \in RowIds : permRow[r] # None}
RowWithCode(code) == {r \in ExistingRows : permRow[r].code = code}
FreeRows == RowIds \ ExistingRows
GrantsOf(title, rows) == {title} \X rows
GrantedTo(title) == {r \in RowIds : <<title, r>> \in granted}

-----------------------------------------------------------------------------
(* Resolution.                                                             *)
Canonical(code) == IF code \in DOMAIN LegacyAliases THEN LegacyAliases[code] ELSE code

EffectiveCodes(title) == {permRow[r].code : r \in {s \in GrantedTo(title) : permRow[s].active}}

(* Mutant: the code is looked for as it is, without the aliases.           *)
HasExactPermission(title, code) == code \in EffectiveCodes(title)
HasPermission(title, code) == \E c \in EffectiveCodes(title) : Canonical(c) = Canonical(code)

(* require_permission and require_any_permission, for an active employee   *)
(* of the title.                                                           *)
MayCall(title, route) == \A guard \in Routes[route] : \E code \in guard : HasPermission(title, code)

-----------------------------------------------------------------------------
(* Editing the catalog and the grants.                                     *)
CodesHere == CanonicalPermissions \cap accMode.codes

CreatePermission(w, code) ==
  /\ MayServe(accSession, w, TRUE)
  /\ RowWithCode(code) = {}
  /\ \E row \in OneOf(FreeRows) :
       permRow' = [permRow EXCEPT ![row] = PermissionRow(code, TRUE)]
  /\ UNCHANGED <<titleRows, granted, asked, accSession>>

UpdatePermission(w, r, code, active) ==
  /\ MayServe(accSession, w, TRUE)
  /\ RowWithCode(code) \subseteq {r}
  /\ permRow' = [permRow EXCEPT ![r] = PermissionRow(code, active)]
  /\ UNCHANGED <<titleRows, granted, asked, accSession>>

(* assign_permissions_to_job_title: the DELETE, then the commit of the     *)
(* INSERTs, refused if another session granted one of them meanwhile.      *)
LoadAssignment(w, title, rows) ==
  /\ title \in titleRows
  /\ MayServe(accSession, w, accMode.serial)
  /\ accSession' = [accSession EXCEPT ![w] =
       [op |-> "assign", title |-> title, rows |-> rows,
        deleted |-> GrantsOf(title, GrantedTo(title))]]
  /\ UNCHANGED permissionVars

(* Mutant: the rows granted before are not deleted.                        *)
ReplacedMerged(deleted, title, rows) == granted \cup GrantsOf(title, rows)
Replaced(deleted, title, rows) == (granted \ deleted) \cup GrantsOf(title, rows)

CommitAssignment(w) ==
  /\ accSession[w] # None /\ accSession[w].op = "assign"
  /\ LET s == accSession[w]
         conflict == GrantsOf(s.title, s.rows) \cap (granted \ s.deleted) # {}
     IN IF conflict
        THEN UNCHANGED <<granted, asked>>
        ELSE /\ granted' = Replaced(s.deleted, s.title, s.rows)
             /\ asked' = [asked EXCEPT ![s.title] = s.rows]
  /\ accSession' = [accSession EXCEPT ![w] = None]
  /\ UNCHANGED <<permRow, titleRows>>

-----------------------------------------------------------------------------
(* migrate_to_canonical_permissions.  The two oldest aliases are not among *)
(* the renamed ones.                                                       *)
MigratedCodes == {LegacyAliases[c] : c \in {d \in DOMAIN LegacyAliases : d[1] # ""}}
                 \cap accMode.codes

MissingCodes == {c \in MigratedCodes : RowWithCode(c) = {}}

(* Each of the codes gets one of the ids.                                  *)
WithRows(id) ==
  [r \in RowIds |-> IF r \in Range(id) THEN PermissionRow(CHOOSE c \in DOMAIN id : id[c] = r, TRUE)
                    ELSE permRow[r]]

RenameFails == \E r \in ExistingRows : permRow[r].code \in DOMAIN LegacyAliases
                                       /\ permRow[r].code[1] # ""

BeginMigration(w) ==
  /\ MayServe(accSession, w, accMode.serial)
  /\ accSession' = [accSession EXCEPT ![w] = [op |-> "migrate", stage |-> "codes"]]
  /\ UNCHANGED permissionVars

Migrating(w, stage) ==
  accSession[w] # None /\ accSession[w].op = "migrate" /\ accSession[w].stage = stage

MigrateCodes(w) ==
  /\ Migrating(w, "codes")
  /\ IF RenameFails THEN permRow' = permRow
     ELSE \E id \in OneOf(Injection(MissingCodes, FreeRows)) : permRow' = WithRows(id)
  /\ accSession' = [accSession EXCEPT ![w].stage = "clear"]
  /\ UNCHANGED <<titleRows, granted, asked>>

ClearGrants(w) ==
  /\ Migrating(w, "clear")
  /\ granted' = {}
  /\ asked' = [t \in DOMAIN asked |-> {}]
  /\ accSession' = [accSession EXCEPT ![w].stage = "grant"]
  /\ UNCHANGED <<permRow, titleRows>>

(* A title row is granted what is found of its codes, without asking       *)
(* whether it is active.  A pair that another request has granted since    *)
(* the grants were cleared fails the INSERT and with it the transaction.   *)
RowsOfCodes(codes) == {r \in ExistingRows : permRow[r].code \in codes}

GrantMigrated(w) ==
  /\ Migrating(w, "grant")
  /\ LET titles == titleRows \cap DOMAIN MigratedGrants
         added == UNION {GrantsOf(t, RowsOfCodes(MigratedGrants[t])) : t \in titles}
     IN IF added \cap granted # {}
        THEN UNCHANGED <<granted, asked>>
        ELSE /\ granted' = granted \cup added
             /\ asked' = [t \in DOMAIN asked |-> IF t \in titles THEN RowsOfCodes(MigratedGrants[t])
                                                 ELSE asked[t]]
  /\ accSession' = [accSession EXCEPT ![w].stage = "done"]
  /\ UNCHANGED <<permRow, titleRows>>

EndMigration(w) ==
  /\ Migrating(w, "done")
  /\ accSession' = [accSession EXCEPT ![w] = None]
  /\ UNCHANGED permissionVars

-----------------------------------------------------------------------------
(* Seeding: titles, then codes, then the grants of every title, each row   *)
(* committed by itself.  "stored" are the ids the caller remembers for     *)
(* codes, "step" the wizard step it is for and "state" the progress it     *)
(* read; step 0 stands for the two repair routes of the permissions        *)
(* router, which remember nothing.                                         *)
NothingStored == [c \in CodesHere |-> None]
Seeding(step, titles, codes, grants, stored, state) ==
  [op |-> "seed", step |-> step, titles |-> titles, codes |-> codes, grants |-> grants,
   stored |-> stored, state |-> state]

EnsureCanonicalPermissions(w) ==
  /\ MayServe(accSession, w, accMode.serial)
  /\ \E grants \in {{}, accMode.titles} :
       accSession' = [accSession EXCEPT ![w] =
         Seeding(0, accMode.titles, CodesHere, grants, NothingStored, None)]
  /\ UNCHANGED permissionVars

IsSeeding(w) == accSession[w] # None /\ accSession[w].op = "seed"

(* _upsert_job_title.                                                      *)
SeedTitle(w) ==
  /\ IsSeeding(w) /\ accSession[w].titles # {}
  /\ LET title == CHOOSE t \in accSession[w].titles : TRUE
     IN /\ titleRows' = titleRows \cup {title}
        /\ accSession' = [accSession EXCEPT ![w].titles = @ \ {title}]
  /\ UNCHANGED <<permRow, granted, asked>>

(* _upsert_permission: the remembered row, else the row with the code,     *)
(* else a new one.  It is refused if another row has the code.             *)
SeededRow(r, code) == PermissionRow(code, TRUE)

RowFor(stored, code) ==
  IF stored # None THEN {stored}
  ELSE OneOf(IF RowWithCode(code) # {} THEN RowWithCode(code) ELSE FreeRows)

SeedCode(w) ==
  /\ IsSeeding(w) /\ accSession[w].titles = {} /\ accSession[w].codes # {}
  /\ LET code == CHOOSE c \in accSession[w].codes : TRUE
     IN \E row \in RowFor(accSession[w].stored[code], code) :
          IF RowWithCode(code) \subseteq {row}
          THEN /\ permRow' = [permRow EXCEPT ![row] = SeededRow(row, code)]
               /\ accSession' = [accSession EXCEPT ![w].codes = @ \ {code}, ![w].stored[code] = row]
          ELSE permRow' = permRow /\ accSession' = [accSession EXCEPT ![w] = None]
  /\ UNCHANGED <<titleRows, granted, asked>>

(* ensure_job_title_permission_assignments needs all titles and codes, and *)
(* replaces the grants of one title after the other, each time by a DELETE *)
(* and a commit.  The step is the commit: while requests overlap, rows     *)
(* that others granted since the DELETE stay, or break the request off.    *)
SeedGrants(w) ==
  /\ IsSeeding(w) /\ accSession[w].titles = {} /\ accSession[w].codes = {}
  /\ accSession[w].grants # {}
  /\ LET title == CHOOSE t \in accSession[w].grants : TRUE
         rows == RowsOfCodes(RoleMatrix[title] \cap CodesHere)
         there == GrantsOf(title, GrantedTo(title))
     IN \E deleted \in IF accMode.serial THEN {there} ELSE SUBSET there :
          IF GrantsOf(title, rows) \cap (granted \ deleted) # {}
          THEN /\ UNCHANGED <<granted, asked>>
               /\ accSession' = [accSession EXCEPT ![w] = None]
          ELSE /\ granted' = Replaced(deleted, title, rows)
               /\ asked' = [asked EXCEPT ![title] = rows]
               /\ accSession' = [accSession EXCEPT ![w].grants = @ \ {title}]
  /\ UNCHANGED <<permRow, titleRows>>

Seeded(w) ==
  /\ IsSeeding(w)
  /\ accSession[w].titles = {} /\ accSession[w].codes = {} /\ accSession[w].grants = {}

EndRepair(w) ==
  /\ Seeded(w) /\ accSession[w].step = 0
  /\ accSession' = [accSession EXCEPT ![w] = None]
  /\ UNCHANGED permissionVars

(* The process dies, or the remaining rows are refused: what was committed *)
(* stays.                                                                  *)
BreakOff(w) ==
  /\ accSession[w] # None
  /\ accSession' = [accSession EXCEPT ![w] = None]
  /\ UNCHANGED permissionVars

-----------------------------------------------------------------------------
AccessInit ==
  /\ accMode \in AccessModes
  /\ permRow = accMode.rows
  /\ titleRows = accMode.there
  /\ granted = {}
  /\ asked = [t \in accMode.titles |-> {}]
  /\ accSession = [w \in Workers |-> None]

AccessStep ==
  /\ \E w \in Workers :
       \/ /\ "edit" \in accMode.ops
          /\ \/ \E code \in accMode.codes : CreatePermission(w, code)
             \/ \E r \in ExistingRows, code \in accMode.codes, active \in BOOLEAN :
                  UpdatePermission(w, r, code, active)
       \/ /\ "assign" \in accMode.ops
          /\ \E title \in accMode.titles, rows \in SUBSET ExistingRows :
               LoadAssignment(w, title, rows)
       \/ "migrate" \in accMode.ops /\ BeginMigration(w)
       \/ "repair" \in accMode.ops /\ EnsureCanonicalPermissions(w)
       \/ CommitAssignment(w) \/ MigrateCodes(w) \/ ClearGrants(w) \/ GrantMigrated(w)
       \/ EndMigration(w) \/ SeedTitle(w) \/ SeedCode(w) \/ SeedGrants(w) \/ EndRepair(w)
       \/ "breakoff" \in accMode.ops /\ BreakOff(w)
  /\ UNCHANGED accMode
=============================================================================
