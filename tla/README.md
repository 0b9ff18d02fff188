# TLA+ models of the HR backend

The repository is a FastAPI and SQLAlchemy backend for a company's internal
processes: accounts and employees, the organization, attendance with NFC
cards, configurable requests with approval workflows, messages, announcements,
tasks and performance records. This directory holds TLA+ models of its core
logic, configurations that check them with TLC, and proofs checked by TLAPS.
Paths below are relative to `src/app/apps/` where that is unambiguous.

Contents: [the system](#the-system), [how the code runs](#how-the-code-runs),
[modules](#modules), [runs](#runs), [proofs](#proofs),
[what the code does besides](#what-the-code-does-besides),
[what is not modelled](#what-is-not-modelled), [plan](#plan).

## The system

| component | state | operations | hard behaviour | what makes it correct |
|---|---|---|---|---|
| request engine (`requests/service.py`) | request types, fields, steps, requests, their action history | configure types, fields and steps, submit, approve, reject, list | stale sessions, edits during a workflow, failing walks | nobody decides unassigned or on the own request; no step is left out; ended is ended; a waiting request is visible and its approver told; what is submitted fits the form |
| approver resolution (same file) | none (reads the directory) | resolve and evaluate a step | inconsistent and inactive master data | the nearest eligible person, always above the requester |
| leave rules (`requests/leave_business.py`) | leave balance of an employee | validate and measure a leave | dates at the edges, fields edited meanwhile, balance checked only at submission | the duration fits the option and the balance, and stays readable |
| forgot-badge requests (`forgot_badge/service.py`) | requests, assignments of temporary cards, card status | create, approve, reject, cancel, complete, release, check-out hook | overlapping approvals, hook after the scan's commit | one card for one person; a returned card is free; scans go to the borrower |
| attendance (`attendance/service.py`) | permanent cards, raw scans, daily summaries, monthly reports | assign card, ingest scan, generate reports | overlapping and late scans | summary and report agree with the scans |
| organization (`organization/service.py`) | departments, teams, job titles | create, update, deactivate, hierarchy views | overlap of deactivation and creation | active teams in active departments; the hierarchy shows everybody once |
| employees, users (`employees/`, `users/service.py`) | accounts, employee profiles | create, update, (de)activate, reset password | two services writing the same rows | account and profile agree; a super admin remains |
| authentication (`auth/service.py`) | refresh-token sessions | login, rotate, change password | concurrent rotations, resets | one good token per login, bound to its device; temporary passwords are changed |
| rate limiter (`app/core/rate_limit.py`) | stamps per path and client, in memory | is_allowed | threads, moving clock | the limit holds in every window |
| notifications (`notifications/`) | notification rows, open websockets | create, mark read, publish | connections closing while a publish waits for the lock | delivered in order, nothing missed, every publish ends |
| permissions (`permissions/`) | catalog, assignments to job titles | replace assignments, resolve, repair, migrate | concurrent replacement, three commits in one request | grants are what was assigned; catalog, role matrix and routes fit together |
| messages (`messages/service.py`) | messages, recipients, templates | send, reply, read | per-recipient failure, chains of replies | conversations stay together, nobody joins uninvited, who is offered may be addressed |
| announcements (`announcements/`) | announcements, attachments (rows and stored objects), reads | publish, attach, remove, mark seen | two stores, concurrent reads, instants of a schedule | no row without object; a read is answered as stored |
| tasks (`tasks/service.py`) | tasks | create, complete, list | order and limit of the list | open tasks are found, the overdue ones first |
| performance (`performance/service.py`) | objectives, daily results | create and edit objectives, submit results, list | check-then-act on "the active one" | one active objective, one result per day, against its target |
| scanner app (`scanner_app/`) | builds, allowed origins | generate a build, read the current one, admit origins at start | overlapping builds, what a restart reads | the newest build is current, its origin stored once |
| setup wizard (`setup/service.py`) | installation state, wizard draft | initialize, seven steps, complete | each step commits separately | progress is backed by rows; an installation that goes on completes |
| dashboard (`dashboard/service.py`) | none (reads all tables) | overview and detail pages | the same rows counted by separate queries and scopes | numbers that count the same thing agree; the scope of a caller is confined |
| schema migrations and startup (`src/alembic/`, `src/scripts/entrypoint.sh`, `app/core/database_init.py`) | the schema and the applied revisions | upgrade, downgrade, start with or without migrations | two branches, hand-written repairs, create_all | the schema is that of the revisions; upgrades apply; others revert |
| configuration, logging, middleware, uploads | none of their own | wiring and I/O | | |

Components meet in the database. The request engine reads the directory that
users, employees and organization write, and writes notifications in its own
transactions. Attendance calls the forgot-badge service to resolve a temporary
card and again, after its own commit, when the scan is a check-out. Messages
and requests hand notifications to the event loop once their rows are
committed. The setup wizard fills the tables of organization, employees and
permissions. The remaining interactions are reads.

## How the code runs

* A handler runs in a thread of the pool with its own SQLAlchemy session
  (`core/dependencies.py`). The session factory (`core/database.py`) disables
  autoflush and expiry, so a handler reads, works on loaded objects and
  commits; it does not see other commits on the rows it loaded.
* PostgreSQL runs at READ COMMITTED. The code takes no row locks and has no
  version columns. A handler is therefore modelled as *two steps of a worker*:
  the reads and checks, then the commit. With one worker the steps of
  handlers do not interleave; such runs are called serial.
  Where two reads of one handler may find different moments and a property
  depends on it, the handler has a step for each: `update_user` and
  `update_employee` (`LoadUser`, `LoadEmployee`), the completion of the
  installation (`ReviewInstallation`, `LoadInstallation`), the two clock reads
  of the rate limiter. Elsewhere the reads of a handler are one step.
* A commit sends only the columns whose value differs from the loaded one
  (`Changed`, `Updated`). That is what makes overlapping sessions mix: a column
  set to its stale value is not sent and keeps what somebody else committed.
* Websockets live on the event loop. It runs one task at a time between two
  awaits; worker threads hand it tasks with `call_soon_threadsafe`.
* A process that dies loses its sessions and keeps what was committed. Where a
  handler commits several times the model has a step for each commit, and lets
  the request break off between them (`breakoff`).
* In the request engine, submission and the creation of a step are one step:
  they insert rows and update none, and the unique constraint on the order
  decides between two inserts. `update_workflow_step` updates the row it
  loaded, so it has two (`LoadStepUpdate`, `CommitStepUpdate` or
  `RollbackStepUpdate`).
* An exception before the commit rolls everything back. A refused operation is
  no step of the model, except where it has a worker to free: a refused
  approval (`RollbackApprove`), a step update whose order was taken
  (`RollbackStepUpdate`), an update of an account or profile after its first
  read (`Refuse`).

## Modules

| module | models | correspondence |
|---|---|---|
| `Directory` | rows and writing handlers of users, employees, organization | per handler `<Op>Allowed`, its checks, and `<Op>Writes`, the columns its commit sends; `Commit` applies them |
| `DirectorySessions` | the three services under concurrent requests | one action per handler (`Begin`) and `CommitSession`; the updates of accounts and profiles also have one for their first SELECT (`LoadUser`, `LoadEmployee`), and `torn` records for whom the second found another moment; `mode` fixes which services are used and whether their requests overlap; `Init` is the installation after `initialize_system` |
| `ApproverResolution` | `_resolve_*` and `_evaluate_approver_step` | operators `Candidate` and `Outcome`, in the order of the early returns |
| `ApproverCases` | every directory of a family as an initial state | states the promises of `ApproverResolution` |
| `Hierarchy` | the three organigram views | operators over the directories of `ApproverCases`, and what they promise about who is in which view |
| `RequestWorkflow` | the request engine on top of `ApproverResolution` | `CreateRequest`; `LoadForDecision`, `CommitApprove`, `RollbackApprove`, `CommitReject`; `CreateWorkflowStep`, `UpdateRequestType`; `LoadStepUpdate`, `CommitStepUpdate` and `RollbackStepUpdate` of the `Editors`; `DirectoryEdit` uses the writes of `Directory`; `edited` records what edits changed, and whether two updates of one step mixed |
| `RequestLifecycle` | what a requester is promised | abstract specification, implemented by `RequestWorkflow` (`ImplementsLifecycle`) |
| `RequestForms` | fields, submitted values, leave rules | `CreateRequestField`, `LoadFieldUpdate`, `CommitFieldUpdate`, `SubmitForm`, `RenameType`, `SetBalance`; `Normal` is the normalisation of a value, `LeaveEvaluates` is `evaluate_leave_request` |
| `TempBadge` | forgot-badge requests, temporary cards, scans with them | one action per service operation, `CommitWrites`; `LoadScan`, `CommitScan`, `CheckOutHook`, `LoseHook`; `NextDay` |
| `Sessions` | what the modules below share | `MayServe`, a worker begins to serve; `Flushed`, the row after an UPDATE of changed columns |
| `Attendance` | permanent cards, scans, summaries, reports | two steps per handler; `Scanned` is `_apply_scan_to_daily_summary`, `Totals` the monthly aggregation |
| `Notices` | notification rows and websocket delivery | `CreateNotification`, `Publish` and `CommitRead` of workers; `StartPublish`, `SendNext`, `EndPublish` of the loop; sockets that open and close |
| `Messages` | access policy, conversations, read marks, notifications after the commit | `SendNew`, `SendReply`, `CommitMessage`; `Announce`, the loop over recipients; `OpenMessage`; scopes as operators |
| `Announcements` | schedule, read marks, attachments over two stores | each storage call and each commit is a step and may fail |
| `Performance` | objectives and results of a team | `CreateObjective`, `UpdateObjective`, `SubmitResult` and their commits; lists and single reads as operators |
| `Tasks` | assignment, completion, lists, counts | the order of lists is the order of strings in the database |
| `PermissionCatalog` | catalog, role matrix, guards of routes | data, one entry per entry of the code |
| `Access` | catalog rows, grants, effective permissions, seeding, migration to canonical codes | two steps per handler, each of the migration's three commits a step; a seeding replaces the grants of a title in one step, its commit, which while requests overlap removes any part of the grants there are, as its DELETE saw them |
| `SetupWizard` | the seven steps over the tables of `Access` | each commit a step; a step may break off and be done again; the completion reviews, loads and commits |
| `Logins` | refresh tokens, passwords, activation | two steps per handler, a clock for expiry; `waived` records whose duty to change the password was lifted without a new one |
| `ScannerApp` | builds and origins | `GenerateBuild`, `CommitBuild`, `Restart` |
| `Dashboard` | scopes and counts of every page | an initial state per company; `OpenPage` asks, and the counts are operators; a request has its date in UTC (`day`) and the one the database gives it (`dbDay`) |
| `Migrations` | the revisions, the commands and the start | `Revisions` lists what each adds and removes; `UpgradeOne`, and `DowngradeOne` to a revision that is named (alembic refuses `downgrade -1` as ambiguous at the merge `1aa2bb3cc4dd`); `StartMigrated`, the missing ones in one transaction (`Upgraded`), `StartUnmigrated` with `create_all`; a part is a table `"itself"` or what is added to it |
| `RateLimiter` | `InMemoryRateLimiter` | `Trim` and `Accept` or `Deny` split `is_allowed` at its two clock reads |
| `MCDirectory`, `MCApproverCases`, `MCRequestWorkflow`, `MCTempBadge` | instances for TLC | modes, families of directories, workflows, symmetry |
| `MCWorkplace`, `MCPlatform` | the services that share no state, side by side | see below |
| `*Proofs` | theorems | see [proofs](#proofs) |

The walk through the steps is a loop in the code. The model has it in closed
form: the walk ends at the first remaining step that is assigned or refused
(`FirstStop`), and passes every remaining step before it (`Passed`). The
history of a request has one entry per committed operation, with the sets of
steps that the operation's walk completed and skipped; the code writes one row
for each of them in the same transaction.

An employee is identified with the account it is linked to, since the column
is unique and never reassigned. Accounts are numbers: the order of their ids is
the order in which the code picks among several candidates.

*Side by side.* `MCWorkplace` composes attendance, forms, notices, messages,
announcements, performance and tasks, `MCPlatform` permissions with the wizard,
logins, dashboard, scanner app, migrations and rate limiter. They share no
state. A variable `focus` picks the service a behaviour turns to (`Turn`); the
others keep their variables in one initial state (`Resting`). So the state
spaces add up instead of multiplying, and one run answers for all of them.

*Modes.* Within a module the initial state fixes a mode: which operations the
behaviour uses, whether requests overlap (`serial`), which rows are there. A
mode asks one question with the smallest instance that poses it, and the run is
the union of the modes. A property that needs serial requests says so in its
antecedent.

Definitions preceded by a comment that begins with `Mutant:` are not part of
the models. Each is a variant of the definition after it with a plausible
mistake, and `PROJECT.json` names the property that the mistake breaks.

## Runs

All runs finish in under three minutes with two workers of TLC. "Serial" means
that a request is served only while no other one is, "overlap" that two workers
serve requests at once, which is enough for a stale read: every hazard of the
code involves one session that commits between the read and the commit of
another. Deadlock checking is off where the bounded system stops because its
ids, edits or scans are used up; the installation then simply waits for the
next request.

A property `<...>Inv` is the conjunction of the named invariants of one
service, stated with a comment each where it is defined, and of its type
invariant. One more conjunct costs a run nothing.

| run | shows | bounds and why they are enough |
|---|---|---|
| `directory` | `DirectoryInv`: organization, serial: an active team is in an active department. `SomeActiveAdmin`: users, serial: a super admin remains. `ActivitySynced`: users and employees: account and profile are active together, serially always, with overlap until an update has loaded the two rows around a commit that changed their activity (`torn`) | two teams and two departments, so that teams can move and be left behind; two accounts, one who acts and one who is changed by both services |
| `approver_cases` | an assignee is above the requester; required steps are not skipped for lack of an approver; the nearest, then earliest holder of a title is chosen; `HierarchyIsWhole`: everybody has a place, a manager sees the department | three families: ranks (two people, two titles, two levels, any account as leader or manager), places (three people in two departments, so that two holders compete), ladder (levels with nobody between them) |
| `request_serial` | `PendingInv`: rows are coherent and waiting requests visible; an approved request went through every step; the engine implements `RequestLifecycle` | three workflows: with a conception step, with two steps of the same approver, and with a step still to be created; two edits of activity, requirement, type, accounts, leaders or titles |
| `request_overlap` | no unassigned, self-made or unannounced decisions, and the invariant of the proofs | two deciding sessions and two editing ones (`Editors`); `MaxEdits` = 2 edits of order, kind and resolver of the steps or of accounts and leaders: two updates of one step can mix, and both fall between the read and the commit of a decision |
| `badge_serial` | `LoanInv`: a card out of the pool has one active assignment of an approved request; `CheckOutReleases`: a check-out ends a session and gives the card back | two employees and requests, one card, two days, two scans: a card is lent again, on the same and on another date |
| `badge_overlap` | handled requests are backed, used cards were checked out, scans go to borrowers | two sessions, two employees and requests that compete for one card, two scans, hooks may be lost |
| `workplace` | see the next table | |
| `platform` | see the next table | |

| service (run) | properties | bounds and why they are enough |
|---|---|---|
| attendance (`workplace`) | `AttendanceInv`: a summary is what the scans of its day amount to, also when they are ingested late (serial), and shows scanned times only (overlap); one card per person (serial). `CardsKeepTheirOwner` (overlap). `ReportsAddUp`: reports against the raw scans | three instants up to `LastInstant`, two offsets, days and minutes of two ticks, months of one day: a scan counts for another date elsewhere, durations round, days fall into different months; three scans reorder |
| forms (`workplace`) | `FormInv`: defaults fit their fields, what was submitted answers the form as it was read. `LeaveInv`: a leave fits the balance and stays readable | three fields, dates up to `LastDate` = 2, balance up to 2: the last day that fits, the first that does not, half days; one edit overlaps one submission |
| notices (`workplace`) | `DeliveryInv`: delivered in the order published, nothing missed by who is connected. `PublishesEnd` (liveness) | two notifications, two sockets of one user: a second one queues for the lock while the first sends, and sockets come and go between |
| messages (`workplace`) | `ConversationInv`: replies form trees, nobody joins uninvited. `RecipientInv`: offered means addressable, everybody told unless the request broke off, unread until opened | three people, three messages (`LastSent`), three ranks: a reply to a reply by somebody who may only reply |
| announcements (`workplace`) | `FeedInv`: no announcement expires before it is published (serial), feed and flag agree, a read is answered as it is stored. `AttachmentInv`: rows have their objects, and the reverse when nothing failed | two announcements, two files, clock up to `LastMoment` = 2: before, at and after an instant; an upload of two files fails half-way |
| performance (`workplace`) | `PerfInv`: one active objective (serial), one result a day, lists and single reads agree. `ResultMeetsObjective` | two teams and leaders, two objectives, one day |
| tasks (`workplace`) | `TaskInv`: a page of open tasks is full or complete, the overdue first | three tasks (`LastTask`), limits 1 and 2, with and without a date |
| permissions, wizard (`platform`) | `AccessInv`: no grant of the last replacement is missing and, without overlap, none is left over; after seeding or repair every code has an active row; what the wizard remembers is there, in its place and, while requests do not overlap, led by its leaders. `SeededRolesWork`: a seeded role that can begin a piece of work can carry it out. `InstallsComplete` (serial): after the completion everybody the wizard installed holds the permissions of the role, and the four are different people, whatever broke off before | the whole catalog and matrix when seeded; else three codes and two titles; row ids up to the size of the catalog; two payloads of units and of employees, one with a matricule that is taken |
| logins (`platform`) | `LoginInv`: one good token per login (serial), bound to device and account (overlap), temporary passwords have to be changed (serial) unless a super admin lifted that duty without giving a password | three tokens, two devices, life of 2 ticks with a clock up to 2: used, renewed twice, expired; one account |
| dashboard (`platform`) | `DashInv`: present, absent and incomplete add up; breakdowns add up to totals; pages and request counts agree; the trend of requests adds up to their number where the database counts days in UTC, and misses at most the ends of the range where it does not; nobody outside the caller's scope is counted | 43 companies of three people, some in a team of another department, two teams and departments, three days: a request lies between the ends of a range; in two companies the zone of the database is ahead of UTC or behind it, one is on SQLite; every caller, page and filter |
| scanner app (`platform`) | `BuildInv`: the newest build is current, its origin stored once and admitted after a restart | three builds (`LastBuild`), so that one is generated over two active ones |
| migrations (`platform`) | `SchemaInv`: upgrades apply, the head has what the models need, the schema is that of the revisions, all but one revert | the real history; from an empty database or one made by `create_all` |
| rate limiter (`platform`) | `LimiterInv`: limit, order and deserved refusals | limit 2, window 3, `LastTick` = 6: two full windows, two clients |

Four runs find a statement of the repository violated by what the code does:

| run | statement | what happens |
|---|---|---|
| `directory_overlap` | "Departments cannot be deactivated while active teams still belong to them." | a team is created in the department between its check and its commit |
| `request_rejected` | rejection finishes the request | an approval with a row loaded before the rejection revives the request |
| `badge_two_cards` | an employee gets one card for a day | the check looks at the assignments of the chosen card only |
| `migration_rollback` | `downgrade -1` reverts the latest migration | a revision drops, when it is reverted, what the one below it created and drops again |

The other bounds are `MaxEdits` (edits of configuration and directory) and
`MaxScans`, `LastDay` of the temporary cards, `LastRead` (reads of
notifications), and the finite sets of ids.

The organization part of `DirectoryInv`, `SomeActiveAdmin`, `LoanInv` and
`ImplementsLifecycle` hold for serial handlers only; the overlap runs above
show how overlap breaks the first kind. `RequestLifecycle` and
`ApprovedIsComplete` also need the order of the steps to stay as it is: the
walk continues by order, so an administrator who reorders steps under a waiting
request makes it visit a step again. `PendingIsVisible` needs the kinds of
steps to stay. `SomeActiveAdmin` is about the users service; `update_employee`
can deactivate the account of the last super admin.

### Fairness

Two liveness properties are checked.

`CheckOutReleases`: after a check-out the card is given back. It assumes weak
fairness of `Proceed(w)`, the steps by which a thread that began to serve a
request goes on with it. A thread of the pool is not suspended for ever, and
the run excludes lost hooks (`MayCrash`), since the code does not repair them.

`PublishesEnd`: every publish task that was scheduled ends. It assumes weak
fairness of the step of the event loop (`NoticeFairness`): the loop keeps
running, and an awaited send completes or raises. New connections and closing
ones are not fair, so the property does not count on them.

Nothing is assumed of users: no request has to be decided, and a request whose
approver's account is deactivated waits.

## Proofs

`tlapm` checks every proof, for every value of the constants that satisfies the
named assumptions of the modules; TLC evaluates those on every run. "Serial"
theorems speak of requests that do not overlap. Where a module has a mode for
that, the property has it as its antecedent and the theorem needs no
hypothesis. The request engine and the temporary cards have none: there the
hypothesis is `OneWorker`, or `OneAtATime` which also excludes lost hooks
(`~MayCrash`). Both are what `request_serial` and `badge_serial` run with, and
`request_rejected` and `badge_two_cards` show what becomes of them otherwise.

| module | theorem | statement | argument |
|---|---|---|---|
| `RequestWorkflowProofs` | `WorkflowInvariant` | `WorkflowInv`, overlapping decisions and step updates; that steps are well configured holds until two updates of one step mix | inductive invariant, below |
| | `NobodyDecidesOwnRequest`, `DecisionsByAssignees`, `DutiesAreNotified` | the safety properties of `request_overlap` | conjuncts of `WorkflowInv` |
| | `SerialInvariant` | `WorkflowInv /\ SerialInv`, one worker, any edits | inductive invariant, below |
| | `PendingRequestsAreVisible` | `PendingInv`, one worker; edits leave order and kind alone | from `SerialInv` and `OnlyAllowedEdits` |
| | `ApprovedWentThroughAll` | `ApprovedIsComplete`, one worker | from `SerialInv` |
| | `RejectionsAreFinal` | `RejectedStaysRejected`, one worker | a session loaded a waiting row, which is still as it was |
| | `EngineImplementsLifecycle` | `ImplementsLifecycle`, one worker; edits leave the order alone | one step simulation per action |
| `ApproverCasesProofs` | `AssigneeOutranks`, `RequiredSkipsUpward`, `NearestIsChosen` | the promises of `approver_cases` for every directory | case analysis of `Outcome` and `Candidate` |
| | `NobodyIsLeftOut` | `HierarchyIsWhole` for every directory of finitely many accounts | least counterexamples, below |
| | `CasesAreDecided` | the four of them together, as invariants of the specification the run checks | the cases are typed directories (`CasesAreTyped`) |
| `DirectorySessionsProofs` | `DirectoryInvariant`, `AccountsAndProfilesInStep`, `SomeAdminRemains` | `DirectoryInv`, `ActivitySynced`, `SomeActiveAdmin`, with the antecedents these state | one invariant, `SessionsInv` |
| `TempBadgeProofs` | `HandledRequestsAreBacked`, `ScansAndLoansMatch` | `HandledIsBacked`, `ScansMatchLoans`, overlap and lost hooks | `OverlapInv` |
| | `LoansInOrder` | `LoanInv`, one worker, no lost hook | `SerialInv` |
| `WorkplaceProofs` | `AttachmentsAndFilesAgree`, `FeedHoldsForViewers` | `AttachmentInv`, `FeedInv` | `FilesInv`, `FeedHolds` |
| | `ConversationsStayTogether`, `RecipientsAreServed` | `ConversationInv`, `RecipientInv` | `MessagesHold` |
| | `ObjectivesAndResults`, `ResultsMeetObjectives` | `PerfInv`, `ResultMeetsObjective` | `PerfHolds` |
| | `FormsAndAnswersFit`, `LeaveIsMeasured` | `FormInv`, `LeaveInv` | `FormsHold` |
| | `NoticesAreDelivered` | `DeliveryInv` | `NoticesHold` |
| | `OpenTasksAreFound` | `TaskInv` | ranks in the order of the list, below |
| | `AttendanceHolds`, `ReportsMatchScans`, `CardsStayWithOwners` | `AttendanceInv`, `ReportsAddUp`, `CardsKeepTheirOwner` | `AttendanceIInv` |
| `PlatformProofs` | `LimiterInvariant`, `LimiterHoldsLimit`, `LimiterDeniesOnlyWhenFull` | the limit holds, and refusals are deserved | below |
| | `LoginsHold` | `LoginInv` | sessions hold what they loaded, below |
| | `BuildsAndOriginsHold` | `BuildInv` | the newest build is active, so it is the largest active id |
| | `GrantsAreReplaced`, `CatalogIsRestored`, `AccessHolds` | `PermissionsReplaced`, `CatalogRestored`, and with types and progress `AccessInv` | `SetupTyped`, `GrantsBacked`, `CatalogBacked`, `WizardBacked`, below |
| | `InstallationIsComplete` | `InstallsComplete`, serial, whatever steps broke off | `PeopleBacked` and `ReviewsHold`, below |
| | `DashboardAgrees` | `DashInv` for every company and question | counts by key add up, below |
| `MigrationProofs` | `SchemaHolds` | `SchemaInv`, for any codes, titles and starts | `SchemaIInv`, below |

In all that speak of steps the question is the same: a handler decides on what
it read and commits later, so the property itself is not inductive, and the
invariant has to say of every session what is still true of what it read. Two
kinds of facts survive the commits of others: those about what is never taken
back (histories, scans, notifications, the account of a token), which is what
holds under overlap, and those that speak of a session without rivals, which is
what holds serially. A commit sends changed columns only (`Updated`,
`Flushed`), so under overlap the row it leaves is a mixture of the loaded and
the present one, and each column has to be shown good from both sources.

*Request engine, overlap.* `SessionsCurrent`: the request a session loaded
still has the same requester, the actor was its approver when it was loaded, is
not the requester, and appears as an assignee in the history. `RowsOwned` says
the same of rows. History and notifications only grow, so both survive.
`StepsConfigured` says of every step an editor is about to write that kind,
resolver and title fit, and of the stored ones the same until two updates of
one step mix (`edited` has "mixed"): a commit by an editor whose loaded
configuration is still the stored one leaves exactly what was validated. The
conclusions about decisions do not need it, since a resolution is `Outcome` of
whatever step it meets. That an assignment goes to
somebody other than the requester is `AssignedIsSuperior` of the resolution,
cited for every commit.

*Request engine, serial.* `SerialInv`: a session holds its row as it is
(`SessionsFresh`), the columns of a row fit its status (`RowsCoherent`), orders
of steps are distinct, a request in progress waits on an approver step, the
steps it has settled come before that one, and no active step before it was
left out. `WalkFacts` says of the walk in closed form what the loop does: where
it stops, and that it passes everything before. Each conjunct names the edits
it does not survive (`edited`); the theorem about views excludes changes of
order and kind, which the hazards describe. The refinement maps a step of the
engine to a step of `RequestLifecycle` by what it settles.

*Directory.* `SessionsAligned` says of the writes pending in every session, for
the row they will meet, that they set the two flags of an account and its
profile together, or the account's while there is no profile and none can come.
An update sets the two together if the two rows it loaded agree, whichever
moments they are from; where they do not, it sends one column only, the account
is in `torn` from then on, and nothing is claimed of it. So `ProfilesInStep`
survives any overlap. Serially the loaded row is still the stored one when the
second is read, so nothing is ever torn. `SerialSessions` says, for serial
modes, that the tables are in order before and after the pending writes:
active teams in active departments and, without the employees service, an
active super admin.

*Organigram.* Induction on numbers is done here by least counterexamples
(`LeastNat`, from the well-foundedness of the naturals). `ForestGrows` gives the
recursive definition of the company forest a value. Whoever is no root has a
level above, a nearest one, and on it a best-ranked person (`ParentIsNearest`).
If somebody were not in the forest, take one with fewest people above: the
parent has fewer, so is in it, and so is who hangs there (`ForestIsPeople`).
The table of accounts being finite is an assumption, `UsersAreFinite`.

*Temporary cards.* `OverlapInv`: the writes of every session agree with the
request and the card they were made for (`SessionsFit`); assignments are never
removed and never change hands (`Grown`). `SerialInv` adds that a card is out
exactly while one assignment on it is active, that this assignment is of an
approved request, that a used one has its check-out, and that what the session
under way leaves keeps all that (`KeepsOrder`).

*Attendance.* `LoadedScan` and `TimesShown`: the times of a loaded row and of a
stored one were scanned, and scans stay. `UpToDate`: a session without rivals
holds the present row, the present totals, or the absence of a card.
`DaysSummed`: a row's times are extremes of the scans of the day
(`Extremes`), so that one more scan only needs a comparison (`ScanExtends`);
`SumsAreReference` turns that into the reference with its minima, maxima and
largest number of whole minutes (`WholeMinutes`). Totals then equal those of
the scans, since the days and the rows do (`TotalsAreReference`). Reports count
minutes as pairs of a day and a minute, which needs no recursive sum.

*Announcements, messages, performance, forms.* `FilesInv` says of an upload or
removal under way what it has in hand, which is what keeps "no file left
behind" true between the two stores. `FeedHolds` carries the mode's one session.
`MessagesHold` adds to the conversations who is still to be told by a request
under way (`Notified`). `PerfHolds` replaces the count of active objectives by
uniqueness (`AtMostOneActive`). `FormsHold` keeps with a submission that it met
the rules it was measured by (`LeaveMeasured`), and `NormalIs` says that what
the normalisation stores it would store again, so a stored value goes on
fitting whatever form is shown later.

*Notifications.* `NoticesHold` relates four queues by one order, that of
publication (`Precedes`): what a peer received comes before what a task is
sending to it, that before what later tasks send, and all of it before what is
still to start. A task holds sockets of its recipient only, each once, and what
it found stale is closed for good (`TasksFit`), so that dropping it from a list
cannot drop a socket whose peer is there (`ListsFit`).

*Rate limiter.* `LimitHolds` compares stamps of accepted requests far apart.
The inductive invariant adds that stamps are in order (`Ordered`) and that the
stamps the bucket has forgotten are at least a window old (`ForgottenAreOld`).
When a request is accepted, fewer than the limit are held, so among the last
`MaxRequests` stamps one is forgotten; it and everything before it is old.

*Logins.* What holds under overlap rests on what never changes: a token keeps
its account, device and login, so a session that loaded it may renew it later
(`LoadedToken`). What holds without overlap rests on there being one session
(`Current`): the token it renews is still good and is spent with the commit, and
the row it writes is the row it loaded but for the change. Counting is replaced
by uniqueness (`GoodTokenUnique`), and `Descent` keeps a new login apart from
all earlier ones.

*Scanner app.* A session deactivates builds it saw, which are older than the
one it adds; so the newest stays active (`NewestIsActive`). An origin it does
not add was stored when it looked, and stays (`SessionsHold`).

*Permissions and setup.* `SetupTyped` gives types, one request at a time in
serial modes, and that units once there are never removed; the four others rest
on it. `GrantsBacked`: what an assignment under way will write and delete.
Under overlap the later commit still leaves everything it asked for, since a
conflict with an earlier one undoes it; without, what it read is what there is.
`CatalogBacked`: ids remembered for codes are of rows with those codes until
somebody edits them, and a seeding under way has all codes before the present
one on active rows of their own, so that a remembered id cannot take the row of
another code. `WizardBacked` (serial): units and employees are remembered all
or not at all, and each commit of a step either rewrites remembered rows with
the same kind, parent and role or adds new ones, so breaking off between any
two commits leaves the old progress true. Overlap breaks that: of two
organization steps that share the code of a team the later save moves the team
to its department, whichever progress is persisted last. What survives is
`PeopleBacked`: nobody changes the title of an employee, and the employees a
state remembers are different ones, which is one half of what
`InstallsComplete` needs. The other half is `ReviewsHold`: while requests do
not overlap, what the review found is still so when the progress is loaded
again and when it is committed. With overlap it need not be, and the property
says nothing then. `InstallsComplete` also rests on `WizardSeedsItsTitles`, an
assumption: the titles the wizard gives are among those it seeds.

*Tasks.* The page of a list holds, at place `i`, the task with `i - 1` before it
(`Rank`). The order is strict and total on the tasks (`ListedInOrder`), so the
ranks of `n` tasks are distinct and all of `0..n-1` are taken: every place of a
page has its task (`RanksAreTaken`). What is overdue comes before the rest, so
it has the first ranks (`FirstRanks`).

*Dashboard.* A sum counts pairs of a key and a place in its count (`Sum`),
which needs no recursion. If every item has its key among the rows and each row
counts its class, numbering the classes is a bijection from the pairs to the
items (`CountsAddUp`); every breakdown is an instance. So is the trend if the
database gives every request the date it has in UTC. If it does not, the two
differ by a day at most (the type of a company), so a request from strictly
between the ends of a range is found under some date of it, and the trend
counts at least these. Totals of a period add up day by day (`SumOfSums`).
`DashInv` then follows from the types of the tables alone, which must be finite
(`TablesAreFinite`).

*Migrations.* `SchemaIInv` says that whatever is applied has what it depends on
applied (`Closed`) and that, unless `create_all` ran before its time
(`strayed`), the schema is the union of what the applied revisions make
(`Shape`), except for the contract columns: two revisions make them, and
between the two they may be gone (`Fits`). `SchemaInv` alone is not inductive:
while these columns may be gone it does not say what the schema is, so nothing
follows for the one the next revision leaves. Every part gets a rank, ten times
its revision plus its place in the script (`Rank`). Each of the scripts is
compared with the ranks once (`UpFits`, `DownFits`); from there on the argument
compares ranks only. An operation refers to parts of a lower rank, which
earlier revisions or earlier operations made, and what it makes is new, so it
applies; what refers to the parts of a revision that none follows has a higher
rank, so that nothing is there, and the revision can be taken back. A run of a
script and an upgrade are recursive functions, which least counterexamples give
their values (`RunGrows`). `PermissionsKept` covers the permission rows in the
same transactions: titles have permitted codes only, also in strayed schemas,
because `1f30147b4dea` drops the table of grants before that of the
permissions. One revision is left out of "reverts", `a1b2c3d4e5f6`, where
`migration_rollback` shows the failure.

### Model-checked only

* `CheckOutReleases` and `PublishesEnd`: liveness, beyond the prover here.
* `SeededRolesWork`: it compares the grants of the seeded roles with the guards
  of the routes, entry by entry of the tables of `PermissionCatalog`. They are
  data, `SeededRolesWork` holds of these and would not of others, and TLC
  evaluates all of them.
* The four statements that the code violates.

## What the code does besides

Translating the code met some behaviour that a document, a test or a reader
might not expect. The models contain it unless marked with a star; no run is
spent on it.

* *Requests.* A step whose approver job title was deactivated is an error even
  if it is optional (`docs/apps/requests.md` line 68). Nothing reassigns a
  request whose approver's account is deactivated. The leave balance is checked
  at submission and never booked.
* *Temporary cards.* Two overlapping approvals lend one card twice
  (`src/tests/test_attendance_nfc.py` line 413). An assignment whose date has
  passed is not closed unless the card is scanned or released.
* *Workflow steps.* Two updates of one step that overlap send the columns each
  changed (`requests/service.py` lines 343 to 399), and may leave a combination
  that `_validate_step_configuration` refuses, such as a conception
  step with a resolver. The walk treats such a step by its kind.
* *Organization.* Updates through the users service or of a team leave an
  employee in a team of another department (`UpdateUserWrites`,
  `UpdateTeamWrites`). A super admin or RH manager who is a root is not shown
  the own subtree, and a leader without a team hangs under the manager twice
  over.
* *Accounts.* An update of an account or a profile that reads one of the two
  rows before and the other after a commit that (de)activates both sends one
  column only and leaves the account inactive with an active profile, or the
  reverse (`users/service.py` lines 107 and 108, `employees/service.py` lines
  155 and 156, whose docstring promises to "keep the linked user account
  synchronized"). `update_user` may clear `must_change_password` with a
  password somebody else chose, or with none at all, which leaves a temporary
  password in use without the duty to change it (`src/README.md` line 291: it
  "stays `true` until the user changes the password"). A reset does not revoke
  refresh tokens. A reset that overlaps a change of password loses the flag,
  and overlapping renewals leave a login with two good tokens.
* *Permissions.* Effective permissions ignore whether the job title is active
  (`docs/apps/permissions.md` line 33). Deactivating a canonical code does not
  revoke a grant of its legacy code. The endpoint "Migrate permissions to
  canonical codes" (`setup/router.py` line 439) may fail its first transaction
  when legacy rows exist, and grants other codes than the role matrix.
* *Setup.* A step for operational users that broke off refuses, when it is done
  again, the accounts it created itself (`docs/apps/setup.md` line 83 "updates
  existing records when possible"). A step that races with the completion
  writes after the lock. The completion commits although a grant that its
  review found was replaced in the meantime.
* *Messages.* A reply upward is refused to somebody with
  `messages.send_same_or_down` who was written to. A message to oneself stays
  unread.
* *Announcements.* Two overlapping updates mix their columns, so a schedule may
  come out that neither of them asked for.
* *Tasks.* Status and priority sort as strings: done tasks take the place of
  open ones in the mobile summary, which asks for eight of all, and "high"
  comes last. "in_progress" is never set.
* *Performance.* Overlapping activations leave two active objectives, after
  which results are refused.
* *Scanner app.* Overlapping generations leave several builds active; of two
  that add one origin the second fails. `list_allowed_origins` calls
  `model_dump` on a row of the database* (`scanner_app/router.py` line 123).
* *Dashboard.* With one date given, totals are unbounded on the other side
  while the trend covers seven days. Asked for a department, the pages count
  employees of it whose team is of another one, and leave that team out.
  The cards count requests between UTC midnights, while the trend takes dates
  from the database: in the time zone of its session on PostgreSQL, and as
  strings on SQLite, the default of `DATABASE_URL` (`app/core/config.py` line
  99), where the lookup by date finds nothing and the trend shows zeros.
* *Migrations.* PostgreSQL-only statements keep `alembic upgrade head` from
  running on SQLite* (`src/README.md` lines 59 to 66). The entrypoint goes on
  after a failed migration, and `create_all` makes tables that pending
  revisions then fail to create (`strayed`). Downgrades delete permission rows
  with all grants of them.

## What is not modelled

Names, texts, passwords and personal data; HTTP, routing and response
building; the pages of the setup wizard. The permission check in front of each
handler is data (`PermissionCatalog`) and not a guard of the other modules,
whose callers are therefore any account the service itself lets through.
Uniqueness checks of codes and identities only make a handler fail without a
write and are therefore no step. Access tokens (JWT) carry no state of the
server. The clock of the rate limiter does not step backwards. A pool of
temporary cards is given: no service creates one. The check-in hook writes an
attendance id that nothing reads. Message templates are texts a user keeps.
The recent lists and rates of the dashboard are display. Configuration,
logging, middleware and uploads are wiring and I/O without state of their own.

## Plan

Done: the components of the table above but the last, each with its overlaps
and failures; the abstract lifecycle of a request; proofs for every module but
the data of `PermissionCatalog`.

What is left, in the order of its worth:

1. `RequestSystem`: request engine and directory sessions composed with several
   requests at once. `RequestWorkflow` has the writes of the directory as single
   steps; the composition would let a directory session span a decision.
2. The notices of messages and requests in one module with `Notices`, so that
   "told" reaches the socket.
3. Message templates, and a run of the wizard with overlapping steps, which the
   theorems cover and `platform` does not.
