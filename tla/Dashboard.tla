----------------------------- MODULE Dashboard -----------------------------
(***************************************************************************)
(* The dashboard: read-only aggregates over the tables of the other        *)
(* services, each computed by queries of its own, in the scope of the      *)
(* caller.  A run starts in a company that the other services can produce  *)
(* and asks one question of it; the invariants compare the answers.        *)
(*                                                                         *)
(* An answer counts rows; the lists of recent items, names and the         *)
(* rounding of rates are left out.                                         *)
(***************************************************************************)
EXTENDS Sessions, FiniteSets

CONSTANTS
  Staff,        \* employees, each with a user account of the same name
  Guest,        \* a user without an employee profile
  Squads,       \* teams
  Divisions,    \* departments
  Cards,        \* requests
  DashDays,     \* dates
  Companies     \* what the tables hold

ASSUME GuestIsNoStaff == Guest \notin Staff
ASSUME TablesAreFinite == IsFiniteSet(Staff) /\ IsFiniteSet(Cards)
ASSUME DashDaysAreAnInterval == \E a, b \in 0..100 : DashDays = a..b

AttStatuses == {"present", "incomplete", "leave", "absent"}
ReqStatuses == {"in_progress", "approved", "rejected"}
(* day is the date of a request's submission in UTC, dbDay the date the    *)
(* database gives it, on PostgreSQL in the time zone of the session.       *)
Company == [database: {"postgresql", "sqlite"},
            staff: [Staff -> [squad: Maybe(Squads), division: Maybe(Divisions), active: BOOLEAN,
                              title: STRING, gender: Maybe(STRING), contract: STRING]],
            squad: [Squads -> [division: Divisions, leader: Maybe(Staff \cup {Guest}), active: BOOLEAN]],
            division: [Divisions -> [active: BOOLEAN]],
            attended: [Staff -> [DashDays -> Maybe(AttStatuses)]],
            request: [Cards -> [requester: Staff, approver: Maybe(Staff), status: ReqStatuses,
                                type: STRING, day: Nat, dbDay: Nat]],
            performed: [Squads -> [DashDays -> Maybe(Nat)]]]

ASSUME CompaniesAreTyped == \A c \in Companies : c \in Company
ASSUME ZonesAreWithinADay ==
  \A c \in Companies, x \in Cards :
    c.request[x].dbDay <= c.request[x].day + 1 /\ c.request[x].day <= c.request[x].dbDay + 1

VARIABLES
  company,   \* one of Companies, fixed at the start
  query      \* who asks, with full access or not, which filters, which dates, or None

dashVars == <<company, query>>

-----------------------------------------------------------------------------
(* _build_scope: the caller, what the caller leads, and the filters.  Full *)
(* access is that of super admins and of dashboard.manage.                 *)

OwnSquad(q) == IF q.user \in Staff THEN company.staff[q.user].squad ELSE None
OwnDivision(q) == IF q.user \in Staff THEN company.staff[q.user].division ELSE None
LedSquads(q) == {s \in Squads : company.squad[s].leader = q.user}
LedDivisions(q) == {company.squad[s].division : s \in LedSquads(q)}

Authorized(q) ==
  /\ (q.squad # None /\ q.division # None) => company.squad[q.squad].division = q.division
  /\ (~q.full /\ q.squad # None) => q.squad \in LedSquads(q) \cup {OwnSquad(q)}
  /\ (~q.full /\ q.division # None) => q.division \in LedDivisions(q) \cup {OwnDivision(q)}

(* _validate_date_range                                                    *)
Dated(q) == (q.from # None /\ q.to # None) => q.from <= q.to

-----------------------------------------------------------------------------
(* Employees                                                               *)

(* _build_employee_query_conditions                                        *)
Filtered(q, e) ==
  /\ q.squad # None => company.staff[e].squad = q.squad
  /\ q.division # None => company.staff[e].division = q.division

(* Mutant: whoever may ask for a team sees all of it.                      *)
SeesSquad(q, e) ==
  q.full \/ company.staff[e].squad \in LedSquads(q) \cup ({q.squad} \ {None}) \/ e = q.user

(* _build_employee_visibility_condition                                    *)
Sees(q, e) == q.full \/ company.staff[e].squad \in LedSquads(q) \/ e = q.user

Employees(q) == {e \in Staff : Sees(q, e) /\ Filtered(q, e)}
Active(q) == {e \in Employees(q) : company.staff[e].active}

(* get_employees_summary: a row per value, with the number of employees.   *)
(* Outer joins keep those without a department or team, the query by       *)
(* gender leaves out those without one.                                    *)
Breakdown(q, column) ==
  [v \in {company.staff[e][column] : e \in Employees(q)} |->
     Cardinality({e \in Employees(q) : company.staff[e][column] = v})]

ByDivision(q) == Breakdown(q, "division")

(* Grouped by team and by the department of the employee.                  *)
BySquad(q) ==
  LET Row(e) == <<company.staff[e].squad, company.staff[e].division>>
  IN  [r \in {Row(e) : e \in Employees(q)} |-> Cardinality({e \in Employees(q) : Row(e) = r})]

ByGender(q) ==
  LET rows == Breakdown(q, "gender")
  IN  [g \in DOMAIN rows \ {None} |-> rows[g]]

(* The sum of the rows: each counts as many pairs as its number says.      *)
Sum(rows) == Cardinality(UNION {{v} \X (1..rows[v]) : v \in DOMAIN rows})

-----------------------------------------------------------------------------
(* Attendance                                                              *)

(* _get_attendance_status_counts_for_range                                 *)
WithStatus(q, day, status) == {e \in Active(q) : company.attended[e][day] = status}

(* _build_attendance_overview, and a point of _build_attendance_daily_     *)
(* points: who is not accounted for is absent.                             *)
Overview(q, day) ==
  LET Count(status) == Cardinality(WithStatus(q, day, status))
      rest == Cardinality(Active(q)) - Count("present") - Count("incomplete") - Count("leave")
  IN  [present |-> Count("present"), incomplete |-> Count("incomplete"), leave |-> Count("leave"),
       absent |-> IF rest < 0 THEN 0 ELSE rest]

(* get_attendance_summary: the last seven days unless dates are given.     *)
AttendanceDays(q, today) ==
  LET to == IF q.to # None THEN q.to ELSE today
  IN  {d \in DashDays : (IF q.from # None THEN q.from ELSE to - 6) <= d /\ d <= to}

TotalOf(q, today, column) ==
  Sum([d \in AttendanceDays(q, today) |-> Overview(q, d)[column]])

-----------------------------------------------------------------------------
(* Departments and teams                                                   *)

ViewerSquads(q) == LedSquads(q) \cup ({OwnSquad(q)} \ {None})
ViewerDivisions(q) == LedDivisions(q) \cup ({OwnDivision(q)} \ {None})

(* A team filter stands for its department.                                *)
DivisionAsked(q) ==
  IF q.division # None THEN q.division
  ELSE IF q.squad # None THEN company.squad[q.squad].division ELSE None

(* _get_visible_department_count                                           *)
DivisionsCounted(q) ==
  LET visible == IF q.full THEN Divisions ELSE ViewerDivisions(q)
  IN  IF DivisionAsked(q) = None THEN visible ELSE visible \cap {DivisionAsked(q)}

SquadFiltered(q, s) ==
  /\ q.squad # None => s = q.squad
  /\ q.division # None => company.squad[s].division = q.division

(* _get_visible_team_count                                                 *)
SquadsCounted(q) ==
  {s \in IF q.full THEN Squads ELSE ViewerSquads(q) : SquadFiltered(q, s)}

(* _get_organization_counts, for the cards of the company page: teams ...  *)
OrganizationSquads(q) ==
  LET mine == {s \in ViewerSquads(q) : SquadFiltered(q, s)}
  IN  {s \in Squads : SquadFiltered(q, s) /\ (q.full \/ s \in mine)}

(* ... departments ...                                                     *)
OrganizationDivisions(q) ==
  {d \in Divisions :
     /\ DivisionAsked(q) # None => d = DivisionAsked(q)
     /\ q.full \/ d \in ViewerDivisions(q)}

(* ... and the job titles that somebody in scope has.                      *)
OrganizationTitles(q) == {company.staff[e].title : e \in Employees(q)}

-----------------------------------------------------------------------------
(* Requests                                                                *)

(* _build_request_visibility_condition                                     *)
SeesRequest(q, r) ==
  \/ Sees(q, r.requester)
  \/ r.requester = q.user
  \/ r.approver = q.user

(* _build_submitted_at_conditions: from the first instant of a day to the  *)
(* first one after the other, in UTC.                                      *)
SubmittedIn(q, r) ==
  /\ q.from # None => q.from <= r.day
  /\ q.to # None => r.day < q.to + 1

RequestsCounted(q) ==
  {c \in Cards : LET r == company.request[c] IN
                 SeesRequest(q, r) /\ Filtered(q, r.requester) /\ SubmittedIn(q, r)}

RequestsBy(q, column) ==
  [v \in {company.request[c][column] : c \in RequestsCounted(q)} |->
     Cardinality({c \in RequestsCounted(q) : company.request[c][column] = v})]

(* The requests found under a date of the trend: by the date the database  *)
(* gives them, which from SQLite is a string that equals no date.          *)
ShownOn(q, d) ==
  {c \in Cards : LET r == company.request[c] IN
     /\ company.database = "postgresql"
     /\ SeesRequest(q, r) /\ Filtered(q, r.requester) /\ r.dbDay = d}

(* _get_request_trend: the number of requests of each day, the last seven  *)
(* days unless dates are given.                                            *)
Trend(q, today) ==
  LET to == IF q.to # None THEN q.to ELSE today
      from == IF q.from # None THEN q.from ELSE to - 6
  IN  [d \in {x \in DashDays : from <= x /\ x <= to} |-> Cardinality(ShownOn(q, d))]

-----------------------------------------------------------------------------
(* Performance                                                             *)

(* _authorize_performance_scope                                            *)
PerformanceAuthorized(q) == q.full \/ q.squad = None \/ q.squad \in LedSquads(q)

(* get_performance_summary                                                 *)
PerformanceRows(q, day) ==
  {s \in Squads : company.performed[s][day] # None /\ SquadFiltered(q, s)
                    /\ (q.full \/ s \in LedSquads(q))}

(* _build_performance_overview                                             *)
OverviewRows(q, day) ==
  IF ~q.full /\ LedSquads(q) = {} THEN {}
  ELSE {s \in Squads : company.performed[s][day] # None /\ SquadFiltered(q, s)
                         /\ (q.full \/ s \in LedSquads(q))}

-----------------------------------------------------------------------------
Question == [user: Staff \cup {Guest}, full: BOOLEAN, squad: Maybe(Squads), division: Maybe(Divisions),
             from: Maybe(DashDays), to: Maybe(DashDays)]

DashInit == company \in Companies /\ query = None

OpenPage ==
  /\ query = None
  /\ \E q \in Question : Authorized(q) /\ Dated(q) /\ query' = q
  /\ UNCHANGED company

DashNext == OpenPage

DashSpec == DashInit /\ [][DashNext]_dashVars

-----------------------------------------------------------------------------
DashTypeOK == company \in Companies /\ query \in Maybe(Question)

(* Every active employee in scope is counted once a day, as present,       *)
(* incomplete, on leave or absent, also when people have left since, and   *)
(* the totals of a period are those of its days.                           *)
AttendanceAddsUp ==
  query # None => \A today \in DashDays :
    /\ LET o == Overview(query, today) IN
       o.present + o.incomplete + o.leave + o.absent = Cardinality(Active(query))
    /\ TotalOf(query, today, "present") + TotalOf(query, today, "incomplete")
         + TotalOf(query, today, "leave") + TotalOf(query, today, "absent")
       = Cardinality(Active(query)) * Cardinality(AttendanceDays(query, today))

(* Each breakdown of the employees accounts for everybody, with a          *)
(* department and a team or without.                                       *)
BreakdownsAddUp ==
  query # None =>
    LET total == Cardinality(Employees(query)) IN
    /\ Sum(ByDivision(query)) = total /\ Sum(BySquad(query)) = total
    /\ Sum(Breakdown(query, "title")) = total /\ Sum(Breakdown(query, "contract")) = total
    /\ Sum(ByGender(query)) <= total

(* The overview and the company page, which count departments and teams by *)
(* different queries, agree, and the team of whoever is counted is counted *)
(* unless a department is asked for and the team is of another one.        *)
PagesAgree ==
  query # None =>
    /\ Cardinality(DivisionsCounted(query)) = Cardinality(OrganizationDivisions(query))
    /\ Cardinality(SquadsCounted(query)) = Cardinality(OrganizationSquads(query))
    /\ \A e \in Employees(query) :
         LET s == company.staff[e].squad IN
         s # None /\ (query.division # None => company.squad[s].division = query.division)
           => s \in SquadsCounted(query)

(* Requests by status and by type add up to the same number.  The trend of *)
(* a range of dates, which takes the dates of requests from the database,  *)
(* leaves out none that was submitted between its first and its last day,  *)
(* and adds up to the same number if the database counts days in UTC as    *)
(* the cards do; this on PostgreSQL.                                       *)
RequestCountsAgree ==
  query # None =>
    /\ Sum(RequestsBy(query, "status")) = Sum(RequestsBy(query, "type"))
    /\ (query.from # None /\ query.to # None /\ company.database = "postgresql") =>
         \A today \in DashDays :
           LET shown == Sum(Trend(query, today))
               within == {c \in RequestsCounted(query) : /\ query.from < company.request[c].day
                                                         /\ company.request[c].day < query.to}
           IN  /\ Cardinality(within) <= shown
               /\ (\A c \in Cards : company.request[c].dbDay = company.request[c].day) =>
                    shown = Sum(RequestsBy(query, "status"))

(* The overview and the performance page report the same teams to everyone *)
(* who may see the page.                                                   *)
PerformancePagesAgree ==
  (query # None /\ PerformanceAuthorized(query)) =>
    \A day \in DashDays : OverviewRows(query, day) = PerformanceRows(query, day)

(* Whoever has no full access counts only themselves, the people of the    *)
(* teams they lead, and the requests of these or waiting on them, whatever *)
(* filter was accepted.                                                    *)
ScopeIsConfined ==
  (query # None /\ ~query.full) =>
    LET mine == {query.user} \cup {e \in Staff : \E s \in Squads :
                  company.staff[e].squad = s /\ company.squad[s].leader = query.user}
    IN  /\ Employees(query) \subseteq mine
        /\ \A c \in RequestsCounted(query) :
             company.request[c].requester \in mine \/ company.request[c].approver = query.user

(* Every pair of numbers that counts the same thing agrees, for whoever    *)
(* asks and whatever the filter.                                           *)
DashInv ==
  /\ DashTypeOK
  /\ AttendanceAddsUp
  /\ BreakdownsAddUp
  /\ PagesAgree
  /\ RequestCountsAgree
  /\ PerformancePagesAgree
  /\ ScopeIsConfined

=============================================================================
