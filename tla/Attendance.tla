----------------------------- MODULE Attendance -----------------------------
(***************************************************************************)
(* Attendance of employees with permanent NFC cards: raw scans, the daily  *)
(* summary each scan updates, the monthly reports generated from the       *)
(* summaries, and the assignment of cards.  Scans with temporary cards are *)
(* resolved in TempBadge and ingested in the same way.                     *)
(*                                                                         *)
(* Time is counted in ticks of UTC.  A scanner sends a timestamp with its  *)
(* own offset: the scan counts for the scanner's date, and its instant is  *)
(* stored.  No service sets a summary to leave or deactivates a card.      *)
(***************************************************************************)
EXTENDS Sessions, FiniteSetsExt, Functions

CONSTANTS
  People,          \* employees
  Uids,            \* NFC identifiers, compared stripped and in upper case
  LastInstant,     \* bound on the instants of scans
  Offsets,         \* UTC offsets of the scanners, in ticks
  DayLength,       \* ticks per day
  MinuteLength,    \* ticks per minute
  MonthLength,     \* days per month
  AttModes         \* operations a run uses, whether they overlap, who is active, the
                   \* bound on the number of scans

ASSUME NoneIsNobody == None \notin People
ASSUME ClockIsNat ==
  /\ LastInstant \in Nat /\ Offsets \subseteq Nat /\ IsFiniteSet(Offsets)
  /\ DayLength \in Nat \ {0} /\ MinuteLength \in Nat \ {0} /\ MonthLength \in Nat \ {0}

AttServices == {"scans", "cards", "reports", "activation"}
ASSUME AttModesAreTyped ==
  AttModes \subseteq
    [serial: BOOLEAN, ops: SUBSET AttServices, staff: SUBSET People, scans: Nat]

VARIABLES
  attMode,      \* one of AttModes, fixed at the start
  working,      \* employees.is_active
  permanent,    \* nfc_cards of type PERMANENT: the employee of a UID, or None
  rawScans,     \* attendance_raw_scan_events
  summary,      \* attendance_daily_summaries, or None
  report,       \* attendance_monthly_reports, or None
  attSession    \* what a worker is about to commit, or None

attVars == <<attMode, working, permanent, rawScans, summary, report, attSession>>

Instants == 0..LastInstant
DayOf(at, offset) == (at + offset) \div DayLength
AttDays == {DayOf(at, offset) : at \in Instants, offset \in Offsets}
MonthOf(d) == d \div MonthLength
Months == {MonthOf(d) : d \in AttDays}

RawScan == [employee: People, type: {"IN", "OUT"}, at: Instants, day: AttDays]
SummaryRow == [first: Maybe(Instants), last: Maybe(Instants), worked: Maybe(Nat),
               status: {"present", "incomplete", "absent", "leave"}]
ASSUME NoneIsNoSummary == None \notin SummaryRow
ReportRow == [workedDays: Nat, minutes: Nat, present: Nat, absent: Nat, leave: Nat]
ASSUME NoneIsNoReport == None \notin ReportRow

-----------------------------------------------------------------------------
(* _get_or_create_daily_summary, _apply_scan_to_daily_summary              *)

Blank == [first |-> None, last |-> None, worked |-> None, status |-> "absent"]

(* Mutant: the duration is rounded up.                                     *)
WorkedRoundedUp(first, last) ==
  IF first = None \/ last = None THEN None
  ELSE IF last < first THEN None
  ELSE (last - first + MinuteLength - 1) \div MinuteLength

(* Whole minutes from the first check-in to the last check-out, unknown    *)
(* when one is missing or they are in the wrong order.                     *)
Worked(first, last) ==
  IF first = None \/ last = None THEN None
  ELSE IF last < first THEN None
  ELSE (last - first) \div MinuteLength

DerivedStatus(s) ==
  IF s.first # None THEN "present"
  ELSE IF s.last # None THEN "incomplete"
  ELSE IF s.status = "leave" THEN "leave"
  ELSE "absent"

(* The earliest check-in and the latest check-out count, in whatever order *)
(* the scans arrive.                                                       *)
Stamped(s, type, at) ==
  CASE type = "IN" /\ (IF s.first = None THEN TRUE ELSE at < s.first) -> [s EXCEPT !.first = at]
    [] type = "OUT" /\ (IF s.last = None THEN TRUE ELSE at > s.last) -> [s EXCEPT !.last = at]
    [] OTHER -> s

Scanned(s, type, at) ==
  LET t == [Stamped(s, type, at) EXCEPT !.worked = Worked(Stamped(s, type, at).first,
                                                          Stamped(s, type, at).last)]
  IN  [t EXCEPT !.status = DerivedStatus(t)]

-----------------------------------------------------------------------------
(* Scans                                                                   *)

AttBegin(w, s) ==
  /\ MayServe(attSession, w, attMode.serial)
  /\ attSession' = [attSession EXCEPT ![w] = s]
  /\ UNCHANGED <<attMode, working, permanent, rawScans, summary, report>>

AttFinish(w) == attSession' = [attSession EXCEPT ![w] = None]

LoadAttScan(w, p) ==
  \E at \in Instants, offset \in Offsets, type \in {"IN", "OUT"} :
    LET day == DayOf(at, offset) IN
    AttBegin(w, [kind |-> "scan", loaded |-> summary[p][day],
                 scan |-> [employee |-> p, type |-> type, at |-> at, day |-> day]])

(* ingest_scan_event: by the matricule of an active employee.              *)
IngestScan(w) == \E p \in People : working[p] /\ LoadAttScan(w, p)

(* ingest_nfc_scan_event with a permanent card of an active employee.      *)
IngestNfcScan(w) ==
  \E u \in Uids : permanent[u] # None /\ working[permanent[u]] /\ LoadAttScan(w, permanent[u])

(* The summary was created by another scan after this one looked for it:   *)
(* the unique constraint refuses the insert, and the scan is lost with it. *)
SummaryAppeared(x) == x.loaded = None /\ summary[x.scan.employee][x.scan.day] # None

CommitRawScan(w) ==
  LET x == attSession[w]
      s == x.scan
      base == IF x.loaded = None THEN Blank ELSE x.loaded
      new == Scanned(base, s.type, s.at)
  IN  /\ x # None /\ x.kind = "scan"
      /\ ~SummaryAppeared(x)
      /\ Cardinality(rawScans) < attMode.scans
      /\ rawScans' = rawScans \cup {s}
      /\ summary' = [summary EXCEPT ![s.employee][s.day] =
                       IF x.loaded = None THEN new ELSE Flushed(@, x.loaded, new)]
      /\ AttFinish(w)
      /\ UNCHANGED <<attMode, working, permanent, report>>

RefuseRawScan(w) ==
  LET x == attSession[w] IN
  /\ x # None /\ x.kind = "scan" /\ SummaryAppeared(x)
  /\ AttFinish(w)
  /\ UNCHANGED <<attMode, working, permanent, rawScans, summary, report>>

-----------------------------------------------------------------------------
(* Permanent cards: assign_nfc_card                                        *)

CardsOf(p) == {u \in Uids : permanent[u] = p}

(* An unknown card, for an active employee without one.  A card that the   *)
(* employee has already is returned without a write.                       *)
MayReceive(p, u) == working[p] /\ permanent[u] = None /\ CardsOf(p) = {}

AssignNfcCard(w) ==
  \E p \in People, u \in Uids :
    MayReceive(p, u) /\ AttBegin(w, [kind |-> "card", employee |-> p, uid |-> u])

(* Mutant: the last one to commit gets the card.                           *)
LastOwner(current, p) == p

(* The identifier is unique: the second insert of one is refused.          *)
Owner(current, p) == IF current = None THEN p ELSE current

CommitCard(w) ==
  LET x == attSession[w] IN
  /\ x # None /\ x.kind = "card"
  /\ permanent' = [permanent EXCEPT ![x.uid] = Owner(@, x.employee)]
  /\ AttFinish(w)
  /\ UNCHANGED <<attMode, working, rawScans, summary, report>>

-----------------------------------------------------------------------------
(* Monthly reports: generate_monthly_reports                               *)

(* Mutant: the first day of the next month counts as well.                 *)
SummariesWithNext(p, m) ==
  {d \in AttDays : m * MonthLength <= d /\ d <= (m + 1) * MonthLength /\ summary[p][d] # None}

SummariesOf(p, m) == {d \in AttDays : MonthOf(d) = m /\ summary[p][d] # None}

Minutes(worked) == IF worked = None THEN 0 ELSE worked

(* _aggregate_monthly_totals: every whole minute of every day counts once. *)
Totals(p, m) ==
  LET days == SummariesOf(p, m)
      With(status) == Cardinality({d \in days : summary[p][d].status = status})
  IN  [workedDays |-> Cardinality({d \in days : summary[p][d].worked # None}),
       minutes |-> Cardinality(UNION {{d} \X (1..Minutes(summary[p][d].worked)) : d \in days}),
       present |-> With("present"), absent |-> With("absent"), leave |-> With("leave")]

(* For one employee or for all of them, the inactive ones on demand.       *)
ReportTargets == {{p} : p \in People} \cup {People} \cup {{p \in People : working[p]}}

GenerateReports(w) ==
  \E m \in Months, targets \in ReportTargets \ {{}} :
    AttBegin(w, [kind |-> "report", month |-> m,
                 loaded |-> [p \in targets |-> report[p][m]],
                 totals |-> [p \in targets |-> Totals(p, m)]])

(* One report inserted meanwhile makes the whole batch fail.               *)
ReportAppeared(x) ==
  \E p \in DOMAIN x.loaded : x.loaded[p] = None /\ report[p][x.month] # None

CommitReports(w) ==
  LET x == attSession[w] IN
  /\ x # None /\ x.kind = "report"
  /\ report' = IF ReportAppeared(x) THEN report
               ELSE [p \in People |->
                      IF p \notin DOMAIN x.loaded THEN report[p]
                      ELSE [report[p] EXCEPT ![x.month] =
                              IF x.loaded[p] = None THEN x.totals[p]
                              ELSE Flushed(@, x.loaded[p], x.totals[p])]]
  /\ AttFinish(w)
  /\ UNCHANGED <<attMode, working, permanent, rawScans, summary>>

(* The employees service changes who is active.                            *)
ChangeActivation ==
  /\ \E p \in People : working' = [working EXCEPT ![p] = ~@]
  /\ UNCHANGED <<attMode, permanent, rawScans, summary, report, attSession>>

-----------------------------------------------------------------------------
AttInit ==
  /\ attMode \in AttModes
  /\ working = [p \in People |-> p \in attMode.staff]
  /\ permanent = [u \in Uids |-> None]
  /\ rawScans = {}
  /\ summary = [p \in People |-> [d \in AttDays |-> None]]
  /\ report = [p \in People |-> [m \in Months |-> None]]
  /\ attSession = [w \in Workers |-> None]

AttNext ==
  \/ \E w \in Workers :
       \/ "scans" \in attMode.ops /\ (IngestScan(w) \/ IngestNfcScan(w))
       \/ "cards" \in attMode.ops /\ AssignNfcCard(w)
       \/ "reports" \in attMode.ops /\ GenerateReports(w)
       \/ CommitRawScan(w) \/ RefuseRawScan(w) \/ CommitCard(w) \/ CommitReports(w)
  \/ "activation" \in attMode.ops /\ ChangeActivation

AttSpec == AttInit /\ [][AttNext]_attVars

-----------------------------------------------------------------------------
AttTypeOK ==
  /\ attMode \in AttModes
  /\ working \in [People -> BOOLEAN]
  /\ permanent \in [Uids -> Maybe(People)]
  /\ rawScans \subseteq RawScan
  /\ summary \in [People -> [AttDays -> Maybe(SummaryRow)]]
  /\ report \in [People -> [Months -> Maybe(ReportRow)]]

(* What a day's summary should say, from the scans of the day.             *)
ScansOf(p, d, type) ==
  {s.at : s \in {x \in rawScans : x.employee = p /\ x.day = d /\ x.type = type}}

Reference(p, d) ==
  LET ins == ScansOf(p, d, "IN")
      outs == ScansOf(p, d, "OUT")
      whole == IF ins = {} \/ outs = {} THEN {}
               ELSE {n \in Instants : Min(ins) + n * MinuteLength <= Max(outs)}
  IN  [first |-> IF ins = {} THEN None ELSE Min(ins),
       last |-> IF outs = {} THEN None ELSE Max(outs),
       worked |-> IF whole = {} THEN None ELSE Max(whole),
       status |-> IF ins # {} THEN "present" ELSE IF outs # {} THEN "incomplete" ELSE "absent"]

(* Scans may be ingested late and in any order: as long as they do not     *)
(* overlap, a day's summary is what all scans of the day amount to, the    *)
(* earliest check-in, the latest check-out, the whole minutes between them *)
(* (_apply_scan_to_daily_summary).                                         *)
SummaryMatchesScans ==
  attMode.serial =>
    \A p \in People, d \in AttDays :
      IF summary[p][d] = None THEN \A s \in rawScans : ~(s.employee = p /\ s.day = d)
      ELSE summary[p][d] = Reference(p, d)

(* However ingestions overlap, a summary shows no time that was not        *)
(* scanned by this person on that date in that direction, and every        *)
(* recorded scan has a summary to appear in.                               *)
SummaryFromScans ==
  /\ \A p \in People, d \in AttDays : summary[p][d] # None =>
       /\ summary[p][d].first \in Maybe(ScansOf(p, d, "IN"))
       /\ summary[p][d].last \in Maybe(ScansOf(p, d, "OUT"))
  /\ \A s \in rawScans : summary[s.employee][s.day] # None

(* Without overlap an employee has at most one card (assign_nfc_card looks *)
(* for an active one first).                                               *)
OneCardPerPerson == attMode.serial => \A p \in People : Cardinality(CardsOf(p)) <= 1

(* The daily summaries agree with the raw scans, and a person has one card. *)
AttendanceInv ==
  /\ AttTypeOK
  /\ SummaryMatchesScans /\ SummaryFromScans
  /\ OneCardPerPerson

(* A card is never handed from one employee to another, also when two      *)
(* assignments of it overlap.                                              *)
CardsKeepTheirOwner ==
  [][\A u \in Uids : permanent[u] # None => permanent'[u] = permanent[u]]_attVars

(* A report that is generated or refreshed while no scan is under way      *)
(* agrees with the raw scans of the month's days.                          *)
ReferenceTotals(p, m) ==
  LET days == {d \in AttDays : MonthOf(d) = m /\ \E s \in rawScans : s.employee = p /\ s.day = d}
      Of(d) == Reference(p, d)
  IN  [workedDays |-> Cardinality({d \in days : Of(d).worked # None}),
       minutes |-> Cardinality(UNION {{d} \X (1..Minutes(Of(d).worked)) : d \in days}),
       present |-> Cardinality({d \in days : ScansOf(p, d, "IN") # {}}),
       absent |-> 0, leave |-> 0]

ReportsAddUp ==
  [][attMode.serial => \A p \in People, m \in Months :
       report'[p][m] # report[p][m] => report'[p][m] = ReferenceTotals(p, m)]_attVars

=============================================================================
