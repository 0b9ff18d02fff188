--------------------------- MODULE MigrationProofs ---------------------------
(***************************************************************************)
(* For every set of codes and titles, and however the history is walked:   *)
(* SchemaInv.                                                              *)
(*                                                                         *)
(* The schema is the union of what the applied revisions make, except that *)
(* between the two revisions of the contract columns these may be gone.    *)
(* Every part has a rank, ten times the revision that makes it plus the    *)
(* place in its script.  The scripts are compared with the ranks once, one *)
(* revision after the other; from then on only ranks are compared.  Hence  *)
(* an operation finds what it relies on, made by earlier revisions or      *)
(* earlier in the script, and does not find what it makes; and a revision  *)
(* that none follows can be taken back, because what refers to its parts   *)
(* has a higher rank.                                                      *)
(***************************************************************************)
EXTENDS Migrations, WellFoundedInduction, TLAPS

-----------------------------------------------------------------------------

(* Every nonempty set of naturals has a least element.                     *)
LEMMA LeastNat ==
  ASSUME NEW S, S \subseteq Nat, S # {}
  PROVE  \E x \in S : \A y \in S : x <= y
<1> DEFINE R == OpToRel(<, Nat)
<1>1. PICK x \in S : \A y \in S : ~(<<y, x>> \in R)
  <2>. HIDE DEF R
  <2>1. IsWellFoundedOn(R, Nat)
    BY NatLessThanWellFounded DEF R
  <2>. QED  BY <2>1, WFMin
<1>2. \A y \in S : ~(y < x)
  BY <1>1 DEF OpToRel
<1>. QED  BY <1>2

-----------------------------------------------------------------------------
(* The walk through a script, and the walk through the history             *)

(* What an operation makes of what the ones before it left.                *)
Stepped(d, o) == IF d = Failure \/ ~Applies(d, o) THEN Failure ELSE After(d, o)
IsRun(f, db, script, n) ==
  /\ DOMAIN f = 0..n /\ f[0] = db
  /\ \A i \in 1..n : f[i] = Stepped(f[i - 1], script[i])

(* The recursive definition of a run has a value.                          *)
LEMMA RunGrows ==
  ASSUME NEW db, NEW script, NEW N \in Nat
  PROVE  \E f : IsRun(f, db, script, N)
<1> DEFINE Bad == {n \in Nat : ~ \E f : IsRun(f, db, script, n)}
<1> SUFFICES ASSUME N \in Bad  PROVE FALSE
  OBVIOUS
<1>1. PICK m \in Bad : \A k \in Bad : m <= k
  BY LeastNat
<1>2. m \in Nat /\ ~ \E f : IsRun(f, db, script, m)
  BY <1>1
<1>3. CASE m = 0
  <2>1. PICK f : f = [i \in 0..0 |-> db]
    OBVIOUS
  <2>2. IsRun(f, db, script, 0)
    BY <2>1 DEF IsRun
  <2>. QED  BY <1>2, <1>3, <2>2
<1>4. CASE m # 0
  <2>1. m - 1 \in Nat /\ m - 1 \notin Bad
    BY <1>1, <1>2, <1>4
  <2>2. PICK f : IsRun(f, db, script, m - 1)
    BY <2>1
  <2>3. PICK g : g = [i \in 0..m |-> IF i = m THEN Stepped(f[m - 1], script[m]) ELSE f[i]]
    OBVIOUS
  <2>4. DOMAIN g = 0..m /\ g[0] = db
    BY <1>2, <1>4, <2>2, <2>3 DEF IsRun
  <2>5. \A i \in 1..m : g[i] = Stepped(g[i - 1], script[i])
    <3>1. ASSUME NEW i \in 1..m  PROVE g[i] = Stepped(g[i - 1], script[i])
      <4>1. i - 1 \in 0..m /\ i - 1 # m /\ g[i - 1] = f[i - 1]
        BY <1>2, <2>3, <3>1
      <4>2. CASE i = m
        BY <1>2, <2>3, <4>1, <4>2
      <4>3. CASE i # m
        <5>1. i \in 1..(m - 1) /\ g[i] = f[i]
          BY <1>2, <2>3, <4>3
        <5>. QED  BY <2>2, <4>1, <5>1 DEF IsRun
      <4>. QED  BY <4>2, <4>3
    <3>. QED  BY <3>1
  <2>6. IsRun(g, db, script, m)
    BY <2>4, <2>5 DEF IsRun
  <2>. QED  BY <1>2, <2>6
<1>. QED  BY <1>3, <1>4

(* What a script makes of a database is the end of such a walk.            *)
LEMMA RunIs ==
  ASSUME NEW db, NEW script, NEW N \in Nat, N = Len(script)
  PROVE  \E f : IsRun(f, db, script, N) /\ Ran(db, script) = f[N]
<1> DEFINE Body(f) == [i \in 0..N |-> IF i = 0 THEN db
                                      ELSE IF f[i - 1] = Failure \/ ~Applies(f[i - 1], script[i])
                                           THEN Failure ELSE After(f[i - 1], script[i])]
<1>1. PICK f : IsRun(f, db, script, N)
  BY RunGrows
<1>2. PICK g : g = [n \in 0..N |-> f[n]]
  OBVIOUS
<1>3. g = Body(g)
  <2>1. \A n \in 0..N : g[n] = IF n = 0 THEN db ELSE Stepped(g[n - 1], script[n])
    <3>1. ASSUME NEW n \in 0..N, n # 0
          PROVE  g[n] = Stepped(g[n - 1], script[n])
      <4>1. n \in 1..N /\ n - 1 \in 0..N
        BY <3>1
      <4>. QED  BY <1>1, <1>2, <4>1 DEF IsRun
    <3>2. g[0] = db
      BY <1>1, <1>2 DEF IsRun
    <3>. QED  BY <3>1, <3>2
  <2>. QED  BY <1>2, <2>1 DEF Stepped
<1>4. PICK h : h = CHOOSE x : x = Body(x)
  OBVIOUS
<1>5. h = Body(h)
  <2>. HIDE DEF Body
  <2>. QED  BY <1>3, <1>4
<1>6. Ran(db, script) = h[N]
  BY <1>4 DEF Ran
<1>7. IsRun(h, db, script, N)
  <2>1. DOMAIN h = 0..N
    BY <1>5
  <2>2. \A n \in 0..N : h[n] = IF n = 0 THEN db ELSE Stepped(h[n - 1], script[n])
    BY <1>5 DEF Stepped
  <2>. QED  BY <2>1, <2>2 DEF IsRun
<1>. QED  BY <1>6, <1>7

(* What a revision makes of what the ones before it left, if it is one of  *)
(* those to apply.                                                         *)
Renewed(d, r, ids) ==
  IF r.id \notin ids THEN d ELSE IF d = Failure THEN Failure ELSE Ran(d, r.up)
IsUpgrade(f, db, ids, n) ==
  /\ DOMAIN f = 0..n /\ f[0] = db
  /\ \A i \in 1..n : f[i] = Renewed(f[i - 1], History[i], ids)

(* The recursive definition of an upgrade has a value.                     *)
LEMMA UpgradeGrows ==
  ASSUME NEW db, NEW ids, NEW N \in Nat
  PROVE  \E f : IsUpgrade(f, db, ids, N)
<1> DEFINE Bad == {n \in Nat : ~ \E f : IsUpgrade(f, db, ids, n)}
<1> SUFFICES ASSUME N \in Bad  PROVE FALSE
  OBVIOUS
<1>1. PICK m \in Bad : \A k \in Bad : m <= k
  BY LeastNat
<1>2. m \in Nat /\ ~ \E f : IsUpgrade(f, db, ids, m)
  BY <1>1
<1>3. CASE m = 0
  <2>1. PICK f : f = [i \in 0..0 |-> db]
    OBVIOUS
  <2>2. IsUpgrade(f, db, ids, 0)
    BY <2>1 DEF IsUpgrade
  <2>. QED  BY <1>2, <1>3, <2>2
<1>4. CASE m # 0
  <2>1. m - 1 \in Nat /\ m - 1 \notin Bad
    BY <1>1, <1>2, <1>4
  <2>2. PICK f : IsUpgrade(f, db, ids, m - 1)
    BY <2>1
  <2>3. PICK g : g = [i \in 0..m |-> IF i = m THEN Renewed(f[m - 1], History[m], ids) ELSE f[i]]
    OBVIOUS
  <2>4. DOMAIN g = 0..m /\ g[0] = db
    BY <1>2, <1>4, <2>2, <2>3 DEF IsUpgrade
  <2>5. \A i \in 1..m : g[i] = Renewed(g[i - 1], History[i], ids)
    <3>1. ASSUME NEW i \in 1..m  PROVE g[i] = Renewed(g[i - 1], History[i], ids)
      <4>1. i - 1 \in 0..m /\ i - 1 # m /\ g[i - 1] = f[i - 1]
        BY <1>2, <2>3, <3>1
      <4>2. CASE i = m
        BY <1>2, <2>3, <4>1, <4>2
      <4>3. CASE i # m
        <5>1. i \in 1..(m - 1) /\ g[i] = f[i]
          BY <1>2, <2>3, <4>3
        <5>. QED  BY <2>2, <4>1, <5>1 DEF IsUpgrade
      <4>. QED  BY <4>2, <4>3
    <3>. QED  BY <3>1
  <2>6. IsUpgrade(g, db, ids, m)
    BY <2>4, <2>5 DEF IsUpgrade
  <2>. QED  BY <1>2, <2>6
<1>. QED  BY <1>3, <1>4

(* An upgrade is the end of such a walk.                                   *)
LEMMA UpgradeIs ==
  ASSUME NEW db, NEW ids, NEW N \in Nat, N = Len(History)
  PROVE  \E f : IsUpgrade(f, db, ids, N) /\ Upgraded(db, ids) = f[N]
<1> DEFINE Body(f) == [i \in 0..N |-> IF i = 0 THEN db
                                      ELSE IF History[i].id \notin ids THEN f[i - 1]
                                      ELSE IF f[i - 1] = Failure THEN Failure
                                      ELSE Ran(f[i - 1], History[i].up)]
<1>1. PICK f : IsUpgrade(f, db, ids, N)
  BY UpgradeGrows
<1>2. PICK g : g = [n \in 0..N |-> f[n]]
  OBVIOUS
<1>3. g = Body(g)
  <2>1. \A n \in 0..N : g[n] = IF n = 0 THEN db ELSE Renewed(g[n - 1], History[n], ids)
    <3>1. ASSUME NEW n \in 0..N, n # 0
          PROVE  g[n] = Renewed(g[n - 1], History[n], ids)
      <4>1. n \in 1..N /\ n - 1 \in 0..N
        BY <3>1
      <4>. QED  BY <1>1, <1>2, <4>1 DEF IsUpgrade
    <3>2. g[0] = db
      BY <1>1, <1>2 DEF IsUpgrade
    <3>. QED  BY <3>1, <3>2
  <2>. QED  BY <1>2, <2>1 DEF Renewed
<1>4. PICK h : h = CHOOSE x : x = Body(x)
  OBVIOUS
<1>5. h = Body(h)
  <2>. HIDE DEF Body
  <2>. QED  BY <1>3, <1>4
<1>6. Upgraded(db, ids) = h[N]
  BY <1>4 DEF Upgraded
<1>7. IsUpgrade(h, db, ids, N)
  <2>1. DOMAIN h = 0..N
    BY <1>5
  <2>2. \A n \in 0..N : h[n] = IF n = 0 THEN db ELSE Renewed(h[n - 1], History[n], ids)
    BY <1>5 DEF Renewed
  <2>. QED  BY <2>1, <2>2 DEF IsUpgrade
<1>. QED  BY <1>6, <1>7

-----------------------------------------------------------------------------
(* The history spelled out: the revisions, what they follow, their scripts.*)

Id(i) == History[i].id
Ids == 1..24

(* Its length, and its names.                                              *)
LEMMA HistoryIs ==
  /\ Len(History) = 24 /\ DOMAIN History = Ids
  /\ Id(1) = "dfccf269ad7b" /\ History[1].follows = {}
  /\ Id(2) = "845f896ebe24" /\ History[2].follows = {"dfccf269ad7b"}
  /\ Id(3) = "bfed0d9b8dbb" /\ History[3].follows = {"845f896ebe24"}
  /\ Id(4) = "1f30147b4dea" /\ History[4].follows = {"bfed0d9b8dbb"}
  /\ Id(5) = "5c8eac3602ed" /\ History[5].follows = {"1f30147b4dea"}
  /\ Id(6) = "9f6c0df7428a" /\ History[6].follows = {"5c8eac3602ed"}
  /\ Id(7) = "d2c4e6a1b9f0" /\ History[7].follows = {"9f6c0df7428a"}
  /\ Id(8) = "f3a9c1d4e2b7" /\ History[8].follows = {"d2c4e6a1b9f0"}
  /\ Id(9) = "a6b1f5d3c9e2" /\ History[9].follows = {"f3a9c1d4e2b7"}
  /\ Id(10) = "c4b7e1a2d9f0" /\ History[10].follows = {"a6b1f5d3c9e2"}
  /\ Id(11) = "d8b4e2f1a6c3" /\ History[11].follows = {"c4b7e1a2d9f0"}
  /\ Id(12) = "e1a2b3c4d5f6" /\ History[12].follows = {"d8b4e2f1a6c3"}
  /\ Id(13) = "7b4c2d1e9f0a" /\ History[13].follows = {"e1a2b3c4d5f6"}
  /\ Id(14) = "8f2c6d1a4b7e" /\ History[14].follows = {"7b4c2d1e9f0a"}
  /\ Id(15) = "0f1a2b3c4d5e" /\ History[15].follows = {"8f2c6d1a4b7e"}
  /\ Id(16) = "b7c3d9e4f1a2" /\ History[16].follows = {"8f2c6d1a4b7e"}
  /\ Id(17) = "1aa2bb3cc4dd" /\ History[17].follows = {"0f1a2b3c4d5e", "b7c3d9e4f1a2"}
  /\ Id(18) = "2d4e6f8a9b1c" /\ History[18].follows = {"1aa2bb3cc4dd"}
  /\ Id(19) = "3f7a2d1c9e0b" /\ History[19].follows = {"2d4e6f8a9b1c"}
  /\ Id(20) = "4c2f7a9b1d0e" /\ History[20].follows = {"3f7a2d1c9e0b"}
  /\ Id(21) = "a1b2c3d4e5f6" /\ History[21].follows = {"4c2f7a9b1d0e"}
  /\ Id(22) = "b6d4e8f0c2a1" /\ History[22].follows = {"a1b2c3d4e5f6"}
  /\ Id(23) = "7a8b9c0d1e2f" /\ History[23].follows = {"b6d4e8f0c2a1"}
  /\ Id(24) = "c9d8e7f6a5b4" /\ History[24].follows = {"7a8b9c0d1e2f"}
<1>1. Len(History) = 24 /\ DOMAIN History = Ids
  BY DEF History, Ids
<1>2. /\ Id(1) = "dfccf269ad7b" /\ History[1].follows = {}
      /\ Id(2) = "845f896ebe24" /\ History[2].follows = {"dfccf269ad7b"}
      /\ Id(3) = "bfed0d9b8dbb" /\ History[3].follows = {"845f896ebe24"}
      /\ Id(4) = "1f30147b4dea" /\ History[4].follows = {"bfed0d9b8dbb"}
      /\ Id(5) = "5c8eac3602ed" /\ History[5].follows = {"1f30147b4dea"}
      /\ Id(6) = "9f6c0df7428a" /\ History[6].follows = {"5c8eac3602ed"}
      /\ Id(7) = "d2c4e6a1b9f0" /\ History[7].follows = {"9f6c0df7428a"}
      /\ Id(8) = "f3a9c1d4e2b7" /\ History[8].follows = {"d2c4e6a1b9f0"}
  BY DEF Id, History, Revision, Creation, BootstrapUser, Organization, EmployeeTable,
     PermissionTables, LeaveBalance, PerformanceRevision
<1>3. /\ Id(9) = "a6b1f5d3c9e2" /\ History[9].follows = {"f3a9c1d4e2b7"}
      /\ Id(10) = "c4b7e1a2d9f0" /\ History[10].follows = {"a6b1f5d3c9e2"}
      /\ Id(11) = "d8b4e2f1a6c3" /\ History[11].follows = {"c4b7e1a2d9f0"}
      /\ Id(12) = "e1a2b3c4d5f6" /\ History[12].follows = {"d8b4e2f1a6c3"}
      /\ Id(13) = "7b4c2d1e9f0a" /\ History[13].follows = {"e1a2b3c4d5f6"}
      /\ Id(14) = "8f2c6d1a4b7e" /\ History[14].follows = {"7b4c2d1e9f0a"}
      /\ Id(15) = "0f1a2b3c4d5e" /\ History[15].follows = {"8f2c6d1a4b7e"}
      /\ Id(16) = "b7c3d9e4f1a2" /\ History[16].follows = {"8f2c6d1a4b7e"}
  BY DEF Id, History, Revision, Creation, InstallationRevision, NotificationsRevision,
     HierarchySeed, EmployeeImage, NfcCards, AssignCardSeed
<1>4. /\ Id(17) = "1aa2bb3cc4dd" /\ History[17].follows = {"0f1a2b3c4d5e", "b7c3d9e4f1a2"}
      /\ Id(18) = "2d4e6f8a9b1c" /\ History[18].follows = {"1aa2bb3cc4dd"}
      /\ Id(19) = "3f7a2d1c9e0b" /\ History[19].follows = {"2d4e6f8a9b1c"}
      /\ Id(20) = "4c2f7a9b1d0e" /\ History[20].follows = {"3f7a2d1c9e0b"}
      /\ Id(21) = "a1b2c3d4e5f6" /\ History[21].follows = {"4c2f7a9b1d0e"}
      /\ Id(22) = "b6d4e8f0c2a1" /\ History[22].follows = {"a1b2c3d4e5f6"}
      /\ Id(23) = "7a8b9c0d1e2f" /\ History[23].follows = {"b6d4e8f0c2a1"}
      /\ Id(24) = "c9d8e7f6a5b4" /\ History[24].follows = {"7a8b9c0d1e2f"}
  BY DEF Id, History, Revision, Creation, MergedHeads, MessagesRefactorSeed,
     ResolverTitle, EmployeeGender
<1>. QED  BY <1>1, <1>2, <1>3, <1>4

-----------------------------------------------------------------------------
(* When a part is made: ten times the number of the revision that makes it *)
(* first, plus the number of the operation; 0 for what no revision makes.  *)
(* Ten times the number of the revision that makes a part, and the place   *)
(* of the operation that does. What no revision makes has rank 0.          *)
Rank(t, n) ==
  IF n = "itself" THEN
    IF t = "users" THEN 11
    ELSE IF t = "job_titles" THEN 21
    ELSE IF t = "departments" THEN 22
    ELSE IF t = "teams" THEN 23
    ELSE IF t = "employees" THEN 31
    ELSE IF t = "permissions" THEN 41
    ELSE IF t = "job_title_permissions" THEN 42
    ELSE IF t = "request_types" THEN 51
    ELSE IF t = "request_type_fields" THEN 52
    ELSE IF t = "request_workflow_steps" THEN 53
    ELSE IF t = "requests" THEN 54
    ELSE IF t = "request_actions" THEN 55
    ELSE IF t = "request_field_values" THEN 56
    ELSE IF t = "attendance_raw_scan_events" THEN 71
    ELSE IF t = "attendance_daily_summaries" THEN 72
    ELSE IF t = "attendance_monthly_reports" THEN 73
    ELSE IF t = "team_objectives" THEN 81
    ELSE IF t = "team_daily_performances" THEN 82
    ELSE IF t = "installation_state" THEN 91
    ELSE IF t = "notifications" THEN 101
    ELSE IF t = "nfc_cards" THEN 131
    ELSE IF t = "messages" THEN 151
    ELSE IF t = "message_recipients" THEN 152
    ELSE IF t = "message_templates" THEN 153
    ELSE IF t = "announcements" THEN 161
    ELSE IF t = "announcement_attachments" THEN 162
    ELSE IF t = "announcement_reads" THEN 163
    ELSE IF t = "allowed_origins" THEN 191
    ELSE IF t = "scanner_app_builds" THEN 192
    ELSE IF t = "auth_refresh_token_sessions" THEN 193
    ELSE IF t = "forgot_badge_requests" THEN 214
    ELSE IF t = "temporary_nfc_assignments" THEN 215
    ELSE IF t = "employee_tasks" THEN 241
    ELSE 0
  ELSE IF t = "employees" THEN
    IF n = "available_leave_balance_days" THEN 61
    ELSE IF n = "image" THEN 121
    ELSE IF n = "contract_type" THEN 211
    ELSE IF n = "external_company_name" THEN 212
    ELSE IF n = "ix_employees_contract_type" THEN 213
    ELSE IF n = "gender" THEN 231
    ELSE 0
  ELSE IF t = "request_workflow_steps" THEN
    IF n = "resolver_job_title_id" THEN 201
    ELSE 0
  ELSE IF t = "nfc_cards" THEN
    IF n = "label" THEN 224
    ELSE IF n = "card_type" THEN 225
    ELSE IF n = "status" THEN 226
    ELSE 0
  ELSE 0

(* The parts revision i makes, and what its operations rely on.            *)
Makes(o) == o.op \in {"create", "add", "ensure"}
IsMade(up, t, n) ==
  \E k \in 1..Len(up) : Makes(up[k]) /\ up[k].part.table = t /\ up[k].part.name = n
Made(i) == {History[i].up[k].part : k \in {m \in 1..Len(History[i].up) : Makes(History[i].up[m])}}
InBand(i, x) == 10 * i < x /\ x < 10 * i + 10
Earlier(i, x) == 10 < x /\ x < 10 * i /\ ~(i = 16 /\ InBand(15, x))

OperationFits(i, k, o) ==
  \/ /\ o.op = "create" /\ o.part.name = "itself" /\ Rank(o.part.table, "itself") = 10 * i + k
     /\ \A t \in o.part.refs : \/ t = o.part.table \/ Earlier(i, Rank(t, "itself"))
                               \/ InBand(i, Rank(t, "itself")) /\ Rank(t, "itself") < 10 * i + k
  \/ /\ o.op = "add" /\ o.part.name # "itself" /\ Rank(o.part.table, o.part.name) = 10 * i + k
     /\ Earlier(i, Rank(o.part.table, "itself"))
     /\ \A t \in o.part.refs : Earlier(i, Rank(t, "itself"))
  \/ /\ o.op = "ensure" /\ i = 22 /\ o.part.name # "itself" /\ o.part.refs = {}
     /\ Rank(o.part.table, o.part.name) = IF k <= 3 THEN 210 + k ELSE 220 + k
     /\ Earlier(i, Rank(o.part.table, "itself"))
  \/ o.op = "seed" /\ i > 4

(* The operations of revision i come in order, and make every part whose   *)
(* rank says so.                                                           *)
UpFits(i) ==
  LET up == History[i].up IN
  /\ Len(up) \in 0..6 /\ DOMAIN up = 1..Len(up)
  /\ \A k \in 1..Len(up) : OperationFits(i, k, up[k])
  /\ \A t, n : InBand(i, Rank(t, n)) => IsMade(up, t, n)

(* The operations of revision i reverted undo every part it makes, a table *)
(* before the ones of the revision it may reference, and nothing made      *)
(* before, but for the columns of b6d4e8f0c2a1.                            *)
Undone(down, k, t, n) ==
  \E m \in 1..k : /\ down[m].op \in {"drop", "remove", "discard"} /\ down[m].table = t
                  /\ down[m].op = "drop" \/ down[m].name = n

ReversalFits(i, k, down) ==
  LET o == down[k] IN
  \/ /\ o.op = "drop" /\ InBand(i, Rank(o.table, "itself"))
     /\ ~Undone(down, k - 1, o.table, "itself")
     /\ \A t : InBand(i, Rank(t, "itself")) /\ Rank(o.table, "itself") < Rank(t, "itself")
               => Undone(down, k - 1, t, "itself")
  \/ /\ o.op = "remove" /\ o.name # "itself" /\ InBand(i, Rank(o.table, o.name))
     /\ ~Undone(down, k - 1, o.table, o.name)
  \/ /\ o.op = "discard" /\ i = 22 /\ o.name # "itself" /\ Rank(o.table, o.name) > 210
     /\ InBand(21, Rank(o.table, o.name)) => Rank(o.table, o.name) <= 213
     /\ Earlier(22, Rank(o.table, "itself"))
  \/ o.op = "unseed" /\ i > 4

DownFits(i) ==
  LET down == History[i].down IN
  /\ Len(down) \in 0..6 /\ DOMAIN down = 1..Len(down)
  /\ \A k \in 1..Len(down) : ReversalFits(i, k, down)
  /\ \A t, n : InBand(i, Rank(t, n)) => Undone(down, Len(down), t, n)

(* The ranks, one by one.                                                  *)
LEMMA RankIs ==
  /\ Rank("users", "itself") = 11
  /\ Rank("job_titles", "itself") = 21
  /\ Rank("departments", "itself") = 22
  /\ Rank("teams", "itself") = 23
  /\ Rank("employees", "itself") = 31
  /\ Rank("permissions", "itself") = 41
  /\ Rank("job_title_permissions", "itself") = 42
  /\ Rank("request_types", "itself") = 51
  /\ Rank("request_type_fields", "itself") = 52
  /\ Rank("request_workflow_steps", "itself") = 53
  /\ Rank("requests", "itself") = 54
  /\ Rank("request_actions", "itself") = 55
  /\ Rank("request_field_values", "itself") = 56
  /\ Rank("employees", "available_leave_balance_days") = 61
  /\ Rank("attendance_raw_scan_events", "itself") = 71
  /\ Rank("attendance_daily_summaries", "itself") = 72
  /\ Rank("attendance_monthly_reports", "itself") = 73
  /\ Rank("team_objectives", "itself") = 81
  /\ Rank("team_daily_performances", "itself") = 82
  /\ Rank("installation_state", "itself") = 91
  /\ Rank("notifications", "itself") = 101
  /\ Rank("employees", "image") = 121
  /\ Rank("nfc_cards", "itself") = 131
  /\ Rank("messages", "itself") = 151
  /\ Rank("message_recipients", "itself") = 152
  /\ Rank("message_templates", "itself") = 153
  /\ Rank("announcements", "itself") = 161
  /\ Rank("announcement_attachments", "itself") = 162
  /\ Rank("announcement_reads", "itself") = 163
  /\ Rank("allowed_origins", "itself") = 191
  /\ Rank("scanner_app_builds", "itself") = 192
  /\ Rank("auth_refresh_token_sessions", "itself") = 193
  /\ Rank("request_workflow_steps", "resolver_job_title_id") = 201
  /\ Rank("employees", "contract_type") = 211
  /\ Rank("employees", "external_company_name") = 212
  /\ Rank("employees", "ix_employees_contract_type") = 213
  /\ Rank("forgot_badge_requests", "itself") = 214
  /\ Rank("temporary_nfc_assignments", "itself") = 215
  /\ Rank("nfc_cards", "label") = 224
  /\ Rank("nfc_cards", "card_type") = 225
  /\ Rank("nfc_cards", "status") = 226
  /\ Rank("employees", "gender") = 231
  /\ Rank("employee_tasks", "itself") = 241
<1>1. /\ Rank("users", "itself") = 11
      /\ Rank("job_titles", "itself") = 21
      /\ Rank("departments", "itself") = 22
      /\ Rank("teams", "itself") = 23
      /\ Rank("employees", "itself") = 31
      /\ Rank("permissions", "itself") = 41
  BY DEF Rank
<1>2. /\ Rank("job_title_permissions", "itself") = 42
      /\ Rank("request_types", "itself") = 51
      /\ Rank("request_type_fields", "itself") = 52
      /\ Rank("request_workflow_steps", "itself") = 53
      /\ Rank("requests", "itself") = 54
      /\ Rank("request_actions", "itself") = 55
  BY DEF Rank
<1>3. /\ Rank("request_field_values", "itself") = 56
      /\ Rank("employees", "available_leave_balance_days") = 61
      /\ Rank("attendance_raw_scan_events", "itself") = 71
      /\ Rank("attendance_daily_summaries", "itself") = 72
      /\ Rank("attendance_monthly_reports", "itself") = 73
      /\ Rank("team_objectives", "itself") = 81
  BY DEF Rank
<1>4. /\ Rank("team_daily_performances", "itself") = 82
      /\ Rank("installation_state", "itself") = 91
      /\ Rank("notifications", "itself") = 101
      /\ Rank("employees", "image") = 121
      /\ Rank("nfc_cards", "itself") = 131
      /\ Rank("messages", "itself") = 151
  BY DEF Rank
<1>5. /\ Rank("message_recipients", "itself") = 152
      /\ Rank("message_templates", "itself") = 153
      /\ Rank("announcements", "itself") = 161
      /\ Rank("announcement_attachments", "itself") = 162
      /\ Rank("announcement_reads", "itself") = 163
      /\ Rank("allowed_origins", "itself") = 191
  BY DEF Rank
<1>6. /\ Rank("scanner_app_builds", "itself") = 192
      /\ Rank("auth_refresh_token_sessions", "itself") = 193
      /\ Rank("request_workflow_steps", "resolver_job_title_id") = 201
      /\ Rank("employees", "contract_type") = 211
      /\ Rank("employees", "external_company_name") = 212
      /\ Rank("employees", "ix_employees_contract_type") = 213
  BY DEF Rank
<1>7. /\ Rank("forgot_badge_requests", "itself") = 214
      /\ Rank("temporary_nfc_assignments", "itself") = 215
      /\ Rank("nfc_cards", "label") = 224
      /\ Rank("nfc_cards", "card_type") = 225
      /\ Rank("nfc_cards", "status") = 226
      /\ Rank("employees", "gender") = 231
  BY DEF Rank
<1>8. /\ Rank("employee_tasks", "itself") = 241
  BY DEF Rank
<1>. QED  BY <1>1, <1>2, <1>3, <1>4, <1>5, <1>6, <1>7, <1>8

-----------------------------------------------------------------------------
(* The revisions, one by one                                               *)

(* dfccf269ad7b makes the accounts.                                        *)
LEMMA BootstrapUserScripts ==
  /\ Len(History[1].up) = 1 /\ DOMAIN History[1].up = 1..1
  /\ History[1].up[1] = CreateTable("users", {})
  /\ Len(History[1].down) = 1 /\ DOMAIN History[1].down = 1..1
  /\ History[1].down[1] = DropTable("users")
<1>1. History[1] = BootstrapUser
  BY DEF History
<1>2. /\ Len(History[1].up) = 1 /\ DOMAIN History[1].up = 1..1
      /\ History[1].up[1] = CreateTable("users", {})
  BY <1>1 DEF Revision, BootstrapUser, Creation, Tables
<1>3. /\ Len(History[1].down) = 1 /\ DOMAIN History[1].down = 1..1
      /\ History[1].down[1] = DropTable("users")
  BY <1>1 DEF Revision, BootstrapUser, Creation, Dropped, Reverse
<1>. QED  BY <1>2, <1>3

(* What it makes is not there yet, and what it relies on is.               *)
LEMMA BootstrapUserUpFits == UpFits(1)
<1>1. \A k \in 1..1 : OperationFits(1, k, History[1].up[k])
  BY BootstrapUserScripts, RankIs DEF OperationFits, Earlier, InBand, Part, CreateTable
<1>2. ASSUME NEW t, NEW n, InBand(1, Rank(t, n))
      PROVE  \/ t = "users" /\ n = "itself"
  BY <1>2 DEF InBand, Rank
<1>3. \A t, n : InBand(1, Rank(t, n)) => IsMade(History[1].up, t, n)
  BY <1>2, BootstrapUserScripts DEF IsMade, Makes, Part, CreateTable
<1>. QED  BY <1>1, <1>3, BootstrapUserScripts DEF UpFits

(* Reverting undoes what it makes.                                         *)
LEMMA BootstrapUserDownFits == DownFits(1)
<1>1. ASSUME NEW t, NEW n, InBand(1, Rank(t, n))
      PROVE  \/ t = "users" /\ n = "itself" /\ Rank(t, n) = 11
  BY <1>1 DEF InBand, Rank
<1>2. \A k \in 1..1 : ReversalFits(1, k, History[1].down)
  BY <1>1, BootstrapUserScripts, RankIs DEF ReversalFits, Undone, Earlier, InBand, DropTable
<1>3. \A t, n : InBand(1, Rank(t, n)) => Undone(History[1].down, 1, t, n)
  BY <1>1, BootstrapUserScripts DEF Undone, DropTable
<1>. QED  BY <1>2, <1>3, BootstrapUserScripts DEF DownFits

(* 845f896ebe24 makes job titles, departments and teams.                   *)
LEMMA OrganizationScripts ==
  /\ Len(History[2].up) = 3 /\ DOMAIN History[2].up = 1..3
  /\ History[2].up[1] = CreateTable("job_titles", {})
  /\ History[2].up[2] = CreateTable("departments", {"users"})
  /\ History[2].up[3] = CreateTable("teams", {"departments", "users"})
  /\ Len(History[2].down) = 3 /\ DOMAIN History[2].down = 1..3
  /\ History[2].down[1] = DropTable("teams")
  /\ History[2].down[2] = DropTable("departments")
  /\ History[2].down[3] = DropTable("job_titles")
<1>1. History[2] = Organization
  BY DEF History
<1>2. /\ Len(History[2].up) = 3 /\ DOMAIN History[2].up = 1..3
      /\ History[2].up[1] = CreateTable("job_titles", {})
      /\ History[2].up[2] = CreateTable("departments", {"users"})
      /\ History[2].up[3] = CreateTable("teams", {"departments", "users"})
  BY <1>1 DEF Revision, Organization, Creation, Tables
<1>3. /\ Len(History[2].down) = 3 /\ DOMAIN History[2].down = 1..3
      /\ History[2].down[1] = DropTable("teams")
      /\ History[2].down[2] = DropTable("departments")
      /\ History[2].down[3] = DropTable("job_titles")
  BY <1>1 DEF Revision, Organization, Creation, Dropped, Reverse
<1>. QED  BY <1>2, <1>3

(* What it makes is not there yet, and what it relies on is.               *)
LEMMA OrganizationUpFits == UpFits(2)
<1>1. \A k \in 1..3 : OperationFits(2, k, History[2].up[k])
  BY OrganizationScripts, RankIs DEF OperationFits, Earlier, InBand, Part, CreateTable
<1>2. ASSUME NEW t, NEW n, InBand(2, Rank(t, n))
      PROVE  \/ t = "job_titles" /\ n = "itself"
             \/ t = "departments" /\ n = "itself"
             \/ t = "teams" /\ n = "itself"
  BY <1>2 DEF InBand, Rank
<1>3. \A t, n : InBand(2, Rank(t, n)) => IsMade(History[2].up, t, n)
  BY <1>2, OrganizationScripts DEF IsMade, Makes, Part, CreateTable
<1>. QED  BY <1>1, <1>3, OrganizationScripts DEF UpFits

(* Reverting undoes what it makes.                                         *)
LEMMA OrganizationDownFits == DownFits(2)
<1>1. ASSUME NEW t, NEW n, InBand(2, Rank(t, n))
      PROVE  \/ t = "job_titles" /\ n = "itself" /\ Rank(t, n) = 21
             \/ t = "departments" /\ n = "itself" /\ Rank(t, n) = 22
             \/ t = "teams" /\ n = "itself" /\ Rank(t, n) = 23
  BY <1>1 DEF InBand, Rank
<1>2. \A k \in 1..3 : ReversalFits(2, k, History[2].down)
  BY <1>1, OrganizationScripts, RankIs DEF ReversalFits, Undone, Earlier, InBand, DropTable
<1>3. \A t, n : InBand(2, Rank(t, n)) => Undone(History[2].down, 3, t, n)
  BY <1>1, OrganizationScripts DEF Undone, DropTable
<1>. QED  BY <1>2, <1>3, OrganizationScripts DEF DownFits

(* bfed0d9b8dbb makes the employees.                                       *)
LEMMA EmployeeTableScripts ==
  /\ Len(History[3].up) = 1 /\ DOMAIN History[3].up = 1..1
  /\ History[3].up[1] = CreateTable("employees",
                                    {"departments", "job_titles", "teams", "users"})
  /\ Len(History[3].down) = 1 /\ DOMAIN History[3].down = 1..1
  /\ History[3].down[1] = DropTable("employees")
<1>1. History[3] = EmployeeTable
  BY DEF History
<1>2. /\ Len(History[3].up) = 1 /\ DOMAIN History[3].up = 1..1
      /\ History[3].up[1] = CreateTable("employees",
                                        {"departments", "job_titles", "teams", "users"})
  BY <1>1 DEF Revision, EmployeeTable, Creation, Tables
<1>3. /\ Len(History[3].down) = 1 /\ DOMAIN History[3].down = 1..1
      /\ History[3].down[1] = DropTable("employees")
  BY <1>1 DEF Revision, EmployeeTable, Creation, Dropped, Reverse
<1>. QED  BY <1>2, <1>3

(* What it makes is not there yet, and what it relies on is.               *)
LEMMA EmployeeTableUpFits == UpFits(3)
<1>1. \A k \in 1..1 : OperationFits(3, k, History[3].up[k])
  BY EmployeeTableScripts, RankIs DEF OperationFits, Earlier, InBand, Part, CreateTable
<1>2. ASSUME NEW t, NEW n, InBand(3, Rank(t, n))
      PROVE  \/ t = "employees" /\ n = "itself"
  BY <1>2 DEF InBand, Rank
<1>3. \A t, n : InBand(3, Rank(t, n)) => IsMade(History[3].up, t, n)
  BY <1>2, EmployeeTableScripts DEF IsMade, Makes, Part, CreateTable
<1>. QED  BY <1>1, <1>3, EmployeeTableScripts DEF UpFits

(* Reverting undoes what it makes.                                         *)
LEMMA EmployeeTableDownFits == DownFits(3)
<1>1. ASSUME NEW t, NEW n, InBand(3, Rank(t, n))
      PROVE  \/ t = "employees" /\ n = "itself" /\ Rank(t, n) = 31
  BY <1>1 DEF InBand, Rank
<1>2. \A k \in 1..1 : ReversalFits(3, k, History[3].down)
  BY <1>1, EmployeeTableScripts, RankIs DEF ReversalFits, Undone, Earlier, InBand, DropTable
<1>3. \A t, n : InBand(3, Rank(t, n)) => Undone(History[3].down, 1, t, n)
  BY <1>1, EmployeeTableScripts DEF Undone, DropTable
<1>. QED  BY <1>2, <1>3, EmployeeTableScripts DEF DownFits

(* 1f30147b4dea makes permissions and the grants of job titles.            *)
LEMMA PermissionTablesScripts ==
  /\ Len(History[4].up) = 2 /\ DOMAIN History[4].up = 1..2
  /\ History[4].up[1] = CreateTable("permissions", {})
  /\ History[4].up[2] = CreateTable("job_title_permissions", {"job_titles", "permissions"})
  /\ Len(History[4].down) = 2 /\ DOMAIN History[4].down = 1..2
  /\ History[4].down[1] = DropTable("job_title_permissions")
  /\ History[4].down[2] = DropTable("permissions")
<1>1. History[4] = PermissionTables
  BY DEF History
<1>2. /\ Len(History[4].up) = 2 /\ DOMAIN History[4].up = 1..2
      /\ History[4].up[1] = CreateTable("permissions", {})
      /\ History[4].up[2] = CreateTable("job_title_permissions", {"job_titles", "permissions"})
  BY <1>1 DEF Revision, PermissionTables, Creation, Tables
<1>3. /\ Len(History[4].down) = 2 /\ DOMAIN History[4].down = 1..2
      /\ History[4].down[1] = DropTable("job_title_permissions")
      /\ History[4].down[2] = DropTable("permissions")
  BY <1>1 DEF Revision, PermissionTables, Creation, Dropped, Reverse
<1>. QED  BY <1>2, <1>3

(* What it makes is not there yet, and what it relies on is.               *)
LEMMA PermissionTablesUpFits == UpFits(4)
<1>1. \A k \in 1..2 : OperationFits(4, k, History[4].up[k])
  BY PermissionTablesScripts, RankIs DEF OperationFits, Earlier, InBand, Part, CreateTable
<1>2. ASSUME NEW t, NEW n, InBand(4, Rank(t, n))
      PROVE  \/ t = "permissions" /\ n = "itself"
             \/ t = "job_title_permissions" /\ n = "itself"
  BY <1>2 DEF InBand, Rank
<1>3. \A t, n : InBand(4, Rank(t, n)) => IsMade(History[4].up, t, n)
  BY <1>2, PermissionTablesScripts DEF IsMade, Makes, Part, CreateTable
<1>. QED  BY <1>1, <1>3, PermissionTablesScripts DEF UpFits

(* Reverting undoes what it makes.                                         *)
LEMMA PermissionTablesDownFits == DownFits(4)
<1>1. ASSUME NEW t, NEW n, InBand(4, Rank(t, n))
      PROVE  \/ t = "permissions" /\ n = "itself" /\ Rank(t, n) = 41
             \/ t = "job_title_permissions" /\ n = "itself" /\ Rank(t, n) = 42
  BY <1>1 DEF InBand, Rank
<1>2. \A k \in 1..2 : ReversalFits(4, k, History[4].down)
  BY <1>1, PermissionTablesScripts, RankIs DEF ReversalFits, Undone, Earlier, InBand, DropTable
<1>3. \A t, n : InBand(4, Rank(t, n)) => Undone(History[4].down, 2, t, n)
  BY <1>1, PermissionTablesScripts DEF Undone, DropTable
<1>. QED  BY <1>2, <1>3, PermissionTablesScripts DEF DownFits

(* 5c8eac3602ed makes the requests engine.                                 *)
LEMMA RequestsEngineScripts ==
  /\ Len(History[5].up) = 6 /\ DOMAIN History[5].up = 1..6
  /\ History[5].up[1] = CreateTable("request_types", {})
  /\ History[5].up[2] = CreateTable("request_type_fields", {"request_types"})
  /\ History[5].up[3] = CreateTable("request_workflow_steps", {"request_types"})
  /\ History[5].up[4] = CreateTable("requests",
                                    {"users", "request_workflow_steps", "request_types",
                                     "employees"})
  /\ History[5].up[5] = CreateTable("request_actions",
                                    {"users", "requests", "request_workflow_steps"})
  /\ History[5].up[6] = CreateTable("request_field_values", {"request_type_fields", "requests"})
  /\ Len(History[5].down) = 6 /\ DOMAIN History[5].down = 1..6
  /\ History[5].down[1] = DropTable("request_field_values")
  /\ History[5].down[2] = DropTable("request_actions")
  /\ History[5].down[3] = DropTable("requests")
  /\ History[5].down[4] = DropTable("request_workflow_steps")
  /\ History[5].down[5] = DropTable("request_type_fields")
  /\ History[5].down[6] = DropTable("request_types")
<1>1. History[5].up = RequestsEngineUp /\ History[5].down = RequestsEngineDown
  BY DEF History, Revision
<1>2. /\ Len(History[5].up) = 6 /\ DOMAIN History[5].up = 1..6
      /\ History[5].up[1] = CreateTable("request_types", {})
      /\ History[5].up[2] = CreateTable("request_type_fields", {"request_types"})
      /\ History[5].up[3] = CreateTable("request_workflow_steps", {"request_types"})
      /\ History[5].up[4] = CreateTable("requests",
                                        {"users", "request_workflow_steps", "request_types",
                                         "employees"})
      /\ History[5].up[5] = CreateTable("request_actions",
                                        {"users", "requests", "request_workflow_steps"})
      /\ History[5].up[6] = CreateTable("request_field_values",
                                        {"request_type_fields", "requests"})
  BY <1>1 DEF RequestsEngineUp, RequestTables, Tables
<1>3. /\ Len(History[5].down) = 6 /\ DOMAIN History[5].down = 1..6
      /\ History[5].down[1] = DropTable("request_field_values")
      /\ History[5].down[2] = DropTable("request_actions")
      /\ History[5].down[3] = DropTable("requests")
      /\ History[5].down[4] = DropTable("request_workflow_steps")
      /\ History[5].down[5] = DropTable("request_type_fields")
      /\ History[5].down[6] = DropTable("request_types")
  BY <1>1 DEF RequestsEngineDown, RequestTables, Dropped, Reverse
<1>. QED  BY <1>2, <1>3

(* What it makes is not there yet, and what it relies on is.               *)
LEMMA RequestsEngineUpFits == UpFits(5)
<1>1. \A k \in 1..6 : OperationFits(5, k, History[5].up[k])
  BY RequestsEngineScripts, RankIs DEF OperationFits, Earlier, InBand, Part, CreateTable
<1>2. ASSUME NEW t, NEW n, InBand(5, Rank(t, n))
      PROVE  \/ t = "request_types" /\ n = "itself"
             \/ t = "request_type_fields" /\ n = "itself"
             \/ t = "request_workflow_steps" /\ n = "itself"
             \/ t = "requests" /\ n = "itself"
             \/ t = "request_actions" /\ n = "itself"
             \/ t = "request_field_values" /\ n = "itself"
  BY <1>2 DEF InBand, Rank
<1>3. \A t, n : InBand(5, Rank(t, n)) => IsMade(History[5].up, t, n)
  BY <1>2, RequestsEngineScripts DEF IsMade, Makes, Part, CreateTable
<1>. QED  BY <1>1, <1>3, RequestsEngineScripts DEF UpFits

(* Reverting undoes what it makes.                                         *)
LEMMA RequestsEngineDownFits == DownFits(5)
<1>1. ASSUME NEW t, NEW n, InBand(5, Rank(t, n))
      PROVE  \/ t = "request_types" /\ n = "itself" /\ Rank(t, n) = 51
             \/ t = "request_type_fields" /\ n = "itself" /\ Rank(t, n) = 52
             \/ t = "request_workflow_steps" /\ n = "itself" /\ Rank(t, n) = 53
             \/ t = "requests" /\ n = "itself" /\ Rank(t, n) = 54
             \/ t = "request_actions" /\ n = "itself" /\ Rank(t, n) = 55
             \/ t = "request_field_values" /\ n = "itself" /\ Rank(t, n) = 56
  BY <1>1 DEF InBand, Rank
<1>2. \A k \in 1..6 : ReversalFits(5, k, History[5].down)
  BY <1>1, RequestsEngineScripts, RankIs DEF ReversalFits, Undone, Earlier, InBand, DropTable
<1>3. \A t, n : InBand(5, Rank(t, n)) => Undone(History[5].down, 6, t, n)
  BY <1>1, RequestsEngineScripts DEF Undone, DropTable
<1>. QED  BY <1>2, <1>3, RequestsEngineScripts DEF DownFits

(* 9f6c0df7428a adds the leave balance of an employee.                     *)
LEMMA LeaveBalanceScripts ==
  /\ Len(History[6].up) = 1 /\ DOMAIN History[6].up = 1..1
  /\ History[6].up[1] = AddPart("employees", "available_leave_balance_days")
  /\ Len(History[6].down) = 1 /\ DOMAIN History[6].down = 1..1
  /\ History[6].down[1] = RemovePart("employees", "available_leave_balance_days")
<1>1. History[6] = LeaveBalance
  BY DEF History
<1>2. /\ Len(History[6].up) = 1 /\ DOMAIN History[6].up = 1..1
      /\ History[6].up[1] = AddPart("employees", "available_leave_balance_days")
  BY <1>1 DEF Revision, LeaveBalance
<1>3. /\ Len(History[6].down) = 1 /\ DOMAIN History[6].down = 1..1
      /\ History[6].down[1] = RemovePart("employees", "available_leave_balance_days")
  BY <1>1 DEF Revision, LeaveBalance
<1>. QED  BY <1>2, <1>3

(* What it makes is not there yet, and what it relies on is.               *)
LEMMA LeaveBalanceUpFits == UpFits(6)
<1>1. \A k \in 1..1 : OperationFits(6, k, History[6].up[k])
  BY LeaveBalanceScripts, RankIs DEF OperationFits, Earlier, InBand, Part, AddPart
<1>2. ASSUME NEW t, NEW n, InBand(6, Rank(t, n))
      PROVE  \/ t = "employees" /\ n = "available_leave_balance_days"
  BY <1>2 DEF InBand, Rank
<1>3. \A t, n : InBand(6, Rank(t, n)) => IsMade(History[6].up, t, n)
  BY <1>2, LeaveBalanceScripts DEF IsMade, Makes, Part, AddPart
<1>. QED  BY <1>1, <1>3, LeaveBalanceScripts DEF UpFits

(* Reverting undoes what it makes.                                         *)
LEMMA LeaveBalanceDownFits == DownFits(6)
<1>1. ASSUME NEW t, NEW n, InBand(6, Rank(t, n))
      PROVE  \/ t = "employees" /\ n = "available_leave_balance_days" /\ Rank(t, n) = 61
  BY <1>1 DEF InBand, Rank
<1>2. \A k \in 1..1 : ReversalFits(6, k, History[6].down)
  BY <1>1, LeaveBalanceScripts, RankIs DEF ReversalFits, Undone, Earlier, InBand, RemovePart
<1>3. \A t, n : InBand(6, Rank(t, n)) => Undone(History[6].down, 1, t, n)
  BY <1>1, LeaveBalanceScripts DEF Undone, RemovePart
<1>. QED  BY <1>2, <1>3, LeaveBalanceScripts DEF DownFits

(* d2c4e6a1b9f0 makes the tables of attendance.                            *)
LEMMA AttendanceRevisionScripts ==
  /\ Len(History[7].up) = 3 /\ DOMAIN History[7].up = 1..3
  /\ History[7].up[1] = CreateTable("attendance_raw_scan_events", {"employees", "users"})
  /\ History[7].up[2] = CreateTable("attendance_daily_summaries", {"employees", "requests"})
  /\ History[7].up[3] = CreateTable("attendance_monthly_reports", {"employees"})
  /\ Len(History[7].down) = 3 /\ DOMAIN History[7].down = 1..3
  /\ History[7].down[1] = DropTable("attendance_monthly_reports")
  /\ History[7].down[2] = DropTable("attendance_daily_summaries")
  /\ History[7].down[3] = DropTable("attendance_raw_scan_events")
<1>1. History[7].up = AttendanceUp /\ History[7].down = AttendanceDown
  BY DEF History, Revision
<1>2. /\ Len(History[7].up) = 3 /\ DOMAIN History[7].up = 1..3
      /\ History[7].up[1] = CreateTable("attendance_raw_scan_events", {"employees", "users"})
      /\ History[7].up[2] = CreateTable("attendance_daily_summaries", {"employees", "requests"})
      /\ History[7].up[3] = CreateTable("attendance_monthly_reports", {"employees"})
  BY <1>1 DEF AttendanceUp, AttendanceTables, Tables
<1>3. /\ Len(History[7].down) = 3 /\ DOMAIN History[7].down = 1..3
      /\ History[7].down[1] = DropTable("attendance_monthly_reports")
      /\ History[7].down[2] = DropTable("attendance_daily_summaries")
      /\ History[7].down[3] = DropTable("attendance_raw_scan_events")
  BY <1>1 DEF AttendanceDown, AttendanceTables, Dropped, Reverse
<1>. QED  BY <1>2, <1>3

(* What it makes is not there yet, and what it relies on is.               *)
LEMMA AttendanceRevisionUpFits == UpFits(7)
<1>1. \A k \in 1..3 : OperationFits(7, k, History[7].up[k])
  BY AttendanceRevisionScripts, RankIs DEF OperationFits, Earlier, InBand, Part, CreateTable
<1>2. ASSUME NEW t, NEW n, InBand(7, Rank(t, n))
      PROVE  \/ t = "attendance_raw_scan_events" /\ n = "itself"
             \/ t = "attendance_daily_summaries" /\ n = "itself"
             \/ t = "attendance_monthly_reports" /\ n = "itself"
  BY <1>2 DEF InBand, Rank
<1>3. \A t, n : InBand(7, Rank(t, n)) => IsMade(History[7].up, t, n)
  BY <1>2, AttendanceRevisionScripts DEF IsMade, Makes, Part, CreateTable
<1>. QED  BY <1>1, <1>3, AttendanceRevisionScripts DEF UpFits

(* Reverting undoes what it makes.                                         *)
LEMMA AttendanceRevisionDownFits == DownFits(7)
<1>1. ASSUME NEW t, NEW n, InBand(7, Rank(t, n))
      PROVE  \/ t = "attendance_raw_scan_events" /\ n = "itself" /\ Rank(t, n) = 71
             \/ t = "attendance_daily_summaries" /\ n = "itself" /\ Rank(t, n) = 72
             \/ t = "attendance_monthly_reports" /\ n = "itself" /\ Rank(t, n) = 73
  BY <1>1 DEF InBand, Rank
<1>2. \A k \in 1..3 : ReversalFits(7, k, History[7].down)
  BY <1>1, AttendanceRevisionScripts, RankIs DEF ReversalFits, Undone, Earlier, InBand,
     DropTable
<1>3. \A t, n : InBand(7, Rank(t, n)) => Undone(History[7].down, 3, t, n)
  BY <1>1, AttendanceRevisionScripts DEF Undone, DropTable
<1>. QED  BY <1>2, <1>3, AttendanceRevisionScripts DEF DownFits

(* f3a9c1d4e2b7 makes those of performance.                                *)
LEMMA PerformanceRevisionScripts ==
  /\ Len(History[8].up) = 2 /\ DOMAIN History[8].up = 1..2
  /\ History[8].up[1] = CreateTable("team_objectives", {"teams"})
  /\ History[8].up[2] = CreateTable("team_daily_performances", {"users", "teams"})
  /\ Len(History[8].down) = 2 /\ DOMAIN History[8].down = 1..2
  /\ History[8].down[1] = DropTable("team_daily_performances")
  /\ History[8].down[2] = DropTable("team_objectives")
<1>1. History[8] = PerformanceRevision
  BY DEF History
<1>2. /\ Len(History[8].up) = 2 /\ DOMAIN History[8].up = 1..2
      /\ History[8].up[1] = CreateTable("team_objectives", {"teams"})
      /\ History[8].up[2] = CreateTable("team_daily_performances", {"users", "teams"})
  BY <1>1 DEF Revision, PerformanceRevision, Creation, Tables
<1>3. /\ Len(History[8].down) = 2 /\ DOMAIN History[8].down = 1..2
      /\ History[8].down[1] = DropTable("team_daily_performances")
      /\ History[8].down[2] = DropTable("team_objectives")
  BY <1>1 DEF Revision, PerformanceRevision, Creation, Dropped, Reverse
<1>. QED  BY <1>2, <1>3

(* What it makes is not there yet, and what it relies on is.               *)
LEMMA PerformanceRevisionUpFits == UpFits(8)
<1>1. \A k \in 1..2 : OperationFits(8, k, History[8].up[k])
  BY PerformanceRevisionScripts, RankIs DEF OperationFits, Earlier, InBand, Part, CreateTable
<1>2. ASSUME NEW t, NEW n, InBand(8, Rank(t, n))
      PROVE  \/ t = "team_objectives" /\ n = "itself"
             \/ t = "team_daily_performances" /\ n = "itself"
  BY <1>2 DEF InBand, Rank
<1>3. \A t, n : InBand(8, Rank(t, n)) => IsMade(History[8].up, t, n)
  BY <1>2, PerformanceRevisionScripts DEF IsMade, Makes, Part, CreateTable
<1>. QED  BY <1>1, <1>3, PerformanceRevisionScripts DEF UpFits

(* Reverting undoes what it makes.                                         *)
LEMMA PerformanceRevisionDownFits == DownFits(8)
<1>1. ASSUME NEW t, NEW n, InBand(8, Rank(t, n))
      PROVE  \/ t = "team_objectives" /\ n = "itself" /\ Rank(t, n) = 81
             \/ t = "team_daily_performances" /\ n = "itself" /\ Rank(t, n) = 82
  BY <1>1 DEF InBand, Rank
<1>2. \A k \in 1..2 : ReversalFits(8, k, History[8].down)
  BY <1>1, PerformanceRevisionScripts, RankIs DEF ReversalFits, Undone, Earlier, InBand,
     DropTable
<1>3. \A t, n : InBand(8, Rank(t, n)) => Undone(History[8].down, 2, t, n)
  BY <1>1, PerformanceRevisionScripts DEF Undone, DropTable
<1>. QED  BY <1>2, <1>3, PerformanceRevisionScripts DEF DownFits

(* a6b1f5d3c9e2 makes the state of the installation.                       *)
LEMMA InstallationRevisionScripts ==
  /\ Len(History[9].up) = 1 /\ DOMAIN History[9].up = 1..1
  /\ History[9].up[1] = CreateTable("installation_state", {"users"})
  /\ Len(History[9].down) = 1 /\ DOMAIN History[9].down = 1..1
  /\ History[9].down[1] = DropTable("installation_state")
<1>1. History[9] = InstallationRevision
  BY DEF History
<1>2. /\ Len(History[9].up) = 1 /\ DOMAIN History[9].up = 1..1
      /\ History[9].up[1] = CreateTable("installation_state", {"users"})
  BY <1>1 DEF Revision, InstallationRevision, Creation, Tables
<1>3. /\ Len(History[9].down) = 1 /\ DOMAIN History[9].down = 1..1
      /\ History[9].down[1] = DropTable("installation_state")
  BY <1>1 DEF Revision, InstallationRevision, Creation, Dropped, Reverse
<1>. QED  BY <1>2, <1>3

(* What it makes is not there yet, and what it relies on is.               *)
LEMMA InstallationRevisionUpFits == UpFits(9)
<1>1. \A k \in 1..1 : OperationFits(9, k, History[9].up[k])
  BY InstallationRevisionScripts, RankIs DEF OperationFits, Earlier, InBand, Part, CreateTable
<1>2. ASSUME NEW t, NEW n, InBand(9, Rank(t, n))
      PROVE  \/ t = "installation_state" /\ n = "itself"
  BY <1>2 DEF InBand, Rank
<1>3. \A t, n : InBand(9, Rank(t, n)) => IsMade(History[9].up, t, n)
  BY <1>2, InstallationRevisionScripts DEF IsMade, Makes, Part, CreateTable
<1>. QED  BY <1>1, <1>3, InstallationRevisionScripts DEF UpFits

(* Reverting undoes what it makes.                                         *)
LEMMA InstallationRevisionDownFits == DownFits(9)
<1>1. ASSUME NEW t, NEW n, InBand(9, Rank(t, n))
      PROVE  \/ t = "installation_state" /\ n = "itself" /\ Rank(t, n) = 91
  BY <1>1 DEF InBand, Rank
<1>2. \A k \in 1..1 : ReversalFits(9, k, History[9].down)
  BY <1>1, InstallationRevisionScripts, RankIs DEF ReversalFits, Undone, Earlier, InBand,
     DropTable
<1>3. \A t, n : InBand(9, Rank(t, n)) => Undone(History[9].down, 1, t, n)
  BY <1>1, InstallationRevisionScripts DEF Undone, DropTable
<1>. QED  BY <1>2, <1>3, InstallationRevisionScripts DEF DownFits

(* c4b7e1a2d9f0 makes the notifications.                                   *)
LEMMA NotificationsRevisionScripts ==
  /\ Len(History[10].up) = 1 /\ DOMAIN History[10].up = 1..1
  /\ History[10].up[1] = CreateTable("notifications", {"users"})
  /\ Len(History[10].down) = 1 /\ DOMAIN History[10].down = 1..1
  /\ History[10].down[1] = DropTable("notifications")
<1>1. History[10] = NotificationsRevision
  BY DEF History
<1>2. /\ Len(History[10].up) = 1 /\ DOMAIN History[10].up = 1..1
      /\ History[10].up[1] = CreateTable("notifications", {"users"})
  BY <1>1 DEF Revision, NotificationsRevision, Creation, Tables
<1>3. /\ Len(History[10].down) = 1 /\ DOMAIN History[10].down = 1..1
      /\ History[10].down[1] = DropTable("notifications")
  BY <1>1 DEF Revision, NotificationsRevision, Creation, Dropped, Reverse
<1>. QED  BY <1>2, <1>3

(* What it makes is not there yet, and what it relies on is.               *)
LEMMA NotificationsRevisionUpFits == UpFits(10)
<1>1. \A k \in 1..1 : OperationFits(10, k, History[10].up[k])
  BY NotificationsRevisionScripts, RankIs DEF OperationFits, Earlier, InBand, Part, CreateTable
<1>2. ASSUME NEW t, NEW n, InBand(10, Rank(t, n))
      PROVE  \/ t = "notifications" /\ n = "itself"
  BY <1>2 DEF InBand, Rank
<1>3. \A t, n : InBand(10, Rank(t, n)) => IsMade(History[10].up, t, n)
  BY <1>2, NotificationsRevisionScripts DEF IsMade, Makes, Part, CreateTable
<1>. QED  BY <1>1, <1>3, NotificationsRevisionScripts DEF UpFits

(* Reverting undoes what it makes.                                         *)
LEMMA NotificationsRevisionDownFits == DownFits(10)
<1>1. ASSUME NEW t, NEW n, InBand(10, Rank(t, n))
      PROVE  \/ t = "notifications" /\ n = "itself" /\ Rank(t, n) = 101
  BY <1>1 DEF InBand, Rank
<1>2. \A k \in 1..1 : ReversalFits(10, k, History[10].down)
  BY <1>1, NotificationsRevisionScripts, RankIs DEF ReversalFits, Undone, Earlier, InBand,
     DropTable
<1>3. \A t, n : InBand(10, Rank(t, n)) => Undone(History[10].down, 1, t, n)
  BY <1>1, NotificationsRevisionScripts DEF Undone, DropTable
<1>. QED  BY <1>2, <1>3, NotificationsRevisionScripts DEF DownFits

(* d8b4e2f1a6c3 seeds the permission to read the hierarchy.                *)
LEMMA HierarchySeedScripts ==
  /\ Len(History[11].up) = 1 /\ DOMAIN History[11].up = 1..1
  /\ History[11].up[1] = Seed(HierarchyPermission,
                              {"RH_MANAGER", "DEPARTMENT_MANAGER", "TEAM_LEADER"})
  /\ Len(History[11].down) = 1 /\ DOMAIN History[11].down = 1..1
  /\ History[11].down[1] = Unseed(HierarchyPermission)
<1>1. History[11] = HierarchySeed
  BY DEF History
<1>2. /\ Len(History[11].up) = 1 /\ DOMAIN History[11].up = 1..1
      /\ History[11].up[1] = Seed(HierarchyPermission,
                                  {"RH_MANAGER", "DEPARTMENT_MANAGER", "TEAM_LEADER"})
  BY <1>1 DEF Revision, HierarchySeed
<1>3. /\ Len(History[11].down) = 1 /\ DOMAIN History[11].down = 1..1
      /\ History[11].down[1] = Unseed(HierarchyPermission)
  BY <1>1 DEF Revision, HierarchySeed
<1>. QED  BY <1>2, <1>3

(* What it makes is not there yet, and what it relies on is.               *)
LEMMA HierarchySeedUpFits == UpFits(11)
<1>1. \A k \in 1..1 : OperationFits(11, k, History[11].up[k])
  BY HierarchySeedScripts, RankIs DEF OperationFits, Earlier, InBand, Part, Seed
<1>2. \A t, n : ~InBand(11, Rank(t, n))
  BY DEF InBand, Rank
<1>. QED  BY <1>1, <1>2, HierarchySeedScripts DEF UpFits

(* Reverting undoes what it makes.                                         *)
LEMMA HierarchySeedDownFits == DownFits(11)
<1>1. \A t, n : ~InBand(11, Rank(t, n))
  BY DEF InBand, Rank
<1>2. \A k \in 1..1 : ReversalFits(11, k, History[11].down)
  BY <1>1, HierarchySeedScripts, RankIs DEF ReversalFits, Undone, Earlier, InBand, Unseed
<1>. QED  BY <1>1, <1>2, HierarchySeedScripts DEF DownFits

(* e1a2b3c4d5f6 adds the image of an employee.                             *)
LEMMA EmployeeImageScripts ==
  /\ Len(History[12].up) = 1 /\ DOMAIN History[12].up = 1..1
  /\ History[12].up[1] = AddPart("employees", "image")
  /\ Len(History[12].down) = 1 /\ DOMAIN History[12].down = 1..1
  /\ History[12].down[1] = RemovePart("employees", "image")
<1>1. History[12] = EmployeeImage
  BY DEF History
<1>2. /\ Len(History[12].up) = 1 /\ DOMAIN History[12].up = 1..1
      /\ History[12].up[1] = AddPart("employees", "image")
  BY <1>1 DEF Revision, EmployeeImage
<1>3. /\ Len(History[12].down) = 1 /\ DOMAIN History[12].down = 1..1
      /\ History[12].down[1] = RemovePart("employees", "image")
  BY <1>1 DEF Revision, EmployeeImage
<1>. QED  BY <1>2, <1>3

(* What it makes is not there yet, and what it relies on is.               *)
LEMMA EmployeeImageUpFits == UpFits(12)
<1>1. \A k \in 1..1 : OperationFits(12, k, History[12].up[k])
  BY EmployeeImageScripts, RankIs DEF OperationFits, Earlier, InBand, Part, AddPart
<1>2. ASSUME NEW t, NEW n, InBand(12, Rank(t, n))
      PROVE  \/ t = "employees" /\ n = "image"
  BY <1>2 DEF InBand, Rank
<1>3. \A t, n : InBand(12, Rank(t, n)) => IsMade(History[12].up, t, n)
  BY <1>2, EmployeeImageScripts DEF IsMade, Makes, Part, AddPart
<1>. QED  BY <1>1, <1>3, EmployeeImageScripts DEF UpFits

(* Reverting undoes what it makes.                                         *)
LEMMA EmployeeImageDownFits == DownFits(12)
<1>1. ASSUME NEW t, NEW n, InBand(12, Rank(t, n))
      PROVE  \/ t = "employees" /\ n = "image" /\ Rank(t, n) = 121
  BY <1>1 DEF InBand, Rank
<1>2. \A k \in 1..1 : ReversalFits(12, k, History[12].down)
  BY <1>1, EmployeeImageScripts, RankIs DEF ReversalFits, Undone, Earlier, InBand, RemovePart
<1>3. \A t, n : InBand(12, Rank(t, n)) => Undone(History[12].down, 1, t, n)
  BY <1>1, EmployeeImageScripts DEF Undone, RemovePart
<1>. QED  BY <1>2, <1>3, EmployeeImageScripts DEF DownFits

(* 7b4c2d1e9f0a makes the NFC cards.                                       *)
LEMMA NfcCardsScripts ==
  /\ Len(History[13].up) = 1 /\ DOMAIN History[13].up = 1..1
  /\ History[13].up[1] = CreateTable("nfc_cards", {"employees"})
  /\ Len(History[13].down) = 1 /\ DOMAIN History[13].down = 1..1
  /\ History[13].down[1] = DropTable("nfc_cards")
<1>1. History[13] = NfcCards
  BY DEF History
<1>2. /\ Len(History[13].up) = 1 /\ DOMAIN History[13].up = 1..1
      /\ History[13].up[1] = CreateTable("nfc_cards", {"employees"})
  BY <1>1 DEF Revision, NfcCards, Creation, Tables
<1>3. /\ Len(History[13].down) = 1 /\ DOMAIN History[13].down = 1..1
      /\ History[13].down[1] = DropTable("nfc_cards")
  BY <1>1 DEF Revision, NfcCards, Creation, Dropped, Reverse
<1>. QED  BY <1>2, <1>3

(* What it makes is not there yet, and what it relies on is.               *)
LEMMA NfcCardsUpFits == UpFits(13)
<1>1. \A k \in 1..1 : OperationFits(13, k, History[13].up[k])
  BY NfcCardsScripts, RankIs DEF OperationFits, Earlier, InBand, Part, CreateTable
<1>2. ASSUME NEW t, NEW n, InBand(13, Rank(t, n))
      PROVE  \/ t = "nfc_cards" /\ n = "itself"
  BY <1>2 DEF InBand, Rank
<1>3. \A t, n : InBand(13, Rank(t, n)) => IsMade(History[13].up, t, n)
  BY <1>2, NfcCardsScripts DEF IsMade, Makes, Part, CreateTable
<1>. QED  BY <1>1, <1>3, NfcCardsScripts DEF UpFits

(* Reverting undoes what it makes.                                         *)
LEMMA NfcCardsDownFits == DownFits(13)
<1>1. ASSUME NEW t, NEW n, InBand(13, Rank(t, n))
      PROVE  \/ t = "nfc_cards" /\ n = "itself" /\ Rank(t, n) = 131
  BY <1>1 DEF InBand, Rank
<1>2. \A k \in 1..1 : ReversalFits(13, k, History[13].down)
  BY <1>1, NfcCardsScripts, RankIs DEF ReversalFits, Undone, Earlier, InBand, DropTable
<1>3. \A t, n : InBand(13, Rank(t, n)) => Undone(History[13].down, 1, t, n)
  BY <1>1, NfcCardsScripts DEF Undone, DropTable
<1>. QED  BY <1>2, <1>3, NfcCardsScripts DEF DownFits

(* 8f2c6d1a4b7e seeds the permission to assign them.                       *)
LEMMA AssignCardSeedScripts ==
  /\ Len(History[14].up) = 1 /\ DOMAIN History[14].up = 1..1
  /\ History[14].up[1] = Seed(AssignCardPermission, {"RH_MANAGER"})
  /\ Len(History[14].down) = 1 /\ DOMAIN History[14].down = 1..1
  /\ History[14].down[1] = Unseed(AssignCardPermission)
<1>1. History[14] = AssignCardSeed
  BY DEF History
<1>2. /\ Len(History[14].up) = 1 /\ DOMAIN History[14].up = 1..1
      /\ History[14].up[1] = Seed(AssignCardPermission, {"RH_MANAGER"})
  BY <1>1 DEF Revision, AssignCardSeed
<1>3. /\ Len(History[14].down) = 1 /\ DOMAIN History[14].down = 1..1
      /\ History[14].down[1] = Unseed(AssignCardPermission)
  BY <1>1 DEF Revision, AssignCardSeed
<1>. QED  BY <1>2, <1>3

(* What it makes is not there yet, and what it relies on is.               *)
LEMMA AssignCardSeedUpFits == UpFits(14)
<1>1. \A k \in 1..1 : OperationFits(14, k, History[14].up[k])
  BY AssignCardSeedScripts, RankIs DEF OperationFits, Earlier, InBand, Part, Seed
<1>2. \A t, n : ~InBand(14, Rank(t, n))
  BY DEF InBand, Rank
<1>. QED  BY <1>1, <1>2, AssignCardSeedScripts DEF UpFits

(* Reverting undoes what it makes.                                         *)
LEMMA AssignCardSeedDownFits == DownFits(14)
<1>1. \A t, n : ~InBand(14, Rank(t, n))
  BY DEF InBand, Rank
<1>2. \A k \in 1..1 : ReversalFits(14, k, History[14].down)
  BY <1>1, AssignCardSeedScripts, RankIs DEF ReversalFits, Undone, Earlier, InBand, Unseed
<1>. QED  BY <1>1, <1>2, AssignCardSeedScripts DEF DownFits

(* 0f1a2b3c4d5e makes the messages and seeds their permissions.            *)
LEMMA MessagesRevisionScripts ==
  /\ Len(History[15].up) = 4 /\ DOMAIN History[15].up = 1..4
  /\ History[15].up[1] = CreateTable("messages", {"users", "messages"})
  /\ History[15].up[2] = CreateTable("message_recipients", {"messages", "users"})
  /\ History[15].up[3] = CreateTable("message_templates", {"users"})
  /\ History[15].up[4] = Seed(MessagePermissions, {})
  /\ Len(History[15].down) = 4 /\ DOMAIN History[15].down = 1..4
  /\ History[15].down[1] = Unseed(MessagePermissions)
  /\ History[15].down[2] = DropTable("message_templates")
  /\ History[15].down[3] = DropTable("message_recipients")
  /\ History[15].down[4] = DropTable("messages")
<1>1. History[15].up = MessagesUp /\ History[15].down = MessagesDown
  BY DEF History, Revision
<1>2. /\ Len(History[15].up) = 4 /\ DOMAIN History[15].up = 1..4
      /\ History[15].up[1] = CreateTable("messages", {"users", "messages"})
      /\ History[15].up[2] = CreateTable("message_recipients", {"messages", "users"})
      /\ History[15].up[3] = CreateTable("message_templates", {"users"})
      /\ History[15].up[4] = Seed(MessagePermissions, {})
  BY <1>1 DEF MessagesUp, MessageTables, Tables
<1>3. /\ Len(History[15].down) = 4 /\ DOMAIN History[15].down = 1..4
      /\ History[15].down[1] = Unseed(MessagePermissions)
      /\ History[15].down[2] = DropTable("message_templates")
      /\ History[15].down[3] = DropTable("message_recipients")
      /\ History[15].down[4] = DropTable("messages")
  BY <1>1 DEF MessagesDown, MessageTables, Dropped, Reverse
<1>. QED  BY <1>2, <1>3

(* What it makes is not there yet, and what it relies on is.               *)
LEMMA MessagesRevisionUpFits == UpFits(15)
<1>1. \A k \in 1..4 : OperationFits(15, k, History[15].up[k])
  BY MessagesRevisionScripts, RankIs DEF OperationFits, Earlier, InBand, Part, CreateTable, Seed
<1>2. ASSUME NEW t, NEW n, InBand(15, Rank(t, n))
      PROVE  \/ t = "messages" /\ n = "itself"
             \/ t = "message_recipients" /\ n = "itself"
             \/ t = "message_templates" /\ n = "itself"
  BY <1>2 DEF InBand, Rank
<1>3. \A t, n : InBand(15, Rank(t, n)) => IsMade(History[15].up, t, n)
  BY <1>2, MessagesRevisionScripts DEF IsMade, Makes, Part, CreateTable
<1>. QED  BY <1>1, <1>3, MessagesRevisionScripts DEF UpFits

(* Reverting undoes what it makes.                                         *)
LEMMA MessagesRevisionDownFits == DownFits(15)
<1>1. ASSUME NEW t, NEW n, InBand(15, Rank(t, n))
      PROVE  \/ t = "messages" /\ n = "itself" /\ Rank(t, n) = 151
             \/ t = "message_recipients" /\ n = "itself" /\ Rank(t, n) = 152
             \/ t = "message_templates" /\ n = "itself" /\ Rank(t, n) = 153
  BY <1>1 DEF InBand, Rank
<1>2. \A k \in 1..4 : ReversalFits(15, k, History[15].down)
  BY <1>1, MessagesRevisionScripts, RankIs DEF ReversalFits, Undone, Earlier, InBand,
     DropTable, Unseed
<1>3. \A t, n : InBand(15, Rank(t, n)) => Undone(History[15].down, 4, t, n)
  BY <1>1, MessagesRevisionScripts DEF Undone, DropTable, Unseed
<1>. QED  BY <1>2, <1>3, MessagesRevisionScripts DEF DownFits

(* b7c3d9e4f1a2 makes the announcements and seeds their permissions.       *)
LEMMA AnnouncementsRevisionScripts ==
  /\ Len(History[16].up) = 5 /\ DOMAIN History[16].up = 1..5
  /\ History[16].up[1] = CreateTable("announcements", {"users"})
  /\ History[16].up[2] = CreateTable("announcement_attachments", {"announcements", "users"})
  /\ History[16].up[3] = CreateTable("announcement_reads", {"announcements", "users"})
  /\ History[16].up[4] = Seed({"announcements.read"},
                              {"RH_MANAGER", "DEPARTMENT_MANAGER", "TEAM_LEADER", "EMPLOYEE"})
  /\ History[16].up[5] = Seed(AnnouncementEdits, {"RH_MANAGER", "DEPARTMENT_MANAGER"})
  /\ Len(History[16].down) = 4 /\ DOMAIN History[16].down = 1..4
  /\ History[16].down[1] = Unseed({"announcements.read"} \cup AnnouncementEdits)
  /\ History[16].down[2] = DropTable("announcement_reads")
  /\ History[16].down[3] = DropTable("announcement_attachments")
  /\ History[16].down[4] = DropTable("announcements")
<1>1. History[16].up = AnnouncementsUp /\ History[16].down = AnnouncementsDown
  BY DEF History, Revision
<1>2. /\ Len(History[16].up) = 5 /\ DOMAIN History[16].up = 1..5
      /\ History[16].up[1] = CreateTable("announcements", {"users"})
      /\ History[16].up[2] = CreateTable("announcement_attachments", {"announcements", "users"})
      /\ History[16].up[3] = CreateTable("announcement_reads", {"announcements", "users"})
      /\ History[16].up[4] = Seed({"announcements.read"},
                                  {"RH_MANAGER", "DEPARTMENT_MANAGER", "TEAM_LEADER", "EMPLOYEE"})
      /\ History[16].up[5] = Seed(AnnouncementEdits, {"RH_MANAGER", "DEPARTMENT_MANAGER"})
  <2>1. PICK s : s = Tables(AnnouncementTables, [announcements |-> {"users"},
                                 announcement_attachments |-> {"announcements", "users"},
                                 announcement_reads |-> {"announcements", "users"}])
    OBVIOUS
  <2>2. s[1] = CreateTable("announcements", {"users"}) /\ Len(s) = 3
    BY <2>1 DEF Tables, AnnouncementTables
  <2>3. Len(History[16].up) = 5 /\ DOMAIN History[16].up = 1..5
    BY <1>1 DEF AnnouncementsUp, AnnouncementTables, Tables
  <2>4. History[16].up[1] = CreateTable("announcements", {"users"})
    BY <1>1, <2>1, <2>2 DEF AnnouncementsUp
  <2>5. History[16].up[2] = CreateTable("announcement_attachments", {"announcements", "users"})
    BY <1>1 DEF AnnouncementsUp, AnnouncementTables, Tables
  <2>6. History[16].up[3] = CreateTable("announcement_reads", {"announcements", "users"})
    BY <1>1 DEF AnnouncementsUp, AnnouncementTables, Tables
  <2>7. History[16].up[4] = Seed({"announcements.read"},
                                 {"RH_MANAGER", "DEPARTMENT_MANAGER", "TEAM_LEADER", "EMPLOYEE"})
    BY <1>1 DEF AnnouncementsUp, AnnouncementTables, Tables
  <2>8. History[16].up[5] = Seed(AnnouncementEdits, {"RH_MANAGER", "DEPARTMENT_MANAGER"})
    BY <1>1 DEF AnnouncementsUp, AnnouncementTables, Tables
  <2>. QED  BY <2>3, <2>4, <2>5, <2>6, <2>7, <2>8
<1>3. /\ Len(History[16].down) = 4 /\ DOMAIN History[16].down = 1..4
      /\ History[16].down[1] = Unseed({"announcements.read"} \cup AnnouncementEdits)
      /\ History[16].down[2] = DropTable("announcement_reads")
      /\ History[16].down[3] = DropTable("announcement_attachments")
      /\ History[16].down[4] = DropTable("announcements")
  BY <1>1 DEF AnnouncementsDown, AnnouncementTables, Dropped, Reverse
<1>. QED  BY <1>2, <1>3

(* What it makes is not there yet, and what it relies on is.               *)
LEMMA AnnouncementsRevisionUpFits == UpFits(16)
<1>1. \A k \in 1..5 : OperationFits(16, k, History[16].up[k])
  BY AnnouncementsRevisionScripts, RankIs DEF OperationFits, Earlier, InBand, Part,
     CreateTable, Seed
<1>2. ASSUME NEW t, NEW n, InBand(16, Rank(t, n))
      PROVE  \/ t = "announcements" /\ n = "itself"
             \/ t = "announcement_attachments" /\ n = "itself"
             \/ t = "announcement_reads" /\ n = "itself"
  BY <1>2 DEF InBand, Rank
<1>3. \A t, n : InBand(16, Rank(t, n)) => IsMade(History[16].up, t, n)
  BY <1>2, AnnouncementsRevisionScripts DEF IsMade, Makes, Part, CreateTable
<1>. QED  BY <1>1, <1>3, AnnouncementsRevisionScripts DEF UpFits

(* Reverting undoes what it makes.                                         *)
LEMMA AnnouncementsRevisionDownFits == DownFits(16)
<1>1. ASSUME NEW t, NEW n, InBand(16, Rank(t, n))
      PROVE  \/ t = "announcements" /\ n = "itself" /\ Rank(t, n) = 161
             \/ t = "announcement_attachments" /\ n = "itself" /\ Rank(t, n) = 162
             \/ t = "announcement_reads" /\ n = "itself" /\ Rank(t, n) = 163
  BY <1>1 DEF InBand, Rank
<1>2. \A k \in 1..4 : ReversalFits(16, k, History[16].down)
  BY <1>1, AnnouncementsRevisionScripts, RankIs DEF ReversalFits, Undone, Earlier, InBand,
     DropTable, Unseed
<1>3. \A t, n : InBand(16, Rank(t, n)) => Undone(History[16].down, 4, t, n)
  BY <1>1, AnnouncementsRevisionScripts DEF Undone, DropTable, Unseed
<1>. QED  BY <1>2, <1>3, AnnouncementsRevisionScripts DEF DownFits

(* 1aa2bb3cc4dd joins the two branches.                                    *)
LEMMA MergedHeadsScripts ==
  /\ Len(History[17].up) = 0 /\ DOMAIN History[17].up = {}
  /\ Len(History[17].down) = 0 /\ DOMAIN History[17].down = {}
BY DEF History, Revision, MergedHeads

(* It makes nothing.                                                       *)
LEMMA MergedHeadsUpFits == UpFits(17)
BY MergedHeadsScripts DEF UpFits, InBand, Rank

(* Reverting it undoes nothing.                                            *)
LEMMA MergedHeadsDownFits == DownFits(17)
BY MergedHeadsScripts DEF DownFits, InBand, Rank

(* 2d4e6f8a9b1c seeds the finer permissions of messages.                   *)
LEMMA MessagesRefactorSeedScripts ==
  /\ Len(History[18].up) = 1 /\ DOMAIN History[18].up = 1..1
  /\ History[18].up[1] = Seed(RefactoredMessages, {})
  /\ Len(History[18].down) = 1 /\ DOMAIN History[18].down = 1..1
  /\ History[18].down[1] = Unseed(RefactoredMessages)
<1>1. History[18] = MessagesRefactorSeed
  BY DEF History
<1>2. /\ Len(History[18].up) = 1 /\ DOMAIN History[18].up = 1..1
      /\ History[18].up[1] = Seed(RefactoredMessages, {})
  BY <1>1 DEF Revision, MessagesRefactorSeed
<1>3. /\ Len(History[18].down) = 1 /\ DOMAIN History[18].down = 1..1
      /\ History[18].down[1] = Unseed(RefactoredMessages)
  BY <1>1 DEF Revision, MessagesRefactorSeed
<1>. QED  BY <1>2, <1>3

(* What it makes is not there yet, and what it relies on is.               *)
LEMMA MessagesRefactorSeedUpFits == UpFits(18)
<1>1. \A k \in 1..1 : OperationFits(18, k, History[18].up[k])
  BY MessagesRefactorSeedScripts, RankIs DEF OperationFits, Earlier, InBand, Part, Seed
<1>2. \A t, n : ~InBand(18, Rank(t, n))
  BY DEF InBand, Rank
<1>. QED  BY <1>1, <1>2, MessagesRefactorSeedScripts DEF UpFits

(* Reverting undoes what it makes.                                         *)
LEMMA MessagesRefactorSeedDownFits == DownFits(18)
<1>1. \A t, n : ~InBand(18, Rank(t, n))
  BY DEF InBand, Rank
<1>2. \A k \in 1..1 : ReversalFits(18, k, History[18].down)
  BY <1>1, MessagesRefactorSeedScripts, RankIs DEF ReversalFits, Undone, Earlier, InBand, Unseed
<1>. QED  BY <1>1, <1>2, MessagesRefactorSeedScripts DEF DownFits

(* 3f7a2d1c9e0b makes the tables of the scanner app and seeds its          *)
(* permission.                                                             *)
LEMMA ScannerRevisionScripts ==
  /\ Len(History[19].up) = 4 /\ DOMAIN History[19].up = 1..4
  /\ History[19].up[1] = CreateTable("allowed_origins", {"users"})
  /\ History[19].up[2] = CreateTable("scanner_app_builds", {"users"})
  /\ History[19].up[3] = CreateTable("auth_refresh_token_sessions", {"users"})
  /\ History[19].up[4] = Seed({"attendance.nfc.ingest"}, {})
  /\ Len(History[19].down) = 4 /\ DOMAIN History[19].down = 1..4
  /\ History[19].down[1] = Unseed({"attendance.nfc.ingest"})
  /\ History[19].down[2] = DropTable("auth_refresh_token_sessions")
  /\ History[19].down[3] = DropTable("scanner_app_builds")
  /\ History[19].down[4] = DropTable("allowed_origins")
<1>1. History[19].up = ScannerUp /\ History[19].down = ScannerDown
  BY DEF History, Revision
<1>2. /\ Len(History[19].up) = 4 /\ DOMAIN History[19].up = 1..4
      /\ History[19].up[1] = CreateTable("allowed_origins", {"users"})
      /\ History[19].up[2] = CreateTable("scanner_app_builds", {"users"})
      /\ History[19].up[3] = CreateTable("auth_refresh_token_sessions", {"users"})
      /\ History[19].up[4] = Seed({"attendance.nfc.ingest"}, {})
  BY <1>1 DEF ScannerUp, ScannerTables, ToSet, Tables
<1>3. /\ Len(History[19].down) = 4 /\ DOMAIN History[19].down = 1..4
      /\ History[19].down[1] = Unseed({"attendance.nfc.ingest"})
      /\ History[19].down[2] = DropTable("auth_refresh_token_sessions")
      /\ History[19].down[3] = DropTable("scanner_app_builds")
      /\ History[19].down[4] = DropTable("allowed_origins")
  BY <1>1 DEF ScannerDown, ScannerTables, Dropped, Reverse
<1>. QED  BY <1>2, <1>3

(* What it makes is not there yet, and what it relies on is.               *)
LEMMA ScannerRevisionUpFits == UpFits(19)
<1>1. \A k \in 1..4 : OperationFits(19, k, History[19].up[k])
  BY ScannerRevisionScripts, RankIs DEF OperationFits, Earlier, InBand, Part, CreateTable, Seed
<1>2. ASSUME NEW t, NEW n, InBand(19, Rank(t, n))
      PROVE  \/ t = "allowed_origins" /\ n = "itself"
             \/ t = "scanner_app_builds" /\ n = "itself"
             \/ t = "auth_refresh_token_sessions" /\ n = "itself"
  BY <1>2 DEF InBand, Rank
<1>3. \A t, n : InBand(19, Rank(t, n)) => IsMade(History[19].up, t, n)
  BY <1>2, ScannerRevisionScripts DEF IsMade, Makes, Part, CreateTable
<1>. QED  BY <1>1, <1>3, ScannerRevisionScripts DEF UpFits

(* Reverting undoes what it makes.                                         *)
LEMMA ScannerRevisionDownFits == DownFits(19)
<1>1. ASSUME NEW t, NEW n, InBand(19, Rank(t, n))
      PROVE  \/ t = "allowed_origins" /\ n = "itself" /\ Rank(t, n) = 191
             \/ t = "scanner_app_builds" /\ n = "itself" /\ Rank(t, n) = 192
             \/ t = "auth_refresh_token_sessions" /\ n = "itself" /\ Rank(t, n) = 193
  BY <1>1 DEF InBand, Rank
<1>2. \A k \in 1..4 : ReversalFits(19, k, History[19].down)
  BY <1>1, ScannerRevisionScripts, RankIs DEF ReversalFits, Undone, Earlier, InBand,
     DropTable, Unseed
<1>3. \A t, n : InBand(19, Rank(t, n)) => Undone(History[19].down, 4, t, n)
  BY <1>1, ScannerRevisionScripts DEF Undone, DropTable, Unseed
<1>. QED  BY <1>2, <1>3, ScannerRevisionScripts DEF DownFits

(* 4c2f7a9b1d0e adds the job title that resolves a workflow step.          *)
LEMMA ResolverTitleScripts ==
  /\ Len(History[20].up) = 1 /\ DOMAIN History[20].up = 1..1
  /\ History[20].up[1] = AddReference
  /\ Len(History[20].down) = 1 /\ DOMAIN History[20].down = 1..1
  /\ History[20].down[1] = RemovePart("request_workflow_steps", "resolver_job_title_id")
<1>1. History[20] = ResolverTitle
  BY DEF History
<1>2. /\ Len(History[20].up) = 1 /\ DOMAIN History[20].up = 1..1
      /\ History[20].up[1] = AddReference
  BY <1>1 DEF Revision, ResolverTitle, AddReference
<1>3. /\ Len(History[20].down) = 1 /\ DOMAIN History[20].down = 1..1
      /\ History[20].down[1] = RemovePart("request_workflow_steps", "resolver_job_title_id")
  BY <1>1 DEF Revision, ResolverTitle, AddReference
<1>. QED  BY <1>2, <1>3

(* What it makes is not there yet, and what it relies on is.               *)
LEMMA ResolverTitleUpFits == UpFits(20)
<1>1. \A k \in 1..1 : OperationFits(20, k, History[20].up[k])
  BY ResolverTitleScripts, RankIs DEF OperationFits, Earlier, InBand, Part, AddReference
<1>2. ASSUME NEW t, NEW n, InBand(20, Rank(t, n))
      PROVE  \/ t = "request_workflow_steps" /\ n = "resolver_job_title_id"
  BY <1>2 DEF InBand, Rank
<1>3. \A t, n : InBand(20, Rank(t, n)) => IsMade(History[20].up, t, n)
  BY <1>2, ResolverTitleScripts DEF IsMade, Makes, Part, AddReference
<1>. QED  BY <1>1, <1>3, ResolverTitleScripts DEF UpFits

(* Reverting undoes what it makes.                                         *)
LEMMA ResolverTitleDownFits == DownFits(20)
<1>1. ASSUME NEW t, NEW n, InBand(20, Rank(t, n))
      PROVE  \/ t = "request_workflow_steps" /\ n = "resolver_job_title_id" /\ Rank(t, n) = 201
  BY <1>1 DEF InBand, Rank
<1>2. \A k \in 1..1 : ReversalFits(20, k, History[20].down)
  BY <1>1, ResolverTitleScripts, RankIs DEF ReversalFits, Undone, Earlier, InBand, RemovePart
<1>3. \A t, n : InBand(20, Rank(t, n)) => Undone(History[20].down, 1, t, n)
  BY <1>1, ResolverTitleScripts DEF Undone, RemovePart
<1>. QED  BY <1>2, <1>3, ResolverTitleScripts DEF DownFits

(* Three operations and two more.                                          *)
LEMMA ThreeAndTwo ==
  ASSUME NEW a, NEW b, NEW c, NEW x, NEW y, NEW s, s = <<a, b, c>> \o <<x, y>>
  PROVE  /\ Len(s) = 5 /\ DOMAIN s = 1..5
         /\ s[1] = a /\ s[2] = b /\ s[3] = c /\ s[4] = x /\ s[5] = y
OBVIOUS

(* a1b2c3d4e5f6 adds contracts and makes the tables of forgotten badges.   *)
LEMMA ForgotBadgeRevisionScripts ==
  /\ Len(History[21].up) = 5 /\ DOMAIN History[21].up = 1..5
  /\ History[21].up[1] = AddPart("employees", "contract_type")
  /\ History[21].up[2] = AddPart("employees", "external_company_name")
  /\ History[21].up[3] = AddPart("employees", "ix_employees_contract_type")
  /\ History[21].up[4] = CreateTable("forgot_badge_requests",
                                     {"employees", "users", "nfc_cards"})
  /\ History[21].up[5] = CreateTable("temporary_nfc_assignments",
                                     {"employees", "nfc_cards", "forgot_badge_requests",
                                      "users", "attendance_raw_scan_events"})
  /\ Len(History[21].down) = 5 /\ DOMAIN History[21].down = 1..5
  /\ History[21].down[1] = DropTable("temporary_nfc_assignments")
  /\ History[21].down[2] = DropTable("forgot_badge_requests")
  /\ History[21].down[3] = RemovePart("employees", "ix_employees_contract_type")
  /\ History[21].down[4] = RemovePart("employees", "external_company_name")
  /\ History[21].down[5] = RemovePart("employees", "contract_type")
<1>1. History[21].up = ForgotBadgeUp /\ History[21].down = ForgotBadgeDown
  BY DEF History, Revision
<1>2. /\ Len(History[21].up) = 5 /\ DOMAIN History[21].up = 1..5
      /\ History[21].up[1] = AddPart("employees", "contract_type")
      /\ History[21].up[2] = AddPart("employees", "external_company_name")
      /\ History[21].up[3] = AddPart("employees", "ix_employees_contract_type")
      /\ History[21].up[4] = CreateTable("forgot_badge_requests",
                                         {"employees", "users", "nfc_cards"})
      /\ History[21].up[5] = CreateTable("temporary_nfc_assignments",
                                         {"employees", "nfc_cards", "forgot_badge_requests",
                                          "users", "attendance_raw_scan_events"})
  <2>1. PICK refs :
          refs = [forgot_badge_requests |-> {"employees", "users", "nfc_cards"},
                  temporary_nfc_assignments |-> {"employees", "nfc_cards", "forgot_badge_requests",
                                                 "users", "attendance_raw_scan_events"}]
    OBVIOUS
  <2>2. /\ refs["forgot_badge_requests"] = {"employees", "users", "nfc_cards"}
        /\ refs["temporary_nfc_assignments"]
             = {"employees", "nfc_cards", "forgot_badge_requests",
                "users", "attendance_raw_scan_events"}
    BY <2>1
  <2>3. PICK tables : tables = Tables(BadgeTables, refs)
    OBVIOUS
  <2>4. /\ tables = <<tables[1], tables[2]>>
        /\ tables[1] = CreateTable("forgot_badge_requests", refs["forgot_badge_requests"])
        /\ tables[2] = CreateTable("temporary_nfc_assignments", refs["temporary_nfc_assignments"])
    BY <2>3 DEF Tables, BadgeTables
  <2>5. PICK a, b, c : /\ a = AddPart("employees", "contract_type")
                       /\ b = AddPart("employees", "external_company_name")
                       /\ c = AddPart("employees", "ix_employees_contract_type")
    OBVIOUS
  <2>6. History[21].up = <<a, b, c>> \o tables
    BY <1>1, <2>1, <2>3, <2>5 DEF ForgotBadgeUp
  <2>7. PICK x, y : x = tables[1] /\ y = tables[2]
    OBVIOUS
  <2>8. PICK up : up = History[21].up /\ up = <<a, b, c>> \o <<x, y>>
    BY <2>4, <2>6, <2>7
  <2>9. /\ Len(up) = 5 /\ DOMAIN up = 1..5
        /\ up[1] = a /\ up[2] = b /\ up[3] = c /\ up[4] = x /\ up[5] = y
    BY <2>8, ThreeAndTwo
  <2>10. /\ up[4] = CreateTable("forgot_badge_requests", {"employees", "users", "nfc_cards"})
         /\ up[5] = CreateTable("temporary_nfc_assignments",
                                {"employees", "nfc_cards", "forgot_badge_requests",
                                 "users", "attendance_raw_scan_events"})
    BY <2>2, <2>4, <2>7, <2>9
  <2>. QED  BY <2>5, <2>8, <2>9, <2>10, Zenon
<1>3. /\ Len(History[21].down) = 5 /\ DOMAIN History[21].down = 1..5
      /\ History[21].down[1] = DropTable("temporary_nfc_assignments")
      /\ History[21].down[2] = DropTable("forgot_badge_requests")
      /\ History[21].down[3] = RemovePart("employees", "ix_employees_contract_type")
      /\ History[21].down[4] = RemovePart("employees", "external_company_name")
      /\ History[21].down[5] = RemovePart("employees", "contract_type")
  BY <1>1 DEF ForgotBadgeDown, BadgeTables, Dropped, Reverse
<1>. QED  BY <1>2, <1>3

(* What it makes is not there yet, and what it relies on is.               *)
LEMMA ForgotBadgeRevisionUpFits == UpFits(21)
<1>1. \A k \in 1..5 : OperationFits(21, k, History[21].up[k])
  BY ForgotBadgeRevisionScripts, RankIs DEF OperationFits, Earlier, InBand, Part, AddPart,
     CreateTable
<1>2. ASSUME NEW t, NEW n, InBand(21, Rank(t, n))
      PROVE  \/ t = "employees" /\ n = "contract_type"
             \/ t = "employees" /\ n = "external_company_name"
             \/ t = "employees" /\ n = "ix_employees_contract_type"
             \/ t = "forgot_badge_requests" /\ n = "itself"
             \/ t = "temporary_nfc_assignments" /\ n = "itself"
  BY <1>2 DEF InBand, Rank
<1>3. \A t, n : InBand(21, Rank(t, n)) => IsMade(History[21].up, t, n)
  BY <1>2, ForgotBadgeRevisionScripts DEF IsMade, Makes, Part, AddPart, CreateTable
<1>. QED  BY <1>1, <1>3, ForgotBadgeRevisionScripts DEF UpFits

(* Reverting undoes what it makes.                                         *)
LEMMA ForgotBadgeRevisionDownFits == DownFits(21)
<1>1. ASSUME NEW t, NEW n, InBand(21, Rank(t, n))
      PROVE  \/ t = "employees" /\ n = "contract_type" /\ Rank(t, n) = 211
             \/ t = "employees" /\ n = "external_company_name" /\ Rank(t, n) = 212
             \/ t = "employees" /\ n = "ix_employees_contract_type" /\ Rank(t, n) = 213
             \/ t = "forgot_badge_requests" /\ n = "itself" /\ Rank(t, n) = 214
             \/ t = "temporary_nfc_assignments" /\ n = "itself" /\ Rank(t, n) = 215
  BY <1>1 DEF InBand, Rank
<1>2. \A k \in 1..5 : ReversalFits(21, k, History[21].down)
  BY <1>1, ForgotBadgeRevisionScripts, RankIs DEF ReversalFits, Undone, Earlier, InBand,
     DropTable, RemovePart
<1>3. \A t, n : InBand(21, Rank(t, n)) => Undone(History[21].down, 5, t, n)
  BY <1>1, ForgotBadgeRevisionScripts DEF Undone, DropTable, RemovePart
<1>. QED  BY <1>2, <1>3, ForgotBadgeRevisionScripts DEF DownFits

(* b6d4e8f0c2a1 adds the inventory of cards, and contracts where they are  *)
(* missing.                                                                *)
LEMMA InventoryRevisionScripts ==
  /\ Len(History[22].up) = 6 /\ DOMAIN History[22].up = 1..6
  /\ History[22].up[1] = AddPartIfMissing("employees", "contract_type")
  /\ History[22].up[2] = AddPartIfMissing("employees", "external_company_name")
  /\ History[22].up[3] = AddPartIfMissing("employees", "ix_employees_contract_type")
  /\ History[22].up[4] = AddPartIfMissing("nfc_cards", "label")
  /\ History[22].up[5] = AddPartIfMissing("nfc_cards", "card_type")
  /\ History[22].up[6] = AddPartIfMissing("nfc_cards", "status")
  /\ Len(History[22].down) = 6 /\ DOMAIN History[22].down = 1..6
  /\ History[22].down[1] = RemovePartIfThere("nfc_cards", "status")
  /\ History[22].down[2] = RemovePartIfThere("nfc_cards", "card_type")
  /\ History[22].down[3] = RemovePartIfThere("nfc_cards", "label")
  /\ History[22].down[4] = RemovePartIfThere("employees", "ix_employees_contract_type")
  /\ History[22].down[5] = RemovePartIfThere("employees", "external_company_name")
  /\ History[22].down[6] = RemovePartIfThere("employees", "contract_type")
<1>1. History[22].up = InventoryUp /\ History[22].down = InventoryDown
  BY DEF History, Revision
<1>2. /\ Len(History[22].up) = 6 /\ DOMAIN History[22].up = 1..6
      /\ History[22].up[1] = AddPartIfMissing("employees", "contract_type")
      /\ History[22].up[2] = AddPartIfMissing("employees", "external_company_name")
      /\ History[22].up[3] = AddPartIfMissing("employees", "ix_employees_contract_type")
      /\ History[22].up[4] = AddPartIfMissing("nfc_cards", "label")
      /\ History[22].up[5] = AddPartIfMissing("nfc_cards", "card_type")
      /\ History[22].up[6] = AddPartIfMissing("nfc_cards", "status")
  BY <1>1 DEF InventoryUp
<1>3. /\ Len(History[22].down) = 6 /\ DOMAIN History[22].down = 1..6
      /\ History[22].down[1] = RemovePartIfThere("nfc_cards", "status")
      /\ History[22].down[2] = RemovePartIfThere("nfc_cards", "card_type")
      /\ History[22].down[3] = RemovePartIfThere("nfc_cards", "label")
      /\ History[22].down[4] = RemovePartIfThere("employees", "ix_employees_contract_type")
      /\ History[22].down[5] = RemovePartIfThere("employees", "external_company_name")
      /\ History[22].down[6] = RemovePartIfThere("employees", "contract_type")
  BY <1>1 DEF InventoryDown
<1>. QED  BY <1>2, <1>3

(* What it makes is not there yet, and what it relies on is.               *)
LEMMA InventoryRevisionUpFits == UpFits(22)
<1>1. \A k \in 1..6 : OperationFits(22, k, History[22].up[k])
  BY InventoryRevisionScripts, RankIs DEF OperationFits, Earlier, InBand, Part, AddPartIfMissing
<1>2. ASSUME NEW t, NEW n, InBand(22, Rank(t, n))
      PROVE  \/ t = "nfc_cards" /\ n = "label"
             \/ t = "nfc_cards" /\ n = "card_type"
             \/ t = "nfc_cards" /\ n = "status"
  BY <1>2 DEF InBand, Rank
<1>3. \A t, n : InBand(22, Rank(t, n)) => IsMade(History[22].up, t, n)
  BY <1>2, InventoryRevisionScripts DEF IsMade, Makes, Part, AddPartIfMissing
<1>. QED  BY <1>1, <1>3, InventoryRevisionScripts DEF UpFits

(* Reverting undoes what it makes.                                         *)
LEMMA InventoryRevisionDownFits == DownFits(22)
<1>1. ASSUME NEW t, NEW n, InBand(22, Rank(t, n))
      PROVE  \/ t = "nfc_cards" /\ n = "label" /\ Rank(t, n) = 224
             \/ t = "nfc_cards" /\ n = "card_type" /\ Rank(t, n) = 225
             \/ t = "nfc_cards" /\ n = "status" /\ Rank(t, n) = 226
  BY <1>1 DEF InBand, Rank
<1>2. \A k \in 1..6 : ReversalFits(22, k, History[22].down)
  BY <1>1, InventoryRevisionScripts, RankIs DEF ReversalFits, Undone, Earlier, InBand,
     RemovePartIfThere
<1>3. \A t, n : InBand(22, Rank(t, n)) => Undone(History[22].down, 6, t, n)
  BY <1>1, InventoryRevisionScripts DEF Undone, RemovePartIfThere
<1>. QED  BY <1>2, <1>3, InventoryRevisionScripts DEF DownFits

(* 7a8b9c0d1e2f adds the gender of an employee.                            *)
LEMMA EmployeeGenderScripts ==
  /\ Len(History[23].up) = 1 /\ DOMAIN History[23].up = 1..1
  /\ History[23].up[1] = AddPart("employees", "gender")
  /\ Len(History[23].down) = 1 /\ DOMAIN History[23].down = 1..1
  /\ History[23].down[1] = RemovePart("employees", "gender")
<1>1. History[23] = EmployeeGender
  BY DEF History
<1>2. /\ Len(History[23].up) = 1 /\ DOMAIN History[23].up = 1..1
      /\ History[23].up[1] = AddPart("employees", "gender")
  BY <1>1 DEF Revision, EmployeeGender
<1>3. /\ Len(History[23].down) = 1 /\ DOMAIN History[23].down = 1..1
      /\ History[23].down[1] = RemovePart("employees", "gender")
  BY <1>1 DEF Revision, EmployeeGender
<1>. QED  BY <1>2, <1>3

(* What it makes is not there yet, and what it relies on is.               *)
LEMMA EmployeeGenderUpFits == UpFits(23)
<1>1. \A k \in 1..1 : OperationFits(23, k, History[23].up[k])
  BY EmployeeGenderScripts, RankIs DEF OperationFits, Earlier, InBand, Part, AddPart
<1>2. ASSUME NEW t, NEW n, InBand(23, Rank(t, n))
      PROVE  \/ t = "employees" /\ n = "gender"
  BY <1>2 DEF InBand, Rank
<1>3. \A t, n : InBand(23, Rank(t, n)) => IsMade(History[23].up, t, n)
  BY <1>2, EmployeeGenderScripts DEF IsMade, Makes, Part, AddPart
<1>. QED  BY <1>1, <1>3, EmployeeGenderScripts DEF UpFits

(* Reverting undoes what it makes.                                         *)
LEMMA EmployeeGenderDownFits == DownFits(23)
<1>1. ASSUME NEW t, NEW n, InBand(23, Rank(t, n))
      PROVE  \/ t = "employees" /\ n = "gender" /\ Rank(t, n) = 231
  BY <1>1 DEF InBand, Rank
<1>2. \A k \in 1..1 : ReversalFits(23, k, History[23].down)
  BY <1>1, EmployeeGenderScripts, RankIs DEF ReversalFits, Undone, Earlier, InBand, RemovePart
<1>3. \A t, n : InBand(23, Rank(t, n)) => Undone(History[23].down, 1, t, n)
  BY <1>1, EmployeeGenderScripts DEF Undone, RemovePart
<1>. QED  BY <1>2, <1>3, EmployeeGenderScripts DEF DownFits

(* c9d8e7f6a5b4 makes the tasks and seeds their permissions.               *)
LEMMA TasksRevisionScripts ==
  /\ Len(History[24].up) = 3 /\ DOMAIN History[24].up = 1..3
  /\ History[24].up[1] = CreateTable("employee_tasks", {"users", "employees"})
  /\ History[24].up[2] = Seed({"tasks.view", "tasks.complete"}, TaskTitles \cup {"EMPLOYEE"})
  /\ History[24].up[3] = Seed({"tasks.manage"}, TaskTitles)
  /\ Len(History[24].down) = 2 /\ DOMAIN History[24].down = 1..2
  /\ History[24].down[1] = Unseed({"tasks.view", "tasks.complete", "tasks.manage"})
  /\ History[24].down[2] = DropTable("employee_tasks")
<1>1. History[24].up = TasksUp /\ History[24].down = TasksDown
  BY DEF History, Revision
<1>2. /\ Len(History[24].up) = 3 /\ DOMAIN History[24].up = 1..3
      /\ History[24].up[1] = CreateTable("employee_tasks", {"users", "employees"})
      /\ History[24].up[2] = Seed({"tasks.view", "tasks.complete"}, TaskTitles \cup {"EMPLOYEE"})
      /\ History[24].up[3] = Seed({"tasks.manage"}, TaskTitles)
  BY <1>1 DEF TasksUp
<1>3. /\ Len(History[24].down) = 2 /\ DOMAIN History[24].down = 1..2
      /\ History[24].down[1] = Unseed({"tasks.view", "tasks.complete", "tasks.manage"})
      /\ History[24].down[2] = DropTable("employee_tasks")
  BY <1>1 DEF TasksDown
<1>. QED  BY <1>2, <1>3

(* What it makes is not there yet, and what it relies on is.               *)
LEMMA TasksRevisionUpFits == UpFits(24)
<1>1. \A k \in 1..3 : OperationFits(24, k, History[24].up[k])
  BY TasksRevisionScripts, RankIs DEF OperationFits, Earlier, InBand, Part, CreateTable, Seed
<1>2. ASSUME NEW t, NEW n, InBand(24, Rank(t, n))
      PROVE  \/ t = "employee_tasks" /\ n = "itself"
  BY <1>2 DEF InBand, Rank
<1>3. \A t, n : InBand(24, Rank(t, n)) => IsMade(History[24].up, t, n)
  BY <1>2, TasksRevisionScripts DEF IsMade, Makes, Part, CreateTable
<1>. QED  BY <1>1, <1>3, TasksRevisionScripts DEF UpFits

(* Reverting undoes what it makes.                                         *)
LEMMA TasksRevisionDownFits == DownFits(24)
<1>1. ASSUME NEW t, NEW n, InBand(24, Rank(t, n))
      PROVE  \/ t = "employee_tasks" /\ n = "itself" /\ Rank(t, n) = 241
  BY <1>1 DEF InBand, Rank
<1>2. \A k \in 1..2 : ReversalFits(24, k, History[24].down)
  BY <1>1, TasksRevisionScripts, RankIs DEF ReversalFits, Undone, Earlier, InBand,
     DropTable, Unseed
<1>3. \A t, n : InBand(24, Rank(t, n)) => Undone(History[24].down, 2, t, n)
  BY <1>1, TasksRevisionScripts DEF Undone, DropTable, Unseed
<1>. QED  BY <1>2, <1>3, TasksRevisionScripts DEF DownFits

-----------------------------------------------------------------------------
(* Sets of revisions                                                       *)

Before(i, j) == i < j /\ ~(i = 15 /\ j = 16)
Closed(ids) ==
  ids \subseteq Identifiers /\ \A r \in Revisions : r.id \in ids => r.follows \subseteq ids

(* Revisions are known by their number, and by their name.                 *)
LEMMA RevisionsAre ==
  /\ Revisions = {History[i] : i \in Ids}
  /\ Identifiers = {Id(i) : i \in Ids}
  /\ \A i, j \in Ids : Id(i) = Id(j) => i = j
<1>1. Revisions = {History[i] : i \in Ids}
  BY HistoryIs DEF Revisions, ToSet
<1>2. Identifiers = {Id(i) : i \in Ids}
  BY <1>1 DEF Identifiers, Id
<1>3. \A i, j \in Ids : Id(i) = Id(j) => i = j
  BY HistoryIs DEF Ids
<1>. QED  BY <1>1, <1>2, <1>3

(* Nearly a line: only 0f1a2b3c4d5e and b7c3d9e4f1a2 are side by side.     *)
LEMMA FollowsIs ==
  /\ \A j \in Ids \ {1, 16} : Id(j - 1) \in History[j].follows
  /\ Id(14) \in History[16].follows /\ Id(15) \in History[17].follows
  /\ \A j \in Ids : History[j].follows \subseteq {Id(i) : i \in 1..(j - 1)}
<1>1. \A j \in Ids \ {1, 16} : Id(j - 1) \in History[j].follows
  BY HistoryIs DEF Ids
<1>2. Id(14) \in History[16].follows /\ Id(15) \in History[17].follows
  BY HistoryIs
<1>3. /\ History[1].follows = {}
      /\ \A j \in Ids \ {16, 17} : \A x, y \in History[j].follows : x = y
  BY HistoryIs DEF Ids
<1>4. History[16].follows = {Id(14)} /\ History[17].follows = {Id(15), Id(16)}
  BY HistoryIs
<1>5. \A j \in Ids : History[j].follows \subseteq {Id(i) : i \in 1..(j - 1)}
  <2>. SUFFICES ASSUME NEW j \in Ids
                PROVE  History[j].follows \subseteq {Id(i) : i \in 1..(j - 1)}
    OBVIOUS
  <2>1. CASE j \notin {16, 17}
    <3>1. CASE j = 1
      BY <1>3, <3>1
    <3>2. CASE j # 1
      <4>1. j - 1 \in 1..(j - 1) /\ j \in Ids \ {1, 16}
        BY <2>1, <3>2 DEF Ids
      <4>2. Id(j - 1) \in History[j].follows
        BY <1>1, <4>1
      <4>. QED  BY <1>3, <2>1, <4>1, <4>2
    <3>. QED  BY <3>1, <3>2
  <2>2. CASE j = 16
    BY <1>4, <2>2
  <2>3. CASE j = 17
    BY <1>4, <2>3
  <2>. QED  BY <2>1, <2>2, <2>3
<1>. QED  BY <1>1, <1>2, <1>5

(* What comes before an applied revision is applied.                       *)
LEMMA ClosedIs ==
  ASSUME NEW J, Closed(J), NEW i \in Ids, NEW j \in Ids, Before(i, j), Id(j) \in J
  PROVE  Id(i) \in J
<1> DEFINE Bad == {n \in Ids : Id(n) \in J /\ \E k \in Ids : Before(k, n) /\ Id(k) \notin J}
<1> SUFFICES ASSUME Id(i) \notin J  PROVE FALSE
  OBVIOUS
<1>1. j \in Bad /\ Bad \subseteq Nat
  BY DEF Ids
<1>2. PICK n \in Bad : \A m \in Bad : n <= m
  BY <1>1, LeastNat
<1>3. PICK k \in Ids : Before(k, n) /\ Id(k) \notin J
  BY <1>2
<1>4. n \in Ids /\ Id(n) \in J /\ k < n
  BY <1>2, <1>3 DEF Before
<1>5. History[n].follows \subseteq J
  BY <1>4, RevisionsAre DEF Closed, Id
<1>6. ASSUME NEW m \in Ids, m < n, Id(m) \in J, Before(k, m)  PROVE FALSE
  <2>1. m \in Bad
    BY <1>3, <1>6
  <2>. QED  BY <1>2, <1>4, <1>6, <2>1 DEF Ids
<1>7. CASE n = 16
  <2>1. Id(14) \in J
    BY <1>5, <1>7, FollowsIs
  <2>2. k <= 14
    BY <1>3, <1>4, <1>7 DEF Ids, Before
  <2>3. CASE k = 14
    BY <1>3, <2>1, <2>3
  <2>4. CASE k < 14
    BY <1>6, <1>7, <2>1, <2>4 DEF Ids, Before
  <2>. QED  BY <2>2, <2>3, <2>4 DEF Ids
<1>8. CASE n # 16
  <2>1. n \in Ids \ {1, 16}
    BY <1>3, <1>4, <1>8 DEF Ids
  <2>2. n - 1 \in Ids /\ Id(n - 1) \in J
    BY <1>5, <2>1, FollowsIs DEF Ids
  <2>3. CASE k = n - 1
    BY <1>3, <2>2, <2>3
  <2>4. CASE k = 15 /\ n = 17
    BY <1>3, <1>5, <2>4, FollowsIs
  <2>5. CASE k < n - 1 /\ ~(k = 15 /\ n = 17)
    <3>1. Before(k, n - 1) /\ n - 1 < n
      BY <1>4, <2>5 DEF Before, Ids
    <3>. QED  BY <1>6, <2>2, <3>1
  <2>. QED  BY <1>4, <2>3, <2>4, <2>5 DEF Ids
<1>. QED  BY <1>7, <1>8

(* A revision that is due leaves the applied ones closed.                  *)
LEMMA AddedIsClosed ==
  ASSUME NEW J, Closed(J), NEW i \in Ids, History[i].follows \subseteq J
  PROVE  Closed(J \cup {Id(i)})
<1>1. \A r \in Revisions : r.id = Id(i) => r = History[i]
  BY RevisionsAre DEF Id
<1>. QED  BY <1>1, RevisionsAre DEF Closed

(* So does reverting one that no applied revision follows.                 *)
LEMMA RemovedIsClosed ==
  ASSUME NEW J, Closed(J), NEW i \in Ids, \A r \in Revisions : r.id \in J => Id(i) \notin r.follows
  PROVE  Closed(J \ {Id(i)})
BY DEF Closed

(* No revision, or every one.                                              *)
LEMMA AllAreClosed == Closed({}) /\ Closed(Identifiers)
<1>1. \A j \in Ids : History[j].follows \subseteq Identifiers
  BY FollowsIs, RevisionsAre DEF Ids
<1>. QED  BY <1>1, RevisionsAre DEF Closed

(* All of them.                                                            *)
LEMMA AllFit ==
  \A i \in Ids : UpFits(i) /\ DownFits(i)
<1>1. \A i \in Ids : UpFits(i)
  BY BootstrapUserUpFits, OrganizationUpFits, EmployeeTableUpFits, PermissionTablesUpFits,
     RequestsEngineUpFits, LeaveBalanceUpFits, AttendanceRevisionUpFits,
     PerformanceRevisionUpFits, InstallationRevisionUpFits, NotificationsRevisionUpFits,
     HierarchySeedUpFits, EmployeeImageUpFits, NfcCardsUpFits, AssignCardSeedUpFits,
     MessagesRevisionUpFits, AnnouncementsRevisionUpFits, MergedHeadsUpFits,
     MessagesRefactorSeedUpFits, ScannerRevisionUpFits, ResolverTitleUpFits,
     ForgotBadgeRevisionUpFits, InventoryRevisionUpFits, EmployeeGenderUpFits,
     TasksRevisionUpFits
     DEF Ids
<1>2. \A i \in Ids : DownFits(i)
  BY BootstrapUserDownFits, OrganizationDownFits, EmployeeTableDownFits,
     PermissionTablesDownFits, RequestsEngineDownFits, LeaveBalanceDownFits,
     AttendanceRevisionDownFits, PerformanceRevisionDownFits, InstallationRevisionDownFits,
     NotificationsRevisionDownFits, HierarchySeedDownFits, EmployeeImageDownFits,
     NfcCardsDownFits, AssignCardSeedDownFits, MessagesRevisionDownFits,
     AnnouncementsRevisionDownFits, MergedHeadsDownFits, MessagesRefactorSeedDownFits,
     ScannerRevisionDownFits, ResolverTitleDownFits, ForgotBadgeRevisionDownFits,
     InventoryRevisionDownFits, EmployeeGenderDownFits, TasksRevisionDownFits
     DEF Ids
<1>. QED  BY <1>1, <1>2

-----------------------------------------------------------------------------
(* Schemas                                                                 *)

(* The parts the given revisions make.                                     *)
Shape(ids) == UNION {Made(i) : i \in {j \in Ids : Id(j) \in ids}}

(* The columns b6d4e8f0c2a1 drops though a1b2c3d4e5f6 made them.           *)
Shared(p) == 210 < Rank(p.table, p.name) /\ Rank(p.table, p.name) < 214
HalfReverted(ids) == Id(21) \in ids /\ Id(22) \notin ids

(* The schema is that of the revisions, but for these columns if the       *)
(* second is not applied and the first is.                                 *)
Fits(s, ids) ==
  \/ s = Shape(ids)
  \/ HalfReverted(ids) /\ s = {p \in Shape(ids) : ~Shared(p)}

(* A rank tells the revision,                                              *)
LEMMA RankHasBand ==
  ASSUME NEW t, NEW n
  PROVE  /\ Rank(t, n) \in Nat
         /\ Rank(t, n) # 0 => \E j \in Ids : InBand(j, Rank(t, n))
<1>1. Rank(t, n) \in Nat
  BY DEF Rank
<1>2. Rank(t, n) # 0 => Rank(t, n) \in 11..19 \cup 21..29 \cup 31..39 \cup 41..49 \cup 51..59
        \cup 61..69 \cup 71..79 \cup 81..89 \cup 91..99 \cup 101..109 \cup 121..129
        \cup 131..139 \cup 151..159 \cup 161..169 \cup 191..199 \cup 201..209
        \cup 211..219 \cup 221..229 \cup 231..239 \cup 241..249
  BY DEF Rank
<1>. QED  BY <1>1, <1>2 DEF Ids, InBand

(* and one revision only.                                                  *)
LEMMA BandsDiffer ==
  ASSUME NEW i \in Ids, NEW j \in Ids, NEW x \in Nat, InBand(i, x), InBand(j, x)
  PROVE  i = j
BY DEF Ids, InBand

(* A script has six operations at most.                                    *)
LEMMA PlaceIs ==
  ASSUME NEW n \in 0..6, NEW k \in 1..n
  PROVE  k \in 1..6
OBVIOUS

(* An operation of a revision fits its place.                              *)
LEMMA OperationIs ==
  ASSUME NEW i \in Ids, NEW k \in 1..Len(History[i].up)
  PROVE  OperationFits(i, k, History[i].up[k]) /\ k \in 1..6 /\ i \in 1..24
<1>1. UpFits(i)
  BY AllFit
<1>2. /\ Len(History[i].up) \in 0..6
      /\ \A m \in 1..Len(History[i].up) : OperationFits(i, m, History[i].up[m])
  BY <1>1, Zenon DEF UpFits
<1>3. OperationFits(i, k, History[i].up[k])
  BY <1>2, Zenon
<1>4. k \in 1..6
  BY <1>2, PlaceIs, Zenon
<1>. QED  BY <1>3, <1>4 DEF Ids

(* What a revision makes has a rank in it, on tables made earlier, and     *)
(* references tables made earlier.                                         *)
LEMMA MadeIs ==
  ASSUME NEW i \in Ids, NEW p \in Made(i)
  PROVE  /\ p.name = "itself" => InBand(i, Rank(p.table, p.name))
         /\ p.name # "itself" =>
              /\ Earlier(i, Rank(p.table, "itself"))
              /\ InBand(i, Rank(p.table, p.name)) \/ (i = 22 /\ Shared(p))
         /\ \A t \in p.refs : \/ t = p.table \/ Earlier(i, Rank(t, "itself"))
                              \/ /\ p.name = "itself" /\ InBand(i, Rank(t, "itself"))
                                 /\ Rank(t, "itself") < Rank(p.table, p.name)
<1>1. PICK k \in 1..Len(History[i].up) : Makes(History[i].up[k]) /\ p = History[i].up[k].part
  BY DEF Made
<1>2. PICK o : o = History[i].up[k]
  OBVIOUS
<1>3. /\ OperationFits(i, k, o) /\ Makes(o) /\ p = o.part
      /\ k \in 1..6 /\ i \in 1..24
  <2>1. OperationFits(i, k, o) /\ k \in 1..6 /\ i \in 1..24
    BY <1>2, OperationIs
  <2>. QED  BY <1>1, <1>2, <2>1
<1>4. CASE o.op = "create"
  <2>1. /\ p.name = "itself" /\ Rank(p.table, "itself") = 10 * i + k
        /\ \A t \in p.refs : \/ t = p.table \/ Earlier(i, Rank(t, "itself"))
                             \/ /\ InBand(i, Rank(t, "itself"))
                                /\ Rank(t, "itself") < 10 * i + k
    BY <1>3, <1>4 DEF OperationFits
  <2>2. 10 * i < 10 * i + k /\ 10 * i + k < 10 * i + 10
    BY <1>3
  <2>3. InBand(i, Rank(p.table, p.name))
    BY <2>1, <2>2 DEF InBand
  <2>. QED  BY <2>1, <2>3
<1>5. CASE o.op = "add"
  <2>1. /\ p.name # "itself" /\ Rank(p.table, p.name) = 10 * i + k
        /\ Earlier(i, Rank(p.table, "itself"))
        /\ \A t \in p.refs : Earlier(i, Rank(t, "itself"))
    BY <1>3, <1>5 DEF OperationFits
  <2>2. 10 * i < 10 * i + k /\ 10 * i + k < 10 * i + 10
    BY <1>3
  <2>3. InBand(i, Rank(p.table, p.name))
    BY <2>1, <2>2 DEF InBand
  <2>. QED  BY <2>1, <2>3
<1>6. CASE o.op = "ensure"
  <2>1. /\ i = 22 /\ p.name # "itself" /\ p.refs = {}
        /\ Rank(p.table, p.name) = IF k <= 3 THEN 210 + k ELSE 220 + k
        /\ Earlier(i, Rank(p.table, "itself"))
    BY <1>3, <1>6 DEF OperationFits
  <2>2. CASE k <= 3
    <3>1. Rank(p.table, p.name) = 210 + k /\ 210 < 210 + k /\ 210 + k < 214
      BY <1>3, <2>1, <2>2
    <3>. QED  BY <2>1, <3>1 DEF Shared
  <2>3. CASE ~(k <= 3)
    <3>1. /\ Rank(p.table, p.name) = 220 + k
          /\ 10 * 22 < 220 + k /\ 220 + k < 10 * 22 + 10
      BY <1>3, <2>1, <2>3
    <3>. QED  BY <2>1, <3>1 DEF InBand
  <2>. QED  BY <2>1, <2>2, <2>3
<1>. QED  BY <1>3, <1>4, <1>5, <1>6 DEF Makes

(* Conversely, what has a rank in a revision is made by it.                *)
LEMMA RankedIsMade ==
  ASSUME NEW i \in Ids, NEW t, NEW n, InBand(i, Rank(t, n))
  PROVE  \E p \in Made(i) : p.table = t /\ p.name = n
<1>1. UpFits(i)
  BY AllFit
<1>2. IsMade(History[i].up, t, n)
  BY <1>1 DEF UpFits
<1>. QED  BY <1>2 DEF IsMade, Made

(* A schema that fits has the parts of the applied revisions, save the     *)
(* shared columns, and no others.                                          *)
LEMMA FittingHas ==
  ASSUME NEW J, NEW s, Fits(s, J), NEW i \in Ids, Id(i) \in J,
         NEW t, NEW n, InBand(i, Rank(t, n)), ~(210 < Rank(t, n) /\ Rank(t, n) < 214)
  PROVE  Has(s, t, n)
<1>1. PICK p \in Made(i) : p.table = t /\ p.name = n
  BY RankedIsMade
<1>2. p \in Shape(J) /\ ~Shared(p)
  BY <1>1 DEF Shape, Shared
<1>3. p \in s
  BY <1>2 DEF Fits
<1>. QED  BY <1>1, <1>3 DEF Has

(* The tables of earlier revisions are there.                              *)
LEMMA FittingHasTable ==
  ASSUME NEW J, NEW s, Fits(s, J), NEW i \in Ids, NEW t, Earlier(i, Rank(t, "itself")),
         \A j \in Ids : Before(j, i) => Id(j) \in J
  PROVE  HasTable(s, t)
<1>1. PICK x : x = Rank(t, "itself")
  OBVIOUS
<1>2. x \in Nat /\ Earlier(i, x)
  BY <1>1, RankHasBand
<1>3. PICK j \in Ids : InBand(j, x)
  BY <1>1, <1>2, RankHasBand DEF Earlier
<1>4. Before(j, i)
  BY <1>2, <1>3 DEF Before, Earlier, InBand, Ids
<1>5. ~(210 < x /\ x < 214)
  BY <1>1 DEF Rank
<1>. QED  BY <1>1, <1>3, <1>4, <1>5, FittingHas DEF HasTable

(* A part of the schema is made by an applied revision.                    *)
LEMMA FittingIsMade ==
  ASSUME NEW J, NEW s, Fits(s, J), NEW p \in s
  PROVE  \E j \in Ids : Id(j) \in J /\ p \in Made(j)
BY DEF Fits, Shape

(* No part of an applied revision has a rank in a revision that is not.    *)
LEMMA FittingHasNoOther ==
  ASSUME NEW J, Closed(J), NEW s, Fits(s, J), NEW i \in Ids, Id(i) \notin J, NEW p \in s
  PROVE  ~InBand(i, Rank(p.table, p.name))
<1>. SUFFICES ASSUME InBand(i, Rank(p.table, p.name))  PROVE FALSE
  OBVIOUS
<1>1. PICK j \in Ids : Id(j) \in J /\ p \in Made(j)
  BY FittingIsMade
<1>2. PICK x : x = Rank(p.table, p.name) /\ x \in Nat
  BY RankHasBand
<1>3. InBand(j, x) \/ (j = 22 /\ Shared(p))
  BY <1>1, <1>2, MadeIs
<1>4. CASE InBand(j, x)
  BY <1>1, <1>2, <1>4, BandsDiffer
<1>5. CASE j = 22 /\ Shared(p)
  <2>1. i = 21
    BY <1>2, <1>5 DEF InBand, Shared, Ids
  <2>2. Id(21) \in J
    <3>1. Before(21, 22) /\ 21 \in Ids /\ 22 \in Ids
      BY DEF Before, Ids
    <3>. QED  BY <1>1, <1>5, <3>1, ClosedIs
  <2>. QED  BY <2>1, <2>2
<1>. QED  BY <1>3, <1>4, <1>5

(* The parts of a fitting schema belong to tables of the models.           *)
LEMMA FittingIsNoFailure ==
  ASSUME NEW J, NEW s, Fits(s, J)
  PROVE  \A p \in s : Rank(p.table, "itself") # 0
<1>. SUFFICES ASSUME NEW p \in s  PROVE Rank(p.table, "itself") # 0
  OBVIOUS
<1>1. PICK j \in Ids : Id(j) \in J /\ p \in Made(j)
  BY FittingIsMade
<1>2. InBand(j, Rank(p.table, "itself")) \/ Earlier(j, Rank(p.table, "itself"))
  BY <1>1, MadeIs
<1>. QED  BY <1>2 DEF InBand, Earlier, Ids

-----------------------------------------------------------------------------
(* Operations, one at a time                                               *)

IsDatabase(d) == d = [schema |-> d.schema, permitted |-> d.permitted, titleHas |-> d.titleHas]

(* Operations that make a part.                                            *)
LEMMA MakingIs ==
  ASSUME NEW d, IsDatabase(d), NEW o, Makes(o)
  PROVE  /\ Applies(d, o) <=>
              \/ /\ o.op = "create" /\ ~HasTable(d.schema, o.part.table)
                 /\ \A t \in o.part.refs \ {o.part.table} : HasTable(d.schema, t)
              \/ /\ o.op = "add" /\ HasTable(d.schema, o.part.table)
                 /\ ~Has(d.schema, o.part.table, o.part.name)
              \/ o.op = "ensure" /\ HasTable(d.schema, o.part.table)
         /\ After(d, o) = [schema |-> d.schema \cup {o.part}, permitted |-> d.permitted,
                           titleHas |-> d.titleHas]
<1>1. CASE o.op = "create"
  BY <1>1 DEF Applies, After, IsDatabase
<1>2. CASE o.op = "add"
  BY <1>2 DEF Applies, After, IsDatabase
<1>3. CASE o.op = "ensure"
  BY <1>3 DEF Applies, After, IsDatabase
<1>. QED  BY <1>1, <1>2, <1>3 DEF Makes

(* Operations on permission rows.                                          *)
LEMMA SeedingIs ==
  ASSUME NEW d, IsDatabase(d), NEW o, o.op \in {"seed", "unseed"}
  PROVE  /\ Applies(d, o) <=> HasTable(d.schema, "job_title_permissions")
         /\ o.op = "seed" =>
              After(d, o) = [schema |-> d.schema, permitted |-> d.permitted \cup o.codes,
                             titleHas |-> d.titleHas \cup ((o.titles \cap KnownTitles) \X o.codes)]
         /\ o.op = "unseed" =>
              After(d, o) = [schema |-> d.schema, permitted |-> d.permitted \ o.codes,
                             titleHas |-> {g \in d.titleHas : g[2] \notin o.codes}]
<1>1. CASE o.op = "seed"
  BY <1>1 DEF Applies, After, IsDatabase
<1>2. CASE o.op = "unseed"
  BY <1>2 DEF Applies, After, IsDatabase
<1>. QED  BY <1>1, <1>2

(* Operations that take parts away.                                        *)
LEMMA UndoingIs ==
  ASSUME NEW d, IsDatabase(d), NEW o, o.op \in {"drop", "remove", "discard"}
  PROVE  /\ Applies(d, o) <=>
              \/ /\ o.op = "drop" /\ HasTable(d.schema, o.table)
                 /\ \A p \in d.schema : o.table \in p.refs => p.table = o.table
              \/ o.op = "remove" /\ Has(d.schema, o.table, o.name)
              \/ o.op = "discard" /\ HasTable(d.schema, o.table)
         /\ After(d, o).schema =
              {p \in d.schema : ~(p.table = o.table /\ (o.op = "drop" \/ o.name = p.name))}
         /\ After(d, o).permitted =
              IF o.op = "drop" /\ o.table = "permissions" THEN {} ELSE d.permitted
         /\ After(d, o).titleHas =
              IF o.op = "drop" /\ o.table = "job_title_permissions" THEN {} ELSE d.titleHas
         /\ IsDatabase(After(d, o))
<1>1. CASE o.op = "drop"
  BY <1>1 DEF Applies, After, IsDatabase
<1>2. CASE o.op = "remove"
  BY <1>2 DEF Applies, After, IsDatabase
<1>3. CASE o.op = "discard"
  BY <1>3 DEF Applies, After, IsDatabase
<1>. QED  BY <1>1, <1>2, <1>3

(* A failed command is told from every schema that fits.                   *)
LEMMA FailureIs ==
  /\ IsDatabase(Failure)
  /\ \A d : d = Failure => \E p \in d.schema : Rank(p.table, "itself") = 0
<1>1. Part("a failed command", "itself", {}) \in Failure.schema
  BY DEF Failure
<1>2. Rank(Part("a failed command", "itself", {}).table, "itself") = 0
  BY DEF Rank, Part
<1>. QED  BY <1>1, <1>2 DEF IsDatabase, Failure

-----------------------------------------------------------------------------
(* A revision applied                                                      *)

(* The parts the first k operations of revision i make.                    *)
MadeUpTo(i, k) ==
  {History[i].up[m].part : m \in {x \in 1..k : Makes(History[i].up[x])}}

(* The rank of what an operation makes.                                    *)
LEMMA MadeHasRank ==
  ASSUME NEW i \in Ids, NEW m \in 1..Len(History[i].up), Makes(History[i].up[m])
  PROVE  LET p == History[i].up[m].part IN
         /\ History[i].up[m].op \in {"create", "add"} =>
              /\ Rank(p.table, p.name) = 10 * i + m /\ m \in 1..6 /\ i # 22
         /\ History[i].up[m].op = "ensure" =>
              /\ i = 22 /\ m \in 1..6
              /\ Rank(p.table, p.name) = IF m <= 3 THEN 210 + m ELSE 220 + m
<1>1. OperationFits(i, m, History[i].up[m]) /\ m \in 1..6
  BY OperationIs
<1>2. \A k \in 1..6 : History[22].up[k].op = "ensure"
  BY InventoryRevisionScripts DEF AddPartIfMissing
<1>. QED  BY <1>1, <1>2 DEF OperationFits

(* What a revision makes first is not there yet.                           *)
LEMMA MadeIsNew ==
  ASSUME NEW J, Closed(J), NEW s, Fits(s, J), NEW i \in Ids, Id(i) \notin J,
         NEW k \in 1..Len(History[i].up), History[i].up[k].op \in {"create", "add"}
  PROVE  ~Has(s \cup MadeUpTo(i, k - 1), History[i].up[k].part.table, History[i].up[k].part.name)
<1>. SUFFICES ASSUME NEW p \in s \cup MadeUpTo(i, k - 1),
                     p.table = History[i].up[k].part.table, p.name = History[i].up[k].part.name
              PROVE  FALSE
  BY DEF Has
<1>1. Rank(p.table, p.name) = 10 * i + k /\ k \in 1..6 /\ i # 22
  BY MadeHasRank DEF Makes
<1>2. CASE p \in s
  <2>1. InBand(i, Rank(p.table, p.name))
    BY <1>1 DEF InBand, Ids
  <2>. QED  BY <1>2, <2>1, FittingHasNoOther
<1>3. CASE p \in MadeUpTo(i, k - 1)
  <2>1. PICK m \in 1..(k - 1) : Makes(History[i].up[m]) /\ p = History[i].up[m].part
    BY <1>3 DEF MadeUpTo
  <2>2. PICK n \in Nat : n = Len(History[i].up)
    BY AllFit DEF UpFits
  <2>3. m \in 1..n /\ m # k
    BY <1>1, <2>1, <2>2
  <2>4. PICK o : o = History[i].up[m]
    OBVIOUS
  <2>5. o.op \in {"create", "add"}
    BY <1>1, <2>1, <2>2, <2>3, <2>4, MadeHasRank DEF Makes
  <2>6. Rank(p.table, p.name) = 10 * i + m /\ m \in 1..6
    BY <2>1, <2>2, <2>3, <2>4, <2>5, MadeHasRank
  <2>. QED  BY <1>1, <2>3, <2>6 DEF Ids
<1>. QED  BY <1>2, <1>3

(* The next operation applies, and adds its part.                          *)
LEMMA UpStep ==
  ASSUME NEW J, Closed(J), NEW s, Fits(s, J), NEW i \in Ids, Id(i) \notin J,
         Closed(J \cup {Id(i)}), NEW k \in 1..Len(History[i].up),
         NEW d, IsDatabase(d), d.schema = s \cup MadeUpTo(i, k - 1)
  PROVE  /\ Applies(d, History[i].up[k])
         /\ IsDatabase(After(d, History[i].up[k]))
         /\ After(d, History[i].up[k]).schema = s \cup MadeUpTo(i, k)
<1>1. PICK o : o = History[i].up[k]
  OBVIOUS
<1>2. UpFits(i) /\ k \in 1..6 /\ OperationFits(i, k, o)
  BY <1>1, AllFit, OperationIs
<1>3. \A t : Earlier(i, Rank(t, "itself")) => HasTable(d.schema, t)
  <2>1. \A j \in Ids : Before(j, i) => Id(j) \in J
    <3>1. ASSUME NEW j \in Ids, Before(j, i)  PROVE Id(j) \in J
      <4>1. Id(j) \in J \cup {Id(i)}
        BY <3>1, ClosedIs
      <4>2. j # i
        BY <3>1 DEF Before, Ids
      <4>. QED  BY <4>1, <4>2, RevisionsAre
    <3>. QED  BY <3>1
  <2>2. \A t : Earlier(i, Rank(t, "itself")) => HasTable(s, t)
    BY <2>1, FittingHasTable
  <2>. QED  BY <2>2 DEF HasTable, Has
<1>4. \A t : InBand(i, Rank(t, "itself")) /\ Rank(t, "itself") < 10 * i + k => HasTable(d.schema, t)
  <2>1. SUFFICES ASSUME NEW t, InBand(i, Rank(t, "itself")), Rank(t, "itself") < 10 * i + k
                 PROVE  HasTable(d.schema, t)
    OBVIOUS
  <2>2. PICK m \in 1..Len(History[i].up) :
          Makes(History[i].up[m]) /\ History[i].up[m].part.table = t
            /\ History[i].up[m].part.name = "itself"
    BY <1>2, <2>1 DEF UpFits, IsMade
  <2>3. Rank(t, "itself") # 0 /\ History[i].up[m].op # "ensure"
    <3>1. OperationFits(i, m, History[i].up[m])
      BY <2>2, OperationIs
    <3>. QED  BY <2>1, <2>2, <3>1 DEF OperationFits, InBand, Ids
  <2>4. Rank(t, "itself") = 10 * i + m
    BY <2>2, <2>3, MadeHasRank DEF Makes
  <2>5. m \in 1..(k - 1)
    BY <1>2, <2>1, <2>4 DEF Ids
  <2>6. History[i].up[m].part \in d.schema
    BY <2>2, <2>5 DEF MadeUpTo
  <2>. QED  BY <2>2, <2>6 DEF HasTable, Has
<1>5. Applies(d, o)
  <2>1. CASE o.op = "create"
    <3>1. ~Has(d.schema, o.part.table, o.part.name)
      <4>1. ~Has(s \cup MadeUpTo(i, k - 1), History[i].up[k].part.table,
                 History[i].up[k].part.name)
        BY <1>1, <2>1, MadeIsNew
      <4>. QED  BY <1>1, <4>1, Zenon
    <3>2. o.part.name = "itself"
      BY <1>2, <2>1 DEF OperationFits
    <3>3. ~HasTable(d.schema, o.part.table)
      BY <3>1, <3>2 DEF HasTable
    <3>4. \A t \in o.part.refs \ {o.part.table} : HasTable(d.schema, t)
      BY <1>2, <1>3, <1>4, <2>1 DEF OperationFits
    <3>. QED  BY <2>1, <3>3, <3>4 DEF Applies
  <2>2. CASE o.op = "add"
    <3>1. HasTable(d.schema, o.part.table)
      BY <1>2, <1>3, <2>2 DEF OperationFits
    <3>2. ~Has(d.schema, o.part.table, o.part.name)
      <4>1. ~Has(s \cup MadeUpTo(i, k - 1), History[i].up[k].part.table,
                 History[i].up[k].part.name)
        BY <1>1, <2>2, MadeIsNew
      <4>. QED  BY <1>1, <4>1, Zenon
    <3>. QED  BY <2>2, <3>1, <3>2 DEF Applies
  <2>3. CASE o.op = "ensure"
    <3>1. HasTable(d.schema, o.part.table)
      BY <1>2, <1>3, <2>3 DEF OperationFits
    <3>. QED  BY <2>3, <3>1 DEF Applies
  <2>4. CASE o.op = "seed"
    <3>1. i > 4 /\ i \in 1..24
      BY <1>2, <2>4 DEF OperationFits, Ids
    <3>2. Earlier(i, 42)
      BY <3>1 DEF Earlier, InBand
    <3>3. Earlier(i, Rank("job_title_permissions", "itself"))
      BY <3>2, RankIs
    <3>4. HasTable(d.schema, "job_title_permissions")
      BY <1>3, <3>3
    <3>. QED  BY <2>4, <3>4 DEF Applies
  <2>. QED  BY <1>2, <2>1, <2>2, <2>3, <2>4 DEF OperationFits
<1>6. IsDatabase(After(d, o)) /\ After(d, o).schema = s \cup MadeUpTo(i, k)
  <2>1. 1..k = 1..(k - 1) \cup {k} /\ k \in 1..k
    BY <1>2
  <2>2. CASE Makes(o)
    <3>1. MadeUpTo(i, k) = MadeUpTo(i, k - 1) \cup {o.part}
      BY <1>1, <2>1, <2>2 DEF MadeUpTo
    <3>. QED  BY <2>2, <3>1, MakingIs DEF IsDatabase
  <2>3. CASE ~Makes(o)
    <3>1. MadeUpTo(i, k) = MadeUpTo(i, k - 1)
      BY <1>1, <2>1, <2>3 DEF MadeUpTo
    <3>2. o.op = "seed"
      BY <1>2, <2>3 DEF OperationFits, Makes
    <3>. QED  BY <3>1, <3>2, SeedingIs DEF IsDatabase
  <2>. QED  BY <2>2, <2>3
<1>. QED  BY <1>1, <1>5, <1>6

(* A revision that leaves the applied ones closed applies, and adds its    *)
(* parts.                                                                  *)
LEMMA UpRuns ==
  ASSUME NEW J, Closed(J), NEW i \in Ids, Id(i) \notin J, Closed(J \cup {Id(i)}),
         NEW db, IsDatabase(db), Fits(db.schema, J)
  PROVE  LET d == Ran(db, History[i].up) IN
         d # Failure /\ IsDatabase(d) /\ d.schema = db.schema \cup Made(i)
<1>1. PICK n : n = Len(History[i].up) /\ n \in 0..6
  BY AllFit DEF UpFits
<1>2. PICK f : IsRun(f, db, History[i].up, n) /\ Ran(db, History[i].up) = f[n]
  BY <1>1, RunIs
<1> DEFINE Good(k) == /\ f[k] # Failure /\ IsDatabase(f[k])
                      /\ f[k].schema = db.schema \cup MadeUpTo(i, k)
           Bad == {k \in 0..n : ~Good(k)}
<1>3. \A k \in 0..n : \A p \in db.schema \cup MadeUpTo(i, k) : Rank(p.table, "itself") # 0
  <2>1. SUFFICES ASSUME NEW k \in 0..n, NEW p \in MadeUpTo(i, k)
                 PROVE  Rank(p.table, "itself") # 0
    BY FittingIsNoFailure
  <2>2. p \in Made(i)
    BY <1>1 DEF MadeUpTo, Made
  <2>3. InBand(i, Rank(p.table, "itself")) \/ Earlier(i, Rank(p.table, "itself"))
    BY <2>2, MadeIs
  <2>. QED  BY <2>3 DEF InBand, Earlier, Ids
<1>4. Bad = {}
  <2>. SUFFICES ASSUME Bad # {}  PROVE FALSE
    OBVIOUS
  <2>0. Bad \subseteq Nat
    BY <1>1
  <2>1. PICK k \in Bad : \A m \in Bad : k <= m
    <3>. HIDE DEF Bad
    <3>. QED  BY <2>0, LeastNat
  <2>2. k \in 0..n /\ ~Good(k)
    BY <2>1
  <2>3. k # 0
    <3>1. MadeUpTo(i, 0) = {}
      BY DEF MadeUpTo
    <3>2. f[0] = db
      BY <1>2 DEF IsRun
    <3>3. db # Failure
      BY FailureIs, FittingIsNoFailure
    <3>4. Good(0)
      BY <3>1, <3>2, <3>3
    <3>. QED  BY <2>2, <3>4
  <2>4. k \in 1..n /\ k - 1 \in 0..n /\ Good(k - 1)
    BY <1>1, <2>1, <2>2, <2>3
  <2>5. /\ Applies(f[k - 1], History[i].up[k])
        /\ IsDatabase(After(f[k - 1], History[i].up[k]))
        /\ After(f[k - 1], History[i].up[k]).schema = db.schema \cup MadeUpTo(i, k)
    <3>1. k \in 1..Len(History[i].up)
      BY <1>1, <2>4
    <3>2. PICK d : d = f[k - 1]
      OBVIOUS
    <3>3. IsDatabase(d) /\ d.schema = db.schema \cup MadeUpTo(i, k - 1)
      BY <2>4, <3>2
    <3>4. /\ Applies(d, History[i].up[k])
          /\ IsDatabase(After(d, History[i].up[k]))
          /\ After(d, History[i].up[k]).schema = db.schema \cup MadeUpTo(i, k)
      BY <3>1, <3>3, UpStep
    <3>. QED  BY <3>2, <3>4
  <2>6. f[k] = After(f[k - 1], History[i].up[k])
    BY <1>2, <2>4, <2>5 DEF IsRun, Stepped
  <2>7. f[k] # Failure
    BY <1>3, <2>2, <2>5, <2>6, FailureIs
  <2>. QED  BY <2>2, <2>5, <2>6, <2>7
<1>5. Good(n)
  BY <1>1, <1>4
<1>6. MadeUpTo(i, n) = Made(i)
  BY <1>1 DEF MadeUpTo, Made
<1>. QED  BY <1>2, <1>5, <1>6

(* The schema then fits.                                                   *)
LEMMA UpRunFits ==
  ASSUME NEW J, Closed(J), NEW i \in Ids, Id(i) \notin J, Closed(J \cup {Id(i)}),
         NEW s, Fits(s, J)
  PROVE  Fits(s \cup Made(i), J \cup {Id(i)})
<1>1. Shape(J \cup {Id(i)}) = Shape(J) \cup Made(i)
  <2>1. \A j \in Ids : Id(j) \in J \cup {Id(i)} <=> Id(j) \in J \/ j = i
    BY RevisionsAre
  <2>. QED  BY <2>1 DEF Shape
<1>2. CASE s = Shape(J)
  BY <1>1, <1>2 DEF Fits
<1>3. CASE HalfReverted(J) /\ s = {p \in Shape(J) : ~Shared(p)}
  <2>1. 21 \in Ids /\ 22 \in Ids /\ Id(21) \in J /\ Id(22) \notin J
    BY <1>3 DEF HalfReverted, Ids
  <2>2. i = 22
    <3>1. i # 21
      BY <2>1
    <3>2. ~Before(i, 21)
      BY <2>1, ClosedIs
    <3>3. ~Before(22, i)
      <4>1. Before(22, i) => Id(22) \in J \cup {Id(i)}
        BY <2>1, ClosedIs
      <4>2. Before(22, i) => Id(22) # Id(i)
        BY <2>1, RevisionsAre DEF Before, Ids
      <4>. QED  BY <2>1, <4>1, <4>2
    <3>. QED  BY <3>1, <3>2, <3>3 DEF Before, Ids
  <2>3. \A p \in Shape(J) : Shared(p) => p \in Made(22)
    <3>1. SUFFICES ASSUME NEW p \in Shape(J), Shared(p)  PROVE p \in Made(22)
      OBVIOUS
    <3>2. PICK j \in Ids : Id(j) \in J /\ p \in Made(j)
      BY DEF Shape
    <3>3. j = 21
      <4>1. p.name # "itself"
        BY <3>1 DEF Shared, Rank
      <4>2. InBand(j, Rank(p.table, p.name)) /\ j # 22
        BY <2>1, <3>2, <4>1, MadeIs
      <4>3. InBand(21, Rank(p.table, p.name)) /\ Rank(p.table, p.name) \in Nat
        BY <3>1, RankHasBand DEF InBand, Shared
      <4>. QED  BY <2>1, <4>2, <4>3, BandsDiffer
    <3>4. PICK k \in 1..Len(History[21].up) :
            Makes(History[21].up[k]) /\ p = History[21].up[k].part
      BY <3>2, <3>3 DEF Made
    <3>5. k \in 1..3
      <4>1. Rank(p.table, p.name) = 210 + k /\ k \in 1..6
        BY <2>1, <3>4, MadeHasRank DEF Makes
      <4>. QED  BY <3>1, <4>1 DEF Shared
    <3>6. /\ Len(History[22].up) = 6 /\ History[22].up[k].op = "ensure"
          /\ p = History[22].up[k].part
      BY <3>4, <3>5, ForgotBadgeRevisionScripts, InventoryRevisionScripts
         DEF AddPart, AddPartIfMissing
    <3>. QED  BY <3>5, <3>6 DEF Made, Makes
  <2>4. s \cup Made(i) = Shape(J \cup {Id(i)})
    BY <1>1, <1>3, <2>2, <2>3
  <2>. QED  BY <2>4 DEF Fits
<1>. QED  BY <1>2, <1>3 DEF Fits

-----------------------------------------------------------------------------
(* A revision reverted                                                     *)

UndoneIn(s, i, k) == {p \in s : ~Undone(History[i].down, k, p.table, p.name)}

(* Reverting takes away what its operations name, if none of them fails.   *)
LEMMA DownStep ==
  ASSUME NEW i \in Ids, NEW k \in 1..Len(History[i].down), NEW s, NEW d, IsDatabase(d),
         d.schema = UndoneIn(s, i, k - 1)
  PROVE  /\ IsDatabase(After(d, History[i].down[k]))
         /\ After(d, History[i].down[k]).schema = UndoneIn(s, i, k)
<1>1. PICK o : o = History[i].down[k]
  OBVIOUS
<1>2. ReversalFits(i, k, History[i].down)
  BY AllFit DEF DownFits
<1>3. o.op \in {"drop", "remove", "discard", "unseed"}
  BY <1>1, <1>2 DEF ReversalFits
<1>4. 1..k = 1..(k - 1) \cup {k}
  <2>1. PICK n : n = Len(History[i].down) /\ n \in 0..6
    BY AllFit DEF DownFits
  <2>2. k \in 1..n
    BY <2>1
  <2>. QED  BY <2>1, <2>2
<1>5. CASE o.op = "unseed"
  <2>1. \A t, n : Undone(History[i].down, k, t, n) <=> Undone(History[i].down, k - 1, t, n)
    BY <1>1, <1>4, <1>5 DEF Undone
  <2>2. UndoneIn(s, i, k) = UndoneIn(s, i, k - 1)
    BY <2>1 DEF UndoneIn
  <2>3. After(d, o).schema = d.schema /\ IsDatabase(After(d, o))
    BY <1>5, SeedingIs DEF IsDatabase
  <2>. QED  BY <1>1, <2>2, <2>3
<1>6. CASE o.op \in {"drop", "remove", "discard"}
  <2>1. \A t, n : Undone(History[i].down, k, t, n) <=>
                    \/ Undone(History[i].down, k - 1, t, n)
                    \/ t = o.table /\ (o.op = "drop" \/ o.name = n)
    BY <1>1, <1>4, <1>6 DEF Undone
  <2>2. UndoneIn(s, i, k) =
          {p \in UndoneIn(s, i, k - 1) : ~(p.table = o.table /\ (o.op = "drop" \/ o.name = p.name))}
    BY <2>1 DEF UndoneIn
  <2>3. /\ After(d, o).schema =
             {p \in d.schema : ~(p.table = o.table /\ (o.op = "drop" \/ o.name = p.name))}
        /\ IsDatabase(After(d, o))
    BY <1>6, UndoingIs
  <2>. QED  BY <1>1, <2>2, <2>3
<1>. QED  BY <1>3, <1>5, <1>6

(* So for the whole script.                                                *)
LEMMA DownRuns ==
  ASSUME NEW i \in Ids, NEW db, IsDatabase(db), Ran(db, History[i].down) # Failure
  PROVE  LET d == Ran(db, History[i].down) IN
         IsDatabase(d) /\ d.schema = UndoneIn(db.schema, i, Len(History[i].down))
<1>1. PICK n : n = Len(History[i].down) /\ n \in 0..6
  BY AllFit DEF DownFits
<1>2. PICK f : IsRun(f, db, History[i].down, n) /\ Ran(db, History[i].down) = f[n]
  BY <1>1, RunIs
<1> DEFINE Good(k) == \/ f[k] = Failure
                      \/ IsDatabase(f[k]) /\ f[k].schema = UndoneIn(db.schema, i, k)
           Bad == {k \in 0..n : ~Good(k)}
<1>3. Bad = {}
  <2>. SUFFICES ASSUME Bad # {}  PROVE FALSE
    OBVIOUS
  <2>1. Bad \subseteq Nat
    BY <1>1
  <2>2. PICK k \in Bad : \A m \in Bad : k <= m
    <3>. HIDE DEF Bad
    <3>. QED  BY <2>1, LeastNat
  <2>3. k \in 0..n /\ ~Good(k)
    BY <2>2
  <2>4. k # 0
    <3>1. UndoneIn(db.schema, i, 0) = db.schema
      BY DEF UndoneIn, Undone
    <3>2. f[0] = db
      BY <1>2 DEF IsRun
    <3>. QED  BY <2>3, <3>1, <3>2
  <2>5. k \in 1..n /\ k - 1 \in 0..n /\ Good(k - 1)
    BY <1>1, <2>2, <2>3, <2>4
  <2>6. f[k] = Stepped(f[k - 1], History[i].down[k])
    BY <1>2, <2>5 DEF IsRun
  <2>7. f[k] # Failure /\ f[k - 1] # Failure /\ f[k] = After(f[k - 1], History[i].down[k])
    BY <2>3, <2>6 DEF Stepped
  <2>8. PICK d : d = f[k - 1]
    OBVIOUS
  <2>9. IsDatabase(d) /\ d.schema = UndoneIn(db.schema, i, k - 1) /\ k \in 1..Len(History[i].down)
    BY <1>1, <2>5, <2>7, <2>8
  <2>10. /\ IsDatabase(After(d, History[i].down[k]))
         /\ After(d, History[i].down[k]).schema = UndoneIn(db.schema, i, k)
    BY <2>9, DownStep
  <2>. QED  BY <2>3, <2>7, <2>8, <2>10
<1>4. Good(n)
  BY <1>1, <1>3
<1>. QED  BY <1>1, <1>2, <1>4

(* A revision that can be reverted leaves nothing behind that comes after  *)
(* it.                                                                     *)
LEMMA LatestIsLast ==
  ASSUME NEW J, Closed(J), NEW i \in Ids, Closed(J \ {Id(i)}), NEW j \in Ids, Id(j) \in J
  PROVE  ~Before(i, j)
<1>. SUFFICES ASSUME Before(i, j)  PROVE FALSE
  OBVIOUS
<1>1. i # j
  BY DEF Before, Ids
<1>2. Id(j) \in J \ {Id(i)}
  BY <1>1, RevisionsAre
<1>. QED  BY <1>2, ClosedIs

(* What it takes away is what the revision made, and the shared columns.   *)
LEMMA UndoneIsMade ==
  ASSUME NEW J, Closed(J), NEW i \in Ids, Id(i) \in J, Closed(J \ {Id(i)}),
         NEW j \in Ids, Id(j) \in J, NEW p \in Made(j)
  PROVE  Undone(History[i].down, Len(History[i].down), p.table, p.name) <=>
           j = i \/ (i = 22 /\ Shared(p))
<1>0. DownFits(i)
  BY AllFit
<1>1. ~Before(i, j)
  BY LatestIsLast
<1>2. PICK x : x = Rank(p.table, p.name) /\ x \in Nat
  BY RankHasBand
<1>3. PICK y : y = Rank(p.table, "itself") /\ y \in Nat
  BY RankHasBand
<1>4. /\ p.name = "itself" => InBand(j, x) /\ x = y
      /\ p.name # "itself" => Earlier(j, y) /\ (InBand(j, x) \/ (j = 22 /\ 210 < x /\ x < 214))
  BY <1>2, <1>3, MadeIs DEF Shared
<1>5. ~(InBand(i, y) /\ Earlier(j, y))
  BY <1>1, <1>3 DEF Before, InBand, Earlier, Ids
<1>6. ASSUME Undone(History[i].down, Len(History[i].down), p.table, p.name)
      PROVE  j = i \/ (i = 22 /\ Shared(p))
  <2>1. PICK m \in 1..Len(History[i].down) :
          /\ History[i].down[m].op \in {"drop", "remove", "discard"}
          /\ History[i].down[m].table = p.table
          /\ History[i].down[m].op = "drop" \/ History[i].down[m].name = p.name
    BY <1>6 DEF Undone
  <2>2. ReversalFits(i, m, History[i].down)
    BY <1>0, <2>1 DEF DownFits
  <2>3. CASE History[i].down[m].op = "drop"
    <3>1. InBand(i, y)
      BY <1>3, <2>1, <2>2, <2>3 DEF ReversalFits
    <3>2. InBand(j, y)
      BY <1>4, <1>5, <3>1
    <3>. QED  BY <1>3, <3>1, <3>2, BandsDiffer
  <2>4. CASE History[i].down[m].op = "remove"
    <3>1. InBand(i, x) /\ p.name # "itself"
      BY <1>2, <2>1, <2>2, <2>4 DEF ReversalFits
    <3>2. CASE InBand(j, x)
      BY <1>2, <3>1, <3>2, BandsDiffer
    <3>3. CASE j = 22 /\ 210 < x /\ x < 214
      <4>1. i = 21
        BY <1>2, <3>1, <3>3 DEF InBand, Ids
      <4>. QED  BY <1>1, <3>3, <4>1 DEF Before
    <3>. QED  BY <1>4, <3>1, <3>2, <3>3
  <2>5. CASE History[i].down[m].op = "discard"
    <3>1. i = 22 /\ p.name # "itself" /\ 210 < x /\ (InBand(21, x) => x <= 213)
      BY <1>2, <2>1, <2>2, <2>5 DEF ReversalFits
    <3>2. CASE x <= 213
      BY <1>2, <3>1, <3>2 DEF Shared
    <3>3. CASE x > 213
      <4>1. InBand(j, x) /\ ~InBand(21, x)
        BY <1>2, <1>4, <3>1, <3>3
      <4>2. j <= 22
        BY <1>1, <3>1 DEF Before, Ids
      <4>3. j # 21
        BY <4>1
      <4>4. j = 22
        BY <1>2, <3>3, <4>1, <4>2, <4>3 DEF InBand, Ids
      <4>. QED  BY <3>1, <4>4
    <3>. QED  BY <1>2, <3>2, <3>3
  <2>. QED  BY <2>1, <2>3, <2>4, <2>5
<1>7. ASSUME i = 22, Shared(p)
      PROVE  Undone(History[i].down, Len(History[i].down), p.table, p.name)
  <2>1. /\ p.table = "employees"
        /\ p.name \in {"contract_type", "external_company_name", "ix_employees_contract_type"}
    BY <1>7 DEF Shared, Rank
  <2>. QED  BY <1>7, <2>1, InventoryRevisionScripts DEF Undone, RemovePartIfThere
<1>8. ASSUME j = i
      PROVE  Undone(History[i].down, Len(History[i].down), p.table, p.name)
  <2>1. CASE InBand(i, x)
    BY <1>0, <1>2, <2>1 DEF DownFits
  <2>2. CASE ~InBand(i, x)
    BY <1>2, <1>4, <1>7, <1>8, <2>2 DEF Shared
  <2>. QED  BY <2>1, <2>2
<1>. QED  BY <1>6, <1>7, <1>8

(* What is left is the schema of the other revisions.                      *)
LEMMA DownRunFits ==
  ASSUME NEW J, Closed(J), NEW i \in Ids, Id(i) \in J, Closed(J \ {Id(i)}), NEW s, Fits(s, J)
  PROVE  Fits(UndoneIn(s, i, Len(History[i].down)), J \ {Id(i)})
<1>1. \A j \in Ids : Id(j) \in J \ {Id(i)} <=> Id(j) \in J /\ j # i
  BY RevisionsAre
<1> DEFINE U(p) == Undone(History[i].down, Len(History[i].down), p.table, p.name)
<1>2. \A j \in Ids : Id(j) \in J => \A p \in Made(j) : U(p) <=> j = i \/ (i = 22 /\ Shared(p))
  BY UndoneIsMade
<1>3. HalfReverted(J) => i = 21
  <2>1. SUFFICES ASSUME HalfReverted(J)  PROVE i = 21
    OBVIOUS
  <2>2. 21 \in Ids /\ 22 \in Ids /\ Id(21) \in J /\ Id(22) \notin J
    BY <2>1 DEF HalfReverted, Ids
  <2>3. ~Before(i, 21)
    BY <2>2, LatestIsLast
  <2>4. ~Before(22, i) /\ i # 22
    BY <2>2, ClosedIs
  <2>. QED  BY <2>3, <2>4 DEF Before, Ids
<1>. HIDE DEF U
<1>4. UndoneIn(s, i, Len(History[i].down)) = {p \in s : ~U(p)}
  BY DEF UndoneIn, U
<1>5. CASE i = 22
  <2>1. 21 \in Ids /\ 22 \in Ids /\ Before(21, 22)
    BY DEF Ids, Before
  <2>2. HalfReverted(J \ {Id(i)})
    <3>1. Id(21) \in J
      BY <1>5, <2>1, ClosedIs
    <3>. QED  BY <1>1, <1>5, <2>1, <3>1 DEF HalfReverted
  <2>3. s = Shape(J)
    BY <1>3, <1>5 DEF Fits
  <2>4. {p \in s : ~U(p)} = {p \in Shape(J \ {Id(i)}) : ~Shared(p)}
    BY <1>1, <1>2, <1>5, <2>3 DEF Shape
  <2>. QED  BY <1>4, <2>2, <2>4 DEF Fits
<1>6. CASE i # 22
  <2>1. {p \in Shape(J) : ~U(p)} = Shape(J \ {Id(i)})
    BY <1>1, <1>2, <1>6 DEF Shape
  <2>2. CASE s = Shape(J)
    BY <1>4, <2>1, <2>2 DEF Fits
  <2>3. CASE HalfReverted(J) /\ s = {p \in Shape(J) : ~Shared(p)}
    <3>1. i = 21 /\ Id(22) \notin J
      BY <1>3, <2>3 DEF HalfReverted
    <3>2. \A p \in Shape(J \ {Id(i)}) : ~Shared(p)
      <4>1. SUFFICES ASSUME NEW p \in Shape(J \ {Id(i)}), Shared(p)  PROVE FALSE
        OBVIOUS
      <4>2. PICK j \in Ids : Id(j) \in J /\ j # i /\ p \in Made(j)
        BY <1>1 DEF Shape
      <4>3. PICK x : x = Rank(p.table, p.name) /\ x \in Nat
        BY RankHasBand
      <4>4. InBand(j, x)
        BY <3>1, <4>2, <4>3, MadeIs
      <4>. QED  BY <3>1, <4>1, <4>2, <4>3, <4>4 DEF Shared, InBand, Ids
    <3>3. {p \in s : ~U(p)} = Shape(J \ {Id(i)})
      BY <2>1, <2>3, <3>2
    <3>. QED  BY <1>4, <3>3 DEF Fits
  <2>. QED  BY <2>2, <2>3 DEF Fits
<1>. QED  BY <1>5, <1>6

-----------------------------------------------------------------------------
(* Reverting anything but a1b2c3d4e5f6 succeeds                            *)

(* The next operation of the reversal applies.                             *)
LEMMA DownApplies ==
  ASSUME NEW J, Closed(J), NEW i \in Ids, Id(i) \in J, Closed(J \ {Id(i)}),
         NEW k \in 1..Len(History[i].down), NEW d, IsDatabase(d),
         d.schema = UndoneIn(Shape(J), i, k - 1)
  PROVE  Applies(d, History[i].down[k])
<1>1. PICK o : o = History[i].down[k]
  OBVIOUS
<1>2. DownFits(i) /\ Len(History[i].down) \in 0..6 /\ ReversalFits(i, k, History[i].down)
  BY AllFit DEF DownFits
<1>3. Fits(Shape(J), J)
  BY DEF Fits
<1>4. CASE o.op = "drop"
  <2>1. /\ InBand(i, Rank(o.table, "itself"))
        /\ ~Undone(History[i].down, k - 1, o.table, "itself")
        /\ \A t : InBand(i, Rank(t, "itself")) /\ Rank(o.table, "itself") < Rank(t, "itself")
                    => Undone(History[i].down, k - 1, t, "itself")
    BY <1>1, <1>2, <1>4 DEF ReversalFits
  <2>2. HasTable(d.schema, o.table)
    <3>1. PICK p \in Made(i) : p.table = o.table /\ p.name = "itself"
      BY <2>1, RankedIsMade
    <3>2. p \in d.schema
      BY <2>1, <3>1 DEF UndoneIn, Shape
    <3>. QED  BY <3>1, <3>2 DEF HasTable, Has
  <2>3. ASSUME NEW p \in d.schema, o.table \in p.refs, p.table # o.table  PROVE FALSE
    <3>1. PICK j \in Ids : Id(j) \in J /\ p \in Made(j)
      BY <2>3, <1>3, FittingIsMade DEF UndoneIn
    <3>2. PICK x : x = Rank(o.table, "itself") /\ x \in Nat /\ InBand(i, x)
      BY <2>1, RankHasBand
    <3>3. \/ Earlier(j, x)
          \/ p.name = "itself" /\ InBand(j, x) /\ x < Rank(p.table, p.name)
      BY <2>3, <3>1, <3>2, MadeIs
    <3>4. ~Earlier(j, x)
      <4>1. ~Before(i, j)
        BY <3>1, LatestIsLast
      <4>. QED  BY <3>2, <4>1 DEF Before, InBand, Earlier, Ids
    <3>5. p.name = "itself" /\ i = j /\ x < Rank(p.table, "itself")
      BY <3>2, <3>3, <3>4, BandsDiffer
    <3>6. InBand(i, Rank(p.table, "itself"))
      BY <3>1, <3>5, MadeIs
    <3>7. Undone(History[i].down, k - 1, p.table, p.name)
      BY <2>1, <3>2, <3>5, <3>6
    <3>. QED  BY <2>3, <3>7 DEF UndoneIn
  <2>. QED  BY <1>1, <1>4, <2>2, <2>3 DEF Applies
<1>5. CASE o.op = "remove"
  <2>1. InBand(i, Rank(o.table, o.name)) /\ ~Undone(History[i].down, k - 1, o.table, o.name)
    BY <1>1, <1>2, <1>5 DEF ReversalFits
  <2>2. PICK p \in Made(i) : p.table = o.table /\ p.name = o.name
    BY <2>1, RankedIsMade
  <2>3. p \in d.schema
    BY <2>1, <2>2 DEF UndoneIn, Shape
  <2>4. Has(d.schema, o.table, o.name)
    BY <2>2, <2>3 DEF Has
  <2>. QED  BY <1>1, <1>5, <2>4 DEF Applies
<1>6. ASSUME NEW t, Earlier(i, Rank(t, "itself"))
      PROVE  HasTable(d.schema, t)
  <2>1. \A j \in Ids : Before(j, i) => Id(j) \in J
    BY ClosedIs
  <2>2. HasTable(Shape(J), t)
    BY <1>3, <1>6, <2>1, FittingHasTable
  <2>3. PICK p \in Shape(J) : p.table = t /\ p.name = "itself"
    BY <2>2 DEF HasTable, Has
  <2>4. ASSUME Undone(History[i].down, k - 1, t, "itself")  PROVE FALSE
    <3>1. PICK m \in 1..(k - 1) :
            /\ History[i].down[m].op \in {"drop", "remove", "discard"}
            /\ History[i].down[m].table = t
            /\ History[i].down[m].op = "drop" \/ History[i].down[m].name = "itself"
      BY <2>4 DEF Undone
    <3>2. m \in 1..Len(History[i].down)
      BY <1>2, <3>1
    <3>3. ReversalFits(i, m, History[i].down)
      BY <1>2, <3>2 DEF DownFits
    <3>4. InBand(i, Rank(t, "itself"))
      BY <3>1, <3>3 DEF ReversalFits
    <3>5. PICK x : x = Rank(t, "itself") /\ x \in Nat
      BY RankHasBand
    <3>. QED  BY <1>6, <3>4, <3>5 DEF InBand, Earlier, Ids
  <2>5. p \in d.schema
    BY <2>3, <2>4 DEF UndoneIn
  <2>. QED  BY <2>3, <2>5 DEF HasTable, Has
<1>7. CASE o.op = "discard"
  <2>1. Earlier(i, Rank(o.table, "itself"))
    BY <1>1, <1>2, <1>7 DEF ReversalFits
  <2>2. HasTable(d.schema, o.table)
    BY <1>6, <2>1
  <2>. QED  BY <1>1, <1>7, <2>2 DEF Applies
<1>8. CASE o.op = "unseed"
  <2>1. i > 4 /\ i \in 1..24
    BY <1>1, <1>2, <1>8 DEF ReversalFits, Ids
  <2>2. Earlier(i, 42)
    BY <2>1 DEF Earlier, InBand
  <2>3. Earlier(i, Rank("job_title_permissions", "itself"))
    BY <2>2, RankIs
  <2>4. HasTable(d.schema, "job_title_permissions")
    BY <1>6, <2>3
  <2>. QED  BY <1>1, <1>8, <2>4 DEF Applies
<1>9. o.op \in {"drop", "remove", "discard", "unseed"}
  BY <1>1, <1>2 DEF ReversalFits
<1>. QED  BY <1>1, <1>4, <1>5, <1>7, <1>8, <1>9

(* So does the whole reversal.                                             *)
LEMMA DownSucceeds ==
  ASSUME NEW J, Closed(J), NEW i \in Ids, Id(i) \in J, Closed(J \ {Id(i)}), i # 21,
         NEW db, IsDatabase(db), Fits(db.schema, J)
  PROVE  Ran(db, History[i].down) # Failure
<1>1. PICK n : n = Len(History[i].down) /\ n \in 0..6
  BY AllFit DEF DownFits
<1>2. PICK f : IsRun(f, db, History[i].down, n) /\ Ran(db, History[i].down) = f[n]
  BY <1>1, RunIs
<1>3. db.schema = Shape(J)
  <2>1. SUFFICES ASSUME HalfReverted(J)  PROVE FALSE
    BY DEF Fits
  <2>2. 21 \in Ids /\ 22 \in Ids /\ Id(21) \in J /\ Id(22) \notin J
    BY <2>1 DEF HalfReverted, Ids
  <2>3. ~Before(i, 21)
    BY <2>2, LatestIsLast
  <2>4. ~Before(22, i) /\ i # 22
    BY <2>2, ClosedIs
  <2>. QED  BY <2>3, <2>4 DEF Before, Ids
<1> DEFINE Good(k) == /\ f[k] # Failure /\ IsDatabase(f[k])
                      /\ f[k].schema = UndoneIn(Shape(J), i, k)
           Bad == {k \in 0..n : ~Good(k)}
<1>4. \A k \in 0..n : \A p \in UndoneIn(Shape(J), i, k) : Rank(p.table, "itself") # 0
  <2>1. \A p \in Shape(J) : Rank(p.table, "itself") # 0
    BY <1>3, FittingIsNoFailure
  <2>. QED  BY <2>1 DEF UndoneIn
<1>5. Bad = {}
  <2>. SUFFICES ASSUME Bad # {}  PROVE FALSE
    OBVIOUS
  <2>1. Bad \subseteq Nat
    BY <1>1
  <2>2. PICK k \in Bad : \A m \in Bad : k <= m
    <3>. HIDE DEF Bad
    <3>. QED  BY <2>1, LeastNat
  <2>3. k \in 0..n /\ ~Good(k)
    BY <2>2
  <2>4. k # 0
    <3>1. UndoneIn(Shape(J), i, 0) = Shape(J)
      BY DEF UndoneIn, Undone
    <3>2. f[0] = db
      BY <1>2 DEF IsRun
    <3>3. db # Failure
      BY FailureIs, FittingIsNoFailure
    <3>. QED  BY <1>3, <2>3, <3>1, <3>2, <3>3
  <2>5. k \in 1..n /\ k - 1 \in 0..n /\ Good(k - 1)
    BY <1>1, <2>2, <2>3, <2>4
  <2>6. PICK d : d = f[k - 1]
    OBVIOUS
  <2>7. /\ IsDatabase(d) /\ d.schema = UndoneIn(Shape(J), i, k - 1)
        /\ k \in 1..Len(History[i].down)
    BY <1>1, <2>5, <2>6
  <2>8. Applies(d, History[i].down[k])
    BY <2>7, DownApplies
  <2>9. f[k] = After(d, History[i].down[k])
    BY <1>2, <2>5, <2>6, <2>8 DEF IsRun, Stepped
  <2>10. IsDatabase(f[k]) /\ f[k].schema = UndoneIn(Shape(J), i, k)
    BY <2>7, <2>9, DownStep
  <2>11. f[k] # Failure
    BY <1>4, <2>3, <2>10, FailureIs
  <2>. QED  BY <2>3, <2>10, <2>11
<1>6. Good(n)
  BY <1>1, <1>5
<1>. QED  BY <1>2, <1>6

-----------------------------------------------------------------------------
(* Permission rows, on any schema                                          *)

(* Permission rows and grants are there only with their tables, and a      *)
(* grant only with its permission.                                         *)
PermissionsKept(d) ==
  /\ IsDatabase(d)
  /\ HasTable(d.schema, "job_title_permissions") => HasTable(d.schema, "permissions")
  /\ d.permitted # {} => HasTable(d.schema, "permissions")
  /\ d.titleHas # {} => HasTable(d.schema, "job_title_permissions")
  /\ d.titleHas \subseteq KnownTitles \X d.permitted

(* Operations that leave it so.                                            *)
KeepsPermissions(o) ==
  \/ o.op = "create" /\ (o.part.table = "job_title_permissions" => "permissions" \in o.part.refs)
  \/ o.op \in {"add", "ensure"} /\ o.part.name # "itself"
  \/ o.op = "drop" /\ o.table # "permissions"
  \/ o.op \in {"remove", "discard"} /\ o.name # "itself"
  \/ o.op \in {"seed", "unseed"}

(* A failed command leaves no rows.                                        *)
LEMMA FailureKeepsPermissions == PermissionsKept(Failure)
<1>1. \A p \in Failure.schema : p.table = "a failed command"
  <2>1. Failure.schema = {Part("a failed command", "itself", {})}
    BY DEF Failure
  <2>2. Part("a failed command", "itself", {}).table = "a failed command"
    BY DEF Part
  <2>. QED  BY <2>1, <2>2
<1>2. Failure.permitted = {} /\ Failure.titleHas = {}
  BY DEF Failure
<1>. QED  BY <1>1, <1>2, FailureIs DEF PermissionsKept, HasTable, Has

(* Neither a failing nor a succeeding operation breaks it.                 *)
LEMMA StepKeepsPermissions ==
  ASSUME NEW d, PermissionsKept(d), NEW o, KeepsPermissions(o)
  PROVE  PermissionsKept(Stepped(d, o))
<1>1. CASE Stepped(d, o) = Failure
  BY <1>1, FailureKeepsPermissions
<1>2. CASE Stepped(d, o) # Failure
  <2>1. Applies(d, o) /\ Stepped(d, o) = After(d, o)
    BY <1>2 DEF Stepped
  <2>2. PICK e : e = After(d, o)
    OBVIOUS
  <2>3. IsDatabase(d)
    BY DEF PermissionsKept
  <2>4. CASE Makes(o)
    <3>1. e = [schema |-> d.schema \cup {o.part}, permitted |-> d.permitted,
               titleHas |-> d.titleHas]
      BY <2>2, <2>3, <2>4, MakingIs
    <3>2. IsDatabase(e) /\ e.schema = d.schema \cup {o.part}
            /\ e.permitted = d.permitted /\ e.titleHas = d.titleHas
      BY <3>1 DEF IsDatabase
    <3>3. \A t : HasTable(d.schema, t) => HasTable(e.schema, t)
      BY <3>2 DEF HasTable, Has
    <3>4. HasTable(e.schema, "job_title_permissions") => HasTable(e.schema, "permissions")
      <4>1. CASE HasTable(d.schema, "job_title_permissions")
        BY <3>3, <4>1 DEF PermissionsKept
      <4>2. CASE o.op = "create" /\ o.part.table = "job_title_permissions"
        <5>1. "permissions" \in o.part.refs \ {o.part.table}
          BY <4>2 DEF KeepsPermissions
        <5>2. HasTable(d.schema, "permissions")
          BY <2>1, <4>2, <5>1 DEF Applies
        <5>. QED  BY <3>3, <5>2
      <4>3. CASE /\ ~HasTable(d.schema, "job_title_permissions")
                 /\ ~(o.op = "create" /\ o.part.table = "job_title_permissions")
        <5>1. ~HasTable(e.schema, "job_title_permissions")
          BY <2>4, <3>2, <4>3 DEF HasTable, Has, KeepsPermissions, Makes
        <5>. QED  BY <5>1
      <4>. QED  BY <4>1, <4>2, <4>3
    <3>. QED  BY <2>1, <2>2, <3>2, <3>3, <3>4 DEF PermissionsKept
  <2>5. CASE o.op \in {"drop", "remove", "discard"}
    <3>1. /\ e.schema =
               {p \in d.schema : ~(p.table = o.table /\ (o.op = "drop" \/ o.name = p.name))}
          /\ e.permitted = d.permitted
          /\ e.titleHas =
               IF o.op = "drop" /\ o.table = "job_title_permissions" THEN {} ELSE d.titleHas
          /\ IsDatabase(e)
      BY <2>2, <2>3, <2>5, UndoingIs DEF KeepsPermissions
    <3>2. HasTable(d.schema, "permissions") => HasTable(e.schema, "permissions")
      BY <2>5, <3>1 DEF HasTable, Has, KeepsPermissions
    <3>3. HasTable(e.schema, "job_title_permissions") => HasTable(d.schema, "job_title_permissions")
      BY <3>1 DEF HasTable, Has
    <3>4. ~(o.op = "drop" /\ o.table = "job_title_permissions") =>
            (HasTable(d.schema, "job_title_permissions")
               => HasTable(e.schema, "job_title_permissions"))
      BY <2>5, <3>1 DEF HasTable, Has, KeepsPermissions
    <3>. QED  BY <2>1, <2>2, <3>1, <3>2, <3>3, <3>4 DEF PermissionsKept
  <2>6. CASE o.op = "seed"
    <3>1. e = [schema |-> d.schema, permitted |-> d.permitted \cup o.codes,
               titleHas |-> d.titleHas \cup ((o.titles \cap KnownTitles) \X o.codes)]
      BY <2>2, <2>3, <2>6, SeedingIs
    <3>2. /\ IsDatabase(e) /\ e.schema = d.schema /\ e.permitted = d.permitted \cup o.codes
          /\ e.titleHas = d.titleHas \cup ((o.titles \cap KnownTitles) \X o.codes)
      BY <3>1 DEF IsDatabase
    <3>3. HasTable(d.schema, "job_title_permissions")
      BY <2>1, <2>6 DEF Applies
    <3>. QED  BY <2>1, <2>2, <3>2, <3>3 DEF PermissionsKept
  <2>7. CASE o.op = "unseed"
    <3>1. e = [schema |-> d.schema, permitted |-> d.permitted \ o.codes,
               titleHas |-> {g \in d.titleHas : g[2] \notin o.codes}]
      BY <2>2, <2>3, <2>7, SeedingIs
    <3>2. /\ IsDatabase(e) /\ e.schema = d.schema /\ e.permitted = d.permitted \ o.codes
          /\ e.titleHas = {g \in d.titleHas : g[2] \notin o.codes}
      BY <3>1 DEF IsDatabase
    <3>3. HasTable(d.schema, "job_title_permissions")
      BY <2>1, <2>7 DEF Applies
    <3>. QED  BY <2>1, <2>2, <3>2, <3>3 DEF PermissionsKept
  <2>. QED  BY <2>4, <2>5, <2>6, <2>7 DEF KeepsPermissions, Makes
<1>. QED  BY <1>1, <1>2

(* Nor does a script of such operations.                                   *)
LEMMA RunKeepsPermissions ==
  ASSUME NEW db, PermissionsKept(db), NEW script, NEW n \in Nat, n = Len(script),
         \A k \in 1..n : KeepsPermissions(script[k])
  PROVE  PermissionsKept(Ran(db, script))
<1>1. PICK f : IsRun(f, db, script, n) /\ Ran(db, script) = f[n]
  BY RunIs
<1> DEFINE Bad == {k \in 0..n : ~PermissionsKept(f[k])}
<1>2. Bad = {}
  <2>. SUFFICES ASSUME Bad # {}  PROVE FALSE
    OBVIOUS
  <2>1. Bad \subseteq Nat
    OBVIOUS
  <2>2. PICK k \in Bad : \A m \in Bad : k <= m
    <3>. HIDE DEF Bad
    <3>. QED  BY <2>1, LeastNat
  <2>3. k \in 0..n /\ ~PermissionsKept(f[k])
    BY <2>2
  <2>4. k # 0
    BY <1>1, <2>3 DEF IsRun
  <2>5. k \in 1..n /\ k - 1 \in 0..n /\ PermissionsKept(f[k - 1])
    BY <2>2, <2>3, <2>4
  <2>6. f[k] = Stepped(f[k - 1], script[k]) /\ KeepsPermissions(script[k])
    BY <1>1, <2>5 DEF IsRun
  <2>7. PermissionsKept(Stepped(f[k - 1], script[k]))
    BY <2>5, <2>6, StepKeepsPermissions
  <2>. QED  BY <2>3, <2>6, <2>7
<1>3. n \in 0..n
  OBVIOUS
<1>. QED  BY <1>1, <1>2, <1>3

(* The grants are made after the permissions they reference.               *)
LEMMA UpKeepsPermissions ==
  ASSUME NEW db, PermissionsKept(db), NEW i \in Ids
  PROVE  PermissionsKept(Ran(db, History[i].up))
<1>1. PICK n : n = Len(History[i].up) /\ n \in 0..6
  BY AllFit DEF UpFits
<1>2. ASSUME NEW k \in 1..n  PROVE KeepsPermissions(History[i].up[k])
  <2>1. OperationFits(i, k, History[i].up[k]) /\ k \in 1..6 /\ i \in 1..24
    BY <1>1, OperationIs
  <2>2. CASE i # 4
    <3>1. 10 * i + k # 42
      BY <2>1, <2>2
    <3>2. History[i].up[k].op = "create"
            => Rank(History[i].up[k].part.table, "itself") = 10 * i + k
      BY <2>1 DEF OperationFits
    <3>3. History[i].up[k].op = "create" => History[i].up[k].part.table # "job_title_permissions"
      BY <3>1, <3>2, RankIs
    <3>. QED  BY <2>1, <3>3 DEF OperationFits, KeepsPermissions
  <2>3. CASE i = 4
    BY <1>1, <2>3, PermissionTablesScripts DEF KeepsPermissions, CreateTable, Part
  <2>. QED  BY <2>2, <2>3
<1>3. n \in Nat
  BY <1>1
<1>. QED  BY <1>1, <1>2, <1>3, RunKeepsPermissions

(* And dropped before them: 1f30147b4dea drops the grants first.           *)
LEMMA DownKeepsPermissions ==
  ASSUME NEW db, PermissionsKept(db), NEW i \in Ids
  PROVE  PermissionsKept(Ran(db, History[i].down))
<1>1. PICK n : n = Len(History[i].down) /\ n \in 0..6
  BY AllFit DEF DownFits
<1>2. n \in Nat
  BY <1>1
<1>3. CASE i # 4
  <2>1. ASSUME NEW k \in 1..n  PROVE KeepsPermissions(History[i].down[k])
    <3>1. ReversalFits(i, k, History[i].down)
      BY <1>1, AllFit DEF DownFits
    <3>2. History[i].down[k].op = "drop" => Rank(History[i].down[k].table, "itself") # 41
      BY <1>3, <3>1 DEF ReversalFits, InBand, Ids
    <3>3. History[i].down[k].op = "drop" => History[i].down[k].table # "permissions"
      BY <3>2, RankIs
    <3>. QED  BY <3>1, <3>3 DEF ReversalFits, KeepsPermissions
  <2>. QED  BY <1>1, <1>2, <2>1, RunKeepsPermissions
<1>4. CASE i = 4
  <2>1. /\ n = 2 /\ History[i].down[1] = DropTable("job_title_permissions")
        /\ History[i].down[2] = DropTable("permissions")
    BY <1>1, <1>4, PermissionTablesScripts
  <2>2. PICK f : IsRun(f, db, History[i].down, n) /\ Ran(db, History[i].down) = f[n]
    BY <1>1, <1>2, RunIs
  <2>3. /\ f[1] = Stepped(db, DropTable("job_title_permissions"))
        /\ f[2] = Stepped(f[1], DropTable("permissions"))
    BY <2>1, <2>2 DEF IsRun
  <2>4. PermissionsKept(f[1])
    <3>1. KeepsPermissions(DropTable("job_title_permissions"))
      BY DEF KeepsPermissions, DropTable
    <3>. QED  BY <2>3, <3>1, StepKeepsPermissions
  <2>5. CASE f[2] = Failure
    BY <2>1, <2>2, <2>5, FailureKeepsPermissions
  <2>6. CASE f[2] # Failure
    <3>1. PICK d : d = f[1]
      OBVIOUS
    <3>2. d # Failure /\ f[2] = After(d, DropTable("permissions")) /\ IsDatabase(d)
      BY <2>3, <2>4, <2>6, <3>1 DEF Stepped, PermissionsKept
    <3>3. d = After(db, DropTable("job_title_permissions"))
      BY <2>3, <3>1, <3>2 DEF Stepped
    <3>4. \A p \in d.schema : p.table # "job_title_permissions"
      BY <3>3, UndoingIs DEF DropTable, PermissionsKept
    <3>5. ~HasTable(d.schema, "job_title_permissions") /\ d.titleHas = {}
      BY <2>4, <3>1, <3>4 DEF PermissionsKept, HasTable, Has
    <3>6. PICK e : e = After(d, DropTable("permissions"))
      OBVIOUS
    <3>7. /\ e.permitted = {} /\ e.titleHas = {} /\ IsDatabase(e) /\ e.schema \subseteq d.schema
      BY <3>2, <3>5, <3>6, UndoingIs DEF DropTable
    <3>8. PermissionsKept(e)
      BY <3>5, <3>7 DEF PermissionsKept, HasTable, Has
    <3>. QED  BY <2>1, <2>2, <3>2, <3>6, <3>8
  <2>. QED  BY <2>5, <2>6
<1>. QED  BY <1>3, <1>4

(* An upgrade is a walk of such scripts.                                   *)
LEMMA UpgradeKeepsPermissions ==
  ASSUME NEW db, PermissionsKept(db), NEW ids
  PROVE  PermissionsKept(Upgraded(db, ids))
<1>1. PICK f : IsUpgrade(f, db, ids, 24) /\ Upgraded(db, ids) = f[24]
  BY HistoryIs, UpgradeIs
<1> DEFINE Bad == {k \in 0..24 : ~PermissionsKept(f[k])}
<1>2. Bad = {}
  <2>. SUFFICES ASSUME Bad # {}  PROVE FALSE
    OBVIOUS
  <2>1. Bad \subseteq Nat
    OBVIOUS
  <2>2. PICK k \in Bad : \A m \in Bad : k <= m
    <3>. HIDE DEF Bad
    <3>. QED  BY <2>1, LeastNat
  <2>3. k \in 0..24 /\ ~PermissionsKept(f[k])
    BY <2>2
  <2>4. k # 0
    BY <1>1, <2>3 DEF IsUpgrade
  <2>5. k \in 1..24 /\ k - 1 \in 0..24 /\ PermissionsKept(f[k - 1])
    BY <2>2, <2>3, <2>4
  <2>6. f[k] = Renewed(f[k - 1], History[k], ids)
    BY <1>1, <2>5 DEF IsUpgrade
  <2>7. PermissionsKept(Ran(f[k - 1], History[k].up))
    BY <2>5, UpKeepsPermissions DEF Ids
  <2>. QED  BY <2>3, <2>5, <2>6, <2>7, FailureKeepsPermissions DEF Renewed
<1>3. 24 \in 0..24
  OBVIOUS
<1>. QED  BY <1>1, <1>2, <1>3

-----------------------------------------------------------------------------
(* Upgrades to the head, and what create_all adds                          *)

(* Revisions that leave the applied ones closed apply together.            *)
LEMMA UpgradeRuns ==
  ASSUME NEW J, Closed(J), NEW ids, Closed(J \cup ids), ids \subseteq Identifiers, J \cap ids = {},
         NEW db, IsDatabase(db), Fits(db.schema, J)
  PROVE  LET d == Upgraded(db, ids) IN
         d # Failure /\ IsDatabase(d) /\ Fits(d.schema, J \cup ids)
<1>1. PICK f : IsUpgrade(f, db, ids, 24) /\ Upgraded(db, ids) = f[24]
  BY HistoryIs, UpgradeIs
<1> DEFINE K(n) == J \cup {Id(m) : m \in {x \in 1..n : Id(x) \in ids}}
           Good(n) == f[n] # Failure /\ IsDatabase(f[n]) /\ Fits(f[n].schema, K(n))
           Bad == {n \in 0..24 : ~Good(n)}
<1>2. \A n \in 0..24 : Closed(K(n))
  <2>1. SUFFICES ASSUME NEW n \in 0..24, NEW r \in Revisions, r.id \in K(n), NEW x \in r.follows
                 PROVE  x \in K(n)
    <3>1. \A m \in 0..24 : K(m) \subseteq J \cup ids
      OBVIOUS
    <3>2. \A m \in 0..24 : K(m) \subseteq Identifiers
      BY <3>1 DEF Closed
    <3>. QED  BY <2>1, <3>2 DEF Closed
  <2>2. CASE r.id \in J
    BY <2>1, <2>2 DEF Closed
  <2>3. CASE r.id \notin J
    <3>1. PICK m \in 1..n : Id(m) = r.id /\ Id(m) \in ids
      BY <2>1, <2>3
    <3>2. m \in Ids /\ r = History[m]
      <4>1. m \in Ids
        BY <3>1 DEF Ids
      <4>2. PICK j \in Ids : r = History[j]
        BY <2>1, RevisionsAre
      <4>3. Id(j) = Id(m)
        BY <3>1, <4>2 DEF Id
      <4>. QED  BY <4>1, <4>2, <4>3, RevisionsAre
    <3>3. PICK y \in 1..(m - 1) : x = Id(y)
      BY <2>1, <3>2, FollowsIs
    <3>4. x \in J \cup ids
      BY <2>1, <3>1 DEF Closed
    <3>5. y \in 1..n
      BY <3>1, <3>3
    <3>. QED  BY <3>3, <3>4, <3>5
  <2>. QED  BY <2>2, <2>3
<1>3. Bad = {}
  <2>. SUFFICES ASSUME Bad # {}  PROVE FALSE
    OBVIOUS
  <2>1. Bad \subseteq Nat
    OBVIOUS
  <2>2. PICK n \in Bad : \A m \in Bad : n <= m
    <3>. HIDE DEF Bad
    <3>. QED  BY <2>1, LeastNat
  <2>3. n \in 0..24 /\ ~Good(n)
    BY <2>2
  <2>4. n # 0
    <3>1. K(0) = J
      OBVIOUS
    <3>2. f[0] = db
      BY <1>1 DEF IsUpgrade
    <3>3. db # Failure
      BY FailureIs, FittingIsNoFailure
    <3>. QED  BY <2>3, <3>1, <3>2, <3>3
  <2>5. n \in Ids /\ n - 1 \in 0..24 /\ Good(n - 1)
    <3>. HIDE DEF Good
    <3>1. n \in Ids /\ n - 1 \in 0..24 /\ n - 1 \notin Bad
      BY <2>2, <2>3, <2>4 DEF Ids
    <3>. QED  BY <3>1
  <2>6. f[n] = Renewed(f[n - 1], History[n], ids)
    BY <1>1, <2>5 DEF IsUpgrade, Ids
  <2>7. 1..n = 1..(n - 1) \cup {n}
    BY <2>5 DEF Ids
  <2>8. CASE Id(n) \notin ids
    <3>1. K(n) = K(n - 1)
      BY <2>7, <2>8
    <3>2. f[n] = f[n - 1]
      BY <2>6, <2>8 DEF Renewed, Id
    <3>. QED  BY <2>3, <2>5, <3>1, <3>2
  <2>9. CASE Id(n) \in ids
    <3>1. K(n) = K(n - 1) \cup {Id(n)}
      BY <2>7, <2>9
    <3>2. Id(n) \notin K(n - 1)
      <4>1. \A m \in 1..(n - 1) : Id(m) # Id(n)
        BY <2>5, RevisionsAre DEF Ids
      <4>. QED  BY <2>9, <4>1
    <3>3. PICK s : s = f[n - 1].schema
      OBVIOUS
    <3>4. f[n] = Ran(f[n - 1], History[n].up)
      BY <2>5, <2>6, <2>9 DEF Renewed, Id
    <3>5. Closed(K(n - 1)) /\ Closed(K(n - 1) \cup {Id(n)})
      <4>1. Closed(K(n - 1)) /\ Closed(K(n))
        BY <1>2, <2>3, <2>5
      <4>. QED  BY <3>1, <4>1
    <3>6. Fits(s, K(n - 1)) /\ IsDatabase(f[n - 1])
      BY <2>5, <3>3
    <3>. HIDE DEF K
    <3>7. f[n] # Failure /\ IsDatabase(f[n]) /\ f[n].schema = s \cup Made(n)
      BY <2>5, <3>2, <3>3, <3>4, <3>5, <3>6, UpRuns
    <3>8. Fits(s \cup Made(n), K(n - 1) \cup {Id(n)})
      BY <2>5, <3>2, <3>5, <3>6, UpRunFits
    <3>. QED  BY <2>3, <3>1, <3>7, <3>8
  <2>. QED  BY <2>8, <2>9
<1>4. Good(24)
  <2>. HIDE DEF Good
  <2>1. 24 \in 0..24
    OBVIOUS
  <2>. QED  BY <1>3, <2>1
<1>5. K(24) = J \cup ids
  <2>1. \A x \in ids : \E m \in 1..24 : x = Id(m)
    BY RevisionsAre DEF Ids
  <2>. QED  BY <2>1
<1>. QED  BY <1>1, <1>4, <1>5

(* What the revisions make is what the models declare.                     *)
LEMMA RankedIsModelled ==
  ASSUME NEW t, NEW n
  PROVE  Rank(t, n) # 0 <=> \/ t \in ModelTables /\ n = "itself"
                            \/ <<t, n>> \in LateColumns
<1>1. t \in ModelTables <=> Rank(t, "itself") # 0
  BY DEF ModelTables, Rank, ToSet, RequestTables, AttendanceTables, MessageTables,
         AnnouncementTables, ScannerTables, BadgeTables
<1>2. <<t, n>> \in LateColumns <=> n # "itself" /\ Rank(t, n) # 0
  BY DEF LateColumns, Rank
<1>. QED  BY <1>1, <1>2

(* At the head the schema is what the models declare.                      *)
LEMMA HeadIsModelled ==
  ASSUME NEW s, Fits(s, Identifiers)
  PROVE  Parts(s) = {<<t, "itself">> : t \in ModelTables} \cup LateColumns
<1>1. s = Shape(Identifiers)
  <2>1. 22 \in Ids
    BY DEF Ids
  <2>. QED  BY <2>1, RevisionsAre DEF Fits, HalfReverted
<1>2. \A t, n : <<t, n>> \in Parts(s) <=> Rank(t, n) # 0
  <2>1. ASSUME NEW t, NEW n, <<t, n>> \in Parts(s)
        PROVE  Rank(t, n) # 0
    <3>1. PICK p \in s : p.table = t /\ p.name = n
      BY <2>1 DEF Parts
    <3>2. PICK j \in Ids : p \in Made(j)
      BY <1>1, <3>1 DEF Shape
    <3>3. InBand(j, Rank(t, n)) \/ Shared(p)
      BY <3>1, <3>2, MadeIs
    <3>. QED  BY <3>1, <3>3 DEF InBand, Shared, Ids
  <2>2. ASSUME NEW t, NEW n, Rank(t, n) # 0
        PROVE  <<t, n>> \in Parts(s)
    <3>1. PICK j \in Ids : InBand(j, Rank(t, n))
      BY <2>2, RankHasBand
    <3>2. PICK p \in Made(j) : p.table = t /\ p.name = n
      BY <3>1, RankedIsMade
    <3>3. p \in s
      BY <1>1, <3>2, RevisionsAre DEF Shape
    <3>. QED  BY <3>2, <3>3 DEF Parts
  <2>. QED  BY <2>1, <2>2
<1>3. \A x \in Parts(s) : x = <<x[1], x[2]>>
  BY DEF Parts
<1>4. \A x \in LateColumns : x = <<x[1], x[2]>>
  BY DEF LateColumns
<1>. QED  BY <1>2, <1>3, <1>4, RankedIsModelled

(* So create_all has nothing to do after the migrations.                   *)
LEMMA NothingToCreate ==
  ASSUME NEW d, Fits(d.schema, Identifiers)
  PROVE  Created(d) = {}
<1>1. ASSUME NEW t \in ModelTables  PROVE HasTable(d.schema, t)
  <2>1. <<t, "itself">> \in Parts(d.schema)
    BY HeadIsModelled
  <2>. QED  BY <2>1 DEF Parts, HasTable, Has
<1>. QED  BY <1>1 DEF Created

(* The tables create_all makes are empty.                                  *)
LEMMA CreatedKeepsPermissions ==
  ASSUME NEW d, PermissionsKept(d)
  PROVE  PermissionsKept([d EXCEPT !.schema = @ \cup Created(d)])
<1>1. PICK e : e = [d EXCEPT !.schema = @ \cup Created(d)]
  OBVIOUS
<1>2. /\ e.schema = d.schema \cup Created(d) /\ e.permitted = d.permitted
      /\ e.titleHas = d.titleHas /\ IsDatabase(e)
  BY <1>1 DEF PermissionsKept, IsDatabase
<1>3. \A t : HasTable(d.schema, t) => HasTable(e.schema, t)
  BY <1>2 DEF HasTable, Has
<1>4. HasTable(e.schema, "permissions")
  <2>1. "permissions" \in ModelTables
    BY DEF ModelTables
  <2>2. CASE ~HasTable(d.schema, "permissions")
    <3>1. Part("permissions", "itself", {}) \in e.schema
      BY <1>2, <2>1, <2>2 DEF Created
    <3>. QED  BY <3>1 DEF HasTable, Has, Part
  <2>. QED  BY <1>3, <2>2
<1>. QED  BY <1>1, <1>2, <1>3, <1>4 DEF PermissionsKept

-----------------------------------------------------------------------------
(* The commands                                                            *)

(* The inductive invariant.                                                *)
SchemaIInv ==
  /\ Closed(applied)
  /\ strayed \in BOOLEAN
  /\ PermissionsKept(Database)
  /\ ~strayed => Fits(schema, applied)

(* The database of a state.                                                *)
LEMMA DatabaseIs ==
  /\ Database.schema = schema /\ Database.permitted = permitted /\ Database.titleHas = titleHas
  /\ IsDatabase(Database)
BY DEF Database, IsDatabase

(* A revision that is due can be added to the applied ones.                *)
LEMMA DueIs ==
  ASSUME SchemaIInv, NEW r \in Due
  PROVE  \E i \in Ids : /\ r = History[i] /\ Id(i) = r.id /\ Id(i) \notin applied
                        /\ Closed(applied \cup {Id(i)})
<1>1. PICK i \in Ids : r = History[i]
  BY RevisionsAre DEF Due
<1>2. Id(i) \notin applied /\ History[i].follows \subseteq applied /\ Closed(applied)
  BY <1>1 DEF Due, Id, SchemaIInv
<1>3. Closed(applied \cup {Id(i)})
  BY <1>2, AddedIsClosed
<1>. QED  BY <1>1, <1>2, <1>3 DEF Id

(* One that none follows can be taken from them.                           *)
LEMMA LatestIs ==
  ASSUME SchemaIInv, NEW r \in Latest
  PROVE  \E i \in Ids : /\ r = History[i] /\ Id(i) = r.id /\ Id(i) \in applied
                        /\ Closed(applied \ {Id(i)})
<1>1. PICK i \in Ids : r = History[i]
  BY RevisionsAre DEF Latest
<1>2. /\ Id(i) \in applied /\ Closed(applied)
      /\ \A n \in Revisions : n.id \in applied => Id(i) \notin n.follows
  BY <1>1 DEF Latest, Id, SchemaIInv
<1>3. Closed(applied \ {Id(i)})
  BY <1>2, RemovedIsClosed
<1>. QED  BY <1>1, <1>2, <1>3 DEF Id

(* It applies.                                                             *)
LEMMA DueRuns ==
  ASSUME SchemaIInv, ~strayed, NEW i \in Ids, Id(i) \notin applied,
         Closed(applied \cup {Id(i)})
  PROVE  /\ Ran(Database, History[i].up) # Failure
         /\ Fits(Ran(Database, History[i].up).schema, applied \cup {Id(i)})
<1>1. Closed(applied) /\ Fits(Database.schema, applied) /\ IsDatabase(Database)
  BY DatabaseIs DEF SchemaIInv
<1>2. /\ Ran(Database, History[i].up) # Failure
      /\ Ran(Database, History[i].up).schema = Database.schema \cup Made(i)
  BY <1>1, UpRuns
<1>3. Fits(Database.schema \cup Made(i), applied \cup {Id(i)})
  BY <1>1, UpRunFits
<1>. QED  BY <1>2, <1>3

(* The migration to the head succeeds.                                     *)
LEMMA AtHeadFits ==
  ASSUME SchemaIInv, ~strayed
  PROVE  AtHead # Failure /\ Fits(AtHead.schema, Identifiers)
<1>1. Closed(applied) /\ Fits(Database.schema, applied) /\ IsDatabase(Database)
  BY DatabaseIs DEF SchemaIInv
<1>2. /\ applied \cup Outstanding = Identifiers /\ applied \cap Outstanding = {}
      /\ Outstanding \subseteq Identifiers
  BY <1>1 DEF Closed, Outstanding
<1>3. Closed(applied \cup Outstanding)
  BY <1>2, AllAreClosed
<1>. QED  BY <1>1, <1>2, <1>3, UpgradeRuns DEF AtHead

(* The invariant holds of the empty database.                              *)
LEMMA SchemaStarts ==
  ASSUME MigrationInit
  PROVE  SchemaIInv
<1>1. schema = {} /\ permitted = {} /\ titleHas = {} /\ applied = {} /\ strayed = FALSE
  BY DEF MigrationInit, Base
<1>2. PermissionsKept(Database)
  BY <1>1, DatabaseIs DEF PermissionsKept, HasTable, Has
<1>3. Fits(schema, applied)
  BY <1>1 DEF Fits, Shape
<1>. QED  BY <1>1, <1>2, <1>3, AllAreClosed DEF SchemaIInv

(* Every command keeps it.                                                 *)
LEMMA SchemaStep ==
  ASSUME SchemaIInv, [MigrationNext]_migrationVars
  PROVE  SchemaIInv'
<1> DEFINE Then == [schema |-> schema', permitted |-> permitted', titleHas |-> titleHas']
<1>1. Database' = Then
  BY DEF Database
<1>2. SUFFICES /\ Closed(applied') /\ strayed' \in BOOLEAN /\ PermissionsKept(Then)
               /\ ~strayed' => Fits(schema', applied')
  <2>1. PermissionsKept(Database)' <=> PermissionsKept(Then)
    BY <1>1 DEF PermissionsKept, IsDatabase, HasTable, Has
  <2>2. Closed(applied)' <=> Closed(applied')
    BY DEF Closed
  <2>3. Fits(schema, applied)' <=> Fits(schema', applied')
    BY DEF Fits, Shape, HalfReverted
  <2>. QED  BY <1>2, <2>1, <2>2, <2>3 DEF SchemaIInv
<1>3. /\ Closed(applied) /\ strayed \in BOOLEAN /\ PermissionsKept(Database)
      /\ ~strayed => Fits(schema, applied)
  BY DEF SchemaIInv
<1>4. ASSUME NEW db, PermissionsKept(db), BecomesDatabase(db)
      PROVE  Then = db
  BY <1>4 DEF BecomesDatabase, PermissionsKept, IsDatabase
<1>5. CASE UpgradeOne
  <2>1. PICK r \in Due : /\ BecomesDatabase(Ran(Database, r.up))
                         /\ applied' = applied \cup {r.id} /\ UNCHANGED strayed
    BY <1>5 DEF UpgradeOne
  <2>2. PICK i \in Ids : /\ r = History[i] /\ Id(i) = r.id /\ Id(i) \notin applied
                         /\ Closed(applied \cup {Id(i)})
    BY DueIs
  <2>3. PermissionsKept(Ran(Database, r.up))
    BY <1>3, <2>2, UpKeepsPermissions
  <2>4. Then = Ran(Database, r.up)
    BY <1>4, <2>1, <2>3
  <2>5. ~strayed => Fits(Ran(Database, r.up).schema, applied \cup {Id(i)})
    BY <2>2, DueRuns
  <2>6. schema' = Ran(Database, r.up).schema
    BY <2>1 DEF BecomesDatabase
  <2>. QED  BY <1>3, <2>1, <2>2, <2>3, <2>4, <2>5, <2>6
<1>6. CASE DowngradeOne
  <2>1. PICK r \in Latest : /\ Ran(Database, r.down) # Failure
                            /\ BecomesDatabase(Ran(Database, r.down))
                            /\ applied' = applied \ {r.id} /\ UNCHANGED strayed
    BY <1>6 DEF DowngradeOne
  <2>2. PICK i \in Ids : /\ r = History[i] /\ Id(i) = r.id /\ Id(i) \in applied
                         /\ Closed(applied \ {Id(i)})
    BY LatestIs
  <2>3. PermissionsKept(Ran(Database, r.down))
    BY <1>3, <2>2, DownKeepsPermissions
  <2>4. Then = Ran(Database, r.down)
    BY <1>4, <2>1, <2>3
  <2>5. schema' = UndoneIn(schema, i, Len(History[i].down))
    BY <2>1, <2>2, DatabaseIs, DownRuns DEF BecomesDatabase
  <2>6. ~strayed => Fits(schema', applied \ {Id(i)})
    BY <1>3, <2>2, <2>5, DownRunFits
  <2>. QED  BY <1>3, <2>1, <2>2, <2>3, <2>4, <2>6
<1>7. CASE StartMigrated
  <2>1. PICK db : db = [AtHead EXCEPT !.schema = @ \cup Created(AtHead)]
    OBVIOUS
  <2>2. /\ BecomesDatabase(db) /\ applied' = Identifiers
        /\ strayed' = (strayed \/ Created(AtHead) # {})
    BY <1>7, <2>1 DEF StartMigrated
  <2>3. PermissionsKept(AtHead)
    BY <1>3, UpgradeKeepsPermissions DEF AtHead
  <2>4. PermissionsKept(db)
    BY <2>1, <2>3, CreatedKeepsPermissions
  <2>5. Then = db
    BY <1>4, <2>2, <2>4
  <2>6. ASSUME ~strayed'  PROVE Fits(schema', Identifiers)
    <3>1. ~strayed /\ Created(AtHead) = {}
      BY <2>2, <2>6
    <3>2. schema' = AtHead.schema
      BY <2>1, <2>2, <2>3, <3>1 DEF BecomesDatabase, PermissionsKept, IsDatabase
    <3>. QED  BY <3>1, <3>2, AtHeadFits
  <2>7. strayed' \in BOOLEAN
    BY <1>3, <2>2
  <2>. QED  BY <2>2, <2>4, <2>5, <2>6, <2>7, AllAreClosed
<1>8. CASE StartUnmigrated
  <2>1. PICK db : db = [Database EXCEPT !.schema = @ \cup Created(Database)]
    OBVIOUS
  <2>2. BecomesDatabase(db) /\ applied' = applied /\ strayed' = TRUE
    BY <1>8, <2>1 DEF StartUnmigrated
  <2>3. PermissionsKept(db)
    BY <1>3, <2>1, CreatedKeepsPermissions
  <2>4. Then = db
    BY <1>4, <2>2, <2>3
  <2>. QED  BY <1>3, <2>2, <2>3, <2>4
<1>9. CASE Administer
  <2>1. UNCHANGED <<applied, schema, strayed>> /\ HasTable(schema, "job_title_permissions")
    BY <1>9 DEF Administer
  <2>2. titleHas' \subseteq KnownTitles \X permitted'
    <3>1. titleHas \subseteq KnownTitles \X permitted
      BY <1>3, DatabaseIs DEF PermissionsKept
    <3>2. PICK c \in Operated :
            \/ permitted' = permitted \cup {c} /\ UNCHANGED titleHas
            \/ \E t \in KnownTitles :
                 /\ c \in permitted
                 /\ titleHas' \in {titleHas \cup {<<t, c>>}, titleHas \ {<<t, c>>}}
                 /\ UNCHANGED permitted
      BY <1>9 DEF Administer
    <3>. QED  BY <3>1, <3>2
  <2>3. /\ Then.schema = schema /\ Then.permitted = permitted' /\ Then.titleHas = titleHas'
        /\ IsDatabase(Then)
    BY <2>1 DEF IsDatabase
  <2>4. HasTable(schema, "permissions")
    BY <1>3, <2>1, DatabaseIs DEF PermissionsKept
  <2>5. PermissionsKept(Then)
    BY <2>1, <2>2, <2>3, <2>4 DEF PermissionsKept
  <2>. QED  BY <1>3, <2>1, <2>5
<1>10. CASE UNCHANGED migrationVars
  <2>1. Then = Database
    BY <1>10 DEF Database, migrationVars
  <2>. QED  BY <1>3, <1>10, <2>1 DEF migrationVars
<1>. QED  BY <1>5, <1>6, <1>7, <1>8, <1>9, <1>10 DEF MigrationNext

(* It implies the properties.                                              *)
LEMMA SchemaFollows ==
  ASSUME SchemaIInv
  PROVE  SchemaInv
<1>1. Closed(applied) /\ PermissionsKept(Database) /\ strayed \in BOOLEAN
  BY DEF SchemaIInv
<1>2. MigrationTypeOK
  BY <1>1, DatabaseIs DEF MigrationTypeOK, Closed, PermissionsKept
<1>3. UpgradesApply
  <2>1. ASSUME ~strayed, NEW r \in Due  PROVE Ran(Database, r.up) # Failure
    <3>1. PICK i \in Ids : /\ r = History[i] /\ Id(i) = r.id /\ Id(i) \notin applied
                           /\ Closed(applied \cup {Id(i)})
      BY <2>1, DueIs
    <3>. QED  BY <2>1, <3>1, DueRuns
  <2>. QED  BY <2>1 DEF UpgradesApply
<1>4. HeadServesModels
  <2>1. ASSUME ~strayed, applied = Identifiers  PROVE Fits(schema, Identifiers)
    BY <2>1 DEF SchemaIInv
  <2>. QED  BY <2>1, HeadIsModelled DEF HeadServesModels
<1>5. SchemaIsThatOfRevisions
  <2>1. SUFFICES ASSUME ~strayed, ~InventoryReverted
                 PROVE  schema = SchemaOf(applied)
    BY DEF SchemaIsThatOfRevisions
  <2>2. ~HalfReverted(applied)
    BY <2>1, HistoryIs DEF InventoryReverted, HalfReverted
  <2>3. schema = Shape(applied)
    BY <2>1, <2>2 DEF SchemaIInv, Fits
  <2>4. IsDatabase(Base) /\ Fits(Base.schema, {}) /\ Closed({})
    BY AllAreClosed DEF IsDatabase, Base, Fits, Shape
  <2>5. applied = {} \cup applied /\ {} \cap applied = {} /\ applied \subseteq Identifiers
    BY <1>1 DEF Closed
  <2>6. Fits(Upgraded(Base, applied).schema, applied)
    BY <1>1, <2>4, <2>5, UpgradeRuns
  <2>. QED  BY <2>2, <2>3, <2>6 DEF Fits, SchemaOf
<1>6. OthersRevert
  <2>1. ASSUME ~strayed, NEW r \in Latest, r.id # "a1b2c3d4e5f6"
        PROVE  Ran(Database, r.down) # Failure
    <3>1. PICK i \in Ids : /\ r = History[i] /\ Id(i) = r.id /\ Id(i) \in applied
                           /\ Closed(applied \ {Id(i)})
      BY <2>1, LatestIs
    <3>2. i # 21
      BY <2>1, <3>1, HistoryIs
    <3>3. IsDatabase(Database) /\ Fits(Database.schema, applied)
      BY <2>1, DatabaseIs DEF SchemaIInv
    <3>. QED  BY <1>1, <3>1, <3>2, <3>3, DownSucceeds
  <2>. QED  BY <2>1 DEF OthersRevert
<1>. QED  BY <1>2, <1>3, <1>4, <1>5, <1>6 DEF SchemaInv

(* For any codes, titles and starts, however migrations, reversals, starts *)
(* of the application and changes of permissions follow one another:       *)
(* upgrades apply, the head has what the models declare, the schema        *)
(* depends on the applied revisions alone but for the shared columns, and  *)
(* every revision but a1b2c3d4e5f6 can be reverted (alembic upgrade and    *)
(* downgrade, entrypoint.sh, create_all).                                  *)
THEOREM SchemaHolds == MigrationSpec => []SchemaInv
<1>. USE DEF MigrationSpec
<1>1. MigrationInit => SchemaIInv
  BY SchemaStarts
<1>2. SchemaIInv /\ [MigrationNext]_migrationVars => SchemaIInv'
  BY SchemaStep
<1>3. SchemaIInv => SchemaInv
  BY SchemaFollows
<1>. QED  BY <1>1, <1>2, <1>3, PTL

=============================================================================
