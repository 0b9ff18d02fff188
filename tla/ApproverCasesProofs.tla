------------------------- MODULE ApproverCasesProofs -------------------------
(***************************************************************************)
(* What the runs of ApproverCases and Hierarchy compare over small         *)
(* directories, for every well-typed directory, requester and step.        *)
(***************************************************************************)
EXTENDS Hierarchy, DirectoryProofs, FiniteSetTheorems

(* In every directory: an assigned approver is another person, active as   *)
(* account and employee, and strictly above the requester.                 *)
THEOREM AssigneeOutranks ==
  ASSUME DirTypeOK, requester \in Users, resolver \in Resolvers, required \in BOOLEAN
  PROVE  AssigneeIsSuperior
  BY AssignedIsSuperior DEF AssigneeIsSuperior, Result, Chosen

(* In every directory: a required step is skipped only for a resolvable,   *)
(* active approver who is the requester or does not outrank the requester. *)
THEOREM RequiredSkipsUpward ==
  ASSUME DirTypeOK, requester \in Users, resolver \in Resolvers, required \in BOOLEAN
  PROVE  RequiredSkipsOnlyUpward
  BY CandidateType DEF RequiredSkipsOnlyUpward, Result, Chosen, Outcome, Unresolved

(* The first holder by id, and nobody only where there is none.            *)
LEMMA LowestIsFirst ==
  ASSUME NEW S, S \subseteq Users, S # {}
  PROVE  Lowest(S) \in S /\ Lowest(S) # None /\ \A u \in S : Lowest(S) <= u
<1>1. \E x \in S : \A y \in S : x <= y
  BY LeastNat, UsersAreIds
<1>2. Lowest(S) \in S /\ \A u \in S : Lowest(S) <= u
  BY <1>1 DEF Lowest
<1>. QED  BY <1>2, NoneIsNoId

(* In every directory: a step by job title goes to a holder of the title   *)
(* nearest to the requester, in the team, then in the department, then     *)
(* anywhere, and of equals to the one with the lowest id.                  *)
THEOREM NearestIsChosen ==
  ASSUME DirTypeOK, requester \in Users, resolver \in Resolvers
  PROVE  NearestHolderChosen
<1> DEFINE all == Holders(resolver)
           near == all \cap Teammates(requester)
           close == all \cap Colleagues(requester)
<1> SUFFICES ASSUME resolver \in Titles, NEW u \in all
             PROVE  /\ Chosen # None
                    /\ \/ Distance(Chosen) < Distance(u)
                       \/ Distance(Chosen) = Distance(u) /\ Chosen <= u
  BY DEF NearestHolderChosen
<1>1. all \subseteq Users /\ near \subseteq all /\ close \subseteq all
  BY HoldersAreUsers
<1>2. Chosen = IF near # {} THEN Lowest(near) ELSE IF close # {} THEN Lowest(close) ELSE Lowest(all)
  <2>1. Chosen = TitleCandidate(requester, resolver)
    BY TitlesAreNoRoles DEF Chosen, Candidate, RoleResolvers
  <2>. QED  BY <2>1, Zenon DEF TitleCandidate
<1>3. \A v \in all : Distance(v) = IF v \in near THEN 0 ELSE IF v \in close THEN 1 ELSE 2
  BY DEF Distance
<1>. HIDE DEF all, near, close
<1>4. CASE near # {}
  BY <1>1, <1>2, <1>3, <1>4, LowestIsFirst
<1>5. CASE near = {} /\ close # {}
  BY <1>1, <1>2, <1>3, <1>5, LowestIsFirst
<1>6. CASE near = {} /\ close = {}
  BY <1>1, <1>2, <1>3, <1>6, LowestIsFirst
<1>. QED  BY <1>4, <1>5, <1>6

-----------------------------------------------------------------------------
(* The organigram views                                                    *)

(* The company forest as it grows level by level.                          *)
Grown(X) == X \cup {u \in People : Parent(u) \in X}
IsForest(f, n) ==
  /\ DOMAIN f = 0..n /\ f[0] = Roots
  /\ \A i \in 1..n : f[i] = Grown(f[i - 1])

(* Its definition by recursion has a value.                                *)
LEMMA ForestGrows ==
  ASSUME NEW N \in Nat
  PROVE  \E f : IsForest(f, N)
<1> DEFINE Bad == {n \in Nat : ~ \E f : IsForest(f, n)}
<1> SUFFICES ASSUME N \in Bad  PROVE FALSE
  OBVIOUS
<1>1. PICK m \in Bad : \A k \in Bad : m <= k
  BY LeastNat
<1>2. m \in Nat /\ ~ \E f : IsForest(f, m)
  BY <1>1
<1>3. CASE m = 0
  <2>1. PICK f : f = [i \in 0..0 |-> Roots]
    OBVIOUS
  <2>2. IsForest(f, 0)
    BY <2>1 DEF IsForest
  <2>. QED  BY <1>2, <1>3, <2>2
<1>4. CASE m # 0
  <2>1. m - 1 \in Nat /\ m - 1 \notin Bad
    BY <1>1, <1>2, <1>4
  <2>2. PICK f : IsForest(f, m - 1)
    BY <2>1
  <2>3. PICK g : g = [i \in 0..m |-> IF i = m THEN Grown(f[m - 1]) ELSE f[i]]
    OBVIOUS
  <2>4. DOMAIN g = 0..m /\ g[0] = Roots
    BY <1>2, <1>4, <2>2, <2>3 DEF IsForest
  <2>5. \A i \in 1..m : g[i] = Grown(g[i - 1])
    <3>1. ASSUME NEW i \in 1..m  PROVE g[i] = Grown(g[i - 1])
      <4>1. i - 1 \in 0..m /\ i - 1 # m /\ g[i - 1] = f[i - 1]
        BY <1>2, <2>3, <3>1
      <4>2. CASE i = m
        BY <1>2, <2>3, <4>1, <4>2
      <4>3. CASE i # m
        <5>1. i \in 1..(m - 1) /\ g[i] = f[i]
          BY <1>2, <2>3, <4>3
        <5>. QED  BY <2>2, <4>1, <5>1 DEF IsForest
      <4>. QED  BY <4>2, <4>3
    <3>. QED  BY <3>1
  <2>6. IsForest(g, m)
    BY <2>4, <2>5 DEF IsForest
  <2>. QED  BY <1>2, <2>6
<1>. QED  BY <1>3, <1>4

LEMMA ForestIs ==
  ASSUME NEW N \in Nat, N = Cardinality(Users)
  PROVE  \E f : IsForest(f, N) /\ CompanyForest = f[N]
<1> DEFINE Body(f) == [n \in 0..N |-> IF n = 0 THEN Roots
                                      ELSE f[n - 1] \cup {u \in People : Parent(u) \in f[n - 1]}]
<1>1. PICK f : IsForest(f, N)
  BY ForestGrows
<1>2. PICK g : g = [n \in 0..N |-> f[n]]
  OBVIOUS
<1>3. g = Body(g)
  <2>1. \A n \in 0..N : g[n] = IF n = 0 THEN Roots
                               ELSE g[n - 1] \cup {u \in People : Parent(u) \in g[n - 1]}
    <3>1. ASSUME NEW n \in 0..N, n # 0
          PROVE  g[n] = g[n - 1] \cup {u \in People : Parent(u) \in g[n - 1]}
      <4>1. n \in 1..N /\ n - 1 \in 0..N
        BY <3>1
      <4>. QED  BY <1>1, <1>2, <4>1 DEF IsForest, Grown
    <3>2. g[0] = Roots
      BY <1>1, <1>2 DEF IsForest
    <3>. QED  BY <3>1, <3>2
  <2>. QED  BY <1>2, <2>1
<1>4. PICK h : h = CHOOSE x : x = Body(x)
  OBVIOUS
<1>5. h = Body(h)
  <2>. HIDE DEF Body
  <2>. QED  BY <1>3, <1>4
<1>6. CompanyForest = h[N]
  BY <1>4 DEF CompanyForest
<1>7. IsForest(h, N)
  <2>1. DOMAIN h = 0..N
    BY <1>5
  <2>2. \A n \in 0..N : h[n] = IF n = 0 THEN Roots
                               ELSE h[n - 1] \cup {u \in People : Parent(u) \in h[n - 1]}
    BY <1>5
  <2>. QED  BY <2>1, <2>2 DEF IsForest, Grown
<1>. QED  BY <1>6, <1>7

(* A person is an account with a profile, at a level.                      *)
LEMMA LevelsAreNumbers ==
  ASSUME DirTypeOK
  PROVE  /\ People \subseteq Users
         /\ \A u \in People : ShownLevel(u) \in Nat
<1>1. \A u \in Users : user[u] \in UserRow /\ employee[u] \in EmployeeRow
  BY DEF DirTypeOK
<1>2. \A t \in Titles : title[t] \in TitleRow
  BY DEF DirTypeOK
<1>3. \A u \in People : ShownLevel(u) \in Nat
  BY <1>1, <1>2 DEF ShownLevel, LevelOf, ActiveTitle, TitleRow, People
<1>. QED  BY <1>3 DEF People

(* A manager's view leaves out nobody of the own department.               *)
LEMMA DepartmentIsSeen ==
  ASSUME DirTypeOK, requester \in Users
  PROVE  ManagerSeesDepartment
<1> SUFFICES ASSUME NEW u \in People \ {requester},
                    ShownDept(u) \in ManagedDepts(requester),
                    ShownTeam(u) # None => team[ShownTeam(u)].dept = ShownDept(u)
             PROVE  u \in Underneath(requester)
  BY DEF ManagerSeesDepartment
<1> DEFINE t == ShownTeam(u)
<1>1. Underneath(requester) = LeaderNodes(requester) \cup TeamNodes(requester) \cup DirectNodes(requester)
  BY DEF Underneath
<1>2. CASE t = None
  BY <1>1, <1>2 DEF DirectNodes
<1>3. CASE t # None
  <2>1. u \in Users /\ employee[u] \in EmployeeRow
    BY DEF DirTypeOK, People
  <2>2. t = employee[u].team /\ t \in Teams /\ ActiveTeam(t)
    BY <1>3, <2>1 DEF ShownTeam, EmployeeRow, Maybe
  <2>3. t \in DepartmentTeams(requester)
    BY <1>3, <2>2 DEF DepartmentTeams
  <2>4. CASE LeaderShown(t, requester) /\ u = team[t].leader
    BY <1>1, <2>3, <2>4 DEF LeaderNodes
  <2>5. CASE LeaderShown(t, requester) /\ u # team[t].leader
    <3>1. u \in MembersOf(t) \ {requester, team[t].leader}
      BY <2>5 DEF MembersOf
    <3>. QED  BY <1>1, <2>3, <2>5, <3>1 DEF TeamNodes
  <2>6. CASE ~LeaderShown(t, requester)
    BY <1>1, <2>3, <2>6 DEF DirectNodes
  <2>. QED  BY <2>4, <2>5, <2>6
<1>. QED  BY <1>2, <1>3

(* Flags weigh the candidates, at most 63.                                 *)
LEMMA RankIsBounded ==
  ASSUME NEW u, NEW v
  PROVE  ParentRank(u, v) \in 0..63
  BY DEF ParentRank, Bit

(* Whoever is not at the top has a parent, at the nearest level above.     *)
LEMMA ParentIsNearest ==
  ASSUME DirTypeOK, NEW u \in People \ Roots
  PROVE  Parent(u) \in ParentLevel(u)
<1> DEFINE above == {v \in People : ShownLevel(v) > ShownLevel(u)}
           levels == {ShownLevel(v) : v \in above}
           best == {v \in ParentLevel(u) : \A x \in ParentLevel(u) : ParentRank(u, x) <= ParentRank(u, v)}
           gaps == {63 - ParentRank(u, v) : v \in ParentLevel(u)}
<1>1. People \subseteq Users /\ \A v \in People : ShownLevel(v) \in Nat
  BY LevelsAreNumbers
<1>2. above # {}
  BY <1>1 DEF Roots
<1>3. levels \subseteq Nat /\ levels # {}
  BY <1>1, <1>2
<1>4. PICK l \in levels : \A k \in levels : l <= k
  BY <1>3, LeastNat
<1>5. PICK v \in above : ShownLevel(v) = l
  BY <1>4
<1>6. v \in ParentLevel(u)
  BY <1>1, <1>4, <1>5 DEF ParentLevel
<1>7. gaps \subseteq Nat /\ gaps # {}
  <2>1. \A x \in ParentLevel(u) : 63 - ParentRank(u, x) \in Nat
    BY RankIsBounded
  <2>. QED  BY <1>6, <2>1
<1>8. PICK g \in gaps : \A k \in gaps : g <= k
  BY <1>7, LeastNat
<1>9. PICK w \in ParentLevel(u) : 63 - ParentRank(u, w) = g
  BY <1>8
<1>10. w \in best
  <2>1. ASSUME NEW x \in ParentLevel(u)  PROVE ParentRank(u, x) <= ParentRank(u, w)
    <3>1. 63 - ParentRank(u, w) <= 63 - ParentRank(u, x)
      BY <1>8, <1>9
    <3>2. ParentRank(u, w) \in 0..63 /\ ParentRank(u, x) \in 0..63
      BY RankIsBounded
    <3>. HIDE DEF gaps, best, levels, above
    <3>. QED  BY <3>1, <3>2
  <2>. QED  BY <1>9, <2>1
<1>11. best \subseteq Users /\ best # {}
  BY <1>1, <1>10 DEF ParentLevel
<1>12. Lowest(best) \in best
  <2>. HIDE DEF best
  <2>. QED  BY <1>11, LowestIsFirst
<1>. QED  BY <1>12 DEF Parent

(* Every active person is in the forest: otherwise one of those left out   *)
(* has fewest people above, and a parent above who is left out as well.    *)
LEMMA ForestIsPeople ==
  ASSUME DirTypeOK
  PROVE  CompanyForest = People
<1> DEFINE N == Cardinality(Users)
           Above(u) == {v \in People : ShownLevel(v) > ShownLevel(u)}
<1>1. N \in Nat
  BY UsersAreFinite, FS_CardinalityType
<1>2. PICK f : IsForest(f, N) /\ CompanyForest = f[N]
  <2>. HIDE DEF N
  <2>1. N = Cardinality(Users)
    BY DEF N
  <2>. QED  BY <1>1, <2>1, ForestIs
<1>3. People \subseteq Users /\ \A u \in People : ShownLevel(u) \in Nat
  BY LevelsAreNumbers
<1>4. \A u \in People : IsFiniteSet(Above(u)) /\ Cardinality(Above(u)) \in 0..N
  <2>1. ASSUME NEW u \in People
        PROVE  IsFiniteSet(Above(u)) /\ Cardinality(Above(u)) \in 0..N
    <3>1. Above(u) \subseteq Users
      BY <1>3
    <3>2. IsFiniteSet(Above(u)) /\ Cardinality(Above(u)) <= N
      BY <3>1, UsersAreFinite, FS_Subset
    <3>3. Cardinality(Above(u)) \in Nat
      BY <3>2, FS_CardinalityType
    <3>. QED  BY <1>1, <3>2, <3>3
  <2>. QED  BY <2>1
<1>5. \A n \in 0..N : f[n] \subseteq People
  <2> DEFINE Bad == {n \in 0..N : ~(f[n] \subseteq People)}
  <2> SUFFICES ASSUME Bad # {}  PROVE FALSE
    OBVIOUS
  <2>1. PICK m \in Bad : \A k \in Bad : m <= k
    <3>1. Bad \subseteq Nat
      OBVIOUS
    <3>. HIDE DEF Bad
    <3>. QED  BY <3>1, LeastNat
  <2>2. m # 0
    BY <1>2, <2>1 DEF IsForest, Roots
  <2>3. m - 1 \in 0..N /\ m - 1 \notin Bad /\ m \in 1..N
    BY <1>1, <2>1, <2>2
  <2>4. f[m - 1] \subseteq People /\ f[m] = Grown(f[m - 1])
    BY <1>2, <2>3 DEF IsForest
  <2>5. f[m] \subseteq People
    BY <2>4 DEF Grown
  <2>. QED  BY <2>1, <2>5
<1>6. \A n \in 0..N : Roots \subseteq f[n] /\ \A u \in People : Cardinality(Above(u)) <= n => u \in f[n]
  <2> DEFINE Reached(n) == Roots \subseteq f[n] /\ \A u \in People : Cardinality(Above(u)) <= n => u \in f[n]
             Bad == {n \in 0..N : ~Reached(n)}
  <2> SUFFICES ASSUME Bad # {}  PROVE FALSE
    OBVIOUS
  <2>1. PICK m \in Bad : \A k \in Bad : m <= k
    <3>1. Bad \subseteq Nat
      OBVIOUS
    <3>. HIDE DEF Bad
    <3>. QED  BY <3>1, LeastNat
  <2>2. CASE m = 0
    <3>1. f[0] = Roots
      BY <1>2 DEF IsForest
    <3>2. ASSUME NEW u \in People, Cardinality(Above(u)) <= 0  PROVE u \in Roots
      <4>1. Cardinality(Above(u)) = 0
        BY <1>4, <3>2
      <4>2. Above(u) = {}
        BY <1>4, <4>1, FS_EmptySet
      <4>. QED  BY <1>3, <4>2 DEF Roots
    <3>3. Reached(0)
      BY <3>1, <3>2
    <3>. QED  BY <2>1, <2>2, <3>3
  <2>3. CASE m # 0
    <3>1. m - 1 \in 0..N /\ m - 1 \notin Bad /\ m \in 1..N
      BY <1>1, <2>1, <2>3
    <3>2. Reached(m - 1)
      BY <3>1
    <3>3. f[m] = Grown(f[m - 1])
      BY <1>2, <3>1 DEF IsForest
    <3>4. Roots \subseteq f[m]
      BY <3>2, <3>3 DEF Grown
    <3>5. ASSUME NEW u \in People, Cardinality(Above(u)) <= m  PROVE u \in f[m]
      <4>1. CASE u \in Roots
        BY <3>4, <4>1
      <4>2. CASE u \notin Roots
        <5>1. Parent(u) \in ParentLevel(u)
          BY <4>2, ParentIsNearest
        <5>2. PICK p : p = Parent(u)
          OBVIOUS
        <5>3. p \in People /\ ShownLevel(p) > ShownLevel(u)
          BY <5>1, <5>2 DEF ParentLevel
        <5>4. Above(p) \subseteq Above(u) /\ Above(p) # Above(u)
          <6>1. p \in Above(u) /\ p \notin Above(p)
            BY <1>3, <5>3
          <6>2. Above(p) \subseteq Above(u)
            BY <1>3, <5>3
          <6>. QED  BY <6>1, <6>2
        <5>5. Cardinality(Above(p)) < Cardinality(Above(u))
          <6>1. IsFiniteSet(Above(u))
            BY <1>4
          <6>. HIDE DEF Above
          <6>2. Cardinality(Above(p)) <= Cardinality(Above(u))
            BY <5>4, <6>1, FS_Subset
          <6>3. Cardinality(Above(p)) # Cardinality(Above(u))
            BY <5>4, <6>1, FS_Subset
          <6>4. Cardinality(Above(p)) \in 0..N /\ Cardinality(Above(u)) \in 0..N
            BY <1>4, <5>3
          <6>. QED  BY <1>1, <6>2, <6>3, <6>4
        <5>6. Cardinality(Above(p)) <= m - 1
          <6>1. Cardinality(Above(p)) \in 0..N /\ Cardinality(Above(u)) \in 0..N
            BY <1>4, <5>3
          <6>. HIDE DEF Above
          <6>. QED  BY <1>1, <3>1, <3>5, <5>5, <6>1
        <5>7. p \in f[m - 1]
          BY <3>2, <5>3, <5>6
        <5>. QED  BY <3>3, <5>2, <5>7 DEF Grown
      <4>. QED  BY <4>1, <4>2
    <3>6. Reached(m)
      BY <3>4, <3>5
    <3>. QED  BY <2>1, <3>6
  <2>. QED  BY <2>2, <2>3
<1>7. People \subseteq f[N]
  <2>1. N \in 0..N
    BY <1>1
  <2>2. \A u \in People : Cardinality(Above(u)) <= N
    BY <1>1, <1>4
  <2>3. \A u \in People : Cardinality(Above(u)) <= N => u \in f[N]
    BY <1>6, <2>1
  <2>. QED  BY <2>2, <2>3
<1>8. f[N] \subseteq People
  BY <1>1, <1>5
<1>. QED  BY <1>2, <1>7, <1>8

(* For every directory, whatever is vacant or inactive in it: the company  *)
(* organigram shows every active person, nobody under a peer or past a     *)
(* nearer level, and a department manager is shown the whole department    *)
(* (_build_company_roots, _build_department_manager_children).             *)
THEOREM NobodyIsLeftOut ==
  ASSUME DirTypeOK, requester \in Users
  PROVE  HierarchyIsWhole
<1>1. CompanyForest = People
  BY ForestIsPeople
<1>2. ASSUME NEW u \in People \ Roots
      PROVE  /\ ShownLevel(Parent(u)) > ShownLevel(u)
             /\ \A v \in People :
                  ~(ShownLevel(u) < ShownLevel(v) /\ ShownLevel(v) < ShownLevel(Parent(u)))
  <2>1. PICK p : p = Parent(u)
    OBVIOUS
  <2>2. p \in People /\ ShownLevel(p) > ShownLevel(u)
        /\ \A x \in People : ShownLevel(x) > ShownLevel(u) => ShownLevel(x) >= ShownLevel(p)
    BY <2>1, ParentIsNearest DEF ParentLevel
  <2>3. \A v \in People : ShownLevel(v) \in Nat
    BY LevelsAreNumbers
  <2>4. \A v \in People : ~(ShownLevel(u) < ShownLevel(v) /\ ShownLevel(v) < ShownLevel(p))
    BY <2>2, <2>3
  <2>. QED  BY <2>1, <2>2, <2>4
<1>3. EverybodyHasAPlace
  BY <1>1, <1>2 DEF EverybodyHasAPlace
<1>. QED  BY <1>3, DepartmentIsSeen DEF HierarchyIsWhole

(* A case is a directory whose columns hold what they may, a requester     *)
(* with an account, a resolver and a flag, and stays one.                  *)
LEMMA CasesAreTyped ==
  Spec => [](DirTypeOK /\ requester \in Users /\ resolver \in Resolvers /\ required \in BOOLEAN)
<1>1. Init => DirTypeOK /\ requester \in Users /\ resolver \in Resolvers /\ required \in BOOLEAN
  <2>. SUFFICES ASSUME Init
                PROVE  DirTypeOK /\ requester \in Users /\ resolver \in Resolvers
                       /\ required \in BOOLEAN
    OBVIOUS
  <2>1. PICK f \in Families : DirectoryOf(f)
    BY DEF Init
  <2>2. /\ f.people \subseteq Users /\ f.held \subseteq Titles
        /\ f.titles \subseteq [Titles -> [present : {TRUE}, active : BOOLEAN, level : Levels]]
        /\ f.departments \subseteq Departments
        /\ f.heads \subseteq Maybe(Users)
    BY FamiliesAreTyped
  <2>3. employee \in [Users -> EmployeeRow]
    <3>1. PICK profile \in [f.people -> [present : {TRUE}, active : BOOLEAN, title : f.held,
                                         team : Maybe(Teams), dept : f.departments]] :
            employee = [u \in Users |-> IF u \in f.people THEN profile[u] ELSE NoProfile]
      BY <2>1 DEF DirectoryOf
    <3>2. ASSUME NEW u \in f.people
          PROVE  profile[u] \in EmployeeRow
      <4>1. profile[u] \in [present : {TRUE}, active : BOOLEAN, title : f.held,
                            team : Maybe(Teams), dept : f.departments]
        OBVIOUS
      <4>. QED  BY <4>1, <2>2 DEF EmployeeRow, Maybe
    <3>3. NoProfile \in EmployeeRow
      BY DEF NoProfile, EmployeeRow, Maybe
    <3>. QED  BY <3>1, <3>2, <3>3
  <2>4. user \in [Users -> UserRow]
    <3>1. user = [u \in Users |-> [present |-> TRUE,
                                   active |-> employee[u].active \/ u \notin f.people,
                                   admin |-> FALSE]]
      BY <2>1 DEF DirectoryOf
    <3>2. \A u \in Users : (employee[u].active \/ u \notin f.people) \in BOOLEAN
      OBVIOUS
    <3>. QED  BY <3>1, <3>2 DEF UserRow
  <2>5. title \in [Titles -> TitleRow]
    <3>1. [present : {TRUE}, active : BOOLEAN, level : Levels] \subseteq TitleRow
      BY LevelsAreNat DEF TitleRow
    <3>2. title \in [Titles -> [present : {TRUE}, active : BOOLEAN, level : Levels]]
      BY <2>1, <2>2 DEF DirectoryOf
    <3>. QED  BY <3>1, <3>2
  <2>6. team \in [Teams -> TeamRow]
    BY <2>1, <2>2 DEF DirectoryOf, TeamRow, Maybe
  <2>7. department \in [Departments -> DepartmentRow]
    <3>1. PICK rows \in [f.departments -> [present : {TRUE}, active : BOOLEAN, manager : f.heads]] :
            department = [d \in Departments |-> IF d \in f.departments THEN rows[d]
                                                ELSE NoDepartment]
      BY <2>1 DEF DirectoryOf
    <3>2. \A d \in f.departments : rows[d] \in DepartmentRow
      BY <2>2 DEF DepartmentRow
    <3>3. NoDepartment \in DepartmentRow
      BY DEF NoDepartment, DepartmentRow, Maybe
    <3>. QED  BY <3>1, <3>2, <3>3
  <2>8. requester \in Users /\ resolver \in Resolvers /\ required \in BOOLEAN
    BY DEF Init
  <2>. QED  BY <2>3, <2>4, <2>5, <2>6, <2>7, <2>8 DEF DirTypeOK
<1>2. DirTypeOK /\ requester \in Users /\ resolver \in Resolvers /\ required \in BOOLEAN
      /\ [Next]_vars
      => (DirTypeOK /\ requester \in Users /\ resolver \in Resolvers /\ required \in BOOLEAN)'
  BY DEF Next, Reconfigure, vars, dirVars, DirTypeOK
<1>. QED  BY <1>1, <1>2, PTL DEF Spec

(* Whatever the families of directories, in every case of them: the        *)
(* approver chosen is an active superior, the nearest holder of the title  *)
(* and nobody else, a required step is skipped only upward                 *)
(* (_evaluate_approver_step), and the organigram leaves nobody out.        *)
THEOREM CasesAreDecided ==
  Spec => [](AssigneeIsSuperior /\ RequiredSkipsOnlyUpward /\ NearestHolderChosen /\ HierarchyIsWhole)
<1>1. DirTypeOK /\ requester \in Users /\ resolver \in Resolvers /\ required \in BOOLEAN
      => AssigneeIsSuperior /\ RequiredSkipsOnlyUpward /\ NearestHolderChosen /\ HierarchyIsWhole
  BY AssigneeOutranks, RequiredSkipsUpward, NearestIsChosen, NobodyIsLeftOut
<1>. QED  BY <1>1, CasesAreTyped, PTL

=============================================================================
