-------------------------- MODULE HoldReadsProofs --------------------------
(***************************************************************************)
(* Proofs about HoldReads: views are made of what mutations committed,     *)
(* pages and cursors skip nothing, and nothing is shown that was not asked *)
(* for, for any number of holds, pages of any size and any mutations       *)
(* between the statements.                                                 *)
(***************************************************************************)
EXTENDS HoldReads, HoldStoreProofs, WellFoundedInduction

-----------------------------------------------------------------------------
(***************************************************************************)
(* Numbers in order.                                                       *)
(***************************************************************************)
Under(S, x) == {y \in S : y < x}
Above(S, x) == {y \in S : x < y}

(***************************************************************************)
(* The greater a number, the more lie under it and the fewer above it.     *)
(***************************************************************************)
LEMMA Nested ==
    ASSUME NEW S, S \subseteq Nat, NEW x \in S, NEW m \in S, m < x
    PROVE  /\ Above(S, x) \subseteq Above(S, m) /\ x \in Above(S, m)
           /\ x \notin Above(S, x)
           /\ Under(S, m) \subseteq Under(S, x) /\ m \in Under(S, x)
           /\ m \notin Under(S, m)
<1>1. x \in Nat /\ m \in Nat /\ ~(x < x) /\ ~(m < m)
  OBVIOUS
<1>2. ASSUME NEW y \in S PROVE (x < y => m < y) /\ (y < m => y < x)
  <2>1. y \in Nat
    OBVIOUS
  <2> QED
    BY <1>1, <2>1
<1> QED
  BY <1>1, <1>2 DEF Above, Under

(***************************************************************************)
(* A finite, non-empty set of numbers has a greatest member.               *)
(***************************************************************************)
LEMMA Greatest ==
    ASSUME NEW S, S \subseteq Nat, IsFiniteSet(S), S # {}
    PROVE  \E m \in S : \A x \in S : x <= m
<1> DEFINE T == {Above(S, x) : x \in S}
<1>1. ASSUME NEW x \in S PROVE Above(S, x) \in FiniteSubsetsOf(S)
  <2>1. Above(S, x) \in SUBSET S
    BY DEF Above
  <2> QED
    BY <2>1, FS_Subset DEF FiniteSubsetsOf
<1>2. T \subseteq FiniteSubsetsOf(S) /\ T # {}
  BY <1>1
<1>3. IsWellFoundedOn(StrictSubsetOrdering(S), FiniteSubsetsOf(S))
  BY FS_StrictSubsetOrderingWellFounded
<1> HIDE DEF T
<1>4. PICK U \in T : \A V \in T : <<V, U>> \notin StrictSubsetOrdering(S)
  BY <1>2, <1>3, WFMin
<1> USE DEF T
<1>5. PICK m \in S : U = Above(S, m)
  BY <1>4
<1>6. ASSUME NEW x \in S, m < x PROVE FALSE
  <2>1. Above(S, x) \in T /\ Above(S, x) \in SUBSET S /\ U \in SUBSET S
    BY <1>5 DEF Above
  <2>2. Above(S, x) \subseteq U /\ Above(S, x) # U
    BY <1>5, <1>6, Nested
  <2>3. <<Above(S, x), U>> \in StrictSubsetOrdering(S)
    BY <2>1, <2>2 DEF StrictSubsetOrdering
  <2> QED
    BY <1>4, <2>1, <2>3
<1> QED
  <2>1. \A x \in S : x \in Nat /\ m \in Nat
    OBVIOUS
  <2> QED
    BY <1>6, <2>1

(***************************************************************************)
(* And a least.                                                            *)
(***************************************************************************)
LEMMA Least ==
    ASSUME NEW S, S \subseteq Nat, IsFiniteSet(S), S # {}
    PROVE  \E m \in S : \A x \in S : m <= x
<1> DEFINE T == {Under(S, x) : x \in S}
<1>1. ASSUME NEW x \in S PROVE Under(S, x) \in FiniteSubsetsOf(S)
  <2>1. Under(S, x) \in SUBSET S
    BY DEF Under
  <2> QED
    BY <2>1, FS_Subset DEF FiniteSubsetsOf
<1>2. T \subseteq FiniteSubsetsOf(S) /\ T # {}
  BY <1>1
<1>3. IsWellFoundedOn(StrictSubsetOrdering(S), FiniteSubsetsOf(S))
  BY FS_StrictSubsetOrderingWellFounded
<1> HIDE DEF T
<1>4. PICK U \in T : \A V \in T : <<V, U>> \notin StrictSubsetOrdering(S)
  BY <1>2, <1>3, WFMin
<1> USE DEF T
<1>5. PICK m \in S : U = Under(S, m)
  BY <1>4
<1>6. ASSUME NEW x \in S, x < m PROVE FALSE
  <2>1. Under(S, x) \in T /\ Under(S, x) \in SUBSET S /\ U \in SUBSET S
    BY <1>5 DEF Under
  <2>2. Under(S, x) \subseteq U /\ Under(S, x) # U
    BY <1>5, <1>6, Nested
  <2>3. <<Under(S, x), U>> \in StrictSubsetOrdering(S)
    BY <2>1, <2>2 DEF StrictSubsetOrdering
  <2> QED
    BY <1>4, <2>1, <2>3
<1> QED
  <2>1. \A x \in S : x \in Nat /\ m \in Nat
    OBVIOUS
  <2> QED
    BY <1>6, <2>1

(***************************************************************************)
(* The first of a set are an initial segment of it.                        *)
(***************************************************************************)
LEMMA FirstAreInitial ==
    ASSUME NEW S, S \subseteq Nat, IsFiniteSet(S), NEW n \in Nat
    PROVE  /\ FirstOf(S, n) \subseteq S /\ IsFiniteSet(FirstOf(S, n))
           /\ \A x \in S : Cardinality(Under(S, x)) \in Nat /\ IsFiniteSet(Under(S, x))
           /\ \A x \in S : x \in FirstOf(S, n) <=> Cardinality(Under(S, x)) < n
           /\ \A x \in FirstOf(S, n), y \in S : y <= x => y \in FirstOf(S, n)
<1>1. FirstOf(S, n) \subseteq S /\ IsFiniteSet(FirstOf(S, n))
  <2>1. FirstOf(S, n) \in SUBSET S
    BY DEF FirstOf
  <2> QED
    BY <2>1, FS_Subset
<1>2. ASSUME NEW x \in S
      PROVE  Cardinality(Under(S, x)) \in Nat /\ IsFiniteSet(Under(S, x))
  <2>1. Under(S, x) \in SUBSET S
    BY DEF Under
  <2> QED
    BY <2>1, FS_Subset, FS_CardinalityType
<1>3. \A x \in S : x \in FirstOf(S, n) <=> Cardinality(Under(S, x)) < n
  BY DEF FirstOf, Under
<1>4. ASSUME NEW x \in FirstOf(S, n), NEW y \in S, y <= x
      PROVE  y \in FirstOf(S, n)
  <2>1. x \in S /\ x \in Nat /\ y \in Nat
    BY <1>1
  <2>2. CASE y < x
    <3>1. Under(S, y) \in SUBSET Under(S, x)
      BY <2>1, <2>2, Nested
    <3>2. Cardinality(Under(S, y)) <= Cardinality(Under(S, x))
      BY <1>2, <2>1, <3>1, FS_Subset
    <3>3. /\ Cardinality(Under(S, x)) \in Nat /\ Cardinality(Under(S, y)) \in Nat
          /\ Cardinality(Under(S, x)) < n
      BY <1>2, <1>3, <2>1
    <3>4. Cardinality(Under(S, y)) < n
      BY <3>2, <3>3
    <3> QED
      BY <1>3, <3>4
  <2>3. y = x \/ y < x
    BY <1>4, <2>1
  <2> QED
    BY <2>2, <2>3
<1> QED
  BY <1>1, <1>2, <1>3, <1>4

(***************************************************************************)
(* A limit above 0 shows something of what there is.                       *)
(***************************************************************************)
LEMMA FirstShowSome ==
    ASSUME NEW S, S \subseteq Nat, IsFiniteSet(S), S # {}, NEW n \in Nat, n > 0
    PROVE  FirstOf(S, n) # {}
<1>1. PICK m \in S : \A x \in S : m <= x
  BY Least
<1>2. Under(S, m) = {}
  <2>1. ASSUME NEW y \in S PROVE ~(y < m)
    <3>1. y \in Nat /\ m \in Nat /\ m <= y
      BY <1>1
    <3> QED
      BY <3>1
  <2> QED
    BY <2>1 DEF Under
<1>3. Cardinality(Under(S, m)) = 0
  BY <1>2, FS_EmptySet
<1> QED
  BY <1>3, FirstAreInitial

(***************************************************************************)
(* The greatest member has all the others under it.                        *)
(***************************************************************************)
LEMMA GreatestRank ==
    ASSUME NEW S, S \subseteq Nat, IsFiniteSet(S), NEW m \in S,
           \A x \in S : x <= m
    PROVE  Cardinality(S) = Cardinality(Under(S, m)) + 1
<1>1. S = Under(S, m) \cup {m} /\ m \notin Under(S, m)
  <2>1. ASSUME NEW x \in S PROVE (x = m \/ x < m) /\ ~(m < m)
    <3>1. x \in Nat /\ m \in Nat /\ x <= m
      OBVIOUS
    <3> QED
      BY <3>1
  <2> QED
    BY <2>1 DEF Under
<1>2. IsFiniteSet(Under(S, m)) /\ Cardinality(Under(S, m)) \in Nat
  BY FirstAreInitial, 0 \in Nat
<1> QED
  BY <1>1, <1>2, FS_AddElement

(***************************************************************************)
(* One more than the limit is asked for: its first are the page, and it    *)
(* has more members than the limit exactly when the page is cut.           *)
(***************************************************************************)
LEMMA OneMoreTells ==
    ASSUME NEW S, S \subseteq Nat, IsFiniteSet(S), NEW n \in Nat
    PROVE  /\ FirstOf(FirstOf(S, n + 1), n) = FirstOf(S, n)
           /\ Cardinality(FirstOf(S, n + 1)) > n <=> FirstOf(S, n) # S
<1> DEFINE F == FirstOf(S, n + 1)
           G == FirstOf(S, n)
<1>1. n + 1 \in Nat /\ F \subseteq S /\ F \subseteq Nat /\ IsFiniteSet(F)
      /\ G \subseteq S /\ IsFiniteSet(G)
  <2>1. n + 1 \in Nat
    OBVIOUS
  <2>2. F \subseteq S /\ IsFiniteSet(F)
    BY <2>1, FirstAreInitial
  <2>3. G \subseteq S /\ IsFiniteSet(G)
    BY FirstAreInitial
  <2> QED
    BY <2>1, <2>2, <2>3
<1>2. /\ \A x \in S : Cardinality(Under(S, x)) \in Nat /\ IsFiniteSet(Under(S, x))
      /\ \A x \in S : x \in G <=> Cardinality(Under(S, x)) < n
  BY FirstAreInitial
<1>3. /\ \A x \in S : x \in F <=> Cardinality(Under(S, x)) < n + 1
      /\ \A x \in F, y \in S : y <= x => y \in F
  BY <1>1, FirstAreInitial
<1> HIDE DEF F, G
<1>4. G \subseteq F
  <2>1. ASSUME NEW x \in G PROVE Cardinality(Under(S, x)) < n + 1
    <3>1. Cardinality(Under(S, x)) \in Nat /\ Cardinality(Under(S, x)) < n
      BY <1>2, <1>1
    <3> QED
      BY <3>1
  <2> QED
    BY <1>1, <1>3, <2>1
<1>5. ASSUME NEW x \in F PROVE Under(F, x) = Under(S, x)
  <2>1. ASSUME NEW y \in S, y < x PROVE y \in F
    <3>1. x \in Nat /\ y \in Nat
      BY <1>1
    <3>2. y <= x
      BY <2>1, <3>1
    <3> QED
      BY <1>3, <3>2
  <2> QED
    BY <1>1, <2>1 DEF Under
<1>6. FirstOf(F, n) = G
  <2>1. \A x \in F : x \in FirstOf(F, n) <=> Cardinality(Under(F, x)) < n
    BY <1>1, FirstAreInitial
  <2>2. FirstOf(F, n) \subseteq F
    BY <1>1, FirstAreInitial
  <2> QED
    BY <1>2, <1>1, <1>4, <1>5, <2>1, <2>2
<1>7. ASSUME G = S PROVE Cardinality(F) <= n
  <2>1. CASE S = {}
    <3>1. F = {}
      BY <1>1, <2>1
    <3> QED
      BY <3>1, FS_EmptySet
  <2>2. CASE S # {}
    <3>1. PICK m \in S : \A x \in S : x <= m
      BY <2>2, Greatest
    <3>2. Cardinality(Under(S, m)) < n /\ Cardinality(Under(S, m)) \in Nat
      BY <1>2, <1>7
    <3>3. Cardinality(S) = Cardinality(Under(S, m)) + 1
      BY <3>1, GreatestRank
    <3>4. Cardinality(S) <= n
      BY <3>2, <3>3
    <3>5. Cardinality(F) <= Cardinality(S) /\ Cardinality(S) \in Nat
          /\ Cardinality(F) \in Nat
      BY <1>1, FS_Subset, FS_CardinalityType
    <3> QED
      BY <3>4, <3>5
  <2> QED
    BY <2>1, <2>2
<1>8. ASSUME G # S PROVE Cardinality(F) > n
  <2>1. PICK e \in S \ G : \A x \in S \ G : e <= x
    <3>1. S \ G # {} /\ S \ G \subseteq Nat /\ IsFiniteSet(S \ G)
      BY <1>1, <1>8, FS_Subset, S \ G \in SUBSET S
    <3> QED
      BY <3>1, Least
  <2>2. Cardinality(Under(S, e)) \in Nat /\ Cardinality(Under(S, e)) >= n
        /\ IsFiniteSet(Under(S, e))
    <3>1. Cardinality(Under(S, e)) \in Nat /\ IsFiniteSet(Under(S, e))
          /\ ~(Cardinality(Under(S, e)) < n)
      BY <1>2
    <3> QED
      BY <3>1
  <2>3. Under(S, e) \subseteq G
    <3>1. ASSUME NEW y \in S \ G PROVE ~(y < e)
      <4>1. e <= y /\ e \in Nat /\ y \in Nat
        BY <2>1
      <4> QED
        BY <4>1
    <3> QED
      BY <3>1 DEF Under
  <2>4. Cardinality(Under(S, e)) <= n
    <3>1. CASE Under(S, e) = {}
      BY <3>1, FS_EmptySet
    <3>2. CASE Under(S, e) # {}
      <4> DEFINE L == Under(S, e)
      <4>1. L \subseteq Nat /\ L \subseteq S /\ L \subseteq G
        BY <2>3 DEF Under
      <4>2. PICK m \in L : \A x \in L : x <= m
        BY <2>2, <3>2, <4>1, Greatest
      <4>3. Cardinality(L) = Cardinality(Under(L, m)) + 1
        BY <2>2, <4>1, <4>2, GreatestRank
      <4>4. Under(L, m) = Under(S, m)
        <5>1. ASSUME NEW y \in S, y < m PROVE y < e
          <6>1. y \in Nat /\ m \in Nat /\ e \in Nat /\ m < e
            BY <4>1, <4>2 DEF Under
          <6> QED
            BY <5>1, <6>1
        <5> QED
          BY <4>1, <5>1 DEF Under
      <4>5. Cardinality(Under(S, m)) < n /\ Cardinality(Under(S, m)) \in Nat
        BY <1>2, <4>1
      <4> QED
        BY <4>3, <4>4, <4>5
    <3> QED
      BY <3>1, <3>2
  <2>5. e \in F
    <3>1. Cardinality(Under(S, e)) < n + 1
      BY <2>2, <2>4
    <3> QED
      BY <1>3, <3>1
  <2>6. Under(S, e) \cup {e} \in SUBSET F /\ e \notin Under(S, e)
    BY <1>4, <2>3, <2>5 DEF Under
  <2>7. Cardinality(Under(S, e) \cup {e}) = n + 1
    <3>1. Cardinality(Under(S, e)) = n
      BY <2>2, <2>4
    <3> QED
      BY <2>2, <2>6, <3>1, FS_AddElement
  <2>8. Cardinality(F) >= n + 1 /\ Cardinality(F) \in Nat
    BY <1>1, <2>6, <2>7, FS_Subset, FS_CardinalityType
  <2> QED
    BY <2>8
<1>9. Cardinality(F) \in Nat
  BY <1>1, FS_CardinalityType
<1>10. Cardinality(F) > n <=> G # S
  BY <1>7, <1>8, <1>9
<1> QED
  BY <1>6, <1>10 DEF F, G

-----------------------------------------------------------------------------
(***************************************************************************)
(* A row and a view that were read stay true to the history of their hold, *)
(* whatever is committed afterwards.                                       *)
(***************************************************************************)
RowKept(h, w) ==
    /\ w \in HoldRow /\ Committed(h) /\ w.revision <= legal_holds[h].revision
    /\ w.organization = legal_holds[h].organization
    /\ \E k \in ReceiptsOf(h, w.revision) : legal_hold_commands[k].response.row = w
    /\ w.status = "released" => legal_holds[h] = w

ViewKept(v) ==
    /\ v.hold \in Holds /\ RowKept(v.hold, v.row)
    /\ \E n \in v.row.revision..legal_holds[v.hold].revision :
         \E k \in ReceiptsOf(v.hold, n) :
             legal_hold_commands[k].response.scopes = v.scopes
    /\ v.row.status = "released" =>
         v = ViewOf(v.hold, legal_holds[v.hold], legal_hold_scopes[v.hold])

(***************************************************************************)
(* How the tables grow: holds stay in their organization, revisions only   *)
(* advance, a released hold rests, receipts stay, and activity is appended *)
(* behind the hold's.                                                      *)
(***************************************************************************)
HoldAdvances(h) ==
    Committed(h) =>
        /\ legal_holds'[h] # None
        /\ legal_holds'[h].organization = legal_holds[h].organization
        /\ legal_holds'[h].revision >= legal_holds[h].revision
        /\ legal_holds[h].status = "released" =>
             /\ legal_holds'[h] = legal_holds[h]
             /\ legal_hold_scopes'[h] = legal_hold_scopes[h]

Advance ==
    /\ TablesTypeOK /\ TablesTypeOK'
    /\ \A h \in Holds : HoldAdvances(h)
    /\ \A h, n : \A k \in ReceiptsOf(h, n) :
         /\ k \in ReceiptsOf(h, n)'
         /\ legal_hold_commands'[k] = legal_hold_commands[k]
    /\ legal_hold_activity \subseteq legal_hold_activity'
    /\ \A e \in legal_hold_activity' \ legal_hold_activity :
         \A f \in legal_hold_activity : f.hold = e.hold => f.id < e.id

(***************************************************************************)
(* Every mutation advances the tables so.                                  *)
(***************************************************************************)
LEMMA EffectAdvances ==
    ASSUME HistoryInv, NEW r \in Requests, NEW id \in Nat, TakesEffect(r, id)
    PROVE  Advance
<1>1. TablesTypeOK /\ r.hold \in Holds /\ Applicable(r)
  BY RequestTypes DEF HistoryInv, TakesEffect, Legal
<1>2. TablesTypeOK'
  BY <1>1, EffectOnTables
<1>3. ASSUME NEW h \in Holds PROVE HoldAdvances(h)
  <2>1. CASE h # r.hold
    <3>1. legal_holds'[h] = legal_holds[h] /\ legal_hold_scopes'[h] = legal_hold_scopes[h]
      BY <1>1, <2>1, EffectOnTables
    <3>2. Committed(h) => legal_holds[h].revision \in Nat
      BY <1>1 DEF TablesTypeOK, HoldRow, Committed
    <3> QED
      BY <3>1, <3>2 DEF HoldAdvances, Committed
  <2>2. CASE h = r.hold /\ Committed(h)
    <3> DEFINE before == legal_holds[r.hold]
    <3>1. /\ r.op # "create_hold" /\ before \in HoldRow /\ Current(r)
          /\ RowAfter(r).revision = before.revision + 1
      BY <1>1, <2>2, RevisionAfter DEF Committed
    <3>2. legal_holds'[h] = RowAfter(r) /\ RowAfter(r) \in HoldRow
      BY <1>1, <2>2, EffectOnTables
    <3>3. RowAfter(r).organization = before.organization
      BY <3>1 DEF RowAfter, AdvanceRow, ReleaseRow, HoldRow
    <3>4. before.status # "released" /\ before.revision \in Nat
      BY <3>1 DEF Current, HoldRow
    <3> QED
      BY <2>2, <3>1, <3>2, <3>3, <3>4, NoneAssumption DEF HoldAdvances
  <2> QED
    BY <2>1, <2>2 DEF HoldAdvances
<1>4. ASSUME NEW h, NEW n, NEW k \in ReceiptsOf(h, n)
      PROVE  k \in ReceiptsOf(h, n)' /\ legal_hold_commands'[k] = legal_hold_commands[k]
  <2>1. k \in ReceiptsOf(h, n)'
    BY <1>1, EffectOnReceipts
  <2>2. k \in CommandKey /\ k # CommandKeyOf(r)
    BY <1>1, EffectOnTables DEF ReceiptsOf
  <2> QED
    BY <1>1, <2>1, <2>2, EffectOnTables
<1>5. /\ legal_hold_activity \subseteq legal_hold_activity'
      /\ \A e \in legal_hold_activity' \ legal_hold_activity :
           \A f \in legal_hold_activity : f.hold = e.hold => f.id < e.id
  BY DEF TakesEffect, ActivityOf
<1> QED
  BY <1>1, <1>2, <1>3, <1>4, <1>5 DEF Advance

(***************************************************************************)
(* And so does whatever leaves them as they are.                           *)
(***************************************************************************)
LEMMA QuietAdvances ==
    ASSUME TablesTypeOK, UNCHANGED tables
    PROVE  Advance
<1>1. /\ legal_holds' = legal_holds /\ legal_hold_scopes' = legal_hold_scopes
      /\ legal_hold_commands' = legal_hold_commands
      /\ legal_hold_activity' = legal_hold_activity
  BY DEF tables
<1>2. TablesTypeOK'
  BY <1>1 DEF TablesTypeOK
<1>3. ASSUME NEW h \in Holds, Committed(h) PROVE legal_holds[h].revision \in Nat
  BY <1>3 DEF TablesTypeOK, HoldRow, Committed
<1>4. ASSUME NEW h \in Holds PROVE HoldAdvances(h)
  BY <1>1, <1>3 DEF HoldAdvances, Committed
<1>5. ASSUME NEW h, NEW n PROVE ReceiptsOf(h, n)' = ReceiptsOf(h, n)
  BY <1>1 DEF ReceiptsOf
<1> QED
  BY <1>1, <1>2, <1>4, <1>5 DEF Advance

(***************************************************************************)
(* Rows and views that were read stay true while the tables advance.       *)
(***************************************************************************)
LEMMA RowsStay ==
    ASSUME Advance, NEW h \in Holds, NEW w, RowKept(h, w)
    PROVE  RowKept(h, w)'
<1>1. /\ Committed(h)' /\ legal_holds'[h].revision >= legal_holds[h].revision
      /\ legal_holds[h].revision \in Nat /\ legal_holds'[h].revision \in Nat
      /\ w.revision \in Nat
  BY DEF Advance, HoldAdvances, RowKept, Committed, TablesTypeOK, HoldRow
<1>2. w.revision <= legal_holds'[h].revision
  BY <1>1 DEF RowKept
<1>3. \E k \in ReceiptsOf(h, w.revision)' : legal_hold_commands'[k].response.row = w
  <2>1. PICK k \in ReceiptsOf(h, w.revision) : legal_hold_commands[k].response.row = w
    BY DEF RowKept
  <2>2. k \in ReceiptsOf(h, w.revision)' /\ legal_hold_commands'[k] = legal_hold_commands[k]
    BY DEF Advance
  <2> QED
    BY <2>1, <2>2
<1>4. w.status = "released" => legal_holds'[h] = w
  BY DEF RowKept, Advance, HoldAdvances
<1>5. w.organization = legal_holds'[h].organization
  BY DEF RowKept, Advance, HoldAdvances
<1> QED
  BY <1>1, <1>2, <1>3, <1>4, <1>5 DEF RowKept

(***************************************************************************)
(* Views too.                                                              *)
(***************************************************************************)
LEMMA ViewsStay ==
    ASSUME Advance, NEW v, ViewKept(v)
    PROVE  ViewKept(v)'
<1> DEFINE h == v.hold
<1>1. h \in Holds /\ RowKept(h, v.row) /\ RowKept(h, v.row)'
  BY RowsStay DEF ViewKept
<1>2. PICK n \in v.row.revision..legal_holds[h].revision :
        \E k \in ReceiptsOf(h, n) : legal_hold_commands[k].response.scopes = v.scopes
  BY DEF ViewKept
<1>3. \E k \in ReceiptsOf(h, n)' : legal_hold_commands'[k].response.scopes = v.scopes
  <2>1. PICK k \in ReceiptsOf(h, n) : legal_hold_commands[k].response.scopes = v.scopes
    BY <1>2
  <2>2. k \in ReceiptsOf(h, n)' /\ legal_hold_commands'[k] = legal_hold_commands[k]
    BY DEF Advance
  <2> QED
    BY <2>1, <2>2
<1>4. /\ legal_holds'[h].revision >= legal_holds[h].revision
      /\ legal_holds[h].revision \in Nat /\ legal_holds'[h].revision \in Nat
      /\ v.row.revision \in Nat
  BY <1>1 DEF Advance, HoldAdvances, RowKept, Committed, TablesTypeOK, HoldRow
<1>5. n \in v.row.revision..legal_holds'[h].revision
  BY <1>4
<1>6. \E i \in v.row.revision..legal_holds'[h].revision :
        \E j \in ReceiptsOf(h, i)' : legal_hold_commands'[j].response.scopes = v.scopes
  BY <1>2, <1>3, <1>5
<1>7. ASSUME v.row.status = "released"
      PROVE  v = ViewOf(h, legal_holds'[h], legal_hold_scopes'[h])
  <2>1. legal_holds[h].status = "released" /\ Committed(h)
    BY <1>1, <1>7 DEF RowKept
  <2>2. legal_holds'[h] = legal_holds[h] /\ legal_hold_scopes'[h] = legal_hold_scopes[h]
    BY <1>1, <2>1 DEF Advance, HoldAdvances
  <2>3. v = ViewOf(h, legal_holds[h], legal_hold_scopes[h])
    BY <1>7 DEF ViewKept
  <2> QED
    BY <2>2, <2>3
<1> QED
  BY <1>1, <1>6, <1>7 DEF ViewKept

-----------------------------------------------------------------------------
(***************************************************************************)
(* The inductive invariant.  What a reader holds, from the statement that  *)
(* read it to its answer, is still true of the tables.                     *)
(***************************************************************************)
Reply == [outcome: {"Ok", "NotFound", "PluginFailure"}, views: SUBSET HoldView,
          events: SUBSET ActivityRow, next: Nat \cup {None}]

ReaderTypes ==
    /\ read_phase \in [Readers -> {"idle", "page", "row", "scopes", "events"}]
    /\ read \in [Readers -> Reads \cup {None}]
    /\ hold_ids \in [Readers -> SUBSET Holds]
    /\ row \in [Readers -> HoldRow \cup {None}]
    /\ views \in [Readers -> SUBSET HoldView]
    /\ has_more \in [Readers -> BOOLEAN]
    /\ reply \in [Readers -> Reply \cup {None}]
    /\ matched \in [Readers -> SUBSET Holds]
    /\ status_then \in [Readers -> [Holds -> {"active", "released", None}]]

FiniteHolds == IsFiniteSet({h \in Holds : Committed(h)})

Filtered(q) == q.op = "list_holds" /\ q.status # None

(***************************************************************************)
(* A row is one the read q asks for.                                       *)
(***************************************************************************)
Wanted(q, w) ==
    /\ w.organization = q.organization
    /\ Filtered(q) => w.status \in {q.status, "released"}

(***************************************************************************)
(* A hold that the page query of q found is still there to be loaded, with *)
(* a status that may be shown.                                             *)
(***************************************************************************)
StillThere(h, q, then) ==
    /\ VisibleTo(h, q)
    /\ Filtered(q) =>
         /\ then = q.status
         /\ q.status = "released" => legal_holds[h].status = "released"

HoldsOf(shown) == {v.hold : v \in shown}

(***************************************************************************)
(* The holds that are loaded and those still to be loaded are the first of *)
(* those the query matched, in this order.                                 *)
(***************************************************************************)
FirstOfMatched(r, page) ==
    /\ page \subseteq matched[r]
    /\ \A h \in matched[r] \ page, s \in page : s < h

PageKept(r) ==
    LET page == hold_ids[r] \cup HoldsOf(views[r]) IN
    /\ FirstOfMatched(r, page)
    /\ has_more[r] <=> page # matched[r]
    /\ \A s \in HoldsOf(views[r]), h \in hold_ids[r] : s < h
    /\ \A h \in matched[r] : StillThere(h, read[r], status_then[r][h])

LoadingKept(r) ==
    /\ read[r].op = "list_holds" => PageKept(r)
    /\ read[r].op # "list_holds" => hold_ids[r] = {read[r].hold} /\ views[r] = {}
    /\ read_phase[r] = "scopes" =>
         \A h \in Holds : NextToLoad(r, h) =>
             RowKept(h, row[r]) /\ Wanted(read[r], row[r])

ViewsKept(r, shown) ==
    \A v \in shown :
        /\ ViewKept(v) /\ Wanted(read[r], v.row)
        /\ Filtered(read[r]) => status_then[r][v.hold] = read[r].status

ReadingKept(r) ==
    /\ read[r] \in Reads /\ reply[r] = None
    /\ ViewsKept(r, views[r])
    /\ read_phase[r] = "page" => read[r].op = "list_holds" /\ views[r] = {}
    /\ read_phase[r] \in {"row", "scopes"} => LoadingKept(r)
    /\ read_phase[r] = "events" =>
         read[r].op = "list_activity" /\ VisibleTo(read[r].hold, read[r])

(***************************************************************************)
(* What was answered.                                                      *)
(***************************************************************************)
PageShown(r) ==
    LET page == HoldsOf(reply[r].views) IN
    /\ FirstOfMatched(r, page)
    /\ reply[r].next = None <=> page = matched[r]
    /\ reply[r].next # None => reply[r].next \in page /\ \A s \in page : s <= reply[r].next

ActivityShown(r) ==
    LET q == read[r] IN
    /\ VisibleTo(q.hold, q)
    /\ \/ reply[r].next = q.after
       \/ \E f \in legal_hold_activity : f.hold = q.hold /\ f.id = reply[r].next
    /\ \A e \in legal_hold_activity :
         (e.hold = q.hold /\ q.after < e.id /\ e.id <= reply[r].next)
           => e \in reply[r].events

ReplyKept(r) ==
    /\ read[r] \in Reads
    /\ ViewsKept(r, reply[r].views)
    /\ \A e \in reply[r].events :
         e.organization = read[r].organization /\ e.hold = read[r].hold
    /\ read[r].op = "list_holds" => reply[r].outcome # "NotFound"
    /\ Answered(r, "list_holds") => PageShown(r)
    /\ Answered(r, "list_activity") => ActivityShown(r)

ReaderKept(r) ==
    /\ read_phase[r] # "idle" => ReadingKept(r)
    /\ reply[r] # None => ReplyKept(r)

ReadsInv ==
    /\ LedgerTypes /\ HistoryInv /\ FiniteHolds
    /\ ReaderTypes
    /\ \A r \in Readers : ReaderKept(r)

-----------------------------------------------------------------------------
(***************************************************************************)
(* A reader that is left alone keeps what it holds while tables advance.   *)
(***************************************************************************)
Alone(r) ==
    /\ read_phase'[r] = read_phase[r] /\ read'[r] = read[r]
    /\ hold_ids'[r] = hold_ids[r] /\ row'[r] = row[r] /\ views'[r] = views[r]
    /\ has_more'[r] = has_more[r] /\ reply'[r] = reply[r]
    /\ matched'[r] = matched[r] /\ status_then'[r] = status_then[r]

(***************************************************************************)
(* Its organization still sees a hold, and what the page query found.      *)
(***************************************************************************)
LEMMA VisibleStay ==
    ASSUME Advance, NEW h \in Holds, NEW q
    PROVE  /\ VisibleTo(h, q) => VisibleTo(h, q)'
           /\ \A then : StillThere(h, q, then) => StillThere(h, q, then)'
<1>1. VisibleTo(h, q) => VisibleTo(h, q)'
  BY DEF Advance, HoldAdvances, VisibleTo, Committed
<1>2. ASSUME VisibleTo(h, q), legal_holds[h].status = "released"
      PROVE  legal_holds'[h].status = "released"
  BY <1>2 DEF Advance, HoldAdvances, VisibleTo, Committed
<1> QED
  BY <1>1, <1>2 DEF StillThere

(***************************************************************************)
(* The views it has.                                                       *)
(***************************************************************************)
LEMMA ShownViewsStay ==
    ASSUME Advance, NEW r, NEW shown, ViewsKept(r, shown),
           read'[r] = read[r], status_then'[r] = status_then[r]
    PROVE  \A v \in shown :
               /\ ViewKept(v)' /\ Wanted(read'[r], v.row)
               /\ Filtered(read'[r]) => status_then'[r][v.hold] = read'[r].status
BY ViewsStay DEF ViewsKept

(***************************************************************************)
(* All of what it holds.                                                   *)
(***************************************************************************)
LEMMA AloneKeeps ==
    ASSUME Advance, ReaderTypes, ReadsAssumption, NEW r \in Readers, ReaderKept(r), Alone(r),
           HistoryInv
    PROVE  ReaderKept(r)'
<1>1. ASSUME read_phase'[r] # "idle" PROVE ReadingKept(r)'
  <2>1. ReadingKept(r) /\ read[r] \in Read
    BY <1>1 DEF ReaderKept, Alone, ReadingKept, ReadsAssumption
  <2>2. ViewsKept(r, views[r])'
    <3>1. ViewsKept(r, views[r])
      BY <2>1 DEF ReadingKept
    <3>2. \A v \in views[r] :
            /\ ViewKept(v)' /\ Wanted(read'[r], v.row)
            /\ Filtered(read'[r]) => status_then'[r][v.hold] = read'[r].status
      BY <3>1, ShownViewsStay DEF Alone
    <3> QED
      BY <3>2 DEF ViewsKept, Alone
  <2>3. ASSUME read_phase[r] \in {"row", "scopes"} PROVE LoadingKept(r)'
    <3>1. LoadingKept(r)
      BY <2>1, <2>3 DEF ReadingKept
    <3>2. ASSUME read[r].op = "list_holds" PROVE PageKept(r)'
      <4>1. PageKept(r)
        BY <3>1, <3>2 DEF LoadingKept
      <4>2. \A h \in matched[r] : h \in Holds /\ StillThere(h, read[r], status_then[r][h])
        BY <4>1 DEF PageKept, ReaderTypes
      <4>3. \A h \in matched[r] : StillThere(h, read[r], status_then[r][h])'
        <5> SUFFICES ASSUME NEW h \in matched[r]
                     PROVE  StillThere(h, read[r], status_then[r][h])'
          OBVIOUS
        <5>1. PICK q, then : q = read[r] /\ then = status_then[r][h]
          OBVIOUS
        <5>2. StillThere(h, q, then)'
          BY <4>2, <5>1, VisibleStay
        <5> QED
          BY <5>1, <5>2 DEF Alone, StillThere, VisibleTo
      <4> QED
        BY <4>1, <4>3 DEF PageKept, FirstOfMatched, Alone
    <3>3. ASSUME read_phase[r] = "scopes", NEW h \in Holds, NextToLoad(r, h)'
          PROVE  RowKept(h, row[r])' /\ Wanted(read[r], row[r])'
      <4>1. RowKept(h, row[r]) /\ Wanted(read[r], row[r])
        BY <3>1, <3>3 DEF LoadingKept, NextToLoad, Alone
      <4>2. RowKept(h, row[r])'
        BY <4>1, RowsStay DEF Alone, RowKept
      <4> QED
        BY <4>1, <4>2 DEF Alone, Wanted, Filtered
    <3> QED
      BY <3>1, <3>2, <3>3 DEF LoadingKept, Alone
  <2>4. ASSUME read_phase[r] = "events"
        PROVE  read[r].op = "list_activity" /\ VisibleTo(read[r].hold, read[r])'
    <3>1. read[r].op = "list_activity" /\ VisibleTo(read[r].hold, read[r])
      BY <2>1, <2>4 DEF ReadingKept
    <3>2. read[r].hold \in Holds
      BY <2>1, <3>1 DEF Read
    <3> QED
      BY <3>1, <3>2, VisibleStay DEF Alone, VisibleTo
  <2> QED
    BY <2>1, <2>2, <2>3, <2>4 DEF ReadingKept, Alone
<1>2. ASSUME reply'[r] # None PROVE ReplyKept(r)'
  <2>1. ReplyKept(r) /\ read[r] \in Read /\ reply[r] # None
    BY <1>2 DEF ReaderKept, Alone, ReplyKept, ReadsAssumption
  <2>2. ViewsKept(r, reply[r].views)'
    BY <2>1, ShownViewsStay DEF ReplyKept, Alone, ViewsKept
  <2>3. ASSUME Answered(r, "list_holds") PROVE PageShown(r)'
    BY <2>1, <2>3 DEF ReplyKept, PageShown, FirstOfMatched, Alone
  <2>4. ASSUME Answered(r, "list_activity") PROVE ActivityShown(r)'
    <3> DEFINE q == read[r]
               next == reply[r].next
    <3>1. ActivityShown(r) /\ q.hold \in Holds /\ q.after \in Nat
      BY <2>1, <2>4 DEF ReplyKept, Answered, Read
    <3>2. VisibleTo(q.hold, q)'
      BY <3>1, VisibleStay DEF ActivityShown, Alone, VisibleTo
    <3>3. \/ next = q.after
          \/ \E f \in legal_hold_activity' : f.hold = q.hold /\ f.id = next
      BY <3>1 DEF ActivityShown, Advance
    <3>4. ASSUME NEW e \in legal_hold_activity', e.hold = q.hold, q.after < e.id,
                 e.id <= next
          PROVE  e \in reply[r].events
      <4>1. CASE e \in legal_hold_activity
        BY <3>1, <3>4, <4>1 DEF ActivityShown
      <4>2. CASE e \notin legal_hold_activity
        <5>1. e.id \in Nat
          BY DEF Advance, TablesTypeOK, ActivityRow
        <5>2. next # q.after
          BY <3>1, <3>4, <5>1
        <5>3. PICK f \in legal_hold_activity : f.hold = q.hold /\ f.id = next
          BY <3>1, <5>2 DEF ActivityShown
        <5>4. f.id < e.id /\ f.id \in Nat
          BY <3>4, <4>2, <5>3 DEF Advance, TablesTypeOK, ActivityRow
        <5> QED
          BY <3>4, <5>1, <5>3, <5>4
      <4> QED
        BY <4>1, <4>2
    <3> QED
      BY <3>2, <3>3, <3>4 DEF ActivityShown, Alone
  <2> QED
    BY <2>1, <2>2, <2>3, <2>4 DEF ReplyKept, Answered, Alone
<1> QED
  BY <1>1, <1>2 DEF ReaderKept

-----------------------------------------------------------------------------
(***************************************************************************)
(* The mutations beside the readers.                                       *)
(***************************************************************************)
LEMMA LedgerKeepsReads ==
    ASSUME ReadsInv, Ledger!Next, UNCHANGED readVars
    PROVE  ReadsInv'
<1>1. LedgerTypes /\ HistoryInv /\ FiniteHolds /\ ReaderTypes /\ TablesTypeOK
  BY DEF ReadsInv, LedgerTypes
<1>2. LedgerTypes'
  BY <1>1, BeginKeepsTypes, StepServes DEF Ledger!Next
<1>3. UNCHANGED tables \/ \E q \in Requests, id \in Nat : TakesEffect(q, id)
  BY <1>1, BeginKeepsTypes, StepTakesEffect DEF Ledger!Next
<1>4. HistoryInv' /\ Advance
  BY <1>1, <1>3, QuietHistory, EffectKeepsInv, QuietAdvances, EffectAdvances
<1>5. FiniteHolds'
  <2>1. CASE UNCHANGED tables
    BY <1>1, <2>1 DEF FiniteHolds, Committed, tables
  <2>2. ASSUME NEW q \in Requests, NEW id \in Nat, TakesEffect(q, id)
        PROVE  FiniteHolds'
    <3> DEFINE there == {h \in Holds : Committed(h)}
    <3>1. \A h \in Holds \ {q.hold} : legal_holds'[h] = legal_holds[h]
      BY <1>1, <2>2, EffectOnTables
    <3>2. {h \in Holds : Committed(h)'} \in SUBSET (there \cup {q.hold})
      BY <3>1 DEF Committed
    <3>3. IsFiniteSet(there \cup {q.hold})
      BY <1>1, FS_AddElement DEF FiniteHolds
    <3> QED
      BY <3>2, <3>3, FS_Subset DEF FiniteHolds
  <2> QED
    BY <1>3, <2>1, <2>2
<1>6. ReaderTypes'
  BY <1>1 DEF ReaderTypes, readVars
<1>7. ASSUME NEW r \in Readers PROVE ReaderKept(r)'
  <2>1. Alone(r) /\ ReaderKept(r)
    BY DEF Alone, readVars, ReadsInv
  <2> QED
    BY <1>1, <1>4, <2>1, ReadsAssumption, AloneKeeps
<1> QED
  BY <1>2, <1>4, <1>5, <1>6, <1>7 DEF ReadsInv

(***************************************************************************)
(* A step of a reader leaves the tables and the other readers alone.       *)
(***************************************************************************)
LEMMA OneReaderSteps ==
    ASSUME ReadsInv, NEW r \in Readers, UNCHANGED ledgerVars,
           \A q \in Readers \ {r} : Alone(q),
           ReaderTypes', ReaderKept(r)'
    PROVE  ReadsInv'
<1>1. LedgerTypes /\ HistoryInv /\ FiniteHolds /\ ReaderTypes /\ TablesTypeOK
  BY DEF ReadsInv, LedgerTypes
<1>2. UNCHANGED tables
  BY DEF ledgerVars
<1>3. LedgerTypes' /\ FiniteHolds'
  BY <1>1, <1>2 DEF LedgerTypes, TablesTypeOK, FiniteHolds, Committed, ledgerVars, tables
<1>4. HistoryInv' /\ Advance
  BY <1>1, <1>2, QuietHistory, QuietAdvances
<1>5. ASSUME NEW q \in Readers PROVE ReaderKept(q)'
  BY <1>1, <1>4, ReadsAssumption, AloneKeeps DEF ReadsInv
<1> QED
  BY <1>3, <1>4, <1>5 DEF ReadsInv

(***************************************************************************)
(* A new read holds nothing yet.                                           *)
(***************************************************************************)
LEMMA BeginReadKeeps ==
    ASSUME ReadsInv, NEW r \in Readers, NEW q \in Reads, BeginRead(r, q)
    PROVE  ReadsInv'
<1>1. ReaderTypes /\ UNCHANGED ledgerVars /\ q \in Read
  BY ReadsAssumption DEF ReadsInv, BeginRead
<1>2. q.op # "list_holds" => q.hold \in Holds
  BY <1>1 DEF Read
<1>3. \A p \in Readers \ {r} : Alone(p)
  BY <1>1 DEF ReaderTypes, BeginRead, Alone
<1>4. ReaderTypes'
  BY <1>1, <1>2 DEF ReaderTypes, BeginRead, NoStatus
<1>5. /\ read_phase'[r] = IF q.op = "list_holds" THEN "page" ELSE "row"
      /\ read'[r] = q /\ views'[r] = {} /\ reply'[r] = None
      /\ hold_ids'[r] = IF q.op = "list_holds" THEN {} ELSE {q.hold}
  BY <1>1 DEF ReaderTypes, BeginRead
<1>6. ReaderKept(r)'
  BY <1>5 DEF ReaderKept, ReadingKept, LoadingKept, ViewsKept
<1> QED
  BY <1>1, <1>3, <1>4, <1>6, OneReaderSteps

(***************************************************************************)
(* A call that is refused shows nothing.                                   *)
(***************************************************************************)
LEMMA RefusedKept ==
    ASSUME ReaderTypes, NEW r \in Readers, read[r] \in Reads, read' = read,
           NEW o \in {"NotFound", "PluginFailure"}, Finish(r, Refused(o)),
           read[r].op = "list_holds" => o # "NotFound"
    PROVE  /\ ReaderKept(r)'
           /\ reply' \in [Readers -> Reply \cup {None}]
           /\ read_phase' \in [Readers -> {"idle", "page", "row", "scopes", "events"}]
<1>1. reply'[r] = Refused(o) /\ read_phase'[r] = "idle"
  BY DEF Finish, ReaderTypes
<1>2. Refused(o) \in Reply
  BY DEF Refused, Reply
<1>3. ReaderKept(r)'
  BY <1>1 DEF ReaderKept, ReplyKept, ViewsKept, Answered, Refused
<1> QED
  BY <1>2, <1>3 DEF Finish, ReaderTypes

(***************************************************************************)
(* A statement fails.                                                      *)
(***************************************************************************)
LEMMA FailReadKeeps ==
    ASSUME ReadsInv, NEW r \in Readers, FailRead(r)
    PROVE  ReadsInv'
<1>1. ReaderTypes /\ UNCHANGED ledgerVars /\ Finish(r, Refused("PluginFailure"))
      /\ read' = read /\ read[r] \in Reads
  BY DEF ReadsInv, FailRead, ReaderKept, ReadingKept
<1>2. ReaderKept(r)' /\ reply' \in [Readers -> Reply \cup {None}]
      /\ read_phase' \in [Readers -> {"idle", "page", "row", "scopes", "events"}]
  BY <1>1, RefusedKept
<1>3. ReaderTypes'
  BY <1>1, <1>2 DEF ReaderTypes, FailRead, history
<1>4. \A p \in Readers \ {r} : Alone(p)
  BY <1>1 DEF ReaderTypes, FailRead, Finish, Alone, history
<1> QED
  BY <1>1, <1>2, <1>3, <1>4, OneReaderSteps

(***************************************************************************)
(* The page query: one hold more than the limit tells whether some are     *)
(* left.                                                                   *)
(***************************************************************************)
LEMMA PageQueryTells ==
    ASSUME FiniteHolds, NEW q \in Read, q.op = "list_holds"
    PROVE  LET S == PageQuery(q)
               ids == FirstOf(S, OneMore(q))
               page == FirstOf(ids, q.limit)
           IN /\ S \subseteq Holds /\ page \subseteq S
              /\ \A h \in S \ page, s \in page : s < h
              /\ Cardinality(ids) > q.limit <=> page # S
              /\ ids = {} => S = {}
<1> DEFINE S == PageQuery(q)
           page == FirstOf(S, q.limit)
<1>1. q.limit \in Nat /\ q.limit + 1 \in Nat /\ q.limit + 1 > 0
  BY DEF Read
<1>2. S \in SUBSET {h \in Holds : Committed(h)} /\ S \subseteq Holds /\ S \subseteq Nat
  BY ReadsAssumption DEF PageQuery, Committed
<1>3. IsFiniteSet(S)
  BY <1>2, FS_Subset DEF FiniteHolds
<1> HIDE DEF S
<1>4. /\ FirstOf(FirstOf(S, q.limit + 1), q.limit) = page
      /\ Cardinality(FirstOf(S, q.limit + 1)) > q.limit <=> page # S
  BY <1>1, <1>2, <1>3, OneMoreTells
<1>5. page \subseteq S /\ \A x \in page, y \in S : y <= x => y \in page
  BY <1>1, <1>2, <1>3, FirstAreInitial
<1>6. ASSUME NEW h \in S \ page, NEW s \in page PROVE s < h
  <2>1. h \in Nat /\ s \in Nat /\ ~(h <= s)
    BY <1>2, <1>5
  <2> QED
    BY <2>1
<1>7. FirstOf(S, q.limit + 1) = {} => S = {}
  BY <1>1, <1>2, <1>3, FirstShowSome
<1> QED
  BY <1>2, <1>4, <1>5, <1>6, <1>7 DEF S, OneMore

(***************************************************************************)
(* A page that is empty, and one whose holds are to be loaded.             *)
(***************************************************************************)
LEMMA PageKeeps ==
    ASSUME ReadsInv, NEW r \in Readers, Page(r)
    PROVE  ReadsInv'
<1> DEFINE q == read[r]
           S == PageQuery(q)
           ids == FirstOf(S, OneMore(q))
           page == FirstOf(ids, q.limit)
<1>1. /\ ReaderTypes /\ FiniteHolds /\ UNCHANGED ledgerVars /\ TablesTypeOK
      /\ read_phase[r] = "page" /\ q \in Reads /\ q \in Read /\ q.op = "list_holds"
      /\ views[r] = {} /\ reply[r] = None /\ read' = read /\ views' = views
  BY ReadsAssumption DEF ReadsInv, Page, ReaderKept, ReadingKept, LedgerTypes
<1>2. /\ S \subseteq Holds /\ page \subseteq S
      /\ \A h \in S \ page, s \in page : s < h
      /\ Cardinality(ids) > q.limit <=> page # S
      /\ ids = {} => S = {}
  BY <1>1, PageQueryTells
<1>3. StatusNow \in [Holds -> {"active", "released", None}]
  BY <1>1 DEF StatusNow, TablesTypeOK, HoldRow
<1>4. \A h \in S : StillThere(h, q, StatusNow[h])
  BY <1>1, <1>2 DEF PageQuery, StillThere, StatusNow, VisibleTo, Filtered, Read
<1>5. /\ matched' = [matched EXCEPT ![r] = S]
      /\ status_then' = [status_then EXCEPT ![r] = StatusNow]
      /\ has_more' = [has_more EXCEPT ![r] = Cardinality(ids) > q.limit]
      /\ hold_ids' = [hold_ids EXCEPT ![r] = page]
      /\ row' = row
      /\ \/ ids = {} /\ Finish(r, EmptyPage)
         \/ /\ read_phase' = [read_phase EXCEPT ![r] = "row"]
            /\ UNCHANGED reply
  BY DEF Page
<1> HIDE DEF S, ids, page
<1>6. \A p \in Readers \ {r} : Alone(p)
  BY <1>1, <1>5 DEF ReaderTypes, Finish, Alone
<1>7. EmptyPage \in Reply
  BY DEF EmptyPage, Reply
<1>8. /\ reply' \in [Readers -> Reply \cup {None}]
      /\ read_phase' \in [Readers -> {"idle", "page", "row", "scopes", "events"}]
  BY <1>1, <1>5, <1>7 DEF ReaderTypes, Finish
<1>9. page \subseteq Holds
  BY <1>2
<1>10. has_more' \in [Readers -> BOOLEAN]
  BY <1>1, <1>5 DEF ReaderTypes
<1>11. ReaderTypes'
  BY <1>1, <1>2, <1>3, <1>5, <1>8, <1>9, <1>10 DEF ReaderTypes
<1>12. /\ matched'[r] = S /\ status_then'[r] = StatusNow /\ hold_ids'[r] = page
       /\ read'[r] = q /\ views'[r] = {}
  BY <1>1, <1>5 DEF ReaderTypes
<1>13. has_more'[r] <=> page # S
  BY <1>1, <1>2, <1>5 DEF ReaderTypes
<1>14. CASE ids = {} /\ Finish(r, EmptyPage)
  <2>1. read_phase'[r] = "idle" /\ reply'[r] = EmptyPage
    BY <1>1, <1>14 DEF Finish, ReaderTypes
  <2>2. PageShown(r)'
    BY <1>2, <1>12, <1>14, <2>1 DEF PageShown, FirstOfMatched, HoldsOf, EmptyPage
  <2>3. ReaderKept(r)'
    BY <1>1, <1>12, <2>1, <2>2
       DEF ReaderKept, ReplyKept, ViewsKept, Answered, EmptyPage
  <2> QED
    BY <1>1, <1>6, <1>11, <2>3, OneReaderSteps
<1>15. CASE read_phase' = [read_phase EXCEPT ![r] = "row"] /\ reply' = reply
  <2>1. read_phase'[r] = "row" /\ reply'[r] = None
    BY <1>1, <1>15 DEF ReaderTypes
  <2>2. ASSUME NEW h \in matched'[r]
        PROVE  StillThere(h, read[r], status_then[r][h])'
    <3>1. legal_holds' = legal_holds
      BY <1>1 DEF ledgerVars, tables
    <3>2. StillThere(h, q, StatusNow[h])
      BY <1>4, <1>12
    <3> QED
      BY <1>12, <3>1, <3>2 DEF StillThere, VisibleTo
  <2>3. PageKept(r)'
    <3>1. HoldsOf(views'[r]) = {} /\ hold_ids'[r] \cup HoldsOf(views'[r]) = page
      BY <1>12 DEF HoldsOf
    <3> QED
      BY <1>2, <1>12, <1>13, <2>2, <3>1 DEF PageKept, FirstOfMatched
  <2>4. ReaderKept(r)'
    BY <1>1, <1>12, <2>1, <2>3 DEF ReaderKept, ReadingKept, LoadingKept, ViewsKept
  <2> QED
    BY <1>1, <1>6, <1>11, <2>4, OneReaderSteps
<1> QED
  BY <1>5, <1>14, <1>15

(***************************************************************************)
(* The row and the scopes of a hold, read now, are those of its last       *)
(* receipt.                                                                *)
(***************************************************************************)
LEMMA CurrentRow ==
    ASSUME HistoryInv, NEW h \in Holds, Committed(h)
    PROVE  /\ RowKept(h, legal_holds[h])
           /\ \E k \in ReceiptsOf(h, legal_holds[h].revision) :
                legal_hold_commands[k].response =
                  ViewOf(h, legal_holds[h], legal_hold_scopes[h])
<1>1. legal_holds[h] \in HoldRow /\ legal_holds[h].revision \in Nat \ {0}
  BY DEF HistoryInv, TablesTypeOK, Committed, HoldRow
<1>2. \E k \in CommandKey : ReceiptsOf(h, legal_holds[h].revision) = {k}
  <2>1. legal_holds[h].revision \in 1..legal_holds[h].revision
    BY <1>1
  <2> QED
    BY <2>1 DEF HistoryInv, OneReceiptPerRevision
<1>3. \E k \in ReceiptsOf(h, legal_holds[h].revision) :
        legal_hold_commands[k].response =
          ViewOf(h, legal_holds[h], legal_hold_scopes[h])
  BY <1>2 DEF HistoryInv, ReceiptsFormSerialHistory
<1>4. legal_holds[h].revision <= legal_holds[h].revision
  BY <1>1
<1> QED
  BY <1>1, <1>3, <1>4 DEF RowKept, ViewOf

(***************************************************************************)
(* The row is what it is now, or the hold is not there.                    *)
(***************************************************************************)
LEMMA LoadRowKeeps ==
    ASSUME ReadsInv, NEW r \in Readers, LoadRow(r)
    PROVE  ReadsInv'
<1> DEFINE q == read[r]
<1>1. /\ ReaderTypes /\ HistoryInv /\ TablesTypeOK /\ UNCHANGED ledgerVars
      /\ read_phase[r] = "row" /\ q \in Reads /\ q \in Read /\ reply[r] = None
      /\ LoadingKept(r) /\ ViewsKept(r, views[r])
  BY ReadsAssumption DEF ReadsInv, LoadRow, ReaderKept, ReadingKept, LedgerTypes
<1>2. /\ read' = read /\ hold_ids' = hold_ids /\ views' = views
      /\ has_more' = has_more /\ matched' = matched /\ status_then' = status_then
      /\ legal_holds' = legal_holds /\ legal_hold_scopes' = legal_hold_scopes
      /\ legal_hold_commands' = legal_hold_commands
  BY DEF LoadRow, history, ledgerVars, tables
<1>3. PICK h \in Holds :
        /\ NextToLoad(r, h)
        /\ \/ /\ VisibleTo(h, q)
              /\ row' = [row EXCEPT ![r] = legal_holds[h]]
              /\ read_phase' = [read_phase EXCEPT ![r] = "scopes"]
              /\ UNCHANGED reply
           \/ /\ ~VisibleTo(h, q)
              /\ Finish(r, Refused("NotFound"))
              /\ UNCHANGED row
  BY DEF LoadRow
<1>4. \A p \in Readers \ {r} : Alone(p)
  BY <1>1, <1>2, <1>3 DEF ReaderTypes, Finish, Alone
<1>5. q.op = "list_holds" => h \in matched[r] /\ StillThere(h, q, status_then[r][h])
  BY <1>1, <1>3 DEF LoadingKept, PageKept, FirstOfMatched, NextToLoad
<1>6. CASE VisibleTo(h, q) /\ row' = [row EXCEPT ![r] = legal_holds[h]]
           /\ read_phase' = [read_phase EXCEPT ![r] = "scopes"] /\ reply' = reply
  <2>1. Committed(h) /\ legal_holds[h] \in HoldRow
    BY <1>1, <1>6 DEF VisibleTo, Committed, TablesTypeOK
  <2>2. /\ read_phase'[r] = "scopes" /\ row'[r] = legal_holds[h]
    BY <1>1, <1>6 DEF ReaderTypes
  <2>3. ReaderTypes'
    BY <1>1, <1>2, <1>6, <2>1 DEF ReaderTypes
  <2>4. Wanted(q, legal_holds[h])
    <3>1. ASSUME Filtered(q) PROVE legal_holds[h].status \in {q.status, "released"}
      <4>1. q.status \in {"active", "released"} /\ legal_holds[h].status \in {"active", "released"}
        BY <1>1, <2>1, <3>1 DEF Read, Filtered, HoldRow
      <4> QED
        BY <1>5, <3>1, <4>1 DEF StillThere, Filtered
    <3> QED
      BY <1>6, <3>1 DEF Wanted, VisibleTo
  <2>5. RowKept(h, legal_holds[h])
    BY <1>1, <2>1, CurrentRow
  <2>6. RowKept(h, row[r])'
    BY <1>2, <2>2, <2>5 DEF RowKept, Committed, ReceiptsOf
  <2>7. ASSUME NEW g \in Holds, NextToLoad(r, g)' PROVE g = h
    <3>1. g <= h /\ h <= g /\ g \in Nat /\ h \in Nat
      BY <1>2, <1>3, <2>7, ReadsAssumption DEF NextToLoad
    <3> QED
      BY <3>1
  <2>8. LoadingKept(r)'
    <3>1. PageKept(r) => PageKept(r)'
      BY <1>2 DEF PageKept, FirstOfMatched, StillThere, VisibleTo
    <3>2. Wanted(read'[r], row'[r])
      BY <1>2, <2>2, <2>4
    <3>3. /\ q.op = "list_holds" => PageKept(r)'
          /\ q.op # "list_holds" => hold_ids'[r] = {q.hold} /\ views'[r] = {}
      BY <1>1, <1>2, <3>1 DEF LoadingKept
    <3> QED
      BY <1>2, <2>6, <2>7, <3>2, <3>3 DEF LoadingKept
  <2>9. ViewsKept(r, views[r])'
    BY <1>1, <1>2 DEF ViewsKept, ViewKept, RowKept, Committed, ReceiptsOf
  <2>10. ReaderKept(r)'
    BY <1>1, <1>2, <1>6, <2>2, <2>8, <2>9 DEF ReaderKept, ReadingKept
  <2> QED
    BY <1>1, <1>4, <2>3, <2>10, OneReaderSteps
<1>7. CASE ~VisibleTo(h, q) /\ Finish(r, Refused("NotFound")) /\ row' = row
  <2>1. q.op # "list_holds"
    BY <1>5, <1>7 DEF StillThere
  <2>2. ReaderKept(r)' /\ reply' \in [Readers -> Reply \cup {None}]
        /\ read_phase' \in [Readers -> {"idle", "page", "row", "scopes", "events"}]
    BY <1>1, <1>2, <1>7, <2>1, RefusedKept
  <2>3. ReaderTypes'
    BY <1>1, <1>2, <1>7, <2>2 DEF ReaderTypes
  <2> QED
    BY <1>1, <1>4, <2>2, <2>3, OneReaderSteps
<1> QED
  BY <1>3, <1>6, <1>7

(***************************************************************************)
(* A view of a row that was read and of the scopes as they are now.        *)
(***************************************************************************)
LEMMA ViewBecomesKept ==
    ASSUME HistoryInv, NEW h \in Holds, NEW w, RowKept(h, w)
    PROVE  LET v == ViewOf(h, w, legal_hold_scopes[h])
           IN  ViewKept(v) /\ v \in HoldView
<1> DEFINE v == ViewOf(h, w, legal_hold_scopes[h])
<1>1. v.hold = h /\ v.row = w /\ v.scopes = legal_hold_scopes[h]
  BY DEF ViewOf
<1>2. Committed(h) /\ w \in HoldRow /\ w.revision <= legal_holds[h].revision
      /\ w.revision \in Nat
  BY DEF RowKept, HoldRow
<1>3. legal_holds[h].revision \in Nat
  BY <1>2 DEF HistoryInv, TablesTypeOK, Committed, HoldRow
<1>4. legal_holds[h].revision \in w.revision..legal_holds[h].revision
  BY <1>2, <1>3
<1>5. \E k \in ReceiptsOf(h, legal_holds[h].revision) :
        legal_hold_commands[k].response.scopes = legal_hold_scopes[h]
  <2>1. PICK k \in ReceiptsOf(h, legal_holds[h].revision) :
          legal_hold_commands[k].response = ViewOf(h, legal_holds[h], legal_hold_scopes[h])
    BY <1>2, CurrentRow
  <2>2. legal_hold_commands[k].response.scopes = legal_hold_scopes[h]
    BY <2>1 DEF ViewOf
  <2> QED
    BY <2>2
<1>6. w.status = "released" => w = legal_holds[h]
  BY DEF RowKept
<1>7. v \in HoldView
  BY <1>2 DEF HistoryInv, TablesTypeOK, ViewOf, HoldView
<1> HIDE DEF v
<1>8. \E n \in v.row.revision..legal_holds[v.hold].revision :
        \E k \in ReceiptsOf(v.hold, n) : legal_hold_commands[k].response.scopes = v.scopes
  BY <1>1, <1>4, <1>5
<1>9. v.row.status = "released" =>
        v = ViewOf(v.hold, legal_holds[v.hold], legal_hold_scopes[v.hold])
  BY <1>1, <1>6 DEF v
<1> QED
  BY <1>1, <1>7, <1>8, <1>9 DEF ViewKept, v

(***************************************************************************)
(* A hold of a page is complete: the next one, or the answer.              *)
(***************************************************************************)
LEMMA PageGoesOn ==
    ASSUME ReaderTypes, NEW r \in Readers, PageKept(r), NEW h \in Holds, NextToLoad(r, h),
           NEW v, v.hold = h,
           UNCHANGED <<legal_holds, read, matched, has_more, status_then>>,
           views'[r] = views[r] \cup {v}, hold_ids'[r] = hold_ids[r] \ {h}
    PROVE  PageKept(r)'
<1>1. HoldsOf(views'[r]) = HoldsOf(views[r]) \cup {h}
  BY DEF HoldsOf
<1>2. hold_ids'[r] \cup HoldsOf(views'[r]) = hold_ids[r] \cup HoldsOf(views[r])
  BY <1>1 DEF NextToLoad
<1>3. ASSUME NEW s \in HoldsOf(views'[r]), NEW g \in hold_ids'[r]
      PROVE  s < g
  <2>1. g \in hold_ids[r] /\ g # h /\ g \in Nat /\ h \in Nat /\ h <= g
    BY ReadsAssumption DEF ReaderTypes, NextToLoad
  <2>2. h < g
    BY <2>1
  <2> QED
    BY <1>1, <2>1, <2>2 DEF PageKept
<1>4. \A g \in matched'[r] : StillThere(g, read[r], status_then[r][g])'
  BY DEF PageKept, StillThere, VisibleTo
<1> QED
  BY <1>2, <1>3, <1>4 DEF PageKept, FirstOfMatched

(***************************************************************************)
(* The last hold of the page completes it.                                 *)
(***************************************************************************)
LEMMA PageEnds ==
    ASSUME ReaderTypes, NEW r \in Readers, PageKept(r), NEW h \in Holds, hold_ids[r] = {h},
           NEW v, v.hold = h, matched' = matched,
           reply'[r].views = views[r] \cup {v},
           reply'[r].next = IF has_more[r] THEN h ELSE None
    PROVE  PageShown(r)'
<1> DEFINE page == HoldsOf(views[r]) \cup {h}
<1>1. HoldsOf(reply'[r].views) = page /\ page = hold_ids[r] \cup HoldsOf(views[r])
  BY DEF HoldsOf
<1>2. has_more[r] \in BOOLEAN /\ h # None /\ h \in Nat
  BY ReadsAssumption DEF ReaderTypes
<1>3. ASSUME NEW s \in page PROVE s <= h
  <2>1. CASE s = h
    BY <1>2, <2>1
  <2>2. CASE s # h
    <3>1. s \in HoldsOf(views[r]) /\ s < h /\ s \in matched[r]
      BY <1>1, <2>2 DEF PageKept, FirstOfMatched
    <3>2. s \in Nat
      BY <3>1, ReadsAssumption DEF ReaderTypes
    <3> QED
      BY <1>2, <3>1, <3>2
  <2> QED
    BY <2>1, <2>2
<1>4. page \subseteq matched'[r] /\ \A g \in matched'[r] \ page, s \in page : s < g
  BY <1>1 DEF PageKept, FirstOfMatched
<1>5. reply'[r].next = None <=> page = matched'[r]
  BY <1>1, <1>2 DEF PageKept
<1>6. reply'[r].next # None => reply'[r].next = h
  BY <1>2
<1> HIDE DEF page
<1> QED
  BY <1>1, <1>3, <1>4, <1>5, <1>6 DEF PageShown, FirstOfMatched

(***************************************************************************)
(* A view is complete: the read goes on to its next hold, to its events,   *)
(* or to its answer.                                                       *)
(***************************************************************************)
LEMMA LoadScopesKeeps ==
    ASSUME ReadsInv, NEW r \in Readers, LoadScopes(r)
    PROVE  ReadsInv'
<1> DEFINE q == read[r]
<1>1. /\ ReaderTypes /\ HistoryInv /\ TablesTypeOK /\ UNCHANGED ledgerVars
      /\ read_phase[r] = "scopes" /\ q \in Reads /\ q \in Read /\ reply[r] = None
      /\ LoadingKept(r) /\ ViewsKept(r, views[r])
  BY ReadsAssumption DEF ReadsInv, LoadScopes, ReaderKept, ReadingKept, LedgerTypes
<1>2. /\ read' = read /\ row' = row
      /\ has_more' = has_more /\ matched' = matched /\ status_then' = status_then
      /\ legal_holds' = legal_holds /\ legal_hold_scopes' = legal_hold_scopes
      /\ legal_hold_commands' = legal_hold_commands
  BY DEF LoadScopes, history, ledgerVars, tables
<1>3. PICK h \in Holds :
        NextToLoad(r, h) /\ Loaded(r, h, ViewOf(h, row[r], legal_hold_scopes[h]))
  BY DEF LoadScopes
<1>4. PICK v : v = ViewOf(h, row[r], legal_hold_scopes[h])
  OBVIOUS
<1>5. RowKept(h, row[r]) /\ Wanted(q, row[r])
  BY <1>1, <1>3 DEF LoadingKept
<1>6. ViewKept(v) /\ v \in HoldView /\ v.hold = h /\ v.row = row[r]
  BY <1>1, <1>4, <1>5, ViewBecomesKept DEF ViewOf
<1>7. Loaded(r, h, v)
  BY <1>3, <1>4
<1>8. /\ views' = [views EXCEPT ![r] = views[r] \cup {v}]
      /\ hold_ids' = [hold_ids EXCEPT ![r] = hold_ids[r] \ {h}]
  BY <1>7 DEF Loaded
<1>9. \A p \in Readers \ {r} : Alone(p)
  BY <1>1, <1>2, <1>7 DEF ReaderTypes, Loaded, Finish, Alone
<1>10. /\ views'[r] = views[r] \cup {v} /\ hold_ids'[r] = hold_ids[r] \ {h}
       /\ views' \in [Readers -> SUBSET HoldView] /\ hold_ids' \in [Readers -> SUBSET Holds]
  BY <1>1, <1>6, <1>8 DEF ReaderTypes
<1>11. q.op = "list_holds" => PageKept(r) /\ h \in matched[r]
  BY <1>1, <1>3 DEF LoadingKept, PageKept, FirstOfMatched, NextToLoad
<1>12. Filtered(q) => status_then[r][h] = q.status
  BY <1>11 DEF Filtered, PageKept, StillThere
<1>13. ViewsKept(r, views[r] \cup {v})
  BY <1>1, <1>5, <1>6, <1>12 DEF ViewsKept
<1>14. \A shown : ViewsKept(r, shown) =>
         \A x \in shown : ViewKept(x)' /\ Wanted(read'[r], x.row)
                          /\ (Filtered(read'[r]) => status_then'[r][x.hold] = read'[r].status)
  BY <1>1, <1>2 DEF ViewsKept, ViewKept, RowKept, Committed, ReceiptsOf
<1>15. ViewsKept(r, views[r])'
  BY <1>10, <1>13, <1>14 DEF ViewsKept
<1>16. CASE q.op = "list_activity"
  <2>1. read_phase' = [read_phase EXCEPT ![r] = "events"] /\ reply' = reply
    BY <1>7, <1>16 DEF Loaded
  <2>2. read_phase'[r] = "events" /\ reply'[r] = None
    BY <1>1, <2>1 DEF ReaderTypes
  <2>3. ReaderTypes'
    BY <1>1, <1>2, <1>10, <2>1 DEF ReaderTypes
  <2>4. h = q.hold
    BY <1>1, <1>3, <1>16 DEF LoadingKept, NextToLoad
  <2>5. VisibleTo(q.hold, q)
    BY <1>5, <2>4 DEF RowKept, Wanted, VisibleTo, Committed
  <2>6. VisibleTo(read[r].hold, read[r])'
    BY <1>2, <2>5 DEF VisibleTo
  <2>7. ReaderKept(r)'
    BY <1>1, <1>2, <1>15, <1>16, <2>2, <2>6 DEF ReaderKept, ReadingKept
  <2> QED
    BY <1>1, <1>9, <2>3, <2>7, OneReaderSteps
<1>17. CASE q.op # "list_activity" /\ hold_ids[r] # {h}
  <2>1. read_phase' = [read_phase EXCEPT ![r] = "row"] /\ reply' = reply
    BY <1>7, <1>17 DEF Loaded
  <2>2. read_phase'[r] = "row" /\ reply'[r] = None
    BY <1>1, <2>1 DEF ReaderTypes
  <2>3. ReaderTypes'
    BY <1>1, <1>2, <1>10, <2>1 DEF ReaderTypes
  <2>4. q.op = "list_holds"
    BY <1>1, <1>3, <1>17 DEF LoadingKept, NextToLoad
  <2>5. PageKept(r)'
    BY <1>1, <1>2, <1>3, <1>6, <1>10, <1>11, <2>4, PageGoesOn
  <2>6. LoadingKept(r)'
    BY <1>2, <2>2, <2>4, <2>5 DEF LoadingKept
  <2>7. ReaderKept(r)'
    BY <1>1, <1>2, <1>15, <2>2, <2>6 DEF ReaderKept, ReadingKept
  <2> QED
    BY <1>1, <1>9, <2>3, <2>7, OneReaderSteps
<1>18. CASE q.op # "list_activity" /\ hold_ids[r] = {h}
  <2> DEFINE answered == [outcome |-> "Ok", views |-> views[r] \cup {v}, events |-> {},
                          next |-> IF has_more[r] THEN h ELSE None]
  <2>1. Finish(r, answered)
    BY <1>7, <1>18 DEF Loaded
  <2>2. answered \in Reply
    BY <1>1, <1>6, ReadsAssumption DEF ReaderTypes, Reply
  <2> HIDE DEF answered
  <2>3. read_phase'[r] = "idle" /\ reply'[r] = answered
    BY <1>1, <2>1 DEF Finish, ReaderTypes
  <2>4. ReaderTypes'
    BY <1>1, <1>2, <1>10, <2>1, <2>2 DEF ReaderTypes, Finish
  <2> USE DEF answered
  <2>5. ViewsKept(r, reply[r].views)'
    <3>1. reply'[r].views = views[r] \cup {v}
      BY <2>3
    <3>2. \A x \in views[r] \cup {v} :
            ViewKept(x)' /\ Wanted(read'[r], x.row)
            /\ (Filtered(read'[r]) => status_then'[r][x.hold] = read'[r].status)
      BY <1>13, <1>14
    <3> QED
      BY <3>1, <3>2 DEF ViewsKept
  <2>6. q.op = "list_holds" => PageShown(r)'
    BY <1>1, <1>2, <1>6, <1>11, <1>18, <2>3, PageEnds
  <2>7. ReplyKept(r)'
    BY <1>1, <1>2, <1>18, <2>3, <2>5, <2>6 DEF ReplyKept, Answered
  <2>8. ReaderKept(r)'
    BY <2>3, <2>7 DEF ReaderKept
  <2> QED
    BY <1>1, <1>9, <2>4, <2>8, OneReaderSteps
<1> QED
  BY <1>16, <1>17, <1>18

(***************************************************************************)
(* The page of activity: its cursor passes no row, and none that comes.    *)
(***************************************************************************)
LEMMA EventsKeeps ==
    ASSUME ReadsInv, NEW r \in Readers, Events(r)
    PROVE  ReadsInv'
<1> DEFINE q == read[r]
           E == EventsAfter(q)
           I == {e.id : e \in E}
           ids == FirstOf(I, q.limit)
           next == CursorAfter(q, ids)
           answered == [outcome |-> "Ok", views |-> {},
                        events |-> {e \in E : e.id \in ids}, next |-> next]
<1>1. /\ ReaderTypes /\ HistoryInv /\ TablesTypeOK /\ UNCHANGED ledgerVars
      /\ read_phase[r] = "events" /\ q \in Reads /\ q \in Read /\ reply[r] = None
      /\ q.op = "list_activity" /\ VisibleTo(q.hold, q)
  BY ReadsAssumption DEF ReadsInv, Events, ReaderKept, ReadingKept, LedgerTypes
<1>2. /\ read' = read /\ row' = row /\ views' = views /\ hold_ids' = hold_ids
      /\ has_more' = has_more /\ matched' = matched /\ status_then' = status_then
      /\ legal_holds' = legal_holds /\ legal_hold_activity' = legal_hold_activity
      /\ Finish(r, answered)
  BY DEF Events, history, ledgerVars, tables
<1>3. q.hold \in Holds /\ q.after \in Nat /\ q.limit \in Nat
  BY <1>1 DEF Read
<1>4. E \subseteq legal_hold_activity /\ E \subseteq ActivityRow /\ I \subseteq Nat
  BY <1>1 DEF EventsAfter, TablesTypeOK, ActivityRow
<1>5. IsFiniteSet(I)
  <2>1. IsFiniteSet(E)
    BY <1>1, <1>4, FS_Subset, E \in SUBSET legal_hold_activity DEF HistoryInv
  <2>2. [e \in E |-> e.id] \in Surjection(E, I)
    BY DEF Surjection
  <2> QED
    BY <2>1, <2>2, FS_Surjection
<1>6. ids \subseteq I /\ IsFiniteSet(ids)
      /\ \A x \in ids, y \in I : y <= x => y \in ids
  BY <1>3, <1>4, <1>5, FirstAreInitial
<1>7. next \in Nat /\ (ids = {} => next = q.after) /\ (ids # {} => next \in ids)
  <2>1. CASE ids = {}
    BY <1>3, <2>1 DEF CursorAfter
  <2>2. CASE ids # {}
    <3>1. \E n \in ids : \A m \in ids : m <= n
      BY <1>4, <1>6, <2>2, Greatest
    <3>2. next \in ids
      BY <2>2, <3>1 DEF CursorAfter
    <3> QED
      BY <1>4, <1>6, <2>2, <3>2
  <2> QED
    BY <2>1, <2>2
<1>8. ASSUME NEW e \in legal_hold_activity, e.hold = q.hold, q.after < e.id, e.id <= next
      PROVE  e \in E /\ e.id \in ids
  <2>1. e.organization = q.organization
    <3>1. e.organization = legal_holds[e.hold].organization
      BY <1>1 DEF HistoryInv, ActivityExplainsHold
    <3> QED
      BY <1>1, <1>8, <3>1 DEF VisibleTo
  <2>2. e.id \in Nat
    BY <1>1 DEF TablesTypeOK, ActivityRow
  <2>3. e.id > q.after /\ e \in E
    BY <1>3, <1>8, <2>1, <2>2 DEF EventsAfter
  <2>4. ids # {}
    BY <1>3, <1>7, <1>8, <2>2
  <2> QED
    BY <1>6, <1>7, <1>8, <2>3, <2>4
<1>9. next = q.after \/ \E f \in legal_hold_activity : f.hold = q.hold /\ f.id = next
  BY <1>4, <1>6, <1>7 DEF EventsAfter
<1>10. answered \in Reply
  BY <1>4, <1>7 DEF Reply
<1>11. \A e \in answered.events : e.organization = q.organization /\ e.hold = q.hold
  BY DEF EventsAfter
<1>12. \A e \in legal_hold_activity :
         (e.hold = q.hold /\ q.after < e.id /\ e.id <= answered.next)
           => e \in answered.events
  BY <1>8
<1>13. answered.views = {} /\ answered.outcome = "Ok" /\ answered.next = next
  OBVIOUS
<1> HIDE DEF answered, next, ids, I, E
<1>14. read_phase'[r] = "idle" /\ reply'[r] = answered
  BY <1>1, <1>2 DEF Finish, ReaderTypes
<1>15. ReaderTypes'
  BY <1>1, <1>2, <1>10 DEF ReaderTypes, Finish
<1>16. \A p \in Readers \ {r} : Alone(p)
  BY <1>1, <1>2 DEF ReaderTypes, Finish, Alone
<1>17. ActivityShown(r)'
  BY <1>1, <1>2, <1>9, <1>12, <1>13, <1>14 DEF ActivityShown, VisibleTo
<1>18. ReplyKept(r)'
  BY <1>1, <1>2, <1>11, <1>13, <1>14, <1>17 DEF ReplyKept, ViewsKept, Answered
<1>19. ReaderKept(r)'
  BY <1>14, <1>18 DEF ReaderKept
<1> QED
  BY <1>1, <1>15, <1>16, <1>19, OneReaderSteps

-----------------------------------------------------------------------------
(***************************************************************************)
(* Every reachable state: what a reader holds is true of the tables.       *)
(***************************************************************************)
THEOREM Invariant == Spec => []ReadsInv
<1>1. Init => ReadsInv
  <2> SUFFICES ASSUME Init PROVE ReadsInv
    OBVIOUS
  <2>1. LedgerTypes /\ TablesEmpty
    BY LedgerStarts DEF Init
  <2>2. HistoryInv
    BY <2>1, EmptyHistory
  <2>3. FiniteHolds
    <3>1. {h \in Holds : Committed(h)} = {}
      BY <2>1 DEF TablesEmpty, Committed
    <3> QED
      BY <3>1, FS_EmptySet DEF FiniteHolds
  <2>4. ReaderTypes
    BY DEF Init, ReaderTypes, NoStatus
  <2>5. \A r \in Readers : ReaderKept(r)
    BY DEF Init, ReaderKept
  <2> QED
    BY <2>1, <2>2, <2>3, <2>4, <2>5 DEF ReadsInv
<1>2. ReadsInv /\ [Next]_vars => ReadsInv'
  <2> SUFFICES ASSUME ReadsInv, [Next]_vars PROVE ReadsInv'
    OBVIOUS
  <2>1. CASE Ledger!Next /\ UNCHANGED readVars
    BY <2>1, LedgerKeepsReads
  <2>2. ASSUME NEW r \in Readers,
               \/ \E q \in Reads : BeginRead(r, q)
               \/ Page(r) \/ LoadRow(r) \/ LoadScopes(r) \/ Events(r) \/ FailRead(r)
        PROVE  ReadsInv'
    BY <2>2, BeginReadKeeps, PageKeeps, LoadRowKeeps, LoadScopesKeeps, EventsKeeps,
       FailReadKeeps
  <2>3. CASE UNCHANGED vars
    <3>1. UNCHANGED tables /\ TablesTypeOK /\ HistoryInv /\ ReaderTypes
      BY <2>3 DEF vars, ledgerVars, ReadsInv, LedgerTypes
    <3>2. HistoryInv' /\ Advance
      BY <3>1, QuietHistory, QuietAdvances
    <3>3. LedgerTypes' /\ FiniteHolds' /\ ReaderTypes'
      BY <2>3 DEF vars, ledgerVars, tables, readVars, ReadsInv, LedgerTypes, TablesTypeOK,
                  FiniteHolds, Committed, ReaderTypes
    <3>4. ASSUME NEW r \in Readers PROVE ReaderKept(r)'
      <4>1. Alone(r) /\ ReaderKept(r)
        BY <2>3 DEF vars, readVars, Alone, ReadsInv
      <4> QED
        BY <3>1, <3>2, <4>1, ReadsAssumption, AloneKeeps
    <3> QED
      BY <3>2, <3>3, <3>4 DEF ReadsInv
  <2> QED
    BY <2>1, <2>2, <2>3 DEF Next
<1> QED
  BY <1>1, <1>2, PTL DEF Spec

(***************************************************************************)
(* A view is never made up: row and scopes are each of the hold's history. *)
(***************************************************************************)
THEOREM ViewsTrue == Spec => []ViewsComeFromHistory
<1>1. ReadsInv => ViewsComeFromHistory
  BY DEF ReadsInv, ReaderKept, ReplyKept, ViewsKept, ViewKept, RowKept,
         ViewsComeFromHistory, ShownViews
<1> QED
  BY <1>1, Invariant, PTL

(***************************************************************************)
(* A view that says released is the hold for ever.                         *)
(***************************************************************************)
THEOREM ReleasedTrue == Spec => []ReleasedViewsAreFinal
<1>1. ReadsInv => ReleasedViewsAreFinal
  BY DEF ReadsInv, ReaderKept, ReplyKept, ViewsKept, ViewKept,
         ReleasedViewsAreFinal, ShownViews
<1> QED
  BY <1>1, Invariant, PTL

(***************************************************************************)
(* What is shown was asked for, and no hold of a page is gone.             *)
(***************************************************************************)
THEOREM Asked == Spec => []ShownAsAsked
<1>1. ReadsInv => ShownAsAsked
  BY DEF ReadsInv, ReaderKept, ReplyKept, ViewsKept, Wanted, Filtered, ShownAsAsked,
         ShownViews
<1> QED
  BY <1>1, Invariant, PTL

(***************************************************************************)
(* A page leaves no hold out.                                              *)
(***************************************************************************)
THEOREM PagesComplete == Spec => []PagesSkipNoHold
<1>1. ReadsInv => PagesSkipNoHold
  BY DEF ReadsInv, ReaderKept, ReplyKept, PageShown, FirstOfMatched, HoldsOf, Answered,
         PagesSkipNoHold, ShownViews
<1> QED
  BY <1>1, Invariant, PTL

(***************************************************************************)
(* A cursor passes no activity, committed before it or after.              *)
(***************************************************************************)
THEOREM CursorsComplete == Spec => []CursorsSkipNoActivity
<1>1. ReadsInv => CursorsSkipNoActivity
  BY DEF ReadsInv, ReaderKept, ReplyKept, ActivityShown, Answered, CursorsSkipNoActivity
<1> QED
  BY <1>1, Invariant, PTL

-----------------------------------------------------------------------------
(***************************************************************************)
(* Reading leaves the ledger the ledger: no statement of a read changes    *)
(* what the mutations meet (storage.rs:360-443).                           *)
(***************************************************************************)
THEOREM ReadsKeepLedger == Spec => Ledger!Spec
<1>1. Init => Ledger!Init
  BY DEF Init
<1>2. [Next]_vars => [Ledger!Next]_(Ledger!vars)
  <2> SUFFICES ASSUME [Next]_vars
               PROVE  Ledger!Next \/ UNCHANGED ledgerVars
    BY LedgerStutters
  <2>1. ASSUME NEW r \in Readers, NEW q \in Reads, BeginRead(r, q)
        PROVE  UNCHANGED ledgerVars
    BY <2>1 DEF BeginRead
  <2>2. ASSUME NEW r \in Readers,
               Page(r) \/ LoadRow(r) \/ LoadScopes(r) \/ Events(r) \/ FailRead(r)
        PROVE  UNCHANGED ledgerVars
    BY <2>2 DEF Page, LoadRow, LoadScopes, Events, FailRead
  <2>3. CASE UNCHANGED vars
    BY <2>3 DEF vars
  <2> QED
    BY <2>1, <2>2, <2>3 DEF Next
<1> QED
  BY <1>1, <1>2, PTL DEF Spec, Ledger!Spec

(***************************************************************************)
(* So all that the ledger promises of its tables and of its answers is so  *)
(* beside any number of readers.                                           *)
(***************************************************************************)
THEOREM TablesKept ==
    Spec => /\ []HistoryInv /\ []SuccessesReceipted
            /\ ReceiptsPermanent /\ ReleasedHoldsImmutable
            /\ ActivityAppearsInOrder
<1>1. LedgerTypes /\ HistoryInv => HistoryInv
  OBVIOUS
<1> QED
  BY <1>1, ReadsKeepLedger, LedgerHistory, LedgerIsDurable, LedgerKeepsTables, PTL
=============================================================================
