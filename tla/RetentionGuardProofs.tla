------------------------ MODULE RetentionGuardProofs ------------------------
(***************************************************************************)
(* Proofs about RetentionGuard: the guard misses no standing hold, invents *)
(* none, and cites evidence that can be derived again, for any number of   *)
(* holds, mutations and concurrent evaluations.                            *)
(***************************************************************************)
EXTENDS RetentionGuard, HoldStoreProofs

-----------------------------------------------------------------------------
(***************************************************************************)
(* A citation: a receipt whose response, as the hold then was, protects    *)
(* the subject of the check by as many scopes as the evidence counts.      *)
(***************************************************************************)
Cited(c, m) ==
    \E k \in ReceiptsOf(m.hold, m.revision) :
        LET then == legal_hold_commands[k].response IN
        /\ Protects(c, then.row, then.scopes)
        /\ Cardinality(ProtectingScopes(c, then.scopes)) = m.rows

(***************************************************************************)
(* The inductive invariant.  Before the SELECT the protecting holds lie    *)
(* between the ones standing since the call began and the ones seen since; *)
(* afterwards what it returned does, and stays so whatever is committed.   *)
(***************************************************************************)
Between(g, holds) == standing[g] \subseteq holds /\ holds \subseteq seen[g]

HoldsOf(matches) == {m.hold : m \in matches}

Shapes ==
    /\ guard_phase \in [GuardCalls -> {"idle", "evaluate", "store", "orphan"}]
    /\ check \in [GuardCalls -> Checks \cup {None}]
    /\ matching \in [GuardCalls -> SUBSET Match]
    /\ decision \in [GuardCalls -> Decision \cup {None}]
    /\ standing \in [GuardCalls -> SUBSET Holds]
    /\ seen \in [GuardCalls -> SUBSET Holds]
    /\ legal_hold_guard_decisions \subseteq Evidence

Watching(g) ==
    /\ guard_phase[g] # "idle" => check[g] \in Checks
    /\ guard_phase[g] = "evaluate" => Between(g, ProtectingHolds(check[g]))
    /\ guard_phase[g] \in {"store", "orphan"} =>
         /\ Between(g, HoldsOf(matching[g]))
         /\ \A m \in matching[g] : Cited(check[g], m)

Answered(g) ==
    Decided(g) =>
        /\ guard_phase[g] = "idle"
        /\ decision[g].evidence \in legal_hold_guard_decisions
        /\ decision[g].evidence.check = check[g]
        /\ decision[g].allowed <=> decision[g].evidence.matching_holds = {}
        /\ Between(g, HoldsOf(decision[g].evidence.matching_holds))

EvidenceCited ==
    \A e \in legal_hold_guard_decisions :
        \A m \in e.matching_holds : Cited(e.check, m)

GuardInv ==
    /\ LedgerTypes /\ HistoryInv
    /\ Shapes
    /\ \A g \in GuardCalls : Watching(g) /\ Answered(g)
    /\ EvidenceCited

(***************************************************************************)
(* The SELECT returns the protecting holds, each at a revision whose       *)
(* receipt shows it protecting.                                            *)
(***************************************************************************)
LEMMA SelectFinds ==
    ASSUME HistoryInv, NEW c
    PROVE  /\ MatchingHolds(c) \subseteq Match
           /\ HoldsOf(MatchingHolds(c)) = ProtectingHolds(c)
           /\ \A m \in MatchingHolds(c) : Cited(c, m)
<1>1. ASSUME NEW h \in Holds
      PROVE  MatchingScopes(c, h) = ProtectingScopes(c, legal_hold_scopes[h])
  BY DEF MatchingScopes, ProtectingScopes, SubjectCovers
<1>2. ProtectingHolds(c) =
        {h \in Holds : StatusActive(legal_holds[h]) /\ MatchingScopes(c, h) # {}}
  BY <1>1 DEF ProtectingHolds, Protects, StatusActive
<1>3. HoldsOf(MatchingHolds(c)) = ProtectingHolds(c)
  <2> DEFINE S == {h \in Holds : /\ StatusActive(legal_holds[h])
                                /\ MatchingScopes(c, h) # {}}
             F(h) == [hold |-> h, revision |-> legal_holds[h].revision,
                      rows |-> Cardinality(MatchingScopes(c, h))]
  <2>1. MatchingHolds(c) = {F(h) : h \in S}
    BY DEF MatchingHolds
  <2>2. \A h : F(h).hold = h
    OBVIOUS
  <2>3. S = ProtectingHolds(c)
    BY <1>2
  <2> HIDE DEF S, F
  <2> QED
    BY <2>1, <2>2, <2>3 DEF HoldsOf
<1>4. ASSUME NEW m \in MatchingHolds(c)
      PROVE  m \in Match /\ Cited(c, m)
  <2>1. PICK h \in Holds :
          /\ m = [hold |-> h, revision |-> legal_holds[h].revision,
                  rows |-> Cardinality(MatchingScopes(c, h))]
          /\ StatusActive(legal_holds[h]) /\ MatchingScopes(c, h) # {}
    BY <1>4 DEF MatchingHolds
  <2>2. legal_holds[h] \in HoldRow /\ Committed(h)
    BY <2>1 DEF StatusActive, Committed, HistoryInv, TablesTypeOK
  <2>3. legal_holds[h].revision \in Nat /\ legal_holds[h].revision \in 1..legal_holds[h].revision
    BY <2>2 DEF HoldRow
  <2>4. PICK n : n = legal_holds[h].revision
    OBVIOUS
  <2>5. IsFiniteSet(MatchingScopes(c, h)) /\ Cardinality(MatchingScopes(c, h)) \in Nat
    <3>1. IsFiniteSet(legal_hold_scopes[h]) /\ MatchingScopes(c, h) \subseteq legal_hold_scopes[h]
      BY DEF HistoryInv, MatchingScopes
    <3>2. IsFiniteSet(MatchingScopes(c, h))
      BY <3>1, FS_Subset
    <3> QED
      BY <3>2, FS_CardinalityType
  <2>6. m \in Match
    BY <2>1, <2>3, <2>5 DEF Match
  <2>7. PICK k \in ReceiptsOf(h, n) :
          legal_hold_commands[k].response = ViewOf(h, legal_holds[h], legal_hold_scopes[h])
    BY <2>2, <2>3, <2>4 DEF HistoryInv, OneReceiptPerRevision, ReceiptsFormSerialHistory
  <2>8. m.hold = h /\ m.revision = n /\ m.rows = Cardinality(MatchingScopes(c, h))
    BY <2>1, <2>4
  <2>9. Protects(c, legal_holds[h], legal_hold_scopes[h])
    BY <1>1, <2>1 DEF Protects, StatusActive
  <2> DEFINE then == legal_hold_commands[k].response
  <2>10. then.row = legal_holds[h] /\ then.scopes = legal_hold_scopes[h]
    BY <2>7 DEF ViewOf
  <2> QED
    BY <1>1, <2>6, <2>7, <2>8, <2>9, <2>10 DEF Cited
<1> QED
  BY <1>3, <1>4

(***************************************************************************)
(* Receipts are permanent, and so are the citations that rest on them.     *)
(***************************************************************************)
LEMMA CitationsStay ==
    ASSUME HistoryInv, NEW c, NEW m, Cited(c, m),
           UNCHANGED tables \/ \E r \in Requests, id \in Nat : TakesEffect(r, id)
    PROVE  Cited(c, m)'
<1>1. PICK k \in ReceiptsOf(m.hold, m.revision) :
        /\ Protects(c, legal_hold_commands[k].response.row,
                    legal_hold_commands[k].response.scopes)
        /\ Cardinality(ProtectingScopes(c, legal_hold_commands[k].response.scopes))
             = m.rows
  BY DEF Cited
<1>2. k \in ReceiptsOf(m.hold, m.revision)' /\ legal_hold_commands'[k] = legal_hold_commands[k]
  <2>1. CASE UNCHANGED tables
    BY <2>1 DEF tables, ReceiptsOf
  <2>2. ASSUME NEW r \in Requests, NEW id \in Nat, TakesEffect(r, id)
        PROVE  /\ k \in ReceiptsOf(m.hold, m.revision)'
               /\ legal_hold_commands'[k] = legal_hold_commands[k]
    <3>1. k \in CommandKey \ {CommandKeyOf(r)}
      BY <2>2 DEF ReceiptsOf, TakesEffect, Legal, ReceiptFor
    <3>2. legal_hold_commands'[k] = legal_hold_commands[k]
      BY <2>2, <3>1, EffectOnTables DEF HistoryInv
    <3> QED
      BY <3>1, <3>2 DEF ReceiptsOf
  <2> QED
    BY <2>1, <2>2
<1>3. /\ Protects(c, legal_hold_commands'[k].response.row,
                  legal_hold_commands'[k].response.scopes)
      /\ Cardinality(ProtectingScopes(c, legal_hold_commands'[k].response.scopes))
           = m.rows
  BY <1>1, <1>2
<1> QED
  BY <1>2, <1>3 DEF Cited, Protects, ProtectingScopes

(***************************************************************************)
(* Nothing is watched, decided or stored at first.                         *)
(***************************************************************************)
LEMMA InitGuardInv == Init => GuardInv
<1> SUFFICES ASSUME Init PROVE GuardInv
  OBVIOUS
<1>1. LedgerTypes /\ HistoryInv
  BY LedgerStarts, EmptyHistory DEF Init
<1>2. Shapes
  BY DEF Init, Shapes
<1>3. EvidenceCited /\ \A g \in GuardCalls : Watching(g) /\ Answered(g)
  BY DEF Init, EvidenceCited, Watching, Answered, Decided
<1> QED
  BY <1>1, <1>2, <1>3 DEF GuardInv

(***************************************************************************)
(* A mutation keeps what the evaluations under way have between standing   *)
(* and seen, because both follow it.                                       *)
(***************************************************************************)
LEMMA MutateGuardInv ==
    ASSUME GuardInv, Mutate
    PROVE  GuardInv'
<1>1. /\ legal_hold_guard_decisions' = legal_hold_guard_decisions
      /\ guard_phase' = guard_phase /\ check' = check /\ matching' = matching
      /\ decision' = decision
  BY DEF Mutate, guardVars
<1>2. /\ LedgerTypes'
      /\ UNCHANGED tables \/ \E r \in Requests, id \in Nat : TakesEffect(r, id)
  BY StepOfLedger DEF GuardInv, Mutate
<1>3. HistoryInv'
  BY <1>2, QuietHistory, EffectKeepsInv DEF GuardInv
<1>4. \A c, m : Cited(c, m) => Cited(c, m)'
  BY <1>2, CitationsStay DEF GuardInv
<1>5. ASSUME NEW g \in GuardCalls
      PROVE  /\ guard_phase[g] = "idle" =>
                  standing'[g] = standing[g] /\ seen'[g] = seen[g]
             /\ guard_phase[g] # "idle" =>
                  /\ standing'[g] = standing[g] \cap ProtectingHolds(check[g])'
                  /\ seen'[g] = seen[g] \cup ProtectingHolds(check[g])'
  BY DEF Mutate, Observe
<1>6. ASSUME NEW c PROVE ProtectingHolds(c)' \subseteq Holds
  BY DEF ProtectingHolds
<1>7. Shapes'
  <2>1. standing' \in [GuardCalls -> SUBSET Holds] /\ seen' \in [GuardCalls -> SUBSET Holds]
    BY <1>5, <1>6 DEF GuardInv, Shapes, Mutate, Observe, ProtectingHolds
  <2> QED
    BY <1>1, <2>1 DEF GuardInv, Shapes
<1>8. EvidenceCited'
  BY <1>1, <1>4 DEF GuardInv, EvidenceCited
<1>9. ASSUME NEW g \in GuardCalls
      PROVE  Watching(g)'
  <2>0. Watching(g)
    BY DEF GuardInv
  <2>1. guard_phase'[g] # "idle" => check'[g] \in Checks
    BY <1>1, <2>0 DEF Watching
  <2>2. guard_phase[g] = "evaluate" => Between(g, ProtectingHolds(check[g]))'
    BY <1>1, <1>5 DEF Between
  <2>3. guard_phase[g] \in {"store", "orphan"} => Between(g, HoldsOf(matching[g]))'
    BY <1>1, <1>5, <2>0 DEF Watching, Between, HoldsOf
  <2>4. guard_phase[g] \in {"store", "orphan"} =>
          \A m \in matching[g] : Cited(check[g], m)
    BY <2>0 DEF Watching
  <2>5. PICK c : c = check[g]
    OBVIOUS
  <2>6. check'[g] = c /\ matching'[g] = matching[g]
    BY <1>1, <2>5
  <2>7. ASSUME guard_phase[g] \in {"store", "orphan"}, NEW m \in matching'[g]
        PROVE  Cited(check[g], m)'
    <3>1. Cited(c, m)'
      BY <1>4, <2>4, <2>5, <2>6, <2>7
    <3> QED
      BY <2>6, <3>1 DEF Cited
  <2> QED
    BY <1>1, <2>1, <2>2, <2>3, <2>7 DEF Watching
<1>10. ASSUME NEW g \in GuardCalls
       PROVE  Answered(g)'
  BY <1>1, <1>5 DEF GuardInv, Answered, Decided, Between, HoldsOf
<1> QED
  BY <1>2, <1>3, <1>7, <1>8, <1>9, <1>10 DEF GuardInv

(***************************************************************************)
(* A step of the guard leaves the ledger alone.                            *)
(***************************************************************************)
LEMMA QuietLedger ==
    ASSUME GuardInv, UNCHANGED ledgerVars
    PROVE  /\ LedgerTypes' /\ HistoryInv'
           /\ \A c, m : Cited(c, m) => Cited(c, m)'
           /\ \A c : ProtectingHolds(c)' = ProtectingHolds(c)
<1>1. UNCHANGED tables /\ open' = open /\ request' = request /\ answer' = answer
  BY DEF ledgerVars
<1>2. HistoryInv'
  BY <1>1, QuietHistory DEF GuardInv
<1>3. LedgerTypes'
  BY <1>1, <1>2 DEF GuardInv, LedgerTypes, HistoryInv
<1>4. \A c, m : Cited(c, m) => Cited(c, m)'
  BY <1>1, CitationsStay DEF GuardInv
<1>5. \A c : ProtectingHolds(c)' = ProtectingHolds(c)
  BY <1>1 DEF ProtectingHolds, tables
<1> QED
  BY <1>2, <1>3, <1>4, <1>5

(***************************************************************************)
(* An evaluation that takes no step keeps what it has, and its evidence.   *)
(***************************************************************************)
LEMMA OthersStay ==
    ASSUME GuardInv, UNCHANGED ledgerVars, NEW q \in GuardCalls,
           legal_hold_guard_decisions \subseteq legal_hold_guard_decisions',
           guard_phase'[q] = guard_phase[q], check'[q] = check[q],
           matching'[q] = matching[q], decision'[q] = decision[q],
           standing'[q] = standing[q], seen'[q] = seen[q]
    PROVE  Watching(q)' /\ Answered(q)'
<1>1. Watching(q) /\ Answered(q)
  BY DEF GuardInv
<1>2. Answered(q)'
  BY <1>1 DEF Answered, Decided, Between, HoldsOf
<1>3. PICK c : c = check[q]
  OBVIOUS
<1>4. Between(q, ProtectingHolds(c)) => Between(q, ProtectingHolds(c))'
  BY QuietLedger DEF Between
<1>5. guard_phase[q] = "evaluate" => Between(q, ProtectingHolds(check[q]))'
  BY <1>1, <1>3, <1>4 DEF Watching, Between, ProtectingHolds
<1>6. guard_phase[q] \in {"store", "orphan"} => Between(q, HoldsOf(matching[q]))'
  BY <1>1 DEF Watching, Between, HoldsOf
<1>7. ASSUME guard_phase[q] \in {"store", "orphan"}, NEW m \in matching'[q]
      PROVE  Cited(check[q], m)'
  <2>1. Cited(c, m)
    BY <1>1, <1>3, <1>7 DEF Watching
  <2>2. Cited(c, m)'
    BY <2>1, QuietLedger
  <2> QED
    BY <1>3, <2>2 DEF Cited
<1>8. guard_phase'[q] # "idle" => check'[q] \in Checks
  BY <1>1 DEF Watching
<1> QED
  BY <1>2, <1>5, <1>6, <1>7, <1>8 DEF Watching

(***************************************************************************)
(* Stored evidence stays cited.                                            *)
(***************************************************************************)
LEMMA EvidenceStays ==
    ASSUME GuardInv, UNCHANGED ledgerVars,
           legal_hold_guard_decisions' = legal_hold_guard_decisions
    PROVE  EvidenceCited'
  BY QuietLedger DEF GuardInv, EvidenceCited

(***************************************************************************)
(* A call begins: the holds standing and seen are the protecting ones.     *)
(***************************************************************************)
LEMMA BeginGuardInv ==
    ASSUME GuardInv, NEW g \in GuardCalls, NEW c \in Checks, BeginCheck(g, c)
    PROVE  GuardInv'
<1>1. UNCHANGED ledgerVars /\ legal_hold_guard_decisions' = legal_hold_guard_decisions
  BY DEF BeginCheck
<1>2. ProtectingHolds(c) \subseteq Holds
  BY DEF ProtectingHolds
<1>3. Shapes'
  BY <1>2 DEF GuardInv, Shapes, BeginCheck
<1>4. /\ guard_phase'[g] = "evaluate" /\ check'[g] = c /\ decision'[g] = None
      /\ standing'[g] = ProtectingHolds(c) /\ seen'[g] = ProtectingHolds(c)
  BY DEF GuardInv, Shapes, BeginCheck
<1>5. ProtectingHolds(c)' = ProtectingHolds(c)
  BY <1>1, QuietLedger
<1>6. ProtectingHolds(check[g])' = ProtectingHolds(c)
  BY <1>4, <1>5 DEF ProtectingHolds
<1>7. Watching(g)' /\ Answered(g)'
  BY <1>4, <1>6 DEF Watching, Answered, Decided, Between
<1>8. ASSUME NEW q \in GuardCalls \ {g}
      PROVE  Watching(q)' /\ Answered(q)'
  <2>1. /\ guard_phase'[q] = guard_phase[q] /\ check'[q] = check[q]
        /\ matching'[q] = matching[q] /\ decision'[q] = decision[q]
        /\ standing'[q] = standing[q] /\ seen'[q] = seen[q]
    BY DEF GuardInv, Shapes, BeginCheck
  <2> QED
    BY <1>1, <2>1, OthersStay
<1> QED
  BY <1>1, <1>3, <1>7, <1>8, QuietLedger, EvidenceStays DEF GuardInv

(***************************************************************************)
(* The SELECT: what it returns is what protects the subject at that very   *)
(* moment.                                                                 *)
(***************************************************************************)
LEMMA EvaluateGuardInv ==
    ASSUME GuardInv, NEW g \in GuardCalls, Evaluate(g)
    PROVE  GuardInv'
<1>1. /\ UNCHANGED ledgerVars
      /\ legal_hold_guard_decisions' = legal_hold_guard_decisions
      /\ check' = check /\ decision' = decision
      /\ standing' = standing /\ seen' = seen
  BY DEF Evaluate, history
<1>2. guard_phase[g] = "evaluate" /\ Watching(g) /\ Answered(g) /\ HistoryInv
  BY DEF GuardInv, Evaluate
<1>3. PICK c \in Checks : c = check[g]
  BY <1>2 DEF Watching
<1>4. /\ MatchingHolds(c) \subseteq Match
      /\ HoldsOf(MatchingHolds(c)) = ProtectingHolds(c)
      /\ \A m \in MatchingHolds(c) : Cited(c, m)
  BY <1>2, SelectFinds
<1>5. /\ matching' = [matching EXCEPT ![g] = MatchingHolds(c)]
      /\ guard_phase' = [guard_phase EXCEPT ![g] = "store"]
  BY <1>3 DEF Evaluate
<1>6. Shapes'
  BY <1>1, <1>4, <1>5 DEF GuardInv, Shapes
<1>7. guard_phase'[g] = "store" /\ matching'[g] = MatchingHolds(c)
  BY <1>5 DEF GuardInv, Shapes
<1>8. HoldsOf(matching'[g]) = ProtectingHolds(c)
  BY <1>4, <1>7
<1>9. Between(g, HoldsOf(matching[g]))'
  BY <1>1, <1>2, <1>3, <1>8 DEF Watching, Between, HoldsOf
<1>10. ASSUME NEW m \in matching'[g]
       PROVE  Cited(check[g], m)'
  <2>1. Cited(c, m)'
    BY <1>1, <1>4, <1>7, <1>10, QuietLedger
  <2> QED
    BY <1>1, <1>3, <2>1 DEF Cited
<1>11. Watching(g)'
  BY <1>1, <1>3, <1>7, <1>9, <1>10 DEF Watching
<1>12. Answered(g)'
  BY <1>1, <1>2 DEF Answered, Decided
<1>13. ASSUME NEW q \in GuardCalls \ {g}
       PROVE  Watching(q)' /\ Answered(q)'
  <2>1. guard_phase'[q] = guard_phase[q] /\ matching'[q] = matching[q]
    BY <1>5 DEF GuardInv, Shapes
  <2> QED
    BY <1>1, <2>1, OthersStay
<1> QED
  BY <1>1, <1>6, <1>11, <1>12, <1>13, QuietLedger, EvidenceStays DEF GuardInv

(***************************************************************************)
(* The INSERT: the evidence is there before the answer that cites it.      *)
(***************************************************************************)
LEMMA StoreGuardInv ==
    ASSUME GuardInv, NEW g \in GuardCalls, StoreDecision(g)
    PROVE  GuardInv'
<1>1. /\ UNCHANGED ledgerVars /\ check' = check /\ matching' = matching
      /\ standing' = standing /\ seen' = seen
      /\ legal_hold_guard_decisions' = legal_hold_guard_decisions \cup {EvidenceOf(g)}
      /\ guard_phase' = [guard_phase EXCEPT ![g] = "idle"]
  BY DEF StoreDecision, history
<1>2. /\ guard_phase[g] \in {"store", "orphan"}
      /\ Watching(g) /\ Answered(g) /\ Shapes /\ EvidenceCited
  BY DEF GuardInv, StoreDecision
<1>3. check[g] \in Checks /\ matching[g] \subseteq Match
  BY <1>2 DEF Watching, Shapes
<1>4. EvidenceOf(g) \in Evidence /\ EvidenceOf(g).check = check[g]
      /\ EvidenceOf(g).matching_holds = matching[g]
  BY <1>3 DEF EvidenceOf, Evidence
<1>5. /\ Decide(g) \in Decision /\ Decide(g).outcome = "Ok"
      /\ Decide(g).allowed <=> matching[g] = {}
      /\ Decide(g).evidence = EvidenceOf(g)
  BY <1>4 DEF Decide, Decision
<1>6. \/ guard_phase[g] = "orphan" /\ decision' = decision
      \/ decision' = [decision EXCEPT ![g] = Decide(g)]
  BY <1>2 DEF StoreDecision
<1>7. Shapes'
  BY <1>1, <1>2, <1>4, <1>5, <1>6 DEF Shapes
<1>8. guard_phase'[g] = "idle"
  BY <1>1, <1>2 DEF Shapes
<1>9. Watching(g)'
  BY <1>8 DEF Watching
<1>10. Answered(g)'
  <2>1. CASE decision' = decision /\ guard_phase[g] = "orphan"
    BY <1>2, <2>1 DEF Answered, Decided
  <2>2. CASE decision' = [decision EXCEPT ![g] = Decide(g)]
    <3>1. decision'[g] = Decide(g)
      BY <1>2, <2>2 DEF Shapes
    <3>2. EvidenceOf(g) \in legal_hold_guard_decisions'
      BY <1>1
    <3>3. Between(g, HoldsOf(matching[g]))
      BY <1>2 DEF Watching
    <3>4. /\ decision'[g].evidence \in legal_hold_guard_decisions'
          /\ decision'[g].evidence.check = check'[g]
          /\ decision'[g].evidence.matching_holds = matching[g]
          /\ decision'[g].allowed <=> matching[g] = {}
      BY <1>1, <1>4, <1>5, <3>1, <3>2
    <3> QED
      BY <1>1, <1>8, <3>3, <3>4 DEF Answered, Between, HoldsOf
  <2> QED
    BY <1>6, <2>1, <2>2
<1>11. EvidenceCited'
  <2>1. ASSUME NEW e \in legal_hold_guard_decisions', NEW m \in e.matching_holds
        PROVE  Cited(e.check, m)'
    <3>1. Cited(e.check, m)
      BY <1>1, <1>2, <1>4, <2>1 DEF Watching, EvidenceCited
    <3> QED
      BY <1>1, <3>1, QuietLedger
  <2> QED
    BY <2>1 DEF EvidenceCited
<1>12. ASSUME NEW q \in GuardCalls \ {g}
       PROVE  Watching(q)' /\ Answered(q)'
  <2>1. guard_phase'[q] = guard_phase[q] /\ decision'[q] = decision[q]
    BY <1>1, <1>2, <1>6 DEF Shapes
  <2> QED
    BY <1>1, <2>1, OthersStay
<1> QED
  BY <1>1, <1>7, <1>9, <1>10, <1>11, <1>12, QuietLedger DEF GuardInv

(***************************************************************************)
(* A statement fails, or the INSERT of a caller that has gone never runs.  *)
(***************************************************************************)
LEMMA FailGuardInv ==
    ASSUME GuardInv, NEW g \in GuardCalls, FailCheck(g) \/ DropInsert(g)
    PROVE  GuardInv'
<1>1. /\ UNCHANGED ledgerVars /\ check' = check /\ matching' = matching
      /\ standing' = standing /\ seen' = seen
      /\ legal_hold_guard_decisions' = legal_hold_guard_decisions
      /\ decision' \in {decision, [decision EXCEPT ![g] = Failure]}
  BY DEF FailCheck, DropInsert, history
<1>2. Watching(g) /\ Answered(g) /\ Shapes
  BY DEF GuardInv
<1>3. \/ guard_phase' = [guard_phase EXCEPT ![g] = "idle"]
      \/ /\ guard_phase[g] = "store"
         /\ guard_phase' = [guard_phase EXCEPT ![g] = "orphan"]
  BY <1>2 DEF FailCheck, DropInsert, Shapes
<1>4. Failure \in Decision /\ Failure.outcome = "PluginFailure"
  BY DEF Failure, Decision
<1>5. Shapes'
  BY <1>1, <1>2, <1>3, <1>4 DEF Shapes
<1>6. guard_phase[g] # "idle"
  BY DEF FailCheck, DropInsert
<1>7. Answered(g)'
  <2>1. ~Decided(g)
    BY <1>2, <1>6 DEF Answered
  <2>2. decision'[g] \in {decision[g], Failure}
    BY <1>1, <1>2 DEF Shapes
  <2>3. ~Decided(g)'
    BY <1>4, <2>1, <2>2 DEF Decided
  <2> QED
    BY <2>3 DEF Answered
<1>8. Watching(g)'
  <2>1. CASE guard_phase'[g] = "idle"
    BY <2>1 DEF Watching
  <2>2. CASE guard_phase'[g] # "idle"
    <3>1. guard_phase[g] = "store" /\ guard_phase'[g] = "orphan"
      BY <1>2, <1>3, <2>2 DEF Shapes
    <3>2. check[g] \in Checks /\ Between(g, HoldsOf(matching[g]))'
      BY <1>1, <1>2, <3>1 DEF Watching, Between, HoldsOf
    <3>3. PICK c : c = check[g]
      OBVIOUS
    <3>4. ASSUME NEW m \in matching'[g]
          PROVE  Cited(check[g], m)'
      <4>1. Cited(c, m)'
        BY <1>1, <1>2, <3>1, <3>3, <3>4, QuietLedger DEF Watching
      <4> QED
        BY <1>1, <3>3, <4>1 DEF Cited
    <3> QED
      BY <1>1, <3>1, <3>2, <3>4 DEF Watching
  <2> QED
    BY <2>1, <2>2
<1>9. ASSUME NEW q \in GuardCalls \ {g}
      PROVE  Watching(q)' /\ Answered(q)'
  <2>1. guard_phase'[q] = guard_phase[q] /\ decision'[q] = decision[q]
    BY <1>1, <1>2, <1>3 DEF Shapes
  <2> QED
    BY <1>1, <2>1, OthersStay
<1> QED
  BY <1>1, <1>5, <1>7, <1>8, <1>9, QuietLedger, EvidenceStays DEF GuardInv

-----------------------------------------------------------------------------
(***************************************************************************)
(* The guard's invariant holds at every step of mutations and evaluations. *)
(***************************************************************************)
THEOREM Invariant == Spec => []GuardInv
<1>1. Init => GuardInv
  BY InitGuardInv
<1>2. GuardInv /\ [Next]_vars => GuardInv'
  <2> SUFFICES ASSUME GuardInv, [Next]_vars
               PROVE  GuardInv'
    OBVIOUS
  <2>1. CASE Mutate
    BY <2>1, MutateGuardInv
  <2>2. ASSUME NEW g \in GuardCalls, NEW c \in Checks, BeginCheck(g, c)
        PROVE  GuardInv'
    BY <2>2, BeginGuardInv
  <2>3. ASSUME NEW g \in GuardCalls, GuardStep(g)
        PROVE  GuardInv'
    BY <2>3, EvaluateGuardInv, StoreGuardInv, FailGuardInv DEF GuardStep
  <2>4. CASE UNCHANGED vars
    <3>1. /\ UNCHANGED ledgerVars
          /\ guard_phase' = guard_phase /\ check' = check /\ matching' = matching
          /\ decision' = decision /\ standing' = standing /\ seen' = seen
          /\ legal_hold_guard_decisions' = legal_hold_guard_decisions
      BY <2>4 DEF vars, guardVars, history
    <3>2. \A g \in GuardCalls : Watching(g)' /\ Answered(g)'
      BY <3>1, OthersStay
    <3>3. Shapes'
      BY <3>1 DEF GuardInv, Shapes
    <3> QED
      BY <3>1, <3>2, <3>3, QuietLedger, EvidenceStays DEF GuardInv
  <2> QED
    BY <2>1, <2>2, <2>3, <2>4 DEF Next
<1> QED
  BY <1>1, <1>2, PTL DEF Spec

(***************************************************************************)
(* Evidence, matches and decisions keep their types, and a failure never   *)
(* allows.                                                                 *)
(***************************************************************************)
THEOREM TypeCorrect == Spec => []GuardTypeOK
<1>1. GuardInv => GuardTypeOK
  <2> SUFFICES ASSUME GuardInv PROVE GuardTypeOK
    OBVIOUS
  <2>1. Ledger!TypeOK
    BY LedgerTypesAgree DEF GuardInv
  <2>2. ASSUME NEW d \in Decision
        PROVE  d.allowed \in BOOLEAN /\ (d.outcome = "PluginFailure" => ~d.allowed)
    BY DEF Decision
  <2>3. \A e \in legal_hold_guard_decisions :
          e.check \in Checks /\ e.matching_holds \subseteq Match
    BY DEF GuardInv, Shapes, Evidence
  <2> QED
    BY <2>1, <2>2, <2>3 DEF GuardInv, Shapes, GuardTypeOK
<1> QED
  BY <1>1, Invariant, PTL

(***************************************************************************)
(* A hold in force during a whole evaluation is never missed.              *)
(***************************************************************************)
THEOREM StandingBlocks == Spec => []StandingHoldBlocks
<1>1. GuardInv => StandingHoldBlocks
  BY DEF GuardInv, Answered, StandingHoldBlocks, Between, HoldsOf
<1> QED
  BY <1>1, Invariant, PTL

(***************************************************************************)
(* A denial names only holds that did protect the subject during the call. *)
(***************************************************************************)
THEOREM DenialCaused == Spec => []DenialHasACause
<1>1. GuardInv => DenialHasACause
  BY DEF GuardInv, Answered, DenialHasACause, Between, HoldsOf
<1> QED
  BY <1>1, Invariant, PTL

(***************************************************************************)
(* A decision a caller holds has its evidence stored.                      *)
(***************************************************************************)
THEOREM EvidenceFirst == Spec => []EvidenceBeforeAnswer
<1>1. GuardInv => EvidenceBeforeAnswer
  BY DEF GuardInv, Answered, EvidenceBeforeAnswer
<1> QED
  BY <1>1, Invariant, PTL

(***************************************************************************)
(* Every stored citation is the response of a receipt, for ever.           *)
(***************************************************************************)
THEOREM EvidenceDerived == Spec => []EvidenceRederivable
<1>1. GuardInv => EvidenceRederivable
  BY DEF GuardInv, EvidenceCited, EvidenceRederivable, Cited
<1> QED
  BY <1>1, Invariant, PTL

-----------------------------------------------------------------------------
(***************************************************************************)
(* Guarding retention leaves the ledger the ledger: an evaluation changes  *)
(* nothing of the holds, whatever it does meanwhile (storage.rs:445-517).  *)
(***************************************************************************)
THEOREM GuardKeepsLedger == Spec => Ledger!Spec
<1>1. Init => Ledger!Init
  BY DEF Init
<1>2. [Next]_vars => [Ledger!Next]_(Ledger!vars)
  <2> SUFFICES ASSUME [Next]_vars
               PROVE  Ledger!Next \/ UNCHANGED ledgerVars
    BY LedgerStutters
  <2>1. CASE Mutate
    BY <2>1 DEF Mutate
  <2>2. ASSUME NEW g \in GuardCalls, NEW c \in Checks, BeginCheck(g, c)
        PROVE  UNCHANGED ledgerVars
    BY <2>2 DEF BeginCheck
  <2>3. ASSUME NEW g \in GuardCalls, GuardStep(g)
        PROVE  UNCHANGED ledgerVars
    BY <2>3 DEF GuardStep, Evaluate, StoreDecision, FailCheck, DropInsert
  <2>4. CASE UNCHANGED vars
    BY <2>4 DEF vars
  <2> QED
    BY <2>1, <2>2, <2>3, <2>4 DEF Next
<1> QED
  BY <1>1, <1>2, PTL DEF Spec, Ledger!Spec

(***************************************************************************)
(* So all that the ledger promises of its tables and of its answers is so  *)
(* beside any number of evaluations.                                       *)
(***************************************************************************)
THEOREM TablesKept ==
    Spec => /\ []HistoryInv /\ []SuccessesReceipted
            /\ ReceiptsPermanent /\ ReleasedHoldsImmutable
            /\ ActivityAppearsInOrder
<1>1. LedgerTypes /\ HistoryInv => HistoryInv
  OBVIOUS
<1> QED
  BY <1>1, GuardKeepsLedger, LedgerHistory, LedgerIsDurable, LedgerKeepsTables, PTL
=============================================================================
