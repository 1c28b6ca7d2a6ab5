------------------------- MODULE HoldStorageProofs -------------------------
(***************************************************************************)
(* Proofs about HoldStorage: its inductive invariant, that it implements   *)
(* the ledger, and the safety properties that follow, for every set of     *)
(* holds, requests and concurrent calls.                                   *)
(***************************************************************************)
EXTENDS HoldStorage, HoldTablesProofs

-----------------------------------------------------------------------------
(***************************************************************************)
(* A call that is not idle serves a request.                               *)
(***************************************************************************)
LEMMA Serving ==
    ASSUME TypeOK, NEW p \in Calls, phase[p] # "idle"
    PROVE  /\ request[p] \in Requests
           /\ request[p] \in Request
           /\ HoldOf(p) \in Holds
           /\ KeyOf(p) \in CommandKey
  BY RequestTypes DEF TypeOK, HoldOf, KeyOf

(***************************************************************************)
(* A call that takes no step keeps its work current while the tables stand *)
(* still.                                                                  *)
(***************************************************************************)
LEMMA QuietWork ==
    ASSUME WorkIsCurrent, NEW q \in Calls, UNCHANGED tables,
           phase'[q] = phase[q], request'[q] = request[q],
           pending'[q] = pending[q]
    PROVE  WorkOf(q)'
  BY DEF WorkIsCurrent, WorkOf, tables, KeyOf, Current, Applicable, RowAfter,
     ScopeSetAfter, Visible

(***************************************************************************)
(* The initial state.                                                      *)
(***************************************************************************)
LEMMA InitIInv ==
    ASSUME Init
    PROVE  IInv
<1>1. TypeOK
  BY DEF Init, TypeOK, TablesEmpty, TablesTypeOK, Phases
<1> QED
  BY <1>1, StorageAssumption DEF Init, TablesEmpty, IInv, LocksAreHeld, LocksOf,
     AnswersWait, WorkIsCurrent, WorkOf, IdsAreFresh, ScopesHaveAHold, Owning,
     Written, Numbered, Stored, InTransaction

(***************************************************************************)
(* A new call has done nothing yet.                                        *)
(***************************************************************************)
LEMMA BeginIInv ==
    ASSUME IInv, NEW p \in Calls, NEW r \in Requests, Begin(p, r)
    PROVE  IInv'
<1> USE DEF Begin, IInv
<1>1. TypeOK'
  BY RequestTypes DEF TypeOK, TablesTypeOK, tables, locks, Phases
<1>2. LocksAreHeld'
  BY DEF LocksAreHeld, LocksOf, TypeOK, HoldOf, KeyOf, Owning, Stored, locks
<1>3. AnswersWait'
  BY DEF AnswersWait, TypeOK, InTransaction
<1>4. WorkIsCurrent'
  BY DEF WorkIsCurrent, WorkOf, TypeOK, Written, Stored, Owning, tables, KeyOf,
     Current, Applicable, RowAfter, ScopeSetAfter, Visible
<1>5. IdsAreFresh'
  BY DEF IdsAreFresh, TypeOK, Numbered, Written, Owning, tables, HoldOf
<1>6. ScopesHaveAHold'
  BY DEF ScopesHaveAHold, tables
<1> QED
  BY <1>1, <1>2, <1>3, <1>4, <1>5, <1>6

(***************************************************************************)
(* The unlocked read of the receipt.                                       *)
(***************************************************************************)
LEMMA ReplayIInv ==
    ASSUME IInv, NEW p \in Calls, Replay(p)
    PROVE  IInv'
<1> USE DEF Replay, AnswerFromReceipt, GiveUp, IInv
<1>1. TypeOK'
  <2>1. KeyOf(p) \in CommandKey
    BY Serving
  <2>2. legal_hold_commands[KeyOf(p)] # None =>
          legal_hold_commands[KeyOf(p)].response \in HoldView
    BY <2>1 DEF TypeOK, TablesTypeOK, Receipt
  <2>3. answer' \in [Calls -> Answer \cup {None}]
    BY <2>2, AnswerTypes DEF TypeOK, Failures, DomainFailures
  <2>4. phase' \in [Calls -> Phases]
    BY DEF TypeOK, Phases
  <2> QED
    BY <2>3, <2>4 DEF TypeOK, TablesTypeOK, tables, locks
<1>2. LocksAreHeld'
  BY DEF LocksAreHeld, LocksOf, TypeOK, HoldOf, KeyOf, Owning, Stored, locks
<1>3. AnswersWait'
  BY DEF AnswersWait, TypeOK, InTransaction, Phases
<1>4. WorkIsCurrent'
  BY DEF WorkIsCurrent, WorkOf, TypeOK, Written, Stored, Owning, tables, KeyOf,
     Current, Applicable, RowAfter, ScopeSetAfter, Visible
<1>5. IdsAreFresh'
  BY DEF IdsAreFresh, TypeOK, Numbered, Written, Owning, tables, HoldOf
<1>6. ScopesHaveAHold'
  BY DEF ScopesHaveAHold, tables
<1> QED
  BY <1>1, <1>2, <1>3, <1>4, <1>5, <1>6

(***************************************************************************)
(* The insert of a new row takes its lock, which nobody else holds.        *)
(***************************************************************************)
LEMMA InsertHoldIInv ==
    ASSUME IInv, NEW p \in Calls, InsertHold(p)
    PROVE  IInv'
<1> USE DEF InsertHold, GiveUp, RowFree, IInv
<1>0. /\ request[p] \in Requests /\ HoldOf(p) \in Holds
      /\ NewRow(request[p]) \in HoldRow
  BY Serving, RequestTypes
<1>1. TypeOK'
  <2>1. pending' \in [Calls -> Pending \cup {None}]
    BY <1>0 DEF TypeOK, Pending
  <2>2. answer' \in [Calls -> Answer \cup {None}]
    BY AnswerTypes DEF TypeOK, Failures, DomainFailures
  <2>3. row_lock' \in [Holds -> Calls \cup {None}]
    BY <1>0 DEF TypeOK
  <2>4. phase' \in [Calls -> Phases]
    BY DEF TypeOK, Phases
  <2> QED
    BY <2>1, <2>2, <2>3, <2>4, <1>0 DEF TypeOK, TablesTypeOK, tables
<1>2. LocksAreHeld'
  <2> SUFFICES ASSUME NEW q \in Calls PROVE LocksOf(q)'
    BY DEF LocksAreHeld
  <2>1. LocksOf(q) /\ q # None
    BY StorageAssumption DEF LocksAreHeld
  <2>2. CASE q # p
    <3>1. /\ phase'[q] = phase[q] /\ request'[q] = request[q]
          /\ \/ row_lock' = row_lock
             \/ /\ row_lock[HoldOf(p)] = None
                /\ row_lock' = [row_lock EXCEPT ![HoldOf(p)] = p]
          /\ key_lock' = key_lock
      BY <2>2 DEF TypeOK
    <3>2. phase[q] \in Owning => HoldOf(q) \in Holds
      BY Serving DEF Owning
    <3> QED
      BY <3>1, <3>2, <2>1, <1>0 DEF LocksOf, HoldOf, KeyOf, TypeOK
  <2>3. CASE q = p
    BY <2>3, <1>0 DEF LocksOf, HoldOf, KeyOf, TypeOK, Owning, Stored
  <2> QED
    BY <2>2, <2>3
<1>3. AnswersWait'
  BY DEF AnswersWait, TypeOK, InTransaction, Phases
<1>4. WorkIsCurrent'
  <2> SUFFICES ASSUME NEW q \in Calls PROVE WorkOf(q)'
    BY DEF WorkIsCurrent
  <2>1. CASE q # p
    BY <2>1, QuietWork DEF TypeOK
  <2>2. CASE q = p
    <3>1. CASE phase'[p] = "rollback"
      BY <3>1, <2>2 DEF WorkOf, Written, Stored, Owning
    <3>2. CASE phase'[p] = "append"
      <4>0. /\ legal_holds[HoldOf(p)] = None
            /\ pending'[p] = [row |-> NewRow(request[p]), scopes |-> {},
                              activity_id |-> 0]
        BY <3>2 DEF TypeOK
      <4>1. legal_hold_scopes[HoldOf(p)] = {}
        BY <1>0, <4>0 DEF ScopesHaveAHold
      <4>2. pending'[p] # None
        BY <4>0, <1>0, StorageAssumption DEF Pending
      <4>3. request[p].op = "create_hold" /\ request[p].op \notin ScopeOperations
        BY DEF ScopeOperations
      <4>4. /\ legal_holds' = legal_holds
            /\ legal_hold_scopes' = legal_hold_scopes
            /\ request' = request
        BY DEF tables
      <4>5. Applicable(request[p])'
        BY <4>0, <4>3, <4>4 DEF Applicable, HoldOf
      <4>6. RowAfter(request[p])' = NewRow(request[p])
        BY <4>3, <4>4 DEF RowAfter
      <4>7. ScopeSetAfter(request[p])' = {}
        BY <4>1, <4>3, <4>4 DEF ScopeSetAfter, HoldOf
      <4> QED
        BY <4>0, <4>2, <4>5, <4>6, <4>7, <3>2, <2>2
        DEF WorkOf, Written, Stored, Owning
    <3> QED
      BY <3>1, <3>2 DEF TypeOK
  <2> QED
    BY <2>1, <2>2
<1>5. IdsAreFresh'
  BY DEF IdsAreFresh, TypeOK, Numbered, Written, Owning, tables, HoldOf
<1>6. ScopesHaveAHold'
  BY DEF ScopesHaveAHold, tables
<1> QED
  BY <1>1, <1>2, <1>3, <1>4, <1>5, <1>6

(***************************************************************************)
(* The lock of a row: what the checks behind it found stays true.          *)
(***************************************************************************)
LEMMA LockHoldIInv ==
    ASSUME IInv, NEW p \in Calls, LockHold(p)
    PROVE  IInv'
<1> USE DEF LockHold, GiveUp, RowFree, IInv
<1>0. request[p] \in Requests /\ HoldOf(p) \in Holds
  BY Serving
<1>1. TypeOK'
  <2>1. answer' \in [Calls -> Answer \cup {None}]
    BY AnswerTypes DEF TypeOK, Failures, DomainFailures
  <2>2. row_lock' \in [Holds -> Calls \cup {None}]
    BY <1>0 DEF TypeOK
  <2>3. phase' \in [Calls -> Phases]
    BY DEF TypeOK, Phases
  <2> QED
    BY <2>1, <2>2, <2>3, <1>0 DEF TypeOK, TablesTypeOK, tables
<1>2. LocksAreHeld'
  <2> SUFFICES ASSUME NEW q \in Calls PROVE LocksOf(q)'
    BY DEF LocksAreHeld
  <2>1. LocksOf(q) /\ q # None
    BY StorageAssumption DEF LocksAreHeld
  <2>2. CASE q # p
    <3>1. /\ phase'[q] = phase[q] /\ request'[q] = request[q]
          /\ \/ row_lock' = row_lock
             \/ /\ row_lock[HoldOf(p)] = None
                /\ row_lock' = [row_lock EXCEPT ![HoldOf(p)] = p]
          /\ key_lock' = key_lock
      BY <2>2 DEF TypeOK
    <3>2. phase[q] \in Owning => HoldOf(q) \in Holds
      BY Serving DEF Owning
    <3> QED
      BY <3>1, <3>2, <2>1, <1>0 DEF LocksOf, HoldOf, KeyOf, TypeOK
  <2>3. CASE q = p
    BY <2>3, <1>0 DEF LocksOf, HoldOf, KeyOf, TypeOK, Owning, Stored
  <2> QED
    BY <2>2, <2>3
<1>3. AnswersWait'
  BY DEF AnswersWait, TypeOK, InTransaction, Phases
<1>4. WorkIsCurrent'
  <2> SUFFICES ASSUME NEW q \in Calls PROVE WorkOf(q)'
    BY DEF WorkIsCurrent
  <2>1. CASE q # p
    BY <2>1, QuietWork DEF TypeOK
  <2>2. CASE q = p
    BY <2>2 DEF WorkOf, TypeOK, Written, Stored, Owning, tables, HoldOf,
       VisibleTo, StatusActive, AtExpectedRevision, Current,
       Visible
  <2> QED
    BY <2>1, <2>2
<1>5. IdsAreFresh'
  BY DEF IdsAreFresh, TypeOK, Numbered, Written, Owning, tables, HoldOf
<1>6. ScopesHaveAHold'
  BY DEF ScopesHaveAHold, tables
<1> QED
  BY <1>1, <1>2, <1>3, <1>4, <1>5, <1>6

(***************************************************************************)
(* The change of a scope, of a row that is locked and checked.             *)
(***************************************************************************)
LEMMA ChangeScopeIInv ==
    ASSUME IInv, NEW p \in Calls, ChangeScope(p)
    PROVE  IInv'
<1> USE DEF ChangeScope, GiveUp, OneRowChanged, IInv
<1>0. /\ request[p] \in Requests /\ HoldOf(p) \in Holds
      /\ request[p].scope \in Scope
  BY Serving, RequestsAssumption
<1>a. /\ Current(request[p])
      /\ legal_holds[HoldOf(p)] \in HoldRow
      /\ legal_hold_scopes[HoldOf(p)] \subseteq Scope
  BY <1>0 DEF WorkIsCurrent, WorkOf, TypeOK, TablesTypeOK, Current, Visible,
     HoldOf
<1>b. ScopesAfter(request[p].op, request[p].scope, legal_hold_scopes[HoldOf(p)])
        \in SUBSET Scope
  BY <1>0, <1>a DEF ScopesAfter, ScopeOperations
<1>c. AdvanceRow(legal_holds[HoldOf(p)]) \in HoldRow
  BY <1>0, <1>a, RowTypes, RequestTypes
<1>1. TypeOK'
  <2>1. pending' \in [Calls -> Pending \cup {None}]
    BY <1>b, <1>c DEF TypeOK, Pending, HoldOf
  <2>2. answer' \in [Calls -> Answer \cup {None}]
    BY AnswerTypes DEF TypeOK, Failures, DomainFailures
  <2>3. phase' \in [Calls -> Phases]
    BY DEF TypeOK, Phases
  <2> QED
    BY <2>1, <2>2, <2>3, <1>0 DEF TypeOK, TablesTypeOK, tables, locks
<1>2. LocksAreHeld'
  BY DEF LocksAreHeld, LocksOf, TypeOK, HoldOf, KeyOf, Owning, Stored, locks
<1>3. AnswersWait'
  BY DEF AnswersWait, TypeOK, InTransaction, Phases
<1>4. WorkIsCurrent'
  <2> SUFFICES ASSUME NEW q \in Calls PROVE WorkOf(q)'
    BY DEF WorkIsCurrent
  <2>1. CASE q # p
    BY <2>1, QuietWork DEF TypeOK
  <2>2. CASE q = p
    <3>1. CASE phase'[p] = "rollback"
      BY <3>1, <2>2 DEF WorkOf, Written, Stored, Owning
    <3>2. CASE phase'[p] = "append"
      <4>1. /\ ScopeChanges(request[p].op, request[p].scope,
                            legal_hold_scopes[HoldOf(p)])
            /\ pending'[p] = [row |-> AdvanceRow(legal_holds[HoldOf(p)]),
                              scopes |-> ScopesAfter(request[p].op,
                                           request[p].scope,
                                           legal_hold_scopes[HoldOf(p)]),
                              activity_id |-> 0]
        BY <3>2 DEF TypeOK, HoldOf
      <4>2. pending'[p] # None
        BY <4>1, <1>b, <1>c, StorageAssumption DEF Pending
      <4>3. /\ request[p].op # "create_hold" /\ request[p].op # "release_hold"
            /\ request[p].op \in ScopeOperations
        BY DEF ScopeOperations
      <4>4. /\ legal_holds' = legal_holds
            /\ legal_hold_scopes' = legal_hold_scopes
            /\ request' = request
        BY DEF tables
      <4>5. Applicable(request[p])'
        BY <4>1, <4>3, <4>4, <1>a DEF Applicable, HoldOf, Current, Visible
      <4>6. RowAfter(request[p])' = AdvanceRow(legal_holds[HoldOf(p)])
        BY <4>3, <4>4 DEF RowAfter, HoldOf
      <4>7. ScopeSetAfter(request[p])' = pending'[p].scopes
        BY <4>1, <4>3, <4>4 DEF ScopeSetAfter, HoldOf
      <4> QED
        BY <4>1, <4>2, <4>5, <4>6, <4>7, <3>2, <2>2
        DEF WorkOf, Written, Stored, Owning
    <3> QED
      BY <3>1, <3>2 DEF TypeOK
  <2> QED
    BY <2>1, <2>2
<1>5. IdsAreFresh'
  BY DEF IdsAreFresh, TypeOK, Numbered, Written, Owning, tables, HoldOf
<1>6. ScopesHaveAHold'
  BY DEF ScopesHaveAHold, tables
<1> QED
  BY <1>1, <1>2, <1>3, <1>4, <1>5, <1>6

(***************************************************************************)
(* The release of a row that is locked and checked.                        *)
(***************************************************************************)
LEMMA ReleaseIInv ==
    ASSUME IInv, NEW p \in Calls, Release(p)
    PROVE  IInv'
<1> USE DEF Release, IInv
<1>0. request[p] \in Requests /\ HoldOf(p) \in Holds
  BY Serving
<1>a. /\ Current(request[p])
      /\ legal_holds[HoldOf(p)] \in HoldRow
      /\ legal_hold_scopes[HoldOf(p)] \subseteq Scope
  BY <1>0 DEF WorkIsCurrent, WorkOf, TypeOK, TablesTypeOK, Current, Visible,
     HoldOf
<1>b. ReleaseRow(request[p], legal_holds[HoldOf(p)]) \in HoldRow
  BY <1>0, <1>a, RowTypes, RequestTypes
<1>c. pending'[p] = [row |-> ReleaseRow(request[p], legal_holds[HoldOf(p)]),
                     scopes |-> legal_hold_scopes[HoldOf(p)], activity_id |-> 0]
  BY DEF TypeOK, HoldOf
<1>1. TypeOK'
  <2>1. pending' \in [Calls -> Pending \cup {None}]
    BY <1>a, <1>b DEF TypeOK, Pending, HoldOf
  <2>2. phase' \in [Calls -> Phases]
    BY DEF TypeOK, Phases
  <2> QED
    BY <2>1, <2>2, <1>0 DEF TypeOK, TablesTypeOK, tables, locks
<1>2. LocksAreHeld'
  BY DEF LocksAreHeld, LocksOf, TypeOK, HoldOf, KeyOf, Owning, Stored, locks
<1>3. AnswersWait'
  BY DEF AnswersWait, TypeOK, InTransaction, Phases
<1>4. WorkIsCurrent'
  <2> SUFFICES ASSUME NEW q \in Calls PROVE WorkOf(q)'
    BY DEF WorkIsCurrent
  <2>1. CASE q # p
    BY <2>1, QuietWork DEF TypeOK
  <2>2. CASE q = p
    <3>1. phase'[p] = "append"
      BY DEF TypeOK
    <3>2. pending'[p] # None
      BY <1>a, <1>b, <1>c, StorageAssumption DEF Pending
    <3>3. /\ request[p].op # "create_hold"
          /\ request[p].op \notin ScopeOperations
      BY DEF ScopeOperations
    <3>4. /\ legal_holds' = legal_holds
          /\ legal_hold_scopes' = legal_hold_scopes
          /\ request' = request
      BY DEF tables
    <3>5. Applicable(request[p])'
      BY <3>4, <1>a DEF Applicable, Current, Visible
    <3>6. RowAfter(request[p])' = ReleaseRow(request[p], legal_holds[HoldOf(p)])
      BY <3>3, <3>4 DEF RowAfter, HoldOf
    <3>7. ScopeSetAfter(request[p])' = legal_hold_scopes[HoldOf(p)]
      BY <3>3, <3>4 DEF ScopeSetAfter, HoldOf
    <3> QED
      BY <1>c, <3>1, <3>2, <3>5, <3>6, <3>7, <2>2
      DEF WorkOf, Written, Stored, Owning
  <2> QED
    BY <2>1, <2>2
<1>5. IdsAreFresh'
  BY DEF IdsAreFresh, TypeOK, Numbered, Written, Owning, tables, HoldOf
<1>6. ScopesHaveAHold'
  BY DEF ScopesHaveAHold, tables
<1> QED
  BY <1>1, <1>2, <1>3, <1>4, <1>5, <1>6

(***************************************************************************)
(* The next activity id is larger than every id drawn before.              *)
(***************************************************************************)
LEMMA AppendActivityIInv ==
    ASSUME IInv, NEW p \in Calls, AppendActivity(p)
    PROVE  IInv'
<1> USE DEF AppendActivity, GiveUp, IInv
<1>0. request[p] \in Requests /\ HoldOf(p) \in Holds
  BY Serving
<1>a. pending[p] \in Pending
  BY DEF WorkIsCurrent, WorkOf, TypeOK, Written, Owning
<1>b. CASE phase'[p] = "rollback"
  <2>1. UNCHANGED <<tables, locks, request, pending, activity_id_seq,
                    receipt_at_begin>>
    BY <1>b DEF TypeOK
  <2>2. answer' \in [Calls -> Answer \cup {None}] /\ phase' \in [Calls -> Phases]
    BY <1>b, AnswerTypes DEF TypeOK, Failures, DomainFailures, Phases
  <2>3. TypeOK'
    BY <2>1, <2>2, <1>0 DEF TypeOK, TablesTypeOK, tables, locks
  <2>4. LocksAreHeld' /\ AnswersWait'
    BY <1>b, <2>1, AnswerTypes DEF LocksAreHeld, LocksOf, AnswersWait, TypeOK,
       HoldOf, KeyOf, Owning, Stored, locks, InTransaction, Failures
  <2>5. WorkIsCurrent'
    <3> SUFFICES ASSUME NEW q \in Calls PROVE WorkOf(q)'
      BY DEF WorkIsCurrent
    <3>1. CASE q # p
      BY <3>1, <2>1, QuietWork DEF TypeOK
    <3>2. CASE q = p
      BY <1>b, <3>2 DEF WorkOf, Written, Stored, Owning
    <3> QED
      BY <3>1, <3>2
  <2>6. IdsAreFresh' /\ ScopesHaveAHold'
    BY <1>b, <2>1 DEF IdsAreFresh, ScopesHaveAHold, TypeOK, Numbered, Written,
       Owning, tables, HoldOf
  <2> QED
    BY <2>3, <2>4, <2>5, <2>6
<1>c. CASE phase'[p] = "store"
  <2>1. /\ activity_id_seq < MaxActivityId
        /\ activity_id_seq' = activity_id_seq + 1
        /\ pending' = [pending EXCEPT ![p].activity_id = activity_id_seq + 1]
        /\ phase' = [phase EXCEPT ![p] = "store"]
        /\ UNCHANGED <<tables, locks, request, answer, receipt_at_begin>>
    BY <1>c DEF TypeOK
  <2>2. /\ pending'[p] = [pending[p] EXCEPT !.activity_id = activity_id_seq + 1]
        /\ \A q \in Calls \ {p} : pending'[q] = pending[q] /\ phase'[q] = phase[q]
    BY <2>1 DEF TypeOK
  <2>3. /\ pending'[p] \in Pending
        /\ pending'[p].row = pending[p].row
        /\ pending'[p].scopes = pending[p].scopes
        /\ pending'[p].activity_id = activity_id_seq + 1
    BY <2>2, <1>a DEF Pending, TypeOK
  <2>4. TypeOK'
    BY <2>1, <2>2, <2>3, <1>0 DEF TypeOK, TablesTypeOK, tables, locks, Phases
  <2>5. LocksAreHeld' /\ AnswersWait'
    BY <1>c, <2>1 DEF LocksAreHeld, LocksOf, AnswersWait, TypeOK, HoldOf, KeyOf,
       Owning, Stored, locks, InTransaction, Phases
  <2>6. WorkIsCurrent'
    <3> SUFFICES ASSUME NEW q \in Calls PROVE WorkOf(q)'
      BY DEF WorkIsCurrent
    <3>1. CASE q # p
      BY <3>1, <2>1, <2>2, QuietWork
    <3>2. CASE q = p
      <4>1. /\ Applicable(request[p])
            /\ pending[p].row = RowAfter(request[p])
            /\ pending[p].scopes = ScopeSetAfter(request[p])
        BY DEF WorkIsCurrent, WorkOf, Written, Owning
      <4>2. /\ Applicable(request[p])'
            /\ RowAfter(request[p])' = RowAfter(request[p])
            /\ ScopeSetAfter(request[p])' = ScopeSetAfter(request[p])
        BY <4>1, <2>1 DEF tables, Applicable, Current, Visible, RowAfter,
           ScopeSetAfter
      <4> QED
        BY <4>1, <4>2, <3>2, <2>3, <1>c, StorageAssumption
        DEF WorkOf, Stored
    <3> QED
      BY <3>1, <3>2
  <2>7. IdsAreFresh'
    <3>1. activity_id_seq' <= MaxActivityId /\ activity_id_seq' \in Nat
      BY <2>1, StorageAssumption DEF TypeOK
    <3>2. \A e \in legal_hold_activity : e.id \in Nat /\ e.id <= activity_id_seq
      BY DEF IdsAreFresh, TypeOK, TablesTypeOK, ActivityRow
    <3>3. \A q \in Calls \ {p} : phase[q] \in Numbered =>
            pending[q].activity_id \in 1..activity_id_seq
      BY DEF IdsAreFresh
    <3>4. phase[p] \notin Numbered
      BY DEF Numbered, Written, Owning
    <3>5. legal_hold_activity' = legal_hold_activity /\ request' = request
      BY <2>1 DEF tables
    <3> SUFFICES ASSUME NEW q \in Calls, phase'[q] \in Numbered
                 PROVE  /\ pending'[q].activity_id \in 1..activity_id_seq'
                        /\ \A e \in legal_hold_activity :
                             /\ e.id # pending'[q].activity_id
                             /\ e.hold = HoldOf(q) =>
                                  e.id < pending'[q].activity_id
                        /\ \A w \in Calls \ {q} : phase'[w] \in Numbered =>
                             pending'[w].activity_id # pending'[q].activity_id
      BY <3>1, <3>2, <3>5, <2>1 DEF IdsAreFresh, HoldOf, TypeOK
    <3>6. CASE q = p
      BY <3>6, <3>2, <3>3, <2>1, <2>2, <2>3 DEF TypeOK
    <3>7. CASE q # p
      BY <3>7, <3>2, <3>3, <2>1, <2>2, <2>3 DEF TypeOK, IdsAreFresh
    <3> QED
      BY <3>6, <3>7
  <2>8. ScopesHaveAHold'
    BY <2>1 DEF ScopesHaveAHold, tables
  <2> QED
    BY <2>4, <2>5, <2>6, <2>7, <2>8
<1> QED
  BY <1>b, <1>c DEF TypeOK

(***************************************************************************)
(* The insert of the receipt takes the lock of its key.                    *)
(***************************************************************************)
LEMMA StoreCommandIInv ==
    ASSUME IInv, NEW p \in Calls, StoreCommand(p)
    PROVE  IInv'
<1> USE DEF StoreCommand, GiveUp, KeyUnused, IInv
<1>0. request[p] \in Requests /\ KeyOf(p) \in CommandKey
  BY Serving
<1>1. TypeOK'
  <2>1. answer' \in [Calls -> Answer \cup {None}]
    BY AnswerTypes DEF TypeOK, Failures, DomainFailures
  <2>2. key_lock' \in [CommandKey -> Calls \cup {None}]
    BY <1>0 DEF TypeOK
  <2>3. phase' \in [Calls -> Phases]
    BY DEF TypeOK, Phases
  <2> QED
    BY <2>1, <2>2, <2>3, <1>0 DEF TypeOK, TablesTypeOK, tables
<1>2. LocksAreHeld'
  <2> SUFFICES ASSUME NEW q \in Calls PROVE LocksOf(q)'
    BY DEF LocksAreHeld
  <2>1. LocksOf(q) /\ q # None
    BY StorageAssumption DEF LocksAreHeld
  <2>2. CASE q # p
    <3>1. phase'[q] = phase[q] /\ request'[q] = request[q] /\ row_lock' = row_lock
      BY <2>2 DEF TypeOK
    <3>2. \/ key_lock' = key_lock
          \/ /\ key_lock[KeyOf(p)] = None
             /\ key_lock' = [key_lock EXCEPT ![KeyOf(p)] = p]
      OBVIOUS
    <3>3. phase[q] \in Stored => KeyOf(q) \in CommandKey
      BY Serving DEF Stored
    <3> QED
      BY <3>1, <3>2, <3>3, <2>1, <1>0 DEF LocksOf, HoldOf, KeyOf, TypeOK
  <2>3. CASE q = p
    BY <2>1, <2>3, <1>0 DEF LocksOf, HoldOf, KeyOf, TypeOK, Owning, Stored
  <2> QED
    BY <2>2, <2>3
<1>3. AnswersWait'
  BY DEF AnswersWait, TypeOK, InTransaction, Phases
<1>4. WorkIsCurrent'
  <2> SUFFICES ASSUME NEW q \in Calls PROVE WorkOf(q)'
    BY DEF WorkIsCurrent
  <2>1. CASE q # p
    BY <2>1, QuietWork DEF TypeOK
  <2>2. CASE q = p
    <3>1. CASE phase'[p] = "rollback"
      BY <3>1, <2>2 DEF WorkOf, Written, Stored, Owning
    <3>2. CASE phase'[p] = "commit"
      <4>1. /\ legal_hold_commands[KeyOf(p)] = None
            /\ pending' = pending
        BY <3>2 DEF TypeOK
      <4>2. /\ pending[p] # None
            /\ Applicable(request[p])
            /\ pending[p].row = RowAfter(request[p])
            /\ pending[p].scopes = ScopeSetAfter(request[p])
        BY DEF WorkIsCurrent, WorkOf, Written, Owning
      <4>3. UNCHANGED <<tables, request>>
        OBVIOUS
      <4>4. /\ Applicable(request[p])'
            /\ RowAfter(request[p])' = RowAfter(request[p])
            /\ ScopeSetAfter(request[p])' = ScopeSetAfter(request[p])
        BY <4>2, <4>3 DEF tables, Applicable, Current, Visible, RowAfter,
           ScopeSetAfter
      <4> QED
        BY <4>1, <4>2, <4>3, <4>4, <3>2, <2>2 DEF WorkOf, tables, KeyOf
    <3> QED
      BY <3>1, <3>2 DEF TypeOK
  <2> QED
    BY <2>1, <2>2
<1>5. IdsAreFresh'
  BY DEF IdsAreFresh, TypeOK, Numbered, Written, Owning, tables, HoldOf
<1>6. ScopesHaveAHold'
  BY DEF ScopesHaveAHold, tables
<1> QED
  BY <1>1, <1>2, <1>3, <1>4, <1>5, <1>6

(***************************************************************************)
(* A failure keeps the locks, and an orphan keeps its work.                *)
(***************************************************************************)
LEMMA FailIInv ==
    ASSUME IInv, NEW p \in Calls, Fail(p)
    PROVE  IInv'
<1> USE DEF Fail, GiveUp, IInv
<1>0. request[p] \in Requests
  BY Serving DEF InTransaction
<1>1. TypeOK'
  <2>1. answer' \in [Calls -> Answer \cup {None}]
    BY AnswerTypes DEF TypeOK, Failures
  <2>2. phase' \in [Calls -> Phases]
    BY DEF TypeOK, Phases
  <2> QED
    BY <2>1, <2>2, <1>0 DEF TypeOK, TablesTypeOK, tables, locks
<1>2. LocksAreHeld'
  BY DEF LocksAreHeld, LocksOf, TypeOK, HoldOf, KeyOf, Owning, Stored, locks
<1>3. AnswersWait'
  BY AnswerTypes DEF AnswersWait, TypeOK, InTransaction, Phases, Failures
<1>4. WorkIsCurrent'
  BY DEF WorkIsCurrent, WorkOf, TypeOK, Written, Stored, Owning, tables, KeyOf,
     Current, Applicable, RowAfter, ScopeSetAfter, Visible
<1>5. IdsAreFresh'
  BY DEF IdsAreFresh, TypeOK, Numbered, Written, Owning, tables, HoldOf
<1>6. ScopesHaveAHold'
  BY DEF ScopesHaveAHold, tables
<1> QED
  BY <1>1, <1>2, <1>3, <1>4, <1>5, <1>6

(***************************************************************************)
(* The locks of a transaction that ends are free, all others stay.         *)
(***************************************************************************)
LEMMA EndLocks ==
    ASSUME TypeOK, LocksAreHeld, NEW p \in Calls, EndTransaction(p),
           request' = request
    PROVE  /\ row_lock' \in [Holds -> Calls \cup {None}]
           /\ key_lock' \in [CommandKey -> Calls \cup {None}]
           /\ pending' \in [Calls -> Pending \cup {None}]
           /\ phase' \in [Calls -> Phases]
           /\ phase'[p] = "idle"
           /\ \A q \in Calls \ {p} :
                phase'[q] = phase[q] /\ pending'[q] = pending[q]
           /\ LocksAreHeld'
<1> USE DEF EndTransaction
<1>1. /\ row_lock' \in [Holds -> Calls \cup {None}]
      /\ key_lock' \in [CommandKey -> Calls \cup {None}]
  BY DEF TypeOK, Unlocked
<1>2. /\ pending' \in [Calls -> Pending \cup {None}]
      /\ phase' \in [Calls -> Phases]
      /\ phase'[p] = "idle"
      /\ \A q \in Calls \ {p} :
           phase'[q] = phase[q] /\ pending'[q] = pending[q]
  BY DEF TypeOK, Phases
<1>3. ASSUME NEW q \in Calls
      PROVE  LocksOf(q)'
  <2>1. CASE q = p
    BY <2>1, <1>2 DEF LocksOf, Owning, Stored
  <2>2. CASE q # p
    <3>1. /\ phase[q] \in Owning => HoldOf(q) \in Holds
          /\ phase[q] \in Stored => KeyOf(q) \in CommandKey
      BY Serving DEF Owning, Stored
    <3>2. LocksOf(q)
      BY DEF LocksAreHeld
    <3> QED
      BY <3>1, <3>2, <2>2, <1>2 DEF LocksOf, HoldOf, KeyOf, TypeOK, Unlocked
  <2> QED
    BY <2>1, <2>2
<1> QED
  BY <1>1, <1>2, <1>3 DEF LocksAreHeld

(***************************************************************************)
(* A rollback leaves the tables alone.                                     *)
(***************************************************************************)
LEMMA RollbackIInv ==
    ASSUME IInv, NEW p \in Calls, Rollback(p)
    PROVE  IInv'
<1> USE DEF Rollback, IInv
<1>0. /\ EndTransaction(p) /\ request' = request /\ answer' = answer
      /\ UNCHANGED tables
  OBVIOUS
<1>1. TypeOK'
  BY <1>0, EndLocks DEF TypeOK, TablesTypeOK, tables
<1>2. LocksAreHeld'
  BY <1>0, EndLocks
<1>3. AnswersWait'
  BY <1>0, EndLocks DEF AnswersWait, InTransaction
<1>4. WorkIsCurrent'
  <2> SUFFICES ASSUME NEW q \in Calls PROVE WorkOf(q)'
    BY DEF WorkIsCurrent
  <2>1. CASE q # p
    BY <2>1, <1>0, EndLocks, QuietWork
  <2>2. CASE q = p
    BY <2>2, <1>0, EndLocks DEF WorkOf, Written, Stored, Owning
  <2> QED
    BY <2>1, <2>2
<1>5. IdsAreFresh'
  BY <1>0, EndLocks DEF IdsAreFresh, Numbered, Written, Owning, tables, HoldOf
<1>6. ScopesHaveAHold'
  BY <1>0 DEF ScopesHaveAHold, tables
<1> QED
  BY <1>1, <1>2, <1>3, <1>4, <1>5, <1>6

(***************************************************************************)
(* A commit.  Every other transaction with work in progress is on another  *)
(* hold, and every other one that has stored a receipt on another key.     *)
(***************************************************************************)
LEMMA CommitIInv ==
    ASSUME IInv, NEW p \in Calls, Commit(p)
    PROVE  IInv'
<1> DEFINE r == request[p]
<1> USE DEF Commit, IInv
<1>0. /\ r \in Requests /\ r \in Request
      /\ r.hold \in Holds /\ CommandKeyOf(r) \in CommandKey
      /\ HashOf(r) \in RequestHash
      /\ \A id \in Nat : ActivityOf(r, id) \in ActivityRow
  BY Serving, RequestTypes
<1>a. EndTransaction(p) /\ request' = request
  OBVIOUS
<1>b. pending[p] \in Pending
  BY DEF WorkIsCurrent, WorkOf, TypeOK, Written, Owning
<1>c. PendingView(p) \in HoldView
  BY <1>0, <1>b DEF PendingView, ViewOf, HoldView, Pending, HoldOf
<1>d. /\ pending[p].activity_id \in Nat
      /\ pending[p].activity_id \in 1..activity_id_seq
  BY <1>b DEF Pending, IdsAreFresh, Numbered, Written, Owning
<1>e. phase[p] \in Owning /\ phase[p] \in Stored /\ phase[p] \in Numbered
  BY DEF Owning, Stored, Numbered, Written
<1>1. TypeOK'
  <2>1. TablesTypeOK'
    <3>1. legal_holds' \in [Holds -> HoldRow \cup {None}]
      BY <1>0, <1>b DEF TypeOK, TablesTypeOK, Pending
    <3>2. legal_hold_scopes' \in [Holds -> SUBSET Scope]
      BY <1>0, <1>b DEF TypeOK, TablesTypeOK, Pending
    <3>3. legal_hold_commands' \in [CommandKey -> Receipt \cup {None}]
      BY <1>0, <1>c DEF TypeOK, TablesTypeOK, Receipt, KeyOf
    <3>4. legal_hold_activity' \subseteq ActivityRow
      BY <1>0, <1>d DEF TypeOK, TablesTypeOK
    <3> QED
      BY <3>1, <3>2, <3>3, <3>4 DEF TablesTypeOK
  <2>2. answer' \in [Calls -> Answer \cup {None}]
    BY <1>c, AnswerTypes DEF TypeOK
  <2> QED
    BY <2>1, <2>2, <1>0, <1>a, EndLocks DEF TypeOK
<1>2. LocksAreHeld'
  BY <1>a, EndLocks
<1>3. AnswersWait'
  BY <1>a, EndLocks DEF AnswersWait, InTransaction, TypeOK
<1>4. WorkIsCurrent'
  <2> SUFFICES ASSUME NEW q \in Calls PROVE WorkOf(q)'
    BY DEF WorkIsCurrent
  <2>1. CASE q = p
    BY <2>1, <1>a, EndLocks DEF WorkOf, Written, Stored, Owning
  <2>2. CASE q # p
    <3>1. /\ phase'[q] = phase[q] /\ pending'[q] = pending[q]
          /\ request'[q] = request[q]
      BY <2>2, <1>a, EndLocks
    <3>2. phase[q] \in Owning => /\ HoldOf(q) # HoldOf(p)
                                 /\ HoldOf(q) \in Holds
      BY <2>2, <1>e, Serving DEF LocksAreHeld, LocksOf, Owning
    <3>3. phase[q] \in Stored => /\ KeyOf(q) # KeyOf(p)
                                 /\ KeyOf(q) \in CommandKey
      BY <2>2, <1>e, Serving DEF LocksAreHeld, LocksOf, Stored
    <3>4. phase[q] \in Owning =>
            /\ legal_holds'[HoldOf(q)] = legal_holds[HoldOf(q)]
            /\ legal_hold_scopes'[HoldOf(q)] = legal_hold_scopes[HoldOf(q)]
      BY <3>2 DEF TypeOK, TablesTypeOK, HoldOf
    <3>5. phase[q] \in Stored =>
            legal_hold_commands'[KeyOf(q)] = legal_hold_commands[KeyOf(q)]
      BY <3>3 DEF TypeOK, TablesTypeOK
    <3>6. WorkOf(q)
      BY DEF WorkIsCurrent
    <3>7. CASE phase[q] \notin Owning
      BY <3>1, <3>7 DEF WorkOf, Written, Stored, Owning
    <3>8. CASE phase[q] \in Owning
      <4>1. /\ Current(request[q])' <=> Current(request[q])
            /\ Applicable(request[q])' <=> Applicable(request[q])
            /\ RowAfter(request[q])' = RowAfter(request[q])
            /\ ScopeSetAfter(request[q])' = ScopeSetAfter(request[q])
        BY <3>4, <3>8, <1>a DEF HoldOf, Current, Applicable, RowAfter,
           ScopeSetAfter, Visible
      <4> HIDE DEF Commit
      <4> QED
        BY <4>1, <3>1, <3>5, <3>6, <1>a DEF WorkOf, KeyOf
    <3> QED
      BY <3>7, <3>8
  <2> QED
    BY <2>1, <2>2
<1>5. IdsAreFresh'
  <2>1. \A q \in Calls \ {p} : phase'[q] = phase[q] /\ pending'[q] = pending[q]
    BY <1>a, EndLocks
  <2>2. phase'[p] \notin Numbered
    BY <1>a, EndLocks DEF Numbered, Written, Owning
  <2>3. activity_id_seq' = activity_id_seq /\ activity_id_seq \in Nat
    BY DEF TypeOK
  <2>4. legal_hold_activity' =
          legal_hold_activity \cup {ActivityOf(r, pending[p].activity_id)}
    OBVIOUS
  <2>5. /\ ActivityOf(r, pending[p].activity_id).id = pending[p].activity_id
        /\ ActivityOf(r, pending[p].activity_id).hold = HoldOf(p)
    BY DEF ActivityOf, HoldOf
  <2>6. ASSUME NEW q \in Calls \ {p}, phase[q] \in Numbered
        PROVE  /\ HoldOf(q) # HoldOf(p)
               /\ pending[p].activity_id # pending[q].activity_id
    BY <2>6, <1>e DEF LocksAreHeld, LocksOf, IdsAreFresh, Numbered, Written
  <2>7. /\ activity_id_seq <= MaxActivityId
        /\ \A e \in legal_hold_activity' : e.id <= activity_id_seq
    BY <2>3, <2>4, <2>5, <1>d DEF IdsAreFresh
  <2>8. ASSUME NEW q \in Calls, phase'[q] \in Numbered
        PROVE  /\ pending'[q].activity_id \in 1..activity_id_seq'
               /\ \A e \in legal_hold_activity' :
                    /\ e.id # pending'[q].activity_id
                    /\ e.hold = HoldOf(q) => e.id < pending'[q].activity_id
               /\ \A w \in Calls \ {q} : phase'[w] \in Numbered =>
                    pending'[w].activity_id # pending'[q].activity_id
    <3>1. q # p /\ phase[q] \in Numbered
      BY <2>1, <2>2, <2>8
    <3>2. /\ HoldOf(q) # HoldOf(p)
          /\ pending[p].activity_id # pending[q].activity_id
      BY <3>1, <2>6
    <3> QED
      BY <3>1, <3>2, <2>1, <2>2, <2>3, <2>4, <2>5 DEF IdsAreFresh
  <2> QED
    BY <2>3, <2>7, <2>8, <1>a DEF IdsAreFresh, HoldOf
<1>6. ScopesHaveAHold'
  BY <1>0, <1>b, NoneAssumption
  DEF ScopesHaveAHold, TypeOK, TablesTypeOK, Pending
<1> QED
  BY <1>1, <1>2, <1>3, <1>4, <1>5, <1>6

(***************************************************************************)
(* Every step, and every stuttering step, keeps the invariant.             *)
(***************************************************************************)
LEMMA StepIInv ==
    ASSUME IInv, [Next]_vars
    PROVE  IInv'
<1>1. CASE UNCHANGED vars
  BY <1>1 DEF vars, tables, locks, IInv, TypeOK, TablesTypeOK, LocksAreHeld,
     LocksOf, AnswersWait, WorkIsCurrent, WorkOf, IdsAreFresh, ScopesHaveAHold,
     HoldOf, KeyOf, Current, Visible, Applicable, RowAfter, ScopeSetAfter
<1>2. CASE Next
  <2> PICK p \in Calls :
        (\E r \in Requests : Begin(p, r)) \/ Statement(p) \/ Fail(p)
    BY <1>2 DEF Next
  <2>1. CASE \E r \in Requests : Begin(p, r)
    BY <2>1, BeginIInv
  <2>2. CASE Statement(p)
    BY <2>2, ReplayIInv, InsertHoldIInv, LockHoldIInv, ChangeScopeIInv,
       ReleaseIInv, AppendActivityIInv, StoreCommandIInv, CommitIInv,
       RollbackIInv DEF Statement
  <2>3. CASE Fail(p)
    BY <2>3, FailIInv
  <2> QED
    BY <2>1, <2>2, <2>3
<1> QED
  BY <1>1, <1>2

(***************************************************************************)
(* What a transaction checked and wrote stays current until it ends, and   *)
(* the locks that keep it so are held: the invariant of storage.rs.        *)
(***************************************************************************)
THEOREM Invariant == Spec => []IInv
<1>1. Init => IInv
  BY InitIInv
<1>2. IInv /\ [Next]_vars => IInv'
  BY StepIInv
<1> QED
  BY <1>1, <1>2, PTL DEF Spec

(***************************************************************************)
(* Rows, receipts, locks and answers keep their types.                     *)
(***************************************************************************)
THEOREM TypeCorrect == Spec => []TypeOK
<1>1. IInv => TypeOK
  BY DEF IInv
<1> QED
  BY <1>1, Invariant, PTL

-----------------------------------------------------------------------------
(***************************************************************************)
(* Only a commit changes the tables.                                       *)
(***************************************************************************)
LEMMA OnlyCommits ==
    ASSUME [Next]_vars
    PROVE  UNCHANGED tables \/ \E p \in Calls : Commit(p)
<1>1. CASE UNCHANGED vars
  BY <1>1 DEF vars
<1>2. CASE Next
  BY <1>2 DEF Next, Begin, Statement, Fail, Replay, InsertHold, LockHold,
     ChangeScope, Release, AppendActivity, StoreCommand, Rollback
<1> QED
  BY <1>1, <1>2

(***************************************************************************)
(* What a commit finds: its request still applies, its work is what the    *)
(* request does to the committed rows, no receipt stands under its key,    *)
(* and its activity id is beyond every other one of its hold.              *)
(***************************************************************************)
LEMMA CommitFinds ==
    ASSUME IInv, NEW p \in Calls, Commit(p)
    PROVE  /\ request[p] \in Requests /\ request[p] \in Request
           /\ HoldOf(p) \in Holds /\ KeyOf(p) \in CommandKey
           /\ Applicable(request[p])
           /\ pending[p] \in Pending
           /\ pending[p].row = RowAfter(request[p])
           /\ pending[p].scopes = ScopeSetAfter(request[p])
           /\ legal_hold_commands[KeyOf(p)] = None
           /\ pending[p].activity_id \in 1..MaxActivityId
           /\ \A e \in legal_hold_activity :
                /\ e.id # pending[p].activity_id
                /\ e.hold = HoldOf(p) => e.id < pending[p].activity_id
<1>1. phase[p] \in {"commit", "orphan"}
  BY DEF Commit
<1>2. request[p] \in Requests /\ request[p] \in Request
  BY <1>1, Serving DEF IInv
<1>3. HoldOf(p) \in Holds /\ KeyOf(p) \in CommandKey
  BY <1>1, Serving DEF IInv
<1>4. WorkOf(p)
  BY DEF IInv, WorkIsCurrent
<1>5. pending[p] \in Pending
  BY <1>1, <1>4 DEF IInv, TypeOK, WorkOf, Written, Owning
<1>6. /\ pending[p].activity_id \in 1..activity_id_seq
      /\ \A e \in legal_hold_activity :
           /\ e.id # pending[p].activity_id
           /\ e.hold = HoldOf(p) => e.id < pending[p].activity_id
  BY <1>1 DEF IInv, IdsAreFresh, Numbered, Written, Owning
<1>7. pending[p].activity_id \in 1..MaxActivityId
  BY <1>6, StorageAssumption DEF IInv, IdsAreFresh, TypeOK
<1> QED
  BY <1>1, <1>2, <1>3, <1>4, <1>5, <1>6, <1>7
  DEF WorkOf, Written, Owning, Stored

(***************************************************************************)
(* A receipt, once committed, is never removed or replaced.                *)
(***************************************************************************)
THEOREM ReceiptsStay == Spec => ReceiptsPermanent
<1> DEFINE Stay == \A k \in CommandKey :
                     legal_hold_commands[k] # None =>
                       legal_hold_commands'[k] = legal_hold_commands[k]
<1>1. IInv /\ [Next]_vars => [Stay]_tables
  <2> SUFFICES ASSUME IInv, [Next]_vars, NEW p \in Calls, Commit(p)
               PROVE  Stay
    BY OnlyCommits
  <2> QED
    BY CommitFinds DEF Commit, IInv, TypeOK, TablesTypeOK
<1> QED
  BY <1>1, Invariant, PTL DEF Spec, ReceiptsPermanent

(***************************************************************************)
(* No step changes the row, the scopes or the activity of a released hold. *)
(***************************************************************************)
THEOREM ReleasedStay == Spec => ReleasedHoldsImmutable
<1> DEFINE Stay == \A h \in Holds :
                     (Committed(h) /\ legal_holds[h].status = "released") =>
                       /\ legal_holds'[h] = legal_holds[h]
                       /\ legal_hold_scopes'[h] = legal_hold_scopes[h]
                       /\ ActivityRowsOf(h)' = ActivityRowsOf(h)
<1>1. IInv /\ [Next]_vars => [Stay]_tables
  <2> SUFFICES ASSUME IInv, [Next]_vars, NEW p \in Calls, Commit(p),
                      NEW h \in Holds, Committed(h),
                      legal_holds[h].status = "released"
               PROVE  /\ legal_holds'[h] = legal_holds[h]
                      /\ legal_hold_scopes'[h] = legal_hold_scopes[h]
                      /\ ActivityRowsOf(h)' = ActivityRowsOf(h)
    BY OnlyCommits
  <2>1. HoldOf(p) # h
    BY CommitFinds DEF Applicable, Current, HoldOf, Committed
  <2>2. /\ legal_holds'[h] = legal_holds[h]
        /\ legal_hold_scopes'[h] = legal_hold_scopes[h]
    BY <2>1 DEF Commit, IInv, TypeOK, TablesTypeOK, HoldOf
  <2>3. ActivityRowsOf(h)' = ActivityRowsOf(h)
    BY <2>1 DEF Commit, ActivityRowsOf, ActivityOf, HoldOf
  <2> QED
    BY <2>2, <2>3
<1> QED
  BY <1>1, Invariant, PTL DEF Spec, ReleasedHoldsImmutable

(***************************************************************************)
(* Within a hold, activity becomes visible in the order of its ids.        *)
(***************************************************************************)
THEOREM ActivityOrdered == Spec => ActivityAppearsInOrder
<1> DEFINE InOrder == \A e \in legal_hold_activity' \ legal_hold_activity :
                        \A f \in ActivityRowsOf(e.hold) : f.id < e.id
<1>1. IInv /\ [Next]_vars => [InOrder]_tables
  <2> SUFFICES ASSUME IInv, [Next]_vars, NEW p \in Calls, Commit(p),
                      NEW e \in legal_hold_activity' \ legal_hold_activity,
                      NEW f \in ActivityRowsOf(e.hold)
               PROVE  f.id < e.id
    BY OnlyCommits
  <2>1. e = ActivityOf(request[p], pending[p].activity_id)
    BY DEF Commit
  <2>2. e.hold = HoldOf(p) /\ e.id = pending[p].activity_id
    BY <2>1 DEF ActivityOf, HoldOf
  <2> QED
    BY <2>2, CommitFinds DEF ActivityRowsOf
<1> QED
  BY <1>1, Invariant, PTL DEF Spec, ActivityAppearsInOrder

-----------------------------------------------------------------------------
(***************************************************************************)
(* A commit is a mutation that takes effect.                               *)
(***************************************************************************)
LEMMA CommitTakesEffect ==
    ASSUME IInv, NEW p \in Calls, Commit(p)
    PROVE  TakesEffect(request[p], pending[p].activity_id)
<1>1. Legal(request[p])
  BY CommitFinds DEF Legal, ReceiptFor, KeyOf
<1>2. PendingView(p) = ViewAfter(request[p])
  BY CommitFinds DEF PendingView, ViewAfter, HoldOf
<1>3. \A e \in legal_hold_activity :
        /\ e.id # pending[p].activity_id
        /\ e.hold = request[p].hold => e.id < pending[p].activity_id
  BY CommitFinds DEF HoldOf
<1>4. /\ pending[p].row = RowAfter(request[p])
      /\ pending[p].scopes = ScopeSetAfter(request[p])
  BY CommitFinds
<1> QED
  BY <1>1, <1>2, <1>3, <1>4 DEF Commit, TakesEffect, KeyOf

(***************************************************************************)
(* The receipts of every hold are one serial history and its activity      *)
(* explains it: the history invariant.                                     *)
(***************************************************************************)
THEOREM History == Spec => []HistoryInv
<1>1. Init => HistoryInv
  BY EmptyHistory DEF Init
<1>2. IInv /\ HistoryInv /\ [Next]_vars => HistoryInv'
  <2> SUFFICES ASSUME IInv, HistoryInv, [Next]_vars
               PROVE  HistoryInv'
    OBVIOUS
  <2>1. CASE UNCHANGED tables
    BY <2>1, QuietHistory
  <2>2. ASSUME NEW p \in Calls, Commit(p)
        PROVE  HistoryInv'
    <3> DEFINE r == request[p]
               id == pending[p].activity_id
    <3>1. PICK s \in Requests, i \in Nat : s = r /\ i = id
      BY <2>2, CommitFinds
    <3>2. TakesEffect(s, i)
      BY <2>2, <3>1, CommitTakesEffect
    <3> QED
      BY <3>2, EffectKeepsInv
  <2> QED
    BY <2>1, <2>2, OnlyCommits
<1> QED
  BY <1>1, <1>2, Invariant, PTL DEF Spec

(***************************************************************************)
(* Exactly once: every revision of every hold has one receipt, and every   *)
(* receipt a revision.                                                     *)
(***************************************************************************)
THEOREM OnceEach == Spec => []OneReceiptPerRevision
<1>1. HistoryInv => OneReceiptPerRevision
  BY DEF HistoryInv
<1> QED
  BY <1>1, History, PTL

(***************************************************************************)
(* Concurrent mutations are serial: the receipts of a hold, in revision    *)
(* order, are one legal run of the operations that ends in its row.        *)
(***************************************************************************)
THEOREM SerialHistory == Spec => []ReceiptsFormSerialHistory
<1>1. HistoryInv => ReceiptsFormSerialHistory
  BY DEF HistoryInv
<1> QED
  BY <1>1, History, PTL

(***************************************************************************)
(* The n-th activity row of a hold is the change that produced revision n. *)
(***************************************************************************)
THEOREM ActivityExplains == Spec => []ActivityExplainsHold
<1>1. HistoryInv => ActivityExplainsHold
  BY DEF HistoryInv
<1> QED
  BY <1>1, History, PTL

-----------------------------------------------------------------------------
(***************************************************************************)
(* The ledger's data and the tables' data are the same data.               *)
(***************************************************************************)
LEMMA SameData ==
    ASSUME NEW r
    PROVE  /\ Ledger!CommandKeyOf(r) = CommandKeyOf(r)
           /\ Ledger!HashOf(r) = HashOf(r)
           /\ \A id : Ledger!ActivityOf(r, id) = ActivityOf(r, id)
           /\ Ledger!ReceiptFor(r) = ReceiptFor(r)
           /\ Ledger!Visible(r) <=> Visible(r)
           /\ Ledger!Current(r) <=> Current(r)
           /\ Ledger!Applicable(r) <=> Applicable(r)
           /\ Ledger!RowAfter(r) = RowAfter(r)
           /\ Ledger!ScopeSetAfter(r) = ScopeSetAfter(r)
           /\ Ledger!ViewAfter(r) = ViewAfter(r)
<1>1. /\ Ledger!CommandKeyOf(r) = CommandKeyOf(r)
      /\ Ledger!HashOf(r) = HashOf(r)
  BY DEF Ledger!CommandKeyOf, CommandKeyOf, Ledger!HashOf, HashOf
<1>2. ASSUME NEW id PROVE Ledger!ActivityOf(r, id) = ActivityOf(r, id)
  BY DEF Ledger!ActivityOf, ActivityOf, Ledger!ActivityKind, ActivityKind
<1>3. Ledger!ReceiptFor(r) = ReceiptFor(r)
  BY <1>1 DEF Ledger!ReceiptFor, ReceiptFor
<1>4. /\ Ledger!Visible(r) <=> Visible(r)
      /\ Ledger!Current(r) <=> Current(r)
  BY DEF Ledger!Visible, Visible, Ledger!Current, Current
<1>5. Ledger!Applicable(r) <=> Applicable(r)
  BY <1>4 DEF Ledger!Applicable, Applicable, Ledger!ScopeOperations,
     ScopeOperations, Ledger!ScopeChanges, ScopeChanges
<1>6. Ledger!RowAfter(r) = RowAfter(r)
  BY DEF Ledger!RowAfter, RowAfter, Ledger!NewRow, NewRow, Ledger!AdvanceRow,
     AdvanceRow, Ledger!ReleaseRow, ReleaseRow
<1>7. Ledger!ScopeSetAfter(r) = ScopeSetAfter(r)
  BY DEF Ledger!ScopeSetAfter, ScopeSetAfter, Ledger!ScopeOperations,
     ScopeOperations, Ledger!ScopesAfter, ScopesAfter
<1>8. Ledger!ViewAfter(r) = ViewAfter(r)
  BY <1>6, <1>7 DEF Ledger!ViewAfter, ViewAfter, Ledger!ViewOf, ViewOf
<1> QED
  BY <1>1, <1>2, <1>3, <1>4, <1>5, <1>6, <1>7, <1>8

(***************************************************************************)
(* How a change of phase shows in the ledger.                              *)
(***************************************************************************)
LEMMA EffectAfter ==
    ASSUME TypeOK, NEW p \in Calls, NEW x, phase' = [phase EXCEPT ![p] = x]
    PROVE  /\ MayTakeEffect' =
                [MayTakeEffect EXCEPT ![p] = x \notin {"idle", "rollback"}]
           /\ MayTakeEffect[p] <=> phase[p] \notin {"idle", "rollback"}
           /\ (MayTakeEffect[p] <=> x \notin {"idle", "rollback"}) =>
                MayTakeEffect' = MayTakeEffect
  BY DEF MayTakeEffect, TypeOK

(***************************************************************************)
(* Each step of a call is a step of the ledger, or none at all.            *)
(***************************************************************************)
LEMMA BeginRefines ==
    ASSUME IInv, NEW p \in Calls, NEW r \in Requests, Begin(p, r)
    PROVE  Ledger!Begin(p, r)
<1> USE DEF Begin, IInv
<1>1. /\ MayTakeEffect' = [MayTakeEffect EXCEPT ![p] = TRUE]
      /\ ~MayTakeEffect[p]
  BY DEF MayTakeEffect, TypeOK
<1> QED
  BY <1>1 DEF Ledger!Begin, Ledger!tables, tables

(***************************************************************************)
(* Answering from a receipt is the ledger's Replayed, or a true refusal;   *)
(* finding none is a stutter.                                              *)
(***************************************************************************)
LEMMA ReplayRefines ==
    ASSUME IInv, NEW p \in Calls, Replay(p)
    PROVE  Ledger!Next \/ UNCHANGED Ledger!vars
<1> USE DEF Replay, AnswerFromReceipt, GiveUp, IInv
<1>0. answer[p] = None /\ UNCHANGED <<tables, request>>
  BY DEF AnswersWait, InTransaction, Phases
<1>a. /\ Ledger!ReceiptFor(request[p]) = legal_hold_commands[KeyOf(p)]
      /\ Ledger!HashOf(request[p]) = HashOf(request[p])
  BY SameData DEF ReceiptFor, KeyOf
<1>1. CASE legal_hold_commands[KeyOf(p)] = None
  BY <1>0, <1>1, EffectAfter DEF Ledger!vars, Ledger!tables, tables
<1>2. CASE /\ legal_hold_commands[KeyOf(p)] # None
           /\ SameHash(legal_hold_commands[KeyOf(p)], request[p])
  <2>1. Ledger!Replayed(p)
    BY <1>0, <1>a, <1>2, EffectAfter
    DEF SameHash, Ledger!Replayed, Ledger!Tell, Ledger!tables, tables
  <2> QED
    BY <2>1 DEF Ledger!Next, Ledger!Step
<1>3. CASE /\ legal_hold_commands[KeyOf(p)] # None
           /\ ~SameHash(legal_hold_commands[KeyOf(p)], request[p])
  <2>1. Ledger!Refuse(p, "IdempotencyConflict")
    BY <1>0, <1>a, <1>3, EffectAfter
    DEF SameHash, Ledger!Refuse, Ledger!Justified, Ledger!Tell, Ledger!tables,
        tables
  <2> QED
    BY <2>1 DEF Ledger!Next, Ledger!Step, Ledger!DomainFailures
<1> QED
  BY <1>1, <1>2, <1>3

(***************************************************************************)
(* A hold_id that is taken is a true refusal; an insert is a stutter until *)
(* it commits.                                                             *)
(***************************************************************************)
LEMMA InsertHoldRefines ==
    ASSUME IInv, NEW p \in Calls, InsertHold(p)
    PROVE  Ledger!Next \/ UNCHANGED Ledger!vars
<1> USE DEF InsertHold, GiveUp, IInv
<1>0. answer[p] = None /\ UNCHANGED <<tables, request>>
  BY DEF AnswersWait, InTransaction, Phases
<1>1. CASE legal_holds[HoldOf(p)] = None
  BY <1>0, <1>1, EffectAfter DEF Ledger!vars, Ledger!tables, tables
<1>2. CASE legal_holds[HoldOf(p)] # None
  <2>1. Ledger!Refuse(p, "IdempotencyConflict")
    BY <1>0, <1>2, EffectAfter
    DEF HoldOf, Ledger!Refuse, Ledger!Justified, Ledger!Tell, Ledger!tables,
        tables
  <2> QED
    BY <2>1 DEF Ledger!Next, Ledger!Step, Ledger!DomainFailures
<1> QED
  BY <1>1, <1>2

(***************************************************************************)
(* Each failed check behind the row lock is a refusal that the committed   *)
(* row justifies.                                                          *)
(***************************************************************************)
LEMMA LockHoldRefines ==
    ASSUME IInv, NEW p \in Calls, LockHold(p)
    PROVE  Ledger!Next \/ UNCHANGED Ledger!vars
<1> USE DEF LockHold, GiveUp, IInv
<1>0. answer[p] = None /\ UNCHANGED <<tables, request>>
  BY DEF AnswersWait, InTransaction, Phases
<1>a. Ledger!Visible(request[p]) <=> VisibleTo(legal_holds[HoldOf(p)], request[p])
  BY SameData DEF Visible, VisibleTo, HoldOf
<1>b. VisibleTo(legal_holds[HoldOf(p)], request[p]) =>
        legal_holds[HoldOf(p)].status \in {"active", "released"}
  BY Serving DEF VisibleTo, TypeOK, TablesTypeOK, HoldRow
<1>1. CASE phase' = [phase EXCEPT ![p] = "change"]
  <2>1. MayTakeEffect' = MayTakeEffect
    BY <1>1 DEF MayTakeEffect, TypeOK
  <2>2. answer' = answer
    BY <1>1 DEF TypeOK
  <2> QED
    BY <1>0, <2>1, <2>2 DEF Ledger!vars, Ledger!tables, tables
<1>2. CASE phase' # [phase EXCEPT ![p] = "change"]
  <2>0. \/ GiveUp(p, "NotFound") /\ Ledger!Justified(request[p], "NotFound")
        \/ /\ GiveUp(p, "HoldReleased")
           /\ Ledger!Justified(request[p], "HoldReleased")
        \/ /\ GiveUp(p, "RevisionConflict")
           /\ Ledger!Justified(request[p], "RevisionConflict")
    BY <1>0, <1>a, <1>b, <1>2
    DEF Ledger!Justified, StatusActive, AtExpectedRevision, HoldOf
  <2>1. PICK failure \in {"NotFound", "HoldReleased", "RevisionConflict"} :
          GiveUp(p, failure) /\ Ledger!Justified(request[p], failure)
    BY <2>0
  <2>2. Ledger!Refuse(p, failure)
    BY <1>0, <2>1, EffectAfter
    DEF Ledger!Refuse, Ledger!Tell, Ledger!tables, tables
  <2> QED
    BY <2>2 DEF Ledger!Next, Ledger!Step, Ledger!DomainFailures
<1> QED
  BY <1>1, <1>2

(***************************************************************************)
(* No scope row changed is a true ScopeConflict, because the lock keeps    *)
(* the scopes as they were read; a change is a stutter.                    *)
(***************************************************************************)
LEMMA ChangeScopeRefines ==
    ASSUME IInv, NEW p \in Calls, ChangeScope(p)
    PROVE  Ledger!Next \/ UNCHANGED Ledger!vars
<1> USE DEF ChangeScope, GiveUp, IInv
<1>0. answer[p] = None /\ UNCHANGED <<tables, request>>
  BY DEF AnswersWait, InTransaction, Phases
<1>1. CASE phase' = [phase EXCEPT ![p] = "append"]
  <2>1. MayTakeEffect' = MayTakeEffect
    BY <1>1 DEF MayTakeEffect, TypeOK
  <2>2. answer' = answer
    BY <1>1 DEF TypeOK
  <2> QED
    BY <1>0, <2>1, <2>2 DEF Ledger!vars, Ledger!tables, tables
<1>2. CASE phase' # [phase EXCEPT ![p] = "append"]
  <2>1. /\ GiveUp(p, "ScopeConflict")
        /\ ~OneRowChanged(request[p], legal_hold_scopes[HoldOf(p)])
    BY <1>2 DEF HoldOf
  <2>2. Ledger!Current(request[p])
    BY SameData DEF WorkIsCurrent, WorkOf
  <2>3. Ledger!Justified(request[p], "ScopeConflict")
    BY <2>1, <2>2 DEF Ledger!Justified, OneRowChanged, HoldOf, ScopeOperations,
       Ledger!ScopeOperations, Ledger!ScopeChanges, ScopeChanges
  <2>4. Ledger!Refuse(p, "ScopeConflict")
    BY <1>0, <2>1, <2>3, EffectAfter
    DEF Ledger!Refuse, Ledger!Tell, Ledger!tables, tables
  <2> QED
    BY <2>4 DEF Ledger!Next, Ledger!Step, Ledger!DomainFailures
<1> QED
  BY <1>1, <1>2

(***************************************************************************)
(* The uncommitted release is a stutter.                                   *)
(***************************************************************************)
LEMMA ReleaseRefines ==
    ASSUME IInv, NEW p \in Calls, Release(p)
    PROVE  UNCHANGED Ledger!vars
<1> USE DEF Release, IInv
<1>1. MayTakeEffect' = MayTakeEffect
  BY DEF MayTakeEffect, TypeOK
<1> QED
  BY <1>1 DEF Ledger!vars, Ledger!tables, tables

(***************************************************************************)
(* Drawing an id is a stutter; the end of the sequence is the ledger's     *)
(* Fail.                                                                   *)
(***************************************************************************)
LEMMA AppendActivityRefines ==
    ASSUME IInv, NEW p \in Calls, AppendActivity(p)
    PROVE  Ledger!Next \/ UNCHANGED Ledger!vars
<1> USE DEF AppendActivity, GiveUp, IInv
<1>0. answer[p] = None /\ UNCHANGED <<tables, request>>
  BY DEF AnswersWait, InTransaction, Phases
<1>1. CASE phase' = [phase EXCEPT ![p] = "store"] /\ UNCHANGED answer
  <2>1. MayTakeEffect' = MayTakeEffect
    BY <1>1 DEF MayTakeEffect, TypeOK
  <2>2. answer' = answer
    BY <1>1 DEF TypeOK
  <2> QED
    BY <1>0, <2>1, <2>2 DEF Ledger!vars, Ledger!tables, tables
<1>2. CASE GiveUp(p, "PluginFailure")
  <2>1. Ledger!Fail(p)
    BY <1>0, <1>2, EffectAfter
    DEF Ledger!Fail, Ledger!Tell, Ledger!tables, tables
  <2> QED
    BY <2>1 DEF Ledger!Next, Ledger!Step
<1> QED
  BY <1>1, <1>2

(***************************************************************************)
(* An uncommitted receipt is a stutter; a unique violation is the ledger's *)
(* Fail.                                                                   *)
(***************************************************************************)
LEMMA StoreCommandRefines ==
    ASSUME IInv, NEW p \in Calls, StoreCommand(p)
    PROVE  Ledger!Next \/ UNCHANGED Ledger!vars
<1> USE DEF StoreCommand, GiveUp, IInv
<1>0. answer[p] = None /\ UNCHANGED <<tables, request>>
  BY DEF AnswersWait, InTransaction, Phases
<1>1. CASE phase' = [phase EXCEPT ![p] = "commit"] /\ UNCHANGED answer
  <2>1. MayTakeEffect' = MayTakeEffect
    BY <1>1 DEF MayTakeEffect, TypeOK
  <2>2. answer' = answer
    BY <1>1 DEF TypeOK
  <2> QED
    BY <1>0, <2>1, <2>2 DEF Ledger!vars, Ledger!tables, tables
<1>2. CASE GiveUp(p, "PluginFailure")
  <2>1. Ledger!Fail(p)
    BY <1>0, <1>2, EffectAfter
    DEF Ledger!Fail, Ledger!Tell, Ledger!tables, tables
  <2> QED
    BY <2>1 DEF Ledger!Next, Ledger!Step
<1> QED
  BY <1>1, <1>2

(***************************************************************************)
(* A failure is the ledger's Fail: before COMMIT is sent the call is over, *)
(* afterwards its effect may still come.                                   *)
(***************************************************************************)
LEMMA FailRefines ==
    ASSUME IInv, NEW p \in Calls, Fail(p)
    PROVE  Ledger!Fail(p)
<1> USE DEF Fail, GiveUp, IInv
<1>0. answer[p] = None /\ UNCHANGED <<tables, request>>
  BY DEF AnswersWait
<1>1. CASE phase[p] # "commit"
  BY <1>0, <1>1, EffectAfter
  DEF Ledger!Fail, Ledger!Tell, Ledger!tables, tables, InTransaction
<1>2. CASE phase[p] = "commit"
  BY <1>0, <1>2, EffectAfter
  DEF Ledger!Fail, Ledger!Tell, Ledger!tables, tables
<1> QED
  BY <1>1, <1>2

(***************************************************************************)
(* The rollback of an orphan is the ledger's Abandon; any other is a       *)
(* stutter.                                                                *)
(***************************************************************************)
LEMMA RollbackRefines ==
    ASSUME IInv, NEW p \in Calls, Rollback(p)
    PROVE  Ledger!Next \/ UNCHANGED Ledger!vars
<1> USE DEF Rollback, EndTransaction, IInv
<1>1. CASE phase[p] = "rollback"
  BY <1>1, EffectAfter DEF Ledger!vars, Ledger!tables, tables
<1>2. CASE phase[p] = "orphan"
  <2>1. Ledger!Abandon(p)
    BY <1>2, EffectAfter
    DEF AnswersWait, Ledger!Abandon, Ledger!tables, tables
  <2> QED
    BY <2>1 DEF Ledger!Next, Ledger!Step
<1> QED
  BY <1>1, <1>2

(***************************************************************************)
(* A commit is the step in which the ledger's mutation takes effect.       *)
(***************************************************************************)
LEMMA CommitRefines ==
    ASSUME IInv, NEW p \in Calls, Commit(p)
    PROVE  Ledger!Next
<1> DEFINE r == request[p]
           id == pending[p].activity_id
<1>1. /\ MayTakeEffect[p]
      /\ MayTakeEffect' = [MayTakeEffect EXCEPT ![p] = FALSE]
  BY EffectAfter DEF Commit, EndTransaction, IInv
<1>2. Ledger!Legal(r)
  BY CommitFinds, SameData DEF Ledger!Legal, ReceiptFor, KeyOf
<1>3. \A e \in legal_hold_activity : e.id # id /\ (e.hold = r.hold => e.id < id)
  BY CommitFinds DEF HoldOf
<1>4. /\ legal_holds' = [legal_holds EXCEPT ![r.hold] = Ledger!RowAfter(r)]
      /\ legal_hold_scopes' =
           [legal_hold_scopes EXCEPT ![r.hold] = Ledger!ScopeSetAfter(r)]
  BY CommitFinds, SameData DEF Commit
<1>5. legal_hold_activity' =
        legal_hold_activity \cup {Ledger!ActivityOf(r, id)}
  BY SameData DEF Commit
<1>6. PendingView(p) = Ledger!ViewAfter(r)
  BY CommitFinds, SameData DEF PendingView, ViewAfter, HoldOf
<1>7. legal_hold_commands' =
        [legal_hold_commands EXCEPT ![Ledger!CommandKeyOf(r)] =
           [hash |-> Ledger!HashOf(r), response |-> Ledger!ViewAfter(r)]]
  BY <1>6, SameData DEF Commit, KeyOf
<1>8. \/ answer[p] = None /\ Ledger!Tell(p, "Ok", Ledger!ViewAfter(r))
      \/ answer[p] # None /\ UNCHANGED answer
  <2>1. CASE phase[p] = "orphan"
    BY <2>1 DEF Commit, IInv, AnswersWait
  <2>2. CASE phase[p] = "commit"
    BY <2>2, <1>6 DEF Commit, IInv, AnswersWait, InTransaction, Phases,
       Ledger!Tell
  <2> QED
    BY <2>1, <2>2 DEF Commit
<1>9. request' = request
  BY DEF Commit
<1>10. Ledger!Apply(p, id)
  BY <1>1, <1>2, <1>3, <1>4, <1>5, <1>7, <1>8, <1>9 DEF Ledger!Apply
<1> QED
  BY <1>10, CommitFinds DEF Ledger!Next, Ledger!Step

(***************************************************************************)
(* Statements, locks, crashes and lost acknowledgements of any number of   *)
(* concurrent calls look to their callers like the ledger.                 *)
(***************************************************************************)
THEOREM StorageImplementsLedger == Spec => ImplementsLedger
<1>1. Init => Ledger!Init
  BY DEF Init, Ledger!Init, TablesEmpty, Ledger!TablesEmpty, MayTakeEffect,
     CommandKey, Ledger!CommandKey, Operations, Ledger!Operations
<1>2. IInv /\ [Next]_vars => [Ledger!Next]_(Ledger!vars)
  <2> SUFFICES ASSUME IInv, [Next]_vars
               PROVE  Ledger!Next \/ UNCHANGED Ledger!vars
    OBVIOUS
  <2>1. CASE UNCHANGED vars
    BY <2>1 DEF vars, tables, Ledger!vars, Ledger!tables, MayTakeEffect
  <2>2. CASE Next
    <3> PICK p \in Calls :
          (\E r \in Requests : Begin(p, r)) \/ Statement(p) \/ Fail(p)
      BY <2>2 DEF Next
    <3>1. CASE \E r \in Requests : Begin(p, r)
      BY <3>1, BeginRefines DEF Ledger!Next, Ledger!Step
    <3>2. CASE Statement(p)
      BY <3>2, ReplayRefines, InsertHoldRefines, LockHoldRefines,
         ChangeScopeRefines, ReleaseRefines, AppendActivityRefines,
         StoreCommandRefines, CommitRefines, RollbackRefines DEF Statement
    <3>3. CASE Fail(p)
      BY <3>3, FailRefines DEF Ledger!Next, Ledger!Step
    <3> QED
      BY <3>1, <3>2, <3>3
  <2> QED
    BY <2>1, <2>2
<1> QED
  BY <1>1, <1>2, Invariant, PTL DEF Spec, ImplementsLedger, Ledger!Spec

-----------------------------------------------------------------------------
(***************************************************************************)
(* A committed receipt survives every step.                                *)
(***************************************************************************)
LEMMA ReceiptStays ==
    ASSUME IInv, [Next]_vars, NEW k \in CommandKey,
           legal_hold_commands[k] # None
    PROVE  legal_hold_commands'[k] = legal_hold_commands[k]
<1>1. CASE UNCHANGED tables
  BY <1>1 DEF tables
<1>2. CASE \E p \in Calls : Commit(p)
  <2> PICK p \in Calls : Commit(p)
    BY <1>2
  <2>1. k # KeyOf(p)
    BY CommitFinds
  <2> QED
    BY <2>1 DEF Commit, IInv, TypeOK, TablesTypeOK
<1> QED
  BY <1>1, <1>2, OnlyCommits

(***************************************************************************)
(* An answer belongs to a request, and success to a receipt of it.         *)
(***************************************************************************)
Durable(p) ==
    answer[p] # None =>
        /\ request[p] \in Requests
        /\ answer[p].outcome = "Ok" =>
             /\ legal_hold_commands[KeyOf(p)] # None
             /\ legal_hold_commands[KeyOf(p)].hash = HashOf(request[p])
             /\ legal_hold_commands[KeyOf(p)].response = answer[p].view

(***************************************************************************)
(* How a step can change the answer of a call: a new call clears it, a     *)
(* replay or a commit sets it to a receipt's response, anything else sets  *)
(* it to a failure.                                                        *)
(***************************************************************************)
LEMMA AnswerSteps ==
    ASSUME IInv, [Next]_vars, NEW q \in Calls
    PROVE  \/ /\ answer'[q] = answer[q] /\ request'[q] = request[q]
              /\ receipt_at_begin'[q] = receipt_at_begin[q]
           \/ /\ answer'[q] = None /\ request'[q] \in Requests
              /\ receipt_at_begin'[q] = legal_hold_commands'[CommandKeyOf(request'[q])]
              /\ phase'[q] = "replay"
           \/ /\ phase[q] # "idle" /\ request'[q] = request[q]
              /\ receipt_at_begin'[q] = receipt_at_begin[q]
              /\ \/ answer'[q].outcome = "PluginFailure"
                 \/ Replay(q)
                 \/ phase[q] \notin {"replay", "rollback"} /\ answer'[q].outcome # "Ok"
                 \/ Commit(q)
<1>1. CASE UNCHANGED vars
  BY <1>1 DEF vars
<1>2. CASE Next
  <2> PICK p \in Calls :
        (\E r \in Requests : Begin(p, r)) \/ Statement(p) \/ Fail(p)
    BY <1>2 DEF Next
  <2>1. CASE \E r \in Requests : Begin(p, r)
    <3> PICK r \in Requests : Begin(p, r)
      BY <2>1
    <3>1. CASE q = p
      BY <3>1 DEF Begin, IInv, TypeOK, tables
    <3>2. CASE q # p
      BY <3>2 DEF Begin, IInv, TypeOK
    <3> QED
      BY <3>1, <3>2
  <2>2. CASE Fail(p)
    BY <2>2 DEF Fail, GiveUp, IInv, TypeOK, InTransaction
  <2>3. CASE Statement(p)
    <3>1. CASE q = p
      BY <2>3, <3>1 DEF Statement, Replay, InsertHold, LockHold, ChangeScope,
         Release, AppendActivity, StoreCommand, Rollback, GiveUp, Commit, IInv,
         TypeOK
    <3>2. CASE q # p
      BY <2>3, <3>2 DEF Statement, Replay, AnswerFromReceipt, InsertHold,
         LockHold, ChangeScope, Release, AppendActivity, StoreCommand, Rollback,
         GiveUp, Commit, IInv, TypeOK
    <3> QED
      BY <3>1, <3>2
  <2> QED
    BY <2>1, <2>2, <2>3
<1> QED
  BY <1>1, <1>2

(***************************************************************************)
(* What a replay and a commit answer.                                      *)
(***************************************************************************)
LEMMA ReplayAnswers ==
    ASSUME IInv, NEW q \in Calls, Replay(q)
    PROVE  LET receipt == legal_hold_commands[KeyOf(q)] IN
           /\ UNCHANGED <<tables, request, receipt_at_begin>>
           /\ receipt = None => answer'[q] = None /\ phase'[q] = "lock"
           /\ (receipt # None /\ receipt.hash = HashOf(request[q])) =>
                /\ answer'[q].outcome = "Ok"
                /\ answer'[q].view = receipt.response
                /\ phase'[q] = "rollback"
           /\ (receipt # None /\ receipt.hash # HashOf(request[q])) =>
                /\ answer'[q].outcome = "IdempotencyConflict"
                /\ phase'[q] = "rollback"
<1>1. answer[q] = None
  BY DEF Replay, IInv, AnswersWait, InTransaction, Phases
<1> QED
  BY <1>1 DEF Replay, AnswerFromReceipt, SameHash, GiveUp, IInv, TypeOK

(***************************************************************************)
(* COMMIT gives its caller, and nobody else, the view of the receipt it    *)
(* stores.                                                                 *)
(***************************************************************************)
LEMMA CommitAnswers ==
    ASSUME IInv, NEW q \in Calls, Commit(q)
    PROVE  LET receipt == legal_hold_commands'[KeyOf(q)] IN
           /\ receipt # None
           /\ receipt.hash = HashOf(request[q])
           /\ \/ answer'[q] = answer[q]
              \/ answer'[q].outcome = "Ok" /\ answer'[q].view = receipt.response
<1>1. /\ HashOf(request[q]) \in RequestHash
      /\ PendingView(q) \in HoldView
  BY CommitFinds, RequestTypes DEF PendingView, ViewOf, HoldView, Pending
<1>2. [hash |-> HashOf(request[q]), response |-> PendingView(q)] # None
  BY <1>1, NoneAssumption DEF Receipt
<1>3. legal_hold_commands'[KeyOf(q)] =
        [hash |-> HashOf(request[q]), response |-> PendingView(q)]
  BY CommitFinds DEF Commit, IInv, TypeOK, TablesTypeOK
<1>4. \/ answer'[q] = answer[q]
      \/ answer'[q] = [outcome |-> "Ok", view |-> PendingView(q)]
  BY DEF Commit, IInv, TypeOK
<1> QED
  BY <1>2, <1>3, <1>4

(***************************************************************************)
(* A step keeps every Ok backed by its receipt: it stores the receipt with *)
(* the answer, reads it, or leaves both alone.                             *)
(***************************************************************************)
LEMMA DurableStep ==
    ASSUME IInv, \A q \in Calls : Durable(q), [Next]_vars, NEW p \in Calls
    PROVE  Durable(p)'
<1>1. SUFFICES ASSUME answer'[p] # None
               PROVE  /\ request'[p] \in Requests
                      /\ answer'[p].outcome = "Ok" =>
                           LET receipt == legal_hold_commands'[KeyOf(p)'] IN
                           /\ receipt # None
                           /\ receipt.hash = HashOf(request'[p])
                           /\ receipt.response = answer'[p].view
  BY DEF Durable
<1>2. CASE /\ answer'[p] = answer[p] /\ request'[p] = request[p]
  <2>1. request[p] \in Requests /\ KeyOf(p) \in CommandKey
    BY <1>1, <1>2, RequestTypes DEF Durable, KeyOf
  <2>2. KeyOf(p)' = KeyOf(p)
    BY <1>2 DEF KeyOf
  <2> QED
    BY <1>1, <1>2, <2>1, <2>2, ReceiptStays DEF Durable
<1>3. CASE phase[p] # "idle" /\ request'[p] = request[p]
  <2>1. request[p] \in Requests /\ KeyOf(p) \in CommandKey
    BY <1>3, Serving DEF IInv
  <2>2. KeyOf(p)' = KeyOf(p)
    BY <1>3 DEF KeyOf
  <2>3. CASE Replay(p)
    BY <1>1, <1>3, <2>1, <2>2, <2>3, ReplayAnswers DEF tables
  <2>4. CASE Commit(p)
    <3>1. CASE answer'[p] = answer[p]
      BY <1>2, <1>3, <3>1
    <3>2. CASE answer'[p] # answer[p]
      BY <1>3, <2>1, <2>2, <2>4, <3>2, CommitAnswers
    <3> QED
      BY <3>1, <3>2
  <2>5. CASE answer'[p].outcome # "Ok"
    BY <1>3, <2>1, <2>5
  <2> QED
    BY <1>1, <1>2, <1>3, <2>3, <2>4, <2>5, AnswerSteps
<1> QED
  BY <1>1, <1>2, <1>3, AnswerSteps

(***************************************************************************)
(* Success is durable, whatever happens to other calls meanwhile.          *)
(***************************************************************************)
THEOREM SuccessIsDurable == Spec => []OkIsDurable
<1>1. Init => \A p \in Calls : Durable(p)
  BY DEF Init, Durable
<1>2. IInv /\ (\A p \in Calls : Durable(p)) /\ [Next]_vars
        => (\A p \in Calls : Durable(p))'
  BY DurableStep
<1>3. (\A p \in Calls : Durable(p)) => OkIsDurable
  BY DEF Durable, OkIsDurable
<1> QED
  BY <1>1, <1>2, <1>3, Invariant, PTL DEF Spec

-----------------------------------------------------------------------------
(***************************************************************************)
(* A call that began with a receipt under its key never gets beyond the    *)
(* replay, and has the answer of that receipt or a failure.                *)
(***************************************************************************)
Retries(p) ==
    receipt_at_begin[p] # None =>
        /\ request[p] \in Requests
        /\ legal_hold_commands[KeyOf(p)] = receipt_at_begin[p]
        /\ phase[p] \in {"idle", "replay", "rollback"}
        /\ answer[p] # None =>
             \/ answer[p].outcome = "PluginFailure"
             \/ /\ answer[p].outcome = "Ok"
                /\ receipt_at_begin[p].hash = HashOf(request[p])
                /\ answer[p].view = receipt_at_begin[p].response
             \/ /\ answer[p].outcome = "IdempotencyConflict"
                /\ receipt_at_begin[p].hash # HashOf(request[p])

(***************************************************************************)
(* From the three phases of a retry a call gets to one of them, unless its *)
(* replay finds no receipt.                                                *)
(***************************************************************************)
LEMMA PhaseSteps ==
    ASSUME IInv, [Next]_vars, NEW q \in Calls,
           phase[q] \in {"idle", "replay", "rollback"}
    PROVE  \/ phase'[q] \in {"idle", "replay", "rollback"}
           \/ Replay(q)
<1>1. CASE UNCHANGED vars
  BY <1>1 DEF vars
<1>2. CASE Next
  <2> PICK p \in Calls :
        (\E r \in Requests : Begin(p, r)) \/ Statement(p) \/ Fail(p)
    BY <1>2 DEF Next
  <2>1. CASE q = p
    BY <2>1 DEF Begin, Statement, InsertHold, LockHold, ChangeScope, Release,
       AppendActivity, StoreCommand, Rollback, GiveUp, Commit, Fail,
       EndTransaction, IInv, TypeOK
  <2>2. CASE q # p
    BY <2>2 DEF Begin, Statement, Replay, AnswerFromReceipt, InsertHold,
       LockHold, ChangeScope, Release, AppendActivity, StoreCommand, Rollback,
       GiveUp, Commit, Fail, EndTransaction, IInv, TypeOK
  <2> QED
    BY <2>1, <2>2
<1> QED
  BY <1>1, <1>2

(***************************************************************************)
(* A step keeps the answers of retries replays: a call that began with a   *)
(* receipt never passes the replay.                                        *)
(***************************************************************************)
LEMMA RetryStep ==
    ASSUME IInv, \A q \in Calls : Retries(q), [Next]_vars, NEW p \in Calls
    PROVE  Retries(p)'
<1> DEFINE stored == receipt_at_begin[p]
<1>1. CASE /\ receipt_at_begin'[p] = stored /\ request'[p] = request[p]
           /\ stored # None
  <2>1. /\ request[p] \in Requests /\ KeyOf(p) \in CommandKey
        /\ legal_hold_commands[KeyOf(p)] = stored
        /\ phase[p] \in {"idle", "replay", "rollback"}
    BY <1>1, RequestTypes DEF Retries, KeyOf
  <2>2. KeyOf(p)' = KeyOf(p)
    BY <1>1 DEF KeyOf
  <2>3. legal_hold_commands'[KeyOf(p)'] = stored
    BY <1>1, <2>1, <2>2, ReceiptStays
  <2>4. CASE Replay(p)
    BY <1>1, <2>1, <2>3, <2>4, ReplayAnswers DEF Retries
  <2>5. CASE ~Replay(p)
    <3>1. phase'[p] \in {"idle", "replay", "rollback"}
      BY <2>1, <2>5, PhaseSteps
    <3>2. ~Commit(p)
      BY <2>1 DEF Commit
    <3>3. \/ answer'[p] = answer[p] \/ answer'[p] = None
          \/ answer'[p].outcome = "PluginFailure"
      BY <2>1, <2>5, <3>2, AnswerSteps
    <3> QED
      BY <1>1, <2>1, <2>3, <3>1, <3>3 DEF Retries
  <2> QED
    BY <2>4, <2>5
<1>2. CASE /\ answer'[p] = None /\ request'[p] \in Requests
           /\ receipt_at_begin'[p] = legal_hold_commands'[CommandKeyOf(request'[p])]
           /\ phase'[p] = "replay"
  BY <1>2 DEF Retries, KeyOf
<1>3. CASE receipt_at_begin'[p] = None
  BY <1>3 DEF Retries
<1> QED
  BY <1>1, <1>2, <1>3, AnswerSteps

(***************************************************************************)
(* A retry of a committed request is answered from its receipt, and never  *)
(* executes again.                                                         *)
(***************************************************************************)
THEOREM RetriesReplay == Spec => []RetryReplays
<1> DEFINE Inv == \A p \in Calls : Retries(p)
<1>1. Init => Inv
  BY DEF Init, Retries
<1>2. IInv /\ Inv /\ [Next]_vars => Inv'
  BY RetryStep
<1>3. Inv => RetryReplays
  BY DEF Retries, RetryReplays
<1> QED
  BY <1>1, <1>2, <1>3, Invariant, PTL DEF Spec

-----------------------------------------------------------------------------
(***************************************************************************)
(* A receipt names the organization that owns its hold.                    *)
(***************************************************************************)
Owned(k) ==
    LET c == legal_hold_commands[k] IN
    c # None =>
        /\ c.hash.hold \in Holds
        /\ legal_holds[c.hash.hold] # None
        /\ legal_holds[c.hash.hold].organization = c.hash.organization
        /\ c.response.row.organization = c.hash.organization

(***************************************************************************)
(* A commit keeps a hold in its organization, and gives a new one to the   *)
(* organization of its request.                                            *)
(***************************************************************************)
LEMMA CommitKeepsOrganization ==
    ASSUME IInv, NEW p \in Calls, Commit(p)
    PROVE  /\ legal_holds'[HoldOf(p)] # None
           /\ legal_holds'[HoldOf(p)].organization = request[p].organization
           /\ pending[p].row.organization = request[p].organization
           /\ legal_holds[HoldOf(p)] # None =>
                legal_holds[HoldOf(p)].organization = request[p].organization
<1>1. legal_holds'[HoldOf(p)] = pending[p].row /\ pending[p].row \in HoldRow
  BY CommitFinds DEF Commit, IInv, TypeOK, TablesTypeOK, Pending, HoldOf
<1>2. CASE request[p].op = "create_hold"
  <2>1. pending[p].row = NewRow(request[p]) /\ legal_holds[HoldOf(p)] = None
    BY <1>2, CommitFinds DEF RowAfter, Applicable, HoldOf, ScopeOperations
  <2> QED
    BY <1>1, <2>1, NoneAssumption DEF NewRow
<1>3. CASE request[p].op # "create_hold"
  <2>1. Visible(request[p])
    BY <1>3, CommitFinds DEF Applicable, Current
  <2>2. legal_holds[HoldOf(p)] \in HoldRow
    BY <2>1, CommitFinds DEF IInv, TypeOK, TablesTypeOK, Visible, HoldOf
  <2>3. pending[p].row.organization = legal_holds[HoldOf(p)].organization
    BY <1>3, <2>2, CommitFinds
    DEF RowAfter, ReleaseRow, AdvanceRow, HoldRow, HoldOf
  <2> QED
    BY <1>1, <2>1, <2>3, NoneAssumption DEF Visible, HoldOf
<1> QED
  BY <1>2, <1>3

(***************************************************************************)
(* A step keeps every receipt in the organization of its hold.             *)
(***************************************************************************)
LEMMA OwnedStep ==
    ASSUME IInv, \A k \in CommandKey : Owned(k), [Next]_vars,
           NEW j \in CommandKey
    PROVE  Owned(j)'
<1>1. CASE UNCHANGED tables
  BY <1>1 DEF Owned, tables
<1>2. CASE \E p \in Calls : Commit(p)
  <2> PICK p \in Calls : Commit(p)
    BY <1>2
  <2>1. CASE j = KeyOf(p)
    <3>1. legal_hold_commands'[j] =
            [hash |-> HashOf(request[p]), response |-> PendingView(p)]
      BY <2>1, CommitFinds DEF Commit, IInv, TypeOK, TablesTypeOK
    <3>2. /\ HashOf(request[p]).hold = HoldOf(p)
          /\ HashOf(request[p]).organization = request[p].organization
          /\ PendingView(p).row = pending[p].row
      BY DEF HashOf, HoldOf, PendingView, ViewOf
    <3> QED
      BY <3>1, <3>2, CommitFinds, CommitKeepsOrganization DEF Owned
  <2>2. CASE j # KeyOf(p)
    <3>1. /\ legal_hold_commands'[j] = legal_hold_commands[j]
          /\ \A h \in Holds : h # HoldOf(p) => legal_holds'[h] = legal_holds[h]
      BY <2>2 DEF Commit, IInv, TypeOK, TablesTypeOK, HoldOf
    <3> QED
      BY <3>1, CommitKeepsOrganization DEF Owned
  <2> QED
    BY <2>1, <2>2
<1> QED
  BY <1>1, <1>2, OnlyCommits

(***************************************************************************)
(* No caller is shown, and no receipt has changed, a hold of another       *)
(* organization than the one named.                                        *)
(***************************************************************************)
THEOREM OrganizationsStayIsolated == Spec => []OrganizationsIsolated
<1> DEFINE AllOwned == \A k \in CommandKey : Owned(k)
           Kept == \A p \in Calls : Durable(p)
<1>1. Init => AllOwned /\ Kept
  BY DEF Init, TablesEmpty, Owned, Durable
<1>2. IInv /\ AllOwned /\ [Next]_vars => AllOwned'
  BY OwnedStep
<1>3. IInv /\ Kept /\ [Next]_vars => Kept'
  BY DurableStep
<1>4. AllOwned /\ Kept => OrganizationsIsolated
  <2> SUFFICES ASSUME AllOwned, Kept PROVE OrganizationsIsolated
    OBVIOUS
  <2>1. ASSUME NEW p \in Calls, answer[p] # None, answer[p].outcome = "Ok"
        PROVE  answer[p].view.row.organization = request[p].organization
    <3>1. request[p] \in Requests /\ KeyOf(p) \in CommandKey
      BY <2>1, RequestTypes DEF Durable, KeyOf
    <3>2. HashOf(request[p]).organization = request[p].organization
      BY DEF HashOf
    <3> QED
      BY <2>1, <3>1, <3>2 DEF Durable, Owned
  <2> QED
    BY <2>1 DEF OrganizationsIsolated, Owned
<1> QED
  BY <1>1, <1>2, <1>3, <1>4, Invariant, PTL DEF Spec

-----------------------------------------------------------------------------
(***************************************************************************)
(* Call p waits for call q: for the row it is to lock or to insert, or for *)
(* the receipt key it is to insert under.  These are the statements whose  *)
(* guards a lock can make false.                                           *)
(***************************************************************************)
WaitsFor(p, q) ==
    \/ /\ phase[p] = "lock" /\ row_lock[HoldOf(p)] = q
       /\ IF request[p].op = "create_hold" THEN legal_holds[HoldOf(p)] = None
                                           ELSE Visible(request[p])
    \/ phase[p] = "store" /\ key_lock[KeyOf(p)] = q

(***************************************************************************)
(* Waiting is short: whoever is waited for is under way, and behind it is  *)
(* at most one other, which waits for nobody.                              *)
(***************************************************************************)
WaitsAreShort ==
    /\ \A p, q \in Calls : WaitsFor(p, q) => phase[q] # "idle"
    /\ \A p, q, r, s \in Calls :
         ~(WaitsFor(p, q) /\ WaitsFor(q, r) /\ WaitsFor(r, s))

SomeoneMoves ==
    \A p \in Calls : phase[p] # "idle" =>
        \E q \in Calls : phase[q] # "idle" /\ \A r \in Calls : ~WaitsFor(q, r)

(***************************************************************************)
(* What it rests on, the converse of LocksAreHeld: a lock is of the hold   *)
(* or the key of the transaction that has it, and is taken in one order,   *)
(* the row first.                                                          *)
(***************************************************************************)
HasLocks(p) ==
    /\ \A h \in Holds : row_lock[h] = p =>
         phase[p] \in Owning \cup {"rollback"} /\ HoldOf(p) = h
    /\ \A k \in CommandKey : key_lock[k] = p =>
         phase[p] \in Stored \cup {"rollback"} /\ KeyOf(p) = k

(***************************************************************************)
(* A call that leaves its locks as they are keeps to it as long as it does *)
(* not go back.                                                            *)
(***************************************************************************)
LEMMA SameLocks ==
    ASSUME NEW p \in Calls, HasLocks(p), UNCHANGED locks,
           request'[p] = request[p],
           phase[p] \in Owning \cup {"rollback"} =>
               phase'[p] \in Owning \cup {"rollback"},
           phase[p] \in Stored \cup {"rollback"} =>
               phase'[p] \in Stored \cup {"rollback"}
    PROVE  HasLocks(p)'
BY DEF HasLocks, locks, HoldOf, KeyOf

(***************************************************************************)
(* A call that takes no step has the locks it had, when none is given to   *)
(* it.                                                                     *)
(***************************************************************************)
LEMMA OthersLocks ==
    ASSUME NEW q \in Calls, HasLocks(q),
           phase'[q] = phase[q], request'[q] = request[q],
           \A h \in Holds : row_lock'[h] = q => row_lock[h] = q,
           \A k \in CommandKey : key_lock'[k] = q => key_lock[k] = q
    PROVE  HasLocks(q)'
BY DEF HasLocks, HoldOf, KeyOf

(***************************************************************************)
(* Every step keeps the locks with the calls that have them.               *)
(***************************************************************************)
LEMMA StepLocks ==
    ASSUME IInv, \A q \in Calls : HasLocks(q), NEW p \in Calls,
           (\E r \in Requests : Begin(p, r)) \/ Statement(p) \/ Fail(p)
    PROVE  \A q \in Calls : HasLocks(q)'
<1>1. TypeOK /\ HasLocks(p)
  BY DEF IInv
<1>2. CASE \E r \in Requests : Begin(p, r)
  <2>1. phase[p] = "idle" /\ UNCHANGED locks
        /\ \A q \in Calls \ {p} : phase'[q] = phase[q] /\ request'[q] = request[q]
    BY <1>1, <1>2 DEF Begin, TypeOK
  <2>2. /\ \A h \in Holds : row_lock'[h] # p
        /\ \A k \in CommandKey : key_lock'[k] # p
    BY <1>1, <2>1 DEF HasLocks, Owning, Stored, locks
  <2>3. HasLocks(p)'
    BY <2>2 DEF HasLocks
  <2>4. ASSUME NEW q \in Calls \ {p} PROVE HasLocks(q)'
    BY <2>1, <2>4, OthersLocks DEF locks
  <2> QED
    BY <2>3, <2>4
<1>3. ASSUME UNCHANGED <<locks, request>>,
             NEW next \in Phases \ {"idle"}, phase' = [phase EXCEPT ![p] = next],
             phase[p] \in Owning \cup {"rollback"} =>
                 next \in Owning \cup {"rollback"},
             phase[p] \in Stored \cup {"rollback"} =>
                 next \in Stored \cup {"rollback"}
      PROVE  \A q \in Calls : HasLocks(q)'
  <2>1. phase'[p] = next /\ request' = request /\ UNCHANGED locks
        /\ \A q \in Calls \ {p} : phase'[q] = phase[q]
    BY <1>1, <1>3 DEF TypeOK
  <2>2. HasLocks(p)'
    BY <1>1, <1>3, <2>1, SameLocks
  <2>3. ASSUME NEW q \in Calls \ {p} PROVE HasLocks(q)'
    BY <2>1, <2>3, OthersLocks DEF locks
  <2> QED
    BY <2>2, <2>3
<1>4. ASSUME EndTransaction(p), request' = request
      PROVE  \A q \in Calls : HasLocks(q)'
  <2>1. /\ \A h \in Holds :
             row_lock'[h] # p /\ (row_lock'[h] = row_lock[h] \/ row_lock'[h] = None)
        /\ \A k \in CommandKey :
             key_lock'[k] # p /\ (key_lock'[k] = key_lock[k] \/ key_lock'[k] = None)
    BY <1>1, <1>4, StorageAssumption DEF EndTransaction, Unlocked, TypeOK
  <2>2. \A q \in Calls \ {p} : phase'[q] = phase[q]
    BY <1>1, <1>4 DEF EndTransaction, TypeOK
  <2>3. HasLocks(p)'
    BY <2>1 DEF HasLocks
  <2>4. ASSUME NEW q \in Calls \ {p} PROVE HasLocks(q)'
    BY <1>4, <2>1, <2>2, <2>4, StorageAssumption, OthersLocks
  <2> QED
    BY <2>3, <2>4
<1>5. ASSUME phase[p] = "lock", request' = request, key_lock' = key_lock,
             row_lock' = [row_lock EXCEPT ![HoldOf(p)] = p],
             NEW next \in {"change", "append", "rollback"},
             phase' = [phase EXCEPT ![p] = next]
      PROVE  \A q \in Calls : HasLocks(q)'
  <2>1. phase'[p] = next /\ \A q \in Calls \ {p} : phase'[q] = phase[q]
    BY <1>1, <1>5 DEF TypeOK
  <2>2. /\ \A h \in Holds : row_lock'[h] = p => h = HoldOf(p)
        /\ \A k \in CommandKey : key_lock'[k] # p
    BY <1>1, <1>5 DEF HasLocks, Owning, Stored, TypeOK
  <2>3. HasLocks(p)'
    BY <1>5, <2>1, <2>2 DEF HasLocks, HoldOf, Owning
  <2>4. ASSUME NEW q \in Calls \ {p} PROVE HasLocks(q)'
    <3>1. \A h \in Holds : row_lock'[h] = q => row_lock[h] = q
      BY <1>1, <1>5, <2>4 DEF TypeOK
    <3> QED
      BY <1>5, <2>1, <2>4, <3>1, OthersLocks
  <2> QED
    BY <2>3, <2>4
<1>6. CASE Replay(p)
  BY <1>3, <1>6 DEF Replay, AnswerFromReceipt, GiveUp, Phases, Owning, Stored
<1>7. CASE InsertHold(p)
  <2>1. CASE legal_holds[HoldOf(p)] = None
    BY <1>5, <1>7, <2>1 DEF InsertHold
  <2>2. CASE legal_holds[HoldOf(p)] # None
    BY <1>3, <1>7, <2>2 DEF InsertHold, GiveUp, Phases, locks
  <2> QED
    BY <2>1, <2>2
<1>8. CASE LockHold(p)
  <2>1. CASE ~VisibleTo(legal_holds[HoldOf(p)], request[p])
    BY <1>3, <1>8, <2>1 DEF LockHold, GiveUp, Phases, locks
  <2>2. CASE VisibleTo(legal_holds[HoldOf(p)], request[p])
    BY <1>5, <1>8, <2>2 DEF LockHold, GiveUp
  <2> QED
    BY <2>1, <2>2
<1>9. CASE ChangeScope(p)
  BY <1>3, <1>9 DEF ChangeScope, GiveUp, Phases, Owning, Stored
<1>10. CASE Release(p)
  BY <1>3, <1>10 DEF Release, Phases, Owning, Stored
<1>11. CASE AppendActivity(p)
  BY <1>3, <1>11 DEF AppendActivity, GiveUp, Phases, Owning, Stored
<1>12. CASE StoreCommand(p)
  <2>1. CASE ~KeyUnused(KeyOf(p))
    BY <1>3, <1>12, <2>1 DEF StoreCommand, GiveUp, Phases, Owning, Stored, locks
  <2>2. CASE KeyUnused(KeyOf(p))
    <3>1. /\ phase[p] = "store" /\ row_lock' = row_lock /\ request' = request
          /\ key_lock' = [key_lock EXCEPT ![KeyOf(p)] = p]
          /\ phase'[p] = "commit" /\ \A q \in Calls \ {p} : phase'[q] = phase[q]
      BY <1>1, <1>12, <2>2 DEF StoreCommand, TypeOK
    <3>2. \A k \in CommandKey : key_lock'[k] = p => k = KeyOf(p)
      BY <1>1, <3>1 DEF HasLocks, Stored, TypeOK
    <3>3. HasLocks(p)'
      BY <1>1, <3>1, <3>2 DEF HasLocks, HoldOf, KeyOf, Owning, Stored
    <3>4. ASSUME NEW q \in Calls \ {p} PROVE HasLocks(q)'
      <4>1. \A k \in CommandKey : key_lock'[k] = q => key_lock[k] = q
        BY <1>1, <3>1, <3>4 DEF TypeOK
      <4> QED
        BY <3>1, <3>4, <4>1, OthersLocks
    <3> QED
      BY <3>3, <3>4
  <2> QED
    BY <2>1, <2>2
<1>13. CASE Commit(p) \/ Rollback(p)
  BY <1>4, <1>13 DEF Commit, Rollback
<1>14. CASE Fail(p)
  BY <1>3, <1>14 DEF Fail, GiveUp, Phases, Owning, Stored, InTransaction
<1> QED
  BY <1>2, <1>6, <1>7, <1>8, <1>9, <1>10, <1>11, <1>12, <1>13, <1>14
  DEF Statement

(***************************************************************************)
(* No circle of calls that wait for each other: rows are locked before     *)
(* keys and by transactions that wait for no other row, so of all calls    *)
(* under way one can always go on, and every lock is of a call that is     *)
(* under way (storage.rs:519-571, 633-647).                                *)
(***************************************************************************)
THEOREM NoCircularWait == Spec => [](WaitsAreShort /\ SomeoneMoves)
<1> DEFINE Held == \A p \in Calls : HasLocks(p)
<1>1. Init => Held
  BY StorageAssumption DEF Init, HasLocks
<1>2. IInv /\ Held /\ [Next]_vars => Held'
  <2> SUFFICES ASSUME IInv, Held, [Next]_vars PROVE Held'
    OBVIOUS
  <2>1. CASE Next
    BY <2>1, StepLocks DEF Next
  <2>2. CASE UNCHANGED vars
    BY <2>2 DEF vars, locks, HasLocks, HoldOf, KeyOf
  <2> QED
    BY <2>1, <2>2
<1>3. IInv /\ Held => WaitsAreShort /\ SomeoneMoves
  <2> SUFFICES ASSUME IInv, Held PROVE WaitsAreShort /\ SomeoneMoves
    OBVIOUS
  <2>1. ASSUME NEW p \in Calls, NEW q \in Calls, WaitsFor(p, q)
        PROVE  \/ phase[p] = "lock" /\ phase[q] \in Owning \cup {"rollback"}
               \/ phase[p] = "store" /\ phase[q] \in Stored \cup {"rollback"}
    <3>1. HoldOf(p) \in Holds /\ KeyOf(p) \in CommandKey
      BY <2>1, Serving DEF WaitsFor, IInv
    <3> QED
      BY <2>1, <3>1 DEF WaitsFor, HasLocks
  <2>2. ASSUME NEW p \in Calls, NEW q \in Calls, NEW r \in Calls,
               WaitsFor(p, q), WaitsFor(q, r)
        PROVE  phase[r] # "idle" /\ \A s \in Calls : ~WaitsFor(r, s)
    BY <2>1, <2>2 DEF Owning, Stored
  <2>3. WaitsAreShort
    BY <2>1, <2>2 DEF WaitsAreShort, Owning, Stored
  <2>4. ASSUME NEW p \in Calls, phase[p] # "idle"
        PROVE  \E q \in Calls : phase[q] # "idle" /\ \A r \in Calls : ~WaitsFor(q, r)
    BY <2>2, <2>3, <2>4 DEF WaitsAreShort
  <2> QED
    BY <2>3, <2>4 DEF SomeoneMoves
<1> QED
  BY <1>1, <1>2, <1>3, Invariant, PTL DEF Spec
=============================================================================
