-------------------------- MODULE HoldTablesProofs --------------------------
(***************************************************************************)
(* Proofs about the tables, whatever writes them: a mutation that takes    *)
(* effect as a whole, on a hold that allows it and with an activity id     *)
(* beyond the others of the hold, keeps the receipts one serial history    *)
(* and the activity its explanation, for any number of holds and requests. *)
(***************************************************************************)
EXTENDS HoldTables, FiniteSetTheorems, TLAPS

-----------------------------------------------------------------------------
(***************************************************************************)
(* Requests have keys, hashes, rows and activity of the right type.        *)
(***************************************************************************)
LEMMA RequestTypes ==
    ASSUME NEW r \in Requests
    PROVE  /\ r \in Request
           /\ r.hold \in Holds
           /\ CommandKeyOf(r) \in CommandKey
           /\ HashOf(r) \in RequestHash
           /\ NewRow(r) \in HoldRow
           /\ \A id \in Nat : ActivityOf(r, id) \in ActivityRow
<1>1. r \in Request
  BY RequestsAssumption
<1>2. ActivityKind(r.op) \in {"hold_created", "scope_added", "scope_removed",
                              "hold_released"}
  BY <1>1 DEF Request, Operations, ActivityKind
<1>3. CommandKeyOf(r) \in CommandKey /\ HashOf(r) \in RequestHash
  BY <1>1 DEF Request, CommandKeyOf, CommandKey, HashOf, RequestHash
<1>4. NewRow(r) \in HoldRow
  BY <1>1 DEF Request, NewRow, HoldRow
<1>5. \A id \in Nat : ActivityOf(r, id) \in ActivityRow
  BY <1>1, <1>2 DEF Request, ActivityOf, ActivityRow
<1> QED
  BY <1>1, <1>3, <1>4, <1>5 DEF Request

(***************************************************************************)
(* The changes of a row keep its type.                                     *)
(***************************************************************************)
LEMMA RowTypes ==
    ASSUME NEW row \in HoldRow, NEW r \in Request
    PROVE  AdvanceRow(row) \in HoldRow /\ ReleaseRow(r, row) \in HoldRow
<1>1. row.revision + 1 \in Nat \ {0}
  BY DEF HoldRow
<1>2. AdvanceRow(row) \in HoldRow
  BY <1>1 DEF HoldRow, AdvanceRow
<1>3. r.actor \in Actors /\ r.text \in Texts \cup {None}
  BY DEF Request
<1>4. ReleaseRow(r, row) \in HoldRow
  BY <1>1, <1>3 DEF HoldRow, ReleaseRow
<1> QED
  BY <1>2, <1>4

(***************************************************************************)
(* None is not an answer.                                                  *)
(***************************************************************************)
LEMMA AnswerTypes ==
    /\ \A f \in Failures : [outcome |-> f, view |-> None] \in Answer
    /\ \A v \in HoldView : [outcome |-> "Ok", view |-> v] \in Answer
    /\ \A a \in Answer : a # None
  BY NoneAssumption DEF Answer

(***************************************************************************)
(* The row, the scopes and the view a mutation leads to are of their       *)
(* types.                                                                  *)
(***************************************************************************)
LEMMA StateTypes ==
    ASSUME TablesTypeOK, NEW r \in Requests, Applicable(r)
    PROVE  /\ RowAfter(r) \in HoldRow
           /\ ScopeSetAfter(r) \in SUBSET Scope
           /\ ViewAfter(r) \in HoldView
<1>1. r \in Request /\ r.hold \in Holds
  BY RequestTypes
<1>2. RowAfter(r) \in HoldRow
  <2>1. CASE r.op = "create_hold"
    BY <2>1, RequestTypes DEF RowAfter
  <2>2. CASE r.op # "create_hold"
    <3>1. legal_holds[r.hold] \in HoldRow
      BY <1>1, <2>2 DEF Applicable, Current, Visible, TablesTypeOK
    <3> QED
      BY <1>1, <2>2, <3>1, RowTypes DEF RowAfter
  <2> QED
    BY <2>1, <2>2
<1>3. ScopeSetAfter(r) \in SUBSET Scope
  <2>1. legal_hold_scopes[r.hold] \in SUBSET Scope
    BY <1>1 DEF TablesTypeOK
  <2>2. CASE r.op \in ScopeOperations
    <3>1. r.scope \in Scope
      BY <2>2, RequestsAssumption
    <3> QED
      BY <2>1, <2>2, <3>1 DEF ScopeSetAfter, ScopesAfter, ScopeOperations
  <2> QED
    BY <2>1, <2>2 DEF ScopeSetAfter
<1> QED
  BY <1>1, <1>2, <1>3 DEF ViewAfter, ViewOf, HoldView

-----------------------------------------------------------------------------
(***************************************************************************)
(* A mutation that takes effect.                                           *)
(***************************************************************************)
TakesEffect(r, id) ==
    /\ Legal(r)
    /\ \A e \in legal_hold_activity : e.id # id /\ (e.hold = r.hold => e.id < id)
    /\ legal_holds' = [legal_holds EXCEPT ![r.hold] = RowAfter(r)]
    /\ legal_hold_scopes' = [legal_hold_scopes EXCEPT ![r.hold] = ScopeSetAfter(r)]
    /\ legal_hold_activity' = legal_hold_activity \cup {ActivityOf(r, id)}
    /\ legal_hold_commands' =
         [legal_hold_commands EXCEPT
            ![CommandKeyOf(r)] = [hash |-> HashOf(r), response |-> ViewAfter(r)]]

HistoryInv ==
    /\ TablesTypeOK
    /\ ScopesHaveAHold
    /\ OneReceiptPerRevision
    /\ ReceiptsFormSerialHistory
    /\ IsFiniteSet(legal_hold_activity)
    /\ \A h \in Holds : IsFiniteSet(legal_hold_scopes[h])
    /\ ActivityExplainsHold

(***************************************************************************)
(* The revision a mutation leads to.                                       *)
(***************************************************************************)
LEMMA RevisionAfter ==
    ASSUME TablesTypeOK, NEW r \in Requests, Applicable(r)
    PROVE  /\ legal_holds[r.hold] = None =>
                r.op = "create_hold" /\ RowAfter(r).revision = 1
           /\ legal_holds[r.hold] # None =>
                /\ r.op # "create_hold"
                /\ legal_holds[r.hold] \in HoldRow
                /\ Current(r)
                /\ RowAfter(r).revision = legal_holds[r.hold].revision + 1
<1>1. r \in Request /\ r.hold \in Holds
  BY RequestTypes
<1>2. CASE legal_holds[r.hold] = None
  <2>1. r.op = "create_hold"
    BY <1>2 DEF Applicable, Current, Visible
  <2> QED
    BY <1>2, <2>1 DEF RowAfter, NewRow
<1>3. CASE legal_holds[r.hold] # None
  <2>1. r.op # "create_hold" /\ Current(r) /\ legal_holds[r.hold] \in HoldRow
    BY <1>1, <1>3 DEF Applicable, TablesTypeOK, ScopeOperations
  <2>2. RowAfter(r).revision = legal_holds[r.hold].revision + 1
    BY <2>1 DEF RowAfter, AdvanceRow, ReleaseRow, HoldRow
  <2> QED
    BY <1>3, <2>1, <2>2
<1> QED
  BY <1>2, <1>3

(***************************************************************************)
(* What changes in the tables, and what does not.                          *)
(***************************************************************************)
LEMMA EffectOnTables ==
    ASSUME TablesTypeOK, NEW r \in Requests, NEW id \in Nat, TakesEffect(r, id)
    PROVE  /\ TablesTypeOK'
           /\ legal_holds'[r.hold] = RowAfter(r) /\ RowAfter(r) \in HoldRow
           /\ legal_hold_scopes'[r.hold] = ScopeSetAfter(r)
           /\ \A h \in Holds \ {r.hold} :
                /\ legal_holds'[h] = legal_holds[h]
                /\ legal_hold_scopes'[h] = legal_hold_scopes[h]
           /\ legal_hold_commands[CommandKeyOf(r)] = None
           /\ legal_hold_commands'[CommandKeyOf(r)] =
                [hash |-> HashOf(r), response |-> ViewAfter(r)]
           /\ legal_hold_commands'[CommandKeyOf(r)] # None
           /\ \A k \in CommandKey \ {CommandKeyOf(r)} :
                legal_hold_commands'[k] = legal_hold_commands[k]
<1> DEFINE c == [hash |-> HashOf(r), response |-> ViewAfter(r)]
<1>1. /\ r.hold \in Holds /\ CommandKeyOf(r) \in CommandKey
      /\ HashOf(r) \in RequestHash /\ ActivityOf(r, id) \in ActivityRow
  BY RequestTypes
<1>2. Applicable(r) /\ legal_hold_commands[CommandKeyOf(r)] = None
  BY DEF TakesEffect, Legal, ReceiptFor
<1>3. /\ RowAfter(r) \in HoldRow /\ ScopeSetAfter(r) \in SUBSET Scope
      /\ c \in Receipt
  BY <1>1, <1>2, StateTypes DEF Receipt
<1>4. c # None
  BY <1>3, NoneAssumption
<1> HIDE DEF c
<1>5. /\ legal_holds' = [legal_holds EXCEPT ![r.hold] = RowAfter(r)]
      /\ legal_hold_scopes' = [legal_hold_scopes EXCEPT ![r.hold] = ScopeSetAfter(r)]
      /\ legal_hold_activity' = legal_hold_activity \cup {ActivityOf(r, id)}
      /\ legal_hold_commands' = [legal_hold_commands EXCEPT ![CommandKeyOf(r)] = c]
  BY DEF TakesEffect, c
<1>6. TablesTypeOK'
  BY <1>1, <1>3, <1>5 DEF TablesTypeOK
<1> QED
  BY <1>1, <1>2, <1>3, <1>4, <1>5, <1>6 DEF TablesTypeOK, c

(***************************************************************************)
(* The receipts of a revision: the new one belongs to the new revision.    *)
(***************************************************************************)
LEMMA EffectOnReceipts ==
    ASSUME TablesTypeOK, NEW r \in Requests, NEW id \in Nat, TakesEffect(r, id),
           NEW h, NEW n
    PROVE  ReceiptsOf(h, n)' =
             IF h = r.hold /\ n = RowAfter(r).revision
             THEN ReceiptsOf(h, n) \cup {CommandKeyOf(r)}
             ELSE ReceiptsOf(h, n)
<1> DEFINE k0 == CommandKeyOf(r)
<1>1. k0 \in CommandKey
  BY RequestTypes
<1>2. /\ legal_hold_commands'[k0] # None
      /\ legal_hold_commands'[k0].response.hold = r.hold
      /\ legal_hold_commands'[k0].response.row.revision = RowAfter(r).revision
  <2>1. /\ legal_hold_commands'[k0] # None
        /\ legal_hold_commands'[k0] = [hash |-> HashOf(r), response |-> ViewAfter(r)]
    BY EffectOnTables
  <2>2. /\ ViewAfter(r).hold = r.hold
        /\ ViewAfter(r).row.revision = RowAfter(r).revision
    BY DEF ViewAfter, ViewOf
  <2> HIDE DEF k0
  <2> QED
    BY <2>1, <2>2
<1>3. /\ legal_hold_commands[k0] = None
      /\ \A k \in CommandKey \ {k0} :
           legal_hold_commands'[k] = legal_hold_commands[k]
  BY EffectOnTables
<1> HIDE DEF k0
<1>4. ASSUME NEW k \in CommandKey
      PROVE  k \in ReceiptsOf(h, n)' <=>
               \/ k \in ReceiptsOf(h, n)
               \/ k = k0 /\ h = r.hold /\ n = RowAfter(r).revision
  <2>1. CASE k = k0
    BY <1>2, <1>3, <2>1 DEF ReceiptsOf
  <2>2. CASE k # k0
    BY <1>3, <2>2 DEF ReceiptsOf
  <2> QED
    BY <2>1, <2>2
<1>5. ReceiptsOf(h, n) \subseteq CommandKey /\ ReceiptsOf(h, n)' \subseteq CommandKey
  BY DEF ReceiptsOf
<1> QED
  BY <1>1, <1>4, <1>5 DEF k0

-----------------------------------------------------------------------------
(***************************************************************************)
(* A receipt stands for a revision its hold has reached, so none is there  *)
(* for the next one, and none at all for a hold not yet created.           *)
(***************************************************************************)
LEMMA NextRevisionIsFree ==
    ASSUME TablesTypeOK, OneReceiptPerRevision, NEW r \in Requests, Applicable(r)
    PROVE  /\ ReceiptsOf(r.hold, RowAfter(r).revision) = {}
           /\ legal_holds[r.hold] = None => \A n : ReceiptsOf(r.hold, n) = {}
<1>1. r.hold \in Holds
  BY RequestTypes
<1>2. ASSUME NEW n, NEW k \in ReceiptsOf(r.hold, n)
      PROVE  legal_holds[r.hold] # None /\ n <= legal_holds[r.hold].revision
  BY <1>1, <1>2 DEF OneReceiptPerRevision, ReceiptsOf, Committed
<1>3. CASE legal_holds[r.hold] = None
  BY <1>2, <1>3
<1>4. CASE legal_holds[r.hold] # None
  <2>1. /\ RowAfter(r).revision = legal_holds[r.hold].revision + 1
        /\ legal_holds[r.hold] \in HoldRow
    BY <1>4, RevisionAfter
  <2>2. ~(RowAfter(r).revision <= legal_holds[r.hold].revision)
    BY <2>1 DEF HoldRow
  <2> QED
    BY <1>2, <1>4, <2>2
<1> QED
  BY <1>3, <1>4

(***************************************************************************)
(* Exactly once: the new revision has the new receipt alone, the others    *)
(* keep theirs.                                                            *)
(***************************************************************************)
LEMMA EffectKeepsOneReceipt ==
    ASSUME TablesTypeOK, OneReceiptPerRevision, NEW r \in Requests,
           NEW id \in Nat, TakesEffect(r, id)
    PROVE  OneReceiptPerRevision'
<1> DEFINE new == RowAfter(r).revision
<1>1. r.hold \in Holds /\ CommandKeyOf(r) \in CommandKey /\ Applicable(r)
  BY RequestTypes DEF TakesEffect, Legal
<1>2. ReceiptsOf(r.hold, new) = {}
  BY <1>1, NextRevisionIsFree
<1>3. /\ legal_holds'[r.hold].revision = new /\ new \in Nat \ {0}
      /\ legal_holds'[r.hold] # None
      /\ \A h \in Holds \ {r.hold} : legal_holds'[h] = legal_holds[h]
  BY EffectOnTables, NoneAssumption DEF HoldRow
<1>4. /\ legal_holds[r.hold] = None => new = 1
      /\ legal_holds[r.hold] # None =>
           /\ new = legal_holds[r.hold].revision + 1
           /\ legal_holds[r.hold].revision \in Nat \ {0}
  BY <1>1, RevisionAfter DEF HoldRow
<1> HIDE DEF new
<1>5. ASSUME NEW h \in Holds, NEW n
      PROVE  ReceiptsOf(h, n)' = IF h = r.hold /\ n = new
                                 THEN ReceiptsOf(h, n) \cup {CommandKeyOf(r)}
                                 ELSE ReceiptsOf(h, n)
  BY EffectOnReceipts DEF new
<1>6. ASSUME NEW h \in Holds, Committed(h)', NEW n \in 1..legal_holds'[h].revision
      PROVE  \E k \in CommandKey : ReceiptsOf(h, n)' = {k}
  <2>1. CASE h = r.hold /\ n = new
    BY <1>1, <1>2, <1>5, <2>1
  <2>2. CASE ~(h = r.hold /\ n = new)
    <3>1. Committed(h) /\ n \in 1..legal_holds[h].revision
      BY <1>3, <1>4, <1>6, <2>2 DEF Committed
    <3> QED
      BY <1>5, <2>2, <3>1 DEF OneReceiptPerRevision
  <2> QED
    BY <2>1, <2>2
<1>7. ASSUME NEW h \in Holds, NEW n, NEW k \in ReceiptsOf(h, n)'
      PROVE  legal_holds'[h] # None /\ n <= legal_holds'[h].revision
  <2>1. CASE h = r.hold /\ n = new
    BY <1>3, <2>1
  <2>2. CASE ~(h = r.hold /\ n = new)
    <3>1. k \in ReceiptsOf(h, n)
      BY <1>5, <1>7, <2>2
    <3>2. legal_holds[h] # None /\ n <= legal_holds[h].revision
      BY <3>1 DEF OneReceiptPerRevision, ReceiptsOf, Committed
    <3>3. legal_hold_commands[k] \in Receipt
      BY <3>1 DEF ReceiptsOf, TablesTypeOK
    <3>4. n \in Nat
      BY <3>1, <3>3 DEF ReceiptsOf, Receipt, HoldView, HoldRow
    <3> QED
      BY <1>3, <1>4, <3>2, <3>4
  <2> QED
    BY <2>1, <2>2
<1>8. ASSUME NEW h \in Holds, NEW k \in CommandKey, legal_hold_commands'[k] # None,
             legal_hold_commands'[k].response.hold = h
      PROVE  /\ legal_holds'[h] # None
             /\ legal_hold_commands'[k].response.row.revision
                  <= legal_holds'[h].revision
  <2>1. PICK n : n = legal_hold_commands'[k].response.row.revision
    OBVIOUS
  <2>2. k \in ReceiptsOf(h, n)'
    BY <1>8, <2>1 DEF ReceiptsOf
  <2> QED
    BY <1>7, <2>1, <2>2
<1> QED
  BY <1>6, <1>8 DEF OneReceiptPerRevision, Committed

(***************************************************************************)
(* The new receipt carries on from the view its predecessor returned,      *)
(* which is the committed state the mutation found.                        *)
(***************************************************************************)
LEMMA EffectFollows ==
    ASSUME TablesTypeOK, NEW r \in Requests, NEW id \in Nat, TakesEffect(r, id),
           legal_holds[r.hold] # None,
           NEW before,
           before = ViewOf(r.hold, legal_holds[r.hold], legal_hold_scopes[r.hold])
    PROVE  FollowsFrom(CommandKeyOf(r), before)'
<1> DEFINE row == legal_holds[r.hold]
           scopes == legal_hold_scopes[r.hold]
<1>1. /\ r \in Request /\ Applicable(r)
      /\ r.op # "create_hold" /\ row \in HoldRow /\ Current(r)
  BY RequestTypes, RevisionAfter DEF TakesEffect, Legal
<1>2. /\ legal_hold_commands'[CommandKeyOf(r)] =
           [hash |-> HashOf(r), response |-> ViewAfter(r)]
      /\ CommandKeyOf(r).op = r.op /\ CommandKeyOf(r).actor = r.actor
      /\ HashOf(r).expected = r.expected /\ HashOf(r).scope = r.scope
  BY EffectOnTables DEF CommandKeyOf, HashOf
<1>3. /\ before.row = row /\ before.scopes = scopes
      /\ row.status = "active" /\ row.revision = r.expected
  BY <1>1 DEF ViewOf, Current
<1>4. /\ ViewAfter(r).row = RowAfter(r)
      /\ ViewAfter(r).scopes = ScopeSetAfter(r)
  BY DEF ViewAfter, ViewOf
<1>5. /\ RowAfter(r).organization = row.organization
      /\ RowAfter(r).text = row.text
  BY <1>1 DEF RowAfter, AdvanceRow, ReleaseRow, HoldRow
<1>6. CASE r.op = "release_hold"
  <2>1. /\ RowAfter(r).status = "released"
        /\ RowAfter(r).released_by = r.actor
    BY <1>1, <1>6 DEF RowAfter, ReleaseRow, HoldRow
  <2>2. ScopeSetAfter(r) = scopes
    BY <1>6 DEF ScopeSetAfter, ScopeOperations
  <2> HIDE DEF row, scopes
  <2> QED
    BY <1>1, <1>2, <1>3, <1>4, <1>5, <1>6, <2>1, <2>2 DEF FollowsFrom
<1>7. CASE r.op # "release_hold"
  <2>1. r.op \in ScopeOperations /\ ScopeChanges(r.op, r.scope, scopes)
    BY <1>1, <1>7 DEF Applicable
  <2>2. RowAfter(r).status = "active"
    BY <1>1, <1>3, <1>7 DEF RowAfter, AdvanceRow, HoldRow
  <2>3. \/ /\ r.op = "add_scope" /\ r.scope \notin scopes
           /\ ScopeSetAfter(r) = scopes \cup {r.scope}
        \/ /\ r.op = "remove_scope" /\ r.scope \in scopes
           /\ ScopeSetAfter(r) = scopes \ {r.scope}
    BY <2>1 DEF ScopeOperations, ScopeChanges, ScopeSetAfter, ScopesAfter
  <2> HIDE DEF row, scopes
  <2> QED
    BY <1>1, <1>2, <1>3, <1>4, <1>5, <2>2, <2>3 DEF FollowsFrom
<1> QED
  BY <1>6, <1>7

(***************************************************************************)
(* Serial history: the new receipt ends the run its hold's receipts make,  *)
(* and the older ones keep theirs.                                         *)
(***************************************************************************)
LEMMA EffectKeepsHistory ==
    ASSUME TablesTypeOK, ScopesHaveAHold, OneReceiptPerRevision,
           ReceiptsFormSerialHistory,
           NEW r \in Requests, NEW id \in Nat, TakesEffect(r, id)
    PROVE  ReceiptsFormSerialHistory'
<1> DEFINE new == RowAfter(r).revision
           k0 == CommandKeyOf(r)
<1>1. r.hold \in Holds /\ k0 \in CommandKey /\ Applicable(r)
  BY RequestTypes DEF TakesEffect, Legal
<1>2. /\ legal_holds'[r.hold] = RowAfter(r) /\ new \in Nat \ {0}
      /\ legal_hold_scopes'[r.hold] = ScopeSetAfter(r)
      /\ legal_hold_commands'[k0].response = ViewAfter(r)
      /\ legal_hold_commands[k0] = None
      /\ \A h \in Holds \ {r.hold} : /\ legal_holds'[h] = legal_holds[h]
                                    /\ legal_hold_scopes'[h] = legal_hold_scopes[h]
      /\ \A k \in CommandKey \ {k0} :
           legal_hold_commands'[k] = legal_hold_commands[k]
  <2>1. new \in Nat \ {0}
    BY EffectOnTables DEF HoldRow
  <2>2. legal_hold_commands'[k0].response = ViewAfter(r)
    <3>1. legal_hold_commands'[k0] = [hash |-> HashOf(r), response |-> ViewAfter(r)]
      BY EffectOnTables
    <3> HIDE DEF k0
    <3> QED
      BY <3>1
  <2>3. /\ legal_holds'[r.hold] = RowAfter(r)
        /\ legal_hold_scopes'[r.hold] = ScopeSetAfter(r)
        /\ legal_hold_commands[k0] = None
        /\ \A h \in Holds \ {r.hold} :
             /\ legal_holds'[h] = legal_holds[h]
             /\ legal_hold_scopes'[h] = legal_hold_scopes[h]
        /\ \A k \in CommandKey \ {k0} :
             legal_hold_commands'[k] = legal_hold_commands[k]
    BY EffectOnTables
  <2> HIDE DEF new, k0
  <2> QED
    BY <2>1, <2>2, <2>3
<1>3. /\ legal_holds[r.hold] = None =>
           new = 1 /\ r.op = "create_hold" /\ \A n : ReceiptsOf(r.hold, n) = {}
      /\ legal_holds[r.hold] # None =>
           /\ new = legal_holds[r.hold].revision + 1
           /\ legal_holds[r.hold].revision \in Nat \ {0}
      /\ ReceiptsOf(r.hold, new) = {}
  BY <1>1, RevisionAfter, NextRevisionIsFree DEF HoldRow
<1>4. ASSUME NEW h \in Holds, NEW n
      PROVE  /\ h = r.hold /\ n = new => ReceiptsOf(h, n)' = {k0}
             /\ ~(h = r.hold /\ n = new) => ReceiptsOf(h, n)' = ReceiptsOf(h, n)
  BY <1>3, EffectOnReceipts
<1>5. \A h, n : \A k \in ReceiptsOf(h, n) :
        k \in CommandKey /\ k # k0 /\ legal_hold_commands'[k] = legal_hold_commands[k]
  BY <1>2 DEF ReceiptsOf
<1>6. CommandKeyOf(r).op = r.op
  BY DEF CommandKeyOf
<1>7. legal_holds[r.hold] = None => ViewAfter(r).scopes = {}
  BY <1>1, <1>3 DEF ScopesHaveAHold, ViewAfter, ViewOf, ScopeSetAfter,
                    ScopeOperations
<1>8. ViewAfter(r) = ViewOf(r.hold, RowAfter(r), ScopeSetAfter(r))
  BY DEF ViewAfter
<1>9. ASSUME NEW before, legal_holds[r.hold] # None,
             before = ViewOf(r.hold, legal_holds[r.hold], legal_hold_scopes[r.hold])
      PROVE  FollowsFrom(k0, before)'
  BY <1>9, EffectFollows
<1> HIDE DEF new, k0
<1>10. ASSUME NEW h \in Holds, Committed(h)', NEW k \in ReceiptsOf(h, 1)'
       PROVE  k.op = "create_hold" /\ legal_hold_commands'[k].response.scopes = {}
  <2>1. CASE h = r.hold /\ 1 = new
    BY <1>2, <1>3, <1>4, <1>6, <1>7, <1>10, <2>1 DEF k0
  <2>2. CASE ~(h = r.hold /\ 1 = new)
    <3>1. k \in ReceiptsOf(h, 1) /\ Committed(h)
      BY <1>2, <1>3, <1>4, <1>10, <2>2 DEF Committed
    <3> QED
      BY <1>5, <3>1 DEF ReceiptsFormSerialHistory
  <2> QED
    BY <2>1, <2>2
<1>11. ASSUME NEW h \in Holds, Committed(h)', NEW n \in 2..legal_holds'[h].revision,
              NEW k \in ReceiptsOf(h, n)', NEW j \in ReceiptsOf(h, n - 1)',
              NEW before, before = legal_hold_commands'[j].response
       PROVE  FollowsFrom(k, before)'
  <2>1. CASE h = r.hold /\ n = new
    <3>1. k = k0 /\ legal_holds[h] # None /\ n - 1 = legal_holds[h].revision
      BY <1>3, <1>4, <1>11, <2>1
    <3>2. j \in ReceiptsOf(h, n - 1)
      BY <1>4, <1>11, <2>1, <3>1
    <3>3. before = ViewOf(h, legal_holds[h], legal_hold_scopes[h])
      BY <1>5, <1>11, <3>1, <3>2 DEF ReceiptsFormSerialHistory, Committed
    <3> QED
      BY <1>9, <2>1, <3>1, <3>3
  <2>2. CASE ~(h = r.hold /\ n = new)
    <3>1. Committed(h) /\ n \in 2..legal_holds[h].revision
      BY <1>2, <1>3, <1>4, <1>11, <2>2 DEF Committed, new
    <3>2. k \in ReceiptsOf(h, n) /\ j \in ReceiptsOf(h, n - 1)
      BY <1>2, <1>3, <1>4, <1>11, <2>2, <3>1
    <3>3. FollowsFrom(k, before)
      BY <1>5, <1>11, <3>1, <3>2 DEF ReceiptsFormSerialHistory
    <3>4. legal_hold_commands'[k] = legal_hold_commands[k]
      BY <1>5, <3>2
    <3> QED
      BY <3>3, <3>4 DEF FollowsFrom
  <2> QED
    BY <2>1, <2>2
<1>12. ASSUME NEW h \in Holds, Committed(h)',
              NEW k \in ReceiptsOf(h, legal_holds[h].revision)'
       PROVE  legal_hold_commands'[k].response =
                ViewOf(h, legal_holds'[h], legal_hold_scopes'[h])
  <2>1. PICK n : n = legal_holds'[h].revision
    OBVIOUS
  <2>2. k \in ReceiptsOf(h, n)'
    BY <1>12, <2>1 DEF ReceiptsOf
  <2>3. CASE h = r.hold
    BY <1>2, <1>4, <1>8, <2>1, <2>2, <2>3 DEF new
  <2>4. CASE h # r.hold
    BY <1>2, <1>4, <1>5, <1>12, <2>1, <2>2, <2>4
       DEF ReceiptsFormSerialHistory, Committed
  <2> QED
    BY <2>3, <2>4
<1> QED
  BY <1>10, <1>11, <1>12 DEF ReceiptsFormSerialHistory

-----------------------------------------------------------------------------
(***************************************************************************)
(* The rank of the activity a mutation writes is the revision it leads to, *)
(* and the rank of an older row is what it was.                            *)
(***************************************************************************)
LEMMA EffectOnRanks ==
    ASSUME HistoryInv, NEW r \in Requests, NEW id \in Nat, TakesEffect(r, id)
    PROVE  /\ IsFiniteSet(legal_hold_activity)'
           /\ ActivityOf(r, id) \notin legal_hold_activity
           /\ ActivityOf(r, id).hold = r.hold
           /\ Cardinality(ActivityRowsOf(r.hold))' = RowAfter(r).revision
           /\ Rank(ActivityOf(r, id))' = RowAfter(r).revision
           /\ \A h \in Holds \ {r.hold} : ActivityRowsOf(h)' = ActivityRowsOf(h)
           /\ \A e \in legal_hold_activity : Rank(e)' = Rank(e)
<1> DEFINE e0 == ActivityOf(r, id)
           rows == ActivityRowsOf(r.hold)
<1>1. /\ r.hold \in Holds /\ Applicable(r) /\ e0.hold = r.hold /\ e0.id = id
  BY RequestTypes DEF TakesEffect, Legal, ActivityOf
<1>2. /\ \A e \in legal_hold_activity : e.id # id /\ (e.hold = r.hold => e.id < id)
      /\ legal_hold_activity' = legal_hold_activity \cup {e0}
  BY DEF TakesEffect
<1>3. \A e \in legal_hold_activity : e.id \in Nat /\ e.hold \in Holds
  BY DEF HistoryInv, TablesTypeOK, ActivityRow
<1> HIDE DEF e0
<1>4. e0 \notin legal_hold_activity
  BY <1>1, <1>2
<1>5. IsFiniteSet(legal_hold_activity)'
  BY <1>2, FS_AddElement DEF HistoryInv
<1>6. IsFiniteSet(rows) /\ rows \subseteq legal_hold_activity
  BY FS_Subset DEF HistoryInv, ActivityRowsOf
<1>7. ActivityRowsOf(r.hold)' = rows \cup {e0}
  BY <1>1, <1>2 DEF ActivityRowsOf
<1>8. Cardinality(rows) + 1 = RowAfter(r).revision
  <2>1. CASE legal_holds[r.hold] = None
    <3>1. rows = {}
      BY <2>1, <1>1, NextRevisionIsFree DEF HistoryInv, ActivityExplainsHold,
                                           ActivityRowsOf
    <3> QED
      BY <2>1, <3>1, <1>1, RevisionAfter, FS_EmptySet DEF HistoryInv
  <2>2. CASE legal_holds[r.hold] # None
    <3>1. Cardinality(rows) = legal_holds[r.hold].revision
      BY <1>1, <2>2 DEF HistoryInv, ActivityExplainsHold, Committed, ActivityRowsOf
    <3> QED
      BY <1>1, <2>2, <3>1, RevisionAfter DEF HistoryInv
  <2> QED
    BY <2>1, <2>2
<1>9. Cardinality(rows \cup {e0}) = Cardinality(rows) + 1
  BY <1>4, <1>6, FS_AddElement
<1>10. ASSUME NEW e, e = e0
       PROVE  Rank(e)' = RowAfter(r).revision
  <2>1. {f \in legal_hold_activity' : f.hold = e.hold /\ f.id <= e.id}
          = rows \cup {e0}
    BY <1>1, <1>2, <1>3, <1>10 DEF ActivityRowsOf
  <2> QED
    BY <1>8, <1>9, <2>1 DEF Rank
<1>11. ASSUME NEW h \in Holds \ {r.hold}
       PROVE  ActivityRowsOf(h)' = ActivityRowsOf(h)
  BY <1>1, <1>2 DEF ActivityRowsOf
<1>12. ASSUME NEW e \in legal_hold_activity
       PROVE  Rank(e)' = Rank(e)
  <2>1. ~(e0.hold = e.hold /\ e0.id <= e.id)
    BY <1>1, <1>2, <1>3
  <2>2. {f \in legal_hold_activity' : f.hold = e.hold /\ f.id <= e.id}
          = {f \in legal_hold_activity : f.hold = e.hold /\ f.id <= e.id}
    BY <1>2, <2>1
  <2> QED
    BY <2>2 DEF Rank
<1>13. Rank(e0)' = RowAfter(r).revision
  BY <1>10 DEF e0
<1> QED
  BY <1>1, <1>4, <1>5, <1>7, <1>8, <1>9, <1>11, <1>12, <1>13 DEF e0

(***************************************************************************)
(* The activity explains the hold: its new row stands at the new revision, *)
(* whose receipt is of the same change.                                    *)
(***************************************************************************)
LEMMA EffectKeepsActivity ==
    ASSUME HistoryInv, NEW r \in Requests, NEW id \in Nat, TakesEffect(r, id)
    PROVE  ActivityExplainsHold'
<1> DEFINE e0 == ActivityOf(r, id)
           k0 == CommandKeyOf(r)
           new == RowAfter(r).revision
<1>1. /\ r.hold \in Holds /\ Applicable(r) /\ TablesTypeOK
      /\ k0 \in CommandKey
  BY RequestTypes DEF TakesEffect, Legal, HistoryInv
<1>2. legal_hold_activity' = legal_hold_activity \cup {e0}
  BY DEF TakesEffect
<1>3. /\ Cardinality(ActivityRowsOf(r.hold))' = new
      /\ Rank(e0)' = new
      /\ \A h \in Holds \ {r.hold} : ActivityRowsOf(h)' = ActivityRowsOf(h)
      /\ \A e \in legal_hold_activity : Rank(e)' = Rank(e)
  BY EffectOnRanks
<1>4. /\ legal_holds'[r.hold] = RowAfter(r)
      /\ \A h \in Holds \ {r.hold} : legal_holds'[h] = legal_holds[h]
      /\ legal_hold_commands[k0] = None
      /\ \A k \in CommandKey \ {k0} :
           legal_hold_commands'[k] = legal_hold_commands[k]
  BY <1>1, EffectOnTables
<1>5. legal_hold_commands'[k0] = [hash |-> HashOf(r), response |-> ViewAfter(r)]
  BY <1>1, EffectOnTables
<1>6. /\ e0.hold = r.hold /\ e0.kind = ActivityKind(k0.op) /\ e0.actor = k0.actor
      /\ e0.scope = HashOf(r).scope /\ e0.organization = r.organization
  BY DEF ActivityOf, CommandKeyOf, HashOf
<1>7. /\ RowAfter(r).organization = r.organization
      /\ legal_holds[r.hold] # None =>
           RowAfter(r).organization = legal_holds[r.hold].organization
  <2>1. CASE legal_holds[r.hold] = None
    BY <1>1, <2>1, RevisionAfter DEF RowAfter, NewRow
  <2>2. CASE legal_holds[r.hold] # None
    BY <1>1, <2>2, RevisionAfter
       DEF RowAfter, AdvanceRow, ReleaseRow, HoldRow, Current, Visible
  <2> QED
    BY <2>1, <2>2
<1>8. ASSUME NEW h, NEW n
      PROVE  /\ ReceiptsOf(h, n) \subseteq ReceiptsOf(h, n)'
             /\ h = r.hold /\ n = new => k0 \in ReceiptsOf(h, n)'
  BY <1>1, EffectOnReceipts
<1>9. ASSUME NEW h \in Holds, Committed(h)'
      PROVE  Cardinality(ActivityRowsOf(h)') = legal_holds'[h].revision
  <2>1. CASE h = r.hold
    BY <1>3, <1>4, <2>1 DEF ActivityRowsOf
  <2>2. CASE h # r.hold
    BY <1>3, <1>4, <1>9, <2>2
       DEF HistoryInv, ActivityExplainsHold, Committed, ActivityRowsOf
  <2> QED
    BY <2>1, <2>2
<1> HIDE DEF new, k0, e0
<1>10. ASSUME NEW e \in legal_hold_activity
       PROVE  \E k \in ReceiptsOf(e.hold, Rank(e))' :
                 /\ e.kind = ActivityKind(k.op)
                 /\ e.actor = k.actor
                 /\ e.scope = legal_hold_commands'[k].hash.scope
                 /\ e.organization = legal_holds'[e.hold].organization
  <2>1. PICK n : n = Rank(e)
    OBVIOUS
  <2>2. PICK k \in ReceiptsOf(e.hold, n) :
             /\ e.kind = ActivityKind(k.op)
             /\ e.actor = k.actor
             /\ e.scope = legal_hold_commands[k].hash.scope
             /\ e.organization = legal_holds[e.hold].organization
    BY <2>1 DEF HistoryInv, ActivityExplainsHold
  <2>3. k \in ReceiptsOf(e.hold, n)' /\ Rank(e)' = n
    BY <1>3, <1>8, <2>1
  <2>4. k \in ReceiptsOf(e.hold, Rank(e))'
    BY <2>3 DEF ReceiptsOf
  <2>5. k \in CommandKey \ {k0} /\ e.hold \in Holds
    BY <1>4 DEF ReceiptsOf, HistoryInv, TablesTypeOK, ActivityRow
  <2>6. legal_holds[e.hold] # None
    BY <2>5 DEF ReceiptsOf, HistoryInv, OneReceiptPerRevision, Committed
  <2>7. legal_holds'[e.hold].organization = legal_holds[e.hold].organization
    BY <1>4, <1>7, <2>5, <2>6
  <2> QED
    BY <1>4, <2>2, <2>4, <2>5, <2>7
<1>11. ASSUME NEW e, e = e0
       PROVE  \E k \in ReceiptsOf(e.hold, Rank(e))' :
                 /\ e.kind = ActivityKind(k.op)
                 /\ e.actor = k.actor
                 /\ e.scope = legal_hold_commands'[k].hash.scope
                 /\ e.organization = legal_holds'[e.hold].organization
  <2>1. PICK n : n = new
    OBVIOUS
  <2>2. k0 \in ReceiptsOf(e.hold, n)' /\ Rank(e)' = n
    BY <1>3, <1>6, <1>8, <1>11, <2>1
  <2>3. k0 \in ReceiptsOf(e.hold, Rank(e))'
    BY <2>2 DEF ReceiptsOf
  <2> QED
    BY <1>4, <1>5, <1>6, <1>7, <1>11, <2>3
<1>12. \A e \in legal_hold_activity' : e \in legal_hold_activity \/ e = e0
  BY <1>2
<1> QED
  BY <1>9, <1>10, <1>11, <1>12 DEF ActivityExplainsHold, ActivityRowsOf

-----------------------------------------------------------------------------
(***************************************************************************)
(* The empty tables satisfy the history invariant.                         *)
(***************************************************************************)
LEMMA EmptyHistory == TablesEmpty => HistoryInv
<1> SUFFICES ASSUME TablesEmpty PROVE HistoryInv
  OBVIOUS
<1>1. /\ \A h \in Holds : legal_holds[h] = None /\ legal_hold_scopes[h] = {}
      /\ \A k \in CommandKey : legal_hold_commands[k] = None
      /\ legal_hold_activity = {}
  BY DEF TablesEmpty
<1>2. TablesTypeOK
  BY DEF TablesEmpty, TablesTypeOK
<1>3. ScopesHaveAHold /\ OneReceiptPerRevision /\ ReceiptsFormSerialHistory
  BY <1>1 DEF ScopesHaveAHold, OneReceiptPerRevision, ReceiptsFormSerialHistory,
              Committed
<1>4. /\ IsFiniteSet(legal_hold_activity) /\ ActivityExplainsHold
      /\ \A h \in Holds : IsFiniteSet(legal_hold_scopes[h])
  BY <1>1, FS_EmptySet DEF ActivityExplainsHold, Committed
<1> QED
  BY <1>2, <1>3, <1>4 DEF HistoryInv

(***************************************************************************)
(* A step that leaves the tables alone keeps their history.                *)
(***************************************************************************)
LEMMA QuietHistory ==
    ASSUME HistoryInv, UNCHANGED tables
    PROVE  HistoryInv'
<1>1. /\ legal_holds' = legal_holds /\ legal_hold_scopes' = legal_hold_scopes
      /\ legal_hold_commands' = legal_hold_commands
      /\ legal_hold_activity' = legal_hold_activity
  BY DEF tables
<1>2. /\ TablesTypeOK' /\ ScopesHaveAHold' /\ IsFiniteSet(legal_hold_activity)'
      /\ \A h \in Holds : IsFiniteSet(legal_hold_scopes'[h])
  BY <1>1 DEF HistoryInv, TablesTypeOK, ScopesHaveAHold
<1>3. ASSUME NEW h, NEW n
      PROVE  ReceiptsOf(h, n)' = ReceiptsOf(h, n)
  BY <1>1 DEF ReceiptsOf
<1>4. OneReceiptPerRevision'
  BY <1>1, <1>3 DEF HistoryInv, OneReceiptPerRevision, Committed
<1>5. ReceiptsFormSerialHistory'
  BY <1>1 DEF HistoryInv, ReceiptsFormSerialHistory, Committed, ReceiptsOf,
              FollowsFrom
<1>6. ActivityExplainsHold'
  BY <1>1 DEF HistoryInv, ActivityExplainsHold, Committed, ReceiptsOf, Rank
<1> QED
  BY <1>2, <1>4, <1>5, <1>6 DEF HistoryInv

(***************************************************************************)
(* A mutation that takes effect keeps the history.                         *)
(***************************************************************************)
LEMMA EffectKeepsInv ==
    ASSUME HistoryInv, NEW r \in Requests, NEW id \in Nat, TakesEffect(r, id)
    PROVE  HistoryInv'
<1>1. TablesTypeOK /\ ScopesHaveAHold /\ OneReceiptPerRevision
      /\ ReceiptsFormSerialHistory
  BY DEF HistoryInv
<1>2. ScopesHaveAHold'
  <2>1. /\ legal_holds'[r.hold] # None
        /\ \A h \in Holds \ {r.hold} :
             /\ legal_holds'[h] = legal_holds[h]
             /\ legal_hold_scopes'[h] = legal_hold_scopes[h]
    BY <1>1, EffectOnTables, NoneAssumption
  <2> QED
    BY <1>1, <2>1 DEF ScopesHaveAHold
<1>3. TablesTypeOK' /\ OneReceiptPerRevision' /\ ReceiptsFormSerialHistory'
  BY <1>1, EffectOnTables, EffectKeepsOneReceipt, EffectKeepsHistory
<1>4. IsFiniteSet(legal_hold_activity)' /\ ActivityExplainsHold'
  BY EffectOnRanks, EffectKeepsActivity
<1>5. ASSUME NEW h \in Holds
      PROVE  IsFiniteSet(legal_hold_scopes'[h])
  <2>1. IsFiniteSet(legal_hold_scopes[h])
    BY DEF HistoryInv
  <2>2. /\ IsFiniteSet(legal_hold_scopes[h] \cup {r.scope})
        /\ IsFiniteSet(legal_hold_scopes[h] \ {r.scope})
    BY <2>1, FS_AddElement, FS_RemoveElement
  <2>3. h = r.hold => legal_hold_scopes'[h] = ScopeSetAfter(r)
    BY <1>1, EffectOnTables
  <2>4. h # r.hold => legal_hold_scopes'[h] = legal_hold_scopes[h]
    BY <1>1, EffectOnTables
  <2>5. h = r.hold => ScopeSetAfter(r) \in {legal_hold_scopes[h],
                                          legal_hold_scopes[h] \cup {r.scope},
                                          legal_hold_scopes[h] \ {r.scope}}
    BY DEF ScopeSetAfter, ScopesAfter, ScopeOperations
  <2> QED
    BY <2>1, <2>2, <2>3, <2>4, <2>5
<1> QED
  BY <1>2, <1>3, <1>4, <1>5 DEF HistoryInv
=============================================================================
