-------------------------- MODULE HoldStoreProofs --------------------------
(***************************************************************************)
(* Proofs about the storage that others run beside: what one step of the   *)
(* ledger does to the tables and tells its callers, for any number of      *)
(* calls.                                                                  *)
(***************************************************************************)
EXTENDS HoldStore, HoldTablesProofs

-----------------------------------------------------------------------------
(***************************************************************************)
(* The ledger's data are the tables' data, and its types are these.        *)
(***************************************************************************)
LedgerTypes ==
    /\ TablesTypeOK
    /\ open \in [Calls -> BOOLEAN]
    /\ request \in [Calls -> Requests \cup {None}]
    /\ answer \in [Calls -> Answer \cup {None}]
    /\ \A p \in Calls : open[p] => request[p] \in Requests

(***************************************************************************)
(* The ledger states the same types.                                       *)
(***************************************************************************)
LEMMA LedgerTypesAgree == Ledger!TypeOK <=> LedgerTypes
BY DEF Ledger!TypeOK, LedgerTypes, Ledger!TablesTypeOK, TablesTypeOK,
   Ledger!HoldRow, HoldRow, Ledger!Scope, Scope, Ledger!CommandKey, CommandKey,
   Ledger!Receipt, Receipt, Ledger!RequestHash, RequestHash, Ledger!HoldView,
   HoldView, Ledger!ActivityRow, ActivityRow, Ledger!Operations, Operations,
   Ledger!Answer, Answer, Ledger!Failures, Failures, Ledger!DomainFailures,
   DomainFailures

(***************************************************************************)
(* What the ledger says of a request is what the tables say of it.         *)
(***************************************************************************)
LEMMA SameData ==
    ASSUME NEW r
    PROVE  /\ Ledger!CommandKeyOf(r) = CommandKeyOf(r)
           /\ Ledger!HashOf(r) = HashOf(r)
           /\ \A id : Ledger!ActivityOf(r, id) = ActivityOf(r, id)
           /\ Ledger!ReceiptFor(r) = ReceiptFor(r)
           /\ Ledger!Applicable(r) <=> Applicable(r)
           /\ Ledger!Legal(r) <=> Legal(r)
           /\ Ledger!RowAfter(r) = RowAfter(r)
           /\ Ledger!ScopeSetAfter(r) = ScopeSetAfter(r)
           /\ Ledger!ViewAfter(r) = ViewAfter(r)
<1>1. /\ Ledger!CommandKeyOf(r) = CommandKeyOf(r)
      /\ Ledger!HashOf(r) = HashOf(r)
  BY DEF Ledger!CommandKeyOf, CommandKeyOf, Ledger!HashOf, HashOf
<1>2. ASSUME NEW id PROVE Ledger!ActivityOf(r, id) = ActivityOf(r, id)
  BY DEF Ledger!ActivityOf, ActivityOf, Ledger!ActivityKind, ActivityKind
<1>3. Ledger!ReceiptFor(r) = ReceiptFor(r)
  BY <1>1 DEF Ledger!ReceiptFor, ReceiptFor
<1>4. Ledger!Applicable(r) <=> Applicable(r)
  BY DEF Ledger!Applicable, Applicable, Ledger!ScopeOperations,
     ScopeOperations, Ledger!ScopeChanges, ScopeChanges, Ledger!Visible, Visible,
     Ledger!Current, Current
<1>5. Ledger!Legal(r) <=> Legal(r)
  BY <1>3, <1>4 DEF Ledger!Legal, Legal
<1>6. Ledger!RowAfter(r) = RowAfter(r)
  BY DEF Ledger!RowAfter, RowAfter, Ledger!NewRow, NewRow, Ledger!AdvanceRow,
     AdvanceRow, Ledger!ReleaseRow, ReleaseRow
<1>7. Ledger!ScopeSetAfter(r) = ScopeSetAfter(r)
  BY DEF Ledger!ScopeSetAfter, ScopeSetAfter, Ledger!ScopeOperations,
     ScopeOperations, Ledger!ScopesAfter, ScopesAfter
<1>8. Ledger!ViewAfter(r) = ViewAfter(r)
  BY <1>6, <1>7 DEF Ledger!ViewAfter, ViewAfter, Ledger!ViewOf, ViewOf
<1> QED
  BY <1>1, <1>2, <1>3, <1>4, <1>5, <1>6, <1>7, <1>8

(***************************************************************************)
(* A receipt that says what the caller of request r was told.              *)
(***************************************************************************)
Receipted(r, view) ==
    LET c == ReceiptFor(r) IN
    c # None /\ c.hash = HashOf(r) /\ c.response = view

CommandsStay ==
    \A k \in CommandKey :
        legal_hold_commands[k] # None =>
            legal_hold_commands'[k] = legal_hold_commands[k]

(***************************************************************************)
(* What a receipt says stays so while receipts stay.                       *)
(***************************************************************************)
LEMMA ReceiptsStay ==
    ASSUME CommandsStay, NEW r \in Requests, NEW view, Receipted(r, view)
    PROVE  Receipted(r, view)'
<1>1. CommandKeyOf(r) \in CommandKey
  BY RequestTypes
<1>2. ReceiptFor(r)' = ReceiptFor(r)
  BY <1>1 DEF CommandsStay, Receipted, ReceiptFor
<1> QED
  BY <1>2 DEF Receipted

-----------------------------------------------------------------------------
(***************************************************************************)
(* One step of the ledger, seen from its callers: it serves one open call  *)
(* and tells it, once, a success with a receipt, a refusal that ends the   *)
(* call and changes nothing, or a failure that says nothing.               *)
(***************************************************************************)
AnswerIsTrue(p) ==
    \/ answer'[p].outcome = "Ok" /\ Receipted(request[p], answer[p].view)'
    \/ /\ answer'[p].outcome \in DomainFailures
       /\ ~open'[p] /\ UNCHANGED tables
    \/ answer'[p].outcome = "PluginFailure"

Served(p) ==
    /\ open[p] /\ request' = request
    /\ CommandsStay
    /\ \A q \in Calls \ {p} : open'[q] = open[q] /\ answer'[q] = answer[q]
    /\ answer[p] # None => answer'[p] = answer[p]
    /\ answer[p] = None => answer'[p] # None /\ AnswerIsTrue(p)

(***************************************************************************)
(* Telling call p its outcome, and closing it or not.                      *)
(***************************************************************************)
LEMMA TellKeepsTypes ==
    ASSUME LedgerTypes, NEW p \in Calls, NEW x \in BOOLEAN, open[p],
           open' = [open EXCEPT ![p] = x], request' = request,
           NEW o, NEW v, [outcome |-> o, view |-> v] \in Answer,
           Ledger!Tell(p, o, v), TablesTypeOK'
    PROVE  /\ LedgerTypes'
           /\ answer'[p] = [outcome |-> o, view |-> v]
           /\ answer'[p] # None
           /\ \A q \in Calls \ {p} : open'[q] = open[q] /\ answer'[q] = answer[q]
           /\ open'[p] = x
<1>1. answer' = [answer EXCEPT ![p] = [outcome |-> o, view |-> v]]
  BY DEF Ledger!Tell
<1>2. answer \in [Calls -> Answer \cup {None}] /\ open \in [Calls -> BOOLEAN]
  BY DEF LedgerTypes
<1>3. open' \in [Calls -> BOOLEAN] /\ answer' \in [Calls -> Answer \cup {None}]
  BY <1>1, <1>2
<1>4. \A q \in Calls : open'[q] => request'[q] \in Requests
  BY <1>2 DEF LedgerTypes
<1>5. answer'[p] = [outcome |-> o, view |-> v] /\ answer'[p] # None
  BY <1>1, <1>2, AnswerTypes
<1> QED
  BY <1>1, <1>2, <1>3, <1>4, <1>5 DEF LedgerTypes

(***************************************************************************)
(* A mutation that is applied serves its call: whoever is told of it is    *)
(* told what its new receipt says.                                         *)
(***************************************************************************)
LEMMA ApplyServes ==
    ASSUME LedgerTypes, NEW p \in Calls, NEW id \in ActivityIds, Ledger!Apply(p, id)
    PROVE  LedgerTypes' /\ Served(p)
<1> DEFINE r == request[p]
           c == [hash |-> HashOf(r), response |-> ViewAfter(r)]
<1>1. r \in Requests /\ open[p] /\ r.hold \in Holds /\ CommandKeyOf(r) \in CommandKey
  BY RequestTypes DEF LedgerTypes, Ledger!Apply
<1>2. Applicable(r) /\ ReceiptFor(r) = None
  BY SameData DEF Ledger!Apply, Legal
<1>3. /\ RowAfter(r) \in HoldRow /\ ScopeSetAfter(r) \in SUBSET Scope
      /\ ViewAfter(r) \in HoldView /\ c \in Receipt
  <2>1. RowAfter(r) \in HoldRow /\ ScopeSetAfter(r) \in SUBSET Scope
        /\ ViewAfter(r) \in HoldView
    BY <1>1, <1>2, StateTypes DEF LedgerTypes
  <2> QED
    BY <1>1, <2>1, RequestTypes DEF Receipt
<1>4. /\ legal_holds' = [legal_holds EXCEPT ![r.hold] = RowAfter(r)]
      /\ legal_hold_scopes' = [legal_hold_scopes EXCEPT ![r.hold] = ScopeSetAfter(r)]
      /\ legal_hold_activity' = legal_hold_activity \cup {ActivityOf(r, id)}
      /\ legal_hold_commands' = [legal_hold_commands EXCEPT ![CommandKeyOf(r)] = c]
  BY SameData DEF Ledger!Apply
<1>5. id \in Nat /\ ActivityOf(r, id) \in ActivityRow
  BY <1>1, StoreAssumption, RequestTypes
<1>6. TablesTypeOK'
  BY <1>1, <1>3, <1>4, <1>5 DEF LedgerTypes, TablesTypeOK
<1>7. CommandsStay
  BY <1>1, <1>2, <1>4 DEF CommandsStay, ReceiptFor, LedgerTypes, TablesTypeOK
<1>8. request' = request /\ open' = [open EXCEPT ![p] = FALSE]
  BY DEF Ledger!Apply
<1>9. CASE answer[p] = None
  <2>1. Ledger!Tell(p, "Ok", ViewAfter(r))
    BY <1>9, SameData DEF Ledger!Apply
  <2>2. [outcome |-> "Ok", view |-> ViewAfter(r)] \in Answer
    BY <1>3, AnswerTypes
  <2>3. /\ LedgerTypes'
        /\ answer'[p] = [outcome |-> "Ok", view |-> ViewAfter(r)]
        /\ answer'[p] # None
        /\ \A q \in Calls \ {p} : open'[q] = open[q] /\ answer'[q] = answer[q]
    BY <1>1, <1>6, <1>8, <2>1, <2>2, TellKeepsTypes
  <2>4. legal_hold_commands'[CommandKeyOf(r)] = c /\ c # None
    BY <1>1, <1>3, <1>4, NoneAssumption DEF LedgerTypes, TablesTypeOK
  <2>5. Receipted(request[p], answer[p].view)'
    BY <1>8, <2>3, <2>4 DEF Receipted, ReceiptFor
  <2> QED
    BY <1>1, <1>7, <1>8, <1>9, <2>3, <2>5 DEF Served, AnswerIsTrue
<1>10. CASE answer[p] # None
  <2>1. answer' = answer
    BY <1>10 DEF Ledger!Apply
  <2>2. LedgerTypes'
    BY <1>6, <1>8, <2>1 DEF LedgerTypes
  <2> QED
    BY <1>1, <1>7, <1>8, <1>10, <2>1, <2>2 DEF Served, LedgerTypes
<1> QED
  BY <1>9, <1>10

(***************************************************************************)
(* Every other step of the ledger serves its call and changes no table.    *)
(***************************************************************************)
LEMMA OtherStepsServe ==
    ASSUME LedgerTypes, NEW p \in Calls,
           \/ Ledger!Replayed(p)
           \/ \E failure \in DomainFailures : Ledger!Refuse(p, failure)
           \/ Ledger!Fail(p)
           \/ Ledger!Abandon(p)
    PROVE  LedgerTypes' /\ Served(p) /\ UNCHANGED tables
<1>1. open[p] /\ request[p] \in Requests /\ request' = request
      /\ UNCHANGED tables
  BY DEF LedgerTypes, Ledger!Replayed, Ledger!Refuse, Ledger!Fail, Ledger!Abandon,
     Ledger!tables, tables
<1>2. TablesTypeOK' /\ CommandsStay
  BY <1>1 DEF LedgerTypes, TablesTypeOK, tables, CommandsStay
<1>3. CASE Ledger!Replayed(p)
  <2> DEFINE c == ReceiptFor(request[p])
  <2>1. /\ answer[p] = None /\ c # None /\ c.hash = HashOf(request[p])
        /\ Ledger!Tell(p, "Ok", c.response)
        /\ open' = [open EXCEPT ![p] = FALSE]
    BY <1>3, SameData DEF Ledger!Replayed
  <2>2. c \in Receipt
    BY <1>1, <2>1, RequestTypes DEF LedgerTypes, TablesTypeOK, ReceiptFor
  <2>3. [outcome |-> "Ok", view |-> c.response] \in Answer
    BY <2>2, AnswerTypes DEF Receipt
  <2>4. /\ LedgerTypes'
        /\ answer'[p] = [outcome |-> "Ok", view |-> c.response]
        /\ answer'[p] # None
        /\ \A q \in Calls \ {p} : open'[q] = open[q] /\ answer'[q] = answer[q]
    BY <1>1, <1>2, <2>1, <2>3, TellKeepsTypes
  <2>5. ReceiptFor(request[p])' = c
    BY <1>1 DEF ReceiptFor, tables
  <2>6. Receipted(request[p], answer[p].view)'
    BY <1>1, <2>1, <2>4, <2>5 DEF Receipted
  <2> QED
    BY <1>1, <1>2, <2>1, <2>4, <2>6 DEF Served, AnswerIsTrue
<1>4. ASSUME NEW failure \in DomainFailures, Ledger!Refuse(p, failure)
      PROVE  LedgerTypes' /\ Served(p)
  <2>1. /\ answer[p] = None /\ Ledger!Tell(p, failure, None)
        /\ open' = [open EXCEPT ![p] = FALSE]
    BY <1>4 DEF Ledger!Refuse
  <2>2. [outcome |-> failure, view |-> None] \in Answer
    BY AnswerTypes DEF Failures
  <2>3. /\ LedgerTypes'
        /\ answer'[p] = [outcome |-> failure, view |-> None]
        /\ answer'[p] # None /\ ~open'[p]
        /\ \A q \in Calls \ {p} : open'[q] = open[q] /\ answer'[q] = answer[q]
    BY <1>1, <1>2, <2>1, <2>2, TellKeepsTypes
  <2> QED
    BY <1>1, <1>2, <2>1, <2>3 DEF Served, AnswerIsTrue
<1>5. CASE Ledger!Fail(p)
  <2>1. /\ answer[p] = None /\ Ledger!Tell(p, "PluginFailure", None)
        /\ \E x \in BOOLEAN : open' = [open EXCEPT ![p] = x]
    BY <1>1, <1>5 DEF Ledger!Fail, LedgerTypes
  <2>2. [outcome |-> "PluginFailure", view |-> None] \in Answer
    BY AnswerTypes DEF Failures
  <2>3. /\ LedgerTypes'
        /\ answer'[p] = [outcome |-> "PluginFailure", view |-> None]
        /\ answer'[p] # None
        /\ \A q \in Calls \ {p} : open'[q] = open[q] /\ answer'[q] = answer[q]
    BY <1>1, <1>2, <2>1, <2>2, TellKeepsTypes
  <2> QED
    BY <1>1, <1>2, <2>1, <2>3 DEF Served, AnswerIsTrue
<1>6. CASE Ledger!Abandon(p)
  <2>1. answer[p] # None /\ answer' = answer /\ open' = [open EXCEPT ![p] = FALSE]
    BY <1>6 DEF Ledger!Abandon
  <2>2. LedgerTypes'
    BY <1>1, <1>2, <2>1 DEF LedgerTypes
  <2> QED
    BY <1>1, <1>2, <2>1, <2>2 DEF Served, LedgerTypes
<1> QED
  BY <1>1, <1>3, <1>4, <1>5, <1>6

(***************************************************************************)
(* Every step of the ledger serves its call.                               *)
(***************************************************************************)
LEMMA StepServes ==
    ASSUME LedgerTypes, NEW p \in Calls, Ledger!Step(p)
    PROVE  LedgerTypes' /\ Served(p)
BY ApplyServes, OtherStepsServe
   DEF Ledger!Step, Ledger!DomainFailures, DomainFailures

(***************************************************************************)
(* It changes the tables by a mutation that takes effect, or not at all.   *)
(***************************************************************************)
LEMMA StepTakesEffect ==
    ASSUME LedgerTypes, NEW p \in Calls, Ledger!Step(p)
    PROVE  UNCHANGED tables \/ \E r \in Requests, id \in Nat : TakesEffect(r, id)
<1>1. ASSUME NEW id \in ActivityIds, Ledger!Apply(p, id)
      PROVE  \E r \in Requests, i \in Nat : TakesEffect(r, i)
  <2>1. PICK r \in Requests : r = request[p]
    BY <1>1 DEF LedgerTypes, Ledger!Apply
  <2>2. id \in Nat
    BY StoreAssumption
  <2>3. TakesEffect(r, id)
    BY <1>1, <2>1, SameData DEF Ledger!Apply, TakesEffect
  <2> QED
    BY <2>2, <2>3
<1> QED
  BY <1>1, OtherStepsServe
     DEF Ledger!Step, Ledger!DomainFailures, DomainFailures

(***************************************************************************)
(* A creation is refused for an idempotency conflict only.                 *)
(***************************************************************************)
LEMMA CreationRefused ==
    ASSUME LedgerTypes, NEW p \in Calls, Ledger!Step(p),
           request[p].op = "create_hold", answer[p] = None
    PROVE  answer'[p].outcome \in {"Ok", "IdempotencyConflict", "PluginFailure"}
<1>1. ASSUME NEW o, NEW v, Ledger!Tell(p, o, v)
      PROVE  answer'[p].outcome = o
  BY <1>1 DEF Ledger!Tell, LedgerTypes
<1>2. ASSUME NEW failure, Ledger!Refuse(p, failure)
      PROVE  failure = "IdempotencyConflict"
  BY <1>2 DEF Ledger!Refuse, Ledger!Justified
<1> QED
  BY <1>1, <1>2 DEF Ledger!Step, Ledger!Apply, Ledger!Replayed, Ledger!Refuse,
                    Ledger!Fail, Ledger!Abandon

(***************************************************************************)
(* A call that begins keeps the types, and the tables.                     *)
(***************************************************************************)
LEMMA BeginKeepsTypes ==
    ASSUME LedgerTypes, NEW p \in Calls, NEW r \in Requests, Ledger!Begin(p, r)
    PROVE  /\ LedgerTypes' /\ UNCHANGED tables
           /\ open'[p] /\ request'[p] = r /\ answer'[p] = None
           /\ \A q \in Calls \ {p} :
                open'[q] = open[q] /\ request'[q] = request[q] /\ answer'[q] = answer[q]
<1>1. UNCHANGED tables
  BY DEF Ledger!Begin, Ledger!tables, tables
<1>2. TablesTypeOK'
  BY <1>1 DEF LedgerTypes, TablesTypeOK, tables
<1> QED
  BY <1>1, <1>2 DEF LedgerTypes, Ledger!Begin

(***************************************************************************)
(* The ledger starts with its types and empty tables.                      *)
(***************************************************************************)
LEMMA LedgerStarts == Ledger!Init => LedgerTypes /\ TablesEmpty
<1> SUFFICES ASSUME Ledger!Init PROVE LedgerTypes /\ TablesEmpty
  OBVIOUS
<1>1. TablesEmpty
  BY DEF Ledger!Init, Ledger!TablesEmpty, TablesEmpty, Ledger!CommandKey, CommandKey,
     Ledger!Operations, Operations
<1> QED
  BY <1>1 DEF Ledger!Init, LedgerTypes, TablesTypeOK, TablesEmpty

-----------------------------------------------------------------------------
(***************************************************************************)
(* A step of the ledger keeps its types, and changes the tables by a       *)
(* mutation that takes effect or not at all.                               *)
(***************************************************************************)
LEMMA StepOfLedger ==
    ASSUME LedgerTypes, Ledger!Next
    PROVE  /\ LedgerTypes'
           /\ UNCHANGED tables \/ \E r \in Requests, id \in Nat : TakesEffect(r, id)
<1>1. PICK p \in Calls : (\E r \in Requests : Ledger!Begin(p, r)) \/ Ledger!Step(p)
  BY DEF Ledger!Next
<1> QED
  BY <1>1, BeginKeepsTypes, StepServes, StepTakesEffect

(***************************************************************************)
(* So does one that stutters.                                              *)
(***************************************************************************)
LEMMA LedgerMoves ==
    ASSUME LedgerTypes, [Ledger!Next]_(Ledger!vars)
    PROVE  /\ LedgerTypes'
           /\ UNCHANGED tables \/ \E r \in Requests, id \in Nat : TakesEffect(r, id)
<1>1. CASE Ledger!Next
  BY <1>1, StepOfLedger
<1>2. CASE UNCHANGED Ledger!vars
  <2>1. UNCHANGED ledgerVars
    BY <1>2 DEF Ledger!vars, Ledger!tables, ledgerVars, tables
  <2> QED
    BY <2>1 DEF LedgerTypes, TablesTypeOK, ledgerVars, tables
<1> QED
  BY <1>1, <1>2

(***************************************************************************)
(* Whoever keeps to the ledger has tables with a history: the receipts of  *)
(* a hold are one serial run of the operations, one receipt a revision,    *)
(* and its activity explains it (storage.rs:97-358).                       *)
(***************************************************************************)
THEOREM LedgerHistory == Ledger!Spec => [](LedgerTypes /\ HistoryInv)
<1>1. Ledger!Init => LedgerTypes /\ HistoryInv
  BY LedgerStarts, EmptyHistory
<1>2. LedgerTypes /\ HistoryInv /\ [Ledger!Next]_(Ledger!vars)
        => (LedgerTypes /\ HistoryInv)'
  BY LedgerMoves, QuietHistory, EffectKeepsInv
<1> QED
  BY <1>1, <1>2, PTL DEF Ledger!Spec

(***************************************************************************)
(* What a mutation that takes effect leaves alone: every receipt, every    *)
(* released hold, and the order of the activity of its hold.               *)
(***************************************************************************)
LEMMA EffectSpares ==
    ASSUME TablesTypeOK, NEW r \in Requests, NEW id \in Nat, TakesEffect(r, id)
    PROVE  /\ CommandsStay
           /\ \A h \in Holds :
                Committed(h) /\ legal_holds[h].status = "released" =>
                  /\ legal_holds'[h] = legal_holds[h]
                  /\ legal_hold_scopes'[h] = legal_hold_scopes[h]
                  /\ ActivityRowsOf(h)' = ActivityRowsOf(h)
           /\ \A e \in legal_hold_activity' \ legal_hold_activity :
                \A f \in ActivityRowsOf(e.hold) : f.id < e.id
<1>1. /\ \A h \in Holds \ {r.hold} :
           /\ legal_holds'[h] = legal_holds[h]
           /\ legal_hold_scopes'[h] = legal_hold_scopes[h]
      /\ legal_hold_commands[CommandKeyOf(r)] = None
      /\ \A k \in CommandKey \ {CommandKeyOf(r)} :
           legal_hold_commands'[k] = legal_hold_commands[k]
  BY EffectOnTables
<1>2. /\ legal_hold_activity' = legal_hold_activity \cup {ActivityOf(r, id)}
      /\ ActivityOf(r, id).hold = r.hold /\ ActivityOf(r, id).id = id
      /\ \A e \in legal_hold_activity : e.hold = r.hold => e.id < id
  BY DEF TakesEffect, ActivityOf
<1>3. Committed(r.hold) => legal_holds[r.hold].status # "released"
  BY DEF TakesEffect, Legal, Applicable, Current, Committed
<1>4. CommandsStay
  BY <1>1 DEF CommandsStay
<1>5. ASSUME NEW h \in Holds, Committed(h), legal_holds[h].status = "released"
      PROVE  /\ legal_holds'[h] = legal_holds[h]
             /\ legal_hold_scopes'[h] = legal_hold_scopes[h]
             /\ ActivityRowsOf(h)' = ActivityRowsOf(h)
  <2>1. h # r.hold
    BY <1>3, <1>5
  <2> QED
    BY <1>1, <1>2, <2>1 DEF ActivityRowsOf
<1>6. ASSUME NEW e \in legal_hold_activity' \ legal_hold_activity,
             NEW f \in ActivityRowsOf(e.hold)
      PROVE  f.id < e.id
  BY <1>2 DEF ActivityRowsOf
<1> QED
  BY <1>4, <1>5, <1>6

(***************************************************************************)
(* Whoever keeps to the ledger never replaces a receipt, never changes a   *)
(* released hold, and shows the activity of a hold in the order of its     *)
(* ids (storage.rs:519-571, 607-647).                                      *)
(***************************************************************************)
THEOREM LedgerKeepsTables ==
    Ledger!Spec => /\ ReceiptsPermanent
                   /\ ReleasedHoldsImmutable
                   /\ ActivityAppearsInOrder
<1> DEFINE Receipts == \A k \in CommandKey :
                         legal_hold_commands[k] # None =>
                           legal_hold_commands'[k] = legal_hold_commands[k]
           Released == \A h \in Holds :
                         (Committed(h) /\ legal_holds[h].status = "released") =>
                           /\ legal_holds'[h] = legal_holds[h]
                           /\ legal_hold_scopes'[h] = legal_hold_scopes[h]
                           /\ ActivityRowsOf(h)' = ActivityRowsOf(h)
           InOrder == \A e \in legal_hold_activity' \ legal_hold_activity :
                        \A f \in ActivityRowsOf(e.hold) : f.id < e.id
<1>1. LedgerTypes /\ HistoryInv /\ [Ledger!Next]_(Ledger!vars)
        => [Receipts]_tables /\ [Released]_tables /\ [InOrder]_tables
  <2> SUFFICES ASSUME LedgerTypes, HistoryInv, [Ledger!Next]_(Ledger!vars),
                      tables' # tables
               PROVE  Receipts /\ Released /\ InOrder
    OBVIOUS
  <2>1. PICK r \in Requests, id \in Nat : TakesEffect(r, id)
    BY LedgerMoves
  <2> QED
    BY <2>1, EffectSpares DEF LedgerTypes, CommandsStay
<1> QED
  BY <1>1, LedgerHistory, PTL
  DEF Ledger!Spec, ReceiptsPermanent, ReleasedHoldsImmutable, ActivityAppearsInOrder

(***************************************************************************)
(* What a caller is told of is there: a success is the response of a       *)
(* committed receipt of its request, and stays so (storage.rs:607-647).    *)
(***************************************************************************)
SuccessesReceipted ==
    \A p \in Calls :
        answer[p] # None /\ answer[p].outcome = "Ok" =>
            request[p] \in Requests /\ Receipted(request[p], answer[p].view)

(***************************************************************************)
(* A success stays true, and a new one is true.                            *)
(***************************************************************************)
LEMMA SuccessStep ==
    ASSUME LedgerTypes, SuccessesReceipted, [Ledger!Next]_(Ledger!vars)
    PROVE  SuccessesReceipted'
<1>1. CASE UNCHANGED Ledger!vars
  <2>1. UNCHANGED ledgerVars
    BY <1>1 DEF Ledger!vars, Ledger!tables, ledgerVars, tables
  <2> QED
    BY <2>1 DEF SuccessesReceipted, Receipted, ReceiptFor, ledgerVars, tables
<1>2. ASSUME NEW p \in Calls, NEW r \in Requests, Ledger!Begin(p, r)
      PROVE  SuccessesReceipted'
  <2>1. /\ UNCHANGED tables /\ answer'[p] = None
        /\ \A q \in Calls \ {p} : request'[q] = request[q] /\ answer'[q] = answer[q]
    BY <1>2, BeginKeepsTypes
  <2> QED
    BY <2>1 DEF SuccessesReceipted, Receipted, ReceiptFor, tables
<1>3. ASSUME NEW p \in Calls, Ledger!Step(p), NEW q \in Calls,
             answer'[q] # None, answer'[q].outcome = "Ok"
      PROVE  request'[q] \in Requests /\ Receipted(request[q], answer[q].view)'
  <2>1. Served(p)
    BY <1>3, StepServes
  <2>2. CASE answer'[q] = answer[q]
    <3>1. request[q] \in Requests /\ Receipted(request[q], answer[q].view)
      BY <1>3, <2>2 DEF SuccessesReceipted
    <3>2. PICK r \in Requests : r = request[q]
      BY <3>1
    <3>3. PICK view : view = answer[q].view
      OBVIOUS
    <3>4. Receipted(r, view)'
      BY <2>1, <3>1, <3>2, <3>3, ReceiptsStay DEF Served
    <3> QED
      BY <2>1, <2>2, <3>2, <3>3, <3>4 DEF Served, Receipted, ReceiptFor
  <2>3. CASE answer'[q] # answer[q]
    <3>1. q = p /\ answer[p] = None /\ AnswerIsTrue(p)
      BY <2>1, <2>3 DEF Served
    <3>2. Receipted(request[p], answer[p].view)'
      BY <1>3, <3>1 DEF AnswerIsTrue, DomainFailures
    <3> QED
      BY <2>1, <3>1, <3>2 DEF Served, LedgerTypes
  <2> QED
    BY <2>2, <2>3
<1> QED
  BY <1>1, <1>2, <1>3 DEF Ledger!Next, SuccessesReceipted

(***************************************************************************)
(* Whoever keeps to the ledger tells of no success without a receipt.      *)
(***************************************************************************)
THEOREM LedgerIsDurable == Ledger!Spec => []SuccessesReceipted
<1>1. Ledger!Init => SuccessesReceipted
  BY DEF Ledger!Init, SuccessesReceipted
<1>2. LedgerTypes /\ SuccessesReceipted /\ [Ledger!Next]_(Ledger!vars)
        => SuccessesReceipted'
  BY SuccessStep
<1> QED
  BY <1>1, <1>2, LedgerHistory, PTL DEF Ledger!Spec

(***************************************************************************)
(* What leaves the ledger's variables alone is a stutter of the ledger.    *)
(***************************************************************************)
LEMMA LedgerStutters ==
    ASSUME UNCHANGED ledgerVars
    PROVE  UNCHANGED Ledger!vars
BY DEF ledgerVars, tables, Ledger!vars, Ledger!tables
=============================================================================
