-------------------------- MODULE AgentToolsProofs --------------------------
(***************************************************************************)
(* Proofs about AgentTools: what an agent is told of its executions is so, *)
(* for any number of concurrent executions, tools and requests, and for    *)
(* any later version of the contract on the provider's side.               *)
(***************************************************************************)
EXTENDS AgentTools, HoldStoreProofs

-----------------------------------------------------------------------------
(***************************************************************************)
(* What the contract does to an error on its way, and the adapter to what  *)
(* arrives.                                                                *)
(***************************************************************************)

(***************************************************************************)
(* Every error survives its encoding: a consumer that knows a code reads   *)
(* the provider's variant, one that does not keeps code, payload and the   *)
(* rest (generated.rs:795-1218).                                           *)
(***************************************************************************)
LEMMA RoundTrip ==
    ASSUME NEW e \in DomainError
    PROVE  Decode(Encode(e)) = e
<1>1. CASE e \in {Variant(c) : c \in Known}
  <2>1. PICK c \in Known : e = Variant(c)
    BY <1>1
  <2>2. Encode(e) = CodeAsString(c)
    BY <2>1 DEF Encode, Variant
  <2> QED
    BY <2>1, <2>2 DEF Decode, CodeAsString, Json
<1>2. CASE e \notin {Variant(c) : c \in Known}
  <2>1. PICK c \in Codes, x \in Payloads \cup {None}, y \in Payloads \cup {None} :
          e = Unknown(c, x, y)
    BY <1>2 DEF DomainError
  <2>2. Encode(e) = Json("object", c, x, y)
    BY <2>1 DEF Encode, Unknown
  <2> DEFINE w == Json("object", c, x, y)
  <2>3. c # None
    BY WireAssumption
  <2>4. w.json = "object" /\ w.code = c /\ w.payload = x /\ w.extra = y
    BY DEF Json
  <2> HIDE DEF w
  <2>5. Decode(w) = Unknown(w.code, w.payload, w.extra)
    BY <2>3, <2>4 DEF Decode
  <2> QED
    BY <2>1, <2>2, <2>4, <2>5 DEF w
<1> QED
  BY <1>1, <1>2

(***************************************************************************)
(* What the agent is told of a success, of a failure, and of a refusal.    *)
(***************************************************************************)
ToldOf(r) == ToolResult(ClientResult(IntoResult(r)))

Refusal(code) ==
    PluginDomain(Arrived(IF remote THEN CodeAsString(code) ELSE Variant(code)))

Names(t, code) ==
    \/ t.kind = "PermissionDenied" /\ code \in {"forbidden", "unauthenticated"}
    \/ t.kind = "InvalidArguments" /\ code = "invalid_request"
    \/ t.kind = "NotFound" /\ code = "not_found"
    \/ t.kind = "ExecutionFailed" /\ t.reason = code
    \/ t.kind = "ExecutionFailed" /\ code \in LaterCodes

(***************************************************************************)
(* A success reaches the agent with its view.                              *)
(***************************************************************************)
LEMMA ToldOfSuccess ==
    ASSUME NEW view
    PROVE  ToldOf(PluginOk(view)) = Outcome("Success", None, view)
BY DEF ToldOf, PluginOk, IntoResult, OuterOk, ClientResult, ToolResult

(***************************************************************************)
(* A failure reaches the agent as a failure: never as a rejection, never   *)
(* as a success.                                                           *)
(***************************************************************************)
LEMMA ToldOfFailure ==
    ToldOf(PluginRuntime("RuntimeFailure")) = Outcome("Runtime", None, None)
BY DEF ToldOf, PluginRuntime, IntoResult, OuterErr, ClientResult, ToolResult

(***************************************************************************)
(* A refusal reaches the agent as a rejection that names the provider's    *)
(* code, unless the code is of a later version.                            *)
(***************************************************************************)
LEMMA ToldOfRefusal ==
    ASSUME NEW code \in Codes, remote \in BOOLEAN, remote \/ code \in Known
    PROVE  /\ ToldOf(Refusal(code)).kind \in Rejections
           /\ Names(ToldOf(Refusal(code)), code)
<1>1. \A e : ToldOf(PluginDomain(e)) = ToolError(e)
  BY DEF ToldOf, PluginDomain, IntoResult, OuterOk, ClientResult, ToolResult
<1>2. CASE code \in Known
  <2>1. Refusal(code) = PluginDomain(Variant(code))
    BY <1>2 DEF Refusal, Arrived, Decode, CodeAsString, Json
  <2>2. ToldOf(Refusal(code)) = ToolError(Variant(code))
    BY <1>1, <2>1
  <2>3. /\ ToolError(Variant(code)).kind \in Rejections
        /\ Names(ToolError(Variant(code)), code)
    BY <1>2 DEF Known, ToolError, Variant, Outcome, Rejections, Names
  <2> QED
    BY <2>2, <2>3
<1>3. CASE code \notin Known
  <2>1. remote /\ code \in LaterCodes
    BY <1>3 DEF Codes
  <2>2. Refusal(code) = PluginDomain(Unknown(code, None, None))
    BY <1>3, <2>1 DEF Refusal, Arrived, Decode, CodeAsString, Json
  <2>3. ToldOf(Refusal(code)) = Outcome("ExecutionFailed", "unknown_domain_error", None)
    BY <1>1, <2>2 DEF ToolError, Unknown
  <2> QED
    BY <2>1, <2>3 DEF Outcome, Rejections, Names
<1> QED
  BY <1>2, <1>3

-----------------------------------------------------------------------------
(***************************************************************************)
(* The inductive invariant.  What the adapter has still to tell an agent   *)
(* is already true of the provider: before the provider is reached nothing *)
(* can have happened, and afterwards what the ledger has answered says     *)
(* what did.                                                               *)
(***************************************************************************)
Shapes ==
    /\ phase \in [Calls -> {"idle", "called", "provided"}]
    /\ execution = [p \in Calls |-> execution[p]]
    /\ told = [p \in Calls |-> told[p]]
    /\ refusal \in [Calls -> Codes \cup {None}]
    /\ effect \in [Calls -> BOOLEAN]
    /\ remote \in BOOLEAN

Untouched(p) == ~open[p] /\ ~effect[p]

Busy(p) ==
    /\ told[p] = None /\ refusal[p] = None
    /\ execution[p] \in Executions[p] /\ execution[p].decodes

Pending(p) ==
    /\ request[p] = execution[p].asks
    /\ answer[p] = None => ~effect[p]
    /\ answer[p] # None =>
         \/ answer[p].outcome = "Ok" /\ Receipted(request[p], answer[p].view)
         \/ answer[p].outcome \in DomainFailures /\ Untouched(p)
         \/ answer[p].outcome = "PluginFailure"

Told(p) ==
    /\ execution[p] \in Executions[p]
    /\ told[p].kind \in Rejections \cup {"Success", "Runtime"}
    /\ told[p].kind \in Rejections => Untouched(p)
    /\ told[p].kind = "Success" /\ Mutates(p) =>
         Receipted(execution[p].asks, told[p].view)
    /\ refusal[p] # None => Names(told[p], refusal[p])
    /\ open[p] => Mutates(p) /\ request[p] = execution[p].asks

CallInv(p) ==
    /\ phase[p] # "idle" => Busy(p)
    /\ phase[p] = "called" => Untouched(p)
    /\ phase[p] = "provided" => IF Mutates(p) THEN Pending(p) ELSE Untouched(p)
    /\ phase[p] = "idle" =>
         \/ /\ told[p] = None /\ execution[p] = None /\ refusal[p] = None
            /\ ~open[p]
         \/ Told(p)

ToolsInv == LedgerTypes /\ Shapes /\ \A p \in Calls : CallInv(p)

(***************************************************************************)
(* The invariant holds at the start.                                       *)
(***************************************************************************)
LEMMA Initially ==
    ASSUME Init
    PROVE  ToolsInv
<1>1. LedgerTypes
  <2>1. TablesTypeOK
    BY DEF Init, Ledger!Init, Ledger!TablesEmpty, TablesTypeOK, CommandKey,
       Ledger!CommandKey, Ledger!Operations, Operations
  <2> QED
    BY <2>1 DEF Init, Ledger!Init, LedgerTypes
<1>2. Shapes /\ \A p \in Calls : CallInv(p)
  BY DEF Init, Ledger!Init, Shapes, CallInv
<1> QED
  BY <1>1, <1>2 DEF ToolsInv

(***************************************************************************)
(* What a mutating tool sends is the request it was given.                 *)
(***************************************************************************)
LEMMA SentAsAsked ==
    ASSUME NEW p \in Calls, execution[p] \in Executions[p], Mutates(p)
    PROVE  execution[p].asks \in Requests /\ Sent(p) = execution[p].asks
<1> DEFINE e == execution[p]
<1>1. e.asks \in Requests /\ e.asks \in Request
  BY ToolsAssumption, RequestsAssumption DEF Mutates
<1>2. e.asks.op = Operation(e.name)
  <2>1. <<e.name, e.asks.op>> \in
          {<<"legal_hold_create", "create_hold">>,
           <<"legal_hold_add_scope", "add_scope">>,
           <<"legal_hold_remove_scope", "remove_scope">>,
           <<"legal_hold_release", "release_hold">>}
    BY ToolsAssumption DEF Mutates
  <2> QED
    BY <2>1 DEF Operation
<1>3. [e.asks EXCEPT !.op = Operation(e.name)] = e.asks
  BY <1>1, <1>2 DEF Request
<1> QED
  BY <1>1, <1>3 DEF Sent

(***************************************************************************)
(* A step of one call leaves what holds of the others.                     *)
(***************************************************************************)
LEMMA Frame ==
    ASSUME NEW q \in Calls, CallInv(q), CommandsStay,
           open'[q] = open[q], request'[q] = request[q], answer'[q] = answer[q],
           phase'[q] = phase[q], execution'[q] = execution[q], told'[q] = told[q],
           refusal'[q] = refusal[q], effect'[q] = effect[q]
    PROVE  CallInv(q)'
<1>1. Untouched(q) => Untouched(q)'
  BY DEF Untouched
<1>2. Mutates(q)' <=> Mutates(q)
  BY DEF Mutates
<1>3. ASSUME NEW view, Mutates(q), execution[q] \in Executions[q],
             Receipted(execution[q].asks, view)
      PROVE  Receipted(execution[q].asks, view)'
  <2>1. execution[q].asks \in Requests
    BY <1>3, SentAsAsked
  <2>2. DEFINE r == execution[q].asks
  <2>3. r' = r /\ ReceiptFor(r)' = ReceiptFor(r)
    BY <1>3, <2>1, RequestTypes DEF CommandsStay, Receipted, ReceiptFor
  <2> QED
    BY <1>3, <2>3 DEF Receipted
<1>4. CASE phase[q] = "idle"
  <2>1. CASE told[q] = None /\ execution[q] = None /\ refusal[q] = None
             /\ ~open[q]
    BY <1>4, <2>1 DEF CallInv
  <2>2. CASE Told(q)
    <3>1. told[q].kind = "Success" /\ Mutates(q) =>
            Receipted(execution[q].asks, told[q].view)'
      BY <1>3, <2>2 DEF Told
    <3>2. Told(q)'
      BY <1>1, <1>2, <2>2, <3>1 DEF Told, Receipted, Names
    <3> QED
      BY <1>4, <3>2 DEF CallInv
  <2> QED
    BY <1>4, <2>1, <2>2 DEF CallInv
<1>5. CASE phase[q] # "idle"
  <2>1. Busy(q) /\ Busy(q)'
    BY <1>5 DEF CallInv, Busy
  <2>2. Mutates(q) /\ Pending(q) => Pending(q)'
    <3>1. ASSUME Mutates(q), Pending(q), answer[q] # None, answer[q].outcome = "Ok"
          PROVE  Receipted(request[q], answer[q].view)
                  => Receipted(request[q], answer[q].view)'
      BY <1>3, <2>1, <3>1 DEF Busy, Pending, Receipted
    <3> QED
      BY <1>1, <3>1 DEF Pending
  <2> QED
    BY <1>1, <1>2, <1>5, <2>1, <2>2 DEF CallInv
<1> QED
  BY <1>4, <1>5

(***************************************************************************)
(* A step of the adapter that leaves the ledger alone keeps its types and  *)
(* its receipts.                                                           *)
(***************************************************************************)
LEMMA LedgerRests ==
    ASSUME LedgerTypes, UNCHANGED ledgerVars
    PROVE  LedgerTypes' /\ CommandsStay /\ open' = open
           /\ request' = request /\ answer' = answer
BY DEF ledgerVars, tables, LedgerTypes, TablesTypeOK, CommandsStay

(***************************************************************************)
(* The answer that ends an execution: nothing else changes.                *)
(***************************************************************************)
LEMMA AnswerKeeps ==
    ASSUME ToolsInv, NEW p \in Calls, phase[p] # "idle",
           NEW outcome, Tell(p, outcome),
           UNCHANGED <<ledgerVars, execution, remote, effect>>,
           refusal' \in [Calls -> Codes \cup {None}],
           \A q \in Calls \ {p} : refusal'[q] = refusal[q],
           outcome.kind \in Rejections \cup {"Success", "Runtime"},
           outcome.kind \in Rejections => Untouched(p),
           outcome.kind = "Success" /\ Mutates(p) =>
             Receipted(execution[p].asks, outcome.view),
           refusal'[p] # None => Names(outcome, refusal'[p])
    PROVE  ToolsInv'
<1>1. LedgerTypes' /\ CommandsStay /\ open' = open /\ request' = request
      /\ answer' = answer
  BY LedgerRests DEF ToolsInv
<1>2. Shapes /\ CallInv(p) /\ Busy(p)
  BY DEF ToolsInv, CallInv
<1>3. /\ phase' \in [Calls -> {"idle", "called", "provided"}]
      /\ phase'[p] = "idle" /\ \A q \in Calls \ {p} : phase'[q] = phase[q]
  BY <1>2 DEF Tell, Shapes
<1>4. /\ told' = [q \in Calls |-> told'[q]]
      /\ told'[p] = outcome /\ \A q \in Calls \ {p} : told'[q] = told[q]
  BY <1>2 DEF Tell, Shapes
<1>5. Shapes'
  BY <1>2, <1>3, <1>4 DEF Shapes
<1>6. CallInv(p)'
  <2>1. Mutates(p)' <=> Mutates(p)
    BY DEF Mutates
  <2>2. outcome.kind = "Success" /\ Mutates(p) =>
          Receipted(execution[p].asks, outcome.view)'
    <3>1. ASSUME outcome.kind = "Success", Mutates(p)
          PROVE  Receipted(execution[p].asks, outcome.view)'
      <4>1. execution[p].asks \in Requests
        BY <1>2, <3>1, SentAsAsked DEF Busy
      <4>2. ReceiptFor(execution[p].asks)' = ReceiptFor(execution[p].asks)
        BY DEF ledgerVars, tables, ReceiptFor
      <4> QED
        BY <3>1, <4>2 DEF Receipted
    <3> QED
      BY <3>1
  <2>3. open[p] => Mutates(p) /\ request[p] = execution[p].asks
    BY <1>2 DEF CallInv, Shapes, Untouched, Pending
  <2>4. Told(p)'
    BY <1>1, <1>2, <1>4, <2>1, <2>2, <2>3 DEF Told, Untouched, Busy, Receipted, Names
  <2> QED
    BY <1>3, <2>4 DEF CallInv
<1>7. ASSUME NEW q \in Calls \ {p} PROVE CallInv(q)'
  BY <1>1, <1>3, <1>4, <1>7, Frame DEF ToolsInv
<1> QED
  BY <1>1, <1>5, <1>6, <1>7 DEF ToolsInv

(***************************************************************************)
(* A reply ends the execution with what the agent is told.                 *)
(***************************************************************************)
LEMMA ReplyTells ==
    ASSUME NEW p, NEW r, Reply(p, r)
    PROVE  Tell(p, ToldOf(r))
BY DEF Reply, ToldOf

(***************************************************************************)
(* A refusal, of a call that has changed nothing and never will.           *)
(***************************************************************************)
LEMMA RefusalKeeps ==
    ASSUME ToolsInv, NEW p \in Calls, phase[p] # "idle", Untouched(p),
           NEW code \in Codes, remote \/ code \in Known, RefuseWith(p, code),
           UNCHANGED <<ledgerVars, execution, remote, effect>>
    PROVE  ToolsInv'
<1> DEFINE outcome == ToldOf(Refusal(code))
<1>1. remote \in BOOLEAN /\ refusal \in [Calls -> Codes \cup {None}]
  BY DEF ToolsInv, Shapes
<1>2. outcome.kind \in Rejections /\ Names(outcome, code)
  BY <1>1, ToldOfRefusal
<1>3. Tell(p, outcome)
  BY ReplyTells DEF RefuseWith, Refusal
<1>4. /\ refusal' \in [Calls -> Codes \cup {None}] /\ refusal'[p] = code
      /\ \A q \in Calls \ {p} : refusal'[q] = refusal[q]
  BY <1>1 DEF RefuseWith
<1>5. outcome.kind # "Success"
  BY <1>2 DEF Rejections
<1> HIDE DEF outcome
<1> QED
  BY <1>2, <1>3, <1>4, <1>5, AnswerKeeps

(***************************************************************************)
(* A refusal before the storage is asked keeps the invariant.              *)
(***************************************************************************)
LEMMA HandlerRefusesKeeps ==
    ASSUME ToolsInv, NEW p \in Calls, HandlerRefuses(p)
    PROVE  ToolsInv'
<1>1. phase[p] # "idle" /\ Untouched(p)
  BY DEF HandlerRefuses, ToolsInv, CallInv
<1>2. PICK code \in Codes : (remote \/ code \in Known) /\ RefuseWith(p, code)
  BY DEF HandlerRefuses, Codes, Known
<1>3. UNCHANGED <<ledgerVars, execution, remote, effect>>
  BY DEF HandlerRefuses
<1> QED
  BY <1>1, <1>2, <1>3, RefusalKeeps

(***************************************************************************)
(* A failure of the call keeps the invariant, whether or not the ledger is *)
(* still at work.                                                          *)
(***************************************************************************)
LEMMA FailCallKeeps ==
    ASSUME ToolsInv, NEW p \in Calls, FailCall(p)
    PROVE  ToolsInv'
<1> DEFINE outcome == Outcome("Runtime", None, None)
<1>1. phase[p] # "idle" /\ UNCHANGED <<ledgerVars, execution, remote, effect>>
      /\ refusal' = refusal
  BY DEF FailCall, history
<1>2. Tell(p, outcome)
  BY ReplyTells, ToldOfFailure DEF FailCall
<1>3. refusal \in [Calls -> Codes \cup {None}] /\ refusal[p] = None
  BY <1>1 DEF ToolsInv, Shapes, CallInv, Busy
<1>4. outcome.kind = "Runtime" /\ outcome.kind \notin Rejections
      /\ outcome.kind # "Success"
  BY DEF Outcome, Rejections
<1> HIDE DEF outcome
<1> QED
  BY <1>1, <1>2, <1>3, <1>4, AnswerKeeps

(***************************************************************************)
(* The provider's reply keeps the invariant.                               *)
(***************************************************************************)
LEMMA ProvideKeeps ==
    ASSUME ToolsInv, NEW p \in Calls, Provide(p)
    PROVE  ToolsInv'
<1>1. phase[p] = "provided" /\ phase[p] # "idle"
      /\ UNCHANGED <<ledgerVars, execution, remote, effect>>
  BY DEF Provide
<1>2. /\ refusal \in [Calls -> Codes \cup {None}] /\ refusal[p] = None
      /\ IF Mutates(p) THEN Pending(p) ELSE Untouched(p)
      /\ execution[p] \in Executions[p]
  BY <1>1 DEF ToolsInv, Shapes, CallInv, Busy
<1>3. ASSUME NEW view, Reply(p, PluginOk(view)), UNCHANGED refusal,
             Mutates(p) => Receipted(execution[p].asks, view)
      PROVE  ToolsInv'
  <2> DEFINE outcome == Outcome("Success", None, view)
  <2>1. Tell(p, outcome)
    BY <1>3, ReplyTells, ToldOfSuccess
  <2>2. outcome.kind = "Success" /\ outcome.kind \notin Rejections
        /\ outcome.view = view
    BY DEF Outcome, Rejections
  <2> HIDE DEF outcome
  <2> QED
    BY <1>1, <1>2, <1>3, <2>1, <2>2, AnswerKeeps
<1>4. CASE Mutates(p) /\ answer[p] # None /\ answer[p].outcome = "Ok"
           /\ Reply(p, PluginOk(answer[p].view)) /\ UNCHANGED refusal
  <2>1. Receipted(execution[p].asks, answer[p].view)
    BY <1>2, <1>4 DEF Pending, DomainFailures
  <2> QED
    BY <1>3, <1>4, <2>1
<1>5. CASE Mutates(p) /\ answer[p] # None /\ answer[p].outcome \in DomainFailures
           /\ RefuseWith(p, CodeOf(answer[p].outcome))
  <2>1. Untouched(p)
    BY <1>2, <1>5 DEF Pending, DomainFailures
  <2>2. CodeOf(answer[p].outcome) \in Known
    BY <1>5 DEF DomainFailures, CodeOf, Known
  <2> QED
    BY <1>1, <1>5, <2>1, <2>2, RefusalKeeps DEF Codes
<1>6. CASE ~Mutates(p) /\ Reply(p, PluginOk(None)) /\ UNCHANGED refusal
  BY <1>3, <1>6
<1> QED
  BY <1>4, <1>5, <1>6 DEF Provide

(***************************************************************************)
(* An execution begins: the adapter answers it, or calls the provider.     *)
(***************************************************************************)
LEMMA ExecuteKeeps ==
    ASSUME ToolsInv, NEW p \in Calls, NEW e \in Executions[p], Execute(p, e)
    PROVE  ToolsInv'
<1>1. LedgerTypes' /\ CommandsStay /\ open' = open /\ request' = request
      /\ answer' = answer
  BY LedgerRests DEF ToolsInv, Execute
<1>2. Shapes /\ ~open[p] /\ phase[p] = "idle"
  BY DEF ToolsInv, Execute
<1>3. /\ effect' \in [Calls -> BOOLEAN] /\ effect'[p] = FALSE
      /\ refusal' \in [Calls -> Codes \cup {None}] /\ refusal'[p] = None
      /\ execution' = [q \in Calls |-> execution'[q]] /\ execution'[p] = e
      /\ remote' = remote
      /\ \A q \in Calls \ {p} : /\ effect'[q] = effect[q]
                                /\ refusal'[q] = refusal[q]
                                /\ execution'[q] = execution[q]
  BY <1>2 DEF Shapes, Execute
<1>4. Untouched(p)'
  BY <1>1, <1>2, <1>3 DEF Untouched
<1>5. ASSUME NEW x \in {"idle", "called", "provided"}, NEW o,
             phase' = [phase EXCEPT ![p] = x], told' = [told EXCEPT ![p] = o]
      PROVE  /\ Shapes'
             /\ phase'[p] = x /\ told'[p] = o
             /\ \A q \in Calls \ {p} : CallInv(q)'
  <2>1. /\ phase'[p] = x /\ told'[p] = o /\ told' = [q \in Calls |-> told'[q]]
        /\ phase' \in [Calls -> {"idle", "called", "provided"}]
        /\ \A q \in Calls \ {p} : phase'[q] = phase[q] /\ told'[q] = told[q]
    BY <1>2, <1>5 DEF Shapes
  <2>2. Shapes'
    BY <1>2, <1>3, <2>1 DEF Shapes
  <2>3. ASSUME NEW q \in Calls \ {p} PROVE CallInv(q)'
    BY <1>1, <1>3, <2>1, <2>3, Frame DEF ToolsInv
  <2> QED
    BY <2>1, <2>2, <2>3
<1>6. ASSUME NEW o, Tell(p, o), o.kind \in {"NotFound", "InvalidArguments"}
      PROVE  ToolsInv'
  <2>1. /\ Shapes' /\ phase'[p] = "idle" /\ told'[p] = o
        /\ \A q \in Calls \ {p} : CallInv(q)'
    BY <1>5, <1>6 DEF Tell
  <2>2. Told(p)'
    BY <1>3, <1>4, <1>6, <2>1 DEF Told, Rejections, Untouched
  <2> QED
    BY <1>1, <2>1, <2>2 DEF ToolsInv, CallInv
<1>7. CASE e.decodes /\ phase' = [phase EXCEPT ![p] = "called"]
           /\ told' = [told EXCEPT ![p] = None]
  <2>1. /\ Shapes' /\ phase'[p] = "called" /\ told'[p] = None
        /\ \A q \in Calls \ {p} : CallInv(q)'
    BY <1>5, <1>7
  <2>2. CallInv(p)'
    BY <1>3, <1>4, <1>7, <2>1 DEF CallInv, Busy
  <2> QED
    BY <1>1, <2>1, <2>2 DEF ToolsInv
<1>8. \A k : Outcome(k, None, None).kind = k
  BY DEF Outcome
<1> QED
  BY <1>6, <1>7, <1>8 DEF Execute

(***************************************************************************)
(* The call reaches the provider.                                          *)
(***************************************************************************)
LEMMA InvokeKeeps ==
    ASSUME ToolsInv, NEW p \in Calls, Invoke(p)
    PROVE  ToolsInv'
<1>1. /\ Shapes /\ LedgerTypes /\ phase[p] = "called" /\ Busy(p) /\ Untouched(p)
      /\ UNCHANGED <<execution, remote, told, refusal, effect>>
  BY DEF Invoke, history, ToolsInv, CallInv
<1>2. /\ phase' \in [Calls -> {"idle", "called", "provided"}]
      /\ phase'[p] = "provided" /\ \A q \in Calls \ {p} : phase'[q] = phase[q]
  BY <1>1 DEF Invoke, Shapes
<1>3. Shapes' /\ Busy(p)' /\ (Mutates(p)' <=> Mutates(p))
  BY <1>1, <1>2 DEF Shapes, Busy, Mutates
<1>4. CASE Mutates(p)
  <2>1. execution[p].asks \in Requests /\ Ledger!Begin(p, execution[p].asks)
    BY <1>1, <1>4, SentAsAsked DEF Busy, Invoke
  <2>2. /\ open' = [open EXCEPT ![p] = TRUE]
        /\ request' = [request EXCEPT ![p] = execution[p].asks]
        /\ answer' = [answer EXCEPT ![p] = None]
        /\ UNCHANGED tables
    BY <2>1 DEF Ledger!Begin, Ledger!tables, tables
  <2>3. LedgerTypes' /\ CommandsStay
    BY <1>1, <2>1, <2>2 DEF LedgerTypes, TablesTypeOK, tables, CommandsStay
  <2>4. Pending(p)'
    BY <1>1, <2>2 DEF Pending, Untouched, LedgerTypes
  <2>5. ASSUME NEW q \in Calls \ {p} PROVE CallInv(q)'
    <3>1. open'[q] = open[q] /\ request'[q] = request[q] /\ answer'[q] = answer[q]
      BY <1>1, <2>2 DEF LedgerTypes
    <3> QED
      BY <1>1, <1>2, <2>3, <3>1, Frame DEF ToolsInv
  <2> QED
    BY <1>2, <1>3, <1>4, <2>3, <2>4, <2>5 DEF ToolsInv, CallInv
<1>5. CASE ~Mutates(p)
  <2>1. LedgerTypes' /\ CommandsStay /\ open' = open /\ request' = request
        /\ answer' = answer
    BY <1>1, <1>5, LedgerRests DEF Invoke
  <2>2. Untouched(p)'
    BY <1>1, <2>1 DEF Untouched
  <2>3. ASSUME NEW q \in Calls \ {p} PROVE CallInv(q)'
    BY <1>1, <1>2, <2>1, <2>3, Frame DEF ToolsInv
  <2> QED
    BY <1>2, <1>3, <1>5, <2>1, <2>2, <2>3 DEF ToolsInv, CallInv
<1> QED
  BY <1>4, <1>5

(***************************************************************************)
(* A step of the provider's storage, for a call that waits for it or for   *)
(* one the agent has been told is lost.                                    *)
(***************************************************************************)
LEMMA LedgerStepKeeps ==
    ASSUME ToolsInv, NEW p \in Calls, LedgerStep(p)
    PROVE  ToolsInv'
<1>1. /\ LedgerTypes' /\ Served(p)
      /\ UNCHANGED <<phase, execution, remote, told, refusal>>
  BY StepServes DEF ToolsInv, LedgerStep, toolVars
<1>2. Shapes /\ CallInv(p) /\ CommandsStay
  BY <1>1 DEF ToolsInv, Served
<1>3. /\ effect' \in [Calls -> BOOLEAN]
      /\ effect'[p] <=> effect[p] \/ tables' # tables
      /\ \A q \in Calls \ {p} : effect'[q] = effect[q]
  <2>1. effect' = [effect EXCEPT ![p] = effect[p] \/ tables' # tables]
    BY DEF LedgerStep
  <2> QED
    BY <1>2, <2>1 DEF Shapes
<1>4. Shapes'
  BY <1>1, <1>2, <1>3 DEF Shapes
<1>5. ASSUME NEW q \in Calls \ {p} PROVE CallInv(q)'
  <2>1. open'[q] = open[q] /\ request'[q] = request[q] /\ answer'[q] = answer[q]
    BY <1>1 DEF Served
  <2> QED
    BY <1>1, <1>2, <1>3, <2>1, Frame DEF ToolsInv
<1>6. CallInv(p)'
  <2>1. open[p] /\ (Mutates(p)' <=> Mutates(p)) /\ request' = request
    BY <1>1 DEF Served, Mutates
  <2>2. CASE phase[p] = "idle"
    <3>1. CASE ~open[p]
      BY <2>1, <3>1
    <3>2. CASE Told(p)
      <4>1. told[p].kind \notin Rejections
        BY <2>1, <3>2 DEF Told, Untouched
      <4>2. ASSUME told[p].kind = "Success", Mutates(p)
            PROVE  Receipted(execution[p].asks, told[p].view)'
        <5>1. execution[p].asks \in Requests
          BY <3>2, <4>2, SentAsAsked DEF Told
        <5>2. Receipted(execution[p].asks, told[p].view)
          BY <3>2, <4>2 DEF Told
        <5>3. ReceiptFor(execution[p].asks)' = ReceiptFor(execution[p].asks)
          BY <1>1, <1>2, <5>1, <5>2, RequestTypes
             DEF CommandsStay, Receipted, ReceiptFor
        <5> QED
          BY <1>1, <5>2, <5>3 DEF Receipted
      <4>3. Told(p)'
        BY <1>1, <2>1, <3>2, <4>1, <4>2 DEF Told, Names
      <4> QED
        BY <1>1, <2>2, <4>3 DEF CallInv
    <3> QED
      BY <1>2, <2>2, <3>1, <3>2 DEF CallInv
  <2>3. CASE phase[p] # "idle"
    <3>1. phase[p] = "provided" /\ Mutates(p) /\ Pending(p) /\ Busy(p)
      BY <1>2, <2>1, <2>3 DEF CallInv, Untouched, Shapes
    <3>2. Busy(p)'
      BY <1>1, <3>1 DEF Busy
    <3>3. CASE answer[p] = None
      <4>1. answer'[p] # None /\ AnswerIsTrue(p) /\ ~effect[p]
        BY <1>1, <3>1, <3>3 DEF Served, Pending
      <4>2. answer'[p].outcome \in DomainFailures /\ ~open'[p] /\ UNCHANGED tables
              => Untouched(p)'
        BY <1>3, <4>1 DEF Untouched
      <4> QED
        BY <1>1, <2>1, <3>1, <3>2, <4>1, <4>2 DEF CallInv, Pending, AnswerIsTrue
    <3>4. CASE answer[p] # None
      <4>1. /\ answer'[p] = answer[p]
            /\ \/ answer[p].outcome = "Ok" /\ Receipted(request[p], answer[p].view)
               \/ answer[p].outcome = "PluginFailure"
        BY <1>1, <2>1, <3>1, <3>4 DEF Served, Pending, Untouched
      <4>2. request[p] \in Requests
        BY <3>1, SentAsAsked DEF Busy, Pending
      <4>3. answer[p].outcome = "Ok" /\ Receipted(request[p], answer[p].view)
              => Receipted(request[p], answer[p].view)'
        <5>1. CommandKeyOf(request[p]) \in CommandKey
          BY <4>2, RequestTypes
        <5>2. Receipted(request[p], answer[p].view)
                => ReceiptFor(request[p])' = ReceiptFor(request[p])
          BY <1>2, <2>1, <5>1 DEF CommandsStay, Receipted, ReceiptFor
        <5> QED
          BY <2>1, <4>1, <5>2 DEF Receipted
      <4>4. Pending(p)'
        BY <1>1, <2>1, <3>1, <3>4, <4>1, <4>3 DEF Pending, Untouched
      <4> QED
        BY <1>1, <2>1, <3>1, <3>2, <4>4 DEF CallInv
    <3> QED
      BY <3>3, <3>4
  <2> QED
    BY <2>2, <2>3
<1> QED
  BY <1>1, <1>4, <1>5, <1>6 DEF ToolsInv

(***************************************************************************)
(* Every step keeps the invariant.                                         *)
(***************************************************************************)
LEMMA Inductive ==
    ASSUME ToolsInv, [Next]_vars
    PROVE  ToolsInv'
<1>1. ASSUME NEW p \in Calls, NEW e \in Executions[p], Execute(p, e) PROVE ToolsInv'
  BY <1>1, ExecuteKeeps
<1>2. ASSUME NEW p \in Calls, Invoke(p) PROVE ToolsInv'
  BY <1>2, InvokeKeeps
<1>3. ASSUME NEW p \in Calls, HandlerRefuses(p) PROVE ToolsInv'
  BY <1>3, HandlerRefusesKeeps
<1>4. ASSUME NEW p \in Calls, Provide(p) PROVE ToolsInv'
  BY <1>4, ProvideKeeps
<1>5. ASSUME NEW p \in Calls, FailCall(p) PROVE ToolsInv'
  BY <1>5, FailCallKeeps
<1>6. ASSUME NEW p \in Calls, LedgerStep(p) PROVE ToolsInv'
  BY <1>6, LedgerStepKeeps
<1>7. CASE UNCHANGED vars
  <2>1. /\ LedgerTypes' /\ CommandsStay /\ open' = open /\ request' = request
        /\ answer' = answer
    BY <1>7, LedgerRests DEF ToolsInv, vars
  <2>2. UNCHANGED <<phase, execution, remote, told, refusal, effect>>
    BY <1>7 DEF vars, toolVars, history
  <2>3. ASSUME NEW q \in Calls PROVE CallInv(q)'
    BY <2>1, <2>2, Frame DEF ToolsInv
  <2> QED
    BY <2>1, <2>2, <2>3 DEF ToolsInv, Shapes
<1> QED
  BY <1>1, <1>2, <1>3, <1>4, <1>5, <1>6, <1>7 DEF Next, ToolStep

(***************************************************************************)
(* The invariant holds always.                                             *)
(***************************************************************************)
LEMMA Invariant == Spec => []ToolsInv
<1>1. Init => ToolsInv
  BY Initially
<1>2. ToolsInv /\ [Next]_vars => ToolsInv'
  BY Inductive
<1> QED
  BY <1>1, <1>2, PTL DEF Spec
-----------------------------------------------------------------------------
(***************************************************************************)
(* Every variable keeps its type.                                          *)
(***************************************************************************)
THEOREM TypeCorrect == Spec => []ToolsTypeOK
<1>1. ToolsInv => ToolsTypeOK
  <2> SUFFICES ASSUME ToolsInv PROVE ToolsTypeOK
    OBVIOUS
  <2>1. Ledger!TypeOK /\ Shapes
    BY LedgerTypesAgree DEF ToolsInv
  <2>2. ASSUME NEW p \in Calls
        PROVE  /\ execution[p] \in Executions[p] \cup {None}
               /\ told[p] # None =>
                    told[p].kind \in Rejections \cup {"Success", "Runtime"}
               /\ phase[p] # "idle" => told[p] = None /\ execution[p].decodes
    BY DEF ToolsInv, CallInv, Busy, Told
  <2> QED
    BY <2>1, <2>2 DEF ToolsTypeOK, Shapes
<1> QED
  BY <1>1, Invariant, PTL

(***************************************************************************)
(* A rejected execution has changed nothing and never will: of a call that *)
(* may still take effect the agent is never told that it was refused       *)
(* (agent lib.rs:50-56, 230-258).                                          *)
(***************************************************************************)
THEOREM RejectedForGood == Spec => []RejectionsAreFinal
<1>1. ToolsInv => RejectionsAreFinal
  BY DEF ToolsInv, CallInv, Busy, Told, Untouched, RejectionsAreFinal
<1> QED
  BY <1>1, Invariant, PTL

(***************************************************************************)
(* Success of a mutating tool is backed by a committed receipt of exactly  *)
(* the arguments given, then and for ever after (agent lib.rs:195-210).    *)
(***************************************************************************)
THEOREM SucceededForGood == Spec => []SuccessIsDurable
<1>1. ToolsInv => SuccessIsDurable
  BY DEF ToolsInv, CallInv, Busy, Told, Receipted, SuccessIsDurable
<1> QED
  BY <1>1, Invariant, PTL

(***************************************************************************)
(* No code of the provider's turns into another on its way to the agent,   *)
(* whatever the later version of the contract adds (agent lib.rs:230-258,  *)
(* generated.rs:795-1218).                                                 *)
(***************************************************************************)
THEOREM ReasonsArrive == Spec => []ReasonsSurvive
<1>1. ToolsInv => ReasonsSurvive
  <2> SUFFICES ASSUME ToolsInv, NEW p \in Calls, refusal[p] # None, phase[p] = "idle"
               PROVE  \/ told[p].kind = "Runtime"
                      \/ Names(told[p], refusal[p])
    BY DEF ReasonsSurvive, Names
  <2> QED
    BY DEF ToolsInv, CallInv, Told
<1> QED
  BY <1>1, Invariant, PTL

(***************************************************************************)
(* What one mutation changes is what the name of its tool tells.           *)
(***************************************************************************)
LEMMA ApplyDoesAsNamed ==
    ASSUME LedgerTypes, NEW p \in Calls, NEW id \in ActivityIds,
           Ledger!Apply(p, id), execution[p] \in Executions[p], Mutates(p),
           request[p] = execution[p].asks,
           NEW h \in Holds,
           \/ legal_holds[h]' # legal_holds[h]
           \/ legal_hold_scopes[h]' # legal_hold_scopes[h]
    PROVE  ChangesAllowed(execution[p].name, h)
<1> DEFINE r == request[p]
           name == execution[p].name
           row == legal_holds[h]
<1>1. /\ r \in Requests /\ r.op \in Operations
      /\ r.op = "create_hold" <=> name = "legal_hold_create"
      /\ r.op = "add_scope" <=> name = "legal_hold_add_scope"
      /\ r.op = "remove_scope" <=> name = "legal_hold_remove_scope"
      /\ r.op = "release_hold" <=> name = "legal_hold_release"
  <2>1. /\ r \in Requests
        /\ <<name, r.op>> \in
             {<<"legal_hold_create", "create_hold">>,
              <<"legal_hold_add_scope", "add_scope">>,
              <<"legal_hold_remove_scope", "remove_scope">>,
              <<"legal_hold_release", "release_hold">>}
    BY ToolsAssumption DEF Mutates
  <2> QED
    BY <2>1 DEF Operations
<1>2. Applicable(r)
  BY SameData DEF Ledger!Apply, Legal
<1>3. /\ legal_holds' = [legal_holds EXCEPT ![r.hold] = RowAfter(r)]
      /\ legal_hold_scopes' = [legal_hold_scopes EXCEPT ![r.hold] = ScopeSetAfter(r)]
  BY SameData DEF Ledger!Apply
<1>4. h = r.hold /\ row' = RowAfter(r) /\ legal_hold_scopes'[h] = ScopeSetAfter(r)
  BY <1>1, <1>3, RequestTypes DEF LedgerTypes, TablesTypeOK
<1>5. ExecutionClass(name) = "Exclusive"
  BY DEF Mutates, MutationTools, ExecutionClass, ReadTools
<1>6. row = None => name = "legal_hold_create"
  BY <1>1, <1>2, <1>4 DEF Applicable, Current, Visible
<1>7. row # None => (row'.status = "released") = (name = "legal_hold_release")
  <2>1. ASSUME row # None PROVE Current(r) /\ r.op # "create_hold" /\ row \in HoldRow
    BY <1>1, <1>2, <1>4, <2>1
       DEF Applicable, ScopeOperations, LedgerTypes, TablesTypeOK
  <2>2. ASSUME row # None, r.op = "release_hold" PROVE row'.status = "released"
    BY <1>4, <2>1, <2>2 DEF RowAfter, ReleaseRow, HoldRow
  <2>3. ASSUME row # None, r.op # "release_hold" PROVE row'.status = "active"
    BY <1>4, <2>1, <2>3 DEF RowAfter, AdvanceRow, HoldRow, Current
  <2> QED
    BY <1>1, <2>2, <2>3
<1>8. /\ legal_hold_scopes'[h] \ legal_hold_scopes[h] # {} =>
           name = "legal_hold_add_scope"
      /\ legal_hold_scopes[h] \ legal_hold_scopes'[h] # {} =>
           name = "legal_hold_remove_scope"
  BY <1>1, <1>4 DEF ScopeSetAfter, ScopesAfter, ScopeOperations, Operations
<1> QED
  BY <1>5, <1>6, <1>7, <1>8 DEF ChangesAllowed

(***************************************************************************)
(* Tools do what the catalogue says of them, at the time of the call or    *)
(* later, whatever else runs: those that may run in parallel change        *)
(* nothing (agent lib.rs:113-170).                                         *)
(***************************************************************************)
THEOREM CatalogueIsTrue == Spec => ToolsDoWhatTheySay
<1> DEFINE Says ==
        \A p \in Calls : (effect'[p] /\ ~effect[p]) =>
          \A h \in Holds :
            (legal_holds[h]' # legal_holds[h]
              \/ legal_hold_scopes[h]' # legal_hold_scopes[h]) =>
                ChangesAllowed(execution[p].name, h)
<1>1. ToolsInv /\ [Next]_vars => [Says]_vars
  <2> SUFFICES ASSUME ToolsInv, Next,
                      NEW p \in Calls, effect'[p], ~effect[p],
                      NEW h \in Holds,
                      \/ legal_holds[h]' # legal_holds[h]
                      \/ legal_hold_scopes[h]' # legal_hold_scopes[h]
               PROVE  ChangesAllowed(execution[p].name, h)
    BY DEF vars
  <2>1. PICK q \in Calls : \/ \E e \in Executions[q] : Execute(q, e)
                           \/ ToolStep(q)
                           \/ LedgerStep(q)
    BY DEF Next
  <2>2. effect \in [Calls -> BOOLEAN]
    BY DEF ToolsInv, Shapes
  <2>3. LedgerStep(q) /\ q = p
    BY <2>1, <2>2 DEF Execute, ToolStep, Invoke, HandlerRefuses, Provide, FailCall,
       LedgerStep, history
  <2>4. tables' # tables
    BY <2>2, <2>3 DEF LedgerStep
  <2>5. PICK id \in ActivityIds : Ledger!Apply(p, id)
    BY <2>3, <2>4, OtherStepsServe
       DEF LedgerStep, Ledger!Step, ToolsInv, Ledger!DomainFailures, DomainFailures
  <2>6. /\ execution[p] \in Executions[p] /\ Mutates(p)
        /\ request[p] = execution[p].asks
    <3>1. CallInv(p) /\ open[p] /\ phase[p] \in {"idle", "called", "provided"}
      BY <2>5 DEF ToolsInv, Shapes, Ledger!Apply
    <3>2. CASE phase[p] = "idle"
      BY <3>1, <3>2 DEF CallInv, Told
    <3> QED
      BY <3>1, <3>2 DEF CallInv, Busy, Pending, Untouched
  <2> QED
    BY <2>5, <2>6, ApplyDoesAsNamed DEF ToolsInv
<1> QED
  BY <1>1, Invariant, PTL DEF Spec, ToolsDoWhatTheySay

-----------------------------------------------------------------------------
(***************************************************************************)
(* The adapter keeps to the ledger: what agents ask for reaches storage as *)
(* requests of the contract, one at a time of each call                    *)
(* (agent lib.rs:195-210).                                                 *)
(***************************************************************************)
THEOREM ToolsKeepLedger == Spec => Ledger!Spec
<1>1. Init => Ledger!Init
  BY DEF Init
<1>2. ToolsInv /\ [Next]_vars => [Ledger!Next]_(Ledger!vars)
  <2> SUFFICES ASSUME ToolsInv, [Next]_vars
               PROVE  Ledger!Next \/ UNCHANGED ledgerVars
    BY LedgerStutters
  <2>1. ASSUME NEW p \in Calls, NEW e \in Executions[p], Execute(p, e)
        PROVE  UNCHANGED ledgerVars
    BY <2>1 DEF Execute
  <2>2. ASSUME NEW p \in Calls, Invoke(p)
        PROVE  Ledger!Next \/ UNCHANGED ledgerVars
    <3>1. CASE ~Mutates(p)
      BY <2>2, <3>1 DEF Invoke
    <3>2. CASE Mutates(p)
      <4>1. Busy(p)
        BY <2>2 DEF Invoke, ToolsInv, CallInv
      <4>2. execution[p].asks \in Requests /\ Ledger!Begin(p, execution[p].asks)
        BY <2>2, <3>2, <4>1, SentAsAsked DEF Busy, Invoke
      <4> QED
        BY <4>2 DEF Ledger!Next
    <3> QED
      BY <3>1, <3>2
  <2>3. ASSUME NEW p \in Calls, HandlerRefuses(p) \/ Provide(p) \/ FailCall(p)
        PROVE  UNCHANGED ledgerVars
    BY <2>3 DEF HandlerRefuses, Provide, FailCall
  <2>4. ASSUME NEW p \in Calls, LedgerStep(p)
        PROVE  Ledger!Next
    BY <2>4 DEF LedgerStep, Ledger!Next
  <2>5. CASE UNCHANGED vars
    BY <2>5 DEF vars
  <2> QED
    BY <2>1, <2>2, <2>3, <2>4, <2>5 DEF Next, ToolStep
<1> QED
  BY <1>1, <1>2, Invariant, PTL DEF Spec, Ledger!Spec

(***************************************************************************)
(* So all that the ledger promises of its tables and of its answers is so  *)
(* behind the tools, of which some are lost and some come late.            *)
(***************************************************************************)
THEOREM TablesKept ==
    Spec => /\ []HistoryInv /\ []SuccessesReceipted
            /\ ReceiptsPermanent /\ ReleasedHoldsImmutable
            /\ ActivityAppearsInOrder
<1>1. LedgerTypes /\ HistoryInv => HistoryInv
  OBVIOUS
<1> QED
  BY <1>1, ToolsKeepLedger, LedgerHistory, LedgerIsDurable, LedgerKeepsTables, PTL
=============================================================================
