------------------------ MODULE LegalHoldPluginProofs ------------------------
(***************************************************************************)
(* Proofs about LegalHoldPlugin: who is answered, what refusals and        *)
(* answers say, and what a deactivated instance may still write, for any   *)
(* number of calls, connections and activations.                           *)
(***************************************************************************)
EXTENDS LegalHoldPlugin, HoldStoreProofs

-----------------------------------------------------------------------------
(***************************************************************************)
(* The inductive invariant: the types, and of each call what its handler   *)
(* has established at the await it is suspended at.                        *)
(***************************************************************************)
HandlerTypes ==
    /\ handler \in [Calls -> Suspended \cup {"idle"}]
    /\ invocation \in [Calls -> Invocations \cup {None}]
    /\ pool \in [Calls -> {0} \cup Pools]
    /\ response \in [Calls -> Responses \cup {None}]
    /\ authority \in [Calls -> 0..2] /\ doubt \in [Calls -> BOOLEAN]

LifecycleTypes ==
    /\ members \subseteq Memberships /\ granted \subseteq Grants
    /\ prepared \in {0} \cup Pools
    /\ pools \in [Pools -> {"unopened", "open", "closing", "closed"}]
    /\ activation \in {None, "secret", "schema"} /\ schema_current \in BOOLEAN
    /\ prepared # 0 => pools[prepared] = "open" /\ activation = None /\ schema_current
    /\ \A g \in Pools : pools[g] = "open" => prepared = g

Connected == {"acquire", "storage", "return"}

(***************************************************************************)
(* Of an administrative call under way, authority and doubt have taken     *)
(* note of what the two dependencies would answer now.                     *)
(***************************************************************************)
Witnessed(p) ==
    /\ Member(Asks(p)) => authority[p] # 0
    /\ Granted(Asks(p)) /\ authority[p] # 0 => authority[p] = 2
    /\ ~(Member(Asks(p)) /\ Granted(Asks(p))) => doubt[p]

Checked(p) ==
    /\ handler[p] # "idle" => invocation[p] \in Invocations
    /\ handler[p] \in {"membership", "access"} =>
         ~Guards(Asks(p)) /\ Listed(p) /\ invocation[p].authentic
    /\ handler[p] = "access" => authority[p] # 0
    /\ handler[p] \in {"membership", "access"} => Witnessed(p)
    /\ handler[p] \in Connected \/ response[p] \notin Unauthorized => Authorized(p)
    /\ response[p] = "Forbidden" => ~Listed(p) \/ doubt[p]
    /\ handler[p] \in {"acquire", "storage"} => invocation[p].valid
    /\ response[p] = "InvalidRequest" => ~invocation[p].valid
    /\ handler[p] = "acquire" => response[p] = None
    /\ handler[p] \in Connected => pool[p] \in Pools /\ schema_current
    /\ response[p] \in {"Ok"} \cup DomainFailures => schema_current

(***************************************************************************)
(* What a call may still do to the tables, and what it was told of it.     *)
(***************************************************************************)
HasReceipt(p) ==
    ReceiptFor(Asks(p)) # None /\ ReceiptFor(Asks(p)).hash = HashOf(Asks(p))

Storing(p) ==
    /\ ~Mutates(Asks(p)) => ~open[p]
    /\ Mutates(Asks(p)) =>
         /\ request[p] = Asks(p)
         /\ answer[p] # None =>
              \/ answer[p].outcome = "Ok" /\ HasReceipt(p)
              \/ /\ answer[p].outcome \in DomainFailures /\ ~open[p]
                 /\ Asks(p).op = "create_hold" =>
                      answer[p].outcome = "IdempotencyConflict"
              \/ answer[p].outcome = "PluginFailure"

(***************************************************************************)
(* A mutation that is refused is refused as storage answered this request. *)
(***************************************************************************)
RefusedSo(p) ==
    Mutates(Asks(p)) =>
        /\ request[p] = Asks(p) /\ answer[p] # None
        /\ answer[p].outcome = response[p]

Effects(p) ==
    /\ handler[p] \in {"membership", "access", "acquire"} => ~open[p]
    /\ handler[p] = "storage" =>
         Storing(p) /\ pools[pool[p]] \in {"open", "closing"}
    /\ handler[p] # "storage" /\ open[p] => answer[p] # None
    /\ response[p] = "Ok" /\ Mutates(Asks(p)) =>
         invocation[p] \in Invocations /\ HasReceipt(p)
    /\ response[p] \in DomainFailures => ~open[p] /\ RefusedSo(p)

PluginInv ==
    /\ LedgerTypes /\ HandlerTypes /\ LifecycleTypes
    /\ \A p \in Calls : Checked(p) /\ Effects(p)

(***************************************************************************)
(* What an invocation may ask for.                                         *)
(***************************************************************************)
LEMMA AskTypes ==
    ASSUME NEW i \in Invocations
    PROVE  /\ i \in Invocation /\ i # None
           /\ Mutates(i.asks) => i.asks \in Requests /\ ~Guards(i.asks)
           /\ ~Mutates(i.asks) => i.asks.op \in {"get_hold", "check_retention"}
           /\ i.valid \in BOOLEAN /\ i.authentic \in BOOLEAN
<1>1. i \in Invocation /\ i # None
  BY PluginAssumption
<1>2. i.asks \in Requests \/ i.asks \in Query
  BY <1>1 DEF Invocation
<1>3. i.asks \in Requests => i.asks.op \in Operations
  BY RequestsAssumption DEF Request
<1>4. i.asks \in Query => i.asks.op \in {"get_hold", "check_retention"}
  BY DEF Query
<1> QED
  BY <1>1, <1>2, <1>3, <1>4 DEF Invocation, Mutates, Guards, Operations

(***************************************************************************)
(* A handler moves to an await, with a pool and a response.                *)
(***************************************************************************)
Moves(p, await, connections_of, outcome) ==
    /\ handler' = [handler EXCEPT ![p] = await]
    /\ pool' = [pool EXCEPT ![p] = connections_of]
    /\ response' = [response EXCEPT ![p] = outcome]

(***************************************************************************)
(* Where a handler that moves then stands, and that the others stay.       *)
(***************************************************************************)
LEMMA MoveEffect ==
    ASSUME HandlerTypes, NEW p \in Calls,
           NEW w \in Suspended \cup {"idle"}, NEW g \in {0} \cup Pools,
           NEW o \in Responses \cup {None}, Moves(p, w, g, o)
    PROVE  /\ handler' \in [Calls -> Suspended \cup {"idle"}]
           /\ pool' \in [Calls -> {0} \cup Pools]
           /\ response' \in [Calls -> Responses \cup {None}]
           /\ handler'[p] = w /\ pool'[p] = g /\ response'[p] = o
           /\ \A q \in Calls \ {p} : /\ handler'[q] = handler[q]
                                     /\ pool'[q] = pool[q]
                                     /\ response'[q] = response[q]
BY DEF HandlerTypes, Moves

(***************************************************************************)
(* A call that takes no step keeps what its handler has established.       *)
(***************************************************************************)
LEMMA OthersStay ==
    ASSUME PluginInv, NEW q \in Calls,
           handler'[q] = handler[q], invocation'[q] = invocation[q],
           pool'[q] = pool[q], response'[q] = response[q],
           authority'[q] = authority[q], doubt'[q] = doubt[q],
           members' = members, granted' = granted,
           schema_current => schema_current'
    PROVE  Checked(q)'
<1>1. Checked(q)
  BY DEF PluginInv
<1>2. Asks(q)' = Asks(q)
  BY DEF Asks
<1>3. (Listed(q)' <=> Listed(q)) /\ (Authorized(q)' <=> Authorized(q))
  BY <1>2 DEF Listed, Authorized, Guards
<1>4. Witnessed(q)' <=> Witnessed(q)
  BY <1>2 DEF Witnessed, Member, Granted
<1> QED
  BY <1>1, <1>2, <1>3, <1>4 DEF Checked, Guards

(***************************************************************************)
(* A call keeps its receipt while receipts stay.                           *)
(***************************************************************************)
LEMMA HasReceiptStays ==
    ASSUME NEW q \in Calls, CommandsStay, invocation[q] \in Invocations,
           Mutates(Asks(q)), HasReceipt(q), Asks(q)' = Asks(q)
    PROVE  HasReceipt(q)'
<1>1. PICK r \in Requests : r = Asks(q)
  BY AskTypes DEF Asks
<1>2. CommandKeyOf(r) \in CommandKey
  BY RequestTypes
<1>3. legal_hold_commands[CommandKeyOf(r)] # None
  BY <1>1 DEF HasReceipt, ReceiptFor
<1>4. legal_hold_commands'[CommandKeyOf(r)] = legal_hold_commands[CommandKeyOf(r)]
  BY <1>2, <1>3 DEF CommandsStay
<1> QED
  BY <1>1, <1>4 DEF HasReceipt, ReceiptFor

(***************************************************************************)
(* Nor does a call lose what it has stored, while receipts stay.           *)
(***************************************************************************)
LEMMA OthersKeepEffects ==
    ASSUME PluginInv, NEW q \in Calls, CommandsStay,
           handler'[q] = handler[q], invocation'[q] = invocation[q],
           pool'[q] = pool[q], response'[q] = response[q],
           open'[q] = open[q], request'[q] = request[q], answer'[q] = answer[q],
           handler[q] = "storage" => pools'[pool[q]] \in {"open", "closing"}
    PROVE  Effects(q)'
<1>1. Effects(q) /\ Checked(q)
  BY DEF PluginInv
<1>2. Asks(q)' = Asks(q)
  BY DEF Asks
<1>3. ASSUME invocation[q] \in Invocations, Mutates(Asks(q)), HasReceipt(q)
      PROVE  HasReceipt(q)'
  BY <1>2, <1>3, HasReceiptStays
<1>4. handler[q] = "storage" /\ Storing(q) => Storing(q)'
  BY <1>1, <1>2, <1>3 DEF Checked, Storing, Mutates
<1>5. RefusedSo(q) => RefusedSo(q)'
  BY <1>2 DEF RefusedSo, Mutates
<1> QED
  BY <1>1, <1>2, <1>3, <1>4, <1>5 DEF Effects, Mutates

-----------------------------------------------------------------------------
(***************************************************************************)
(* A step of one handler, the ledger, the dependencies and the lifecycle   *)
(* standing still: the invariant is kept if that handler keeps its part.   *)
(***************************************************************************)
Still == UNCHANGED <<ledgerVars, environment, lifecycle>>

(***************************************************************************)
(* What stands still, variable by variable.                                *)
(***************************************************************************)
LEMMA StillMeans ==
    ASSUME Still
    PROVE  /\ UNCHANGED tables /\ open' = open /\ request' = request /\ answer' = answer
           /\ members' = members /\ granted' = granted
           /\ prepared' = prepared /\ pools' = pools
           /\ activation' = activation /\ schema_current' = schema_current
           /\ CommandsStay
BY DEF Still, ledgerVars, environment, lifecycle, tables, CommandsStay

(***************************************************************************)
(* One handler moves.                                                      *)
(***************************************************************************)
LEMMA OneHandler ==
    ASSUME PluginInv, Still, NEW p \in Calls,
           NEW w \in Suspended \cup {"idle"}, NEW g \in {0} \cup Pools,
           NEW o \in Responses \cup {None}, Moves(p, w, g, o),
           invocation' \in [Calls -> Invocations \cup {None}],
           authority' \in [Calls -> 0..2], doubt' \in [Calls -> BOOLEAN],
           \A q \in Calls \ {p} : /\ invocation'[q] = invocation[q]
                                 /\ authority'[q] = authority[q]
                                 /\ doubt'[q] = doubt[q],
           Checked(p)', Effects(p)'
    PROVE  PluginInv'
<1>1. LedgerTypes' /\ LifecycleTypes'
  BY StillMeans DEF PluginInv, LedgerTypes, TablesTypeOK, tables, LifecycleTypes
<1>2. HandlerTypes'
  BY MoveEffect DEF PluginInv, HandlerTypes
<1>3. ASSUME NEW q \in Calls \ {p}
      PROVE  Checked(q)' /\ Effects(q)'
  <2>1. handler'[q] = handler[q] /\ pool'[q] = pool[q] /\ response'[q] = response[q]
    BY MoveEffect DEF PluginInv
  <2>2. Checked(q)'
    BY <2>1, StillMeans, OthersStay
  <2>3. handler[q] = "storage" => pools'[pool[q]] \in {"open", "closing"}
    BY StillMeans DEF PluginInv, Effects
  <2>4. Effects(q)'
    BY <2>1, <2>3, StillMeans, OthersKeepEffects
  <2> QED
    BY <2>2, <2>4
<1> QED
  BY <1>1, <1>2, <1>3 DEF PluginInv

(***************************************************************************)
(* A call that returns before it held a connection, or waits for one, has  *)
(* left nothing in the ledger.                                             *)
(***************************************************************************)
LEMMA EarlyEffects ==
    ASSUME NEW p \in Calls, ~open'[p],
           handler'[p] # "storage",
           response'[p] \in {None, "Forbidden", "Unauthenticated", "InvalidRequest",
                            "PluginFailure"}
    PROVE  Effects(p)'
<1>1. None # "Ok" /\ None \notin DomainFailures
  BY PluginAssumption DEF Responses, Failures
<1> QED
  BY <1>1 DEF Effects, DomainFailures

(***************************************************************************)
(* Prepare answers invalid fields, a missing pool, or waits for one.       *)
(***************************************************************************)
LEMMA PrepareKeepsInv ==
    ASSUME PluginInv, Still, NEW p \in Calls, NEW i \in Invocations, Prepare(p, i),
           ~open[p],
           invocation' = [invocation EXCEPT ![p] = i],
           authority' \in [Calls -> 0..2], doubt' \in [Calls -> BOOLEAN],
           \A q \in Calls \ {p} : authority'[q] = authority[q] /\ doubt'[q] = doubt[q],
           Authorized(p)'
    PROVE  PluginInv'
<1>1. /\ invocation' \in [Calls -> Invocations \cup {None}] /\ invocation'[p] = i
      /\ \A q \in Calls \ {p} : invocation'[q] = invocation[q]
  BY DEF PluginInv, HandlerTypes
<1>2. prepared \in {0} \cup Pools /\ (prepared # 0 => schema_current)
  BY DEF PluginInv, LifecycleTypes
<1>3. schema_current' = schema_current /\ ~open'[p]
  BY StillMeans
<1>4. None \notin Responses
  BY PluginAssumption
<1>5. CASE ~i.valid /\ Respond(p, "InvalidRequest")
  <2>1. Moves(p, "idle", 0, "InvalidRequest") /\ "InvalidRequest" \in Responses
    BY <1>5 DEF Respond, Moves, Responses
  <2>2. handler'[p] = "idle" /\ response'[p] = "InvalidRequest"
    BY <2>1, MoveEffect DEF PluginInv
  <2>3. Checked(p)'
    BY <1>1, <1>5, <2>2 DEF Checked, Connected, DomainFailures
  <2>4. Effects(p)'
    BY <1>3, <2>2, EarlyEffects
  <2> QED
    BY <1>1, <2>1, <2>3, <2>4, OneHandler
<1>6. CASE Respond(p, "PluginFailure")
  <2>1. Moves(p, "idle", 0, "PluginFailure") /\ "PluginFailure" \in Responses
    BY <1>6 DEF Respond, Moves, Responses, Failures
  <2>2. handler'[p] = "idle" /\ response'[p] = "PluginFailure"
    BY <2>1, MoveEffect DEF PluginInv
  <2>3. Checked(p)'
    BY <1>1, <2>2 DEF Checked, Connected, DomainFailures, Unauthorized
  <2>4. Effects(p)'
    BY <1>3, <2>2, EarlyEffects
  <2> QED
    BY <1>1, <2>1, <2>3, <2>4, OneHandler
<1>7. CASE i.valid /\ prepared # 0 /\ Suspend(p, "acquire", prepared)
  <2>1. PICK g \in Pools : g = prepared
    BY <1>2, <1>7
  <2>2. Moves(p, "acquire", g, None)
    BY <1>7, <2>1 DEF Suspend, Moves
  <2>0. "acquire" \in Suspended \cup {"idle"} /\ None \in Responses \cup {None}
        /\ g \in {0} \cup Pools /\ HandlerTypes
    BY DEF Suspended, PluginInv
  <2>3. handler'[p] = "acquire" /\ response'[p] = None /\ pool'[p] = g
    BY <2>0, <2>2 DEF HandlerTypes, Moves
  <2>4. Checked(p)'
    BY <1>1, <1>2, <1>3, <1>4, <1>7, <2>3
       DEF Checked, Connected, DomainFailures, Unauthorized, Responses, Failures
  <2>5. Effects(p)'
    BY <1>3, <2>3, EarlyEffects
  <2> QED
    BY <1>1, <2>0, <2>2, <2>4, <2>5, OneHandler
<1> QED
  BY <1>5, <1>6, <1>7 DEF Prepare

-----------------------------------------------------------------------------
(***************************************************************************)
(* Nothing has happened yet.                                               *)
(***************************************************************************)
LEMMA InitPluginInv == Init => PluginInv
<1> SUFFICES ASSUME Init PROVE PluginInv
  OBVIOUS
<1>1. LedgerTypes
  BY LedgerStarts DEF Init
<1>2. HandlerTypes
  BY DEF Init, HandlerTypes
<1>3. LifecycleTypes
  BY DEF Init, LifecycleTypes
<1>4. ASSUME NEW p \in Calls PROVE Checked(p) /\ Effects(p)
  <2>1. handler[p] = "idle" /\ response[p] = None /\ ~open[p]
    BY DEF Init, Ledger!Init
  <2>2. None \notin Responses
    BY PluginAssumption
  <2> QED
    BY <2>1, <2>2 DEF Checked, Effects, Connected, Unauthorized, Responses, Failures,
       DomainFailures
<1> QED
  BY <1>1, <1>2, <1>3, <1>4 DEF PluginInv

(***************************************************************************)
(* An invocation arrives.                                                  *)
(***************************************************************************)
LEMMA ReceiveKeepsInv ==
    ASSUME PluginInv, NEW p \in Calls, NEW i \in Invocations, Receive(p, i)
    PROVE  PluginInv'
<1>1. Still /\ ~open[p] /\ ~open'[p] /\ members' = members /\ granted' = granted
  BY StillMeans DEF Receive, Still
<1>2. invocation' = [invocation EXCEPT ![p] = i]
  BY DEF Receive
<1>3. /\ invocation' \in [Calls -> Invocations \cup {None}] /\ invocation'[p] = i
      /\ \A q \in Calls \ {p} : invocation'[q] = invocation[q]
      /\ Asks(p)' = i.asks
  BY <1>2 DEF PluginInv, HandlerTypes, Asks
<1>4. /\ authority' \in [Calls -> 0..2] /\ doubt' \in [Calls -> BOOLEAN]
      /\ \A q \in Calls \ {p} : authority'[q] = authority[q] /\ doubt'[q] = doubt[q]
  <2>1. PICK n \in 0..2, b \in BOOLEAN : /\ authority' = [authority EXCEPT ![p] = n]
                                      /\ doubt' = [doubt EXCEPT ![p] = b]
    <3>1. Seen(0, Member(i.asks), Granted(i.asks)) \in 0..2
      BY DEF Seen
    <3>2. CASE Guards(i.asks)
      <4>1. /\ authority' = [authority EXCEPT ![p] = 0]
            /\ doubt' = [doubt EXCEPT ![p] = FALSE]
        BY <3>2, Zenon DEF Receive
      <4>2. 0 \in 0..2
        OBVIOUS
      <4> QED
        BY <4>1, <4>2, Zenon
    <3>3. CASE ~Guards(i.asks)
      <4> DEFINE n == Seen(0, Member(i.asks), Granted(i.asks))
                 b == ~(Member(i.asks) /\ Granted(i.asks))
      <4>1. authority' = [authority EXCEPT ![p] = n] /\ doubt' = [doubt EXCEPT ![p] = b]
        BY <3>3, Zenon DEF Receive
      <4>2. b \in BOOLEAN
        BY Zenon
      <4> HIDE DEF n, b
      <4> QED
        BY <3>1, <4>1, <4>2, Zenon DEF n
    <3> QED
      BY <3>2, <3>3
  <2> QED
    BY <2>1 DEF PluginInv, HandlerTypes
<1>5. ~Guards(i.asks) =>
        /\ authority'[p] = Seen(0, Member(i.asks), Granted(i.asks))
        /\ doubt'[p] = ~(Member(i.asks) /\ Granted(i.asks))
  BY DEF PluginInv, HandlerTypes, Receive
<1>6. AllowedCaller(i.asks) <=> Listed(p)'
  BY <1>3 DEF AllowedCaller, Listed, Guards
<1>7. None \notin Responses
  BY PluginAssumption
<1>8. HandlerTypes
  BY DEF PluginInv
<1>9. CASE ~AllowedCaller(i.asks) /\ Respond(p, "Forbidden")
  <2>1. Moves(p, "idle", 0, "Forbidden") /\ "Forbidden" \in Responses
    BY <1>9 DEF Respond, Moves, Responses
  <2>2. handler'[p] = "idle" /\ response'[p] = "Forbidden"
    BY <1>8, <2>1 DEF HandlerTypes, Moves
  <2>3. Checked(p)'
    BY <1>6, <1>9, <2>2 DEF Checked, Connected, DomainFailures, Unauthorized
  <2>4. Effects(p)'
    BY <1>1, <2>2, EarlyEffects
  <2> QED
    BY <1>1, <1>3, <1>4, <2>1, <2>3, <2>4, OneHandler
<1>10. CASE AllowedCaller(i.asks) /\ Guards(i.asks) /\ Prepare(p, i)
  <2>1. Authorized(p)'
    BY <1>3, <1>6, <1>10 DEF Authorized, Guards
  <2> QED
    BY <1>1, <1>2, <1>4, <1>10, <2>1, PrepareKeepsInv
<1>11. CASE /\ AllowedCaller(i.asks) /\ ~Guards(i.asks) /\ ~i.authentic
            /\ Respond(p, "Unauthenticated")
  <2>1. Moves(p, "idle", 0, "Unauthenticated") /\ "Unauthenticated" \in Responses
    BY <1>11 DEF Respond, Moves, Responses
  <2>2. handler'[p] = "idle" /\ response'[p] = "Unauthenticated"
    BY <1>8, <2>1 DEF HandlerTypes, Moves
  <2>3. Checked(p)'
    BY <2>2 DEF Checked, Connected, DomainFailures, Unauthorized
  <2>4. Effects(p)'
    BY <1>1, <2>2, EarlyEffects
  <2> QED
    BY <1>1, <1>3, <1>4, <2>1, <2>3, <2>4, OneHandler
<1>12. CASE /\ AllowedCaller(i.asks) /\ ~Guards(i.asks) /\ i.authentic
            /\ Suspend(p, "membership", 0)
  <2>1. Moves(p, "membership", 0, None) /\ "membership" \in Suspended \cup {"idle"}
    BY <1>12 DEF Suspend, Moves, Suspended
  <2>2. handler'[p] = "membership" /\ response'[p] = None
    BY <1>8, <2>1 DEF HandlerTypes, Moves
  <2>3. (Member(Asks(p))' <=> Member(i.asks)) /\ (Granted(Asks(p))' <=> Granted(i.asks))
        /\ ~Guards(Asks(p))'
    BY <1>1, <1>3, <1>12 DEF Member, Granted, Guards
  <2>4. Witnessed(p)'
    <3> DEFINE m == Member(i.asks)
               g == Granted(i.asks)
    <3>1. authority'[p] = Seen(0, m, g) /\ doubt'[p] = ~(m /\ g)
      BY <1>5, <1>12
    <3>2. (m => Seen(0, m, g) # 0) /\ (g /\ Seen(0, m, g) # 0 => Seen(0, m, g) = 2)
      BY DEF Seen
    <3> QED
      BY <2>3, <3>1, <3>2 DEF Witnessed
  <2>5. Checked(p)'
    BY <1>3, <1>6, <1>7, <1>12, <2>2, <2>3, <2>4
       DEF Checked, Connected, DomainFailures, Unauthorized, Responses, Failures
  <2>6. Effects(p)'
    BY <1>1, <2>2, EarlyEffects
  <2> QED
    BY <1>1, <1>3, <1>4, <2>1, <2>5, <2>6, OneHandler
<1> QED
  BY <1>9, <1>10, <1>11, <1>12 DEF Receive

-----------------------------------------------------------------------------
(***************************************************************************)
(* A handler moves on the invocation it has, with the history it has.      *)
(***************************************************************************)
LEMMA HandlerMoves ==
    ASSUME PluginInv, Still, UNCHANGED <<invocation, history>>, NEW p \in Calls,
           NEW w \in Suspended \cup {"idle"}, NEW g \in {0} \cup Pools,
           NEW o \in Responses \cup {None}, Moves(p, w, g, o),
           Checked(p)', Effects(p)'
    PROVE  PluginInv'
<1>1. invocation' = invocation /\ authority' = authority /\ doubt' = doubt
  BY DEF history
<1>2. /\ invocation' \in [Calls -> Invocations \cup {None}]
      /\ authority' \in [Calls -> 0..2] /\ doubt' \in [Calls -> BOOLEAN]
  BY <1>1 DEF PluginInv, HandlerTypes
<1> QED
  BY <1>1, <1>2, OneHandler

(***************************************************************************)
(* What does not depend on where the handler stands stays.                 *)
(***************************************************************************)
LEMMA SameInvocation ==
    ASSUME Still, UNCHANGED <<invocation, history>>, NEW p \in Calls
    PROVE  /\ invocation'[p] = invocation[p] /\ Asks(p)' = Asks(p)
           /\ authority'[p] = authority[p] /\ doubt'[p] = doubt[p]
           /\ Listed(p)' <=> Listed(p)
           /\ Authorized(p)' <=> Authorized(p)
           /\ Witnessed(p)' <=> Witnessed(p)
           /\ Storing(p)' <=> Storing(p)
           /\ HasReceipt(p)' <=> HasReceipt(p)
<1>1. /\ invocation' = invocation /\ authority' = authority /\ doubt' = doubt
      /\ Asks(p)' = Asks(p)
  BY DEF history, Asks
<1>2. Listed(p)' <=> Listed(p)
  BY <1>1 DEF Listed, Guards
<1>3. Authorized(p)' <=> Authorized(p)
  BY <1>1, <1>2 DEF Authorized, Guards
<1>4. Witnessed(p)' <=> Witnessed(p)
  BY <1>1, StillMeans DEF Witnessed, Member, Granted
<1>5. HasReceipt(p)' <=> HasReceipt(p)
  BY <1>1, StillMeans DEF HasReceipt, ReceiptFor, tables
<1>6. Storing(p)' <=> Storing(p)
  BY <1>1, <1>5, StillMeans DEF Storing, Mutates
<1> QED
  BY <1>1, <1>2, <1>3, <1>4, <1>5, <1>6

(***************************************************************************)
(* A call that has not reached the tables fails.                           *)
(***************************************************************************)
LEMMA FailureKeepsInv ==
    ASSUME PluginInv, Still, UNCHANGED <<invocation, history>>, NEW p \in Calls,
           ~open[p], Respond(p, "PluginFailure")
    PROVE  PluginInv'
<1>1. Moves(p, "idle", 0, "PluginFailure") /\ "PluginFailure" \in Responses
  BY DEF Respond, Moves, Responses, Failures
<1>2. handler'[p] = "idle" /\ response'[p] = "PluginFailure"
  BY <1>1, MoveEffect DEF PluginInv
<1>3. Checked(p)'
  BY <1>2 DEF Checked, Connected, DomainFailures, Unauthorized
<1>4. Effects(p)'
  BY <1>2, StillMeans, EarlyEffects
<1> QED
  BY <1>1, <1>3, <1>4, HandlerMoves

(***************************************************************************)
(* A call that a dependency refuses has been found in doubt.               *)
(***************************************************************************)
LEMMA RefusalKeepsInv ==
    ASSUME PluginInv, Still, UNCHANGED <<invocation, history>>, NEW p \in Calls,
           ~open[p], doubt[p], Respond(p, "Forbidden")
    PROVE  PluginInv'
<1>1. Moves(p, "idle", 0, "Forbidden") /\ "Forbidden" \in Responses
  BY DEF Respond, Moves, Responses
<1>2. handler'[p] = "idle" /\ response'[p] = "Forbidden"
  BY <1>1, MoveEffect DEF PluginInv
<1>3. Checked(p)'
  BY <1>2, SameInvocation DEF Checked, Connected, DomainFailures, Unauthorized
<1>4. Effects(p)'
  BY <1>2, StillMeans, EarlyEffects
<1> QED
  BY <1>1, <1>3, <1>4, HandlerMoves

(***************************************************************************)
(* The membership dependency answers.                                      *)
(***************************************************************************)
LEMMA MembershipKeepsInv ==
    ASSUME PluginInv, NEW p \in Calls, CheckMembership(p)
    PROVE  PluginInv'
<1>1. Still /\ UNCHANGED <<invocation, history>> /\ handler[p] = "membership"
  BY DEF CheckMembership, Still
<1>2. Checked(p) /\ Witnessed(p) /\ ~open[p]
  BY <1>1 DEF PluginInv, Checked, Effects
<1>3. CASE Member(Asks(p)) /\ Suspend(p, "access", 0)
  <2>1. Moves(p, "access", 0, None) /\ "access" \in Suspended \cup {"idle"}
    BY <1>3 DEF Suspend, Moves, Suspended
  <2>2. handler'[p] = "access" /\ response'[p] = None
    BY <2>1 DEF PluginInv, HandlerTypes, Moves
  <2>3. None \notin Responses
    BY PluginAssumption
  <2>4. Guards(Asks(p))' <=> Guards(Asks(p))
    BY <1>1, SameInvocation DEF Guards
  <2>5. Checked(p)'
    BY <1>1, <1>2, <1>3, <2>2, <2>3, <2>4, SameInvocation
       DEF Checked, Witnessed, Connected, DomainFailures, Unauthorized, Responses,
           Failures
  <2>6. Effects(p)'
    BY <1>1, <1>2, <2>2, StillMeans, EarlyEffects
  <2> QED
    BY <1>1, <2>1, <2>5, <2>6, HandlerMoves
<1>4. CASE ~Member(Asks(p)) /\ Respond(p, "Forbidden")
  BY <1>1, <1>2, <1>4, RefusalKeepsInv DEF Witnessed
<1>5. CASE Respond(p, "PluginFailure")
  BY <1>1, <1>2, <1>5, FailureKeepsInv
<1> QED
  BY <1>3, <1>4, <1>5 DEF CheckMembership

(***************************************************************************)
(* The access dependency answers.                                          *)
(***************************************************************************)
LEMMA PermissionKeepsInv ==
    ASSUME PluginInv, NEW p \in Calls, CheckPermission(p)
    PROVE  PluginInv'
<1>1. Still /\ UNCHANGED <<invocation, history>> /\ handler[p] = "access"
  BY DEF CheckPermission, Still
<1>2. Checked(p) /\ Witnessed(p) /\ ~open[p] /\ authority[p] # 0
  BY <1>1 DEF PluginInv, Checked, Effects
<1>3. CASE Granted(Asks(p)) /\ Prepare(p, invocation[p])
  <2>1. PICK i \in Invocations : i = invocation[p]
    BY <1>1, <1>2 DEF Checked
  <2>2. invocation' = [invocation EXCEPT ![p] = i]
    BY <1>1, <2>1 DEF PluginInv, HandlerTypes
  <2>3. Authorized(p)
    BY <1>1, <1>2, <1>3 DEF Checked, Witnessed, Authorized
  <2>4. /\ authority' \in [Calls -> 0..2] /\ doubt' \in [Calls -> BOOLEAN]
        /\ authority' = authority /\ doubt' = doubt
    BY <1>1 DEF PluginInv, HandlerTypes, history
  <2> QED
    BY <1>1, <1>2, <1>3, <2>1, <2>2, <2>3, <2>4, SameInvocation, PrepareKeepsInv
<1>4. CASE ~Granted(Asks(p)) /\ Respond(p, "Forbidden")
  BY <1>1, <1>2, <1>4, RefusalKeepsInv DEF Witnessed
<1>5. CASE Respond(p, "PluginFailure")
  BY <1>1, <1>2, <1>5, FailureKeepsInv
<1> QED
  BY <1>3, <1>4, <1>5 DEF CheckPermission

(***************************************************************************)
(* No connection is to be had.                                             *)
(***************************************************************************)
LEMMA AcquireFailsKeepsInv ==
    ASSUME PluginInv, NEW p \in Calls, AcquireFails(p)
    PROVE  PluginInv'
<1>1. Still /\ UNCHANGED <<invocation, history>> /\ handler[p] = "acquire"
  BY DEF AcquireFails, Still
<1>2. ~open[p]
  BY <1>1 DEF PluginInv, Effects
<1> QED
  BY <1>1, <1>2, FailureKeepsInv DEF AcquireFails

-----------------------------------------------------------------------------
(***************************************************************************)
(* A call that used the tables is answered as it was served.               *)
(***************************************************************************)
LEMMA AnsweredKeepsInv ==
    ASSUME PluginInv, NEW p \in Calls, handler[p] = "storage",
           NEW o \in {"Ok", "PluginFailure"} \cup DomainFailures, Answered(p, o),
           Asks(p).op = "create_hold" /\ o \in DomainFailures =>
               o = "IdempotencyConflict",
           open[p] => answer[p] # None,
           o = "Ok" /\ Mutates(Asks(p)) => HasReceipt(p),
           o \in DomainFailures => ~open[p],
           o \in DomainFailures /\ Mutates(Asks(p)) =>
               request[p] = Asks(p) /\ answer[p] # None /\ answer[p].outcome = o
    PROVE  PluginInv'
<1>1. Still /\ UNCHANGED <<invocation, history>> /\ pool' = pool
  BY DEF Answered, Still
<1>2. WireError(Asks(p).op, o) = o
  BY DEF WireError
<1>3. Checked(p) /\ pool[p] \in {0} \cup Pools /\ o \in Responses
  BY DEF PluginInv, HandlerTypes, Responses, Failures
<1>4. Moves(p, "return", pool[p], o) /\ "return" \in Suspended \cup {"idle"}
  BY <1>1, <1>2 DEF Answered, Moves, Suspended, PluginInv, HandlerTypes
<1>5. handler'[p] = "return" /\ response'[p] = o /\ pool'[p] = pool[p]
  BY <1>1, <1>4 DEF PluginInv, HandlerTypes, Moves
<1>6. Checked(p)'
  BY <1>1, <1>3, <1>5, SameInvocation, StillMeans
     DEF Checked, Connected, DomainFailures
<1>7. Effects(p)'
  <2>1. Mutates(Asks(p))' <=> Mutates(Asks(p))
    BY <1>1, SameInvocation DEF Mutates
  <2>2. invocation'[p] \in Invocations
    BY <1>1, <1>3, SameInvocation DEF Checked
  <2>3. o \in DomainFailures => RefusedSo(p)'
    BY <1>1, <1>5, <2>1, SameInvocation, StillMeans DEF RefusedSo
  <2> QED
    BY <1>1, <1>5, <2>1, <2>2, <2>3, SameInvocation, StillMeans DEF Effects
<1> QED
  BY <1>1, <1>3, <1>4, <1>6, <1>7, HandlerMoves

(***************************************************************************)
(* A mutation is answered: the error of a creation needs no mapping.       *)
(***************************************************************************)
LEMMA FinishMutationKeepsInv ==
    ASSUME PluginInv, NEW p \in Calls, FinishMutation(p)
    PROVE  PluginInv'
<1>1. handler[p] = "storage" /\ Mutates(Asks(p)) /\ answer[p] # None /\ Storing(p)
  BY DEF FinishMutation, PluginInv, Effects
<1>2. CASE Answered(p, answer[p].outcome)
  <2>1. \/ answer[p].outcome = "Ok" /\ HasReceipt(p)
        \/ /\ answer[p].outcome \in DomainFailures /\ ~open[p]
           /\ Asks(p).op = "create_hold" => answer[p].outcome = "IdempotencyConflict"
        \/ answer[p].outcome = "PluginFailure"
    BY <1>1 DEF Storing
  <2>2. request[p] = Asks(p)
    BY <1>1 DEF Storing
  <2>3. "Ok" \notin DomainFailures /\ "PluginFailure" \notin DomainFailures
    BY DEF DomainFailures
  <2> QED
    BY <1>1, <1>2, <2>1, <2>2, <2>3, AnsweredKeepsInv
<1>3. CASE Answered(p, "PluginFailure")
  BY <1>1, <1>3, AnsweredKeepsInv DEF DomainFailures
<1> QED
  BY <1>2, <1>3 DEF FinishMutation

(***************************************************************************)
(* A read is answered.                                                     *)
(***************************************************************************)
LEMMA FinishReadKeepsInv ==
    ASSUME PluginInv, NEW p \in Calls, FinishRead(p)
    PROVE  PluginInv'
<1>1. handler[p] = "storage" /\ ~Mutates(Asks(p)) /\ ~open[p]
  BY DEF FinishRead, PluginInv, Effects, Storing
<1>2. CASE Answered(p, "Ok")
  BY <1>1, <1>2, AnsweredKeepsInv DEF DomainFailures
<1>3. CASE Asks(p).op = "get_hold" /\ Answered(p, "NotFound")
  BY <1>1, <1>3, AnsweredKeepsInv DEF DomainFailures
<1>4. CASE Answered(p, "PluginFailure")
  BY <1>1, <1>4, AnsweredKeepsInv DEF DomainFailures
<1> QED
  BY <1>2, <1>3, <1>4 DEF FinishRead

(***************************************************************************)
(* A connection is back.                                                   *)
(***************************************************************************)
LEMMA ReturnKeepsInv ==
    ASSUME PluginInv, NEW p \in Calls, ReturnConnection(p)
    PROVE  PluginInv'
<1>1. Still /\ UNCHANGED <<invocation, history>> /\ response' = response
      /\ handler[p] = "return"
  BY DEF ReturnConnection, Still
<1>2. Checked(p) /\ Effects(p) /\ response[p] \in Responses \cup {None}
  BY DEF PluginInv, HandlerTypes
<1>3. Moves(p, "idle", 0, response[p])
  BY <1>1 DEF ReturnConnection, Moves, PluginInv, HandlerTypes
<1>4. handler'[p] = "idle" /\ response'[p] = response[p]
  BY <1>1, <1>3 DEF PluginInv, HandlerTypes, Moves
<1>5. Checked(p)'
  BY <1>1, <1>2, <1>4, SameInvocation, StillMeans DEF Checked, Connected
<1>6. Effects(p)'
  <2>1. Mutates(Asks(p))' <=> Mutates(Asks(p))
    BY <1>1, SameInvocation DEF Mutates
  <2>2. RefusedSo(p) => RefusedSo(p)'
    BY <1>1, <1>4, <2>1, SameInvocation, StillMeans DEF RefusedSo
  <2> QED
    BY <1>1, <1>2, <1>4, <2>1, <2>2, SameInvocation, StillMeans DEF Effects
<1> QED
  BY <1>1, <1>2, <1>3, <1>5, <1>6, HandlerMoves

-----------------------------------------------------------------------------
(***************************************************************************)
(* Two conditions that give every part of the invariant when the handlers  *)
(* and what they know stand still: the ledger moves, or the lifecycle does.*)
(***************************************************************************)
LEMMA HandlersStay ==
    ASSUME PluginInv, UNCHANGED <<environment, handlerVars, history>>,
           schema_current => schema_current'
    PROVE  HandlerTypes' /\ \A q \in Calls : Checked(q)' /\ Asks(q)' = Asks(q)
<1>1. /\ members' = members /\ granted' = granted
      /\ handler' = handler /\ invocation' = invocation /\ pool' = pool
      /\ response' = response /\ authority' = authority /\ doubt' = doubt
  BY DEF environment, handlerVars, history
<1>2. HandlerTypes'
  BY <1>1 DEF PluginInv, HandlerTypes
<1>3. ASSUME NEW q \in Calls PROVE Checked(q)'
  BY <1>1, OthersStay
<1> QED
  BY <1>1, <1>2, <1>3 DEF Asks

(***************************************************************************)
(* The lifecycle moves: no pool is closed over a call that uses it.        *)
(***************************************************************************)
LEMMA LifecycleMoves ==
    ASSUME PluginInv, UNCHANGED <<ledgerVars, environment, handlerVars, history>>,
           LifecycleTypes', schema_current => schema_current',
           \A q \in Calls : handler[q] = "storage" =>
                                pools'[pool[q]] \in {"open", "closing"}
    PROVE  PluginInv'
<1>1. /\ UNCHANGED tables /\ open' = open /\ request' = request /\ answer' = answer
      /\ handler' = handler /\ invocation' = invocation /\ pool' = pool
      /\ response' = response
  BY DEF ledgerVars, handlerVars
<1>2. CommandsStay /\ LedgerTypes'
  BY <1>1 DEF CommandsStay, tables, PluginInv, LedgerTypes, TablesTypeOK
<1>3. ASSUME NEW q \in Calls PROVE Effects(q)'
  BY <1>1, <1>2, OthersKeepEffects
<1> QED
  BY <1>2, <1>3, HandlersStay DEF PluginInv

(***************************************************************************)
(* A connection is handed out, and with it a mutation begins.              *)
(***************************************************************************)
LEMMA AcquireKeepsInv ==
    ASSUME PluginInv, NEW p \in Calls, Acquire(p)
    PROVE  PluginInv'
<1>1. /\ members' = members /\ granted' = granted
      /\ prepared' = prepared /\ pools' = pools /\ activation' = activation
      /\ schema_current' = schema_current
      /\ invocation' = invocation /\ pool' = pool /\ response' = response
      /\ authority' = authority /\ doubt' = doubt
      /\ handler[p] = "acquire" /\ pools[pool[p]] = "open"
  BY DEF Acquire, environment, lifecycle, history
<1>2. /\ handler' \in [Calls -> Suspended \cup {"idle"}] /\ handler'[p] = "storage"
      /\ \A q \in Calls \ {p} : handler'[q] = handler[q]
  <2>1. "storage" \in Suspended \cup {"idle"}
    BY DEF Suspended
  <2> QED
    BY <2>1 DEF Acquire, PluginInv, HandlerTypes
<1>3. Checked(p) /\ Effects(p) /\ ~open[p] /\ response[p] = None
  BY <1>1 DEF PluginInv, Checked, Effects
<1>4. PICK i \in Invocations : i = invocation[p]
  BY <1>1, <1>3 DEF Checked
<1>5. Asks(p) = i.asks /\ \A q \in Calls : Asks(q)' = Asks(q)
  BY <1>1, <1>4 DEF Asks
<1>6. /\ LedgerTypes' /\ UNCHANGED tables
      /\ Mutates(Asks(p)) => request'[p] = Asks(p) /\ answer'[p] = None
      /\ ~Mutates(Asks(p)) => ~open'[p]
      /\ \A q \in Calls \ {p} :
           open'[q] = open[q] /\ request'[q] = request[q] /\ answer'[q] = answer[q]
  <2>1. CASE Mutates(Asks(p))
    <3>1. Asks(p) \in Requests /\ Ledger!Begin(p, Asks(p))
      BY <1>5, <2>1, AskTypes DEF Acquire
    <3> QED
      BY <2>1, <3>1, BeginKeepsTypes DEF PluginInv
  <2>2. CASE ~Mutates(Asks(p))
    BY <1>3, <2>2 DEF Acquire, ledgerVars, tables, PluginInv, LedgerTypes, TablesTypeOK
  <2> QED
    BY <2>1, <2>2
<1>7. CommandsStay
  BY <1>6 DEF CommandsStay, tables
<1>8. HandlerTypes' /\ LifecycleTypes'
  BY <1>1, <1>2 DEF PluginInv, HandlerTypes, LifecycleTypes
<1>9. ASSUME NEW q \in Calls \ {p} PROVE Checked(q)' /\ Effects(q)'
  <2>1. Checked(q)'
    BY <1>1, <1>2, OthersStay
  <2>2. handler[q] = "storage" => pools'[pool[q]] \in {"open", "closing"}
    BY <1>1 DEF PluginInv, Effects
  <2>3. Effects(q)'
    BY <1>1, <1>2, <1>6, <1>7, <2>2, OthersKeepEffects
  <2> QED
    BY <2>1, <2>3
<1>10. Checked(p)'
  <2>1. (Listed(p)' <=> Listed(p)) /\ (Authorized(p)' <=> Authorized(p))
    BY <1>1, <1>5 DEF Listed, Authorized, Guards
  <2> QED
    BY <1>1, <1>2, <1>3, <2>1 DEF Checked, Connected
<1>11. Effects(p)'
  <2>1. None \notin Responses
    BY PluginAssumption
  <2>2. response'[p] = None /\ None # "Ok" /\ None \notin DomainFailures
    BY <1>1, <1>3, <2>1 DEF Responses, Failures
  <2>3. Mutates(Asks(p))' <=> Mutates(Asks(p))
    BY <1>5 DEF Mutates
  <2>4. Storing(p)'
    BY <1>5, <1>6, <2>3 DEF Storing
  <2> QED
    BY <1>1, <1>2, <2>2, <2>4 DEF Effects
<1> QED
  BY <1>6, <1>8, <1>9, <1>10, <1>11 DEF PluginInv

(***************************************************************************)
(* The ledger takes a step of an open call.                                *)
(***************************************************************************)
LEMMA LedgerStepKeepsInv ==
    ASSUME PluginInv, NEW p \in Calls, LedgerStep(p)
    PROVE  PluginInv'
<1>1. /\ prepared' = prepared /\ pools' = pools /\ activation' = activation
      /\ schema_current' = schema_current /\ members' = members /\ granted' = granted
      /\ handler' = handler /\ invocation' = invocation /\ pool' = pool
      /\ response' = response
  BY DEF LedgerStep, environment, lifecycle, handlerVars
<1>2. UNCHANGED <<environment, handlerVars, history>>
  BY DEF LedgerStep
<1>3. LedgerTypes' /\ Served(p)
  BY StepServes DEF LedgerStep, PluginInv
<1>4. HandlerTypes' /\ LifecycleTypes' /\ \A q \in Calls : Checked(q)'
      /\ Asks(q)' = Asks(q)
  BY <1>1, <1>2, HandlersStay DEF PluginInv, LifecycleTypes
<1>5. CommandsStay /\ request' = request /\ open[p]
  BY <1>3 DEF Served
<1>6. ASSUME NEW q \in Calls \ {p} PROVE Effects(q)'
  <2>1. open'[q] = open[q] /\ answer'[q] = answer[q]
    BY <1>3 DEF Served
  <2>2. handler[q] = "storage" => pools'[pool[q]] \in {"open", "closing"}
    BY <1>1 DEF PluginInv, Effects
  <2> QED
    BY <1>1, <1>5, <2>1, <2>2, OthersKeepEffects
<1>7. Effects(p)'
  <2>1. Effects(p) /\ Checked(p) /\ Asks(p)' = Asks(p)
        /\ (Mutates(Asks(p))' <=> Mutates(Asks(p)))
    BY <1>4 DEF PluginInv, Mutates
  <2>2. handler[p] \notin {"membership", "access", "acquire"}
        /\ response[p] \notin DomainFailures
    BY <1>5, <2>1 DEF Effects
  <2>3. answer[p] # None => answer'[p] = answer[p] /\ answer'[p] # None
    BY <1>3 DEF Served
  <2>4. ASSUME invocation[p] \in Invocations, Mutates(Asks(p)), HasReceipt(p)
        PROVE  HasReceipt(p)'
    BY <1>5, <2>1, <2>4, HasReceiptStays
  <2>5. ASSUME handler[p] = "storage" PROVE Storing(p)'
    <3>1. Storing(p) /\ Mutates(Asks(p)) /\ request[p] = Asks(p)
          /\ invocation[p] \in Invocations
      BY <1>5, <2>1, <2>5 DEF Effects, Storing, Checked
    <3>2. CASE answer[p] # None
      BY <1>5, <2>1, <2>3, <2>4, <3>1, <3>2 DEF Storing
    <3>3. CASE answer[p] = None
      <4>1. AnswerIsTrue(p)
        BY <1>3, <3>3 DEF Served
      <4>2. Receipted(request[p], answer[p].view)' => HasReceipt(p)'
        BY <1>5, <2>1, <3>1 DEF Receipted, HasReceipt
      <4>3. request[p].op = "create_hold" =>
              answer'[p].outcome \in {"Ok", "IdempotencyConflict", "PluginFailure"}
        BY <3>3, CreationRefused DEF LedgerStep, PluginInv
      <4> QED
        BY <1>5, <2>1, <3>1, <4>1, <4>2, <4>3 DEF AnswerIsTrue, Storing, DomainFailures
    <3> QED
      BY <3>2, <3>3
  <2>6. handler[p] # "storage" => answer'[p] # None
    BY <1>5, <2>1, <2>3 DEF Effects
  <2>7. response[p] = "Ok" /\ Mutates(Asks(p)) =>
          invocation[p] \in Invocations /\ HasReceipt(p)'
    BY <2>1, <2>4 DEF Effects
  <2>8. handler[p] = "storage" => pools[pool[p]] \in {"open", "closing"}
    BY <2>1 DEF Effects
  <2> QED
    BY <1>1, <2>1, <2>2, <2>5, <2>6, <2>7, <2>8 DEF Effects
<1> QED
  BY <1>3, <1>4, <1>6, <1>7 DEF PluginInv

-----------------------------------------------------------------------------
(***************************************************************************)
(* The instance is activated, operated on or deactivated.                  *)
(***************************************************************************)
LifecycleStep ==
    \/ Activate \/ ResolveSecret \/ PrepareSchema \/ Deactivate \/ Operate
    \/ \E g \in Pools : CloseEnds(g)

(***************************************************************************)
(* None of it takes a pool from a call that uses it.                       *)
(***************************************************************************)
LEMMA LifecycleKeepsInv ==
    ASSUME PluginInv, LifecycleStep
    PROVE  PluginInv'
<1>1. UNCHANGED <<ledgerVars, environment, handlerVars, history>>
  BY DEF LifecycleStep, Activate, ResolveSecret, PrepareSchema, Deactivate, Operate,
     CloseEnds
<1>2. members' = members /\ granted' = granted
  BY <1>1 DEF environment
<1>3. LifecycleTypes /\ 0 \notin Pools
  BY PluginAssumption DEF PluginInv, Pools
<1>4. ASSUME NEW q \in Calls, handler[q] = "storage"
      PROVE  pool[q] \in Pools /\ pools[pool[q]] \in {"open", "closing"}
  BY <1>4 DEF PluginInv, Checked, Effects, Connected
<1>5. ASSUME pools' = pools, LifecycleTypes', schema_current => schema_current'
      PROVE  PluginInv'
  BY <1>1, <1>4, <1>5, LifecycleMoves
<1>6. CASE Activate
  BY <1>2, <1>3, <1>5, <1>6 DEF Activate, LifecycleTypes, Inactive
<1>7. CASE ResolveSecret
  BY <1>2, <1>3, <1>5, <1>7, PluginAssumption DEF ResolveSecret, LifecycleTypes
<1>8. CASE Operate
  BY <1>2, <1>3, <1>5, <1>8 DEF Operate, LifecycleTypes
<1>9. CASE PrepareSchema
  <2>1. activation = "schema" /\ activation' = None /\ activation # None
        /\ schema_current' = schema_current
    BY <1>9, PluginAssumption DEF PrepareSchema
  <2>2. CASE UNCHANGED <<prepared, pools>>
    BY <1>2, <1>3, <1>5, <2>1, <2>2 DEF LifecycleTypes
  <2>3. ASSUME NEW g \in Pools, OpenPool(g), schema_current
        PROVE  PluginInv'
    <3>1. prepared = 0
      BY <1>3, <2>1 DEF LifecycleTypes
    <3>2. \A f \in Pools : pools[f] # "open"
      BY <1>3, <3>1 DEF LifecycleTypes
    <3>3. /\ prepared' = g /\ pools[g] = "unopened"
          /\ pools' \in [Pools -> {"unopened", "open", "closing", "closed"}]
          /\ pools'[g] = "open"
          /\ \A f \in Pools \ {g} : pools'[f] = pools[f]
      BY <1>3, <2>3 DEF OpenPool, LifecycleTypes
    <3>4. LifecycleTypes'
      BY <1>2, <1>3, <2>1, <2>3, <3>2, <3>3 DEF LifecycleTypes
    <3>5. \A q \in Calls : handler[q] = "storage" =>
              pools'[pool[q]] \in {"open", "closing"}
      BY <1>4, <3>3
    <3> QED
      BY <1>1, <2>1, <3>4, <3>5, LifecycleMoves
  <2> QED
    BY <1>9, <2>2, <2>3 DEF PrepareSchema
<1>10. CASE Deactivate
  <2>1. PICK g \in Pools : g = prepared
    BY <1>3, <1>10 DEF LifecycleTypes, Deactivate
  <2>2. /\ prepared' = 0 /\ activation' = activation
        /\ schema_current' = schema_current
        /\ pools' \in [Pools -> {"unopened", "open", "closing", "closed"}]
        /\ pools'[g] = "closing"
        /\ \A f \in Pools \ {g} : pools'[f] = pools[f]
    BY <1>3, <1>10, <2>1 DEF Deactivate, LifecycleTypes
  <2>3. LifecycleTypes'
    BY <1>2, <1>3, <2>1, <2>2 DEF LifecycleTypes
  <2>4. \A q \in Calls : handler[q] = "storage" =>
            pools'[pool[q]] \in {"open", "closing"}
    BY <1>4, <2>2
  <2> QED
    BY <1>1, <2>2, <2>3, <2>4, LifecycleMoves
<1>11. ASSUME NEW g \in Pools, CloseEnds(g)
       PROVE  PluginInv'
  <2>1. /\ prepared' = prepared /\ activation' = activation
        /\ schema_current' = schema_current /\ pools[g] = "closing"
        /\ pools' \in [Pools -> {"unopened", "open", "closing", "closed"}]
        /\ pools'[g] = "closed"
        /\ \A f \in Pools \ {g} : pools'[f] = pools[f]
    BY <1>3, <1>11 DEF CloseEnds, LifecycleTypes
  <2>2. LifecycleTypes'
    BY <1>2, <1>3, <2>1 DEF LifecycleTypes
  <2>3. ASSUME NEW q \in Calls, handler[q] = "storage"
        PROVE  pools'[pool[q]] \in {"open", "closing"}
    <3>1. pool[q] # g
      BY <1>11, <2>3 DEF CloseEnds, InUse
    <3> QED
      BY <1>4, <2>1, <2>3, <3>1
  <2> QED
    BY <1>1, <2>1, <2>2, <2>3, LifecycleMoves
<1> QED
  BY <1>6, <1>7, <1>8, <1>9, <1>10, <1>11 DEF LifecycleStep

(***************************************************************************)
(* What a change of authority adds to the history only grows.              *)
(***************************************************************************)
LEMMA SeenGrows ==
    ASSUME NEW a \in 0..2, NEW m, NEW g
    PROVE  /\ Seen(a, m, g) \in 0..2
           /\ a # 0 => Seen(a, m, g) # 0
           /\ a = 2 => Seen(a, m, g) = 2
           /\ m => Seen(a, m, g) # 0
           /\ g /\ Seen(a, m, g) # 0 => Seen(a, m, g) = 2
BY DEF Seen

(***************************************************************************)
(* A membership or a grant changes: the calls under way take note.         *)
(***************************************************************************)
LEMMA ChangeAuthorityKeepsInv ==
    ASSUME PluginInv, ChangeAuthority
    PROVE  PluginInv'
<1>1. /\ UNCHANGED tables /\ open' = open /\ request' = request /\ answer' = answer
      /\ prepared' = prepared /\ pools' = pools
      /\ activation' = activation /\ schema_current' = schema_current
      /\ handler' = handler /\ invocation' = invocation /\ pool' = pool
      /\ response' = response
  BY DEF ChangeAuthority, ledgerVars, lifecycle, handlerVars
<1>2. members' \subseteq Memberships /\ granted' \subseteq Grants
  BY DEF ChangeAuthority, Toggled, PluginInv, LifecycleTypes
<1>3. CommandsStay /\ LedgerTypes'
  BY <1>1 DEF CommandsStay, tables, PluginInv, LedgerTypes, TablesTypeOK
<1>4. LifecycleTypes'
  BY <1>1, <1>2 DEF PluginInv, LifecycleTypes
<1>5. ASSUME NEW p \in Calls
      PROVE  /\ authority[p] \in 0..2 /\ doubt[p] \in BOOLEAN
             /\ Authorizing(p) =>
                  /\ authority'[p] = Seen(authority[p], Member(Asks(p))',
                                          Granted(Asks(p))')
                  /\ doubt'[p] = (doubt[p] \/ ~(Member(Asks(p))' /\ Granted(Asks(p))'))
             /\ ~Authorizing(p) => authority'[p] = authority[p] /\ doubt'[p] = doubt[p]
  BY DEF ChangeAuthority, Witness, PluginInv, HandlerTypes
<1>6. authority' \in [Calls -> 0..2]
  BY <1>5, SeenGrows DEF ChangeAuthority, Witness
<1>7. doubt' \in [Calls -> BOOLEAN]
  <2>1. ASSUME NEW p \in Calls
        PROVE  (IF Authorizing(p)
                THEN doubt[p] \/ ~(Member(Asks(p))' /\ Granted(Asks(p))')
                ELSE doubt[p]) \in BOOLEAN
    BY <1>5
  <2> QED
    BY <2>1 DEF ChangeAuthority, Witness
<1>8. HandlerTypes'
  BY <1>1, <1>6, <1>7 DEF PluginInv, HandlerTypes
<1>9. ASSUME NEW p \in Calls PROVE Checked(p)'
  <2>1. Checked(p) /\ Asks(p)' = Asks(p) /\ (Listed(p)' <=> Listed(p))
    BY <1>1 DEF PluginInv, Asks, Listed, Guards
  <2>2. (authority[p] = 2 => authority'[p] = 2) /\ (doubt[p] => doubt'[p])
        /\ (authority[p] # 0 => authority'[p] # 0)
    BY <1>5, SeenGrows
  <2>3. Authorized(p) => Authorized(p)'
    BY <1>1, <2>1, <2>2 DEF Authorized, Guards
  <2>4. ASSUME Authorizing(p) PROVE Witnessed(p)'
    <3> DEFINE m == Member(Asks(p))'
               g == Granted(Asks(p))'
    <3>1. /\ authority'[p] = Seen(authority[p], m, g)
          /\ doubt'[p] = (doubt[p] \/ ~(m /\ g))
      BY <1>5, <2>4
    <3>2. /\ m => authority'[p] # 0
          /\ g /\ authority'[p] # 0 => authority'[p] = 2
      BY <1>5, <3>1, SeenGrows
    <3> QED
      BY <3>1, <3>2 DEF Witnessed
  <2>5. handler[p] \in {"membership", "access"} => Witnessed(p)'
    BY <2>1, <2>4 DEF Checked, Authorizing
  <2> QED
    BY <1>1, <2>1, <2>2, <2>3, <2>5 DEF Checked, Guards
<1>10. ASSUME NEW p \in Calls PROVE Effects(p)'
  BY <1>1, <1>3, OthersKeepEffects DEF PluginInv, Effects
<1> QED
  BY <1>3, <1>4, <1>8, <1>9, <1>10 DEF PluginInv

-----------------------------------------------------------------------------
(***************************************************************************)
(* Every step keeps the invariant.                                         *)
(***************************************************************************)
LEMMA NextKeepsInv == PluginInv /\ [Next]_vars => PluginInv'
<1> SUFFICES ASSUME PluginInv, [Next]_vars PROVE PluginInv'
  OBVIOUS
<1>1. ASSUME NEW p \in Calls, CallStep(p) PROVE PluginInv'
  BY <1>1, MembershipKeepsInv, PermissionKeepsInv, AcquireKeepsInv,
     AcquireFailsKeepsInv, FinishMutationKeepsInv, FinishReadKeepsInv,
     ReturnKeepsInv DEF CallStep
<1>2. CASE UNCHANGED vars
  <2>1. /\ UNCHANGED <<ledgerVars, environment, handlerVars, history>>
        /\ prepared' = prepared /\ pools' = pools /\ activation' = activation
        /\ schema_current' = schema_current /\ members' = members
        /\ granted' = granted
    BY <1>2 DEF vars, environment, lifecycle
  <2>2. LifecycleTypes'
    BY <2>1 DEF PluginInv, LifecycleTypes
  <2>3. \A q \in Calls : handler[q] = "storage" =>
            pools'[pool[q]] \in {"open", "closing"}
    BY <2>1 DEF PluginInv, Effects
  <2> QED
    BY <2>1, <2>2, <2>3, LifecycleMoves
<1> QED
  BY <1>1, <1>2, ReceiveKeepsInv, LedgerStepKeepsInv, LifecycleKeepsInv,
     ChangeAuthorityKeepsInv DEF Next, LifecycleStep

(***************************************************************************)
(* The invariant holds of the plugin, however many calls its instance      *)
(* serves and however often it is activated.                               *)
(***************************************************************************)
THEOREM Invariant == Spec => []PluginInv
<1>1. Init => PluginInv
  BY InitPluginInv
<1>2. PluginInv /\ [Next]_vars => PluginInv'
  BY NextKeepsInv
<1> QED
  BY <1>1, <1>2, PTL DEF Spec

(***************************************************************************)
(* Types are kept.                                                         *)
(***************************************************************************)
THEOREM TypeCorrect == Spec => []PluginTypeOK
<1>1. PluginInv => PluginTypeOK
  <2> SUFFICES ASSUME PluginInv PROVE PluginTypeOK
    OBVIOUS
  <2>1. Ledger!TypeOK
    BY LedgerTypesAgree DEF PluginInv
  <2>2. \A p \in Calls :
          /\ handler[p] # "idle" => invocation[p] # None
          /\ handler[p] \in {"acquire", "storage", "return"} => pool[p] # 0
    BY AskTypes, PluginAssumption DEF PluginInv, Checked, Connected, Pools
  <2> QED
    BY <2>1, <2>2 DEF PluginInv, HandlerTypes, LifecycleTypes, PluginTypeOK
<1> QED
  BY <1>1, Invariant, PTL

(***************************************************************************)
(* Only authorized callers learn anything of the tables or touch them      *)
(* (lib.rs:556-616).                                                       *)
(***************************************************************************)
THEOREM Authorization == Spec => []AnswersAreAuthorized
<1>1. PluginInv => AnswersAreAuthorized
  BY DEF PluginInv, Checked, Connected, AnswersAreAuthorized
<1> QED
  BY <1>1, Invariant, PTL

(***************************************************************************)
(* A caller is told Forbidden only if it is not listed or its actor lacked *)
(* authority during the call (lib.rs:577-588, 603-614).                    *)
(***************************************************************************)
THEOREM Refusals == Spec => []RefusalsAreTrue
<1>1. PluginInv => RefusalsAreTrue
  BY DEF PluginInv, Checked, RefusalsAreTrue
<1> QED
  BY <1>1, Invariant, PTL

(***************************************************************************)
(* What the caller of a mutation is told is what became of it, and         *)
(* InvalidRequest never stands for another failure (lib.rs:738-763).       *)
(***************************************************************************)
THEOREM TrueResponses == Spec => []ResponsesAreTrue
<1>1. PluginInv => ResponsesAreTrue
  <2> SUFFICES ASSUME PluginInv, NEW p \in Calls
               PROVE  /\ (response[p] = "Ok" /\ Mutates(Asks(p))) =>
                           /\ Ledger!ReceiptFor(Asks(p)) # None
                           /\ Ledger!ReceiptFor(Asks(p)).hash = HashOf(Asks(p))
                      /\ response[p] \in DomainFailures =>
                           ~open[p] /\ RefusedSo(p)
                      /\ response[p] = "InvalidRequest" => ~invocation[p].valid
    BY DEF ResponsesAreTrue, RefusedSo
  <2>1. Ledger!ReceiptFor(Asks(p)) = ReceiptFor(Asks(p))
    BY SameData
  <2> QED
    BY <2>1 DEF PluginInv, Checked, Effects, HasReceipt
<1> QED
  BY <1>1, Invariant, PTL

(***************************************************************************)
(* No handler works on a schema that is not of this build                  *)
(* (lib.rs:547-554, 639-663).                                              *)
(***************************************************************************)
THEOREM SchemaFirst == Spec => []NothingBeforeTheSchema
<1>1. PluginInv => NothingBeforeTheSchema
  BY DEF PluginInv, Checked, Connected, NothingBeforeTheSchema
<1> QED
  BY <1>1, Invariant, PTL

(***************************************************************************)
(* Whoever changes the tables while the instance is deactivated is a       *)
(* COMMIT whose call had failed (lib.rs:665-671).                          *)
(***************************************************************************)
THEOREM DeactivationEndsWrites == Spec => TablesRestWhileInactive
<1>1. ASSUME PluginInv, Next, Inactive, tables' # tables
      PROVE  \E p \in Calls : open[p] /\ answer[p] # None /\ handler[p] # "storage"
  <2>1. \A q \in Calls : handler[q] # "storage"
    <3> SUFFICES ASSUME NEW q \in Calls, handler[q] = "storage" PROVE FALSE
      OBVIOUS
    <3>1. pool[q] \in Pools /\ pools[pool[q]] \in {"open", "closing"}
      BY <1>1 DEF PluginInv, Checked, Effects, Connected
    <3>2. prepared = 0 /\ pools[pool[q]] # "closing" /\ 0 \notin Pools
      BY <1>1, <3>1, PluginAssumption DEF Inactive, Pools
    <3> QED
      BY <1>1, <3>1, <3>2 DEF PluginInv, LifecycleTypes
  <2>2. ASSUME NEW q \in Calls, Acquire(q) PROVE UNCHANGED tables
    <3>1. CASE Mutates(Asks(q))
      BY <2>2, <3>1 DEF Acquire, Ledger!Begin, Ledger!tables, tables
    <3>2. CASE ~Mutates(Asks(q))
      BY <2>2, <3>2 DEF Acquire, ledgerVars
    <3> QED
      BY <3>1, <3>2
  <2>3. PICK q \in Calls : LedgerStep(q)
    BY <1>1, <2>2
       DEF Next, CallStep, Receive, CheckMembership, CheckPermission, AcquireFails,
           FinishMutation, FinishRead, Answered, ReturnConnection, Activate,
           ResolveSecret, PrepareSchema, Deactivate, Operate, CloseEnds,
           ChangeAuthority, ledgerVars
  <2>4. open[q]
    BY <1>1, <2>3, StepServes DEF LedgerStep, Served, PluginInv
  <2>5. answer[q] # None
    BY <1>1, <2>1, <2>4 DEF PluginInv, Effects
  <2> QED
    BY <2>1, <2>4, <2>5
<1>2. PluginInv /\ [Next]_vars =>
        [Inactive /\ tables' # tables =>
           \E p \in Calls : open[p] /\ answer[p] # None /\ handler[p] # "storage"]_vars
  BY <1>1
<1> QED
  BY <1>2, Invariant, PTL DEF Spec, TablesRestWhileInactive

-----------------------------------------------------------------------------
(***************************************************************************)
(* The connections of the instance: the calls that have one, from the pool *)
(* they cloned, over any number of activations.                            *)
(***************************************************************************)
Live(g) == pools[g] \in {"open", "closing"}

Using == {p \in Calls : handler[p] \in {"storage", "return"}}

PoolsInTurn ==
    /\ \A p \in Using : pool[p] \in Pools /\ Live(pool[p])
    /\ \A f, g \in Pools : Live(f) /\ Live(g) => f = g
    /\ activation # None => Inactive

ConnectionsBounded == IsFiniteSet(Using) /\ Cardinality(Using) <= PoolSize

(***************************************************************************)
(* What the calls and the dependencies do hands out no connection, but for *)
(* Acquire.                                                                *)
(***************************************************************************)
LEMMA NoMoreConnections ==
    ASSUME PluginInv,
           \/ \E p \in Calls : \/ \E i \in Invocations : Receive(p, i)
                               \/ CallStep(p) /\ ~Acquire(p)
                               \/ LedgerStep(p)
           \/ ChangeAuthority
    PROVE  /\ UNCHANGED lifecycle
           /\ Using' \subseteq Using
           /\ \A q \in Using' : pool'[q] = pool[q]
<1>1. UNCHANGED lifecycle
  BY DEF Receive, CallStep, CheckMembership, CheckPermission, AcquireFails,
     FinishMutation, FinishRead, Answered, ReturnConnection, LedgerStep,
     ChangeAuthority
<1>2. ASSUME NEW p \in Calls, NEW w \in Suspended \cup {"idle"}, w # "storage",
             w = "return" => handler[p] = "storage" /\ pool' = pool,
             handler' = [handler EXCEPT ![p] = w],
             \A q \in Calls \ {p} : pool'[q] = pool[q]
      PROVE  Using' \subseteq Using /\ \A q \in Using' : pool'[q] = pool[q]
  BY <1>2 DEF Using, PluginInv, HandlerTypes
<1>3. ASSUME NEW p \in Calls, NEW w \in {"membership", "access", "acquire", "idle"},
             handler' = [handler EXCEPT ![p] = w],
             NEW g, pool' = [pool EXCEPT ![p] = g]
      PROVE  Using' \subseteq Using /\ \A q \in Using' : pool'[q] = pool[q]
  <2>1. \A q \in Calls \ {p} : pool'[q] = pool[q]
    BY <1>3 DEF PluginInv, HandlerTypes
  <2> QED
    BY <1>2, <1>3, <2>1 DEF Suspended
<1>4. ASSUME handler' = handler, pool' = pool
      PROVE  Using' \subseteq Using /\ \A q \in Using' : pool'[q] = pool[q]
  BY <1>4 DEF Using
<1>5. ASSUME NEW p \in Calls, NEW i \in Invocations, Receive(p, i)
      PROVE  Using' \subseteq Using /\ \A q \in Using' : pool'[q] = pool[q]
  BY <1>3, <1>5 DEF Receive, Prepare, Suspend, Respond
<1>6. ASSUME NEW p \in Calls, CheckMembership(p) \/ CheckPermission(p) \/ AcquireFails(p)
      PROVE  Using' \subseteq Using /\ \A q \in Using' : pool'[q] = pool[q]
  BY <1>3, <1>6 DEF CheckMembership, CheckPermission, AcquireFails, Prepare,
                    Suspend, Respond
<1>7. ASSUME NEW p \in Calls, FinishMutation(p) \/ FinishRead(p)
      PROVE  Using' \subseteq Using /\ \A q \in Using' : pool'[q] = pool[q]
  BY <1>2, <1>7 DEF FinishMutation, FinishRead, Answered, Suspended
<1>8. ASSUME NEW p \in Calls, ReturnConnection(p)
      PROVE  Using' \subseteq Using /\ \A q \in Using' : pool'[q] = pool[q]
  BY <1>3, <1>8 DEF ReturnConnection
<1>9. ASSUME NEW p \in Calls, LedgerStep(p)
      PROVE  Using' \subseteq Using /\ \A q \in Using' : pool'[q] = pool[q]
  BY <1>4, <1>9 DEF LedgerStep, handlerVars
<1>10. CASE ChangeAuthority
  BY <1>1, <1>4, <1>10 DEF ChangeAuthority, handlerVars
<1> QED
  BY <1>1, <1>5, <1>6, <1>7, <1>8, <1>9, <1>10 DEF CallStep

(***************************************************************************)
(* Acquire hands out one, of the open pool.                                *)
(***************************************************************************)
LEMMA OneMoreConnection ==
    ASSUME PluginInv, NEW p \in Calls, Acquire(p)
    PROVE  /\ UNCHANGED <<lifecycle, pool>>
           /\ p \notin Using /\ Using' = Using \cup {p}
           /\ pool[p] \in Pools /\ pools[pool[p]] = "open"
           /\ Cardinality(InUse(pool[p])) < PoolSize
<1>1. UNCHANGED <<lifecycle, pool>> /\ handler[p] = "acquire"
      /\ pools[pool[p]] = "open" /\ Cardinality(InUse(pool[p])) < PoolSize
      /\ handler' = [handler EXCEPT ![p] = "storage"]
  BY DEF Acquire
<1>2. pool[p] \in Pools
  BY <1>1 DEF PluginInv, Checked, Connected
<1>3. p \notin Using /\ Using' = Using \cup {p}
  BY <1>1 DEF Using, PluginInv, HandlerTypes
<1> QED
  BY <1>1, <1>2, <1>3

(***************************************************************************)
(* The lifecycle opens a pool when no other is open or closing, and closes *)
(* one that nobody uses.                                                   *)
(***************************************************************************)
LEMMA PoolsTakeTurns ==
    ASSUME PluginInv, PoolsInTurn, LifecycleStep
    PROVE  PoolsInTurn'
<1>1. UNCHANGED <<handler, pool>>
  BY DEF LifecycleStep, Activate, ResolveSecret, PrepareSchema, Deactivate,
     Operate, CloseEnds, handlerVars
<1>2. /\ Using' = Using /\ \A q : pool'[q] = pool[q]
      /\ \A g \in Pools : pools[g] = "open" => prepared = g
      /\ pools \in [Pools -> {"unopened", "open", "closing", "closed"}]
      /\ prepared # 0 => prepared \in Pools /\ pools[prepared] = "open"
                          /\ activation = None
      /\ 0 \notin Pools
  BY <1>1, PluginAssumption DEF Using, PluginInv, LifecycleTypes, Pools
<1>3. ASSUME pools' = pools, prepared' = prepared, activation' # None => Inactive
      PROVE  PoolsInTurn'
  BY <1>2, <1>3 DEF PoolsInTurn, Live, Inactive
<1>4. CASE Activate \/ ResolveSecret \/ Operate
  <2>1. /\ pools' = pools /\ prepared' = prepared
        /\ Inactive \/ activation' = activation
    BY <1>4, PluginAssumption DEF Activate, ResolveSecret, Operate, PoolsInTurn
  <2> QED
    BY <1>3, <2>1 DEF PoolsInTurn
<1>5. CASE PrepareSchema
  <2>1. activation' = None /\ Inactive
    BY <1>5, PluginAssumption DEF PrepareSchema, PoolsInTurn
  <2>2. \A g \in Pools : ~Live(g)
    BY <1>2, <2>1 DEF Live, Inactive
  <2>3. CASE UNCHANGED <<prepared, pools>>
    BY <1>3, <2>1, <2>3
  <2>4. ASSUME NEW g \in Pools, OpenPool(g) PROVE PoolsInTurn'
    BY <1>2, <2>1, <2>2, <2>4 DEF OpenPool, PoolsInTurn, Live
  <2> QED
    BY <1>5, <2>3, <2>4 DEF PrepareSchema
<1>6. CASE Deactivate
  <2>1. /\ prepared # 0 /\ activation' = activation
        /\ pools' = [pools EXCEPT ![prepared] = "closing"]
    BY <1>6 DEF Deactivate
  <2>2. \A g \in Pools : Live(g)' <=> Live(g)
    BY <1>2, <2>1 DEF Live
  <2> QED
    BY <1>2, <2>1, <2>2 DEF PoolsInTurn
<1>7. ASSUME NEW g \in Pools, CloseEnds(g) PROVE PoolsInTurn'
  <2>1. /\ pools[g] = "closing" /\ InUse(g) = {} /\ prepared' = prepared
        /\ activation' = activation /\ pools' = [pools EXCEPT ![g] = "closed"]
    BY <1>7 DEF CloseEnds
  <2>2. \A f \in Pools \ {g} : Live(f)' <=> Live(f)
    BY <1>2, <2>1 DEF Live
  <2>3. ~Live(g)' /\ \A p \in Using : pool[p] # g
    BY <1>2, <2>1 DEF Live, InUse, Using
  <2>4. activation' = None
    BY <2>1 DEF PoolsInTurn, Inactive
  <2> QED
    BY <1>2, <2>2, <2>3, <2>4 DEF PoolsInTurn
<1> QED
  BY <1>4, <1>5, <1>6, <1>7 DEF LifecycleStep

(***************************************************************************)
(* Pools live one at a time, and their connections are never more than one *)
(* pool has, however often the instance is activated and however its calls *)
(* outlive a deactivation (lib.rs:639-671).                                *)
(***************************************************************************)
THEOREM OnePoolAtATime == Spec => [](PoolsInTurn /\ ConnectionsBounded)
<1> DEFINE Turn == PoolsInTurn /\ ConnectionsBounded
<1>1. Init => Turn
  <2> SUFFICES ASSUME Init PROVE Turn
    OBVIOUS
  <2>1. Using = {} /\ \A g \in Pools : ~Live(g)
    BY DEF Init, Using, Live
  <2> QED
    BY <2>1, FS_EmptySet, PluginAssumption
    DEF Init, PoolsInTurn, ConnectionsBounded
<1>2. PluginInv /\ Turn /\ [Next]_vars => Turn'
  <2> SUFFICES ASSUME PluginInv, Turn, [Next]_vars PROVE Turn'
    OBVIOUS
  <2>1. ASSUME UNCHANGED lifecycle, Using' \subseteq Using,
               \A q \in Using' : pool'[q] = pool[q]
        PROVE  Turn'
    <3>1. IsFiniteSet(Using') /\ Cardinality(Using') <= Cardinality(Using)
          /\ Cardinality(Using') \in Nat /\ Cardinality(Using) \in Nat
      BY <2>1, FS_Subset, FS_CardinalityType DEF ConnectionsBounded
    <3>2. ConnectionsBounded'
      BY <3>1, PluginAssumption DEF ConnectionsBounded
    <3>3. PoolsInTurn'
      BY <2>1 DEF PoolsInTurn, Live, Inactive, lifecycle
    <3> QED
      BY <3>2, <3>3
  <2>2. ASSUME NEW p \in Calls, Acquire(p) PROVE Turn'
    <3>1. InUse(pool[p]) = Using
      BY <2>2, OneMoreConnection DEF PoolsInTurn, Live, InUse, Using
    <3>2. /\ IsFiniteSet(Using') /\ Cardinality(Using') = Cardinality(Using) + 1
          /\ Cardinality(Using) \in Nat /\ Cardinality(Using) < PoolSize
      BY <2>2, <3>1, OneMoreConnection, FS_AddElement, FS_CardinalityType
      DEF ConnectionsBounded
    <3>3. ConnectionsBounded'
      BY <3>2, PluginAssumption DEF ConnectionsBounded
    <3>4. PoolsInTurn'
      BY <2>2, OneMoreConnection DEF PoolsInTurn, Live, Inactive, lifecycle
    <3> QED
      BY <3>3, <3>4
  <2>3. CASE LifecycleStep
    <3>1. PoolsInTurn'
      BY <2>3, PoolsTakeTurns
    <3>2. Using' = Using
      BY <2>3 DEF Using, LifecycleStep, Activate, ResolveSecret, PrepareSchema,
         Deactivate, Operate, CloseEnds, handlerVars
    <3> QED
      BY <3>1, <3>2 DEF ConnectionsBounded
  <2>4. CASE UNCHANGED vars
    BY <2>1, <2>4 DEF vars, handlerVars, Using
  <2> QED
    BY <2>1, <2>2, <2>3, <2>4, NoMoreConnections DEF Next, LifecycleStep
<1> QED
  BY <1>1, <1>2, Invariant, PTL DEF Spec

(***************************************************************************)
(* A closing pool drains: connections only come back to it, so a           *)
(* deactivation waits for the calls that had one when it began and for no  *)
(* other (lib.rs:665-671).                                                 *)
(***************************************************************************)
ClosingDrains ==
    [][\A g \in Pools : pools[g] = "closing" => InUse(g)' \subseteq InUse(g)]_vars

(***************************************************************************)
(* No step gives a connection of a closing pool to a call.                 *)
(***************************************************************************)
THEOREM DeactivationDrains == Spec => ClosingDrains
<1> DEFINE Drains ==
      \A g \in Pools : pools[g] = "closing" => InUse(g)' \subseteq InUse(g)
<1>1. PluginInv /\ [Next]_vars => [Drains]_vars
  <2> SUFFICES ASSUME PluginInv, Next, NEW g \in Pools, pools[g] = "closing"
               PROVE  InUse(g)' \subseteq InUse(g)
    OBVIOUS
  <2>1. ASSUME Using' \subseteq Using, \A q \in Using' : pool'[q] = pool[q]
        PROVE  InUse(g)' \subseteq InUse(g)
    BY <2>1 DEF InUse, Using
  <2>2. ASSUME NEW p \in Calls, Acquire(p) PROVE InUse(g)' \subseteq InUse(g)
    <3>1. Using' = Using \cup {p} /\ pool' = pool /\ pool[p] # g
      BY <2>2, OneMoreConnection
    <3> QED
      BY <3>1 DEF InUse, Using
  <2>3. CASE LifecycleStep
    <3>1. handler' = handler /\ pool' = pool
      BY <2>3 DEF LifecycleStep, Activate, ResolveSecret, PrepareSchema,
         Deactivate, Operate, CloseEnds, handlerVars
    <3> QED
      BY <3>1 DEF InUse
  <2> QED
    BY <2>1, <2>2, <2>3, NoMoreConnections DEF Next, LifecycleStep
<1> QED
  BY <1>1, Invariant, PTL DEF Spec, ClosingDrains

-----------------------------------------------------------------------------
(***************************************************************************)
(* Between receiving an invocation and responding, a handler that gets a   *)
(* connection begins the mutation it was asked for, or a read.             *)
(***************************************************************************)
LEMMA AcquireBegins ==
    ASSUME PluginInv, NEW p \in Calls, Acquire(p)
    PROVE  UNCHANGED ledgerVars \/ \E r \in Requests : Ledger!Begin(p, r)
<1>1. CASE ~Mutates(Asks(p))
  BY <1>1 DEF Acquire
<1>2. CASE Mutates(Asks(p))
  <2>1. handler[p] = "acquire" /\ Checked(p) /\ Ledger!Begin(p, Asks(p))
    BY <1>2 DEF PluginInv, Acquire
  <2>2. PICK i \in Invocations : i = invocation[p]
    BY <2>1 DEF Checked
  <2>3. Asks(p) \in Requests
    BY <1>2, <2>2, AskTypes DEF Asks
  <2> QED
    BY <2>1, <2>3
<1> QED
  BY <1>1, <1>2

(***************************************************************************)
(* The plugin instance keeps to the ledger: whoever it lets through or     *)
(* turns away, and however it is activated and deactivated, it asks its    *)
(* storage for one mutation a slot at a time (lib.rs:188-463).             *)
(***************************************************************************)
THEOREM PluginKeepsLedger == Spec => Ledger!Spec
<1>1. Init => Ledger!Init
  BY DEF Init
<1>2. PluginInv /\ [Next]_vars => [Ledger!Next]_(Ledger!vars)
  <2> SUFFICES ASSUME PluginInv, [Next]_vars
               PROVE  Ledger!Next \/ UNCHANGED ledgerVars
    BY LedgerStutters
  <2>1. ASSUME NEW p \in Calls, NEW i \in Invocations, Receive(p, i)
        PROVE  UNCHANGED ledgerVars
    BY <2>1 DEF Receive
  <2>2. ASSUME NEW p \in Calls, CallStep(p)
        PROVE  Ledger!Next \/ UNCHANGED ledgerVars
    <3>1. Acquire(p) \/ UNCHANGED ledgerVars
      BY <2>2 DEF CallStep, CheckMembership, CheckPermission, AcquireFails,
                    FinishMutation, FinishRead, Answered, ReturnConnection
    <3> QED
      BY <3>1, AcquireBegins DEF Ledger!Next
  <2>3. ASSUME NEW p \in Calls, LedgerStep(p)
        PROVE  Ledger!Next
    BY <2>3 DEF LedgerStep, Ledger!Next
  <2>4. CASE LifecycleStep
    BY <2>4 DEF LifecycleStep, Activate, ResolveSecret, PrepareSchema, Deactivate,
                Operate, CloseEnds
  <2>5. CASE ChangeAuthority
    BY <2>5 DEF ChangeAuthority
  <2>6. CASE UNCHANGED vars
    BY <2>6 DEF vars
  <2> QED
    BY <2>1, <2>2, <2>3, <2>4, <2>5, <2>6 DEF Next, LifecycleStep
<1> QED
  BY <1>1, <1>2, Invariant, PTL DEF Spec, Ledger!Spec

(***************************************************************************)
(* So all that the ledger promises of its tables and of its answers is so  *)
(* behind the plugin.                                                      *)
(***************************************************************************)
THEOREM TablesKept ==
    Spec => /\ []HistoryInv /\ []SuccessesReceipted
            /\ ReceiptsPermanent /\ ReleasedHoldsImmutable
            /\ ActivityAppearsInOrder
<1>1. LedgerTypes /\ HistoryInv => HistoryInv
  OBVIOUS
<1> QED
  BY <1>1, PluginKeepsLedger, LedgerHistory, LedgerIsDurable, LedgerKeepsTables, PTL
=============================================================================
