-------------------------- MODULE LegalHoldPlugin --------------------------
(***************************************************************************)
(* The plugin instance of lib.rs: its invocation handlers, from the checks *)
(* of the caller to the answer on the wire, and its lifecycle.             *)
(*                                                                         *)
(* The plugin is single-threaded (its state is an Rc<RefCell>), so a step  *)
(* runs from one await to the next.  Between two steps anything may have   *)
(* changed: memberships and grants, which other plugins own, the rows, and *)
(* the pool this instance had prepared.                                    *)
(*                                                                         *)
(* The storage of a mutation is the ledger.  get_hold stands for the three *)
(* administrative reads, which are authorized alike, and check_retention   *)
(* is the guard; what they read is in modules of its own.  The listings    *)
(* and the guard take one connection after the other where get_hold takes  *)
(* one, and never two at once: here each read has one for all of its       *)
(* statements.                                                             *)
(***************************************************************************)
EXTENDS HoldStore

CONSTANTS
    AdminCallers,         \* admin_callers of the configuration
    GuardCallers,         \* guard_callers of the configuration
    Invocations,          \* the invocations callers may make
    Memberships,          \* the <<organization, actor>> pairs that may be
                          \* active, as Organization Membership sees it
    Grants,               \* the <<organization, actor, permission>> triples
                          \* that may be granted, as Access Control sees it
    Revocable,            \* those of either that others may change meanwhile
    PoolSize,             \* connections of a pool
    MaxActivations        \* bound on the activations of the instance

Permissions == {"legal-hold.read", "legal-hold.write", "legal-hold.release"}
Responses == {"Ok", "Forbidden", "Unauthenticated", "InvalidRequest"} \cup Failures

(***************************************************************************)
(* An invocation: what it asks for, whether its context carries a valid    *)
(* assertion for this operation, and whether its fields are valid.         *)
(***************************************************************************)
Query == [op: {"get_hold", "check_retention"}, caller: Callers, actor: Actors,
          organization: Organizations]
Invocation == [asks: Requests \cup Query, authentic: BOOLEAN, valid: BOOLEAN]

ASSUME PluginAssumption ==
    /\ AdminCallers \subseteq Callers /\ GuardCallers \subseteq Callers
    /\ Invocations \subseteq Invocation /\ None \notin Invocation
    /\ Memberships \subseteq Organizations \X Actors
    /\ Grants \subseteq Organizations \X Actors \X Permissions
    /\ Revocable \subseteq Memberships \cup Grants
    /\ PoolSize \in Nat \ {0} /\ MaxActivations \in Nat
    /\ None \notin Responses \cup {"secret", "schema"}

VARIABLES
    members, granted,       \* what the two dependencies would answer now
    prepared,               \* the pool this instance uses, 0 when there is
                            \* none; pools are numbered by activation
    pools,                  \* pool -> its state
    activation,             \* the await activate is suspended at, or None
    schema_current,         \* whether the operator has brought the schema to
                            \* the version of this build
    handler,                \* call -> the await it is suspended at
    invocation,             \* call -> what it serves or served last
    pool,                   \* call -> its clone of prepared, or 0
    response,               \* call -> what its caller was told, or None
    authority,              \* history: 1 once the actor was a member during
                            \* the call, 2 once it then had the permission
    doubt                   \* history: whether it lacked one of them

environment == <<members, granted>>
lifecycle == <<prepared, pools, activation, schema_current>>
handlerVars == <<handler, invocation, pool, response>>
history == <<authority, doubt>>
vars == <<ledgerVars, environment, lifecycle, handlerVars, history>>

Pools == 1..MaxActivations
Suspended == {"membership", "access", "acquire", "storage", "return"}

PluginTypeOK ==
    /\ Ledger!TypeOK
    /\ members \subseteq Memberships /\ granted \subseteq Grants
    /\ prepared \in {0} \cup Pools
    /\ pools \in [Pools -> {"unopened", "open", "closing", "closed"}]
    /\ activation \in {None, "secret", "schema"} /\ schema_current \in BOOLEAN
    /\ prepared # 0 => pools[prepared] = "open" /\ activation = None
    /\ handler \in [Calls -> Suspended \cup {"idle"}]
    /\ invocation \in [Calls -> Invocations \cup {None}]
    /\ pool \in [Calls -> {0} \cup Pools]
    /\ response \in [Calls -> Responses \cup {None}]
    /\ authority \in [Calls -> 0..2] /\ doubt \in [Calls -> BOOLEAN]
    /\ \A p \in Calls :
         /\ handler[p] # "idle" => invocation[p] # None
         /\ handler[p] \in {"acquire", "storage", "return"} => pool[p] # 0

Init ==
    /\ Ledger!Init
    /\ members = Memberships /\ granted = Grants
    /\ prepared = 0
    /\ pools = [g \in Pools |-> "unopened"]
    /\ activation = None /\ schema_current = FALSE
    /\ handler = [p \in Calls |-> "idle"]
    /\ invocation = [p \in Calls |-> None]
    /\ pool = [p \in Calls |-> 0]
    /\ response = [p \in Calls |-> None]
    /\ authority = [p \in Calls |-> 0]
    /\ doubt = [p \in Calls |-> FALSE]
-----------------------------------------------------------------------------
Asks(p) == invocation[p].asks
Mutates(asks) == asks.op \in Operations
Guards(asks) == asks.op = "check_retention"

Permission(op) ==
    CASE op = "get_hold" -> "legal-hold.read"
      [] op \in {"create_hold", "add_scope", "remove_scope"} -> "legal-hold.write"
      [] op = "release_hold" -> "legal-hold.release"

Member(asks) == <<asks.organization, asks.actor>> \in members
Granted(asks) ==
    <<asks.organization, asks.actor, Permission(asks.op)>> \in granted

(***************************************************************************)
(* Administrative and guard callers are listed apart.                      *)
(***************************************************************************)
AllowedCaller(asks) ==
    IF Guards(asks) THEN asks.caller \in GuardCallers
                    ELSE asks.caller \in AdminCallers

(***************************************************************************)
(* Where a call stands: it is suspended at an await, or it has returned    *)
(* before it held a connection.                                            *)
(***************************************************************************)
Suspend(p, await, connections_of) ==
    /\ handler' = [handler EXCEPT ![p] = await]
    /\ pool' = [pool EXCEPT ![p] = connections_of]
    /\ response' = [response EXCEPT ![p] = None]

Respond(p, outcome) ==
    /\ handler' = [handler EXCEPT ![p] = "idle"]
    /\ pool' = [pool EXCEPT ![p] = 0]
    /\ response' = [response EXCEPT ![p] = outcome]

(***************************************************************************)
(* What follows authorization without an await: the fields are validated,  *)
(* the prepared pool is cloned and a connection of it asked for.           *)
(***************************************************************************)
Prepare(p, i) ==
    \/ ~i.valid /\ Respond(p, "InvalidRequest")
    \/ i.valid /\ prepared = 0 /\ Respond(p, "PluginFailure")
    \/ i.valid /\ prepared # 0 /\ Suspend(p, "acquire", prepared)

(***************************************************************************)
(* How far the actor's authority has been seen to go.                      *)
(***************************************************************************)
Seen(so_far, member, has_grant) ==
    IF (so_far > 0 \/ member) /\ has_grant THEN 2
    ELSE IF member /\ so_far = 0 THEN 1 ELSE so_far

Receive(p, i) ==
    LET asks == i.asks IN
    /\ handler[p] = "idle" /\ ~open[p]
    /\ invocation' = [invocation EXCEPT ![p] = i]
    /\ IF Guards(asks)
       THEN /\ authority' = [authority EXCEPT ![p] = 0]
            /\ doubt' = [doubt EXCEPT ![p] = FALSE]
       ELSE /\ authority' =
                 [authority EXCEPT ![p] = Seen(0, Member(asks), Granted(asks))]
            /\ doubt' =
                 [doubt EXCEPT ![p] = ~(Member(asks) /\ Granted(asks))]
    /\ \/ ~AllowedCaller(asks) /\ Respond(p, "Forbidden")
       \/ AllowedCaller(asks) /\ Guards(asks) /\ Prepare(p, i)
       \/ /\ AllowedCaller(asks) /\ ~Guards(asks) /\ ~i.authentic
          /\ Respond(p, "Unauthenticated")
       \/ /\ AllowedCaller(asks) /\ ~Guards(asks) /\ i.authentic
          /\ Suspend(p, "membership", 0)
    /\ UNCHANGED <<ledgerVars, environment, lifecycle>>

(***************************************************************************)
(* The two answers authorize_admin awaits.  A dependency that rejects the  *)
(* query, or cannot be reached, fails the call.                            *)
(***************************************************************************)
MembershipIgnoringFailure(p) ==
    /\ handler[p] = "membership"
    /\ UNCHANGED <<ledgerVars, environment, lifecycle, invocation, history>>
    /\ \/ Member(Asks(p)) /\ Suspend(p, "access", 0)
       \/ ~Member(Asks(p)) /\ Respond(p, "Forbidden")
       \/ Suspend(p, "access", 0)

CheckMembership(p) ==
    /\ handler[p] = "membership"
    /\ UNCHANGED <<ledgerVars, environment, lifecycle, invocation, history>>
    /\ \/ Member(Asks(p)) /\ Suspend(p, "access", 0)
       \/ ~Member(Asks(p)) /\ Respond(p, "Forbidden")
       \/ Respond(p, "PluginFailure")

AccessFailureRefuses(p) ==
    /\ handler[p] = "access"
    /\ UNCHANGED <<ledgerVars, environment, lifecycle, invocation, history>>
    /\ \/ Granted(Asks(p)) /\ Prepare(p, invocation[p])
       \/ Respond(p, "Forbidden")

CheckPermission(p) ==
    /\ handler[p] = "access"
    /\ UNCHANGED <<ledgerVars, environment, lifecycle, invocation, history>>
    /\ \/ Granted(Asks(p)) /\ Prepare(p, invocation[p])
       \/ ~Granted(Asks(p)) /\ Respond(p, "Forbidden")
       \/ Respond(p, "PluginFailure")
-----------------------------------------------------------------------------
(***************************************************************************)
(* The pool: a connection is in use from the moment it is handed out until *)
(* it is back, which is after the call was answered.                       *)
(***************************************************************************)
InUse(g) ==
    {p \in Calls : pool[p] = g /\ handler[p] \in {"storage", "return"}}

Acquire(p) ==
    /\ handler[p] = "acquire"
    /\ pools[pool[p]] = "open"
    /\ Cardinality(InUse(pool[p])) < PoolSize
    /\ handler' = [handler EXCEPT ![p] = "storage"]
    /\ UNCHANGED <<environment, lifecycle, invocation, pool, response, history>>
    /\ IF Mutates(Asks(p)) THEN Ledger!Begin(p, Asks(p))
                           ELSE UNCHANGED ledgerVars

(***************************************************************************)
(* The pool is closed, the server cannot be reached, or acquire_timeout    *)
(* runs out.                                                               *)
(***************************************************************************)
AcquireFailsWhenClosed(p) ==
    /\ handler[p] = "acquire"
    /\ pools[pool[p]] # "open"
    /\ Respond(p, "PluginFailure")
    /\ UNCHANGED <<ledgerVars, environment, lifecycle, invocation, history>>

AcquireFails(p) ==
    /\ handler[p] = "acquire"
    /\ Respond(p, "PluginFailure")
    /\ UNCHANGED <<ledgerVars, environment, lifecycle, invocation, history>>

(***************************************************************************)
(* A step of the ledger: of a suspended call, or of a transaction whose    *)
(* call was answered and whose end is still to come.                       *)
(***************************************************************************)
LedgerStep(p) ==
    /\ UNCHANGED <<environment, lifecycle, handlerVars, history>>
    /\ Ledger!Step(p)

(***************************************************************************)
(* The domain errors of an operation.  For create_hold map_create_domain   *)
(* keeps IdempotencyConflict and makes InvalidRequest of every other.      *)
(***************************************************************************)
CommonError(op, outcome) ==
    IF op = "create_hold" /\ outcome \in DomainFailures
    THEN "InvalidRequest" ELSE outcome

WireError(op, outcome) ==
    IF op = "create_hold" /\ outcome \in DomainFailures \ {"IdempotencyConflict"}
    THEN "InvalidRequest" ELSE outcome

Answered(p, outcome) ==
    /\ handler' = [handler EXCEPT ![p] = "return"]
    /\ response' = [response EXCEPT ![p] = WireError(Asks(p).op, outcome)]
    /\ UNCHANGED <<ledgerVars, environment, lifecycle, invocation, pool, history>>

(***************************************************************************)
(* wire_cast may fail on the view of a mutation that has taken effect.     *)
(***************************************************************************)
FinishMutation(p) ==
    /\ handler[p] = "storage" /\ Mutates(Asks(p))
    /\ answer[p] # None
    /\ \/ Answered(p, answer[p].outcome)
       \/ answer[p].outcome = "Ok" /\ Answered(p, "PluginFailure")

(***************************************************************************)
(* A read ends with what it found, or with a failure: of a statement, or   *)
(* of the next connection of a read that takes several.                    *)
(***************************************************************************)
FinishRead(p) ==
    /\ handler[p] = "storage" /\ ~Mutates(Asks(p))
    /\ \/ Answered(p, "Ok")
       \/ Asks(p).op = "get_hold" /\ Answered(p, "NotFound")
       \/ Answered(p, "PluginFailure")

ReturnConnection(p) ==
    /\ handler[p] = "return"
    /\ handler' = [handler EXCEPT ![p] = "idle"]
    /\ pool' = [pool EXCEPT ![p] = 0]
    /\ UNCHANGED <<ledgerVars, environment, lifecycle, invocation, response, history>>
-----------------------------------------------------------------------------
(***************************************************************************)
(* The lifecycle.  The kernel runs one activate or deactivate at a time.   *)
(* activate awaits the secret with the database URL and then the pool with *)
(* its verified schema; a failure or a cancellation of either leaves       *)
(* nothing behind.  The pool shows to handlers only when it is ready.      *)
(***************************************************************************)
Inactive == prepared = 0 /\ \A g \in Pools : pools[g] # "closing"

Activate ==
    /\ Inactive /\ activation = None
    /\ \E g \in Pools : pools[g] = "unopened"
    /\ activation' = "secret"
    /\ UNCHANGED <<prepared, pools, schema_current, ledgerVars, environment,
                   handlerVars, history>>

ResolveSecret ==
    /\ activation = "secret"
    /\ activation' \in {"schema", None}
    /\ UNCHANGED <<prepared, pools, schema_current, ledgerVars, environment,
                   handlerVars, history>>

OpenPool(g) ==
    /\ pools[g] = "unopened"
    /\ \A f \in Pools : f < g => pools[f] # "unopened"
    /\ prepared' = g
    /\ pools' = [pools EXCEPT ![g] = "open"]

PrepareUnverified ==
    /\ activation = "schema"
    /\ activation' = None
    /\ \/ \E g \in Pools : OpenPool(g)
       \/ UNCHANGED <<prepared, pools>>
    /\ UNCHANGED <<schema_current, ledgerVars, environment, handlerVars, history>>

PrepareSchema ==
    /\ activation = "schema"
    /\ activation' = None
    /\ \/ schema_current /\ \E g \in Pools : OpenPool(g)
       \/ UNCHANGED <<prepared, pools>>
    /\ UNCHANGED <<schema_current, ledgerVars, environment, handlerVars, history>>

(***************************************************************************)
(* LegalHoldOperator: setup or upgrade, at any time, beside the instance.  *)
(***************************************************************************)
Operate ==
    /\ ~schema_current
    /\ schema_current' = TRUE
    /\ UNCHANGED <<prepared, pools, activation, ledgerVars, environment,
                   handlerVars, history>>

DropPool ==
    /\ prepared # 0
    /\ prepared' = 0
    /\ UNCHANGED <<pools, activation, schema_current, ledgerVars, environment,
                   handlerVars, history>>

CloseOnly ==
    /\ prepared # 0
    /\ pools' = [pools EXCEPT ![prepared] = "closing"]
    /\ UNCHANGED <<prepared, activation, schema_current, ledgerVars, environment,
                   handlerVars, history>>

Deactivate ==
    /\ prepared # 0
    /\ prepared' = 0
    /\ pools' = [pools EXCEPT ![prepared] = "closing"]
    /\ UNCHANGED <<activation, schema_current, ledgerVars, environment,
                   handlerVars, history>>

(***************************************************************************)
(* Pool::close: every connection is back.                                  *)
(***************************************************************************)
CloseOnceNobodyWaits(g) ==
    /\ pools[g] = "closing"
    /\ \A p \in Calls : handler[p] = "idle"
    /\ pools' = [pools EXCEPT ![g] = "closed"]
    /\ UNCHANGED <<prepared, activation, schema_current, ledgerVars, environment,
                   handlerVars, history>>

CloseEnds(g) ==
    /\ pools[g] = "closing"
    /\ InUse(g) = {}
    /\ pools' = [pools EXCEPT ![g] = "closed"]
    /\ UNCHANGED <<prepared, activation, schema_current, ledgerVars, environment,
                   handlerVars, history>>

(***************************************************************************)
(* Other plugins change a membership or a grant.  The history of the calls *)
(* under way takes note.                                                   *)
(***************************************************************************)
Toggled(set, e) == IF e \in set THEN set \ {e} ELSE set \cup {e}

Authorizing(p) ==
    /\ handler[p] # "idle" /\ ~Guards(Asks(p))

Witness ==
    /\ authority' = [p \in Calls |->
         IF Authorizing(p)
         THEN Seen(authority[p], Member(Asks(p))', Granted(Asks(p))')
         ELSE authority[p]]
    /\ doubt' = [p \in Calls |->
         IF Authorizing(p)
         THEN doubt[p] \/ ~(Member(Asks(p))' /\ Granted(Asks(p))')
         ELSE doubt[p]]

ChangeAuthority ==
    /\ UNCHANGED <<ledgerVars, lifecycle, handlerVars>>
    /\ \/ \E m \in Revocable \cap Memberships :
            members' = Toggled(members, m) /\ UNCHANGED granted
       \/ \E g \in Revocable \cap Grants :
            granted' = Toggled(granted, g) /\ UNCHANGED members
    /\ Witness
-----------------------------------------------------------------------------
CallStep(p) ==
    \/ CheckMembership(p) \/ CheckPermission(p)
    \/ Acquire(p) \/ AcquireFails(p)
    \/ FinishMutation(p) \/ FinishRead(p)
    \/ ReturnConnection(p)

Next ==
    \/ \E p \in Calls : \/ \E i \in Invocations : Receive(p, i)
                        \/ CallStep(p)
                        \/ LedgerStep(p)
    \/ Activate \/ ResolveSecret \/ PrepareSchema \/ Deactivate \/ Operate
    \/ \E g \in Pools : CloseEnds(g)
    \/ ChangeAuthority

Spec == Init /\ [][Next]_vars

(***************************************************************************)
(* A suspended call goes on: the dependencies, the server or the pool      *)
(* answer, or the deadline of the invocation does.  Nothing is assumed of  *)
(* the lifecycle but that a close that can end does, and that Secrets and  *)
(* the database answer an activation or fail it (DEPENDENCY_TIMEOUT, the   *)
(* pool's timeouts).                                                       *)
(***************************************************************************)
Fairness ==
    /\ \A p \in Calls : WF_vars(CallStep(p)) /\ WF_vars(LedgerStep(p))
    /\ \A g \in Pools : WF_vars(CloseEnds(g))
    /\ WF_vars(ResolveSecret) /\ WF_vars(PrepareSchema)

FairSpec == Spec /\ Fairness
-----------------------------------------------------------------------------
Unauthorized == {None, "Forbidden", "Unauthenticated", "PluginFailure"}

(***************************************************************************)
(* A call that touches the tables, or learns anything of them, was made by *)
(* a listed caller, and an administrative one carried the actor's valid    *)
(* assertion while the actor was a member and, then or later in the same   *)
(* call, had the permission of the operation (lib.rs:556-616).             *)
(***************************************************************************)
Listed(p) ==
    Asks(p).caller \in IF Guards(Asks(p)) THEN GuardCallers ELSE AdminCallers

Authorized(p) ==
    /\ Listed(p)
    /\ ~Guards(Asks(p)) => invocation[p].authentic /\ authority[p] = 2

AnswersAreAuthorized ==
    \A p \in Calls :
        (response[p] \notin Unauthorized \/ handler[p] \in {"acquire", "storage"})
            => Authorized(p)

(***************************************************************************)
(* Forbidden is never the mask of a failed dependency: the caller is not   *)
(* listed, or the actor lacked the membership or the permission at some    *)
(* moment of the call (lib.rs:577-588, 603-614).                           *)
(***************************************************************************)
RefusalsAreTrue ==
    \A p \in Calls :
        response[p] = "Forbidden" => ~Listed(p) \/ doubt[p]

(***************************************************************************)
(* What the caller is told is so, after every mapping on the way: Ok means *)
(* a receipt of exactly this request, a domain failure means that the      *)
(* storage refused this very request for that reason and that nothing of   *)
(* the call is left to take effect, so it is never told of a mutation that *)
(* was committed and whose view could not be sent; and InvalidRequest      *)
(* means invalid fields: the fallback of map_create_domain is never taken  *)
(* (lib.rs:738-764, 794-800).                                              *)
(***************************************************************************)
ResponsesAreTrue ==
    \A p \in Calls :
        /\ (response[p] = "Ok" /\ Mutates(Asks(p))) =>
             /\ Ledger!ReceiptFor(Asks(p)) # None
             /\ Ledger!ReceiptFor(Asks(p)).hash = HashOf(Asks(p))
        /\ response[p] \in DomainFailures =>
             /\ ~open[p]
             /\ Mutates(Asks(p)) =>
                  /\ request[p] = Asks(p) /\ answer[p] # None
                  /\ answer[p].outcome = response[p]
        /\ response[p] = "InvalidRequest" => ~invocation[p].valid

(***************************************************************************)
(* An instance whose deactivation has ended changes no hold, no scope, no  *)
(* activity and no receipt: only a COMMIT whose call had already failed    *)
(* can still take effect (lib.rs:665-671).  The guard's own table is not   *)
(* meant: an INSERT of evidence that was sent may still be carried out,    *)
(* which RetentionGuard allows at any time.                                *)
(***************************************************************************)
TablesRestWhileInactive ==
    [][Inactive /\ tables' # tables =>
         \E p \in Calls : open[p] /\ answer[p] # None /\ handler[p] # "storage"]_vars

(***************************************************************************)
(* No statement of a handler meets a schema that the operator has not      *)
(* brought to the version of this build, and while the instance is being   *)
(* activated every call fails, a guard's too (lib.rs:547-554, 639-663).    *)
(***************************************************************************)
NothingBeforeTheSchema ==
    \A p \in Calls :
        /\ handler[p] \in {"acquire", "storage"} => schema_current
        /\ response[p] \in {"Ok"} \cup DomainFailures => schema_current

(***************************************************************************)
(* Every call is answered, also when the pool is exhausted or closing.     *)
(***************************************************************************)
CallsAnswered ==
    \A p \in Calls : (handler[p] = "membership") ~> (response[p] # None)

(***************************************************************************)
(* A transition of the lifecycle ends.  An activation does, with a pool or *)
(* with nothing, also when the operator never brings the schema up:        *)
(* activate does not wait for it.  A deactivation does, whatever the calls *)
(* under way do (lib.rs:639-671).                                          *)
(***************************************************************************)
TransitionsEnd ==
    /\ (activation # None) ~> (activation = None)
    /\ \A g \in Pools : (pools[g] = "closing") ~> (pools[g] = "closed")
=============================================================================
