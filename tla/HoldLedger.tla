---------------------------- MODULE HoldLedger ----------------------------
(***************************************************************************)
(* What storage.rs promises the callers of its mutations, without          *)
(* statements, locks or transactions: a mutation takes effect in one step  *)
(* that is enabled only when the request is legal in the state it changes, *)
(* a refusal is true at the moment it is given, and a PluginFailure says   *)
(* nothing: the mutation may still take effect, later, once.               *)
(***************************************************************************)
EXTENDS HoldTables

CONSTANTS
    Calls,        \* slots for concurrent invocations
    ActivityIds   \* the ids an activity row may get

VARIABLES
    open,      \* call -> whether it may still take effect
    request,   \* call -> the request it serves or served last
    answer     \* call -> what its caller was told, or None

vars == <<tables, open, request, answer>>

TypeOK ==
    /\ TablesTypeOK
    /\ open \in [Calls -> BOOLEAN]
    /\ request \in [Calls -> Requests \cup {None}]
    /\ answer \in [Calls -> Answer \cup {None}]
    /\ \A p \in Calls : open[p] => request[p] \in Requests

Init ==
    /\ TablesEmpty
    /\ open = [p \in Calls |-> FALSE]
    /\ request = [p \in Calls |-> None]
    /\ answer = [p \in Calls |-> None]
-----------------------------------------------------------------------------
(***************************************************************************)
(* The states in which a request may be refused, by the reason given.      *)
(***************************************************************************)
Justified(r, failure) ==
    \/ /\ failure = "IdempotencyConflict"
       /\ \/ ReceiptFor(r) # None /\ ReceiptFor(r).hash # HashOf(r)
          \/ r.op = "create_hold" /\ legal_holds[r.hold] # None
    \/ /\ r.op # "create_hold"
       /\ \/ failure = "NotFound" /\ ~Visible(r)
          \/ /\ failure = "HoldReleased"
             /\ Visible(r) /\ legal_holds[r.hold].status = "released"
          \/ /\ failure = "RevisionConflict"
             /\ Visible(r) /\ legal_holds[r.hold].revision # r.expected
          \/ /\ failure = "ScopeConflict"
             /\ Current(r) /\ r.op \in ScopeOperations
             /\ ~ScopeChanges(r.op, r.scope, legal_hold_scopes[r.hold])

Tell(p, outcome, view) ==
    answer' = [answer EXCEPT ![p] = [outcome |-> outcome, view |-> view]]
-----------------------------------------------------------------------------
Begin(p, r) ==
    /\ ~open[p]
    /\ open' = [open EXCEPT ![p] = TRUE]
    /\ request' = [request EXCEPT ![p] = r]
    /\ answer' = [answer EXCEPT ![p] = None]
    /\ UNCHANGED tables

(***************************************************************************)
(* The one step in which a mutation takes effect.  Its activity row comes  *)
(* after every other row of the hold.  The caller is told, unless it was   *)
(* already given a failure.                                                *)
(***************************************************************************)
Apply(p, id) ==
    LET r == request[p] IN
    /\ open[p]
    /\ Legal(r)
    /\ \A e \in legal_hold_activity : e.id # id /\ (e.hold = r.hold => e.id < id)
    /\ legal_holds' = [legal_holds EXCEPT ![r.hold] = RowAfter(r)]
    /\ legal_hold_scopes' = [legal_hold_scopes EXCEPT ![r.hold] = ScopeSetAfter(r)]
    /\ legal_hold_activity' = legal_hold_activity \cup {ActivityOf(r, id)}
    /\ legal_hold_commands' =
         [legal_hold_commands EXCEPT
            ![CommandKeyOf(r)] = [hash |-> HashOf(r), response |-> ViewAfter(r)]]
    /\ \/ answer[p] = None /\ Tell(p, "Ok", ViewAfter(r))
       \/ answer[p] # None /\ UNCHANGED answer
    /\ open' = [open EXCEPT ![p] = FALSE]
    /\ UNCHANGED request

Replayed(p) ==
    /\ open[p] /\ answer[p] = None
    /\ ReceiptFor(request[p]) # None
    /\ ReceiptFor(request[p]).hash = HashOf(request[p])
    /\ Tell(p, "Ok", ReceiptFor(request[p]).response)
    /\ open' = [open EXCEPT ![p] = FALSE]
    /\ UNCHANGED <<tables, request>>

Refuse(p, failure) ==
    /\ open[p] /\ answer[p] = None
    /\ Justified(request[p], failure)
    /\ Tell(p, failure, None)
    /\ open' = [open EXCEPT ![p] = FALSE]
    /\ UNCHANGED <<tables, request>>

(***************************************************************************)
(* The call fails.  It is over, or its effect is still to come.            *)
(***************************************************************************)
Fail(p) ==
    /\ open[p] /\ answer[p] = None
    /\ Tell(p, "PluginFailure", None)
    /\ open' \in {open, [open EXCEPT ![p] = FALSE]}
    /\ UNCHANGED <<tables, request>>

Abandon(p) ==
    /\ open[p] /\ answer[p] # None
    /\ open' = [open EXCEPT ![p] = FALSE]
    /\ UNCHANGED <<tables, request, answer>>

Step(p) ==
    \/ \E id \in ActivityIds : Apply(p, id)
    \/ Replayed(p)
    \/ \E failure \in DomainFailures : Refuse(p, failure)
    \/ Fail(p)
    \/ Abandon(p)

Next == \E p \in Calls : (\E r \in Requests : Begin(p, r)) \/ Step(p)

Spec == Init /\ [][Next]_vars
=============================================================================
