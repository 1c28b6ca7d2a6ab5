----------------------------- MODULE AgentTools -----------------------------
(***************************************************************************)
(* The agent tools adapter (lenso-legal-hold-agent-tools-plugin): an agent *)
(* executes a tool, the adapter decodes its arguments, makes one call of   *)
(* the capability through the generated client, and tells the agent what   *)
(* came of it.                                                             *)
(*                                                                         *)
(* The provider of the capability is the ledger behind the checks of       *)
(* LegalHoldPlugin, which appear here as a refusal that may come instead   *)
(* of any effect.  It runs in this process, or behind a transport that     *)
(* encodes results, and may then be of a later version.  A call that times *)
(* out leaves the provider at work.                                        *)
(***************************************************************************)
EXTENDS HoldStore, HoldWire

CONSTANTS
    Executions              \* call -> the [name, asks, decodes] an agent may send

MutationTools == {"legal_hold_create", "legal_hold_add_scope",
                  "legal_hold_remove_scope", "legal_hold_release"}
ReadTools == {"legal_hold_get", "legal_hold_list", "legal_hold_list_activity"}
Tools == MutationTools \cup ReadTools

(***************************************************************************)
(* The catalogue's execution class of a tool.                              *)
(***************************************************************************)
ExecutionClass(name) ==
    IF name \in ReadTools THEN "ParallelSafe" ELSE "Exclusive"

(***************************************************************************)
(* The arguments of a mutating tool are of its own type, whatever method   *)
(* they are then given to.                                                 *)
(***************************************************************************)
ASSUME ToolsAssumption ==
    \A p \in Calls : \A e \in Executions[p] : e.name \in MutationTools =>
        /\ e.asks \in Requests
        /\ <<e.name, e.asks.op>> \in
             {<<"legal_hold_create", "create_hold">>,
              <<"legal_hold_add_scope", "add_scope">>,
              <<"legal_hold_remove_scope", "remove_scope">>,
              <<"legal_hold_release", "release_hold">>}

VARIABLES
    phase,      \* call -> where the execution is
    execution,  \* call -> what it executes or executed last, or None
    remote,     \* whether the provider it is bound to is behind a transport
    told,       \* call -> what the agent was told, or None
    refusal,    \* history: the code the provider refused the call with
    effect      \* history: whether the call has changed the tables

toolVars == <<phase, execution, remote, told>>
history == <<refusal, effect>>
vars == <<ledgerVars, toolVars, history>>

Outcome(kind, reason, view) == [kind |-> kind, reason |-> reason, view |-> view]
Rejections == {"InvalidArguments", "NotFound", "PermissionDenied", "ExecutionFailed"}

ToolsTypeOK ==
    /\ Ledger!TypeOK
    /\ phase \in [Calls -> {"idle", "called", "provided"}]
    /\ \A p \in Calls : execution[p] \in Executions[p] \cup {None}
    /\ remote \in BOOLEAN
    /\ refusal \in [Calls -> Codes \cup {None}]
    /\ effect \in [Calls -> BOOLEAN]
    /\ \A p \in Calls :
         /\ told[p] # None => told[p].kind \in Rejections \cup {"Success", "Runtime"}
         /\ phase[p] # "idle" => told[p] = None /\ execution[p].decodes

Init ==
    /\ Ledger!Init
    /\ phase = [p \in Calls |-> "idle"]
    /\ execution = [p \in Calls |-> None]
    /\ remote \in BOOLEAN
    /\ told = [p \in Calls |-> None]
    /\ refusal = [p \in Calls |-> None]
    /\ effect = [p \in Calls |-> FALSE]
-----------------------------------------------------------------------------
(***************************************************************************)
(* execute: the name selects the type of the arguments and the method.     *)
(***************************************************************************)
ScopeToolsSwapped(name) ==
    CASE name = "legal_hold_create"        -> "create_hold"
      [] name = "legal_hold_add_scope"     -> "remove_scope"
      [] name = "legal_hold_remove_scope"  -> "add_scope"
      [] name = "legal_hold_release"       -> "release_hold"
      [] name = "legal_hold_get"           -> "get_hold"
      [] name = "legal_hold_list"          -> "list_holds"
      [] name = "legal_hold_list_activity" -> "list_activity"

Operation(name) ==
    CASE name = "legal_hold_create"        -> "create_hold"
      [] name = "legal_hold_add_scope"     -> "add_scope"
      [] name = "legal_hold_remove_scope"  -> "remove_scope"
      [] name = "legal_hold_release"       -> "release_hold"
      [] name = "legal_hold_get"           -> "get_hold"
      [] name = "legal_hold_list"          -> "list_holds"
      [] name = "legal_hold_list_activity" -> "list_activity"

Mutates(p) == execution[p].name \in MutationTools

Sent(p) == [execution[p].asks EXCEPT !.op = Operation(execution[p].name)]

Tell(p, outcome) ==
    /\ phase' = [phase EXCEPT ![p] = "idle"]
    /\ told' = [told EXCEPT ![p] = outcome]

Execute(p, e) ==
    /\ phase[p] = "idle" /\ ~open[p]
    /\ execution' = [execution EXCEPT ![p] = e]
    /\ refusal' = [refusal EXCEPT ![p] = None]
    /\ effect' = [effect EXCEPT ![p] = FALSE]
    /\ \/ e.name \notin Tools /\ Tell(p, Outcome("NotFound", None, None))
       \/ /\ e.name \in Tools /\ ~e.decodes
          /\ Tell(p, Outcome("InvalidArguments", None, None))
       \/ /\ e.name \in Tools /\ e.decodes
          /\ phase' = [phase EXCEPT ![p] = "called"]
          /\ told' = [told EXCEPT ![p] = None]
    /\ UNCHANGED <<ledgerVars, remote>>
-----------------------------------------------------------------------------
(***************************************************************************)
(* tool_error and success.  Only a domain error is an error of the tool.   *)
(***************************************************************************)
ToolError(error) ==
    CASE error.known /\ error.code = "invalid_request" ->
            Outcome("InvalidArguments", None, None)
      [] error.known /\ error.code = "not_found" -> Outcome("NotFound", None, None)
      [] error.known /\ error.code \in {"forbidden", "unauthenticated"} ->
            Outcome("PermissionDenied", None, None)
      [] error.known /\ error.code \in
            {"hold_released", "idempotency_conflict", "revision_conflict",
             "scope_conflict"} -> Outcome("ExecutionFailed", error.code, None)
      [] ~error.known -> Outcome("ExecutionFailed", "unknown_domain_error", None)

RuntimeRejects(r) ==
    CASE r.is = "Ok"      -> Outcome("Success", None, r.of)
      [] r.is = "Domain"  -> ToolError(r.of)
      [] r.is = "Runtime" -> Outcome("ExecutionFailed", "unknown_domain_error", None)

FailureSucceeds(r) ==
    CASE r.is = "Ok"      -> Outcome("Success", None, r.of)
      [] r.is = "Domain"  -> ToolError(r.of)
      [] r.is = "Runtime" -> Outcome("Success", None, None)

ToolResult(r) ==
    CASE r.is = "Ok"      -> Outcome("Success", None, r.of)
      [] r.is = "Domain"  -> ToolError(r.of)
      [] r.is = "Runtime" -> Outcome("Runtime", None, None)

Reply(p, plugin_result) ==
    Tell(p, ToolResult(ClientResult(IntoResult(plugin_result))))
-----------------------------------------------------------------------------
(***************************************************************************)
(* The call reaches the handler, which may refuse it before its storage    *)
(* is asked, with a code of its version.                                   *)
(***************************************************************************)
Invoke(p) ==
    /\ phase[p] = "called"
    /\ phase' = [phase EXCEPT ![p] = "provided"]
    /\ IF Mutates(p) THEN Ledger!Begin(p, Sent(p)) ELSE UNCHANGED ledgerVars
    /\ UNCHANGED <<execution, remote, told, history>>

(***************************************************************************)
(* A result on its way from the provider.  Through a transport a domain    *)
(* error travels as JSON, a code of a later version as a string.           *)
(***************************************************************************)
Arrived(error) == IF remote THEN Decode(error) ELSE error

RefuseWith(p, code) ==
    /\ Reply(p, PluginDomain(
            Arrived(IF remote THEN CodeAsString(code) ELSE Variant(code))))
    /\ refusal' = [refusal EXCEPT ![p] = code]

HandlerRefuses(p) ==
    /\ phase[p] = "called"
    /\ \/ \E code \in {"forbidden", "unauthenticated", "invalid_request"} :
            RefuseWith(p, code)
       \/ \E code \in LaterCodes : remote /\ RefuseWith(p, code)
       \/ ~Mutates(p) /\ RefuseWith(p, "not_found")
    /\ UNCHANGED <<ledgerVars, execution, remote, effect>>

CodeOf(outcome) ==
    CASE outcome = "NotFound"            -> "not_found"
      [] outcome = "RevisionConflict"    -> "revision_conflict"
      [] outcome = "IdempotencyConflict" -> "idempotency_conflict"
      [] outcome = "ScopeConflict"       -> "scope_conflict"
      [] outcome = "HoldReleased"        -> "hold_released"

LedgerStep(p) ==
    /\ UNCHANGED <<toolVars, refusal>>
    /\ Ledger!Step(p)
    /\ effect' = [effect EXCEPT ![p] = @ \/ tables' # tables]

Provide(p) ==
    /\ phase[p] = "provided"
    /\ \/ /\ Mutates(p) /\ answer[p] # None
          /\ \/ /\ answer[p].outcome = "Ok"
                /\ Reply(p, PluginOk(answer[p].view))
                /\ UNCHANGED refusal
             \/ /\ answer[p].outcome \in DomainFailures
                /\ RefuseWith(p, CodeOf(answer[p].outcome))
       \/ /\ ~Mutates(p)
          /\ Reply(p, PluginOk(None))
          /\ UNCHANGED refusal
    /\ UNCHANGED <<ledgerVars, execution, remote, effect>>

(***************************************************************************)
(* The storage fails, wire_cast or the adapter cannot serialise the        *)
(* response, the kernel cannot deliver the call or gives up on it, or its  *)
(* reply is lost.                                                          *)
(***************************************************************************)
FailCall(p) ==
    /\ phase[p] \in {"called", "provided"}
    /\ Reply(p, PluginRuntime("RuntimeFailure"))
    /\ UNCHANGED <<ledgerVars, execution, remote, history>>
-----------------------------------------------------------------------------
ToolStep(p) ==
    \/ Invoke(p) \/ HandlerRefuses(p) \/ Provide(p) \/ FailCall(p)

Next ==
    \E p \in Calls : \/ \E e \in Executions[p] : Execute(p, e)
                     \/ ToolStep(p)
                     \/ LedgerStep(p)

Spec == Init /\ [][Next]_vars

-----------------------------------------------------------------------------
(***************************************************************************)
(* An agent that is told its call was rejected may give it up: the call    *)
(* has changed nothing and never will, although a call that timed out may  *)
(* still do (agent lib.rs:53-54, 230-246).                                 *)
(***************************************************************************)
RejectionsAreFinal ==
    \A p \in Calls :
        (told[p] # None /\ told[p].kind \in Rejections) => ~effect[p] /\ ~open[p]

(***************************************************************************)
(* Success of a mutating tool is what a committed receipt of exactly the   *)
(* agent's arguments says (agent lib.rs:50-52, 195-210).                   *)
(***************************************************************************)
SuccessIsDurable ==
    \A p \in Calls :
        (told[p] # None /\ told[p].kind = "Success" /\ Mutates(p)) =>
            LET c == ReceiptFor(execution[p].asks) IN
            c # None /\ c.hash = HashOf(execution[p].asks) /\ c.response = told[p].view

(***************************************************************************)
(* The reason the agent is given is the provider's, on every way back: no  *)
(* code is taken for another, denial of permission least of all, and only  *)
(* codes of later versions lose their name (agent lib.rs:230-249,          *)
(* generated.rs:795-854).                                                  *)
(***************************************************************************)
ReasonsSurvive ==
    \A p \in Calls : (refusal[p] # None /\ phase[p] = "idle") =>
        LET t == told[p] IN
        \/ t.kind = "Runtime"
        \/ t.kind = "PermissionDenied" /\ refusal[p] \in {"forbidden", "unauthenticated"}
        \/ t.kind = "InvalidArguments" /\ refusal[p] = "invalid_request"
        \/ t.kind = "NotFound" /\ refusal[p] = "not_found"
        \/ t.kind = "ExecutionFailed" /\ t.reason = refusal[p]
        \/ t.kind = "ExecutionFailed" /\ refusal[p] \in LaterCodes

(***************************************************************************)
(* Tools do what the catalogue says of them: those it lets run in parallel *)
(* change nothing, and of the others each changes what its name tells, at  *)
(* the time of the call or later (agent lib.rs:113-170).                   *)
(***************************************************************************)
ChangesAllowed(name, h) ==
    LET row == legal_holds[h]
        scopes == legal_hold_scopes[h]
    IN  /\ ExecutionClass(name) = "Exclusive"
        /\ row = None => name = "legal_hold_create"
        /\ row' # row /\ row # None =>
             (row'.status = "released") = (name = "legal_hold_release")
        /\ scopes' \ scopes # {} => name = "legal_hold_add_scope"
        /\ scopes \ scopes' # {} => name = "legal_hold_remove_scope"

ToolsDoWhatTheySay ==
    [][\A p \in Calls : (effect'[p] /\ ~effect[p]) =>
         \A h \in Holds :
            (legal_holds[h]' # legal_holds[h]
              \/ legal_hold_scopes[h]' # legal_hold_scopes[h]) =>
                ChangesAllowed(execution[p].name, h)]_vars

=============================================================================
