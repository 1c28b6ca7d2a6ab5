----------------------------- MODULE LegalHold -----------------------------
(***************************************************************************)
(* The data of the Legal Hold Plugin: the rows of its PostgreSQL tables,   *)
(* the requests its administrative operations receive and the views they   *)
(* return.  No behaviour: the modules that describe behaviour EXTEND this  *)
(* one.                                                                    *)
(*                                                                         *)
(* Free text (title, reason, legal authority) is a member of Texts, a      *)
(* (scope_kind, scope_id) pair is a member of Targets, and timestamps are  *)
(* left out: nothing in the code decides on them.                          *)
(***************************************************************************)
EXTENDS Integers

CONSTANTS
    Holds,          \* hold_id values
    Organizations,  \* organization_id values
    Targets,        \* (scope_kind, scope_id) pairs, matched exactly
    Subjects,       \* concrete scope subjects
    Callers,        \* exact caller Instance keys
    Actors,         \* authenticated actor subjects
    Keys,           \* idempotency keys
    Texts,          \* titles, reasons and legal authorities
    Requests,       \* the validated requests callers may send
    None            \* SQL NULL, an absent row, Option::None

Operations == {"create_hold", "add_scope", "remove_scope", "release_hold"}
ScopeOperations == {"add_scope", "remove_scope"}

(***************************************************************************)
(* A scope whose subject is None preserves every subject of its target.    *)
(***************************************************************************)
Scope == [target: Targets, subject: Subjects \cup {None}]

(***************************************************************************)
(* One administrative mutation as storage.rs receives it.  A field that an *)
(* operation does not have is None, or 0 for expected_revision; a request  *)
(* that has one carries a parsed revision, which parse_revision bounds     *)
(* below by 1.                                                             *)
(***************************************************************************)
Request == [op: Operations, caller: Callers, actor: Actors, key: Keys,
            organization: Organizations, hold: Holds,
            scope: Scope \cup {None}, expected: Nat, text: Texts \cup {None}]

(***************************************************************************)
(* Primary key of legal_hold_commands: receipts are scoped to the caller,  *)
(* the actor and the operation.                                            *)
(***************************************************************************)
CommandKey == [caller: Callers, actor: Actors, op: Operations, key: Keys]

CommandKeyOf(r) ==
    [caller |-> r.caller, actor |-> r.actor, op |-> r.op, key |-> r.key]

(***************************************************************************)
(* request_hash: SHA-256 of the wire form, taken to be injective on what   *)
(* the wire form contains.  The caller and the actor are not part of it.   *)
(***************************************************************************)
RequestHash == [key: Keys, organization: Organizations, hold: Holds,
                scope: Scope \cup {None}, expected: Nat,
                text: Texts \cup {None}]

HashOf(r) ==
    [key |-> r.key, organization |-> r.organization, hold |-> r.hold,
     scope |-> r.scope, expected |-> r.expected, text |-> r.text]

(***************************************************************************)
(* A row of legal_holds, the HoldView returned to callers, a receipt and   *)
(* an activity row.                                                        *)
(***************************************************************************)
HoldRow == [organization: Organizations, text: Texts \cup {None},
            status: {"active", "released"}, revision: Nat \ {0},
            released_by: Actors \cup {None},
            release_reason: Texts \cup {None}]

HoldView == [hold: Holds, row: HoldRow, scopes: SUBSET Scope]

ViewOf(h, row, scopes) == [hold |-> h, row |-> row, scopes |-> scopes]

Receipt == [hash: RequestHash, response: HoldView]

ActivityRow == [id: Nat, organization: Organizations, hold: Holds,
                kind: {"hold_created", "scope_added", "scope_removed",
                       "hold_released"},
                actor: Actors, scope: Scope \cup {None},
                text: Texts \cup {None}]

ActivityKind(op) ==
    CASE op = "create_hold"  -> "hold_created"
      [] op = "add_scope"    -> "scope_added"
      [] op = "remove_scope" -> "scope_removed"
      [] op = "release_hold" -> "hold_released"

ActivityOf(r, id) ==
    [id |-> id, organization |-> r.organization, hold |-> r.hold,
     kind |-> ActivityKind(r.op), actor |-> r.actor, scope |-> r.scope,
     text |-> r.text]

(***************************************************************************)
(* What each operation does to a row and to its scopes.  UNIQUE NULLS NOT  *)
(* DISTINCT and IS NOT DISTINCT FROM make a None subject a value like any  *)
(* other.                                                                  *)
(***************************************************************************)
NewRow(r) ==
    [organization |-> r.organization, text |-> r.text, status |-> "active",
     revision |-> 1, released_by |-> None, release_reason |-> None]

AdvanceRow(row) == [row EXCEPT !.revision = @ + 1]

ReleaseRow(r, row) ==
    [row EXCEPT !.status = "released", !.revision = @ + 1,
                !.released_by = r.actor, !.release_reason = r.text]

ScopeChanges(op, scope, scopes) ==
    CASE op = "add_scope"    -> scope \notin scopes
      [] op = "remove_scope" -> scope \in scopes

ScopesAfter(op, scope, scopes) ==
    CASE op = "add_scope"    -> scopes \cup {scope}
      [] op = "remove_scope" -> scopes \ {scope}

(***************************************************************************)
(* The outcomes a caller can tell apart.  create_hold reports its          *)
(* conflicts through map_create_domain, which keeps IdempotencyConflict,   *)
(* the only domain failure that operation raises.  StorageError::Database  *)
(* becomes RuntimeFailure::PluginFailure.                                  *)
(***************************************************************************)
DomainFailures == {"NotFound", "RevisionConflict", "IdempotencyConflict",
                   "ScopeConflict", "HoldReleased"}
Failures == DomainFailures \cup {"PluginFailure"}

Answer == [outcome: {"Ok"}, view: HoldView]
            \cup [outcome: Failures, view: {None}]

(***************************************************************************)
(* What the validation of lib.rs leaves: a request of a scope operation    *)
(* has a scope, and one that needs a revision has a positive one.          *)
(***************************************************************************)
ASSUME RequestsAssumption ==
    /\ Requests \subseteq Request
    /\ \A r \in Requests : r.op \in ScopeOperations => r.scope \in Scope
    /\ \A r \in Requests : r.op # "create_hold" => r.expected > 0

ASSUME NoneAssumption ==
    /\ None \notin HoldRow /\ None \notin Receipt /\ None \notin Request
    /\ None \notin Answer /\ None \notin Scope /\ None \notin Subjects
=============================================================================
