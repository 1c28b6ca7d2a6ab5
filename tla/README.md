# Verification of the Legal Hold Plugin

TLA+ modules of the Lenso Legal Hold Plugin, the TLC runs that check them on
small instances, and proofs that TLAPS checks for every instance. Paths are of
the repository; `storage.rs`, `lib.rs` and `001_create_legal_holds.sql` are in
`src/crates/lenso-legal-hold-postgres-plugin/`.

## The system

A legal hold keeps data from being deleted. Administrators create holds, add
and remove scopes (a kind, an id and a subject, or every subject) and release
holds; other plugins ask a guard whether a subject may be deleted.

| Component | State | Operations | Talks to |
|---|---|---|---|
| Hold storage, mutations (`storage.rs:84-386`) | four PostgreSQL tables: holds, scopes, commands (receipts), activity | `create_hold`, `mutate_scope` (add, remove), `release_hold`, each one transaction | PostgreSQL at READ COMMITTED, through a pool |
| Hold storage, reads (`storage.rs:160-207, 388-430`) | none | `get_hold`, `list_holds`, `list_activity` | the same tables |
| Retention guard (`storage.rs:432-490`) | the table of guard decisions | `check_retention` | the same tables, outside a transaction |
| Plugin instance (`lib.rs:183-810`) | the prepared pool in an `Rc<RefCell>`, its configuration | eight handlers, `activate`, `deactivate` | Organization Membership, Access Control and Secrets by calls; the kernel calls it |
| Inputs (`lib.rs:60-160, 788-850` and the checks at the head of each handler) | none | decoding and validation of a call's fields, `request_hash`; deserialisation and validation of the configuration | the handlers, the receipts |
| Operator, schema (`operator.rs`, `schema.rs`, SQL) | the migration ledger | `setup`, `upgrade` | the external `OwnedPostgres` |
| Capability contract (`generated.rs`) | none | types, serialisation, dispatch, client | generated |
| Agent tools adapter (`src/crates/lenso-legal-hold-agent-tools-plugin/src/lib.rs`) | none | `catalog`, `execute` | the capability, in process or behind a transport |

What is hard here:

- **Concurrency in the database.** A plugin instance serves many calls, and
  several instances may share one schema. `replay` reads the receipt without a
  lock; the row lock (`storage.rs:497`) and two unique indexes do the rest.
- **Failure around COMMIT.** The acknowledgement may be lost, and the caller
  retries what is done, or what is still to be done.
- **READ COMMITTED.** Two statements of one transaction see two states: in
  `load_hold_tx`, and in the guard, which has no transaction at all.
- **Sequences ignore transactions.** Activity ids are drawn before the commit
  and are the cursor of `list_activity`.
- **Two descriptions of one input.** A field's bounds are in a handler, in a
  published schema and in an index of the database; a retry is recognised by a
  hash of what was decoded.
- **Failures that are translated twice.** A domain error becomes a wire error, a
  wire error a tool's; a later provider may use codes this build does not know.
- **Awaits between the check and the act.** Membership, permission, pool and
  rows may all change while a handler is suspended, and the instance may be
  deactivated.

What makes it correct: each mutation takes effect once or not at all, from the
state its `expected_revision` names; a released hold never changes; a retry gets
the first answer; activity and receipts explain the rows; a hold in force is
never missed by the guard and its evidence can be derived again; a page or a
cursor skips nothing; nobody sees or changes anything unauthorized, and failure
is never turned into permission; a configuration that is accepted conforms to
its published schema, what is accepted fits the database, and a request that
conforms is refused as invalid only where the handler is known to ask more than
the schema; an agent told of a rejection may rely on nothing having happened.
`PROJECT.json` lists the hazards line by line with the properties that watch them.

## The modules

```
LegalHold                 data: rows, requests, receipts, views
  HoldTables              the four tables, and what must be true of them
    HoldLedger            the contract of the mutations: one step each
    HoldStorage           storage.rs, statement by statement  -- implements --> HoldLedger
    HoldStore             the ledger as others meet it: tables + INSTANCE HoldLedger
      RetentionGuard      check_retention            } each beside calls that
      HoldReads           the three reads            } mutate, whose effects show
      LegalHoldPlugin     lib.rs, await by await     } only when they commit
      AgentTools          execute, through HoldWire  }
HoldWire                  errors and results between provider and client
HoldText                  a text, as far as the validations look at it
  HoldArguments           decoding, validation, hashes and schemas of the calls
  HoldConfig              the same of the configuration
    PluginInputs          a configuration that is accepted serves calls
*Proofs                   theorems of HoldTables, HoldStorage, HoldStore,
                          RetentionGuard, HoldReads, LegalHoldPlugin, AgentTools,
                          PluginInputs
MC*                       the instances TLC checks
```

**LegalHold.** Free text is a member of `Texts`, a (scope kind, scope id) pair a
member of `Targets`; timestamps and the three separate text columns decide
nothing and are left out or folded into one. `HashOf` is `request_hash`, taken to
be injective on what it hashes: everything on the wire, but neither caller nor
actor. (Whether the code hashes enough, and not too much, is `HoldArguments`'
question.) A hashed revision is the number: `release_hold` hashes the string the
caller sent, so `"1"` and `"01"` differ there and are two requests. The
assumptions on `Requests` are what validation leaves.

**HoldTables.** Committed rows only; what a request finds (`Visible`, `Current`,
`Applicable`) and leaves (`RowAfter`, `ScopeSetAfter`). The table properties live
here, so that they can be asked of the ledger and of the code alike.

**HoldStorage.** One action per statement with the local code behind it. The
transaction's writes are in `pending` until `Commit` publishes them at once;
`row_lock` and `key_lock` are PostgreSQL's row locks and uncommitted unique index
entries. Statements on a row the transaction has already locked are folded
into their neighbour.

| Action | Code |
|---|---|
| `Begin`, `Replay` | `pool().begin()`, `replay` (unlocked read) |
| `InsertHold` | `INSERT ... ON CONFLICT DO NOTHING`, waiting for an uncommitted row |
| `LockHold` | `lock_hold` and the status and revision checks |
| `ChangeScope`, `Release` | the writes of `mutate_scope` and `release_hold` |
| `AppendActivity` | `append_activity`, `load_hold_tx` of its own writes |
| `StoreCommand` | `store_command`: waits for, or trips over, the primary key |
| `Commit` | `commit`: of a waiting call, or of an orphan |
| `Fail`, `Rollback` | any statement failing, the call being dropped or its process dying, at any await. Before COMMIT is sent that ends in a rollback; afterwards the transaction is an *orphan*, which commits or rolls back at any later time |

A caller has its answer before the server has rolled back, and the locks stay
until then. A restart of the process is `Fail` of each of its calls: nothing in
memory outlives a call.

**HoldLedger, HoldStore.** What callers may rely on: `Apply` is enabled only when
the request is legal in the state it changes, a refusal must be `Justified` in
the state in which it is given, and after `Fail` the effect may still come, once.
`HoldStore` is the ledger with its tables, for the modules of everything that
works beside mutations. Since `HoldStorage` implements the ledger, what holds
beside every behaviour of the ledger holds beside the statements.

**RetentionGuard.** `Evaluate` is the SELECT, `StoreDecision` the INSERT, which
commits by itself. `FailCheck` ends a call between or around them; an INSERT that
was sent and not acknowledged remains an orphan that `StoreDecision` may still
carry out, or `DropInsert` not. A decision id is the hash of the evidence, so a
decision is its evidence and ON CONFLICT DO NOTHING is set union. `standing` and
`seen` are history: holds that protected the subject throughout the call, and at
some moment of it.

**HoldReads.** `Page`, `LoadRow`, `LoadScopes`, `Events`: one statement each.
`FirstOf(S, n)` is ORDER BY with LIMIT. `matched` and `status_then` are history:
the holds that the page query matched, and the status each had at that moment.
Which rows and scopes a hold has had is told by its receipts.

**LegalHoldPlugin.** A step runs from one await to the next, since the plugin is
single-threaded: `Receive` (caller list, assertion), `CheckMembership`,
`CheckPermission` (then, without an await, validation and the clone of the
prepared pool), `Acquire`, the storage's steps, `FinishMutation` or `FinishRead`,
and `ReturnConnection`, which comes after the answer. The lifecycle is await by
await as well: `Activate`, `ResolveSecret`, `PrepareSchema` (open the pool, verify
the schema, publish the pool or drop it), `Deactivate`, and `CloseEnds` once no
connection is out; the kernel is taken to run these one at a time. `Operate` is
the operator's `setup` or `upgrade`, at any time. `ChangeAuthority` is the other
plugins. `get_hold` stands for the three reads, whose path through `lib.rs` is
the same. It and the guard keep one connection from `Acquire` to
`ReturnConnection`, where `list_holds` (`storage.rs:192`, `:201`), `list_activity`
(`:395`, `:401`) and `check_retention` (`:450`, `:482`) take several, one after
another, and may fail at each: to their callers a failure that `FinishRead`
allows as well. The statements of the reads are in `HoldReads`, those of the guard
and its table in `RetentionGuard`; `TablesRestWhileInactive` is about the four
tables of holds, since an INSERT of evidence that was sent may be carried out at any
time. A mutation that is refused is answered with storage's own refusal of this
request (`ResponsesAreTrue`), so a call that was committed is at worst told of a
failure, as when its response cannot be cast. `authority` and `doubt` are history: how far the actor's authority was
seen to go during the call, and whether it was ever lacking.

**HoldWire.** The generated error type: `Encode` and `Decode` of known codes and
of codes a later version adds, with whatever they carry; `IntoResult` and
`ClientResult`, the two levels of a result between provider and client.

**AgentTools.** `Execute` looks the tool up and decodes its arguments, `Invoke`
sends the call, `HandlerRefuses` and `Provide` are the provider, in process or
behind `HoldWire`, and `FailCall` a failure or time-out at any moment, after which
the mutation may still take effect. `ToolError` and `ToolResult` are the adapter's
translation. `refusal` and `effect` are history: the code the provider refused with, and
whether the call has changed the tables.

**HoldText, HoldArguments, HoldConfig, PluginInputs.** A text is a record of what
the validations can tell: its length in characters and in bytes, whether it is
blank, has control characters or spaces, and the number it spells. An action
decodes a JSON object as serde does for the generated types (missing, `null`,
of another type, unknown fields dropped), validates every field as the handler
does, hashes it as the handler does, and replays or takes effect. `Conforms` is
the published JSON schema of the request. `HoldConfig` is the same for the
configuration, where unknown fields are refused. Names of schemas and public keys
are judged by libraries and are constants. `PluginInputs` composes the two: the
admin caller whose name goes into a receipt was accepted by the configuration.

**Variants.** Next to some definitions stands another with the same parameters
that no action uses: `NoRowLock` before `RowFree`, `AnyRevision` before
`AtExpectedRevision`, and so on. Each is the definition with a plausible mistake,
and `PROJECT.json` ("mutants") names the property that fails when it takes its
place: the evidence that the property depends on that line of the code.

## The runs

| Run | Asks | Instance |
|---|---|---|
| `one_hold` | Are mutations of one hold exactly once, serial, durable, replayed, and an implementation of the ledger? Is `IInv` invariant? | 2 calls, 2 actors, 7 requests: identical retries, a key reused for another revision, two actors on one revision, a scope that is already there, 4 activity ids |
| `two_holds` | Do organizations stay apart, does a receipt key shared across holds fail cleanly, and do receipts stay? | 2 calls, 2 holds, 2 organizations, 4 ids |
| `calls_end` | Does every call end? | 3 calls of one caller over 2 holds, two creations under one receipt key, a scope added and one that is not there removed, 3 ids, fairness |
| `guard` | Is a standing hold ever missed, a denial ever baseless, evidence ever not derivable, a decision ever told first? | 1 mutating call, 1 guard call, 2 holds, scopes for all subjects, the one checked and another, 5 ids |
| `reads` | What may a view mix, is anything shown that was not asked for, and do pages and cursors skip? | 1 mutating call, 1 reader, 3 holds, 2 organizations, 9 reads, page limits 1 and 2 |
| `authority` | Is every answer authorized and every refusal true, and is no schema used before it is verified? | 1 call, 10 invocations, every membership and grant revocable at any time, an operator at work |
| `lifecycle` | Does deactivation wait, do calls and transitions end, are answers true on the wire? | 2 calls of two actors who create one hold, a pool of 1 connection, 2 activations, fairness |
| `inputs` | Does an accepted configuration conform, does what is accepted fit, is every refusal of what conforms explained, does the hash tell requests apart? | any two caller lists of up to 65, every text field around its bounds, every pair of calls under one receipt |
| `tools` | Are rejections final, successes durable, reasons unchanged and tools what they say? | 2 agents: one with every kind of tool, one that adds the scope or releases the hold; one code of a later version |
| `replay_serialised`, `views_are_revisions`, `published_limits` | Three statements of the documentation and the schemas that the code does not keep | see below |

**Bounds.** `MaxActivityId` and `ActivityIds` are the ids the sequence still has,
`MaxActivations` the number of pools a process opens, `PoolSize` their
connections, `MaxReceipts` the receipts that `inputs` keeps (one: it asks about
two calls under one key), `LaterCodes` the codes a later provider adds. Everything
else that grows is bounded by `Requests`: a request has one receipt and each
effect needs its own. Two calls suffice for the safety of the races here, which are
pairwise: one lock holder and one waiter, one writer and one reader. The third party of a
race, a transaction whose caller has gone, is a phase of a call; a retry is the
same request in the other slot, or in the same slot later. With 4 ids a hold
lives through creation, two changes and a release, and in `one_hold` rolled-back
calls use ids up so that the end of the sequence is reached. A slot is used again
only when its transaction has ended, which the second slot makes up for. In
`guard` and `reads` one evaluation and one reader run at a time, since they share
nothing but the tables, where an evaluation only adds evidence; the proofs are for
any number. In `guard` the second hold uses the key of the first one's second
scopes, which keeps its receipts few. The handlers' limits are checked at the
limit, one above it, and at the lengths in bytes that multi-byte characters give.
`calls_end` has a third call and a second hold, since
a chain of waits needs them: one call waits for the row of another, which waits
for the receipt key of one that works on the other hold. There each call sends
requests of its own (`ContendedSpec`), in any order and as often as it likes.
Symmetry is used only for call slots, in `one_hold` and `two_holds`, and never
with liveness.

**Fairness.** `HoldStorage`: a call's next statement is weakly fair, since the
runtime polls every call and the server runs every statement it gets; the two
statements that wait for a row (`InsertHold`, `LockHold`) are strongly fair, since
PostgreSQL queues the waiters of a row and calls that lock it only to be refused
could otherwise overtake for ever. `StoreCommand`, which waits for a receipt key,
needs no more than weak fairness here: whoever takes a key has drawn an activity
id, of which a run has finitely many, so keys are taken finitely often. `Begin`
and `Fail` are not fair.
`LegalHoldPlugin`: a suspended call goes on (`CallStep`, `LedgerStep`), because the
dependency, the server or the pool answers, or the deadline of the invocation or
the pool's acquire timeout does; `ResolveSecret` and `PrepareSchema` end for the
same reason; `CloseEnds` happens once it can. Nothing is assumed of callers, of
activations, of the operator or of memberships. The other modules state no
fairness and claim no liveness: their loops are bounded by what a single read or
evaluation asks for.

**Deviations from the documentation.**

- `replay_serialised`: `docs/plugin-card.md:31-33` says transactions serialize
  idempotency replay. The replay is an unlocked read: of two identical calls, the
  second can pass it before the first commits, wait for the row, and then be told
  `RevisionConflict` (`IdempotencyConflict` for a creation) about its own first
  attempt. A further retry is answered properly (`RetryReplays`), and nothing is
  done twice (`OneReceiptPerRevision`).
- `views_are_revisions`: the same sentence of the plugin card promises serialized
  scope mutation; `get_hold` can return the row of revision n with the scopes of
  n + 1. A mixed view still consists of a row and scopes that existed
  (`ViewsComeFromHistory`), and a view that says "released" is exact
  (`ReleasedViewsAreFinal`), because the row is read first.
- `published_limits`: `list-activity-request.schema.json:7` allows a limit of
  500, and the handler accepts 200 (`lib.rs:487`), so a caller that follows the
  contract is refused. Every other refusal of what conforms has one of the reasons
  that `StricterThanSchema` names (`RefusalsExplained`).

Three more that no run is about, since the modules simply do as the code does:

- `README.md:44-45` says every guard evaluation writes. One that recurs with the
  same matches has the same id and writes nothing (`storage.rs:474`, ON CONFLICT
  DO NOTHING), so `evaluated_at` keeps the first time. The evidence itself is there
  (`EvidenceBeforeAnswer`).
- `mutate-scope-request.schema.json:11` forbids additional properties, and the
  generated decoder drops them (`generated.rs:37`): a misspelt `subject` is a
  scope over every subject. Runs of `inputs` contain such a call.
- `hold-response.schema.json:13` has at most 1000 scopes, and nothing bounds those
  of a hold (`storage.rs:524`).

## The proofs

Each theorem is for any sets of holds, calls, keys, requests and the rest, finite
or not, and for any values of the bounds.

| Module | Theorem | Establishes |
|---|---|---|
| `HoldStorageProofs` | `Invariant`, `TypeCorrect` | `[]IInv`, `[]TypeOK` |
| | `StorageImplementsLedger` | `ImplementsLedger`: every statement is a step of the ledger or a stutter |
| | `ReleasedStay`, `ReceiptsStay`, `ActivityOrdered` | the action properties `ReleasedHoldsImmutable`, `ReceiptsPermanent`, `ActivityAppearsInOrder` |
| | `SuccessIsDurable`, `RetriesReplay`, `OrganizationsStayIsolated` | `OkIsDurable`, `RetryReplays`, `OrganizationsIsolated` |
| | `OnceEach`, `SerialHistory`, `ActivityExplains` | `OneReceiptPerRevision`, `ReceiptsFormSerialHistory`, `ActivityExplainsHold` |
| | `NoCircularWait` | `[](WaitsAreShort /\ SomeoneMoves)`: no chain of more than two waits, and behind every wait a call that can go on |
| `HoldStoreProofs` | `LedgerHistory`, `LedgerKeepsTables`, `LedgerIsDurable` | of the contract alone: the history of every hold, the three action properties, successes with receipts |
| `RetentionGuardProofs`, `HoldReadsProofs`, `LegalHoldPluginProofs`, `AgentToolsProofs` | `GuardKeepsLedger`, `ReadsKeepLedger`, `PluginKeepsLedger`, `ToolsKeepLedger` | `Spec => Ledger!Spec`: each of these compositions implements the contract |
| the same four | `TablesKept` | hence all that the contract promises holds in each of them |
| `RetentionGuardProofs` | `TypeCorrect`, `StandingBlocks`, `DenialCaused`, `EvidenceDerived`, `EvidenceFirst` | the five properties of `guard` |
| `HoldReadsProofs` | `ViewsTrue`, `ReleasedTrue`, `Asked`, `PagesComplete`, `CursorsComplete` | the five properties of `reads` |
| `LegalHoldPluginProofs` | `TypeCorrect`, `Authorization`, `Refusals`, `SchemaFirst`, `TrueResponses`, `DeactivationEndsWrites` | every safety property of `authority` and `lifecycle` |
| | `OnePoolAtATime`, `DeactivationDrains` | one pool is open or closing at any time, its connections bound the calls', and a closing one only gets them back |
| `AgentToolsProofs` | `TypeCorrect`, `RejectedForGood`, `SucceededForGood`, `ReasonsArrive`, `CatalogueIsTrue` | the five properties of `tools` |
| `PluginInputsProofs` | `Invariant`, `TypeCorrect`, `ConfigurationsConform`, `ReplaysRecognised`, `RefusalsHaveReasons`, `EntriesFit` | `[]InputsInv` and the five properties of `inputs` |

`HoldTablesProofs` holds the lemmas about tables that these share, and
`HoldStoreProofs` those about steps of the ledger.

**The mutations.** `IInv` says that work stays current. A transaction that has
passed its checks holds the row lock (`LocksAreHeld`), and would find the hold as
it found it: its request still applies and its pending row is still the row after
the request (`WorkIsCurrent`). This is inductive because committing to a hold
needs that hold's row lock and storing a receipt needs that key's lock, and both
last until the commit. `IdsAreFresh` says that ids drawn are distinct and above
every committed id of a hold the transaction owns; it needs the lock as well,
since the sequence itself promises nothing of the order of commits. From `IInv`
every step is a step of the ledger or a stutter: only `Commit` changes the tables,
and it is `Apply`; each `GiveUp` is a justified `Refuse`; `Fail` at COMMIT leaves
the call `open`. The refinement maps `open` to the transactions that may still
commit. The action properties and the three invariants of answers follow from
`IInv` together with `OnlyCommits`: receipts never change once they stand.

**Waiting.** Three statements wait: for a row, for the row's uncommitted insertion,
or for a receipt key. `WaitsFor` says who waits for whom, as the negation of the
three guards; every other statement of a call under way can run. `LocksAreHeld`
says that whoever is past a lock has it. `HasLocks` is the converse, by phase: a
lock belongs to a transaction that is far enough to have taken it and has not
ended, so no failure leaves a lock behind. Since a row is locked before a key, a
call that others wait for with its row may itself wait for a key, but whoever has
the key waits for nothing. Hence two waits in a row at most (`WaitsAreShort`) and
no circle (`SomeoneMoves`), which is the safety core of `CallsEnd`: what remains
for TLC is that fairness makes the one who can go on do so.

**The ledger as a contract.** `LedgerHistory`, `LedgerKeepsTables` and
`LedgerIsDurable` are proved of `HoldLedger` alone. Each composed module takes a
step of the ledger or leaves its variables as they are (`Spec => Ledger!Spec`, and
no refinement mapping is needed, since they are the same variables). So the
contract, and with it the history of every hold, holds beside any number of guard
evaluations and reads, through every activation, and behind the tools, without
an argument about any of them: that is `TablesKept`.

**The tables.** `HoldTablesProofs` works on one legal change, `TakesEffect`: it
keeps `HistoryInv`, which says that the receipts of a hold are its revisions from
the creation on, each made by its request from the one before, that there is one
activity row for each, and that replaying the activity gives scopes and status.
The table invariants follow from it. `HoldStorageProofs` carries it to the
statements, since a `Commit` takes effect so, and `HoldStoreProofs` to everything
beside the ledger: a step of the ledger serves one call (`Served`), and either
leaves the tables or makes them take effect (`StepTakesEffect`).

**The guard.** `GuardInv`: what the SELECT returned lies between `standing` and
`seen`. The left half is kept because `standing` only shrinks after the SELECT,
the right one because `seen` only grows. For the evidence it adds that every hold
and revision cited is that of a receipt with the very scopes that were counted,
which `HistoryInv` gives at the SELECT and the permanence of receipts keeps.

**The reads.** `ReadsInv` rests on what a mutation cannot undo (`Advance`): a hold
stays in its organization, a released one stays as it is, receipts stay and with
them every row and set of scopes they returned, ids of new activity lie above
those of the hold. Hence a row that was read stays true while the scopes are
fetched. For pages it adds that the holds shown and those still to load are the
first of those matched; the least of the rest is the next one and the greatest of
the page is its cursor, which exist in finite sets of numbers by well-founded
induction on the subsets. A cursor of activity is an id of the hold's own, so
later ids lie beyond it.

**The plugin instance and the tools.** `PluginInv` states per call what has been
checked before each await (`Checked`) and what may have come of it (`Effects`);
the await after which the pool is cloned is the last one whose answer counts.
For the lifecycle it states that a pool is published only over a schema of this
build, and that connections are out only of pools that exist. `PoolsInTurn` adds that a pool is
opened only when no other is open or closing and that whoever has a connection
has it of the one that is; so the connections in use are those of one pool, and
`Acquire` keeps them within `PoolSize`. A closing pool is no longer published, but
a call may have cloned it: `Acquire` asks for an open pool, which is why a
deactivation waits for no more calls than had a connection when it began
(`ClosingDrains`, the safety core of `TransitionsEnd`). `ToolsInv` is
similar: until the provider answers, the call has changed nothing or has its
request open; a rejection is told only of a call whose mutation is closed for
good.

**The inputs.** `InputsInv`: the verdict on a configuration is that of its six
checks, a receipt has the hash and the meaning of one accepted request under its
own key, and what the last call was told follows from its decoding, its validation
and that receipt. From there it is a comparison field by field: each handler's
bound with the published one, and the sums of the bounds with an index entry. The
two ways of saying that callers are distinct, by a set as large as the list and by
a search of those before, agree because a surjection between finite sets of one
cardinality is an injection.

**From which assumptions.** `RequestsAssumption` (what the validation leaves),
`NoneAssumption` (the null value is none of the values it is compared with),
`StorageAssumption`, `StoreAssumption`, `GuardAssumption`, `ReadsAssumption`,
`PluginAssumption`, `WireAssumption`, `ToolsAssumption`, `ArgumentsAssumption`,
`ConfigAssumption`: each says what kind of values a constant has. The last two
add what a text is (one to four bytes for each character, and a number only as it
spells one) and what the libraries accept as the name of a schema and as a public key,
by their length. TLC evaluates them in the runs.

**Only model-checked.** Liveness (`CallsEnd`, `CallsAnswered`, `TransitionsEnd`),
which is out of the prover's reach, as is `ENABLED`. Every invariant and action
property of a passing run is a theorem.

## Not modelled

- Of the generated contract: bindings, the layout of responses (which travel
  unchanged), and the failures of untyped endpoints that the generated client
  cannot cause. The component is therefore "partly" modelled.
- The migration ledger and its checks, which are the external
  `lenso_postgres_kit`'s: `Operate` and `PrepareSchema` use only whether the
  schema is at the version of this build. "Partly" for the same reason.
- Access to the tables by anything but the plugin. Isolation levels other than
  PostgreSQL's default.
- Timestamps; no decision depends on one.
- Overflow of `revision`, a BIGINT advanced by one for each committed mutation.

## Plan

All that was planned is done: mutations, ledger and refinement, guard, reads,
plugin instance with its lifecycle, inputs, tools, and the proofs of each. All
safety properties of the runs are proved, so what could come next is more system:

1. Several processes on one schema through a restart with an upgrade between
   them: an instance of an older build beside a schema of a newer one.
2. The guard and the reads beside the statements of `HoldStorage` themselves, as
   one more check of the refinement that they rely on.
3. A bound on the scopes of a hold, once the code has one.
