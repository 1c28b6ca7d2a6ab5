---------------------------- MODULE HoldStorage ----------------------------
(***************************************************************************)
(* The mutating half of storage.rs: create_hold, add_scope, remove_scope   *)
(* and release_hold, each a PostgreSQL transaction run at READ COMMITTED   *)
(* by a call that shares the database with other calls.                    *)
(*                                                                         *)
(* A step is a SQL statement together with the local code up to the next   *)
(* await; statements that touch nothing but a row the transaction has      *)
(* already locked are folded into their neighbour.  The tables hold        *)
(* committed rows only: what a transaction has written is in pending until *)
(* it commits.                                                             *)
(***************************************************************************)
EXTENDS HoldTables

CONSTANTS
    Calls,          \* slots for concurrent invocations
    MaxActivityId   \* the last value of the BIGSERIAL sequence

VARIABLES
    activity_id_seq,      \* the BIGSERIAL sequence, never rolled back
    row_lock,             \* hold -> the call that locks its row, or None
    key_lock,             \* receipt key -> the call with an uncommitted
                          \* row under it, or None
    phase,                \* call -> the statement it is about to run
    request,              \* call -> the request it serves or served last
    pending,              \* call -> its uncommitted writes, or None
    answer,               \* call -> what its caller was told, or None
    receipt_at_begin      \* history variable: the receipt that already
                          \* stood under the request's key at Begin

locks == <<row_lock, key_lock>>
vars == <<tables, activity_id_seq, locks, phase, request, pending, answer,
          receipt_at_begin>>

Phases == {"idle", "replay", "lock", "change", "append", "store", "commit",
           "orphan", "rollback"}
InTransaction == Phases \ {"idle", "orphan", "rollback"}

Pending == [row: HoldRow, scopes: SUBSET Scope, activity_id: Nat]

ASSUME StorageAssumption ==
    MaxActivityId \in Nat /\ None \notin Calls /\ None \notin Pending

TypeOK ==
    /\ TablesTypeOK
    /\ activity_id_seq \in Nat
    /\ row_lock \in [Holds -> Calls \cup {None}]
    /\ key_lock \in [CommandKey -> Calls \cup {None}]
    /\ phase \in [Calls -> Phases]
    /\ request \in [Calls -> Requests \cup {None}]
    /\ pending \in [Calls -> Pending \cup {None}]
    /\ answer \in [Calls -> Answer \cup {None}]
    /\ receipt_at_begin \in [Calls -> Receipt \cup {None}]
    /\ \A p \in Calls : phase[p] # "idle" => request[p] \in Requests

(***************************************************************************)
(* LegalHoldOperator::setup creates the tables empty.                      *)
(***************************************************************************)
Init ==
    /\ TablesEmpty
    /\ activity_id_seq = 0
    /\ row_lock = [h \in Holds |-> None]
    /\ key_lock = [k \in CommandKey |-> None]
    /\ phase = [p \in Calls |-> "idle"]
    /\ request = [p \in Calls |-> None]
    /\ pending = [p \in Calls |-> None]
    /\ answer = [p \in Calls |-> None]
    /\ receipt_at_begin = [p \in Calls |-> None]
-----------------------------------------------------------------------------
HoldOf(p) == request[p].hold
KeyOf(p) == CommandKeyOf(request[p])

(***************************************************************************)
(* An early return.  The caller has its answer, and the dropped            *)
(* transaction keeps its locks until the server rolls it back.             *)
(***************************************************************************)
GiveUp(p, outcome) ==
    /\ answer' = [answer EXCEPT ![p] = [outcome |-> outcome, view |-> None]]
    /\ phase' = [phase EXCEPT ![p] = "rollback"]

Begin(p, r) ==
    /\ phase[p] = "idle"
    /\ phase' = [phase EXCEPT ![p] = "replay"]
    /\ request' = [request EXCEPT ![p] = r]
    /\ answer' = [answer EXCEPT ![p] = None]
    /\ receipt_at_begin' =
         [receipt_at_begin EXCEPT ![p] = legal_hold_commands[CommandKeyOf(r)]]
    /\ UNCHANGED <<tables, activity_id_seq, locks, pending>>

(***************************************************************************)
(* replay: an unlocked read of the receipt, answered from when there is    *)
(* one and it is of the same request.                                      *)
(***************************************************************************)
AnyHash(receipt, r) == TRUE
SameHash(receipt, r) == receipt.hash = HashOf(r)

SkipReplay(p, receipt) ==
    phase' = [phase EXCEPT ![p] = "lock"] /\ UNCHANGED answer

AnswerFromReceipt(p, receipt) ==
    \/ /\ receipt = None
       /\ phase' = [phase EXCEPT ![p] = "lock"]
       /\ UNCHANGED answer
    \/ /\ receipt # None
       /\ SameHash(receipt, request[p])
       /\ answer' = [answer EXCEPT
                       ![p] = [outcome |-> "Ok", view |-> receipt.response]]
       /\ phase' = [phase EXCEPT ![p] = "rollback"]
    \/ /\ receipt # None
       /\ ~SameHash(receipt, request[p])
       /\ GiveUp(p, "IdempotencyConflict")

Replay(p) ==
    /\ phase[p] = "replay"
    /\ AnswerFromReceipt(p, legal_hold_commands[KeyOf(p)])
    /\ UNCHANGED <<tables, activity_id_seq, locks, request, pending,
                   receipt_at_begin>>

(***************************************************************************)
(* A row lock is waited for: FOR UPDATE, or the unique index of an insert. *)
(***************************************************************************)
NoRowLock(h) == TRUE
RowFree(h) == row_lock[h] = None

(***************************************************************************)
(* INSERT ... ON CONFLICT DO NOTHING into legal_holds.  It waits for an    *)
(* uncommitted insert of the same hold_id; a committed row of any          *)
(* organization is a conflict.                                             *)
(***************************************************************************)
InsertHold(p) ==
    /\ phase[p] = "lock"
    /\ request[p].op = "create_hold"
    /\ \/ /\ legal_holds[HoldOf(p)] = None
          /\ RowFree(HoldOf(p))
          /\ row_lock' = [row_lock EXCEPT ![HoldOf(p)] = p]
          /\ pending' = [pending EXCEPT
                           ![p] = [row |-> NewRow(request[p]), scopes |-> {},
                                   activity_id |-> 0]]
          /\ phase' = [phase EXCEPT ![p] = "append"]
          /\ UNCHANGED answer
       \/ /\ legal_holds[HoldOf(p)] # None
          /\ GiveUp(p, "IdempotencyConflict")
          /\ UNCHANGED <<row_lock, pending>>
    /\ UNCHANGED <<tables, activity_id_seq, key_lock, request,
                   receipt_at_begin>>

(***************************************************************************)
(* lock_hold and the two checks behind it.  SELECT ... FOR UPDATE sees     *)
(* committed rows of the organization only, waits for the row's lock and   *)
(* then reads the row again.  A check that fails leaves the row locked     *)
(* until the rollback.                                                     *)
(***************************************************************************)
AnyOrganization(row, r) == row # None
VisibleTo(row, r) == row # None /\ row.organization = r.organization

AnyStatus(row) == TRUE
StatusActive(row) == row.status = "active"

AnyRevision(row, r) == TRUE
AtExpectedRevision(row, r) == row.revision = r.expected

LockHold(p) ==
    LET row == legal_holds[HoldOf(p)] IN
    /\ phase[p] = "lock"
    /\ request[p].op # "create_hold"
    /\ \/ /\ ~VisibleTo(row, request[p])
          /\ GiveUp(p, "NotFound")
          /\ UNCHANGED row_lock
       \/ /\ VisibleTo(row, request[p])
          /\ RowFree(HoldOf(p))
          /\ row_lock' = [row_lock EXCEPT ![HoldOf(p)] = p]
          /\ \/ /\ ~StatusActive(row)
                /\ GiveUp(p, "HoldReleased")
             \/ /\ StatusActive(row)
                /\ ~AtExpectedRevision(row, request[p])
                /\ GiveUp(p, "RevisionConflict")
             \/ /\ StatusActive(row)
                /\ AtExpectedRevision(row, request[p])
                /\ phase' = [phase EXCEPT ![p] = "change"]
                /\ UNCHANGED answer
    /\ UNCHANGED <<tables, activity_id_seq, key_lock, request, pending,
                   receipt_at_begin>>

(***************************************************************************)
(* The INSERT or DELETE of one scope row, and the UPDATE that advances the *)
(* revision when there was one.                                            *)
(***************************************************************************)
AnyRowCount(r, scopes) == TRUE
OneRowChanged(r, scopes) == ScopeChanges(r.op, r.scope, scopes)

ChangeScope(p) ==
    LET r == request[p]
        row == legal_holds[r.hold]
        scopes == legal_hold_scopes[r.hold]
    IN
    /\ phase[p] = "change"
    /\ r.op \in ScopeOperations
    /\ \/ /\ OneRowChanged(r, scopes)
          /\ pending' = [pending EXCEPT
                ![p] = [row |-> AdvanceRow(row),
                        scopes |-> ScopesAfter(r.op, r.scope, scopes),
                        activity_id |-> 0]]
          /\ phase' = [phase EXCEPT ![p] = "append"]
          /\ UNCHANGED answer
       \/ /\ ~OneRowChanged(r, scopes)
          /\ GiveUp(p, "ScopeConflict")
          /\ UNCHANGED pending
    /\ UNCHANGED <<tables, activity_id_seq, locks, request, receipt_at_begin>>

(***************************************************************************)
(* The UPDATE that releases a hold.  Its scopes stay.                      *)
(***************************************************************************)
Release(p) ==
    LET r == request[p] IN
    /\ phase[p] = "change"
    /\ r.op = "release_hold"
    /\ pending' = [pending EXCEPT
          ![p] = [row |-> ReleaseRow(r, legal_holds[r.hold]),
                  scopes |-> legal_hold_scopes[r.hold],
                  activity_id |-> 0]]
    /\ phase' = [phase EXCEPT ![p] = "append"]
    /\ UNCHANGED <<tables, activity_id_seq, locks, request, answer,
                   receipt_at_begin>>

(***************************************************************************)
(* append_activity draws the next id of the sequence, which is an error at *)
(* the end of the sequence; load_hold_tx then reads the transaction's own  *)
(* writes, which pending already holds.                                    *)
(***************************************************************************)
AppendOutsideTransaction(p) ==
    /\ phase[p] = "append"
    /\ activity_id_seq < MaxActivityId
    /\ activity_id_seq' = activity_id_seq + 1
    /\ legal_hold_activity' =
         legal_hold_activity \cup {ActivityOf(request[p], activity_id_seq + 1)}
    /\ pending' = [pending EXCEPT ![p].activity_id = activity_id_seq + 1]
    /\ phase' = [phase EXCEPT ![p] = "store"]
    /\ UNCHANGED <<legal_holds, legal_hold_scopes, legal_hold_commands, locks,
                   request, answer, receipt_at_begin>>

AppendActivity(p) ==
    /\ phase[p] = "append"
    /\ \/ /\ activity_id_seq < MaxActivityId
          /\ activity_id_seq' = activity_id_seq + 1
          /\ pending' = [pending EXCEPT ![p].activity_id = activity_id_seq + 1]
          /\ phase' = [phase EXCEPT ![p] = "store"]
          /\ UNCHANGED answer
       \/ /\ activity_id_seq = MaxActivityId
          /\ GiveUp(p, "PluginFailure")
          /\ UNCHANGED <<activity_id_seq, pending>>
    /\ UNCHANGED <<tables, locks, request, receipt_at_begin>>

(***************************************************************************)
(* store_command inserts the receipt.  The primary key makes it wait for   *)
(* an uncommitted receipt under the same key; a committed one is a unique  *)
(* violation, which the code reports as a Database error.                  *)
(***************************************************************************)
Upsert(k) == TRUE
KeyUnused(k) == legal_hold_commands[k] = None

StoreCommand(p) ==
    /\ phase[p] = "store"
    /\ key_lock[KeyOf(p)] = None
    /\ \/ /\ KeyUnused(KeyOf(p))
          /\ key_lock' = [key_lock EXCEPT ![KeyOf(p)] = p]
          /\ phase' = [phase EXCEPT ![p] = "commit"]
          /\ UNCHANGED answer
       \/ /\ ~KeyUnused(KeyOf(p))
          /\ GiveUp(p, "PluginFailure")
          /\ UNCHANGED key_lock
    /\ UNCHANGED <<tables, activity_id_seq, row_lock, request, pending,
                   receipt_at_begin>>

(***************************************************************************)
(* A transaction's locks go with it.                                       *)
(***************************************************************************)
Unlocked(lock, p) ==
    [x \in DOMAIN lock |-> IF lock[x] = p THEN None ELSE lock[x]]

EndKeepingKeyLock(p) ==
    /\ row_lock' = Unlocked(row_lock, p)
    /\ pending' = [pending EXCEPT ![p] = None]
    /\ phase' = [phase EXCEPT ![p] = "idle"]
    /\ UNCHANGED key_lock

EndTransaction(p) ==
    /\ row_lock' = Unlocked(row_lock, p)
    /\ key_lock' = Unlocked(key_lock, p)
    /\ pending' = [pending EXCEPT ![p] = None]
    /\ phase' = [phase EXCEPT ![p] = "idle"]

PendingView(p) == ViewOf(HoldOf(p), pending[p].row, pending[p].scopes)

(***************************************************************************)
(* COMMIT publishes the four tables at once.  A caller that has gone       *)
(* meanwhile keeps the failure it saw.                                     *)
(***************************************************************************)
Commit(p) ==
    LET r == request[p] IN
    /\ phase[p] \in {"commit", "orphan"}
    /\ legal_holds' = [legal_holds EXCEPT ![r.hold] = pending[p].row]
    /\ legal_hold_scopes' =
         [legal_hold_scopes EXCEPT ![r.hold] = pending[p].scopes]
    /\ legal_hold_activity' =
         legal_hold_activity \cup {ActivityOf(r, pending[p].activity_id)}
    /\ legal_hold_commands' =
         [legal_hold_commands EXCEPT
            ![KeyOf(p)] = [hash |-> HashOf(r), response |-> PendingView(p)]]
    /\ answer' = IF phase[p] = "orphan" THEN answer ELSE
                   [answer EXCEPT
                      ![p] = [outcome |-> "Ok", view |-> PendingView(p)]]
    /\ EndTransaction(p)
    /\ UNCHANGED <<activity_id_seq, request, receipt_at_begin>>

(***************************************************************************)
(* Any statement may fail, the connection may break and the call may be    *)
(* cancelled or die with its process at any await.  Before COMMIT is sent  *)
(* that rolls the transaction back; afterwards the server may still commit *)
(* it, at any later time.                                                  *)
(***************************************************************************)
Fail(p) ==
    /\ phase[p] \in InTransaction
    /\ \/ /\ phase[p] # "commit"
          /\ GiveUp(p, "PluginFailure")
       \/ /\ phase[p] = "commit"
          /\ answer' = [answer EXCEPT
                          ![p] = [outcome |-> "PluginFailure", view |-> None]]
          /\ phase' = [phase EXCEPT ![p] = "orphan"]
    /\ UNCHANGED <<tables, activity_id_seq, locks, request, pending,
                   receipt_at_begin>>

Rollback(p) ==
    /\ phase[p] \in {"rollback", "orphan"}
    /\ EndTransaction(p)
    /\ UNCHANGED <<tables, activity_id_seq, request, answer,
                   receipt_at_begin>>

Statement(p) ==
    \/ Replay(p)
    \/ InsertHold(p)
    \/ LockHold(p)
    \/ ChangeScope(p)
    \/ Release(p)
    \/ AppendActivity(p)
    \/ StoreCommand(p)
    \/ Commit(p)
    \/ Rollback(p)

Next ==
    \E p \in Calls :
        \/ \E r \in Requests : Begin(p, r)
        \/ Statement(p)
        \/ Fail(p)

Spec == Init /\ [][Next]_vars

(***************************************************************************)
(* The runtime keeps polling a call and PostgreSQL keeps executing its     *)
(* statements.  A statement that waits for a row is served in the order of *)
(* the row's queue, so it cannot be overtaken for ever by calls that lock  *)
(* the row only to be refused: strong fairness for the two that wait for   *)
(* one.  StoreCommand needs none: whoever takes a receipt key has drawn an *)
(* id of the sequence, which ends.                                         *)
(***************************************************************************)
Fairness ==
    \A p \in Calls :
        /\ WF_vars(Statement(p))
        /\ SF_vars(InsertHold(p) \/ LockHold(p))

FairSpec == Spec /\ Fairness
-----------------------------------------------------------------------------
(***************************************************************************)
(* Success is durable: a caller is told Ok only with the response of a     *)
(* committed receipt of its own request.                                   *)
(***************************************************************************)
OkIsDurable ==
    \A p \in Calls : (answer[p] # None /\ answer[p].outcome = "Ok") =>
        /\ legal_hold_commands[KeyOf(p)] # None
        /\ legal_hold_commands[KeyOf(p)].hash = HashOf(request[p])
        /\ legal_hold_commands[KeyOf(p)].response = answer[p].view

(***************************************************************************)
(* Organizations are isolated: a caller is never shown, and never has      *)
(* changed, a hold of an organization other than the one it named.         *)
(***************************************************************************)
OrganizationsIsolated ==
    /\ \A p \in Calls : (answer[p] # None /\ answer[p].outcome = "Ok") =>
         answer[p].view.row.organization = request[p].organization
    /\ \A k \in CommandKey : legal_hold_commands[k] # None =>
         LET c == legal_hold_commands[k] IN
         c.hash.organization = legal_holds[c.hash.hold].organization

(***************************************************************************)
(* A retry replays: a call that starts when its key already has a receipt  *)
(* is answered from that receipt, whatever happened to the hold since, and *)
(* is refused when it carries another request.  It may only fail.          *)
(***************************************************************************)
RetryReplays ==
    \A p \in Calls : (answer[p] # None /\ receipt_at_begin[p] # None) =>
        \/ answer[p].outcome = "PluginFailure"
        \/ /\ answer[p].outcome = "Ok"
           /\ receipt_at_begin[p].hash = HashOf(request[p])
           /\ answer[p].view = receipt_at_begin[p].response
        \/ /\ answer[p].outcome = "IdempotencyConflict"
           /\ receipt_at_begin[p].hash # HashOf(request[p])

(***************************************************************************)
(* Every call ends: no call waits for ever on a row or a receipt key, not  *)
(* even on the row of a call that itself waits on a key, so no set of      *)
(* calls waits on each other, and every lock is given up                   *)
(* (storage.rs:117, 497, 642).                                             *)
(***************************************************************************)
CallsEnd == \A p \in Calls : phase[p] # "idle" ~> phase[p] = "idle"

(***************************************************************************)
(* "PostgreSQL transactions serialize idempotency replay, scope mutation,  *)
(* revisions, release, activity" (docs/plugin-card.md:31): serialised, a   *)
(* request whose receipt is committed when it is answered would be         *)
(* answered by that receipt, never by a domain failure.                    *)
(***************************************************************************)
ReplaySerialised ==
    [][\A p \in Calls :
         LET receipt == legal_hold_commands[KeyOf(p)] IN
         ( /\ answer[p] = None /\ answer'[p] # None
           /\ receipt # None /\ receipt.hash = HashOf(request[p]) ) =>
             answer'[p].outcome \notin DomainFailures]_vars
-----------------------------------------------------------------------------
(***************************************************************************)
(* The ledger a caller sees.  A call may still take effect until its       *)
(* transaction can no longer commit.                                       *)
(***************************************************************************)
MayTakeEffect == [p \in Calls |-> phase[p] \notin {"idle", "rollback"}]

Ledger == INSTANCE HoldLedger WITH
    ActivityIds <- 1..MaxActivityId,
    open <- MayTakeEffect

(***************************************************************************)
(* Every interleaving of the statements looks like the ledger: each        *)
(* mutation takes effect in one legal step or not at all, and each refusal *)
(* was true of the committed rows when it was given.                       *)
(***************************************************************************)
ImplementsLedger == Ledger!Spec
-----------------------------------------------------------------------------
(***************************************************************************)
(* Why it does: the inductive invariant.  What a transaction has checked   *)
(* and written stays current until it commits, because nobody else can     *)
(* commit to its hold, nor under its receipt key.                          *)
(***************************************************************************)
Owning == {"change", "append", "store", "commit", "orphan"}
Written == Owning \ {"change"}
Numbered == Written \ {"append"}
Stored == {"commit", "orphan"}

LocksOf(p) ==
    /\ phase[p] \in Owning => row_lock[HoldOf(p)] = p
    /\ phase[p] \in Stored => key_lock[KeyOf(p)] = p

LocksAreHeld == \A p \in Calls : LocksOf(p)

AnswersWait ==
    \A p \in Calls :
        /\ phase[p] \in InTransaction => answer[p] = None
        /\ phase[p] = "orphan" => answer[p] # None

WorkOf(p) ==
    /\ phase[p] = "change" =>
         request[p].op # "create_hold" /\ Current(request[p])
    /\ phase[p] \in Written =>
         /\ pending[p] # None
         /\ Applicable(request[p])
         /\ pending[p].row = RowAfter(request[p])
         /\ pending[p].scopes = ScopeSetAfter(request[p])
    /\ phase[p] \in Stored => legal_hold_commands[KeyOf(p)] = None

WorkIsCurrent == \A p \in Calls : WorkOf(p)

IdsAreFresh ==
    /\ activity_id_seq <= MaxActivityId
    /\ \A e \in legal_hold_activity : e.id <= activity_id_seq
    /\ \A p \in Calls : phase[p] \in Numbered =>
         /\ pending[p].activity_id \in 1..activity_id_seq
         /\ \A e \in legal_hold_activity :
              /\ e.id # pending[p].activity_id
              /\ e.hold = HoldOf(p) => e.id < pending[p].activity_id
         /\ \A q \in Calls \ {p} : phase[q] \in Numbered =>
              pending[q].activity_id # pending[p].activity_id

(***************************************************************************)
(* Work stays current: a transaction that locked a row, or is about to     *)
(* commit, holds the lock and would find the row as it found it before.    *)
(***************************************************************************)
IInv ==
    TypeOK /\ LocksAreHeld /\ AnswersWait /\ WorkIsCurrent /\ IdsAreFresh
    /\ ScopesHaveAHold
=============================================================================
