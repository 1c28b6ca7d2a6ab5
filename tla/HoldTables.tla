---------------------------- MODULE HoldTables ----------------------------
(***************************************************************************)
(* The four tables that hold mutations write, as their committed rows, and *)
(* what must be true of those rows whatever wrote them.                    *)
(***************************************************************************)
EXTENDS LegalHold, FiniteSets

VARIABLES
    legal_holds,          \* hold -> its row, or None
    legal_hold_scopes,    \* hold -> its scopes
    legal_hold_commands,  \* primary key -> receipt, or None
    legal_hold_activity   \* activity rows

tables == <<legal_holds, legal_hold_scopes, legal_hold_commands,
            legal_hold_activity>>

TablesTypeOK ==
    /\ legal_holds \in [Holds -> HoldRow \cup {None}]
    /\ legal_hold_scopes \in [Holds -> SUBSET Scope]
    /\ legal_hold_commands \in [CommandKey -> Receipt \cup {None}]
    /\ legal_hold_activity \subseteq ActivityRow

(***************************************************************************)
(* LegalHoldOperator::setup creates the tables empty.                      *)
(***************************************************************************)
TablesEmpty ==
    /\ legal_holds = [h \in Holds |-> None]
    /\ legal_hold_scopes = [h \in Holds |-> {}]
    /\ legal_hold_commands = [k \in CommandKey |-> None]
    /\ legal_hold_activity = {}
-----------------------------------------------------------------------------
ReceiptFor(r) == legal_hold_commands[CommandKeyOf(r)]

Visible(r) ==
    /\ legal_holds[r.hold] # None
    /\ legal_holds[r.hold].organization = r.organization

CurrentAtAnyStatus(r) ==
    Visible(r) /\ legal_holds[r.hold].revision = r.expected

Current(r) ==
    /\ Visible(r)
    /\ legal_holds[r.hold].status = "active"
    /\ legal_holds[r.hold].revision = r.expected

(***************************************************************************)
(* The states in which a request may take effect: its hold allows it, and  *)
(* no receipt stands under its key.                                        *)
(***************************************************************************)
Applicable(r) ==
    \/ /\ r.op = "create_hold"
       /\ legal_holds[r.hold] = None
    \/ /\ r.op \in ScopeOperations
       /\ Current(r)
       /\ ScopeChanges(r.op, r.scope, legal_hold_scopes[r.hold])
    \/ /\ r.op = "release_hold"
       /\ Current(r)

Legal(r) == ReceiptFor(r) = None /\ Applicable(r)

RowAfter(r) ==
    CASE r.op = "create_hold"  -> NewRow(r)
      [] r.op = "release_hold" -> ReleaseRow(r, legal_holds[r.hold])
      [] OTHER                 -> AdvanceRow(legal_holds[r.hold])

ScopeSetAfter(r) ==
    IF r.op \in ScopeOperations
    THEN ScopesAfter(r.op, r.scope, legal_hold_scopes[r.hold])
    ELSE legal_hold_scopes[r.hold]

ViewWithOldScopes(r) ==
    ViewOf(r.hold, RowAfter(r), legal_hold_scopes[r.hold])

ViewAfter(r) == ViewOf(r.hold, RowAfter(r), ScopeSetAfter(r))

-----------------------------------------------------------------------------
(***************************************************************************)
(* The receipts that produced revision n of hold h.                        *)
(***************************************************************************)
ReceiptsOf(h, n) ==
    {k \in CommandKey :
        /\ legal_hold_commands[k] # None
        /\ legal_hold_commands[k].response.hold = h
        /\ legal_hold_commands[k].response.row.revision = n}

Committed(h) == legal_holds[h] # None

ScopesHaveAHold ==
    \A h \in Holds : legal_holds[h] = None => legal_hold_scopes[h] = {}

(***************************************************************************)
(* Exactly once: revision n of a hold was produced by one receipt, and no  *)
(* receipt claims a revision that does not exist.  A retry that executed   *)
(* again, or two calls that advanced the same revision, would break it.    *)
(***************************************************************************)
OneReceiptPerRevision ==
    \A h \in Holds :
        /\ Committed(h) =>
             \A n \in 1..legal_holds[h].revision :
                 \E k \in CommandKey : ReceiptsOf(h, n) = {k}
        /\ \A k \in CommandKey :
             LET c == legal_hold_commands[k] IN
             (c # None /\ c.response.hold = h) =>
                 /\ Committed(h)
                 /\ c.response.row.revision <= legal_holds[h].revision

(***************************************************************************)
(* Serial history: the receipts of a hold, read in revision order, are one *)
(* legal run of the operations.  The first creates the hold without        *)
(* scopes, each later one applied its own change to exactly the state its  *)
(* predecessor returned, and the last one is the committed row: no lost    *)
(* update, no write after a release, no write by a stale expected_revision.*)
(***************************************************************************)
FollowsFrom(k, before) ==
    LET c == legal_hold_commands[k]
        row == c.response.row
    IN
    /\ k.op # "create_hold"
    /\ before.row.status = "active"
    /\ before.row.revision = c.hash.expected
    /\ row.organization = before.row.organization
    /\ row.text = before.row.text
    /\ \/ /\ k.op = "add_scope"
          /\ c.hash.scope \notin before.scopes
          /\ c.response.scopes = before.scopes \cup {c.hash.scope}
          /\ row.status = "active"
       \/ /\ k.op = "remove_scope"
          /\ c.hash.scope \in before.scopes
          /\ c.response.scopes = before.scopes \ {c.hash.scope}
          /\ row.status = "active"
       \/ /\ k.op = "release_hold"
          /\ c.response.scopes = before.scopes
          /\ row.status = "released"
          /\ row.released_by = k.actor

ReceiptsFormSerialHistory ==
    \A h \in Holds : Committed(h) =>
        LET last == legal_holds[h].revision IN
        /\ \A k \in ReceiptsOf(h, 1) :
             /\ k.op = "create_hold"
             /\ legal_hold_commands[k].response.scopes = {}
        /\ \A n \in 2..last :
             \A k \in ReceiptsOf(h, n), j \in ReceiptsOf(h, n - 1) :
                 FollowsFrom(k, legal_hold_commands[j].response)
        /\ \A k \in ReceiptsOf(h, last) :
             legal_hold_commands[k].response =
                 ViewOf(h, legal_holds[h], legal_hold_scopes[h])

(***************************************************************************)
(* The activity of a hold explains it: its n-th row by activity_id is the  *)
(* change that produced revision n, and there are no others.  The ids come *)
(* from a sequence that ignores transactions, so this rests on drawing     *)
(* them under the row's lock.                                              *)
(***************************************************************************)
Rank(e) ==
    Cardinality({f \in legal_hold_activity : f.hold = e.hold /\ f.id <= e.id})

ActivityExplainsHold ==
    /\ \A h \in Holds : Committed(h) =>
         Cardinality({e \in legal_hold_activity : e.hold = h})
           = legal_holds[h].revision
    /\ \A e \in legal_hold_activity :
         \E k \in ReceiptsOf(e.hold, Rank(e)) :
             /\ e.kind = ActivityKind(k.op)
             /\ e.actor = k.actor
             /\ e.scope = legal_hold_commands[k].hash.scope
             /\ e.organization = legal_holds[e.hold].organization

(***************************************************************************)
(* Released holds are immutable: no step changes the row, the scopes or    *)
(* the activity of a released hold.                                        *)
(***************************************************************************)
ActivityRowsOf(h) == {e \in legal_hold_activity : e.hold = h}

ReleasedHoldsImmutable ==
    [][\A h \in Holds :
         (Committed(h) /\ legal_holds[h].status = "released") =>
             /\ legal_holds'[h] = legal_holds[h]
             /\ legal_hold_scopes'[h] = legal_hold_scopes[h]
             /\ ActivityRowsOf(h)' = ActivityRowsOf(h)]_tables

(***************************************************************************)
(* A cursor never skips: activity becomes visible in id order within a     *)
(* hold, so list_activity with after = the last id seen misses nothing,    *)
(* although ids are drawn before the commit and some are never used.       *)
(***************************************************************************)
ActivityAppearsInOrder ==
    [][\A e \in legal_hold_activity' \ legal_hold_activity :
         \A f \in ActivityRowsOf(e.hold) : f.id < e.id]_tables

(***************************************************************************)
(* Receipts are permanent: a committed receipt is never removed or         *)
(* replaced.                                                               *)
(***************************************************************************)
ReceiptsPermanent ==
    [][\A k \in CommandKey :
         legal_hold_commands[k] # None =>
             legal_hold_commands'[k] = legal_hold_commands[k]]_tables
=============================================================================
