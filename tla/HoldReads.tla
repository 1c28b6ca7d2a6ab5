----------------------------- MODULE HoldReads -----------------------------
(***************************************************************************)
(* get_hold, list_holds and list_activity of storage.rs beside the         *)
(* mutations of holds.  All three load holds the same way, load_hold_tx,   *)
(* which reads the row and then the scopes: two statements of a            *)
(* transaction, but at READ COMMITTED each sees what is committed when it  *)
(* runs.  A step is one statement.  The mutations are the ledger's.        *)
(***************************************************************************)
EXTENDS HoldStore

CONSTANTS
    Readers,             \* slots for concurrent reads
    Reads                \* the validated reads callers may ask for

(***************************************************************************)
(* A read; fields an operation does not have are None.  Pages of holds are *)
(* ordered by hold_id, so holds are numbers here.                          *)
(***************************************************************************)
Read == [op: {"get_hold"}, organization: Organizations, hold: Holds]
          \cup [op: {"list_holds"}, organization: Organizations,
                status: {"active", "released", None},
                cursor: Holds \cup {None}, limit: Nat \ {0}]
          \cup [op: {"list_activity"}, organization: Organizations,
                hold: Holds, after: Nat, limit: Nat \ {0}]

ASSUME ReadsAssumption ==
    Holds \subseteq Nat /\ None \notin Holds /\ Reads \subseteq Read

VARIABLES
    read_phase,             \* reader -> statement about to run
    read,                   \* reader -> the read it serves, or None
    hold_ids,               \* reader -> holds still to load
    row,                    \* reader -> the row just loaded, or None
    views,                  \* reader -> views loaded so far
    has_more,               \* reader -> whether the page was cut
    reply,                  \* reader -> its answer, or None
    matched,                \* history: the holds the page query matched
    status_then             \* history: hold -> its status at that moment

readVars == <<read_phase, read, hold_ids, row, views, has_more, reply,
              matched, status_then>>
history == <<matched, status_then>>
vars == <<ledgerVars, readVars>>

NoStatus == [h \in Holds |-> None]
StatusNow ==
    [h \in Holds |-> IF legal_holds[h] = None THEN None ELSE legal_holds[h].status]

Init ==
    /\ Ledger!Init
    /\ read_phase = [r \in Readers |-> "idle"]
    /\ read = [r \in Readers |-> None]
    /\ hold_ids = [r \in Readers |-> {}]
    /\ row = [r \in Readers |-> None]
    /\ views = [r \in Readers |-> {}]
    /\ has_more = [r \in Readers |-> FALSE]
    /\ reply = [r \in Readers |-> None]
    /\ matched = [r \in Readers |-> {}]
    /\ status_then = [r \in Readers |-> NoStatus]
-----------------------------------------------------------------------------
(***************************************************************************)
(* ORDER BY and LIMIT: the n first of a set of numbers.                    *)
(***************************************************************************)
FirstOf(S, n) == {x \in S : Cardinality({y \in S : y < x}) < n}

(***************************************************************************)
(* The three outcomes of a read.  A failure ends the call whatever it had  *)
(* loaded.                                                                 *)
(***************************************************************************)
Finish(r, answered) ==
    /\ reply' = [reply EXCEPT ![r] = answered]
    /\ read_phase' = [read_phase EXCEPT ![r] = "idle"]

Refused(outcome) == [outcome |-> outcome, views |-> {}, events |-> {},
                     next |-> None]

BeginRead(r, q) ==
    /\ read_phase[r] = "idle"
    /\ read_phase' =
         [read_phase EXCEPT ![r] = IF q.op = "list_holds" THEN "page" ELSE "row"]
    /\ read' = [read EXCEPT ![r] = q]
    /\ hold_ids' =
         [hold_ids EXCEPT ![r] = IF q.op = "list_holds" THEN {} ELSE {q.hold}]
    /\ row' = [row EXCEPT ![r] = None]
    /\ views' = [views EXCEPT ![r] = {}]
    /\ has_more' = [has_more EXCEPT ![r] = FALSE]
    /\ reply' = [reply EXCEPT ![r] = None]
    /\ matched' = [matched EXCEPT ![r] = {}]
    /\ status_then' = [status_then EXCEPT ![r] = NoStatus]
    /\ UNCHANGED ledgerVars

(***************************************************************************)
(* The query of list_holds asks for one hold more than the page shows, to  *)
(* tell whether there is a next page.                                      *)
(***************************************************************************)
AnyStatusQuery(q) ==
    {h \in Holds :
        /\ legal_holds[h] # None
        /\ legal_holds[h].organization = q.organization
        /\ q.cursor = None \/ h > q.cursor}

PageQuery(q) ==
    {h \in Holds :
        /\ legal_holds[h] # None
        /\ legal_holds[h].organization = q.organization
        /\ q.status \in {None, legal_holds[h].status}
        /\ q.cursor = None \/ h > q.cursor}

JustTheLimit(q) == q.limit
OneMore(q) == q.limit + 1

EmptyPage == [outcome |-> "Ok", views |-> {}, events |-> {}, next |-> None]

Page(r) ==
    LET q == read[r]
        ids == FirstOf(PageQuery(q), OneMore(q))
    IN
    /\ read_phase[r] = "page"
    /\ matched' = [matched EXCEPT ![r] = PageQuery(q)]
    /\ status_then' = [status_then EXCEPT ![r] = StatusNow]
    /\ has_more' = [has_more EXCEPT ![r] = Cardinality(ids) > q.limit]
    /\ hold_ids' = [hold_ids EXCEPT ![r] = FirstOf(ids, q.limit)]
    /\ \/ ids = {} /\ Finish(r, EmptyPage)
       \/ /\ ids # {}
          /\ read_phase' = [read_phase EXCEPT ![r] = "row"]
          /\ UNCHANGED reply
    /\ UNCHANGED <<ledgerVars, read, row, views>>

(***************************************************************************)
(* The holds of a page are loaded in order.  load_hold_tx, first           *)
(* statement: the row, in its organization.                                *)
(***************************************************************************)
NextToLoad(r, h) == h \in hold_ids[r] /\ \A g \in hold_ids[r] : h <= g

VisibleTo(h, q) ==
    legal_holds[h] # None /\ legal_holds[h].organization = q.organization

LoadRow(r) ==
    /\ read_phase[r] = "row"
    /\ \E h \in Holds :
         /\ NextToLoad(r, h)
         /\ \/ /\ VisibleTo(h, read[r])
               /\ row' = [row EXCEPT ![r] = legal_holds[h]]
               /\ read_phase' = [read_phase EXCEPT ![r] = "scopes"]
               /\ UNCHANGED reply
            \/ /\ ~VisibleTo(h, read[r])
               /\ Finish(r, Refused("NotFound"))
               /\ UNCHANGED row
    /\ UNCHANGED <<ledgerVars, read, hold_ids, views, has_more, history>>

(***************************************************************************)
(* load_hold_tx, second statement: the scopes.  The view is complete;      *)
(* list_holds goes on to the next hold of its page, list_activity, which   *)
(* loads the hold only to know that it is there, to its events.            *)
(***************************************************************************)
Loaded(r, h, view) ==
    /\ views' = [views EXCEPT ![r] = @ \cup {view}]
    /\ hold_ids' = [hold_ids EXCEPT ![r] = @ \ {h}]
    /\ \/ /\ read[r].op = "list_activity"
          /\ read_phase' = [read_phase EXCEPT ![r] = "events"]
          /\ UNCHANGED reply
       \/ /\ read[r].op # "list_activity" /\ hold_ids[r] # {h}
          /\ read_phase' = [read_phase EXCEPT ![r] = "row"]
          /\ UNCHANGED reply
       \/ /\ read[r].op # "list_activity" /\ hold_ids[r] = {h}
          /\ Finish(r, [outcome |-> "Ok", views |-> views[r] \cup {view},
                        events |-> {}, next |-> IF has_more[r] THEN h ELSE None])

LoadScopes(r) ==
    /\ read_phase[r] = "scopes"
    /\ \E h \in Holds :
         /\ NextToLoad(r, h)
         /\ Loaded(r, h, ViewOf(h, row[r], legal_hold_scopes[h]))
    /\ UNCHANGED <<ledgerVars, read, row, has_more, history>>

(***************************************************************************)
(* The page of activity and the cursor after it: the last id shown.        *)
(***************************************************************************)
EventsAfter(q) ==
    {e \in legal_hold_activity : /\ e.organization = q.organization
                                 /\ e.hold = q.hold
                                 /\ e.id > q.after}

CursorByPageSize(q, ids) == q.after + q.limit
CursorAfter(q, ids) ==
    IF ids = {} THEN q.after ELSE CHOOSE n \in ids : \A m \in ids : m <= n

Events(r) ==
    LET q == read[r]
        ids == FirstOf({e.id : e \in EventsAfter(q)}, q.limit)
    IN
    /\ read_phase[r] = "events"
    /\ Finish(r, [outcome |-> "Ok", views |-> {},
                  events |-> {e \in EventsAfter(q) : e.id \in ids},
                  next |-> CursorAfter(q, ids)])
    /\ UNCHANGED <<ledgerVars, read, hold_ids, row, views, has_more, history>>

(***************************************************************************)
(* Any statement may fail, and the pool may be closed under the call.      *)
(***************************************************************************)
FailRead(r) ==
    /\ read_phase[r] # "idle"
    /\ Finish(r, Refused("PluginFailure"))
    /\ UNCHANGED <<ledgerVars, read, hold_ids, row, views, has_more, history>>

Next ==
    \/ Ledger!Next /\ UNCHANGED readVars
    \/ \E r \in Readers :
         \/ \E q \in Reads : BeginRead(r, q)
         \/ Page(r)
         \/ LoadRow(r)
         \/ LoadScopes(r)
         \/ Events(r)
         \/ FailRead(r)

Spec == Init /\ [][Next]_vars
-----------------------------------------------------------------------------
Answered(r, op) ==
    /\ reply[r] # None /\ reply[r].outcome = "Ok"
    /\ read[r].op = op

ShownViews(r) == IF reply[r] = None THEN {} ELSE reply[r].views

(***************************************************************************)
(* A view is never made up: its row is a row some receipt returned, and    *)
(* its scopes are those of that revision or of a later one.                *)
(***************************************************************************)
ViewsComeFromHistory ==
    \A r \in Readers : \A v \in ShownViews(r) :
        /\ \E k \in ReceiptsOf(v.hold, v.row.revision) :
             legal_hold_commands[k].response.row = v.row
        /\ \E n \in v.row.revision..legal_holds[v.hold].revision :
             \E k \in ReceiptsOf(v.hold, n) :
                 legal_hold_commands[k].response.scopes = v.scopes

(***************************************************************************)
(* A view that says "released" is final: it equals the hold for ever.      *)
(***************************************************************************)
ReleasedViewsAreFinal ==
    \A r \in Readers : \A v \in ShownViews(r) :
        v.row.status = "released" =>
            v = ViewOf(v.hold, legal_holds[v.hold], legal_hold_scopes[v.hold])

(***************************************************************************)
(* A page of holds leaves none out: its holds are the first of those the   *)
(* query matched, and there is a next cursor, the last of them, exactly    *)
(* when some are left.                                                     *)
(***************************************************************************)
PagesSkipNoHold ==
    \A r \in Readers : Answered(r, "list_holds") =>
        LET shown == {v.hold : v \in ShownViews(r)} IN
        /\ shown \subseteq matched[r]
        /\ \A h \in matched[r] \ shown : \A s \in shown : s < h
        /\ reply[r].next = None <=> shown = matched[r]
        /\ reply[r].next # None =>
             reply[r].next \in shown /\ \A s \in shown : s <= reply[r].next

(***************************************************************************)
(* What is shown is what was asked for: holds and activity of the         *)
(* organization and the hold the read names, and a page of the status it   *)
(* names, which is read before the holds are.  Every hold of the page had  *)
(* that status when the page was chosen, and only an active one may show   *)
(* another: it was released in between.  No hold of the page is gone.      *)
(***************************************************************************)
ShownAsAsked ==
    \A r \in Readers : reply[r] # None =>
        /\ \A v \in ShownViews(r) :
             /\ v.row.organization = read[r].organization
             /\ (read[r].op = "list_holds" /\ read[r].status # None) =>
                  /\ status_then[r][v.hold] = read[r].status
                  /\ v.row.status \in {read[r].status, "released"}
        /\ \A e \in reply[r].events :
             e.organization = read[r].organization /\ e.hold = read[r].hold
        /\ read[r].op = "list_holds" => reply[r].outcome # "NotFound"

(***************************************************************************)
(* A cursor of activity never passes a row that was not shown, also when   *)
(* that row is committed after the page was read.                          *)
(***************************************************************************)
CursorsSkipNoActivity ==
    \A r \in Readers : Answered(r, "list_activity") =>
        \A e \in legal_hold_activity :
            (/\ e.hold = read[r].hold
             /\ read[r].after < e.id /\ e.id <= reply[r].next)
              => e \in reply[r].events

(***************************************************************************)
(* "PostgreSQL transactions serialize [...] scope mutation, revisions,     *)
(* release" (docs/plugin-card.md:31-33): serialised, get_hold returns the  *)
(* hold as one revision left it.                                           *)
(***************************************************************************)
ViewsAreRevisions ==
    \A r \in Readers : Answered(r, "get_hold") =>
        \A v \in ShownViews(r) :
            \E k \in ReceiptsOf(v.hold, v.row.revision) :
                legal_hold_commands[k].response = v
=============================================================================
