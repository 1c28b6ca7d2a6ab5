---------------------------- MODULE HoldArguments ----------------------------
(***************************************************************************)
(* From the arguments of a call to what storage.rs is asked: the JSON      *)
(* schemas the contract publishes, the types generated from them, the      *)
(* validation of the handlers in lib.rs, and the hash a retry is           *)
(* recognised by.                                                          *)
(***************************************************************************)
EXTENDS HoldText, FiniteSets

CONSTANTS
    Calls,          \* <<operation, arguments>> pairs that may be sent
    MaxReceipts     \* bound on the mutations that take effect

VARIABLES
    receipts,       \* operation, key, hash and meaning of what took effect
    call,           \* the last call, or None
    told            \* what became of it, or None

argumentVars == <<receipts, call, told>>

Number(n) == [json |-> "integer", value |-> n]
Null == [json |-> "null"]

Mutations == {"create_hold", "add_scope", "remove_scope", "release_hold"}
ScopeMutations == {"add_scope", "remove_scope"}
Listings == {"list_holds", "list_activity"}
Operations == Mutations \cup Listings \cup {"get_hold"}
Outcomes == {"InvalidArguments", "InvalidRequest", "Accepted", "Replayed",
             "IdempotencyConflict"}

(***************************************************************************)
(* Arguments are strings, integers and null.                               *)
(***************************************************************************)
IsValue(v) ==
    \/ v = Null
    \/ v.json = "integer" /\ v.value \in Int
    \/ IsText(v)

ASSUME ArgumentsAssumption ==
    /\ None \notin Calls /\ None \notin Outcomes
    /\ \A c \in Calls :
         /\ c = <<c[1], c[2]>> /\ c[1] \in Operations
         /\ \A f \in DOMAIN c[2] : IsValue(c[2][f]) /\ c[2][f] # None
-----------------------------------------------------------------------------
(***************************************************************************)
(* The request types.  Every required field must be there with its type;   *)
(* an optional one may be missing or null; any other field is ignored.     *)
(***************************************************************************)
ScopeFields == {"organization_id", "hold_id", "scope_kind", "scope_id",
                "expected_revision", "idempotency_key"}

RequiredStrings(op) ==
    CASE op = "create_hold" ->
           {"organization_id", "hold_id", "title", "reason", "legal_authority",
            "idempotency_key"}
      [] op \in ScopeMutations -> ScopeFields
      [] op = "release_hold" ->
           {"organization_id", "hold_id", "expected_revision", "reason",
            "idempotency_key"}
      [] op \in {"get_hold", "list_activity"} -> {"organization_id", "hold_id"}
      [] op = "list_holds" -> {"organization_id"}

Optional(op) ==
    CASE op \in ScopeMutations  -> {"subject"}
      [] op = "list_activity"   -> {"after"}
      [] op = "list_holds"      -> {"cursor", "status"}
      [] OTHER                  -> {}

Limits(op) == IF op \in Listings THEN {"limit"} ELSE {}

Fields(op) == RequiredStrings(op) \cup Optional(op) \cup Limits(op)

IsStatus(v) == v.label \in {"active", "released"}

Decodes(op, a) ==
    /\ \A f \in RequiredStrings(op) : f \in DOMAIN a /\ a[f].json = "string"
    /\ \A f \in Limits(op) : f \in DOMAIN a /\ a[f].json = "integer"
    /\ \A f \in Optional(op) \cap DOMAIN a :
         \/ a[f] = Null
         \/ a[f].json = "string" /\ (f = "status" => IsStatus(a[f]))

Decoded(op, a) ==
    [f \in Fields(op) |->
        IF f \in DOMAIN a /\ a[f] # Null THEN a[f] ELSE None]
-----------------------------------------------------------------------------
(***************************************************************************)
(* The validation of the handlers.  Lengths are bytes of UTF-8.            *)
(***************************************************************************)
MaxIdBytes == 512
MaxShortTextBytes == 1000
MaxReasonBytes == 20000
MaxIdempotencyBytes == 200
MaxScopeKindBytes == 128
MaxPageSize == 200

IdsAsLongAsTitles(f) ==
    CASE f = "scope_kind"      -> MaxScopeKindBytes
      [] f = "reason"          -> MaxReasonBytes
      [] f = "idempotency_key" -> MaxIdempotencyBytes
      [] OTHER                 -> MaxShortTextBytes

ReasonsAsShortAsTitles(f) ==
    CASE f \in {"title", "legal_authority", "reason"} -> MaxShortTextBytes
      [] f = "scope_kind"      -> MaxScopeKindBytes
      [] f = "idempotency_key" -> MaxIdempotencyBytes
      [] OTHER                 -> MaxIdBytes

MaxBytes(f) ==
    CASE f \in {"organization_id", "hold_id", "scope_id", "subject", "cursor"}
                                            -> MaxIdBytes
      [] f = "scope_kind"                   -> MaxScopeKindBytes
      [] f \in {"title", "legal_authority"} -> MaxShortTextBytes
      [] f = "reason"                       -> MaxReasonBytes
      [] f = "idempotency_key"              -> MaxIdempotencyBytes

ParsedAtAll(v, least) == v.decimal # None

Parsed(v, least) == v.decimal # None /\ v.decimal >= least

ValidField(f, v) ==
    CASE f = "status"            -> TRUE
      [] f = "limit"             -> v.value \in 1..MaxPageSize
      [] f = "expected_revision" -> Parsed(v, 1)
      [] f = "after"             -> Parsed(v, 0)
      [] OTHER                   -> ValidText(v, MaxBytes(f))

Valid(op, q) ==
    \A f \in {g \in Fields(op) : q[g] # None} : ValidField(f, q[f])

(***************************************************************************)
(* What storage.rs gets: the fields, the numbers parsed.                   *)
(***************************************************************************)
Meaning(op, q) ==
    [f \in Fields(op) |->
        CASE f = "expected_revision" -> Number(q[f].decimal)
          [] f = "after" -> Number(IF q[f] = None THEN 0 ELSE q[f].decimal)
          [] OTHER -> q[f]]

(***************************************************************************)
(* request_hash.  A scope mutation hashes the revision it has parsed, the  *)
(* others the request as it was sent.                                      *)
(***************************************************************************)
HashWithoutSubject(op, q) ==
    [f \in Fields(op) \ {"subject"} |-> q[f]]

Hash(op, q) == IF op \in ScopeMutations THEN Meaning(op, q) ELSE q
-----------------------------------------------------------------------------
ArgumentsInit == receipts = {} /\ call = None /\ told = None

ReceiptFor(op, q) ==
    {r \in receipts : r.op = op /\ r.key = q.idempotency_key}

Accepts(op, a) == Decodes(op, a) /\ Valid(op, Decoded(op, a))

Reject(op, a) ==
    /\ ~Accepts(op, a)
    /\ told' = IF Decodes(op, a) THEN "InvalidRequest" ELSE "InvalidArguments"
    /\ UNCHANGED receipts

Answer(op, a) ==
    /\ op \notin Mutations /\ Accepts(op, a)
    /\ told' = "Accepted"
    /\ UNCHANGED receipts

Replay(op, a) ==
    /\ op \in Mutations /\ Accepts(op, a)
    /\ LET q == Decoded(op, a) IN
       \E r \in ReceiptFor(op, q) :
           told' = IF r.hash = Hash(op, q) THEN "Replayed" ELSE "IdempotencyConflict"
    /\ UNCHANGED receipts

TakeEffect(op, a) ==
    /\ op \in Mutations /\ Accepts(op, a)
    /\ Cardinality(receipts) < MaxReceipts
    /\ LET q == Decoded(op, a) IN
       /\ ReceiptFor(op, q) = {}
       /\ receipts' = receipts \cup
            {[op |-> op, key |-> q.idempotency_key, hash |-> Hash(op, q),
              meaning |-> Meaning(op, q)]}
    /\ told' = "Accepted"

(***************************************************************************)
(* One call of an authorized caller, from the arguments to the replay.     *)
(* That a valid request then takes effect is the storage's business; here  *)
(* it does.                                                                *)
(***************************************************************************)
Execute(op, a) ==
    /\ call' = <<op, a>>
    /\ Reject(op, a) \/ Answer(op, a) \/ Replay(op, a) \/ TakeEffect(op, a)

-----------------------------------------------------------------------------
(***************************************************************************)
(* The JSON schemas of the requests.  Lengths are characters.              *)
(***************************************************************************)
Unbounded == 2^30

MaxLength(op, f) ==
    CASE f = "idempotency_key" -> 200
      [] f = "reason" -> 4000
      [] f = "scope_kind" -> 64
      [] f \in {"scope_id", "subject"} -> 256
      [] op = "create_hold" /\ f \in {"organization_id", "hold_id"} -> 256
      [] f = "title" -> 300
      [] f = "legal_authority" -> 1000
      [] OTHER -> Unbounded

MinLength(op, f) ==
    IF \/ f \in {"idempotency_key", "reason", "scope_kind", "scope_id"}
       \/ op = "create_hold"
    THEN 1 ELSE 0

MaxLimit(op) == IF op = "list_activity" THEN 500 ELSE 200

FieldConforms(op, f, v) ==
    CASE f = "limit" -> v.json = "integer" /\ v.value \in 1..MaxLimit(op)
      [] f = "status" -> v.json = "string" /\ IsStatus(v)
      [] f = "expected_revision" -> v.json = "string" /\ v.canonical
      [] f = "after" -> v.json = "string" /\ v.digits
      [] f = "subject" ->
           v = Null \/ (v.json = "string" /\ v.chars <= MaxLength(op, f))
      [] OTHER -> /\ v.json = "string"
                  /\ v.chars \in MinLength(op, f)..MaxLength(op, f)

Conforms(op, a) ==
    /\ RequiredStrings(op) \cup Limits(op) \subseteq DOMAIN a
    /\ DOMAIN a \subseteq Fields(op)
    /\ \A f \in DOMAIN a : FieldConforms(op, f, a[f])
-----------------------------------------------------------------------------
Op == call[1]
Args == call[2]
Accepted == told \in {"Accepted", "Replayed", "IdempotencyConflict"}
Request == Decoded(Op, Args)

ArgumentsTypeOK ==
    /\ call \in Calls \cup {None}
    /\ told \in Outcomes \cup {None}
    /\ \A r \in receipts :
         /\ ReceiptFor(r.op, r.meaning) = {r}
         /\ "expected_revision" \in DOMAIN r.meaning =>
              r.meaning.expected_revision.value > 0

(***************************************************************************)
(* The hash tells requests apart and nothing else.  A replay answers the   *)
(* request that was made: whatever arguments it was sent in, it asks of    *)
(* the storage what the receipt was written for.  And a scope mutation     *)
(* sent again is recognised however it is written: the subject null or     *)
(* left out, the revision with a sign (lib.rs:392-401, 788-792).           *)
(***************************************************************************)
ReplayRecognisesRequest ==
    \A r \in IF told \in {"Replayed", "IdempotencyConflict"}
             THEN ReceiptFor(Op, Request) ELSE {} :
        /\ told = "Replayed" => r.meaning = Meaning(Op, Request)
        /\ (told = "IdempotencyConflict" /\ Op \in ScopeMutations) =>
             r.meaning # Meaning(Op, Request)

(***************************************************************************)
(* What a handler refuses although the schema of the request lets it pass: *)
(* a blank text or one with control characters, a text of several bytes to *)
(* the character or of a length the schema leaves open, a numeral beyond   *)
(* an i64, and, of the activity, a page above MaxPageSize.                 *)
(***************************************************************************)
StricterThanSchema(op, f, v) ==
    CASE f = "limit" -> op = "list_activity" /\ v.value > MaxPageSize
      [] f \in {"expected_revision", "after"} -> v.decimal = None
      [] f = "status" -> FALSE
      [] OTHER ->
           /\ v # Null
           /\ \/ v.blank \/ v.control
              \/ /\ v.bytes > MaxBytes(f)
                 /\ v.bytes > v.chars \/ MaxLength(op, f) = Unbounded

(***************************************************************************)
(* A call that conforms to its published schema is decoded, and if it is   *)
(* refused as invalid, then for a field of which the handler is known to   *)
(* ask more than the schema, and never because a bound of a handler lies   *)
(* below the published one but for the pages of the activity               *)
(* (lib.rs:266-276, 376-391, 485-490).                                     *)
(***************************************************************************)
RefusalsExplained ==
    (call # None /\ Conforms(Op, Args)) =>
        /\ told # "InvalidArguments"
        /\ told = "InvalidRequest" =>
             \E f \in DOMAIN Args : StricterThanSchema(Op, f, Args[f])

(***************************************************************************)
(* A listing is not refused for a limit that its schema allows:            *)
(* "limit":{"type":"integer","minimum":1,"maximum":500}                    *)
(* (list-activity-request.schema.json:7).                                  *)
(***************************************************************************)
PublishedLimitsAccepted ==
    (call # None /\ Conforms(Op, Args) /\ told = "InvalidRequest") =>
        \E f \in DOMAIN Args \ {"limit"} : StricterThanSchema(Op, f, Args[f])
=============================================================================
