------------------------- MODULE PluginInputsProofs -------------------------
(***************************************************************************)
(* Proofs about PluginInputs: what the configuration and the arguments of  *)
(* calls are checked for, for every document, every set of calls and any   *)
(* number of receipts.                                                     *)
(***************************************************************************)
EXTENDS PluginInputs, FiniteSetTheorems, TLAPS

-----------------------------------------------------------------------------
(***************************************************************************)
(* The checks of a configuration are six, and each has an error of its     *)
(* own.                                                                    *)
(***************************************************************************)
LEMMA SixChecks ==
    ASSUME NEW d
    PROVE  /\ DOMAIN Checks(d) = 1..6
           /\ \A i \in 1..6 : /\ Checks(d)[i].error \in Verdicts
                              /\ Checks(d)[i].error \notin {"Ok", "InvalidDocument"}
  BY DEF Checks, Verdicts

(***************************************************************************)
(* The six together.                                                       *)
(***************************************************************************)
AllChecks(d) ==
    /\ d.schema \in SchemaNames
    /\ ValidIdentifier(d.database_url_secret, MaxIdentifierBytes)
    /\ ValidIdentifier(d.auth_issuer, MaxIdentifierBytes)
    /\ d.auth_assertion_public_key \in PublicKeys
    /\ ValidateCallers(d.admin_callers)
    /\ ValidateCallers(d.guard_callers)

LEMMA ChecksTogether ==
    ASSUME NEW d
    PROVE  (\A i \in 1..6 : Checks(d)[i].holds) <=> AllChecks(d)
<1>1. /\ Checks(d)[1].holds <=> d.schema \in SchemaNames
      /\ Checks(d)[2].holds <=> ValidIdentifier(d.database_url_secret, MaxIdentifierBytes)
      /\ Checks(d)[3].holds <=> ValidIdentifier(d.auth_issuer, MaxIdentifierBytes)
      /\ Checks(d)[4].holds <=> d.auth_assertion_public_key \in PublicKeys
      /\ Checks(d)[5].holds <=> ValidateCallers(d.admin_callers)
      /\ Checks(d)[6].holds <=> ValidateCallers(d.guard_callers)
  BY DEF Checks
<1>2. (\A i \in 1..6 : Checks(d)[i].holds) <=>
        /\ Checks(d)[1].holds /\ Checks(d)[2].holds /\ Checks(d)[3].holds
        /\ Checks(d)[4].holds /\ Checks(d)[5].holds /\ Checks(d)[6].holds
  OBVIOUS
<1> QED
  BY <1>1, <1>2 DEF AllChecks

(***************************************************************************)
(* The callers of a list are distinct exactly when there are as many of    *)
(* them as the list is long.                                               *)
(***************************************************************************)
LEMMA DistinctCallers ==
    ASSUME NEW s, IsList(s)
    PROVE  /\ Len(s) \in Nat /\ DOMAIN s = 1..Len(s)
           /\ (Cardinality({s[i] : i \in DOMAIN s}) = Len(s)) <=>
                \A i \in 1..Len(s) : s[i] \notin {s[j] : j \in 1..(i - 1)}
<1> DEFINE T == {s[i] : i \in DOMAIN s}
<1>1. Len(s) \in Nat /\ DOMAIN s = 1..Len(s) /\ s \in [1..Len(s) -> T]
  BY DEF IsList
<1>2. s \in Surjection(1..Len(s), T)
  BY <1>1 DEF Surjection
<1>3. IsFiniteSet(1..Len(s)) /\ Cardinality(1..Len(s)) = Len(s)
  <2>1. Len(s) \in Int /\ 1 \in Int
    BY <1>1
  <2>2. /\ IsFiniteSet(1..Len(s))
        /\ Cardinality(1..Len(s)) = IF 1 > Len(s) THEN 0 ELSE Len(s) - 1 + 1
    BY <2>1, FS_Interval, Zenon
  <2> QED
    BY <1>1, <2>2
<1>4. Cardinality(T) = Len(s) <=> s \in Injection(1..Len(s), T)
  BY <1>2, <1>3, FS_Surjection
<1>5. s \in Injection(1..Len(s), T) <=>
        \A i, j \in 1..Len(s) : s[i] = s[j] => i = j
  BY <1>1 DEF Injection, IsInjective
<1>6. ASSUME \A i, j \in 1..Len(s) : s[i] = s[j] => i = j
      PROVE  \A i \in 1..Len(s) : s[i] \notin {s[j] : j \in 1..(i - 1)}
  BY <1>1, <1>6
<1>7. ASSUME \A i \in 1..Len(s) : s[i] \notin {s[j] : j \in 1..(i - 1)}
      PROVE  \A i, j \in 1..Len(s) : s[i] = s[j] => i = j
  <2> SUFFICES ASSUME NEW i \in 1..Len(s), NEW j \in 1..Len(s), s[i] = s[j], i # j
               PROVE  FALSE
    OBVIOUS
  <2>1. CASE i < j
    BY <1>1, <1>7, <2>1
  <2>2. CASE j < i
    BY <1>1, <1>7, <2>2
  <2> QED
    BY <1>1, <2>1, <2>2
<1> QED
  BY <1>1, <1>4, <1>5, <1>6, <1>7

(***************************************************************************)
(* A caller list that passes has at most 64 identifiers that are short     *)
(* enough, all different, which is what the schema asks.                   *)
(***************************************************************************)
LEMMA CallersAgree ==
    ASSUME NEW s, IsList(s)
    PROVE  LET conforms == /\ Len(s) \in 1..64
                           /\ \A i \in DOMAIN s : ItemConforms(s[i])
                           /\ Cardinality({s[i] : i \in DOMAIN s}) = Len(s)
           IN  /\ ValidateCallers(s) => conforms
               /\ conforms /\ (\A i \in DOMAIN s : PlainIdentifier(s[i]))
                    => ValidateCallers(s)
<1>1. /\ Len(s) \in Nat /\ DOMAIN s = 1..Len(s)
      /\ (Cardinality({s[i] : i \in DOMAIN s}) = Len(s)) <=>
           \A i \in 1..Len(s) : s[i] \notin {s[j] : j \in 1..(i - 1)}
  BY DistinctCallers
<1>2. ASSUME NEW v, IsText(v)
      PROVE  /\ ValidIdentifier(v, MaxIdentifierBytes) => ItemConforms(v)
             /\ ItemConforms(v) /\ PlainIdentifier(v) =>
                  ValidIdentifier(v, MaxIdentifierBytes)
  BY <1>2 DEF IsText, ValidIdentifier, ValidText, ItemConforms, PlainIdentifier,
     MaxIdentifierBytes
<1>3. \A i \in DOMAIN s : IsText(s[i])
  BY DEF IsList
<1> QED
  BY <1>1, <1>2, <1>3 DEF ValidateCallers, MaxCallers

(***************************************************************************)
(* What passes conforms, and what conforms and is plain passes.            *)
(***************************************************************************)
LEMMA ConfigurationsAgree ==
    ASSUME NEW d \in Documents, Deserializes(d)
    PROVE  /\ AllChecks(d) => DocumentConforms(d)
           /\ DocumentConforms(d) /\ PlainDocument(d) => AllChecks(d)
<1>1. /\ DOMAIN d = ConfigFields
      /\ \A f \in TextFields : IsText(d[f])
      /\ \A f \in CallerFields : IsList(d[f])
  BY ConfigAssumption DEF Deserializes, ConfigFields
<1>2. ASSUME AllChecks(d) PROVE DocumentConforms(d)
  <2>1. d.schema.chars \in 1..63 /\ d.auth_assertion_public_key.chars \in 1..256
    BY <1>2, ConfigAssumption DEF AllChecks
  <2>2. \A v : IsText(v) /\ ValidIdentifier(v, MaxIdentifierBytes) => v.chars \in 1..256
    BY DEF ValidIdentifier, ValidText, MaxIdentifierBytes, IsText
  <2>3. ASSUME NEW f \in TextFields PROVE d[f].chars \in 1..MaxFieldLength(f)
    <3>1. CASE f = "schema"
      BY <2>1, <3>1 DEF MaxFieldLength
    <3>2. CASE f = "auth_assertion_public_key"
      BY <2>1, <3>2 DEF MaxFieldLength
    <3>3. CASE f \in {"database_url_secret", "auth_issuer"}
      <4>1. IsText(d[f]) /\ ValidIdentifier(d[f], MaxIdentifierBytes)
        BY <1>1, <1>2, <3>3 DEF AllChecks
      <4> QED
        BY <2>2, <3>3, <4>1 DEF MaxFieldLength
    <3> QED
      BY <3>1, <3>2, <3>3 DEF TextFields
  <2>4. \A f \in CallerFields : ValidateCallers(d[f])
    BY <1>2 DEF AllChecks, CallerFields
  <2> QED
    BY <1>1, <2>3, <2>4, CallersAgree DEF DocumentConforms
<1>3. ASSUME DocumentConforms(d), PlainDocument(d) PROVE AllChecks(d)
  <2>1. \A f \in CallerFields : ValidateCallers(d[f])
    BY <1>1, <1>3, CallersAgree DEF DocumentConforms, PlainDocument
  <2>2. \A v : v.chars \in 1..256 /\ PlainIdentifier(v) =>
                  ValidIdentifier(v, MaxIdentifierBytes)
    BY DEF PlainIdentifier, ValidIdentifier, ValidText, MaxIdentifierBytes
  <2>3. \A f \in {"database_url_secret", "auth_issuer"} :
          d[f].chars \in 1..256 /\ PlainIdentifier(d[f])
    <3>1. \A f \in {"database_url_secret", "auth_issuer"} :
            f \in TextFields /\ MaxFieldLength(f) = 256
      BY DEF TextFields, MaxFieldLength
    <3> QED
      BY <1>3, <3>1 DEF DocumentConforms, PlainDocument
  <2> QED
    BY <1>3, <2>1, <2>2, <2>3 DEF AllChecks, PlainDocument, CallerFields
<1> QED
  BY <1>2, <1>3
-----------------------------------------------------------------------------
(***************************************************************************)
(* What a call may carry.                                                  *)
(***************************************************************************)
Arguments(a) == \A f \in DOMAIN a : IsValue(a[f]) /\ a[f] # None

Strings(op) == RequiredStrings(op) \cup Optional(op)

(***************************************************************************)
(* A field that was decoded was sent, as a string unless it is the limit.  *)
(***************************************************************************)
LEMMA DecodedFields ==
    ASSUME NEW op \in Operations, NEW a, Arguments(a), Decodes(op, a),
           NEW f \in Fields(op)
    PROVE  /\ f \in RequiredStrings(op) \cup Limits(op) =>
                f \in DOMAIN a /\ a[f] # Null
           /\ Decoded(op, a)[f] # None =>
                /\ f \in DOMAIN a /\ a[f] # Null /\ Decoded(op, a)[f] = a[f]
                /\ f = "limit" => a[f].value \in Int
                /\ f # "limit" => IsText(a[f])
<1>1. Null.json = "null"
  BY DEF Null
<1>2. /\ f \in Limits(op) => f = "limit"
      /\ f \in Strings(op) => f # "limit"
  BY DEF Limits, Strings, RequiredStrings, Optional, Operations, Mutations,
     ScopeMutations, ScopeFields, Listings
<1>3. ASSUME f \in DOMAIN a, a[f].json = "integer"
      PROVE  a[f] # Null /\ a[f].value \in Int
  BY <1>1, <1>3 DEF Arguments, IsValue, IsText
<1>4. ASSUME f \in DOMAIN a, a[f].json = "string"
      PROVE  a[f] # Null /\ IsText(a[f])
  BY <1>1, <1>4 DEF Arguments, IsValue
<1>5. ASSUME f \in RequiredStrings(op) \cup Limits(op)
      PROVE  f \in DOMAIN a /\ a[f] # Null
  BY <1>3, <1>4, <1>5 DEF Decodes
<1>6. ASSUME Decoded(op, a)[f] # None
      PROVE  f \in DOMAIN a /\ a[f] # Null /\ Decoded(op, a)[f] = a[f]
  BY <1>6 DEF Decoded
<1>7. ASSUME Decoded(op, a)[f] # None
      PROVE  /\ f = "limit" => a[f].value \in Int
             /\ f # "limit" => IsText(a[f])
  <2>1. CASE f \in Limits(op)
    BY <1>2, <1>3, <2>1 DEF Decodes
  <2>2. CASE f \in RequiredStrings(op)
    BY <1>2, <1>4, <2>2 DEF Decodes, Strings
  <2>3. CASE f \in Optional(op)
    BY <1>2, <1>4, <1>6, <1>7, <2>3 DEF Decodes, Strings
  <2> QED
    BY <2>1, <2>2, <2>3 DEF Fields
<1> QED
  BY <1>5, <1>6, <1>7

(***************************************************************************)
(* A request that passed has a positive revision if it has one.            *)
(***************************************************************************)
LEMMA RevisionPositive ==
    ASSUME NEW op \in Mutations, NEW a, Arguments(a), Accepts(op, a),
           "expected_revision" \in DOMAIN Meaning(op, Decoded(op, a))
    PROVE  Meaning(op, Decoded(op, a)).expected_revision.value > 0
<1> DEFINE q == Decoded(op, a)
<1>1. op \in Operations /\ "expected_revision" \in Fields(op)
  BY DEF Operations, Meaning
<1>2. "expected_revision" \in RequiredStrings(op)
  BY <1>1 DEF Fields, Limits, Optional, Listings, Operations, Mutations
<1>3. q.expected_revision # None /\ IsText(q.expected_revision)
  <2>1. /\ "expected_revision" \in DOMAIN a /\ a["expected_revision"] # Null
        /\ q["expected_revision"] # None => IsText(q["expected_revision"])
    BY <1>1, <1>2, DecodedFields DEF Accepts
  <2>2. q["expected_revision"] = a["expected_revision"]
    BY <1>1, <2>1 DEF Decoded
  <2> QED
    BY <2>1, <2>2 DEF Arguments
<1>4. Parsed(q.expected_revision, 1)
  <2>1. ValidField("expected_revision", q["expected_revision"])
    BY <1>1, <1>3 DEF Accepts, Valid
  <2> QED
    BY <2>1 DEF ValidField
<1>5. Meaning(op, q).expected_revision = Number(q.expected_revision.decimal)
  BY <1>1 DEF Meaning
<1> QED
  BY <1>3, <1>4, <1>5 DEF Parsed, Number, IsText

(***************************************************************************)
(* The key of a request keeps its place in what the storage is asked.      *)
(***************************************************************************)
LEMMA MeaningKeepsKey ==
    ASSUME NEW op \in Mutations, NEW q
    PROVE  Meaning(op, q).idempotency_key = q.idempotency_key
<1>1. "idempotency_key" \in Fields(op)
  BY DEF Fields, RequiredStrings, Mutations, ScopeMutations, ScopeFields
<1> QED
  BY <1>1 DEF Meaning

-----------------------------------------------------------------------------
(***************************************************************************)
(* A field that conforms is a string, unless it is the limit or null.      *)
(***************************************************************************)
LEMMA ConformingTypes ==
    ASSUME NEW op \in Operations, NEW f \in Fields(op), NEW v,
           FieldConforms(op, f, v)
    PROVE  /\ f \in Limits(op) => v.json = "integer"
           /\ f \in RequiredStrings(op) => v.json = "string"
           /\ f \in Optional(op) =>
                v = Null \/ (v.json = "string" /\ (f = "status" => IsStatus(v)))
<1>1. /\ f \in Limits(op) => f = "limit"
      /\ f \in RequiredStrings(op) => f \notin {"limit", "status", "subject"}
      /\ f \in Optional(op) => f # "limit"
  BY DEF Limits, RequiredStrings, Optional, Operations, Mutations,
     ScopeMutations, ScopeFields, Listings
<1>2. CASE f = "limit"
  BY <1>1, <1>2 DEF FieldConforms
<1>3. CASE f = "status"
  BY <1>1, <1>3 DEF FieldConforms
<1>4. CASE f \in {"expected_revision", "after", "subject"}
  BY <1>1, <1>4 DEF FieldConforms
<1>5. CASE f \notin {"limit", "status", "expected_revision", "after", "subject"}
  BY <1>1, <1>5 DEF FieldConforms
<1> QED
  BY <1>2, <1>3, <1>4, <1>5

(***************************************************************************)
(* A call that conforms to its schema is decoded.                          *)
(***************************************************************************)
LEMMA ConformingDecodes ==
    ASSUME NEW op \in Operations, NEW a, Conforms(op, a)
    PROVE  Decodes(op, a)
<1>1. \A f \in DOMAIN a : f \in Fields(op) /\ FieldConforms(op, f, a[f])
  BY DEF Conforms
<1>2. \A f \in RequiredStrings(op) \cup Limits(op) : f \in DOMAIN a
  BY DEF Conforms
<1> QED
  BY <1>1, <1>2, ConformingTypes DEF Decodes

(***************************************************************************)
(* The bounds of a text field: as many characters as its schema allows are *)
(* no more bytes than its handler allows, if each takes one and the schema *)
(* bounds them at all.                                                     *)
(***************************************************************************)
LEMMA BoundsAgree ==
    ASSUME NEW op \in Operations, NEW f \in Strings(op), NEW v, IsText(v),
           f \notin {"status", "expected_revision", "after"},
           FieldConforms(op, f, v), v # Null, ~StricterThanSchema(op, f, v)
    PROVE  v.bytes <= MaxBytes(f)
<1>1. f \in {"organization_id", "hold_id", "scope_id", "subject", "cursor",
             "scope_kind", "title", "legal_authority", "reason",
             "idempotency_key"}
  BY DEF Strings, RequiredStrings, Optional, Operations, Mutations,
     ScopeMutations, ScopeFields, Listings
<1>2. v.bytes \in Nat /\ v.chars \in Nat
  BY DEF IsText, Null
<1>3. MaxBytes(f) \in Int
  BY <1>1 DEF MaxBytes, MaxIdBytes, MaxShortTextBytes, MaxReasonBytes,
     MaxIdempotencyBytes, MaxScopeKindBytes
<1> SUFFICES ASSUME v.bytes > MaxBytes(f) PROVE FALSE
  BY <1>2, <1>3
<1>4. v.bytes <= v.chars /\ MaxLength(op, f) # Unbounded
  BY <1>1, <1>2 DEF StricterThanSchema
<1>5. v.chars <= MaxLength(op, f)
  <2>1. CASE f = "subject"
    BY <1>2, <2>1 DEF FieldConforms
  <2>2. CASE f # "subject"
    <3>1. v.chars \in MinLength(op, f)..MaxLength(op, f)
      BY <1>1, <1>4, <2>2 DEF FieldConforms
    <3>2. MinLength(op, f) \in Int /\ MaxLength(op, f) \in Int
      BY <1>1, <1>4 DEF MinLength, MaxLength
    <3> QED
      BY <1>2, <3>1, <3>2
  <2> QED
    BY <2>1, <2>2
<1>6. MaxLength(op, f) \in Int /\ MaxLength(op, f) <= MaxBytes(f)
  BY <1>1, <1>4 DEF MaxLength, MaxBytes, MaxIdBytes, MaxShortTextBytes,
     MaxReasonBytes, MaxIdempotencyBytes, MaxScopeKindBytes
<1> QED
  BY <1>2, <1>3, <1>4, <1>5, <1>6

(***************************************************************************)
(* A field that conforms passes its handler's check, unless the handler is *)
(* known to ask more than the schema.                                      *)
(***************************************************************************)
LEMMA ConformingFieldsPass ==
    ASSUME NEW op \in Operations, NEW f \in Fields(op), NEW v,
           f = "limit" => v.value \in Int,
           f # "limit" => IsText(v),
           v # Null, FieldConforms(op, f, v), ~StricterThanSchema(op, f, v)
    PROVE  ValidField(f, v)
<1>1. CASE f = "status"
  BY <1>1 DEF ValidField
<1>2. CASE f = "limit"
  <2>1. v.value \in Int /\ 1 <= v.value /\ v.value <= MaxPageSize
    BY <1>2 DEF FieldConforms, StricterThanSchema, MaxLimit, MaxPageSize
  <2> QED
    BY <1>2, <2>1 DEF ValidField, MaxPageSize
<1>3. CASE f = "expected_revision"
  <2>1. v.canonical /\ v.digits /\ v.decimal # None
    BY <1>3 DEF FieldConforms, StricterThanSchema, IsText
  <2> QED
    BY <1>3, <2>1 DEF ValidField, Parsed, IsText
<1>4. CASE f = "after"
  <2>1. v.digits /\ v.decimal # None /\ v.decimal \in Int /\ v.decimal >= 0
    BY <1>4 DEF FieldConforms, StricterThanSchema, IsText
  <2> QED
    BY <1>4, <2>1 DEF ValidField, Parsed
<1>5. CASE f \notin {"status", "limit", "expected_revision", "after"}
  <2>1. f \in Strings(op)
    BY <1>5 DEF Fields, Limits, Strings
  <2>2. v.bytes <= MaxBytes(f)
    BY <1>5, <2>1, BoundsAgree
  <2>3. ~v.blank /\ ~v.control
    BY <1>5 DEF StricterThanSchema, IsText
  <2> QED
    BY <1>5, <2>2, <2>3 DEF ValidField, ValidText
<1> QED
  BY <1>1, <1>2, <1>3, <1>4, <1>5

(***************************************************************************)
(* A call that conforms is accepted, unless one of its fields is known to  *)
(* be asked more of than its schema says.                                  *)
(***************************************************************************)
LEMMA ConformingPasses ==
    ASSUME NEW op \in Operations, NEW a, Arguments(a), Conforms(op, a),
           \A f \in DOMAIN a : ~StricterThanSchema(op, f, a[f])
    PROVE  Accepts(op, a)
<1> DEFINE q == Decoded(op, a)
<1>1. Decodes(op, a)
  BY ConformingDecodes
<1>2. ASSUME NEW f \in Fields(op), q[f] # None
      PROVE  ValidField(f, q[f])
  <2>1. /\ f \in DOMAIN a /\ q[f] = a[f] /\ a[f] # Null
        /\ f = "limit" => a[f].value \in Int
        /\ f # "limit" => IsText(a[f])
    BY <1>1, <1>2, DecodedFields
  <2>2. FieldConforms(op, f, a[f])
    BY <2>1 DEF Conforms
  <2> QED
    BY <2>1, <2>2, ConformingFieldsPass
<1> QED
  BY <1>1, <1>2 DEF Accepts, Valid

-----------------------------------------------------------------------------
(***************************************************************************)
(* The inductive invariant.  The verdict is that of the six checks; a      *)
(* receipt has the hash and the meaning of one request, under a key of its *)
(* own; and what the last call was told is true of its arguments.          *)
(***************************************************************************)
VerdictKept ==
    /\ document \in Documents /\ verdict \in Verdicts \cup {None}
    /\ verdict = "InvalidDocument" => ~Deserializes(document)
    /\ verdict \notin {None, "InvalidDocument"} =>
         /\ Deserializes(document)
         /\ verdict = "Ok" <=> AllChecks(document)

OfOneRequest(r) ==
    /\ r.op \in Mutations /\ r.key = r.meaning.idempotency_key
    /\ IF r.op \in ScopeMutations THEN r.hash = r.meaning
       ELSE r.meaning = Meaning(r.op, r.hash)
    /\ "expected_revision" \in DOMAIN r.meaning =>
         r.meaning.expected_revision.value > 0

ReceiptsKept ==
    /\ \A r \in receipts : OfOneRequest(r)
    /\ \A r, s \in receipts : r.op = s.op /\ r.key = s.key => r = s

CallKept ==
    IF call = None THEN told = None
    ELSE /\ call \in Calls /\ verdict = "Ok" /\ told \in Outcomes
         /\ told = "InvalidArguments" => ~Decodes(Op, Args)
         /\ told = "InvalidRequest" => ~Accepts(Op, Args)
         /\ Accepted => Accepts(Op, Args)
         /\ told \in {"Replayed", "IdempotencyConflict"} =>
              /\ Op \in Mutations
              /\ \A r \in ReceiptFor(Op, Request) :
                   told = "Replayed" <=> r.hash = Hash(Op, Request)

InputsInv == VerdictKept /\ ReceiptsKept /\ CallKept

(***************************************************************************)
(* What a call may be.                                                     *)
(***************************************************************************)
LEMMA CallTypes ==
    ASSUME NEW c \in Calls
    PROVE  c = <<c[1], c[2]>> /\ c[1] \in Operations /\ Arguments(c[2]) /\ c # None
  BY ArgumentsAssumption DEF Arguments

(***************************************************************************)
(* The invariant holds at the start.                                       *)
(***************************************************************************)
LEMMA InitInputs == Init => InputsInv
<1> SUFFICES ASSUME Init PROVE InputsInv
  OBVIOUS
<1>1. document \in Documents /\ verdict = None /\ None \notin Verdicts
  BY ConfigAssumption DEF Init, ConfigInit
<1>2. VerdictKept
  BY <1>1 DEF VerdictKept, Verdicts
<1>3. ReceiptsKept /\ CallKept
  BY DEF Init, ArgumentsInit, ReceiptsKept, CallKept
<1> QED
  BY <1>2, <1>3 DEF InputsInv

(***************************************************************************)
(* Resolving the plan finds the first check that fails, if there is one.   *)
(***************************************************************************)
LEMMA ResolveInputs ==
    ASSUME InputsInv, Resolve, UNCHANGED argumentVars
    PROVE  InputsInv'
<1>1. document' = document /\ document \in Documents /\ verdict = None
  BY DEF Resolve, InputsInv, VerdictKept
<1>2. call = None
  BY <1>1, ConfigAssumption DEF InputsInv, CallKept, Verdicts
<1>3. VerdictKept'
  <2>1. CASE ~Deserializes(document) /\ verdict' = "InvalidDocument"
    BY <1>1, <2>1 DEF VerdictKept, Verdicts
  <2>2. CASE /\ Deserializes(document) /\ verdict' = "Ok"
             /\ \A i \in DOMAIN Checks(document) : Checks(document)[i].holds
    <3>1. AllChecks(document)
      BY <2>2, SixChecks, ChecksTogether
    <3> QED
      BY <1>1, <2>2, <3>1 DEF VerdictKept, Verdicts
  <2>3. ASSUME Deserializes(document), NEW i \in DOMAIN Checks(document),
               ~Checks(document)[i].holds, verdict' = Checks(document)[i].error
        PROVE  VerdictKept'
    <3>1. ~AllChecks(document)
      BY <2>3, SixChecks, ChecksTogether
    <3>2. verdict' \in Verdicts /\ verdict' \notin {"Ok", "InvalidDocument"}
      BY <2>3, SixChecks
    <3>3. document' = document
      BY <1>1
    <3> QED
      BY <1>1, <2>3, <3>1, <3>2, <3>3, ConfigAssumption DEF VerdictKept
  <2> QED
    BY <2>1, <2>2, <2>3 DEF Resolve
<1>4. ReceiptsKept' /\ CallKept'
  BY <1>2 DEF InputsInv, ReceiptsKept, CallKept, argumentVars, OfOneRequest
<1> QED
  BY <1>3, <1>4 DEF InputsInv

(***************************************************************************)
(* A receipt that is written is the only one under its key.                *)
(***************************************************************************)
LEMMA ReceiptWritten ==
    ASSUME ReceiptsKept, NEW op \in Operations, NEW a, Arguments(a),
           TakeEffect(op, a)
    PROVE  ReceiptsKept'
<1> DEFINE q == Decoded(op, a)
           new == [op |-> op, key |-> q.idempotency_key, hash |-> Hash(op, q),
                   meaning |-> Meaning(op, q)]
<1>1. /\ op \in Mutations /\ Accepts(op, a)
      /\ ReceiptFor(op, q) = {} /\ receipts' = receipts \cup {new}
  BY DEF TakeEffect
<1>2. OfOneRequest(new)
  <2>1. new.key = new.meaning.idempotency_key
    BY <1>1, MeaningKeepsKey
  <2>2. "expected_revision" \in DOMAIN new.meaning =>
          new.meaning.expected_revision.value > 0
    BY <1>1, RevisionPositive
  <2> QED
    BY <1>1, <2>1, <2>2 DEF OfOneRequest, Hash
<1>3. \A r \in receipts : ~(r.op = new.op /\ r.key = new.key)
  BY <1>1 DEF ReceiptFor
<1> HIDE DEF new
<1> QED
  BY <1>1, <1>2, <1>3 DEF ReceiptsKept

(***************************************************************************)
(* A call is told what is so.                                              *)
(***************************************************************************)
LEMMA ExecuteInputs ==
    ASSUME InputsInv, verdict = "Ok", NEW c \in Calls, Execute(c[1], c[2]),
           UNCHANGED configVars
    PROVE  InputsInv'
<1> DEFINE op == c[1]
           a == c[2]
           q == Decoded(op, a)
<1>1. op \in Operations /\ Arguments(a) /\ call' = c /\ c # None
  BY CallTypes DEF Execute
<1>2. VerdictKept' /\ verdict' = "Ok"
  BY DEF InputsInv, VerdictKept, configVars
<1>3. Op' = op /\ Args' = a /\ Request' = q
  BY <1>1 DEF Op, Args, Request
<1>4. ReceiptsKept'
  <2>1. CASE receipts' = receipts
    BY <2>1 DEF InputsInv, ReceiptsKept, OfOneRequest
  <2>2. CASE TakeEffect(op, a)
    BY <1>1, <2>2, ReceiptWritten DEF InputsInv
  <2> QED
    BY <2>1, <2>2 DEF Execute, Reject, Answer, Replay
<1>5. CallKept'
  <2>1. SUFFICES
          /\ told' \in Outcomes
          /\ told' = "InvalidArguments" => ~Decodes(op, a)
          /\ told' = "InvalidRequest" => ~Accepts(op, a)
          /\ told' \in {"Accepted", "Replayed", "IdempotencyConflict"} => Accepts(op, a)
          /\ told' \in {"Replayed", "IdempotencyConflict"} =>
               /\ op \in Mutations
               /\ \A r \in ReceiptFor(op, q)' :
                    told' = "Replayed" <=> r.hash = Hash(op, q)
    BY <1>1, <1>2, <1>3 DEF CallKept, Accepted, ReceiptFor
  <2>2. CASE Reject(op, a)
    BY <2>2 DEF Reject, Outcomes
  <2>3. CASE Answer(op, a)
    BY <2>3 DEF Answer, Outcomes
  <2>4. CASE Replay(op, a)
    <3>1. /\ op \in Mutations /\ Accepts(op, a) /\ receipts' = receipts
      BY <2>4 DEF Replay
    <3>2. PICK r \in ReceiptFor(op, q) :
            told' = IF r.hash = Hash(op, q) THEN "Replayed" ELSE "IdempotencyConflict"
      BY <2>4 DEF Replay
    <3>3. \A s \in ReceiptFor(op, q) : s = r
      BY <3>2 DEF ReceiptFor, InputsInv, ReceiptsKept
    <3>4. ReceiptFor(op, q)' = ReceiptFor(op, q)
      BY <3>1 DEF ReceiptFor
    <3> QED
      BY <3>1, <3>2, <3>3, <3>4 DEF Outcomes
  <2>5. CASE TakeEffect(op, a)
    BY <2>5 DEF TakeEffect, Outcomes
  <2> QED
    BY <2>2, <2>3, <2>4, <2>5 DEF Execute
<1> QED
  BY <1>2, <1>4, <1>5 DEF InputsInv

(***************************************************************************)
(* Every step keeps the invariant.                                         *)
(***************************************************************************)
LEMMA StepInputs == InputsInv /\ [Next]_vars => InputsInv'
<1> SUFFICES ASSUME InputsInv, [Next]_vars PROVE InputsInv'
  OBVIOUS
<1>1. CASE Resolve /\ UNCHANGED argumentVars
  BY <1>1, ResolveInputs
<1>2. CASE /\ verdict = "Ok" /\ document \in Served
           /\ \E c \in Calls : Execute(c[1], c[2])
           /\ UNCHANGED configVars
  BY <1>2, ExecuteInputs
<1>3. CASE UNCHANGED vars
  BY <1>3 DEF vars, configVars, argumentVars, InputsInv, VerdictKept,
     ReceiptsKept, CallKept, OfOneRequest, Op, Args, Request, Accepted, ReceiptFor
<1> QED
  BY <1>1, <1>2, <1>3 DEF Next

(***************************************************************************)
(* The inductive invariant holds in every state.                           *)
(***************************************************************************)
THEOREM Invariant == Spec => []InputsInv
<1>1. Init => InputsInv
  BY InitInputs
<1>2. InputsInv /\ [Next]_vars => InputsInv'
  BY StepInputs
<1> QED
  BY <1>1, <1>2, PTL DEF Spec

-----------------------------------------------------------------------------
(***************************************************************************)
(* Every variable keeps its type, receipts have a key each and calls only  *)
(* ever meet a configuration that was accepted.                            *)
(***************************************************************************)
THEOREM TypeCorrect == Spec => []InputsTypeOK
<1>1. InputsInv => InputsTypeOK
  <2> SUFFICES ASSUME InputsInv PROVE InputsTypeOK
    OBVIOUS
  <2>1. ConfigTypeOK
    BY DEF InputsInv, VerdictKept, ConfigTypeOK, Deserializes
  <2>2. call \in Calls \cup {None} /\ told \in Outcomes \cup {None}
        /\ (call # None => verdict = "Ok")
    BY DEF InputsInv, CallKept
  <2>3. ASSUME NEW r \in receipts PROVE ReceiptFor(r.op, r.meaning) = {r}
    BY <2>3 DEF InputsInv, ReceiptsKept, OfOneRequest, ReceiptFor
  <2>4. \A r \in receipts : "expected_revision" \in DOMAIN r.meaning =>
                               r.meaning.expected_revision.value > 0
    BY DEF InputsInv, ReceiptsKept, OfOneRequest
  <2> QED
    BY <2>1, <2>2, <2>3, <2>4 DEF InputsTypeOK, ArgumentsTypeOK
<1> QED
  BY <1>1, Invariant, PTL

(***************************************************************************)
(* No configuration is taken that the published schema rejects, and none   *)
(* that it allows is refused but for what a schema cannot say, for lists   *)
(* of callers and texts of any length.                                     *)
(***************************************************************************)
THEOREM ConfigurationsConform == Spec => []ValidationAgreesWithSchema
<1>1. InputsInv => ValidationAgreesWithSchema
  <2> SUFFICES ASSUME InputsInv PROVE ValidationAgreesWithSchema
    OBVIOUS
  <2>1. document \in Documents
    BY DEF InputsInv, VerdictKept
  <2>2. ASSUME verdict = "Ok" PROVE DocumentConforms(document)
    <3>1. Deserializes(document) /\ AllChecks(document)
      BY <2>2, ConfigAssumption DEF InputsInv, VerdictKept, Verdicts
    <3> QED
      BY <2>1, <3>1, ConfigurationsAgree
  <2>3. ASSUME verdict # None, DocumentConforms(document), PlainDocument(document)
        PROVE  verdict = "Ok"
    <3>1. Deserializes(document)
      BY <2>3 DEF DocumentConforms, Deserializes
    <3>2. AllChecks(document)
      BY <2>1, <2>3, <3>1, ConfigurationsAgree
    <3> QED
      BY <2>3, <3>1, <3>2 DEF InputsInv, VerdictKept
  <2> QED
    BY <2>2, <2>3 DEF ValidationAgreesWithSchema
<1> QED
  BY <1>1, Invariant, PTL

(***************************************************************************)
(* A replay answers the request its receipt was written for, and a scope   *)
(* mutation is recognised however it is written.                           *)
(***************************************************************************)
THEOREM ReplaysRecognised == Spec => []ReplayRecognisesRequest
<1>1. InputsInv => ReplayRecognisesRequest
  <2> SUFFICES ASSUME InputsInv, told \in {"Replayed", "IdempotencyConflict"},
                      NEW r \in ReceiptFor(Op, Request)
               PROVE  /\ told = "Replayed" => r.meaning = Meaning(Op, Request)
                      /\ told = "IdempotencyConflict" /\ Op \in ScopeMutations =>
                           r.meaning # Meaning(Op, Request)
    BY DEF ReplayRecognisesRequest
  <2>1. call # None
    BY ArgumentsAssumption DEF InputsInv, CallKept, Outcomes
  <2>2. told = "Replayed" <=> r.hash = Hash(Op, Request)
    BY <2>1 DEF InputsInv, CallKept
  <2>3. r.op = Op /\ OfOneRequest(r)
    BY DEF ReceiptFor, InputsInv, ReceiptsKept
  <2>4. CASE Op \in ScopeMutations
    BY <2>2, <2>3, <2>4 DEF Hash, OfOneRequest
  <2>5. CASE Op \notin ScopeMutations
    BY <2>2, <2>3, <2>5 DEF Hash, OfOneRequest
  <2> QED
    BY <2>4, <2>5
<1> QED
  BY <1>1, Invariant, PTL

(***************************************************************************)
(* A call that conforms to its published schema is decoded, and refused as *)
(* invalid only for a blank text, one with control characters, one of more *)
(* bytes than its handler allows whose characters are of several bytes or  *)
(* of a number the schema leaves open, a numeral beyond an i64, or a page  *)
(* of the activity above MaxPageSize.                                      *)
(***************************************************************************)
THEOREM RefusalsHaveReasons == Spec => []RefusalsExplained
<1>1. InputsInv => RefusalsExplained
  <2> SUFFICES ASSUME InputsInv, call # None, Conforms(Op, Args)
               PROVE  /\ told # "InvalidArguments"
                      /\ told = "InvalidRequest" =>
                           \E f \in DOMAIN Args : StricterThanSchema(Op, f, Args[f])
    BY DEF RefusalsExplained
  <2>1. call \in Calls /\ Op \in Operations /\ Arguments(Args)
    BY CallTypes DEF InputsInv, CallKept, Op, Args
  <2>2. told # "InvalidArguments"
    BY <2>1, ConformingDecodes DEF InputsInv, CallKept
  <2>3. ASSUME \A f \in DOMAIN Args : ~StricterThanSchema(Op, f, Args[f])
        PROVE  told # "InvalidRequest"
    BY <2>1, <2>3, ConformingPasses DEF InputsInv, CallKept
  <2> QED
    BY <2>2, <2>3
<1> QED
  BY <1>1, Invariant, PTL

(***************************************************************************)
(* A text that was accepted is no longer than its field allows.            *)
(***************************************************************************)
LEMMA AcceptedText ==
    ASSUME NEW op \in Operations, NEW a, Arguments(a), Accepts(op, a),
           NEW f \in Fields(op), Decoded(op, a)[f] # None,
           f \notin {"status", "limit", "expected_revision", "after"}
    PROVE  Decoded(op, a)[f].bytes \in Int /\ Decoded(op, a)[f].bytes <= MaxBytes(f)
<1>1. IsText(Decoded(op, a)[f])
  BY DecodedFields DEF Accepts
<1>2. ValidField(f, Decoded(op, a)[f])
  BY DEF Accepts, Valid
<1> QED
  BY <1>1, <1>2 DEF ValidField, ValidText, IsText

(***************************************************************************)
(* A required field of a call that was accepted is there.                  *)
(***************************************************************************)
LEMMA RequiredIsThere ==
    ASSUME NEW op \in Operations, NEW a, Arguments(a), Accepts(op, a),
           NEW f \in RequiredStrings(op)
    PROVE  Decoded(op, a)[f] # None
<1>1. f \in Fields(op)
  BY DEF Fields
<1>2. f \in DOMAIN a /\ a[f] # Null
  BY <1>1, DecodedFields DEF Accepts
<1> QED
  BY <1>1, <1>2 DEF Decoded, Arguments

(***************************************************************************)
(* What is accepted fits the index entries of the database.                *)
(***************************************************************************)
THEOREM EntriesFit == Spec => []IndexEntriesFit
<1>1. InputsInv => IndexEntriesFit
  <2> SUFFICES ASSUME InputsInv, Accepted, Op \in Mutations
               PROVE  /\ \A i \in DOMAIN document.admin_callers :
                           document.admin_callers[i].bytes + MaxIdBytes + 12
                             + Request.idempotency_key.bytes <= BTreeEntryBytes
                      /\ Op \in ScopeMutations =>
                           Request.hold_id.bytes + Request.scope_kind.bytes
                             + Request.scope_id.bytes
                             + (IF Request.subject = None THEN 0
                                ELSE Request.subject.bytes) <= BTreeEntryBytes
    BY DEF IndexEntriesFit
  <2>1. call # None
    BY ArgumentsAssumption DEF InputsInv, CallKept, Outcomes, Accepted
  <2>2. /\ Op \in Operations /\ Arguments(Args) /\ Accepts(Op, Args)
        /\ verdict = "Ok"
    BY <2>1, CallTypes DEF InputsInv, CallKept, Op, Args
  <2>3. ASSUME NEW f \in Strings(Op), Request[f] # None,
               f \notin {"status", "limit", "expected_revision", "after"}
        PROVE  Request[f].bytes \in Int /\ Request[f].bytes <= MaxBytes(f)
    BY <2>2, <2>3, AcceptedText DEF Request, Strings, Fields
  <2>4. ASSUME NEW f \in RequiredStrings(Op) PROVE Request[f] # None
    BY <2>2, <2>4, RequiredIsThere DEF Request
  <2>5. "idempotency_key" \in RequiredStrings(Op)
    BY DEF RequiredStrings, Mutations, ScopeMutations, ScopeFields
  <2>6. Request.idempotency_key.bytes \in Int
        /\ Request.idempotency_key.bytes <= MaxIdempotencyBytes
    BY <2>3, <2>4, <2>5 DEF Strings, MaxBytes
  <2>7. \A i \in DOMAIN document.admin_callers :
          /\ document.admin_callers[i].bytes \in Int
          /\ document.admin_callers[i].bytes <= MaxIdentifierBytes
    <3>1. IsList(document.admin_callers) /\ ValidateCallers(document.admin_callers)
      BY <2>2, ConfigAssumption DEF InputsInv, VerdictKept, Verdicts, Deserializes,
         AllChecks, ConfigFields, CallerFields
    <3>2. DOMAIN document.admin_callers = 1..Len(document.admin_callers)
      BY <3>1, DistinctCallers
    <3> QED
      BY <3>1, <3>2 DEF ValidateCallers, ValidIdentifier, ValidText, IsList, IsText
  <2>8. ASSUME Op \in ScopeMutations
        PROVE  Request.hold_id.bytes + Request.scope_kind.bytes
                 + Request.scope_id.bytes
                 + (IF Request.subject = None THEN 0
                    ELSE Request.subject.bytes) <= BTreeEntryBytes
    <3>1. /\ {"hold_id", "scope_kind", "scope_id"} \subseteq RequiredStrings(Op)
          /\ "subject" \in Strings(Op)
      BY <2>8 DEF RequiredStrings, Optional, Strings, ScopeMutations, ScopeFields
    <3>2. /\ Request.hold_id.bytes \in Int /\ Request.hold_id.bytes <= MaxIdBytes
          /\ Request.scope_kind.bytes \in Int
          /\ Request.scope_kind.bytes <= MaxScopeKindBytes
          /\ Request.scope_id.bytes \in Int /\ Request.scope_id.bytes <= MaxIdBytes
      BY <2>3, <2>4, <3>1 DEF Strings, MaxBytes
    <3>3. Request.subject # None =>
            Request.subject.bytes \in Int /\ Request.subject.bytes <= MaxIdBytes
      BY <2>3, <3>1 DEF MaxBytes
    <3> QED
      BY <3>2, <3>3 DEF MaxIdBytes, MaxScopeKindBytes, BTreeEntryBytes
  <2> QED
    BY <2>6, <2>7, <2>8 DEF MaxIdBytes, MaxIdempotencyBytes, MaxIdentifierBytes,
       BTreeEntryBytes
<1> QED
  BY <1>1, Invariant, PTL
=============================================================================
