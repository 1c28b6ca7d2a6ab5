------------------------------ MODULE HoldConfig ------------------------------
(***************************************************************************)
(* The configuration of a plugin instance: the document a resolved plan    *)
(* holds, its deserialisation and its validation, beside the JSON schema   *)
(* the plugin publishes of it (configuration.schema.json).                 *)
(*                                                                         *)
(* What the libraries accept as the name of a schema and as a public key   *)
(* is a constant each.                                                     *)
(***************************************************************************)
EXTENDS HoldText, FiniteSets, Sequences

CONSTANTS
    Documents,      \* field -> value; a caller list is a sequence
    SchemaNames,    \* strings SchemaPlan::new takes
    PublicKeys      \* strings ActorAssertionVerifier takes as a key

VARIABLES
    document,       \* of the plan that is being resolved
    verdict         \* None, "InvalidDocument", "Ok" or a LegalHoldConfigError

configVars == <<document, verdict>>

TextFields == {"schema", "database_url_secret", "auth_issuer",
               "auth_assertion_public_key"}
CallerFields == {"admin_callers", "guard_callers"}
ConfigFields == TextFields \cup CallerFields

Verdicts == {"InvalidDocument", "Ok", "InvalidSchema", "InvalidSecretReference",
             "InvalidAuthIssuer", "InvalidAuthPublicKey", "InvalidAdminCallers",
             "InvalidGuardCallers"}

(***************************************************************************)
(* A document has strings and lists of strings under these names; a schema *)
(* name is a PostgreSQL identifier, a public key a short encoded string.   *)
(***************************************************************************)
IsList(s) ==
    /\ s \in Seq({s[i] : i \in DOMAIN s})
    /\ \A i \in DOMAIN s : IsText(s[i])

ASSUME ConfigAssumption ==
    /\ None \notin Verdicts
    /\ \A d \in Documents :
         /\ \A f \in TextFields \cap DOMAIN d : IsText(d[f])
         /\ \A f \in CallerFields \cap DOMAIN d : IsList(d[f])
    /\ \A v \in SchemaNames : v.chars \in 1..63
    /\ \A v \in PublicKeys : v.chars \in 1..256

MaxCallers == 64
MaxIdentifierBytes == 256

ConfigInit == document \in Documents /\ verdict = None
-----------------------------------------------------------------------------
(***************************************************************************)
(* serde: every field is required, and any other is refused.               *)
(***************************************************************************)
Deserializes(d) == ConfigFields = DOMAIN d

(***************************************************************************)
(* validate_callers: callers are inserted into a set one after the other.  *)
(***************************************************************************)
DifferFromPrevious(callers) ==
    /\ Len(callers) \in 1..MaxCallers
    /\ \A i \in 1..Len(callers) :
         /\ ValidIdentifier(callers[i], MaxIdentifierBytes)
         /\ i > 1 => callers[i] # callers[i - 1]

ValidateCallers(callers) ==
    /\ Len(callers) \in 1..MaxCallers
    /\ \A i \in 1..Len(callers) :
         /\ ValidIdentifier(callers[i], MaxIdentifierBytes)
         /\ callers[i] \notin {callers[j] : j \in 1..(i - 1)}

(***************************************************************************)
(* validate: the checks in their order, with the error of each.            *)
(***************************************************************************)
Checks(d) ==
    << [holds |-> d.schema \in SchemaNames, error |-> "InvalidSchema"],
       [holds |-> ValidIdentifier(d.database_url_secret, MaxIdentifierBytes),
        error |-> "InvalidSecretReference"],
       [holds |-> ValidIdentifier(d.auth_issuer, MaxIdentifierBytes),
        error |-> "InvalidAuthIssuer"],
       [holds |-> d.auth_assertion_public_key \in PublicKeys,
        error |-> "InvalidAuthPublicKey"],
       [holds |-> ValidateCallers(d.admin_callers), error |-> "InvalidAdminCallers"],
       [holds |-> ValidateCallers(d.guard_callers), error |-> "InvalidGuardCallers"] >>

Resolve ==
    /\ verdict = None
    /\ \/ ~Deserializes(document) /\ verdict' = "InvalidDocument"
       \/ /\ Deserializes(document)
          /\ LET checks == Checks(document) IN
             \/ /\ \A i \in DOMAIN checks : checks[i].holds
                /\ verdict' = "Ok"
             \/ \E i \in DOMAIN checks :
                /\ ~checks[i].holds /\ \A j \in 1..(i - 1) : checks[j].holds
                /\ verdict' = checks[i].error
    /\ UNCHANGED document
-----------------------------------------------------------------------------
(***************************************************************************)
(* The schema.  Lengths are characters.                                    *)
(***************************************************************************)
MaxFieldLength(f) == IF f = "schema" THEN 63 ELSE 256

ItemConforms(v) == v.chars \in 1..256

DocumentConforms(d) ==
    /\ DOMAIN d = ConfigFields
    /\ \A f \in TextFields : d[f].chars \in 1..MaxFieldLength(f)
    /\ \A f \in CallerFields :
         /\ Len(d[f]) \in 1..64
         /\ \A i \in DOMAIN d[f] : ItemConforms(d[f][i])
         /\ Cardinality({d[f][i] : i \in DOMAIN d[f]}) = Len(d[f])
-----------------------------------------------------------------------------
(***************************************************************************)
(* A configuration that was accepted, or refused by validate, has all of   *)
(* its fields and no other.                                                *)
(***************************************************************************)
ConfigTypeOK ==
    /\ document \in Documents
    /\ verdict \in Verdicts \cup {None}
    /\ verdict \notin {None, "InvalidDocument"} => DOMAIN document = ConfigFields

(***************************************************************************)
(* The validation and the published schema agree.  The program takes no    *)
(* configuration its schema rejects: what a plan is checked against in     *)
(* advance is no stricter than the plugin, in names, in lengths of         *)
(* multi-byte strings and in callers that are listed twice anywhere in the *)
(* list.  And it refuses one within the schema only for what a schema      *)
(* cannot say: blank, control and white space characters, lengths in       *)
(* bytes, and what the libraries refuse (lib.rs:95-114, 836-847).          *)
(***************************************************************************)
PlainIdentifier(v) == ~v.blank /\ ~v.control /\ ~v.space /\ v.bytes = v.chars

PlainDocument(d) ==
    /\ d.schema \in SchemaNames /\ d.auth_assertion_public_key \in PublicKeys
    /\ \A f \in {"database_url_secret", "auth_issuer"} : PlainIdentifier(d[f])
    /\ \A f \in CallerFields : \A i \in DOMAIN d[f] : PlainIdentifier(d[f][i])

ValidationAgreesWithSchema ==
    /\ verdict = "Ok" => DocumentConforms(document)
    /\ (verdict # None /\ DocumentConforms(document) /\ PlainDocument(document))
         => verdict = "Ok"
=============================================================================
