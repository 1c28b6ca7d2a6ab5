------------------------------ MODULE HoldWire ------------------------------
(***************************************************************************)
(* What the generated contract does to an outcome on its way from the      *)
(* handler of a provider to the client of a consumer (generated.rs).       *)
(*                                                                         *)
(* All seven operations have an error type of their own and all seven are  *)
(* alike.  A type has a variant for each code its version of the contract  *)
(* knows; a code of a later version becomes Unknown.                       *)
(***************************************************************************)
EXTENDS LegalHold

CONSTANTS
    LaterCodes,     \* codes of later versions of the contract
    Payloads        \* JSON values an error object may carry

Known == {"forbidden", "hold_released", "idempotency_conflict",
          "invalid_request", "not_found", "revision_conflict",
          "scope_conflict", "unauthenticated"}

Codes == Known \cup LaterCodes

ASSUME WireAssumption == None \notin Codes /\ LaterCodes \cap Known = {}

Variant(code) ==
    [known |-> TRUE, code |-> code, payload |-> None, extra |-> None]
Unknown(code, payload, extra) ==
    [known |-> FALSE, code |-> code, payload |-> payload, extra |-> extra]

DomainError ==
    {Variant(c) : c \in Known}
      \cup {Unknown(c, p, x) : c \in Codes, p \in Payloads \cup {None},
                               x \in Payloads \cup {None}}

(***************************************************************************)
(* A JSON value: the text of a string, or the members of an object.  An    *)
(* object without a string "code" has None there.                          *)
(***************************************************************************)
Json(kind, code, payload, extra) ==
    [json |-> kind, code |-> code, payload |-> payload, extra |-> extra]

CodeAsString(code) == Json("string", code, None, None)

Encode(e) ==
    IF e.known THEN CodeAsString(e.code)
    ELSE Json("object", e.code, e.payload, e.extra)

DecodeUnknownAsInvalid(w) ==
    CASE w.json = "string" -> Variant(IF w.code \in Known THEN w.code
                                      ELSE "invalid_request")
      [] w.json = "object" /\ w.code # None ->
            Unknown(w.code, w.payload, w.extra)
      [] OTHER -> None

Decode(w) ==
    CASE w.json = "string" /\ w.code \in Known -> Variant(w.code)
      [] w.json = "string" /\ w.code \notin Known -> Unknown(w.code, None, None)
      [] w.json = "object" /\ w.code # None ->
            Unknown(w.code, w.payload, w.extra)
      [] OTHER -> None
-----------------------------------------------------------------------------
(***************************************************************************)
(* What a handler returns, what the kernel carries and what the client     *)
(* returns.  The kernel's result is a result of a result: only a runtime   *)
(* failure is an error of the outer one.                                   *)
(***************************************************************************)
PluginOk(view) == [is |-> "Ok", of |-> view]
PluginDomain(error) == [is |-> "Domain", of |-> error]
PluginRuntime(failure) == [is |-> "Runtime", failure |-> failure]

OuterOk(inner) == [outer |-> "Ok", of |-> inner]
OuterErr(failure) == [outer |-> "Err", failure |-> failure]

IntoResult(r) ==
    IF r.is = "Runtime" THEN OuterErr(r.failure) ELSE OuterOk(r)

ClientResult(r) == IF r.outer = "Err" THEN PluginRuntime(r.failure) ELSE r.of
=============================================================================
