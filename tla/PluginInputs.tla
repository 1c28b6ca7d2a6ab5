---------------------------- MODULE PluginInputs ----------------------------
(***************************************************************************)
(* Everything a plugin instance is told from outside: its configuration,   *)
(* and then, if that was accepted, the arguments of its calls.  The caller *)
(* of a mutation, whom its receipt names, is one the configuration lists.  *)
(***************************************************************************)
EXTENDS HoldConfig, HoldArguments

CONSTANT Served     \* bound: the documents whose instances get calls

vars == <<configVars, argumentVars>>

Init == ConfigInit /\ ArgumentsInit

Next ==
    \/ Resolve /\ UNCHANGED argumentVars
    \/ /\ verdict = "Ok" /\ document \in Served
       /\ \E c \in Calls : Execute(c[1], c[2])
       /\ UNCHANGED configVars

Spec == Init /\ [][Next]_vars
-----------------------------------------------------------------------------
(***************************************************************************)
(* A configuration that passed its decoding has all of its fields and no   *)
(* other, and calls only ever meet one that was accepted.                  *)
(***************************************************************************)
InputsTypeOK ==
    ConfigTypeOK /\ ArgumentsTypeOK /\ (call # None => verdict = "Ok")

(***************************************************************************)
(* What is accepted can be stored: the widest index entries, of a receipt  *)
(* and of a scope, stay below the 2704 bytes a PostgreSQL B-tree allows,   *)
(* whichever accepted caller and valid actor made the call.                *)
(***************************************************************************)
BTreeEntryBytes == 2704

IndexEntriesFit ==
    (Accepted /\ Op \in Mutations) =>
        /\ \A i \in DOMAIN document.admin_callers :
             document.admin_callers[i].bytes + MaxIdBytes + 12
               + Request.idempotency_key.bytes <= BTreeEntryBytes
        /\ Op \in ScopeMutations =>
             Request.hold_id.bytes + Request.scope_kind.bytes
               + Request.scope_id.bytes
               + (IF Request.subject = None THEN 0 ELSE Request.subject.bytes)
                 <= BTreeEntryBytes
=============================================================================
