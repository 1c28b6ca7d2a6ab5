----------------------------- MODULE HoldStore -----------------------------
(***************************************************************************)
(* The storage of hold mutations as everything around storage.rs meets it: *)
(* the ledger.  Whoever reads holds, guards retention, handles invocations *)
(* or calls the plugin does so beside its calls.                           *)
(***************************************************************************)
EXTENDS HoldTables

CONSTANTS
    Calls,        \* slots for concurrent invocations
    ActivityIds   \* the ids an activity row may get

ASSUME StoreAssumption == ActivityIds \subseteq Nat

VARIABLES
    open,      \* call -> whether it may still take effect
    request,   \* call -> the request it serves or served last
    answer     \* call -> what its caller was told, or None

Ledger == INSTANCE HoldLedger

ledgerVars == <<tables, open, request, answer>>
=============================================================================
