---------------------------- MODULE MCAgentTools ----------------------------
(***************************************************************************)
(* AgentTools for TLC, on one hold: an agent that executes tools of every  *)
(* kind, an unknown name and arguments that do not decode, beside another  *)
(* that adds the scope or releases the hold.                               *)
(***************************************************************************)
EXTENDS AgentTools

CONSTANTS h1, o1, t1, c1, a1, k1, x1, p1, p2

All == [target |-> t1, subject |-> None]

Asks(op, scope, expected) ==
    [op |-> op, caller |-> c1, actor |-> a1, key |-> k1,
     organization |-> o1, hold |-> h1, scope |-> scope,
     expected |-> expected, text |-> None]

Creation == Asks("create_hold", None, 0)
Addition == Asks("add_scope", All, 1)
Removal(n) == Asks("remove_scope", All, n)
Release == Asks("release_hold", None, 2)
Question == [op |-> "get_hold", hold |-> h1]

AllMutations == {Creation, Addition, Removal(1), Removal(2), Release}

Run(name, asks) == [name |-> name, asks |-> asks, decodes |-> TRUE]

EveryExecution ==
    {Run("legal_hold_create", Creation), Run("legal_hold_add_scope", Addition),
     Run("legal_hold_remove_scope", Removal(1)),
     Run("legal_hold_remove_scope", Removal(2)), Run("legal_hold_release", Release),
     Run("legal_hold_list", Question), Run("retention_guard_check", Question),
     [name |-> "legal_hold_get", asks |-> Question, decodes |-> FALSE]}

TwoAgents ==
    [p \in Calls |-> IF p = p1 THEN EveryExecution
                     ELSE {Run("legal_hold_add_scope", Addition),
                           Run("legal_hold_release", Release)}]
=============================================================================
