------------------------- MODULE MCLegalHoldPlugin -------------------------
(***************************************************************************)
(* LegalHoldPlugin for TLC.                                                *)
(***************************************************************************)
EXTENDS LegalHoldPlugin

CONSTANTS h1, o1, t1, s1, admin, service, a1, a2, k1, x1, p1, p2

All == [target |-> t1, subject |-> None]

Mutation(op, caller, actor, scope, expected) ==
    [op |-> op, caller |-> caller, actor |-> actor, key |-> k1,
     organization |-> o1, hold |-> h1, scope |-> scope,
     expected |-> expected, text |-> None]

Ask(op, caller) ==
    [op |-> op, caller |-> caller, actor |-> a1, organization |-> o1]

Good(asks) == [asks |-> asks, authentic |-> TRUE, valid |-> TRUE]

Membership == {<<o1, a1>>}
EveryGrant == {<<o1, a1, g>> : g \in Permissions}

(***************************************************************************)
(* One call at a time: every operation, from a listed and from an unlisted *)
(* caller, with and without an assertion and valid fields, while           *)
(* memberships and grants change.                                          *)
(***************************************************************************)
Creation == Mutation("create_hold", admin, a1, None, 0)
Addition == Mutation("add_scope", admin, a1, All, 1)
Release  == Mutation("release_hold", admin, a1, None, 1)

EveryMutation == {Creation, Addition, Release}

EveryInvocation ==
    {Good(asks) : asks \in EveryMutation}
      \cup {Good(Ask(op, c)) : op \in {"get_hold", "check_retention"},
                               c \in {admin, service}}
      \cup {[asks |-> Creation, authentic |-> FALSE, valid |-> TRUE],
            [asks |-> Release, authentic |-> TRUE, valid |-> FALSE],
            [asks |-> Ask("check_retention", service), authentic |-> FALSE,
             valid |-> FALSE]}

AllRevocable == Membership \cup EveryGrant

(***************************************************************************)
(* Two calls on a pool of one connection, through two activations: two     *)
(* actors create the same hold, so that one of them is refused.            *)
(***************************************************************************)
Rivals == {Creation, Mutation("create_hold", admin, a2, None, 0)}

RivalInvocations == {Good(asks) : asks \in Rivals}

TwoMembers == {<<o1, a1>>, <<o1, a2>>}
WriteGrants == {<<o1, a, "legal-hold.write">> : a \in {a1, a2}}
=============================================================================
