------------------------- MODULE MCRetentionGuard -------------------------
(***************************************************************************)
(* RetentionGuard for TLC.                                                 *)
(***************************************************************************)
EXTENDS RetentionGuard

CONSTANTS h1, h2, o1, t1, s1, s2, c1, a1, k1, k2, x1, p1, g1, g2

All == [target |-> t1, subject |-> None]
One == [target |-> t1, subject |-> s1]
Other == [target |-> t1, subject |-> s2]

Mutation(op, key, hold, scope, expected) ==
    [op |-> op, caller |-> c1, actor |-> a1, key |-> key,
     organization |-> o1, hold |-> hold, scope |-> scope,
     expected |-> expected, text |-> None]

(***************************************************************************)
(* The subject s1 of a target, one evaluation at a time.  A hold comes to  *)
(* preserve all its subjects, s1 or another as well, and not all of them   *)
(* any more, or is released; a second hold may stand over s1 meanwhile,    *)
(* under the key of the first one's second scope.                          *)
(***************************************************************************)
ScopesComeAndGo ==
    { Mutation("create_hold", k1, h1, None, 0),
      Mutation("add_scope", k1, h1, All, 1),
      Mutation("add_scope", k2, h1, One, 2),
      Mutation("add_scope", k2, h1, Other, 2),
      Mutation("remove_scope", k1, h1, All, 3),
      Mutation("release_hold", k1, h1, None, 2),
      Mutation("create_hold", k2, h2, None, 0),
      Mutation("add_scope", k2, h2, One, 1) }

(***************************************************************************)
(* The same two holds for two concurrent evaluations.                      *)
(***************************************************************************)
TwoHoldsOneSubject ==
    { Mutation("create_hold", k1, h1, None, 0),
      Mutation("create_hold", k2, h2, None, 0),
      Mutation("add_scope", k1, h1, All, 1),
      Mutation("add_scope", k2, h2, One, 1),
      Mutation("release_hold", k1, h1, None, 2) }

OneCheck == {[action |-> x1, target |-> t1, subject |-> s1]}
=============================================================================
