---------------------------- MODULE MCHoldReads ----------------------------
(***************************************************************************)
(* HoldReads for TLC: two holds that change while one reader looks at      *)
(* them, and a third of another organization.  The last request comes too  *)
(* late: revision 3 is the released one.                                   *)
(***************************************************************************)
EXTENDS HoldReads, TLC

CONSTANTS o1, o2, t1, c1, a1, k1, k2, k3, x1, p1, r1

All == [target |-> t1, subject |-> None]

Mutation(op, key, organization, hold, scope, expected) ==
    [op |-> op, caller |-> c1, actor |-> a1, key |-> key,
     organization |-> organization, hold |-> hold, scope |-> scope,
     expected |-> expected, text |-> None]

ThreeHolds ==
    { Mutation("create_hold", k1, o1, 1, None, 0),
      Mutation("create_hold", k2, o1, 2, None, 0),
      Mutation("create_hold", k3, o2, 3, None, 0),
      Mutation("add_scope", k1, o1, 1, All, 1),
      Mutation("release_hold", k1, o1, 1, None, 2),
      Mutation("remove_scope", k1, o1, 1, All, 3) }

Get(hold) == [op |-> "get_hold", organization |-> o1, hold |-> hold]

List(status, cursor, limit) ==
    [op |-> "list_holds", organization |-> o1, status |-> status,
     cursor |-> cursor, limit |-> limit]

Activity(after, limit) ==
    [op |-> "list_activity", organization |-> o1, hold |-> 1, after |-> after,
     limit |-> limit]

EveryRead == {Get(1), Get(3), List(None, None, 1), List(None, 1, 1),
              List(None, None, 2), List("active", None, 2),
              List("released", None, 2), Activity(0, 2),
              Activity(2, 2)}
=============================================================================
