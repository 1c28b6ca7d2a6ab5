--------------------------- MODULE MCHoldStorage ---------------------------
(***************************************************************************)
(* HoldStorage for TLC: the requests callers send in each run.             *)
(***************************************************************************)
EXTENDS HoldStorage, TLC

CONSTANTS h1, h2, o1, o2, t1, s1, c1, a1, a2, k1, k2, x1, x2, p1, p2, p3

All == [target |-> t1, subject |-> None]

(***************************************************************************)
(* One hold, one key per operation and actor: identical retries, a key     *)
(* reused for another request, two actors racing on one revision, a scope  *)
(* that is already there.                                                  *)
(***************************************************************************)
Mutation(op, actor, key, scope, expected, text) ==
    [op |-> op, caller |-> c1, actor |-> actor, key |-> key,
     organization |-> o1, hold |-> h1, scope |-> scope,
     expected |-> expected, text |-> text]

OneHold ==
    { Mutation("create_hold", a1, k1, None, 0, x1),
      Mutation("add_scope", a1, k1, All, 1, None),
      Mutation("add_scope", a1, k1, All, 2, None),
      Mutation("add_scope", a2, k1, All, 1, None),
      Mutation("remove_scope", a1, k1, All, 2, None),
      Mutation("release_hold", a1, k1, None, 2, x1),
      Mutation("release_hold", a2, k1, None, 3, x1) }

(***************************************************************************)
(* Two holds of two organizations, all by one actor: the same hold_id      *)
(* created for both, a scope change addressed to the wrong organization,   *)
(* receipts that collide although their holds differ.                      *)
(***************************************************************************)
Across(op, organization, hold, scope, expected) ==
    [op |-> op, caller |-> c1, actor |-> a1, key |-> k1,
     organization |-> organization, hold |-> hold, scope |-> scope,
     expected |-> expected, text |-> None]

TwoHolds ==
    { Across("create_hold", o1, h1, None, 0),
      Across("create_hold", o2, h1, None, 0),
      [Across("create_hold", o2, h2, None, 0) EXCEPT !.key = k2],
      Across("add_scope", o1, h1, All, 1),
      Across("add_scope", o2, h1, All, 1),
      Across("add_scope", o2, h2, All, 1),
      Across("release_hold", o2, h2, None, 1) }

(***************************************************************************)
(* Waits of every kind.  Two holds are created under one receipt key, so   *)
(* that whoever creates h1 may have to wait on the key with the row of h1  *)
(* locked; two calls want that row, to create h1 or to lock it.  Removing  *)
(* a scope that is not there locks the row and is refused, as often as it  *)
(* is sent.  Each call sends requests of its own: p1 about h2, the others  *)
(* about h1.                                                               *)
(***************************************************************************)
CreatesH2 == Across("create_hold", o1, h2, None, 0)
CreatesH1 == Across("create_hold", o1, h1, None, 0)

Sends ==
    (p1 :> {CreatesH2})
    @@ (p2 :> {CreatesH1, Across("add_scope", o1, h1, All, 1)})
    @@ (p3 :> {CreatesH1, Across("remove_scope", o1, h1, All, 1)})

Contended == Sends[p1] \cup Sends[p2] \cup Sends[p3]

ContendedNext ==
    \E p \in Calls :
        \/ \E r \in Sends[p] : Begin(p, r)
        \/ Statement(p)
        \/ Fail(p)

ContendedSpec == Init /\ [][ContendedNext]_vars /\ Fairness

CallSymmetry == Permutations(Calls)
=============================================================================
