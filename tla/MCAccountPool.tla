----------------------------- MODULE MCAccountPool -----------------------------
(* Small instances of AccountPool and its histories for TLC. *)
EXTENDS AccountRotation, TLC

CONSTANTS a1, a2, a3, r1, r2, r3

Accounts == {a1, a2, a3}
Requests == {r1, r2, r3}
RequestSymmetry == Permutations(Requests)

(* Snapshots in which each account is once missing or comes back last. *)
Snapshots == {<<a1, a2, a3>>, <<a3, a1>>, <<a2, a3>>}

(* An API request names no account or one of them; a request that tried an *)
(* account excludes it.                                                    *)
Wishes ==
  {[target |-> NoAccount, exclude |-> {}], [target |-> NoAccount, exclude |-> {a1}],
   [target |-> a1, exclude |-> {}]}
================================================================================
