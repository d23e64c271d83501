----------------------------- MODULE MCAccountTests -----------------------------
(* Two accounts imported under the admin key, the second without credentials. *)
EXTENDS AccountTests

CONSTANTS admin, other, a1, a2, t1, t2, r1

TwoAccounts == <<[acct |-> a1, session |-> 1, token |-> 0], [acct |-> a2, session |-> 0, token |-> 0]>>
Actives == {[named |-> {}, activeOnly |-> TRUE]}
================================================================================
