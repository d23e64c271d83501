------------------------------- MODULE MCResolver -------------------------------
(* Small instances of Resolver for TLC. *)
EXTENDS Resolver, TLC

CONSTANTS a1, a2, r1, r2, r3, k

OneAccount == {a1}
TwoAccounts == {a1, a2}
JustA1 == <<a1>>
BothAccounts == <<a1, a2>>

TwoClients == {r1, r2}
OneClient == {r1}
ThreeClients == {r1, r2, r3}
ClientAndKeeper == {r1, k}
ClientSymmetry == Permutations(TwoClients)

SomeTargets == {NoAccount, a1}
NoTarget == {NoAccount}

SwitchFaults == {"auth", "unavailable", "rejected", "store", "admin"}
FailoverFaults == {"auth", "unavailable", "login"}
LoginFaults == {"auth", "login", "transport"}

================================================================================
