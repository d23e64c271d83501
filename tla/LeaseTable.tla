------------------------------- MODULE LeaseTable -------------------------------
(***************************************************************************)
(* What the account pool promises, without its rotation, its waiting       *)
(* callers or its locks: a table of lease counts over the accounts in      *)
(* service.  A lease is granted only below both limits, a count goes down  *)
(* by one for a lease returned, and a count disappears as a whole only     *)
(* when its account is withdrawn or is missing from a new account list.    *)
(***************************************************************************)
EXTENDS Integers, FiniteSets

CONSTANTS Account, MaxInflight, GlobalMaxInflight

VARIABLES members, leases

table == <<members, leases>>

Limit ==
  IF GlobalMaxInflight > 0 THEN GlobalMaxInflight
                           ELSE Cardinality(members) * MaxInflight

(* One pair per lease, so that the number of pairs is the sum of the counts. *)
Total == Cardinality({s \in Account \X (1 .. MaxInflight) : s[2] <= leases[s[1]]})

TableInit ==
  /\ members \in SUBSET Account
  /\ leases = [a \in Account |-> 0]

Grant(a) ==
  /\ a \in members
  /\ leases[a] < MaxInflight
  /\ Limit > 0 => Total < Limit
  /\ leases' = [leases EXCEPT ![a] = @ + 1]
  /\ UNCHANGED members

GiveUp(a) ==
  /\ leases[a] > 0
  /\ leases' = [leases EXCEPT ![a] = @ - 1]
  /\ UNCHANGED members

Withdraw(a) ==
  /\ leases' = [leases EXCEPT ![a] = 0]
  /\ UNCHANGED members

Replace(S) ==
  /\ members' = S
  /\ leases' = [a \in Account |-> IF a \in S THEN leases[a] ELSE 0]

TableNext ==
  \/ \E a \in Account : Grant(a) \/ GiveUp(a) \/ Withdraw(a)
  \/ \E S \in SUBSET Account : Replace(S)

TableSpec == TableInit /\ [][TableNext]_table

================================================================================
