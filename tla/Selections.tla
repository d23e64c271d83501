------------------------------- MODULE Selections -------------------------------
(***************************************************************************)
(* Lists from which entries are left out: what the loops and the WHERE     *)
(* clauses over pool_accounts return, and what the loops of the tool call  *)
(* parser keep of tokens and calls.                                        *)
(***************************************************************************)
EXTENDS Naturals, Sequences

(* A list without some of its entries, which keeps the order of the rest. *)
Without(s, X) ==
  LET kept[i \in 0 .. Len(s)] ==
        IF i = 0 THEN << >>
        ELSE IF s[i] \in X THEN kept[i - 1] ELSE Append(kept[i - 1], s[i])
  IN  kept[Len(s)]

(* The numbers of P up to n in ascending order. *)
Places(P, n) ==
  LET upto[i \in 0 .. n] ==
        IF i = 0 THEN << >>
        ELSE IF i \in P THEN Append(upto[i - 1], i) ELSE upto[i - 1]
  IN  upto[n]

(* The entries of a list at the places P, in their order. *)
Picked(s, P) ==
  LET at == Places(P, Len(s))
  IN  [k \in 1 .. Len(at) |-> s[at[k]]]

================================================================================
