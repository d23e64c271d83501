--------------------------- MODULE MCHistorySessions ---------------------------
(* Small instances of HistorySessions for TLC. *)
EXTENDS HistorySessions, TLC

CONSTANTS e1, e2, e3, s1, s2

Entries == {e1, e2, e3}
Sessions == {s1, s2}
Symmetry == Permutations(Entries) \cup Permutations(Sessions)
Limits == {1, 2}
(* The old format with one entry or with two, the second one newer. *)
OldEntries == {[created |-> 0, rev |-> 0], [created |-> 1, rev |-> 1]}
Legacies ==
  {d \in [Entries -> OldEntries \cup {NoEntry}] :
     Cardinality(Present(d)) = Cardinality({d[id] : id \in Present(d)})}
================================================================================
