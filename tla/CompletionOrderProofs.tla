------------------------- MODULE CompletionOrderProofs -------------------------
(***************************************************************************)
(* That the client of Completion is sent the text and the calls of a reply *)
(* in their order, for every reply, however it is cut into lines and       *)
(* however often the request is tried again.                               *)
(*                                                                         *)
(* From the inside out: a text that is selected from another keeps its     *)
(* order, and so do the calls the parser finds in it; what the sieve cuts  *)
(* out of its buffers is handed out in order, and what it holds lies       *)
(* behind that; the frames of a chat and of a response carry it on; the    *)
(* invariant of the request says how far they have come.                   *)
(***************************************************************************)
EXTENDS CompletionProofs

--------------------------------------------------------------------------------
(* Selections of a text *)

(* The entries of t are entries of s at places up to n, in their order. *)
Drawn(t, s, n) ==
  /\ IsSeq(t)
  /\ \A k \in 1 .. Len(t) : \E i \in 1 .. n : t[k] = s[i]
  /\ \A k, l \in 1 .. Len(t) : k < l => \E i, j \in 1 .. n : i < j /\ t[k] = s[i] /\ t[l] = s[j]

(* Places in ascending order draw a selection. *)
LEMMA PlacedDrawn ==
  ASSUME NEW s, NEW n \in Nat, NEW at, IsSeq(at), \A k \in 1 .. Len(at) : at[k] \in 1 .. n,
         \A k, l \in 1 .. Len(at) : k < l => at[k] < at[l],
         NEW t, IsSeq(t), Len(t) = Len(at), \A k \in 1 .. Len(at) : t[k] = s[at[k]]
  PROVE  Drawn(t, s, n)
<1>1. PICK n1 \in Nat : n1 = Len(at)
  BY IsSeqFacts
<1>2. \A k \in 1 .. n1 : at[k] \in 1 .. n /\ t[k] = s[at[k]]
  BY <1>1
<1>3. \A k, l \in 1 .. n1 : k < l => at[k] < at[l]
  BY <1>1
<1>4. ASSUME NEW k \in 1 .. n1, NEW l \in 1 .. n1, k < l
      PROVE  \E i, j \in 1 .. n : i < j /\ t[k] = s[i] /\ t[l] = s[j]
  <2>1. PICK i \in 1 .. n, j \in 1 .. n : i = at[k] /\ j = at[l]
    BY <1>2
  <2>2. i < j
    BY <1>3, <1>4, <2>1
  <2>3. t[k] = s[i] /\ t[l] = s[j]
    BY <1>2, <2>1
  <2> QED BY <2>2, <2>3
<1> QED BY <1>1, <1>2, <1>4 DEF Drawn

(* Nothing is a selection of anything, and a text one of itself. *)
LEMMA EmptyDrawn ==
  ASSUME NEW s, NEW n
  PROVE  Drawn(<< >>, s, n)
BY ShortIsSeq DEF Drawn

(* A text is a selection of itself. *)
LEMMA SelfDrawn ==
  ASSUME NEW s, IsSeq(s)
  PROVE  Drawn(s, s, Len(s))
BY IsSeqFacts DEF Drawn

(* A selection up to a place is one up to every later place. *)
LEMMA DrawnFurther ==
  ASSUME NEW t, NEW s, NEW n \in Nat, NEW m \in Nat, n <= m, Drawn(t, s, n)
  PROVE  Drawn(t, s, m)
<1>1. 1 .. n \subseteq 1 .. m
  OBVIOUS
<1> QED BY <1>1 DEF Drawn

(* A selection of a selection is one. *)
LEMMA DrawnTwice ==
  ASSUME NEW t, NEW s, NEW u, NEW n, Drawn(s, u, n), Drawn(t, s, Len(s))
  PROVE  Drawn(t, u, n)
<1>1. ASSUME NEW k \in 1 .. Len(t) PROVE \E i \in 1 .. n : t[k] = u[i]
  <2>1. PICK j \in 1 .. Len(s) : t[k] = s[j]
    BY DEF Drawn
  <2>2. PICK i \in 1 .. n : s[j] = u[i]
    BY DEF Drawn
  <2> QED BY <2>1, <2>2
<1>2. ASSUME NEW k \in 1 .. Len(t), NEW l \in 1 .. Len(t), k < l
      PROVE  \E i, j \in 1 .. n : i < j /\ t[k] = u[i] /\ t[l] = u[j]
  <2>1. PICK x \in 1 .. Len(s), y \in 1 .. Len(s) : x < y /\ t[k] = s[x] /\ t[l] = s[y]
    BY <1>2 DEF Drawn
  <2>2. PICK i \in 1 .. n, j \in 1 .. n : i < j /\ s[x] = u[i] /\ s[y] = u[j]
    BY <2>1 DEF Drawn
  <2> QED BY <2>1, <2>2
<1> QED BY <1>1, <1>2 DEF Drawn

(* A piece is a selection. *)
LEMMA PieceDrawn ==
  ASSUME NEW s, IsSeq(s), NEW m \in Nat \ {0}, NEW n \in Int, n <= Len(s)
  PROVE  Drawn(SubSeq(s, m, n), s, Len(s)) /\ (n \in Nat => Drawn(SubSeq(s, m, n), s, n))
<1>1. PICK l \in Nat : l = Len(s)
  BY IsSeqFacts
<1>2. PICK t : t = SubSeq(s, m, n)
  OBVIOUS
<1>3. /\ IsSeq(t) /\ Len(t) = IF m <= n THEN n - m + 1 ELSE 0
      /\ \A i \in 1 .. n - m + 1 : t[i] = s[m + i - 1]
  BY <1>2, SubSeqIsSeq
<1>4. ASSUME NEW p \in Nat, n <= p PROVE Drawn(t, s, p)
  <2>1. \A k \in 1 .. Len(t) : m + k - 1 \in 1 .. p /\ t[k] = s[m + k - 1]
    BY <1>3, <1>4
  <2>2. \A k, j \in 1 .. Len(t) : k < j => m + k - 1 < m + j - 1
    BY <1>3
  <2> QED BY <1>3, <2>1, <2>2 DEF Drawn
<1> QED BY <1>1, <1>2, <1>4

(* A selection, and a piece behind it. *)
LEMMA DrawnAndPiece ==
  ASSUME NEW s, NEW t, NEW p \in Nat, NEW q \in Nat, p <= q, Drawn(t, s, p)
  PROVE  Drawn(t \o SubSeq(s, p + 1, q), s, q)
<1>1. PICK r : r = SubSeq(s, p + 1, q)
  OBVIOUS
<1>2. /\ IsSeq(r) /\ Len(r) = q - p /\ \A i \in 1 .. q - p : r[i] = s[p + i]
  <2>1. /\ IsSeq(r) /\ Len(r) = IF p + 1 <= q THEN q - (p + 1) + 1 ELSE 0
        /\ \A i \in 1 .. q - (p + 1) + 1 : r[i] = s[(p + 1) + i - 1]
    BY <1>1, SubSeqIsSeq
  <2>2. \A i \in 1 .. q - p : (p + 1) + i - 1 = p + i
    OBVIOUS
  <2> QED BY <2>1, <2>2
<1>3. PICK u : u = t \o r
  OBVIOUS
<1>4. PICK n \in Nat : n = Len(t)
  BY IsSeqFacts DEF Drawn
<1>5. /\ IsSeq(u) /\ Len(u) = n + (q - p)
      /\ \A i \in 1 .. n : u[i] = t[i]
      /\ \A i \in 1 .. q - p : u[n + i] = s[p + i]
  <2>1. /\ IsSeq(t \o r) /\ Len(t \o r) = Len(t) + Len(r)
        /\ \A i \in 1 .. Len(t) : (t \o r)[i] = t[i]
        /\ \A i \in 1 .. Len(r) : (t \o r)[Len(t) + i] = r[i]
    BY <1>2, ConcatIsSeq DEF Drawn
  <2> QED BY <1>2, <1>3, <1>4, <2>1
<1>6. ASSUME NEW k \in 1 .. Len(u), k > n PROVE \E i \in 1 .. q : i = p + (k - n) /\ u[k] = s[i]
  <2>1. k - n \in 1 .. q - p /\ n + (k - n) = k /\ p + (k - n) \in 1 .. q
    BY <1>5, <1>6
  <2> QED BY <1>5, <2>1
<1>7. ASSUME NEW k \in 1 .. Len(u), ~(k > n) PROVE k \in 1 .. Len(t) /\ u[k] = t[k]
  BY <1>4, <1>5, <1>7
<1>8. 1 .. p \subseteq 1 .. q
  OBVIOUS
<1>9. ASSUME NEW k \in 1 .. Len(u) PROVE \E i \in 1 .. q : u[k] = s[i]
  BY <1>6, <1>7, <1>8 DEF Drawn
<1>10. ASSUME NEW k \in 1 .. Len(u), NEW l \in 1 .. Len(u), k < l
       PROVE  \E i, j \in 1 .. q : i < j /\ u[k] = s[i] /\ u[l] = s[j]
  <2>1. CASE ~(l > n)
    <3>1. ~(k > n)
      BY <1>10, <2>1
    <3>2. k \in 1 .. Len(t) /\ l \in 1 .. Len(t) /\ u[k] = t[k] /\ u[l] = t[l]
      BY <1>7, <2>1, <3>1
    <3>3. \E i, j \in 1 .. p : i < j /\ t[k] = s[i] /\ t[l] = s[j]
      BY <1>10, <3>2 DEF Drawn
    <3> QED BY <1>8, <3>2, <3>3
  <2>2. CASE l > n /\ ~(k > n)
    <3>1. PICK j \in 1 .. q : j = p + (l - n) /\ u[l] = s[j]
      BY <1>6, <2>2
    <3>2. k \in 1 .. Len(t) /\ u[k] = t[k]
      BY <1>7, <2>2
    <3>3. PICK i \in 1 .. p : t[k] = s[i]
      BY <3>2 DEF Drawn
    <3>4. i < j /\ i \in 1 .. q
      BY <2>2, <3>1, <3>3
    <3> QED BY <3>1, <3>2, <3>3, <3>4
  <2>3. CASE l > n /\ k > n
    <3>1. PICK j \in 1 .. q : j = p + (l - n) /\ u[l] = s[j]
      BY <1>6, <2>3
    <3>2. PICK i \in 1 .. q : i = p + (k - n) /\ u[k] = s[i]
      BY <1>6, <2>3
    <3>3. i < j
      BY <1>10, <3>1, <3>2
    <3> QED BY <3>1, <3>2, <3>3
  <2> QED BY <2>1, <2>2, <2>3
<1>11. Drawn(u, s, q)
  BY <1>5, <1>9, <1>10 DEF Drawn
<1> QED BY <1>1, <1>3, <1>11

(* What is picked is a selection. *)
LEMMA PickedDrawn ==
  ASSUME NEW s, IsSeq(s), NEW P
  PROVE  Drawn(Picked(s, P), s, Len(s))
<1>1. PICK n : n = Len(s)
  OBVIOUS
<1>2. /\ IsSeq(Picked(s, P))
      /\ \A k \in 1 .. Len(Picked(s, P)) : \E i \in P \cap (1 .. n) : Picked(s, P)[k] = s[i]
  BY <1>1, PickedFacts
<1>3. ASSUME NEW k \in 1 .. Len(Picked(s, P)), NEW l \in 1 .. Len(Picked(s, P)), k < l
      PROVE  \E i, j \in 1 .. n : i < j /\ Picked(s, P)[k] = s[i] /\ Picked(s, P)[l] = s[j]
  BY <1>1, <1>3, PickedOrder
<1>4. P \cap (1 .. n) \subseteq 1 .. n
  OBVIOUS
<1>5. Drawn(Picked(s, P), s, n)
  BY <1>2, <1>3, <1>4 DEF Drawn
<1> QED BY <1>1, <1>5

(* So is what the trims leave, and a text without its open CDATA section. *)
LEMMA TrimDrawn ==
  ASSUME NEW s, IsSeq(s)
  PROVE  /\ Drawn(TrimLeft(s), s, Len(s)) /\ Drawn(TrimRight(s), s, Len(s))
         /\ Drawn(TrimSpace(s), s, Len(s))
<1>1. ASSUME NEW u, IsSeq(u) PROVE Drawn(TrimLeft(u), u, Len(u))
  <2> DEFINE P == Printed(u) \union {Len(u) + 1}
  <2>1. Len(u) \in Nat
    BY <1>1, IsSeqFacts
  <2>2. P \in SUBSET (Nat \ {0}) /\ P # {}
    BY <2>1 DEF Printed
  <2> HIDE DEF P
  <2>3. \E x \in P : \A y \in P : x =< y
    BY <2>2, NatLeast
  <2>4. Min(P) \in Nat \ {0}
    BY <2>2, <2>3 DEF Min
  <2>5. Drawn(SubSeq(u, Min(P), Len(u)), u, Len(u))
    BY <1>1, <2>1, <2>4, PieceDrawn
  <2> QED BY <2>5 DEF TrimLeft, TextFrom, P
<1>2. ASSUME NEW u, IsSeq(u) PROVE Drawn(TrimRight(u), u, Len(u))
  <2>1. Len(u) \in Nat /\ Printed(u) \in SUBSET (1 .. Len(u))
    BY <1>2, IsSeqFacts DEF Printed
  <2>2. LastOf(Printed(u)) \in Int /\ LastOf(Printed(u)) <= Len(u)
    <3>1. LastOf(Printed(u)) \in Nat /\ (LastOf(Printed(u)) # 0 => LastOf(Printed(u)) \in Printed(u))
      BY <2>1, LastOfFacts
    <3> QED BY <2>1, <3>1
  <2> QED BY <1>2, <2>2, PieceDrawn DEF TrimRight
<1>3. IsSeq(TrimLeft(s)) /\ Drawn(TrimRight(TrimLeft(s)), TrimLeft(s), Len(TrimLeft(s)))
  BY <1>2, TrimIsSeq
<1>4. Drawn(TrimSpace(s), s, Len(s))
  BY <1>1, <1>3, DrawnTwice DEF TrimSpace
<1> QED BY <1>1, <1>2, <1>4

(* A text without its open CDATA section is a selection of it. *)
LEMMA SanitizedDrawn ==
  ASSUME NEW s, IsSeq(s)
  PROVE  Drawn(SanitizeLooseCDATA(s), s, Len(s))
<1> DEFINE last == LastOf({i \in 1 .. Len(s) : s[i].t = "]]>"})
           open == FirstAt(s, last + 1, {"<![CDATA["})
<1>1. PICK n \in Nat : n = Len(s)
  BY IsSeqFacts
<1>2. last \in Nat
  <2>1. {i \in 1 .. Len(s) : s[i].t = "]]>"} \in SUBSET (1 .. n)
    BY <1>1
  <2> QED BY <2>1, LastOfFacts
<1> HIDE DEF last
<1>3. open \in Nat /\ (open # 0 => open \in 1 .. n)
  <2> DEFINE P == {i \in last + 1 .. Len(s) : s[i].t \in {"<![CDATA["}}
  <2>1. P \in SUBSET Nat /\ P \subseteq 1 .. n
    BY <1>1, <1>2
  <2>2. open = FirstOf(P)
    BY DEF open, FirstAt
  <2> HIDE DEF P, open
  <2> QED BY <2>1, <2>2, FirstOfFacts
<1> HIDE DEF open
<1>4. ASSUME open # 0 PROVE Drawn(RemoveAt(s, open), s, n)
  <2>1. open - 1 \in Nat /\ open - 1 <= n /\ open \in Nat /\ open - 1 <= open /\ open <= n
    BY <1>3, <1>4
  <2>2. Drawn(SubSeq(s, 1, open - 1), s, open - 1)
    BY <1>1, <2>1, PieceDrawn
  <2>3. Drawn(SubSeq(s, 1, open - 1), s, open)
    BY <2>1, <2>2, DrawnFurther
  <2>4. Drawn(SubSeq(s, 1, open - 1) \o SubSeq(s, open + 1, n), s, n)
    BY <2>1, <2>3, DrawnAndPiece
  <2> QED BY <1>1, <2>4 DEF RemoveAt
<1> QED BY <1>1, <1>4, SelfDrawn DEF SanitizeLooseCDATA, open, last


--------------------------------------------------------------------------------
(* The places of the parser *)

(* What starts at i stops at or after i, if it stops. *)
EndsAfter(stops, n) == \A i \in 1 .. n : stops[i] \in Nat /\ (stops[i] # 0 => stops[i] >= i)

(* covered[i] is the end of the last outermost place up to i.               *)
Covers(covered, stops, n) ==
  /\ covered \in [0 .. n -> Nat] /\ covered[0] = 0
  /\ \A i \in 1 .. n :
       covered[i] = IF i > covered[i - 1] /\ stops[i] # 0 THEN stops[i] ELSE covered[i - 1]
  /\ Outermost(stops) = {i \in 1 .. n : stops[i] # 0 /\ i > covered[i - 1]}

(* How far what starts outermost reaches, place by place. *)
LEMMA OutermostSteps ==
  ASSUME NEW stops, NEW n \in Nat, n = Len(stops), EndsAfter(stops, n)
  PROVE  \E covered : Covers(covered, stops, n)
<1> DEFINE F == [p \in Nat \X (1 .. n) |-> IF p[2] > p[1] /\ stops[p[2]] # 0 THEN stops[p[2]] ELSE p[1]]
           Body(f) == [i \in 0 .. n |->
                        IF i = 0 THEN 0
                        ELSE IF i > f[i - 1] /\ stops[i] # 0 THEN stops[i] ELSE f[i - 1]]
           covered == CHOOSE f : f = Body(f)
<1>1. PICK g \in [0 .. n -> Nat] : g[0] = 0 /\ \A i \in 1 .. n : g[i] = F[<<g[i - 1], i>>]
  <2>1. 0 \in Nat /\ F \in [Nat \X (1 .. n) -> Nat]
    BY DEF EndsAfter
  <2> HIDE DEF F
  <2>2. PICK g : Iterates(g, Nat, 0, n, F)
    BY <2>1, FiniteRecursion
  <2> QED BY <2>2 DEF Iterates
<1>2. g = Body(g)
  <2>1. ASSUME NEW i \in 0 .. n
        PROVE  g[i] = IF i = 0 THEN 0 ELSE IF i > g[i - 1] /\ stops[i] # 0 THEN stops[i] ELSE g[i - 1]
    <3>1. CASE i = 0
      BY <1>1, <3>1
    <3>2. CASE i # 0
      <4>1. i \in 1 .. n /\ g[i - 1] \in Nat
        BY <3>2
      <4>2. g[i] = F[<<g[i - 1], i>>]
        BY <1>1, <4>1
      <4> QED BY <3>2, <4>1, <4>2
    <3> QED BY <3>1, <3>2
  <2>2. g = [i \in 0 .. n |-> g[i]]
    OBVIOUS
  <2> QED BY <2>1, <2>2
<1>3. covered = Body(covered) /\ Outermost(stops) = {i \in 1 .. n : stops[i] # 0 /\ i > covered[i - 1]}
  <2>1. Outermost(stops) = {i \in 1 .. n : stops[i] # 0 /\ i > covered[i - 1]}
    BY DEF Outermost
  <2> HIDE DEF Body
  <2> QED BY <1>2, <2>1
<1>4. covered[0] = 0 /\ \A i \in 1 .. n :
        covered[i] = IF i > covered[i - 1] /\ stops[i] # 0 THEN stops[i] ELSE covered[i - 1]
  <2> HIDE DEF covered
  <2>1. 0 \in 0 .. n /\ \A i \in 1 .. n : i \in 0 .. n /\ i # 0
    OBVIOUS
  <2> QED BY <1>3, <2>1
<1>5. covered \in [0 .. n -> Nat]
  <2> DEFINE Done == {i \in Nat : i <= n => covered[i] \in Nat}
  <2>1. covered = [i \in 0 .. n |-> covered[i]]
    <3> HIDE DEF covered
    <3> QED BY <1>3
  <2> HIDE DEF covered
  <2>2. 0 \in Done
    BY <1>4
  <2>3. ASSUME NEW i \in Nat, i \in Done PROVE i + 1 \in Done
    <3> SUFFICES ASSUME i + 1 <= n PROVE covered[i + 1] \in Nat
      OBVIOUS
    <3>1. i + 1 \in 1 .. n /\ (i + 1) - 1 = i /\ covered[i] \in Nat /\ stops[i + 1] \in Nat
      BY <2>3 DEF EndsAfter
    <3> QED BY <1>4, <3>1
  <2>4. Nat \subseteq Done
    <3> HIDE DEF Done
    <3> QED BY <2>2, <2>3, SetInduction
  <2>5. \A i \in 0 .. n : covered[i] \in Nat
    BY <2>4
  <2> QED BY <2>1, <2>5
<1> HIDE DEF covered, Body
<1> QED BY <1>3, <1>4, <1>5 DEF Covers

(* What starts outermost starts behind the end of what did so before. *)
LEMMA OutermostOrder ==
  ASSUME NEW stops, NEW n \in Nat, n = Len(stops), EndsAfter(stops, n),
         NEW i \in Outermost(stops), NEW j \in Outermost(stops), i < j
  PROVE  i \in 1 .. n /\ j \in 1 .. n /\ stops[i] # 0 /\ stops[i] < j
<1>0. PICK covered : Covers(covered, stops, n)
  BY OutermostSteps
<1>1. /\ covered \in [0 .. n -> Nat] /\ covered[0] = 0
      /\ \A k \in 1 .. n :
           covered[k] = IF k > covered[k - 1] /\ stops[k] # 0 THEN stops[k] ELSE covered[k - 1]
      /\ Outermost(stops) = {k \in 1 .. n : stops[k] # 0 /\ k > covered[k - 1]}
  BY <1>0 DEF Covers
<1>2. /\ i \in 1 .. n /\ j \in 1 .. n /\ stops[i] # 0 /\ stops[j] # 0 /\ i > covered[i - 1] /\ j > covered[j - 1]
      /\ covered[i] = stops[i]
  <2>1. i \in 1 .. n /\ stops[i] # 0 /\ i > covered[i - 1]
    BY <1>1
  <2>2. j \in 1 .. n /\ stops[j] # 0 /\ j > covered[j - 1]
    BY <1>1
  <2>3. covered[i] = IF i > covered[i - 1] /\ stops[i] # 0 THEN stops[i] ELSE covered[i - 1]
    BY <1>1, <2>1
  <2> QED BY <2>1, <2>2, <2>3
<1> DEFINE Done == {k \in Nat : i <= k /\ k <= n => covered[k] >= stops[i]}
<1>3. 0 \in Done
  BY <1>2
<1>4. ASSUME NEW k \in Nat, k \in Done PROVE k + 1 \in Done
  <2> SUFFICES ASSUME i <= k + 1, k + 1 <= n PROVE covered[k + 1] >= stops[i]
    OBVIOUS
  <2>1. k + 1 \in 1 .. n /\ (k + 1) - 1 = k /\ k \in 0 .. n /\ covered[k] \in Nat
    BY <1>1
  <2>2. stops[k + 1] \in Nat /\ (stops[k + 1] # 0 => stops[k + 1] >= k + 1) /\ stops[i] \in Nat
    BY <1>2, <2>1 DEF EndsAfter
  <2>3. covered[k + 1] = IF k + 1 > covered[k] /\ stops[k + 1] # 0 THEN stops[k + 1] ELSE covered[k]
    BY <1>1, <2>1
  <2>4. CASE i <= k
    <3>1. covered[k] >= stops[i]
      BY <1>4, <2>1, <2>4
    <3> QED BY <2>1, <2>2, <2>3, <3>1
  <2>5. CASE ~(i <= k)
    <3>1. k + 1 = i
      BY <1>2, <2>5
    <3> QED BY <1>2, <2>2, <3>1
  <2> QED BY <2>4, <2>5
<1>5. j - 1 \in Done
  <2>1. j - 1 \in Nat
    BY <1>2
  <2> HIDE DEF Done
  <2> QED BY <1>3, <1>4, <2>1, SetInduction
<1>6. covered[j - 1] >= stops[i] /\ covered[j - 1] \in Nat /\ stops[i] \in Nat
  <2>1. j - 1 \in 0 .. n /\ i <= j - 1 /\ j - 1 <= n
    BY <1>2
  <2> QED BY <1>1, <1>2, <1>5, <2>1 DEF EndsAfter
<1> QED BY <1>2, <1>6

(* Tags come in the order of the text, each behind the end of the last. *)
LEMMA TagsOrder ==
  ASSUME NEW s, IsSeq(s)
  PROVE  /\ \A k \in 1 .. Len(Tags(s)) :
              /\ Tags(s)[k].first \in 1 .. Len(s) /\ Tags(s)[k].last \in Nat
              /\ Tags(s)[k].first <= Tags(s)[k].last /\ Tags(s)[k].last <= Len(s)
              /\ Tags(s)[k].t = s[Tags(s)[k].first].t
         /\ \A k, l \in 1 .. Len(Tags(s)) : k < l => Tags(s)[k].last < Tags(s)[l].first
<1> DEFINE P == {i \in 1 .. Len(s) : IsTag(s, i)} \ Ignored(s)
           at == Places(P, Len(s))
           tags == [k \in 1 .. Len(at) |-> [t |-> s[at[k]].t, first |-> at[k], last |-> TagEnd(s, at[k])]]
<1>1. Len(s) \in Nat
  BY IsSeqFacts
<1>2. /\ Len(at) \in Nat /\ \A k \in 1 .. Len(at) : at[k] \in P /\ at[k] \in 1 .. Len(s)
      /\ \A k, l \in 1 .. Len(at) : k < l => at[k] < at[l]
  <2> HIDE DEF P
  <2> QED BY <1>1, ListedPlaces, PlacesFacts
<1> HIDE DEF at
<1>3. Len(tags) = Len(at)
  <2>1. tags = [k \in 1 .. Len(at) |-> tags[k]]
    OBVIOUS
  <2> HIDE DEF tags
  <2> QED BY <1>2, <2>1, BuiltIsSeq
<1>4. Tags(s) = tags
  BY DEF Tags, TagsAt, at
<1>5. ASSUME NEW k \in 1 .. Len(at)
      PROVE  /\ IsTag(s, at[k])
             /\ s[at[k]].t = "<tool_calls" => at[k] + 1 \in 1 .. Len(s) /\ s[at[k] + 1].t = ">"
  <2>1. IsTag(s, at[k]) /\ at[k] \in 1 .. Len(s)
    BY <1>2
  <2>2. CASE s[at[k]].t = "<tool_calls"
    <3>1. Kind(s, at[k] + 1) = ">"
      BY <2>1, <2>2 DEF IsTag, TagKinds, Invokes, Implicit, Closing
    <3> QED BY <2>1, <3>1 DEF Kind
  <2> QED BY <2>1, <2>2
<1>6. ASSUME NEW k \in 1 .. Len(at)
      PROVE  TagEnd(s, at[k]) \in Nat /\ at[k] <= TagEnd(s, at[k]) /\ TagEnd(s, at[k]) <= Len(s)
  BY <1>1, <1>2, <1>5 DEF TagEnd
<1>7. ASSUME NEW k \in 1 .. Len(at), NEW l \in 1 .. Len(at), k < l PROVE TagEnd(s, at[k]) < at[l]
  <2>1. at[k] < at[l] /\ at[k] \in Nat /\ at[l] \in Nat /\ IsTag(s, at[l])
    BY <1>2, <1>5, <1>7
  <2>2. CASE s[at[k]].t = "<tool_calls"
    <3>1. s[at[k] + 1].t = ">"
      BY <1>5, <2>2
    <3>2. s[at[l]].t # ">"
      BY <2>1 DEF IsTag, TagKinds, Invokes, Implicit, Closing
    <3> QED BY <2>1, <2>2, <3>1, <3>2 DEF TagEnd
  <2> QED BY <2>1, <2>2 DEF TagEnd
<1>8. \A k \in 1 .. Len(at) :
        tags[k].first = at[k] /\ tags[k].last = TagEnd(s, at[k]) /\ tags[k].t = s[at[k]].t
  OBVIOUS
<1> HIDE DEF tags
<1>9. \A k \in 1 .. Len(at) :
        /\ tags[k].first \in 1 .. Len(s) /\ tags[k].last \in Nat
        /\ tags[k].first <= tags[k].last /\ tags[k].last <= Len(s)
        /\ tags[k].t = s[tags[k].first].t
  BY <1>2, <1>6, <1>8
<1>10. \A k, l \in 1 .. Len(at) : k < l => tags[k].last < tags[l].first
  BY <1>7, <1>8
<1> QED BY <1>3, <1>4, <1>9, <1>10

(* Tags in their order. *)
InTurn(tags, n) ==
  /\ IsSeq(tags)
  /\ \A k \in 1 .. Len(tags) :
       /\ tags[k].first \in 1 .. n /\ tags[k].last \in Nat
       /\ tags[k].first <= tags[k].last /\ tags[k].last <= n
  /\ \A k, l \in 1 .. Len(tags) : k < l => tags[k].last < tags[l].first

(* The close of an opening comes behind it. *)
LEMMA CloseBehind ==
  ASSUME NEW tags, IsSeq(tags), NEW k \in 1 .. Len(tags), NEW opens, NEW close
  PROVE  /\ MatchClose(tags, k, opens, close) \in Nat
         /\ MatchClose(tags, k, opens, close) # 0 => MatchClose(tags, k, opens, close) \in k + 1 .. Len(tags)
<1> DEFINE Q == {p \in k + 1 .. Len(tags) :
                   /\ tags[p].t = close
                   /\ Cardinality({q \in k + 1 .. p - 1 : tags[q].t \in opens})
                        = Cardinality({q \in k + 1 .. p - 1 : tags[q].t \in {close}})}
<1>1. Q \in SUBSET (k + 1 .. Len(tags)) /\ Q \in SUBSET Nat
  BY IsSeqFacts
<1>2. MatchClose(tags, k, opens, close) = FirstOf(Q)
  BY DEF MatchClose
<1> HIDE DEF Q
<1>3. FirstOf(Q) \in Nat /\ (FirstOf(Q) # 0 => FirstOf(Q) \in Q)
  BY <1>1, FirstOfFacts
<1> QED BY <1>1, <1>2, <1>3

(* Elements come in the order of the text, each behind the close of the    *)
(* last.                                                                   *)
LEMMA ElementsOrder ==
  ASSUME NEW tags, NEW n \in Nat, InTurn(tags, n), NEW opens, NEW close, NEW els, els = Elements(tags, opens, close)
  PROVE  /\ IsSeq(els)
         /\ \A i \in 1 .. Len(els) :
              /\ els[i].open \in 1 .. n /\ els[i].body \in Nat /\ els[i].close \in 1 .. n
              /\ els[i].open < els[i].body /\ els[i].body <= els[i].close
              /\ \E k \in 1 .. Len(tags) : els[i].open = tags[k].first /\ tags[k].t \in opens
         /\ \A i, j \in 1 .. Len(els) : i < j => els[i].close < els[j].open
<1> DEFINE upto == [k \in 1 .. Len(tags) |-> IF tags[k].t \in opens THEN MatchClose(tags, k, opens, close) ELSE 0]
           at == Places(Outermost(upto), Len(tags))
           list == [i \in 1 .. Len(at) |-> [open |-> tags[at[i]].first, body |-> tags[at[i]].last + 1,
                                           close |-> tags[upto[at[i]]].first]]
<1>1. Len(tags) \in Nat /\ IsSeq(tags)
  BY IsSeqFacts DEF InTurn
<1>2. /\ \A k \in 1 .. Len(tags) : upto[k] \in Nat
      /\ \A k \in 1 .. Len(tags) : upto[k] # 0 => upto[k] \in k + 1 .. Len(tags) /\ tags[k].t \in opens
  <2> SUFFICES ASSUME NEW k \in 1 .. Len(tags)
               PROVE  upto[k] \in Nat /\ (upto[k] # 0 => upto[k] \in k + 1 .. Len(tags) /\ tags[k].t \in opens)
    OBVIOUS
  <2>1. PICK m : m = MatchClose(tags, k, opens, close)
    OBVIOUS
  <2>2. m \in Nat /\ (m # 0 => m \in k + 1 .. Len(tags))
    BY <1>1, <2>1, CloseBehind
  <2>3. upto[k] = IF tags[k].t \in opens THEN m ELSE 0
    BY <2>1
  <2> HIDE DEF upto
  <2> QED BY <2>2, <2>3
<1>3. Len(upto) = Len(tags)
  <2>1. PICK m \in Nat : m = Len(tags)
    BY <1>1
  <2>2. DOMAIN upto = 1 .. m
    BY <2>1
  <2>3. upto = [k \in DOMAIN upto |-> upto[k]]
    BY Zenon
  <2> HIDE DEF upto
  <2>4. upto = [k \in 1 .. m |-> upto[k]]
    BY <2>2, <2>3
  <2>5. Len(upto) = m
    BY <2>4, BuiltIsSeq, Zenon
  <2> QED BY <2>1, <2>5
<1>4. Elements(tags, opens, close) = list
  <2>1. Elements(tags, opens, close) = ElementsOf(tags, upto)
    BY DEF Elements, upto
  <2> QED BY <2>1, Zenon DEF ElementsOf, ElementsAt, at, list
<1> HIDE DEF upto
<1>5. EndsAfter(upto, Len(tags))
  BY <1>1, <1>2 DEF EndsAfter
<1>6. /\ Len(at) \in Nat /\ \A i \in 1 .. Len(at) : at[i] \in Outermost(upto) /\ at[i] \in 1 .. Len(tags)
      /\ \A i, j \in 1 .. Len(at) : i < j => at[i] < at[j]
  BY <1>1, ListedPlaces, PlacesFacts
<1>7. \A k \in Outermost(upto) : upto[k] # 0
  BY DEF Outermost
<1> HIDE DEF at
<1>8. \A i \in 1 .. Len(at) : upto[at[i]] \in at[i] + 1 .. Len(tags) /\ tags[at[i]].t \in opens
  BY <1>2, <1>6, <1>7
<1>9. ASSUME NEW i \in 1 .. Len(at), NEW j \in 1 .. Len(at), i < j PROVE upto[at[i]] < at[j]
  BY <1>1, <1>3, <1>5, <1>6, <1>9, OutermostOrder
<1>10. IsSeq(list) /\ Len(list) = Len(at)
  <2>1. list = [i \in 1 .. Len(at) |-> list[i]]
    BY Zenon
  <2> HIDE DEF list
  <2> QED BY <1>6, <2>1, BuiltIsSeq
<1>11. \A i \in 1 .. Len(at) : /\ list[i].open = tags[at[i]].first /\ list[i].body = tags[at[i]].last + 1
                              /\ list[i].close = tags[upto[at[i]]].first
  OBVIOUS
<1> HIDE DEF list
<1>12. ASSUME NEW i \in 1 .. Len(at)
       PROVE  /\ list[i].open \in 1 .. n /\ list[i].body \in Nat /\ list[i].close \in 1 .. n
              /\ list[i].open < list[i].body /\ list[i].body <= list[i].close
  <2>1. at[i] \in 1 .. Len(tags) /\ upto[at[i]] \in 1 .. Len(tags) /\ at[i] < upto[at[i]]
    BY <1>1, <1>6, <1>8
  <2>2. /\ tags[at[i]].first \in 1 .. n /\ tags[at[i]].last \in Nat /\ tags[at[i]].first <= tags[at[i]].last
        /\ tags[upto[at[i]]].first \in 1 .. n /\ tags[at[i]].last < tags[upto[at[i]]].first
    BY <2>1 DEF InTurn
  <2>3. PICK f \in 1 .. n, l \in Nat, c \in 1 .. n : f = tags[at[i]].first /\ l = tags[at[i]].last /\ c = tags[upto[at[i]]].first
    BY <2>2
  <2>4. list[i].open = f /\ list[i].body = l + 1 /\ list[i].close = c
    BY <1>11, <2>3
  <2>5. f <= l /\ l < c
    BY <2>2, <2>3
  <2> QED BY <2>4, <2>5
<1>13. ASSUME NEW i \in 1 .. Len(at), NEW j \in 1 .. Len(at), i < j PROVE list[i].close < list[j].open
  <2>1. upto[at[i]] \in 1 .. Len(tags) /\ at[j] \in 1 .. Len(tags) /\ upto[at[i]] < at[j]
    BY <1>1, <1>6, <1>8, <1>9, <1>13
  <2>2. /\ tags[upto[at[i]]].first \in Nat /\ tags[upto[at[i]]].last \in Nat /\ tags[at[j]].first \in Nat
        /\ tags[upto[at[i]]].first <= tags[upto[at[i]]].last /\ tags[upto[at[i]]].last < tags[at[j]].first
    <3>1. PICK x, y : x = upto[at[i]] /\ y = at[j]
      OBVIOUS
    <3>2. x \in 1 .. Len(tags) /\ y \in 1 .. Len(tags) /\ x < y
      BY <2>1, <3>1
    <3>3. /\ tags[x].first \in Nat /\ tags[x].last \in Nat /\ tags[y].first \in Nat
          /\ tags[x].first <= tags[x].last /\ tags[x].last < tags[y].first
      BY <3>2 DEF InTurn
    <3> QED BY <3>1, <3>3
  <2>3. PICK c, l, o : c = tags[upto[at[i]]].first /\ l = tags[upto[at[i]]].last /\ o = tags[at[j]].first
    OBVIOUS
  <2>4. c \in Nat /\ l \in Nat /\ o \in Nat /\ c <= l /\ l < o
    BY <2>2, <2>3
  <2>5. list[i].close = c /\ list[j].open = o
    BY <1>11, <2>3
  <2> QED BY <2>4, <2>5
<1>14. ASSUME NEW i \in 1 .. Len(at) PROVE \E k \in 1 .. Len(tags) : list[i].open = tags[k].first /\ tags[k].t \in opens
  BY <1>6, <1>8, <1>11
<1> QED BY <1>4, <1>10, <1>12, <1>13, <1>14

(* What the invokes call. *)
Called(v) == [i \in 1 .. Len(v) |-> v[i].call]

(* They are called one by one. *)
LEMMA CalledFacts ==
  ASSUME NEW v, IsSeq(v)
  PROVE  IsSeq(Called(v)) /\ Len(Called(v)) = Len(v) /\ \A i \in 1 .. Len(v) : Called(v)[i] = v[i].call
<1> DEFINE c == [i \in 1 .. Len(v) |-> v[i].call]
<1>1. Len(v) \in Nat /\ c = [i \in 1 .. Len(v) |-> c[i]] /\ \A i \in 1 .. Len(v) : c[i] = v[i].call
  BY IsSeqFacts
<1>2. Called(v) = c
  BY DEF Called
<1> HIDE DEF c
<1> QED BY <1>1, <1>2, BuiltIsSeq

(* The tokens that name a call of the first dialect. *)
Naming(c) == \A i \in 1 .. Len(c) : c[i].t \in Invokes

(* The invokes of a wrapper are called in the order of its body. *)
LEMMA InvokesInDrawn ==
  ASSUME NEW body, IsSeq(body)
  PROVE  /\ IsSeq(InvokesIn(body))
         /\ Drawn(Called(InvokesIn(body)), body, Len(body)) /\ Naming(Called(InvokesIn(body)))
<1> DEFINE tags == Tags(body)
           els == Elements(tags, Invokes, "</invoke>")
           v == [i \in 1 .. Len(els) |-> Invoked(body, els[i])]
           at == [i \in 1 .. Len(els) |-> els[i].open]
<1>1. PICK n \in Nat : n = Len(body)
  BY IsSeqFacts
<1>2. InTurn(tags, n) /\ \A k \in 1 .. Len(tags) : tags[k].t = body[tags[k].first].t
  BY <1>1, TagsFacts, TagsOrder DEF InTurn
<1> HIDE DEF tags
<1>3. /\ IsSeq(els)
      /\ \A i \in 1 .. Len(els) :
           /\ els[i].open \in 1 .. n /\ els[i].close \in 1 .. n /\ els[i].body \in Nat
           /\ els[i].open < els[i].body /\ els[i].body <= els[i].close
           /\ \E k \in 1 .. Len(tags) : els[i].open = tags[k].first /\ tags[k].t \in Invokes
      /\ \A i, j \in 1 .. Len(els) : i < j => els[i].close < els[j].open
  BY <1>2, ElementsOrder
<1>4. InvokesIn(body) = v
  BY DEF InvokesIn, InvokedAll, els, tags
<1> HIDE DEF els
<1>5. Len(els) \in Nat
  BY <1>3, IsSeqFacts
<1>6. IsSeq(v) /\ Len(v) = Len(els)
  <2>1. v = [i \in 1 .. Len(els) |-> v[i]]
    OBVIOUS
  <2> HIDE DEF v
  <2> QED BY <1>5, <2>1, BuiltIsSeq
<1>7. \A i \in 1 .. Len(els) : v[i].call = body[els[i].open]
  BY DEF Invoked
<1>8. IsSeq(at) /\ Len(at) = Len(els)
  <2>1. at = [i \in 1 .. Len(els) |-> at[i]]
    OBVIOUS
  <2> HIDE DEF at
  <2> QED BY <1>5, <2>1, BuiltIsSeq
<1>9. \A i \in 1 .. Len(els) : at[i] = els[i].open
  OBVIOUS
<1> HIDE DEF v, at
<1>10. \A k \in 1 .. Len(at) : at[k] \in 1 .. n
  BY <1>3, <1>8, <1>9
<1>11. ASSUME NEW k \in 1 .. Len(at), NEW l \in 1 .. Len(at), k < l PROVE at[k] < at[l]
  <2>1. PICK o, b, e, p : o = els[k].open /\ b = els[k].body /\ e = els[k].close /\ p = els[l].open
    OBVIOUS
  <2>2. k \in 1 .. Len(els) /\ l \in 1 .. Len(els)
    BY <1>8
  <2>3. o \in 1 .. n /\ b \in Nat /\ e \in 1 .. n /\ o < b /\ b <= e
    BY <1>3, <2>1, <2>2
  <2>4. p \in 1 .. n
    BY <1>3, <2>1, <2>2
  <2>5. e < p
    BY <1>3, <1>11, <2>1, <2>2
  <2>6. o < p
    BY <2>3, <2>4, <2>5
  <2> QED BY <1>9, <2>1, <2>2, <2>6
<1>12. PICK c : c = Called(v)
  OBVIOUS
<1>13. IsSeq(c) /\ Len(c) = Len(els) /\ \A i \in 1 .. Len(els) : c[i] = body[els[i].open]
  BY <1>6, <1>7, <1>12, CalledFacts
<1>14. \A k \in 1 .. Len(at) : c[k] = body[at[k]]
  BY <1>8, <1>9, <1>13
<1>15. Drawn(c, body, n)
  BY <1>8, <1>10, <1>11, <1>13, <1>14, PlacedDrawn
<1>16. ASSUME NEW i \in 1 .. Len(c) PROVE c[i].t \in Invokes
  <2>1. PICK k \in 1 .. Len(tags) : els[i].open = tags[k].first /\ tags[k].t \in Invokes
    BY <1>3, <1>13
  <2> QED BY <1>2, <1>13, <2>1
<1> QED BY <1>1, <1>4, <1>6, <1>12, <1>15, <1>16 DEF Naming

(* Those of all wrappers are called in the order of the text. *)
LEMMA WrappedDrawn ==
  ASSUME NEW u, IsSeq(u)
  PROVE  IsSeq(Wrapped(u)) /\ Drawn(Called(Wrapped(u)), u, Len(u)) /\ Naming(Called(Wrapped(u)))
<1>22. PICK w : w = Wrappers(u)
  OBVIOUS
<1> DEFINE found == [i \in 1 .. Len(w) |-> InvokesIn(SubSeq(u, w[i].body, w[i].close - 1))]
<1>1. PICK n \in Nat : n = Len(u)
  BY IsSeqFacts
<1>2. InTurn(Tags(u), n)
  BY <1>1, TagsFacts, TagsOrder DEF InTurn
<1>20. IsSeq(w) /\ \A i, j \in 1 .. Len(w) : i < j => w[i].close < w[j].open
  BY <1>2, <1>22, ElementsOrder DEF Wrappers
<1>21. \A i \in 1 .. Len(w) :
         /\ w[i].open \in 1 .. n /\ w[i].close \in 1 .. n /\ w[i].body \in Nat /\ w[i].open < w[i].body
  BY <1>2, <1>22, ElementsOrder DEF Wrappers
<1>3. Wrapped(u) = FlattenSeq(found)
  BY <1>22 DEF Wrapped, InvokesOf
<1>4. Len(w) \in Nat
  BY <1>20, IsSeqFacts
<1>5. IsSeq(found) /\ Len(found) = Len(w)
  <2>1. found = [i \in 1 .. Len(w) |-> found[i]]
    OBVIOUS
  <2> HIDE DEF found
  <2> QED BY <1>4, <2>1, BuiltIsSeq
<1>6. \A i \in 1 .. Len(w) : found[i] = InvokesIn(SubSeq(u, w[i].body, w[i].close - 1))
  OBVIOUS
<1> HIDE DEF found
<1>7. ASSUME NEW i \in 1 .. Len(w)
      PROVE  /\ IsSeq(found[i])
             /\ \A j \in 1 .. Len(found[i]) : \E p \in w[i].body .. w[i].close - 1 :
                  found[i][j].call = u[p] /\ u[p].t \in Invokes
             /\ \A j, y \in 1 .. Len(found[i]) : j < y => \E p, q \in w[i].body .. w[i].close - 1 :
                  p < q /\ found[i][j].call = u[p] /\ found[i][y].call = u[q]
  <2>1. PICK b \in Nat \ {0}, c \in Nat : b = w[i].body /\ c = w[i].close - 1 /\ c <= n
    <3>1. PICK e, o, f : e = w[i].close /\ o = w[i].open /\ f = w[i].body
      OBVIOUS
    <3>2. e \in 1 .. n /\ o \in 1 .. n /\ f \in Nat /\ o < f
      BY <1>21, <3>1
    <3>3. f \in Nat \ {0} /\ e - 1 \in Nat /\ e - 1 <= n
      BY <3>2
    <3> QED BY <3>1, <3>3
  <2>2. PICK t : t = SubSeq(u, b, c)
    OBVIOUS
  <2>3. IsSeq(t) /\ \A k \in 1 .. Len(t) : b + k - 1 \in b .. c /\ t[k] = u[b + k - 1]
    <3>1. /\ IsSeq(t) /\ Len(t) = IF b <= c THEN c - b + 1 ELSE 0
          /\ \A k \in 1 .. c - b + 1 : t[k] = u[b + k - 1]
      BY <2>2, SubSeqIsSeq
    <3> QED BY <3>1
  <2>4. PICK v : v = found[i]
    OBVIOUS
  <2>5. IsSeq(v) /\ Drawn(Called(v), t, Len(t)) /\ Naming(Called(v))
    BY <1>6, <2>1, <2>2, <2>3, <2>4, InvokesInDrawn
  <2>6. Len(Called(v)) = Len(v) /\ \A j \in 1 .. Len(v) : Called(v)[j] = v[j].call
    BY <2>5, CalledFacts
  <2>7. ASSUME NEW j \in 1 .. Len(v) PROVE \E p \in b .. c : v[j].call = u[p] /\ u[p].t \in Invokes
    <3>1. PICK k \in 1 .. Len(t) : v[j].call = t[k] /\ v[j].call.t \in Invokes
      BY <2>5, <2>6 DEF Drawn, Naming
    <3>2. b + k - 1 \in b .. c /\ t[k] = u[b + k - 1]
      BY <2>3
    <3> QED BY <3>1, <3>2
  <2>8. ASSUME NEW j \in 1 .. Len(v), NEW y \in 1 .. Len(v), j < y
        PROVE  \E p, q \in b .. c : p < q /\ v[j].call = u[p] /\ v[y].call = u[q]
    <3>1. PICK k, l \in 1 .. Len(t) : k < l /\ v[j].call = t[k] /\ v[y].call = t[l]
      BY <2>5, <2>6, <2>8 DEF Drawn
    <3>2. /\ b + k - 1 \in b .. c /\ t[k] = u[b + k - 1] /\ b + l - 1 \in b .. c /\ t[l] = u[b + l - 1]
          /\ b + k - 1 < b + l - 1
      <4>1. b + k - 1 \in b .. c /\ t[k] = u[b + k - 1]
        BY <2>3
      <4>2. b + l - 1 \in b .. c /\ t[l] = u[b + l - 1]
        BY <2>3
      <4>3. k \in Nat /\ l \in Nat
        BY <2>3, IsSeqFacts
      <4>4. b + k - 1 < b + l - 1
        BY <3>1, <4>3
      <4> QED BY <4>1, <4>2, <4>4
    <3> QED BY <3>1, <3>2
  <2> QED BY <2>1, <2>4, <2>5, <2>7, <2>8
<1>8. PICK all : all = FlattenSeq(found)
  OBVIOUS
<1>9. /\ IsSeq(all) /\ \A i \in 1 .. Len(found) : IsSeq(found[i])
      /\ \A k \in 1 .. Len(all) : \E i \in 1 .. Len(w) : \E j \in 1 .. Len(found[i]) : all[k] = found[i][j]
  <2>1. \A i \in 1 .. Len(found) : IsSeq(found[i])
    BY <1>5, <1>7
  <2>2. /\ IsSeq(FlattenSeq(found))
        /\ \A k \in 1 .. Len(FlattenSeq(found)) :
             \E i \in 1 .. Len(found) : \E j \in 1 .. Len(found[i]) : FlattenSeq(found)[k] = found[i][j]
    BY <1>5, <2>1, FlattenFacts
  <2> QED BY <1>5, <1>8, <2>1, <2>2
<1>10. PICK c : c = Called(all)
  OBVIOUS
<1>11. IsSeq(c) /\ Len(c) = Len(all) /\ \A k \in 1 .. Len(all) : c[k] = all[k].call
  BY <1>9, <1>10, CalledFacts
<1>12. \A i \in 1 .. Len(w) : \A p \in w[i].body .. w[i].close - 1 : p \in 1 .. n
  <2> SUFFICES ASSUME NEW i \in 1 .. Len(w), NEW p \in w[i].body .. w[i].close - 1 PROVE p \in 1 .. n
    OBVIOUS
  <2>1. PICK b, e, o : b = w[i].body /\ e = w[i].close /\ o = w[i].open
    OBVIOUS
  <2>2. o \in 1 .. n /\ e \in 1 .. n /\ b \in Nat /\ o < b
    BY <1>21, <2>1
  <2>3. p \in b .. e - 1
    BY <2>1
  <2>4. p \in Nat /\ b <= p /\ p <= e - 1
    BY <2>2, <2>3
  <2> QED BY <2>2, <2>4
<1>13. ASSUME NEW k \in 1 .. Len(c) PROVE \E p \in 1 .. n : c[k] = u[p] /\ u[p].t \in Invokes
  <2>1. PICK i \in 1 .. Len(w) : \E j \in 1 .. Len(found[i]) : all[k] = found[i][j]
    BY <1>9, <1>11
  <2>2. PICK j \in 1 .. Len(found[i]) : all[k] = found[i][j]
    BY <2>1
  <2>3. PICK p \in w[i].body .. w[i].close - 1 : found[i][j].call = u[p] /\ u[p].t \in Invokes
    BY <1>7
  <2> QED BY <1>11, <1>12, <2>2, <2>3
<1>14. ASSUME NEW k \in 1 .. Len(c), NEW l \in 1 .. Len(c), k < l
       PROVE  \E p, q \in 1 .. n : p < q /\ c[k] = u[p] /\ c[l] = u[q]
  <2>1. PICK i, x \in 1 .. Len(w) : \E j \in 1 .. Len(found[i]) : \E y \in 1 .. Len(found[x]) :
           /\ all[k] = found[i][j] /\ all[l] = found[x][y]
           /\ i < x \/ (i = x /\ j < y)
    <3>1. k \in 1 .. Len(all) /\ l \in 1 .. Len(all)
      BY <1>11
    <3>2. Precedes(found, all[k], all[l])
      BY <1>5, <1>8, <1>9, <1>14, <3>1, FlattenOrder
    <3> QED BY <1>5, <3>2 DEF Precedes
  <2>2. PICK j \in 1 .. Len(found[i]), y \in 1 .. Len(found[x]) :
           /\ all[k] = found[i][j] /\ all[l] = found[x][y]
           /\ i < x \/ (i = x /\ j < y)
    BY <2>1
  <2>3. CASE i = x /\ j < y
    <3>1. PICK p, q \in w[i].body .. w[i].close - 1 :
            p < q /\ found[i][j].call = u[p] /\ found[i][y].call = u[q]
      BY <1>7, <2>3
    <3> QED BY <1>11, <1>12, <2>2, <2>3, <3>1
  <2>4. CASE i < x
    <3>1. PICK b, e, o, f, g :
            b = w[i].body /\ e = w[i].close /\ o = w[x].open /\ f = w[x].body /\ g = w[x].close
      OBVIOUS
    <3>2. e \in 1 .. n /\ o \in 1 .. n /\ f \in Nat /\ o < f
      BY <1>21, <3>1
    <3>3. e < o
      BY <1>20, <2>4, <3>1
    <3>4. PICK p \in b .. e - 1 : found[i][j].call = u[p]
      <4>1. \E p \in w[i].body .. w[i].close - 1 : found[i][j].call = u[p]
        BY <1>7
      <4> QED BY <3>1, <4>1
    <3>5. PICK q \in f .. g - 1 : found[x][y].call = u[q]
      <4>1. \E q \in w[x].body .. w[x].close - 1 : found[x][y].call = u[q]
        BY <1>7
      <4> QED BY <3>1, <4>1
    <3>6. p \in 1 .. n /\ q \in 1 .. n
      BY <1>12, <3>1
    <3>7. p <= e - 1 /\ f <= q
      BY <3>2, <3>6
    <3>8. p < q
      BY <3>2, <3>3, <3>6, <3>7
    <3> QED BY <1>11, <2>2, <3>4, <3>5, <3>6, <3>8
  <2> QED BY <2>2, <2>3, <2>4
<1>15. Drawn(c, u, n) /\ Naming(c)
  BY <1>11, <1>13, <1>14 DEF Drawn, Naming
<1> QED BY <1>1, <1>3, <1>8, <1>9, <1>10, <1>15

(* The lines of a text are pieces of it, in their order. *)
LinesLie(s, n, m, from, to) ==
  /\ \A k \in 1 .. m : /\ from[k] \in 1 .. n /\ to[k] \in 0 .. n /\ from[k] - 1 <= to[k]
                       /\ Lines(s)[k] = SubSeq(s, from[k], to[k])
  /\ \A k, l \in 1 .. m : k < l => to[k] < from[l]

(* Each line starts behind the end of the one before it. *)
LEMMA LinesOrder ==
  ASSUME NEW s, IsSeq(s), NEW n \in Nat, n = Len(s), NEW m \in Nat, m = Len(Lines(s))
  PROVE  \E from, to : LinesLie(s, n, m, from, to)
<1> DEFINE P == {i \in 1 .. n : i = 1 \/ s[i - 1].t = "\n"}
           starts == Places(P, n)
           to == [k \in 1 .. m |-> IF k = m THEN n ELSE starts[k + 1] - 1]
           lines == [k \in 1 .. Len(starts) |->
                       SubSeq(s, starts[k], IF k = Len(starts) THEN n ELSE starts[k + 1] - 1)]
<1>1. /\ Len(starts) \in Nat /\ \A k \in 1 .. Len(starts) : starts[k] \in 1 .. n
      /\ \A k, l \in 1 .. Len(starts) : k < l => starts[k] < starts[l]
  <2> HIDE DEF P
  <2> QED BY ListedPlaces, PlacesFacts
<1>2. Lines(s) = lines
  BY DEF Lines, LinesAt, starts
<1> HIDE DEF starts
<1>3. Len(lines) = Len(starts)
  <2>1. lines = [k \in 1 .. Len(starts) |-> lines[k]]
    OBVIOUS
  <2> HIDE DEF lines
  <2> QED BY <1>1, <2>1, BuiltIsSeq
<1>4. m = Len(starts)
  BY <1>2, <1>3
<1>5. \A k \in 1 .. m : to[k] = (IF k = m THEN n ELSE starts[k + 1] - 1) /\ Lines(s)[k] = SubSeq(s, starts[k], to[k])
  BY <1>2, <1>4
<1> HIDE DEF to, lines
<1>6. ASSUME NEW k \in 1 .. m PROVE to[k] \in 0 .. n /\ starts[k] - 1 <= to[k]
  <2>1. CASE k = m
    BY <1>1, <1>4, <1>5, <2>1
  <2>2. CASE k # m
    <3>1. k + 1 \in 1 .. m /\ k < k + 1
      BY <2>2
    <3>2. starts[k] \in 1 .. n /\ starts[k + 1] \in 1 .. n /\ starts[k] < starts[k + 1]
      BY <1>1, <1>4, <3>1
    <3> QED BY <1>5, <2>2, <3>2
  <2> QED BY <2>1, <2>2
<1>7. ASSUME NEW k \in 1 .. m, NEW l \in 1 .. m, k < l PROVE to[k] < starts[l]
  <2>1. k + 1 \in 1 .. m /\ k # m
    BY <1>7
  <2>2. starts[k + 1] <= starts[l] /\ starts[k + 1] \in Nat /\ starts[l] \in Nat
    <3>1. starts[k + 1] \in 1 .. n /\ starts[l] \in 1 .. n
      BY <1>1, <1>4, <2>1
    <3>2. CASE k + 1 = l
      BY <3>1, <3>2
    <3>3. CASE k + 1 # l
      <4>1. k + 1 < l
        BY <1>7, <3>3
      <4> QED BY <1>1, <1>4, <2>1, <3>1, <4>1
    <3> QED BY <3>2, <3>3
  <2> QED BY <1>5, <2>1, <2>2
<1>8. \A k \in 1 .. m : /\ starts[k] \in 1 .. n /\ to[k] \in 0 .. n /\ starts[k] - 1 <= to[k]
                        /\ Lines(s)[k] = SubSeq(s, starts[k], to[k])
  BY <1>1, <1>4, <1>5, <1>6
<1>9. \A k, l \in 1 .. m : k < l => to[k] < starts[l]
  BY <1>7
<1>10. PICK f, g : f = starts /\ g = to
  OBVIOUS
<1>11. LinesLie(s, n, m, f, g)
  BY <1>8, <1>9, <1>10 DEF LinesLie
<1> QED BY <1>11

(* What is left when the fenced lines are out is a selection of the text. *)
LEMMA StripFencedDrawn ==
  ASSUME NEW s, IsSeq(s)
  PROVE  Drawn(StripFenced(s), s, Len(s))
<1>1. PICK n \in Nat : n = Len(s)
  BY IsSeqFacts
<1>2. PICK m \in Nat : m = Len(Lines(s))
  BY LinesAreSeqs, IsSeqFacts
<1>0. PICK from, to : LinesLie(s, n, m, from, to)
  BY <1>1, <1>2, LinesOrder
<1>3. /\ \A k \in 1 .. m : /\ from[k] \in 1 .. n /\ to[k] \in 0 .. n /\ from[k] - 1 <= to[k]
                           /\ Lines(s)[k] = SubSeq(s, from[k], to[k])
      /\ \A k, l \in 1 .. m : k < l => to[k] < from[l]
  BY <1>0 DEF LinesLie
<1>4. PICK after : /\ StripFenced(s) = Unfenced(after[m]) /\ after[0] = NoneStripped
                   /\ \A i \in 1 .. m : after[i] = StripLine(after[i - 1], Lines(s)[i])
  BY <1>2, StripFencedSteps
<1> DEFINE end(i) == IF i = 0 THEN 0 ELSE to[i]
           Sound(a, i) == /\ DOMAIN a = {"out", "fence", "before", "cdata"} /\ Drawn(a.out, s, end(i))
                          /\ a.before \in Nat /\ a.before <= Len(a.out)
           Done == {i \in Nat : i <= m => Sound(after[i], i)}
<1>5. 0 \in Done
  <2>1. Drawn(<< >>, s, 0) /\ Len(<< >>) = 0
    BY EmptyDrawn, ShortIsSeq
  <2> QED BY <1>4, <2>1 DEF NoneStripped
<1>6. ASSUME NEW i \in Nat, i \in Done PROVE i + 1 \in Done
  <2> SUFFICES ASSUME i + 1 <= m PROVE Sound(after[i + 1], i + 1)
    <3> HIDE DEF Sound
    <3> QED OBVIOUS
  <2>1. PICK a : a = after[i]
    OBVIOUS
  <2>2. PICK f \in 1 .. n, g \in 0 .. n, h \in 0 .. n :
          f = from[i + 1] /\ g = to[i + 1] /\ h = end(i) /\ f - 1 <= g /\ h < f
    <3>1. i + 1 \in 1 .. m
      OBVIOUS
    <3>2. CASE i = 0
      BY <1>3, <3>1, <3>2
    <3>3. CASE i # 0
      <4>1. i \in 1 .. m /\ i < i + 1
        BY <3>3
      <4> QED BY <1>3, <3>1, <3>3, <4>1
    <3> QED BY <3>2, <3>3
  <2>3. PICK line : line = SubSeq(s, f, g)
    OBVIOUS
  <2>4. Sound(a, i) /\ after[i + 1] = StripLine(a, line)
    <3>1. i + 1 \in 1 .. m /\ (i + 1) - 1 = i /\ i <= m
      OBVIOUS
    <3>2. Sound(after[i], i)
      <4> HIDE DEF Sound
      <4> QED BY <1>6, <3>1
    <3> HIDE DEF Sound
    <3> QED BY <1>3, <1>4, <2>1, <2>2, <2>3, <3>1, <3>2
  <2>5. PICK out : out = a.out \o line
    OBVIOUS
  <2>6. Drawn(a.out, s, f - 1) /\ Drawn(a.out, s, g) /\ f - 1 \in Nat
    <3>1. Drawn(a.out, s, h)
      BY <2>2, <2>4
    <3>2. f - 1 \in Nat /\ h <= f - 1 /\ h <= g /\ h \in Nat /\ g \in Nat
      BY <2>2
    <3> QED BY <3>1, <3>2, DrawnFurther
  <2>7. Drawn(out, s, g)
    <3>1. Drawn(a.out \o SubSeq(s, (f - 1) + 1, g), s, g)
      BY <1>1, <2>2, <2>6, DrawnAndPiece
    <3>2. (f - 1) + 1 = f
      OBVIOUS
    <3> QED BY <2>3, <2>5, <3>1, <3>2
  <2>8. Len(a.out) \in Nat /\ Len(out) \in Nat /\ Len(a.out) <= Len(out)
    <3>1. IsSeq(a.out) /\ IsSeq(line)
      BY <2>3, <2>6, SubSeqIsSeq DEF Drawn
    <3> QED BY <2>5, <3>1, ConcatIsSeq, IsSeqFacts
  <2>9. end(i + 1) = g
    BY <2>2
  <2> HIDE DEF end
  <2>10. a.before <= Len(out) /\ a.before \in Nat
    BY <2>4, <2>8
  <2> QED BY <2>4, <2>5, <2>6, <2>7, <2>8, <2>9, <2>10 DEF StripLine
<1>7. m \in Done
  <2> HIDE DEF Done
  <2> QED BY <1>5, <1>6, SetInduction
<1>8. PICK a : a = after[m]
  OBVIOUS
<1>9. Sound(a, m)
  <2> HIDE DEF Sound
  <2> QED BY <1>7, <1>8
<1>10. end(m) \in Nat /\ end(m) <= n
  BY <1>3
<1> HIDE DEF end
<1>11. Drawn(a.out, s, n) /\ a.before \in Nat /\ a.before <= Len(a.out)
  BY <1>9, <1>10, DrawnFurther
<1>12. PICK b, t : b \in Nat /\ b = a.before /\ t = a.out
  BY <1>11
<1>13. IsSeq(t) /\ b <= Len(t) /\ Drawn(t, s, n)
  BY <1>11, <1>12 DEF Drawn
<1>14. Drawn(SubSeq(t, 1, b), t, Len(t))
  BY <1>12, <1>13, PieceDrawn
<1>15. Drawn(SubSeq(t, 1, b), s, n)
  BY <1>13, <1>14, DrawnTwice
<1> QED BY <1>1, <1>4, <1>8, <1>12, <1>13, <1>15 DEF Unfenced

(* The calls of the other dialects come in the order of the text.           *)
LEMMA MinimaxDrawn ==
  ASSUME NEW s, IsSeq(s)
  PROVE  /\ Drawn(MinimaxCalls(s), s, Len(s))
         /\ \A i \in 1 .. Len(MinimaxCalls(s)) : MinimaxCalls(s)[i].t = "minimax"
<1> DEFINE stops == [i \in 1 .. Len(s) |->
                      IF i \in MinimaxStarts(s) THEN FirstAt(s, i, {"</minimaxtool_call>"}) ELSE 0]
           at == Places(Outermost(stops), Len(stops))
           blocks == [k \in 1 .. Len(at) |-> [open |-> at[k], close |-> stops[at[k]]]]
           calls == [i \in 1 .. Len(blocks) |-> s[blocks[i].open]]
<1>1. PICK n \in Nat : n = Len(s)
  BY IsSeqFacts
<1>2. Len(stops) = n
  <2>1. stops = [i \in 1 .. n |-> stops[i]]
    BY <1>1
  <2> HIDE DEF stops
  <2> QED BY <2>1, BuiltIsSeq
<1>3. \A i \in 1 .. n : stops[i] # 0 => s[i].t = "minimax"
  BY <1>1 DEF MinimaxStarts, IsMarker, Kind
<1>4. \A i \in Outermost(stops) : stops[i] # 0
  BY DEF Outermost
<1>5. MinimaxCalls(s) = calls
  BY DEF MinimaxCalls, Openers, MinimaxBlocks, BlocksOf, BlocksAt, at, stops
<1> HIDE DEF stops
<1>6. /\ Len(at) \in Nat /\ \A k \in 1 .. Len(at) : at[k] \in Outermost(stops) /\ at[k] \in 1 .. n
      /\ \A k, l \in 1 .. Len(at) : k < l => at[k] < at[l]
  BY <1>2, ListedPlaces, PlacesFacts
<1>7. IsSeq(at)
  BY <1>2, PlacesFacts, SeqIsSeq
<1> HIDE DEF at
<1>8. Len(blocks) = Len(at) /\ \A k \in 1 .. Len(at) : blocks[k].open = at[k]
  <2>1. blocks = [k \in 1 .. Len(at) |-> blocks[k]] /\ \A k \in 1 .. Len(at) : blocks[k].open = at[k]
    OBVIOUS
  <2> HIDE DEF blocks
  <2> QED BY <1>6, <2>1, BuiltIsSeq
<1> HIDE DEF blocks
<1>9. IsSeq(calls) /\ Len(calls) = Len(at) /\ \A k \in 1 .. Len(at) : calls[k] = s[at[k]]
  <2>1. calls = [k \in 1 .. Len(blocks) |-> calls[k]] /\ \A k \in 1 .. Len(at) : calls[k] = s[at[k]]
    BY <1>8
  <2> HIDE DEF calls
  <2> QED BY <1>6, <1>8, <2>1, BuiltIsSeq
<1> HIDE DEF calls
<1>10. Drawn(calls, s, n)
  BY <1>6, <1>7, <1>9, PlacedDrawn
<1>11. \A k \in 1 .. Len(at) : s[at[k]].t = "minimax"
  BY <1>3, <1>4, <1>6
<1> QED BY <1>1, <1>5, <1>9, <1>10, <1>11

(* So do those of the shell fences. *)
LEMMA ShellDrawn ==
  ASSUME NEW s, IsSeq(s)
  PROVE  /\ Drawn(ShellCalls(Lines(s)), s, Len(s))
         /\ \A i \in 1 .. Len(ShellCalls(Lines(s))) : ShellCalls(Lines(s))[i].t = "shell fence"
<1>1. PICK n \in Nat : n = Len(s)
  BY IsSeqFacts
<1>2. PICK lines : lines = Lines(s)
  OBVIOUS
<1>3. PICK m \in Nat : m = Len(lines)
  BY <1>2, LinesAreSeqs, IsSeqFacts
<1>4. PICK from, to : LinesLie(s, n, m, from, to)
  BY <1>1, <1>2, <1>3, LinesOrder
<1>5. /\ \A k \in 1 .. m : /\ from[k] \in 1 .. n /\ to[k] \in 0 .. n
                           /\ lines[k] = SubSeq(s, from[k], to[k])
      /\ \A k, l \in 1 .. m : k < l => to[k] < from[l]
  BY <1>2, <1>4 DEF LinesLie
<1> DEFINE stops == [k \in 1 .. Len(lines) |->
                      IF Kind(TrimLeft(lines[k]), 1) = "shell fence"
                      THEN FirstOf({j \in k + 1 .. Len(lines) : ClosesFence(lines[j])}) ELSE 0]
           bodied == {k \in Outermost(stops) : ~IsBlank(FlattenSeq(SubSeq(lines, k + 1, stops[k] - 1)))}
           at == Places(bodied, Len(lines))
           calls == [i \in 1 .. Len(at) |-> TrimLeft(lines[at[i]])[1]]
<1>6. \A k \in 1 .. m : stops[k] # 0 => Kind(TrimLeft(lines[k]), 1) = "shell fence"
  BY <1>3
<1>7. \A k \in bodied : stops[k] # 0
  BY DEF Outermost
<1>8. ShellCalls(lines) = calls
  BY DEF ShellCalls
<1> HIDE DEF stops, bodied
<1>9. /\ Len(at) \in Nat /\ \A k \in 1 .. Len(at) : at[k] \in bodied /\ at[k] \in 1 .. m
      /\ \A k, l \in 1 .. Len(at) : k < l => at[k] < at[l]
  BY <1>3, ListedPlaces, PlacesFacts
<1> HIDE DEF at
<1>10. IsSeq(calls) /\ Len(calls) = Len(at) /\ \A k \in 1 .. Len(at) : calls[k] = TrimLeft(lines[at[k]])[1]
  <2>1. calls = [i \in 1 .. Len(at) |-> calls[i]] /\ \A k \in 1 .. Len(at) : calls[k] = TrimLeft(lines[at[k]])[1]
    OBVIOUS
  <2> HIDE DEF calls
  <2> QED BY <1>9, <2>1, BuiltIsSeq
<1> HIDE DEF calls
<1>11. ASSUME NEW k \in 1 .. Len(at)
       PROVE  /\ at[k] \in 1 .. m /\ calls[k].t = "shell fence"
              /\ \E p \in from[at[k]] .. to[at[k]] : p \in 1 .. n /\ calls[k] = s[p]
  <2>1. PICK a \in 1 .. m : a = at[k] /\ Kind(TrimLeft(lines[a]), 1) = "shell fence"
    BY <1>6, <1>7, <1>9
  <2>2. PICK line, t : line = lines[a] /\ t = TrimLeft(line)
    OBVIOUS
  <2>3. 1 \in 1 .. Len(t) /\ t[1].t = "shell fence" /\ calls[k] = t[1]
    BY <1>10, <2>1, <2>2 DEF Kind
  <2>4. PICK b \in 1 .. n, c \in 0 .. n : b = from[a] /\ c = to[a] /\ line = SubSeq(s, b, c)
    BY <1>5, <2>2
  <2>5. /\ IsSeq(line) /\ Len(line) = IF b <= c THEN c - b + 1 ELSE 0
        /\ \A i \in 1 .. c - b + 1 : line[i] = s[b + i - 1]
    <3>1. b \in Int /\ c \in Int
      OBVIOUS
    <3>2. /\ IsSeq(SubSeq(s, b, c)) /\ Len(SubSeq(s, b, c)) = IF b <= c THEN c - b + 1 ELSE 0
          /\ \A i \in 1 .. c - b + 1 : SubSeq(s, b, c)[i] = s[b + i - 1]
      BY <3>1, SubSeqIsSeq
    <3> QED BY <2>4, <3>2
  <2>6. PICK i \in 1 .. Len(line) : t[1] = line[i]
    BY <2>2, <2>3, <2>5, TrimDrawn DEF Drawn
  <2>7. b + i - 1 \in b .. c /\ b + i - 1 \in 1 .. n /\ line[i] = s[b + i - 1]
    BY <2>5
  <2> QED BY <2>1, <2>3, <2>4, <2>6, <2>7
<1>12. ASSUME NEW k \in 1 .. Len(calls), NEW l \in 1 .. Len(calls), k < l
       PROVE  \E p, q \in 1 .. n : p < q /\ calls[k] = s[p] /\ calls[l] = s[q]
  <2>1. PICK p \in from[at[k]] .. to[at[k]] : p \in 1 .. n /\ calls[k] = s[p]
    BY <1>10, <1>11
  <2>2. PICK q \in from[at[l]] .. to[at[l]] : q \in 1 .. n /\ calls[l] = s[q]
    BY <1>10, <1>11
  <2>3. at[k] \in 1 .. m /\ at[l] \in 1 .. m /\ at[k] < at[l]
    BY <1>9, <1>10, <1>12
  <2>4. PICK c \in Nat, b \in Nat : c = to[at[k]] /\ b = from[at[l]] /\ c < b
    <3>1. to[at[k]] \in 0 .. n /\ from[at[l]] \in 1 .. n
      BY <1>5, <2>3
    <3>2. to[at[k]] < from[at[l]]
      BY <1>5, <2>3
    <3> QED BY <3>1, <3>2
  <2>5. p <= c /\ b <= q /\ p \in Nat /\ q \in Nat
    BY <2>1, <2>2, <2>4
  <2>6. p < q
    BY <2>4, <2>5
  <2> QED BY <2>1, <2>2, <2>6
<1>13. Drawn(calls, s, n)
  BY <1>10, <1>11, <1>12 DEF Drawn
<1> QED BY <1>1, <1>2, <1>8, <1>10, <1>11, <1>13

--------------------------------------------------------------------------------
(* Tokens in the order of the reply *)

(* Tokens of the reply between two places, in order. *)
Inside(token, a, b) == "at" \in DOMAIN token /\ token.at \in Nat /\ a < token.at /\ token.at <= b
Within(s, a, b) ==
  /\ IsSeq(s)
  /\ \A k \in 1 .. Len(s) : Inside(s[k], a, b)
  /\ \A k, l \in 1 .. Len(s) : k < l => s[k].at < s[l].at

(* The same with the two halves of a wrapper that the parser has inserted. *)
IsHalf(token) == token.t \in {"<tool_calls", ">"} /\ token.at = 0
Laid(s, a, b) ==
  /\ IsSeq(s)
  /\ \A k \in 1 .. Len(s) : Inside(s[k], a, b) \/ IsHalf(s[k])
  /\ \A k, l \in 1 .. Len(s) : k < l /\ ~IsHalf(s[k]) /\ ~IsHalf(s[l]) => s[k].at < s[l].at

(* What lies between two places does so without inserted halves, too. *)
LEMMA WithinLaid ==
  ASSUME NEW s, NEW a, NEW b, Within(s, a, b)
  PROVE  Laid(s, a, b)
BY DEF Within, Laid, Inside

(* A selection of what lies between two places lies between them. *)
LEMMA WithinDrawn ==
  ASSUME NEW s, NEW a, NEW b, Within(s, a, b), NEW t, Drawn(t, s, Len(s))
  PROVE  Within(t, a, b)
<1>1. ASSUME NEW k \in 1 .. Len(t), NEW l \in 1 .. Len(t), k < l PROVE t[k].at < t[l].at
  <2>1. PICK i, j \in 1 .. Len(s) : i < j /\ t[k] = s[i] /\ t[l] = s[j]
    BY <1>1 DEF Drawn
  <2> QED BY <2>1 DEF Within
<1> QED BY <1>1 DEF Within, Drawn

(* So it does when halves were inserted. *)
LEMMA LaidDrawn ==
  ASSUME NEW s, NEW a, NEW b, Laid(s, a, b), NEW t, Drawn(t, s, Len(s))
  PROVE  Laid(t, a, b)
<1>1. ASSUME NEW k \in 1 .. Len(t), NEW l \in 1 .. Len(t), k < l, ~IsHalf(t[k]), ~IsHalf(t[l]) PROVE t[k].at < t[l].at
  <2>1. PICK i, j \in 1 .. Len(s) : i < j /\ t[k] = s[i] /\ t[l] = s[j]
    BY <1>1 DEF Drawn
  <2> QED BY <1>1, <2>1 DEF Laid
<1>2. ASSUME NEW k \in 1 .. Len(t) PROVE Inside(t[k], a, b) \/ IsHalf(t[k])
  <2>1. PICK i \in 1 .. Len(s) : t[k] = s[i]
    BY DEF Drawn
  <2> QED BY <2>1 DEF Laid
<1>3. IsSeq(t)
  BY DEF Drawn
<1> QED BY <1>1, <1>2, <1>3 DEF Laid

(* What is drawn without inserted halves are tokens of the reply. *)
LEMMA LaidTokens ==
  ASSUME NEW s, NEW a, NEW b, Laid(s, a, b), NEW t, Drawn(t, s, Len(s)),
         \A k \in 1 .. Len(t) : t[k].t \notin {"<tool_calls", ">"}
  PROVE  Within(t, a, b)
<1>1. Laid(t, a, b)
  BY LaidDrawn
<1>2. \A k \in 1 .. Len(t) : ~IsHalf(t[k])
  BY DEF IsHalf
<1> QED BY <1>1, <1>2 DEF Laid, Within, Inside

(* Two halves inserted in a text leave the order of the rest. *)
LEMMA InsertedLaid ==
  ASSUME NEW s, NEW a, NEW b, Laid(s, a, b), NEW m \in Nat, m <= Len(s), NEW u, IsSeq(u),
         Len(u) = Len(s) + 2, \A k \in 1 .. m : u[k] = s[k], \A k \in m + 3 .. Len(u) : u[k] = s[k - 2],
         IsHalf(u[m + 1]), IsHalf(u[m + 2])
  PROVE  Laid(u, a, b)
<1>1. PICK n \in Nat : n = Len(s)
  BY IsSeqFacts DEF Laid
<1>2. ASSUME NEW k \in 1 .. Len(u), ~IsHalf(u[k])
      PROVE  \E i \in 1 .. n : u[k] = s[i] /\ ((k <= m /\ i = k) \/ (k > m + 2 /\ i = k - 2))
  <2>1. k # m + 1 /\ k # m + 2 /\ k \in 1 .. n + 2
    BY <1>1, <1>2
  <2>2. CASE k <= m
    <3>1. k \in 1 .. m /\ k \in 1 .. n
      BY <1>1, <2>2
    <3> QED BY <2>2, <3>1
  <2>3. CASE ~(k <= m)
    <3>1. k \in m + 3 .. Len(u) /\ k - 2 \in 1 .. n /\ k > m + 2
      BY <1>1, <2>1, <2>3
    <3> QED BY <3>1
  <2> QED BY <2>2, <2>3
<1>3. ASSUME NEW k \in 1 .. Len(u) PROVE Inside(u[k], a, b) \/ IsHalf(u[k])
  <2>1. CASE ~IsHalf(u[k])
    <3>1. PICK i \in 1 .. n : u[k] = s[i]
      BY <1>2, <2>1
    <3> QED BY <1>1, <3>1 DEF Laid
  <2> QED BY <2>1
<1>4. ASSUME NEW k \in 1 .. Len(u), NEW l \in 1 .. Len(u), k < l, ~IsHalf(u[k]), ~IsHalf(u[l]) PROVE u[k].at < u[l].at
  <2>1. PICK i \in 1 .. n : u[k] = s[i] /\ ((k <= m /\ i = k) \/ (k > m + 2 /\ i = k - 2))
    BY <1>2, <1>4
  <2>2. PICK j \in 1 .. n : u[l] = s[j] /\ ((l <= m /\ j = l) \/ (l > m + 2 /\ j = l - 2))
    BY <1>2, <1>4
  <2>3. k \in Nat /\ l \in Nat /\ k < l
    BY <1>1, <1>4
  <2>4. i < j
    BY <2>1, <2>2, <2>3
  <2> QED BY <1>1, <1>4, <2>1, <2>2, <2>4 DEF Laid
<1> QED BY <1>3, <1>4 DEF Laid

(* A wrapper that is repaired has its halves inserted. *)
LEMMA RepairedLaid ==
  ASSUME NEW s, NEW a, NEW b, Laid(s, a, b)
  PROVE  Laid(RepairOpening(s), a, b)
<1> DEFINE inv == FirstKind(s, Invokes)
           new == <<Inserted("<tool_calls"), Inserted(">")>>
           first == SubSeq(s, 1, inv - 1)
           rest == TextFrom(s, inv)
<1>1. PICK n \in Nat : n = Len(s)
  BY IsSeqFacts DEF Laid
<1>2. inv \in Nat /\ (inv # 0 => inv \in 1 .. n)
  <2> DEFINE P == {i \in 1 .. Len(s) : s[i].t \in Invokes}
  <2>1. P \in SUBSET Nat /\ P \subseteq 1 .. n
    BY <1>1
  <2>2. inv = FirstOf(P)
    BY DEF FirstKind, FirstAt
  <2> HIDE DEF P, inv
  <2> QED BY <2>1, <2>2, FirstOfFacts
<1>3. RepairOpening(s) = s \/ (inv # 0 /\ RepairOpening(s) = first \o new \o rest)
  BY DEF RepairOpening
<1> HIDE DEF inv
<1>4. /\ IsSeq(new) /\ Len(new) = 2 /\ IsHalf(new[1]) /\ IsHalf(new[2])
  BY ShortIsSeq DEF IsHalf, Inserted
<1>5. ASSUME inv # 0 PROVE Laid(first \o new \o rest, a, b)
  <2>1. PICK m \in Nat : m = inv - 1 /\ m <= n /\ inv = m + 1
    BY <1>2, <1>5
  <2>2. /\ IsSeq(first) /\ Len(first) = m /\ \A k \in 1 .. m : first[k] = s[k]
    <3>1. /\ IsSeq(SubSeq(s, 1, m)) /\ Len(SubSeq(s, 1, m)) = IF 1 <= m THEN m - 1 + 1 ELSE 0
          /\ \A k \in 1 .. m - 1 + 1 : SubSeq(s, 1, m)[k] = s[1 + k - 1]
      BY SubSeqIsSeq
    <3> QED BY <2>1, <3>1
  <2>3. /\ IsSeq(rest) /\ Len(rest) = n - m /\ \A k \in 1 .. n - m : rest[k] = s[m + k]
    <3>1. /\ IsSeq(SubSeq(s, m + 1, n)) /\ Len(SubSeq(s, m + 1, n)) = IF m + 1 <= n THEN n - (m + 1) + 1 ELSE 0
          /\ \A k \in 1 .. n - (m + 1) + 1 : SubSeq(s, m + 1, n)[k] = s[(m + 1) + k - 1]
      BY SubSeqIsSeq
    <3>2. \A k \in 1 .. n - m : (m + 1) + k - 1 = m + k
      OBVIOUS
    <3> QED BY <1>1, <2>1, <3>1, <3>2 DEF TextFrom
  <2> HIDE DEF first, rest, new
  <2>4. PICK v : v = first \o new
    OBVIOUS
  <2>5. /\ IsSeq(v) /\ Len(v) = m + 2 /\ \A k \in 1 .. m : v[k] = s[k]
        /\ v[m + 1] = new[1] /\ v[m + 2] = new[2]
    <3>1. /\ IsSeq(first \o new) /\ Len(first \o new) = Len(first) + Len(new)
          /\ \A k \in 1 .. Len(first) : (first \o new)[k] = first[k]
          /\ \A k \in 1 .. Len(new) : (first \o new)[Len(first) + k] = new[k]
      <4>1. IsSeq(first) /\ IsSeq(new)
        BY <1>4, <2>2
      <4> QED BY <4>1, ConcatIsSeq
    <3>2. 1 \in 1 .. Len(new) /\ 2 \in 1 .. Len(new)
      BY <1>4
    <3> QED BY <1>4, <2>2, <2>4, <3>1, <3>2
  <2>6. PICK u : u = v \o rest
    OBVIOUS
  <2>7. /\ IsSeq(u) /\ Len(u) = n + 2 /\ \A k \in 1 .. m + 2 : u[k] = v[k]
        /\ \A k \in 1 .. n - m : u[m + 2 + k] = s[m + k]
    <3>1. /\ IsSeq(v \o rest) /\ Len(v \o rest) = Len(v) + Len(rest)
          /\ \A k \in 1 .. Len(v) : (v \o rest)[k] = v[k]
          /\ \A k \in 1 .. Len(rest) : (v \o rest)[Len(v) + k] = rest[k]
      BY <2>3, <2>5, ConcatIsSeq
    <3>2. IsSeq(u) /\ Len(u) = (m + 2) + (n - m)
      BY <2>3, <2>5, <2>6, <3>1
    <3>3. \A k \in 1 .. m + 2 : u[k] = v[k]
      BY <2>5, <2>6, <3>1
    <3>4. \A k \in 1 .. n - m : u[m + 2 + k] = s[m + k]
      BY <2>3, <2>5, <2>6, <3>1
    <3>5. (m + 2) + (n - m) = n + 2
      BY <2>1
    <3> QED BY <3>2, <3>3, <3>4, <3>5
  <2>8. \A k \in 1 .. m : u[k] = s[k]
    BY <2>5, <2>7
  <2>9. ASSUME NEW k \in m + 3 .. Len(u) PROVE u[k] = s[k - 2]
    <3>1. PICK j \in 1 .. n - m : j = k - (m + 2)
      BY <2>1, <2>7
    <3>2. k = m + 2 + j /\ k - 2 = m + j
      BY <3>1
    <3> QED BY <2>7, <3>2
  <2>10. IsHalf(u[m + 1]) /\ IsHalf(u[m + 2])
    BY <1>4, <2>5, <2>7
  <2>11. Laid(u, a, b)
    BY <1>1, <2>1, <2>7, <2>8, <2>9, <2>10, InsertedLaid
  <2> QED BY <2>4, <2>6, <2>11
<1> QED BY <1>3, <1>5

(* The calls found in a text are tokens of it, in its order. *)
LEMMA ParsedWithin ==
  ASSUME NEW s, NEW a, NEW b, Laid(s, a, b), NEW offered
  PROVE  Within(ParseStandalone(s, offered).calls, a, b)
<1> DEFINE Sound(v) == IsSeq(v) /\ Within(Called(v), a, b)
<1>1. ASSUME NEW u, Laid(u, a, b) PROVE Sound(Wrapped(u))
  <2>1. PICK c : c = Called(Wrapped(u))
    OBVIOUS
  <2>2. IsSeq(Wrapped(u)) /\ Drawn(c, u, Len(u)) /\ Naming(c)
    BY <1>1, <2>1, WrappedDrawn DEF Laid
  <2>3. \A k \in 1 .. Len(c) : c[k].t \notin {"<tool_calls", ">"}
    BY <2>2 DEF Naming, Invokes, Implicit
  <2> QED BY <1>1, <2>1, <2>2, <2>3, LaidTokens
<1>2. ASSUME NEW u, Laid(u, a, b) PROVE Sound(XMLInvokes(u))
  <2>1. Laid(RepairOpening(u), a, b)
    BY <1>2, RepairedLaid
  <2> HIDE DEF Sound
  <2> QED BY <1>1, <1>2, <2>1 DEF XMLInvokes
<1>3. ASSUME NEW u, Laid(u, a, b) PROVE Sound(ReadXML(u))
  <2>1. Drawn(SanitizeLooseCDATA(u), u, Len(u))
    BY <1>3, SanitizedDrawn DEF Laid
  <2>2. Laid(SanitizeLooseCDATA(u), a, b)
    BY <1>3, <2>1, LaidDrawn
  <2> HIDE DEF Sound
  <2> QED BY <1>2, <1>3, <2>2 DEF ReadXML, OrLoose
<1>4. ASSUME NEW u, Laid(u, a, b) PROVE Laid(TrimSpace(u), a, b)
  <2>1. Drawn(TrimSpace(u), u, Len(u))
    BY <1>4, TrimDrawn DEF Laid
  <2> QED BY <1>4, <2>1, LaidDrawn
<1>5. ASSUME NEW u, Laid(u, a, b) PROVE Sound(XMLOnly(u))
  <2>1. Drawn(StripFenced(u), u, Len(u))
    BY <1>5, StripFencedDrawn DEF Laid
  <2>2. Laid(TrimSpace(StripFenced(u)), a, b)
    BY <1>4, <1>5, <2>1, LaidDrawn
  <2> HIDE DEF Sound
  <2> QED BY <1>3, <2>2 DEF XMLOnly
<1> DEFINE all == WithImplicit(offered)
<1> HIDE DEF all
<1>6. ASSUME NEW v, Sound(v) PROVE Within(Canonical(Calls(v), all), a, b)
  <2> DEFINE kept == Picked(v, {i \in 1 .. Len(v) : v[i].meant})
             calls == [i \in 1 .. Len(kept) |-> kept[i].call]
  <2>1. Drawn(kept, v, Len(v))
    BY <1>6, PickedDrawn
  <2>3. Calls(v) = calls
    BY DEF Calls
  <2> HIDE DEF kept
  <2>4. IsSeq(calls) /\ Len(calls) = Len(kept) /\ \A k \in 1 .. Len(kept) : calls[k] = kept[k].call
    <3>1. calls = Called(kept)
      BY DEF Called
    <3>2. IsSeq(kept)
      BY <2>1 DEF Drawn
    <3> QED BY <3>1, <3>2, CalledFacts
  <2> HIDE DEF calls
  <2>5. PICK c : c = Called(v)
    OBVIOUS
  <2>6. /\ IsSeq(c) /\ Len(c) = Len(v) /\ \A i \in 1 .. Len(v) : c[i] = v[i].call
        /\ Within(c, a, b)
    BY <1>6, <2>5, CalledFacts
  <2>7. ASSUME NEW k \in 1 .. Len(calls) PROVE \E i \in 1 .. Len(c) : calls[k] = c[i]
    <3>1. k \in 1 .. Len(kept)
      BY <2>4
    <3>2. PICK i \in 1 .. Len(v) : kept[k] = v[i]
      BY <2>1, <3>1 DEF Drawn
    <3> QED BY <2>4, <2>6, <3>1, <3>2
  <2>8. ASSUME NEW k \in 1 .. Len(calls), NEW l \in 1 .. Len(calls), k < l
        PROVE  \E i, j \in 1 .. Len(c) : i < j /\ calls[k] = c[i] /\ calls[l] = c[j]
    <3>1. k \in 1 .. Len(kept) /\ l \in 1 .. Len(kept)
      BY <2>4
    <3>2. PICK i, j \in 1 .. Len(v) : i < j /\ kept[k] = v[i] /\ kept[l] = v[j]
      BY <2>1, <2>8, <3>1 DEF Drawn
    <3> QED BY <2>4, <2>6, <3>1, <3>2
  <2>9. Drawn(calls, c, Len(c))
    BY <2>4, <2>7, <2>8 DEF Drawn
  <2>10. Within(calls, a, b)
    BY <2>6, <2>9, WithinDrawn
  <2>11. Drawn(Canonical(calls, all), calls, Len(calls))
    BY <2>4, PickedDrawn DEF Canonical
  <2> QED BY <2>3, <2>10, <2>11, WithinDrawn
<1>7. ASSUME NEW u, Laid(u, a, b) PROVE Within(MultiFormat(u), a, b)
  <2>1. Within(MinimaxCalls(u), a, b)
    <3>1. \A i \in 1 .. Len(MinimaxCalls(u)) : MinimaxCalls(u)[i].t \notin {"<tool_calls", ">"}
      BY <1>7, MinimaxDrawn DEF Laid
    <3> QED BY <1>7, <3>1, MinimaxDrawn, LaidTokens DEF Laid
  <2>2. Within(ShellCalls(Lines(u)), a, b)
    <3>1. \A i \in 1 .. Len(ShellCalls(Lines(u))) : ShellCalls(Lines(u))[i].t \notin {"<tool_calls", ">"}
      BY <1>7, ShellDrawn DEF Laid
    <3> QED BY <1>7, <3>1, ShellDrawn, LaidTokens DEF Laid
  <2> QED BY <2>1, <2>2 DEF MultiFormat, OrElse
<1> HIDE DEF Sound
<1>8. Laid(TrimSpace(s), a, b)
  BY <1>4
<1>9. Within(<< >>, a, b)
  BY ShortIsSeq DEF Within
<1>10. Within(ParseTrimmed(TrimSpace(s), all).calls, a, b)
  <2>1. /\ Within(Canonical(Calls(XMLOnly(TrimSpace(s))), all), a, b)
        /\ Within(MultiFormat(TrimSpace(s)), a, b)
    BY <1>5, <1>6, <1>7, <1>8
  <2> QED BY <1>9, <2>1 DEF ParseTrimmed, FirstReading
<1> QED BY <1>10 DEF ParseStandalone, all

--------------------------------------------------------------------------------
(* Texts one after another, and cut *)

(* What lies between two places is a sequence. *)
LEMMA WithinFacts ==
  ASSUME NEW s, NEW a, NEW b, Within(s, a, b)
  PROVE  IsSeq(s) /\ Len(s) \in Nat
BY IsSeqFacts DEF Within

(* Nothing lies between any two places. *)
LEMMA NothingWithin == \A a, b : Within(<< >>, a, b)
BY ShortIsSeq DEF Within

(* What lies between two places lies between wider ones. *)
LEMMA WiderWithin ==
  ASSUME NEW a \in Nat, NEW b \in Nat, NEW c \in Nat, NEW d \in Nat, c <= a, b <= d, NEW s, Within(s, a, b)
  PROVE  Within(s, c, d)
<1>1. \A token : Inside(token, a, b) => Inside(token, c, d)
  BY DEF Inside
<1> QED BY <1>1 DEF Within

(* One text behind another. *)
LEMMA JoinedWithin ==
  ASSUME NEW a \in Nat, NEW b \in Nat, NEW c \in Nat, a <= b, b <= c, NEW s, NEW t, Within(s, a, b), Within(t, b, c)
  PROVE  Within(s \o t, a, c)
<1>1. PICK u : u = s \o t
  OBVIOUS
<1>2. PICK n \in Nat, m \in Nat : n = Len(s) /\ m = Len(t)
  BY WithinFacts
<1>3. /\ IsSeq(u) /\ Len(u) = n + m
      /\ \A i \in 1 .. n : u[i] = s[i]
      /\ \A i \in 1 .. m : u[n + i] = t[i]
  BY <1>1, <1>2, WithinFacts, ConcatIsSeq
<1>4. ASSUME NEW k \in 1 .. Len(u), ~(k <= n) PROVE k - n \in 1 .. m /\ u[k] = t[k - n]
  <2>1. k - n \in 1 .. m /\ n + (k - n) = k
    BY <1>3, <1>4
  <2> QED BY <1>3, <2>1
<1>5. ASSUME NEW k \in 1 .. Len(u), k <= n PROVE Inside(u[k], a, b)
  BY <1>2, <1>3, <1>5 DEF Within
<1>6. ASSUME NEW k \in 1 .. Len(u), ~(k <= n) PROVE Inside(u[k], b, c)
  BY <1>2, <1>4, <1>6 DEF Within
<1>7. ASSUME NEW k \in 1 .. Len(u) PROVE Inside(u[k], a, c)
  BY <1>5, <1>6 DEF Inside
<1>8. ASSUME NEW k \in 1 .. Len(u), NEW l \in 1 .. Len(u), k < l PROVE u[k].at < u[l].at
  <2>1. CASE l <= n
    <3>1. k \in 1 .. n /\ l \in 1 .. n
      BY <1>3, <1>8, <2>1
    <3>2. s[k].at < s[l].at
      BY <1>2, <1>8, <3>1 DEF Within
    <3> QED BY <1>3, <3>1, <3>2
  <2>2. CASE ~(l <= n) /\ k <= n
    <3>1. Inside(u[k], a, b) /\ Inside(u[l], b, c)
      BY <1>5, <1>6, <2>2
    <3> QED BY <3>1 DEF Inside
  <2>3. CASE ~(k <= n)
    <3>1. ~(l <= n)
      BY <1>3, <1>8, <2>3
    <3>2. k - n \in 1 .. m /\ u[k] = t[k - n] /\ l - n \in 1 .. m /\ u[l] = t[l - n]
      BY <1>4, <2>3, <3>1
    <3>3. k - n < l - n
      BY <1>8
    <3> QED BY <1>2, <3>2, <3>3 DEF Within
  <2> QED BY <2>1, <2>2, <2>3
<1> QED BY <1>1, <1>3, <1>7, <1>8 DEF Within

(* A place between what comes up to an entry of a text and what comes after it. *)
Parted(s, k, a, m, b) ==
  /\ \A i, j \in Int : i >= 1 /\ j <= k => Within(SubSeq(s, i, j), a, m)
  /\ \A i, j \in Int : i > k /\ j <= Len(s) => Within(SubSeq(s, i, j), m, b)

(* A text can be parted behind each of its entries. *)
LEMMA CutWithin ==
  ASSUME NEW a \in Nat, NEW b \in Nat, a <= b, NEW s, Within(s, a, b), NEW k \in Nat, k <= Len(s)
  PROVE  \E m \in Nat : a <= m /\ m <= b /\ Parted(s, k, a, m, b)
<1> DEFINE m == IF k = 0 THEN a ELSE s[k].at
<1>1. PICK n \in Nat : n = Len(s)
  BY WithinFacts
<1>2. m \in Nat /\ a <= m /\ m <= b
  BY <1>1 DEF Within, Inside
<1>3. \A i \in 1 .. k : Inside(s[i], a, m)
  <2>1. ASSUME NEW i \in 1 .. k PROVE s[i].at <= s[k].at
    <3>1. i = k \/ i < k
      OBVIOUS
    <3>2. s[i].at \in Nat /\ s[k].at \in Nat
      BY <1>1 DEF Within, Inside
    <3> QED BY <1>1, <3>1, <3>2 DEF Within
  <2> QED BY <1>1, <2>1 DEF Within, Inside
<1>4. \A i \in k + 1 .. n : Inside(s[i], m, b)
  <2>1. ASSUME NEW i \in k + 1 .. n, k # 0 PROVE s[k].at < s[i].at
    BY <1>1, <2>1 DEF Within
  <2> QED BY <1>1, <2>1 DEF Within, Inside
<1> HIDE DEF m
<1>5. ASSUME NEW i \in Int, NEW j \in Int, i >= 1, j <= n, NEW c, NEW d, \A x \in i .. j : Inside(s[x], c, d)
      PROVE  Within(SubSeq(s, i, j), c, d)
  <2>1. PICK t : t = SubSeq(s, i, j)
    OBVIOUS
  <2>2. /\ IsSeq(t) /\ Len(t) = IF i <= j THEN j - i + 1 ELSE 0
        /\ \A x \in 1 .. j - i + 1 : t[x] = s[i + x - 1]
    BY <2>1, SubSeqIsSeq
  <2>3. ASSUME NEW x \in 1 .. Len(t) PROVE i + x - 1 \in i .. j /\ i + x - 1 \in 1 .. n /\ t[x] = s[i + x - 1]
    BY <1>5, <2>2
  <2>4. \A x, y \in 1 .. Len(t) : x < y => i + x - 1 < i + y - 1
    BY <2>2
  <2>5. \A x, y \in 1 .. n : x < y => s[x].at < s[y].at
    BY <1>1 DEF Within
  <2>6. ASSUME NEW x \in 1 .. Len(t), NEW y \in 1 .. Len(t), x < y PROVE t[x].at < t[y].at
    BY <2>3, <2>4, <2>5, <2>6
  <2>7. \A x \in 1 .. Len(t) : Inside(t[x], c, d)
    BY <1>5, <2>3
  <2> QED BY <2>1, <2>2, <2>6, <2>7 DEF Within
<1>6. ASSUME NEW i \in Int, NEW j \in Int, i >= 1, j <= k PROVE Within(SubSeq(s, i, j), a, m)
  <2>1. \A x \in i .. j : x \in 1 .. k
    BY <1>6
  <2> QED BY <1>1, <1>3, <1>5, <1>6, <2>1
<1>7. ASSUME NEW i \in Int, NEW j \in Int, i > k, j <= n PROVE Within(SubSeq(s, i, j), m, b)
  <2>1. \A x \in i .. j : x \in k + 1 .. n
    BY <1>7
  <2> QED BY <1>1, <1>4, <1>5, <1>7, <2>1
<1> QED BY <1>1, <1>2, <1>6, <1>7 DEF Parted

(* A text that puts other tokens at the places of a text. *)
LEMMA SamePlaces ==
  ASSUME NEW a, NEW b, NEW s, Within(s, a, b), NEW u, IsSeq(u), Len(u) = Len(s),
         \A k \in 1 .. Len(s) : "at" \in DOMAIN u[k] /\ u[k].at = s[k].at
  PROVE  Within(u, a, b)
BY DEF Within, Inside

--------------------------------------------------------------------------------
(* What the sieve cuts *)

(* The text before a block, its calls, and the text after it. *)
CutLies(r, a, b) ==
  \E m \in Nat : /\ a <= m /\ m <= b
                 /\ Within(r.prefix, a, m) /\ Within(r.calls, a, m) /\ Within(r.suffix, m, b)

(* A block that is taken for text is cut at its end. *)
LEMMA AsTextLies ==
  ASSUME NEW a \in Nat, NEW b \in Nat, NEW m \in Nat, a <= m, m <= b,
         NEW prefix, NEW suffix, Within(prefix, a, m), Within(suffix, m, b)
  PROVE  CutLies(AsText(prefix, suffix), a, b)
BY NothingWithin DEF AsText, CutLies

(* The fence around a block is taken away. *)
LEMMA TrimmedFenceLies ==
  ASSUME NEW a, NEW b, NEW m, NEW prefix, NEW suffix, Within(prefix, a, m), Within(suffix, m, b)
  PROVE  /\ Within(TrimWrappingFence(prefix, suffix).prefix, a, m)
         /\ Within(TrimWrappingFence(prefix, suffix).suffix, m, b)
<1> DEFINE p == TrimRight(prefix)
           q == TrimLeft(suffix)
           wraps == Kind(p, Len(p)) = "fence" /\ FenceCount(p) % 2 = 1 /\ Kind(q, 1) \in FenceOpens
           rest == IF Kind(q, 1) = "fence" THEN Tail(q) ELSE <<[q[1] EXCEPT !.t = "word"]>> \o Tail(q)
<1>1. Within(p, a, m) /\ Within(q, m, b)
  <2>1. Drawn(p, prefix, Len(prefix)) /\ Drawn(q, suffix, Len(suffix))
    BY TrimDrawn DEF Within
  <2> QED BY <2>1, WithinDrawn
<1>2. TrimWrappingFence(prefix, suffix) =
        IF wraps THEN [prefix |-> Front(p), suffix |-> rest] ELSE [prefix |-> prefix, suffix |-> suffix]
  BY DEF TrimWrappingFence
<1>3. wraps => Kind(q, 1) \in FenceOpens
  OBVIOUS
<1> HIDE DEF p, q, wraps
<1>4. Within(Front(p), a, m)
  <2>1. IsSeq(p) /\ Len(p) \in Nat
    BY <1>1, WithinFacts
  <2>2. Drawn(SubSeq(p, 1, Len(p) - 1), p, Len(p))
    BY <2>1, PieceDrawn
  <2> QED BY <1>1, <2>2, WithinDrawn DEF Front
<1>5. ASSUME Kind(q, 1) \in FenceOpens PROVE Within(rest, m, b)
  <2>1. PICK n \in Nat : n = Len(q) /\ n # 0
    <3>1. 1 \in 1 .. Len(q)
      BY <1>5 DEF Kind, FenceOpens
    <3> QED BY <1>1, <3>1, WithinFacts
  <2>2. PICK t : t = Tail(q)
    OBVIOUS
  <2>3. IsSeq(t) /\ Len(t) = n - 1 /\ \A i \in 1 .. n - 1 : t[i] = q[i + 1]
    <3>1. q \in Seq(Entries(q)) /\ q # << >>
      BY <1>1, <2>1, WithinFacts, IsSeqFacts DEF IsSeq
    <3>2. t \in Seq(Entries(q)) /\ Len(t) = Len(q) - 1 /\ \A i \in 1 .. Len(t) : t[i] = q[i + 1]
      BY <2>2, <3>1, HeadTailProperties
    <3> QED BY <2>1, <3>2, SeqIsSeq
  <2>4. Within(t, m, b)
    <3>1. /\ \A i \in 1 .. n - 1 : i + 1 \in 1 .. n
          /\ \A i, j \in 1 .. n - 1 : i < j => i + 1 < j + 1
      BY <2>1
    <3>2. Drawn(t, q, n)
      BY <2>1, <2>3, <3>1 DEF Drawn
    <3> QED BY <1>1, <2>1, <3>2, WithinDrawn
  <2>5. PICK e, f : e = q[1] /\ f = [e EXCEPT !.t = "word"]
    OBVIOUS
  <2>6. "at" \in DOMAIN f /\ f.at = e.at
    <3>1. "at" \in DOMAIN e
      <4>1. 1 \in 1 .. Len(q)
        BY <2>1
      <4> QED BY <1>1, <2>5, <4>1 DEF Within, Inside
    <3> QED BY <2>5, <3>1
  <2>7. PICK h : h = <<f>>
    OBVIOUS
  <2>8. IsSeq(h) /\ Len(h) = 1 /\ h[1] = f
    BY <2>7, ShortIsSeq
  <2>9. PICK u : u = h \o t
    OBVIOUS
  <2>10. IsSeq(u) /\ Len(u) = 1 + (n - 1) /\ u[1] = f /\ \A i \in 1 .. n - 1 : u[1 + i] = t[i]
    <3>1. /\ IsSeq(u) /\ Len(u) = Len(h) + Len(t)
          /\ \A i \in 1 .. Len(h) : u[i] = h[i]
          /\ \A i \in 1 .. Len(t) : u[Len(h) + i] = t[i]
      <4>1. IsSeq(h) /\ IsSeq(t)
        BY <2>3, <2>8
      <4> QED BY <2>9, <4>1, ConcatIsSeq
    <3>2. 1 \in 1 .. 1
      OBVIOUS
    <3> QED BY <2>3, <2>8, <3>1, <3>2
  <2>11. ASSUME NEW k \in 1 .. n PROVE "at" \in DOMAIN u[k] /\ u[k].at = q[k].at
    <3>1. CASE k = 1
      BY <2>5, <2>6, <2>10, <3>1
    <3>2. CASE k # 1
      <4>1. k - 1 \in 1 .. n - 1 /\ 1 + (k - 1) = k /\ (k - 1) + 1 = k
        BY <3>2
      <4>2. u[k] = q[k]
        BY <2>3, <2>10, <4>1
      <4> QED BY <1>1, <2>1, <4>2 DEF Within, Inside
    <3> QED BY <3>1, <3>2
  <2>12. Within(u, m, b)
    <3>1. Len(u) = n
      BY <2>1, <2>10
    <3> QED BY <1>1, <2>1, <2>10, <2>11, <3>1, SamePlaces
  <2>13. rest = t \/ rest = u
    BY <2>2, <2>5, <2>7, <2>9
  <2> QED BY <2>4, <2>12, <2>13
<1> HIDE DEF rest
<1> QED BY <1>2, <1>3, <1>4, <1>5

(* Nothing, or the halves of a wrapper. *)
Openings == {<< >>, <<Inserted("<tool_calls"), Inserted(">")>>}

(* The text of a block, its wrapper opened. *)
LEMMA OpenedLaid ==
  ASSUME NEW a, NEW m, NEW s, Within(s, a, m), NEW opening \in Openings
  PROVE  Laid(opening \o s, a, m)
<1>1. Laid(s, a, m) /\ IsSeq(s)
  BY WithinLaid, WithinFacts
<1>2. CASE opening = << >>
  <2>1. << >> \o s = s
    BY <1>1, ConcatEmptySeq DEF IsSeq
  <2> QED BY <1>1, <1>2, <2>1
<1>3. CASE opening = <<Inserted("<tool_calls"), Inserted(">")>>
  <2>1. IsSeq(opening) /\ Len(opening) = 2 /\ IsHalf(opening[1]) /\ IsHalf(opening[2])
    BY <1>3, ShortIsSeq DEF IsHalf, Inserted
  <2>2. PICK u : u = opening \o s
    OBVIOUS
  <2>3. PICK n \in Nat : n = Len(s)
    BY <1>1, IsSeqFacts
  <2>4. /\ IsSeq(u) /\ Len(u) = 2 + n
        /\ \A i \in 1 .. 2 : u[i] = opening[i]
        /\ \A i \in 1 .. n : u[2 + i] = s[i]
    <3>1. PICK h : h = opening
      OBVIOUS
    <3>2. IsSeq(h) /\ Len(h) = 2
      BY <2>1, <3>1
    <3>3. /\ IsSeq(h \o s) /\ Len(h \o s) = Len(h) + Len(s)
          /\ \A i \in 1 .. Len(h) : (h \o s)[i] = h[i]
          /\ \A i \in 1 .. Len(s) : (h \o s)[Len(h) + i] = s[i]
      <4>1. IsSeq(h) /\ IsSeq(s)
        BY <1>1, <3>2
      <4> QED BY <4>1, ConcatIsSeq
    <3>4. u = h \o s
      BY <2>2, <3>1
    <3> QED BY <2>3, <3>1, <3>2, <3>3, <3>4
  <2>5. ASSUME NEW k \in 0 + 3 .. Len(u) PROVE u[k] = s[k - 2]
    <3>1. k - 2 \in 1 .. n /\ 2 + (k - 2) = k
      BY <2>3, <2>4
    <3> QED BY <2>4, <3>1
  <2>6. IsHalf(u[0 + 1]) /\ IsHalf(u[0 + 2])
    <3>1. 0 + 1 \in 1 .. 2 /\ 0 + 2 \in 1 .. 2 /\ 0 + 1 = 1 /\ 0 + 2 = 2
      OBVIOUS
    <3> QED BY <2>1, <2>4, <3>1
  <2>7. Len(u) = Len(s) + 2 /\ 0 \in Nat /\ 0 <= Len(s) /\ \A k \in 1 .. 0 : u[k] = s[k]
    BY <2>3, <2>4
  <2>8. Laid(u, a, m)
    BY <1>1, <2>4, <2>5, <2>6, <2>7, InsertedLaid
  <2> QED BY <2>2, <2>8
<1> QED BY <1>2, <1>3 DEF Openings

(* The block from place p of a text to its close. *)
LEMMA BlockLies ==
  ASSUME NEW a \in Nat, NEW b \in Nat, a <= b, NEW s, Within(s, a, b), NEW p \in 1 .. Len(s),
         NEW e \in p .. Len(s), NEW opening \in Openings, NEW offered
  PROVE  CutLies(BlockAt(s, p, e, opening, offered), a, b)
<1>1. PICK n \in Nat : n = Len(s)
  BY WithinFacts
<1>2. p \in Nat /\ e \in Nat /\ p >= 1 /\ p <= e /\ e <= n
  BY <1>1
<1>3. PICK m \in Nat : a <= m /\ m <= b /\ Parted(s, e, a, m, b)
  BY <1>1, <1>2, CutWithin
<1> DEFINE prefix == SubSeq(s, 1, p - 1)
           whole == SubSeq(s, 1, e)
           inner == SubSeq(s, p, e)
           suffix == TextFrom(s, e + 1)
<1>4. Within(prefix, a, m) /\ Within(whole, a, m) /\ Within(inner, a, m)
  <2>1. p - 1 \in Int /\ p - 1 <= e /\ 1 >= 1
    BY <1>2
  <2> QED BY <1>2, <1>3, <2>1 DEF Parted
<1>5. Within(suffix, m, b)
  <2>1. e + 1 \in Int /\ e + 1 > e /\ Len(s) \in Int /\ Len(s) <= Len(s)
    BY <1>1, <1>2
  <2> QED BY <1>3, <2>1 DEF Parted, TextFrom
<1>6. PICK parsed : parsed = ParseStandalone(opening \o inner, offered)
  OBVIOUS
<1>7. Within(parsed.calls, a, m)
  <2> HIDE DEF inner
  <2>1. Laid(opening \o inner, a, m)
    BY <1>4, OpenedLaid
  <2> QED BY <1>6, <2>1, ParsedWithin
<1>8. BlockAt(s, p, e, opening, offered) =
        IF parsed.calls # << >> THEN AsCalls(prefix, parsed.calls, suffix)
        ELSE IF parsed.saw THEN AsText(prefix, suffix)
        ELSE AsText(whole, suffix)
  BY <1>6 DEF BlockAt, BlockOf
<1> HIDE DEF prefix, whole, inner, suffix
<1>9. CutLies(AsText(prefix, suffix), a, b) /\ CutLies(AsText(whole, suffix), a, b)
  BY <1>3, <1>4, <1>5, AsTextLies
<1>10. CutLies(AsCalls(prefix, parsed.calls, suffix), a, b)
  <2>1. PICK cut : cut = TrimWrappingFence(prefix, suffix)
    OBVIOUS
  <2>2. Within(cut.prefix, a, m) /\ Within(cut.suffix, m, b)
    BY <1>4, <1>5, <2>1, TrimmedFenceLies
  <2>3. AsCalls(prefix, parsed.calls, suffix)
          = [ready |-> TRUE, prefix |-> cut.prefix, calls |-> parsed.calls, suffix |-> cut.suffix]
    BY <2>1 DEF AsCalls
  <2> QED BY <1>3, <1>7, <2>2, <2>3 DEF CutLies
<1> QED BY <1>8, <1>9, <1>10

(* What a capture has become, the wrapped blocks first. *)
LEMMA ConsumeXMLLies ==
  ASSUME NEW a \in Nat, NEW b \in Nat, a <= b, NEW s, Within(s, a, b), NEW offered
  PROVE  CutLies(ConsumeXML(s, offered), a, b)
<1>1. PICK tags : tags = Tags(s)
  OBVIOUS
<1>2. PICK n \in Nat : n = Len(s)
  BY WithinFacts
<1>3. /\ IsSeq(tags) /\ Len(tags) \in Nat /\ InTurn(tags, n)
  <2>1. IsSeq(s)
    BY WithinFacts
  <2>2. IsSeq(tags)
    BY <1>1, <2>1, TagsFacts
  <2>3. /\ \A k \in 1 .. Len(tags) :
             /\ tags[k].first \in 1 .. n /\ tags[k].last \in Nat
             /\ tags[k].first <= tags[k].last /\ tags[k].last <= n
        /\ \A k, l \in 1 .. Len(tags) : k < l => tags[k].last < tags[l].first
    BY <1>1, <1>2, <2>1, TagsOrder
  <2> QED BY <2>2, <2>3, IsSeqFacts DEF InTurn
<1>4. ASSUME NEW k \in 1 .. Len(tags), NEW l \in 1 .. Len(tags), k < l, NEW opening \in Openings
      PROVE  CutLies(BlockAt(s, tags[k].first, tags[l].last, opening, offered), a, b)
  <2>1. /\ tags[k].first \in 1 .. n /\ tags[l].first \in 1 .. n /\ tags[l].last \in Nat /\ tags[k].last \in Nat
        /\ tags[k].first <= tags[k].last /\ tags[l].first <= tags[l].last /\ tags[l].last <= n
        /\ tags[k].last < tags[l].first
    BY <1>3, <1>4 DEF InTurn
  <2>2. PICK p, e : p = tags[k].first /\ e = tags[l].last
    OBVIOUS
  <2>3. p \in 1 .. Len(s) /\ e \in p .. Len(s)
    <3>1. PICK v, w : v = tags[k].last /\ w = tags[l].first
      OBVIOUS
    <3>2. p \in 1 .. n /\ e \in Nat /\ v \in Nat /\ w \in 1 .. n /\ p <= v /\ v < w /\ w <= e /\ e <= n
      BY <2>1, <2>2, <3>1
    <3>3. p \in 1 .. n /\ e \in p .. n
      BY <3>2
    <3> QED BY <1>2, <3>3
  <2>4. CutLies(BlockAt(s, p, e, opening, offered), a, b)
    BY <2>3, BlockLies
  <2> QED BY <2>2, <2>4
<1>5. CutLies(NotReady, a, b)
  <2>1. a <= a
    OBVIOUS
  <2> QED BY <2>1, NothingWithin DEF NotReady, CutLies
<1>6. CutLies(BareInvoke(s, tags, offered), a, b)
  <2> DEFINE inv == FindTagOf(tags, 1, Invokes)
             wrapper == FindTagOf(tags, 1, {"<tool_calls"})
             close == FindTagOf(tags, inv + 1, {"</tool_calls>"})
             opening == <<Inserted("<tool_calls"), Inserted(">")>>
  <2>1. ASSUME NEW k \in Nat, NEW kinds
        PROVE  FindTagOf(tags, k, kinds) \in Nat /\ (FindTagOf(tags, k, kinds) # 0 => FindTagOf(tags, k, kinds) \in k .. Len(tags))
    <3> DEFINE P == {i \in k .. Len(tags) : tags[i].t \in kinds}
    <3>1. P \in SUBSET Nat
      OBVIOUS
    <3>2. FindTagOf(tags, k, kinds) = FirstOf(P)
      BY DEF FindTagOf, FirstAt
    <3>3. P \subseteq k .. Len(tags)
      OBVIOUS
    <3> HIDE DEF P
    <3> QED BY <3>1, <3>2, <3>3, FirstOfFacts
  <2>2. inv \in Nat /\ (inv # 0 => inv \in 1 .. Len(tags))
    BY <2>1
  <2> HIDE DEF inv
  <2>3. inv + 1 \in Nat
    BY <2>2
  <2>4. close # 0 => close \in inv + 1 .. Len(tags)
    BY <2>1, <2>3
  <2> HIDE DEF close, wrapper
  <2>5. opening \in Openings
    BY DEF Openings
  <2>6. BareInvoke(s, tags, offered) =
          IF inv = 0 \/ close = 0 \/ (wrapper # 0 /\ wrapper <= inv) THEN NotReady
          ELSE BlockAt(s, tags[inv].first, tags[close].last, opening, offered)
    BY DEF BareInvoke, inv, close, wrapper
  <2> HIDE DEF opening
  <2>7. ASSUME inv # 0, close # 0 PROVE CutLies(BlockAt(s, tags[inv].first, tags[close].last, opening, offered), a, b)
    <3>1. inv \in 1 .. Len(tags) /\ close \in 1 .. Len(tags) /\ inv < close
      BY <1>3, <2>2, <2>4, <2>7
    <3> QED BY <1>4, <2>5, <3>1
  <2> QED BY <1>5, <2>6, <2>7
<1>7. PICK blocks : blocks = ClosedBlocks(s, tags, offered)
  OBVIOUS
<1>8. DOMAIN blocks \in SUBSET Nat /\ \A k \in DOMAIN blocks : CutLies(blocks[k], a, b)
  <2> DEFINE D == {w \in WrapperTags(tags) : CloseOf(tags, w) # 0}
  <2>1. ASSUME NEW k \in D PROVE k \in 1 .. Len(tags) /\ CloseOf(tags, k) \in k + 1 .. Len(tags)
    <3>1. k \in 1 .. Len(tags) /\ CloseOf(tags, k) # 0
      BY DEF WrapperTags
    <3> QED BY <1>3, <3>1, CloseBehind DEF CloseOf
  <2>2. blocks = [k \in D |-> BlockAt(s, tags[k].first, tags[CloseOf(tags, k)].last, << >>, offered)]
    BY <1>7 DEF ClosedBlocks
  <2> HIDE DEF D
  <2>3. D \in SUBSET Nat
    BY <2>1
  <2>4. ASSUME NEW k \in D PROVE CutLies(BlockAt(s, tags[k].first, tags[CloseOf(tags, k)].last, << >>, offered), a, b)
    <3>1. PICK l : l = CloseOf(tags, k)
      OBVIOUS
    <3>2. k \in 1 .. Len(tags) /\ l \in 1 .. Len(tags) /\ k < l
      BY <1>3, <2>1, <3>1
    <3>3. << >> \in Openings
      BY DEF Openings
    <3> QED BY <1>4, <3>1, <3>2, <3>3
  <2> QED BY <2>2, <2>3, <2>4
<1>9. ASSUME NEW P \in SUBSET (DOMAIN blocks), P # {} PROVE Min(P) \in DOMAIN blocks
  <2>1. P \in SUBSET Nat
    BY <1>8
  <2>2. \E x \in P : \A y \in P : x =< y
    BY <1>9, <2>1, NatLeast
  <2>3. Min(P) \in P
    BY <2>2 DEF Min
  <2> QED BY <2>3
<1>10. CutLies(ConsumeWrapped(blocks, HasOpenWrapper(tags), BareInvoke(s, tags, offered)), a, b)
  <2> DEFINE parsed == {k \in DOMAIN blocks : blocks[k].calls # << >>}
  <2>1. parsed # {} => Min(parsed) \in DOMAIN blocks
    BY <1>9
  <2>2. DOMAIN blocks # {} => Min(DOMAIN blocks) \in DOMAIN blocks
    BY <1>9
  <2> HIDE DEF parsed
  <2> QED BY <1>5, <1>6, <1>8, <2>1, <2>2 DEF ConsumeWrapped, parsed
<1> QED BY <1>1, <1>7, <1>10 DEF ConsumeXML, ConsumeTags

(* What a capture has become. *)
LEMMA ConsumeCaptureLies ==
  ASSUME NEW a \in Nat, NEW b \in Nat, a <= b, NEW s, Within(s, a, b), NEW offered
  PROVE  CutLies(ConsumeCapture(s, offered), a, b)
<1> DEFINE calls == ParseStandalone(s, offered).calls
           xml == ConsumeXML(s, offered)
<1>1. CutLies(xml, a, b)
  BY ConsumeXMLLies
<1>2. Within(calls, a, b)
  BY WithinLaid, ParsedWithin
<1>3. a <= a /\ b <= b
  OBVIOUS
<1>4. CutLies(NotReady, a, b)
  BY <1>3, NothingWithin DEF NotReady, CutLies
<1>5. CutLies(AsText(s, << >>), a, b)
  BY <1>3, NothingWithin, AsTextLies
<1> HIDE DEF calls, xml
<1>6. CutLies([ready |-> TRUE, prefix |-> << >>, calls |-> calls, suffix |-> << >>], a, b)
  BY <1>2, <1>3, NothingWithin DEF CutLies
<1> QED BY <1>1, <1>4, <1>5, <1>6 DEF ConsumeCapture, Consumed, calls, xml

(* A block starts in the text, if it does. *)
LEMMA SegmentStartsInside ==
  ASSUME NEW st, NEW s, IsSeq(s)
  PROVE  FindToolSegmentStart(st, s) \in 0 .. Len(s)
<1>1. PICK n \in Nat : n = Len(s)
  BY IsSeqFacts
<1>2. ASSUME NEW P \in SUBSET (1 .. n) PROVE FirstOf(P) \in 0 .. n
  <2>1. P \in SUBSET Nat
    OBVIOUS
  <2>2. FirstOf(P) \in Nat /\ (FirstOf(P) # 0 => FirstOf(P) \in P)
    BY <2>1, FirstOfFacts
  <2> QED BY <2>2
<1>3. FindMinimaxMarker(st, s) \in 0 .. n
  <2> DEFINE P == {i \in MinimaxStarts(s) : ~InsideFence(st, SubSeq(s, 1, i - 1))}
  <2>1. P \in SUBSET (1 .. n)
    BY <1>1 DEF MinimaxStarts
  <2> HIDE DEF P
  <2> QED BY <1>2, <2>1 DEF FindMinimaxMarker, P
<1>4. FindShellFence(st, s) \in 0 .. n
  <2> DEFINE starts == {LineStart(s, i) : i \in {j \in 1 .. Len(s) : s[j].t = "shell fence"}} \ {0}
             P == {i \in starts : ~InsideFence(st, SubSeq(s, 1, i - 1))}
  <2>1. ASSUME NEW i \in 1 .. Len(s) PROVE LineStart(s, i) \in 0 .. n
    <3> DEFINE Q == {j \in 1 .. i - 1 : s[j].t # " "}
    <3>1. Q \in SUBSET (1 .. i - 1)
      BY Zenon
    <3>2. LineStart(s, i) = IF LastOf(Q) = 0 \/ Kind(s, LastOf(Q)) = "\n" THEN LastOf(Q) + 1 ELSE 0
      BY Zenon DEF LineStart
    <3> HIDE DEF Q
    <3>3. i - 1 \in Nat /\ i <= n
      BY <1>1
    <3>4. LastOf(Q) \in Nat /\ (LastOf(Q) # 0 => LastOf(Q) \in 1 .. i - 1)
      BY <3>1, <3>3, LastOfFacts
    <3>5. LastOf(Q) + 1 \in 0 .. n
      BY <3>3, <3>4
    <3> QED BY <1>1, <3>2, <3>5
  <2>2. \A x \in starts : x \in 0 .. n /\ x # 0
    BY <2>1
  <2>3. starts \in SUBSET (1 .. n)
    <3> HIDE DEF starts
    <3> QED BY <1>1, <2>2
  <2>4. P \in SUBSET starts
    OBVIOUS
  <2> HIDE DEF P, starts
  <2>5. FirstOf(P) \in 0 .. n
    BY <1>2, <2>3, <2>4
  <2> QED BY <2>5 DEF FindShellFence, P, starts
<1>5. FindTagOutsideFence(st, s) \in 0 .. n
  <2> DEFINE outside == {t \in ToSet(Tags(s)) : ~InsideFence(st, SubSeq(s, 1, t.first - 1))}
             P == {tag.first : tag \in outside}
  <2>1. \A t \in ToSet(Tags(s)) : t.first \in 1 .. n
    <3>1. DOMAIN Tags(s) = 1 .. Len(Tags(s))
      BY TagsFacts, IsSeqFacts
    <3> QED BY <1>1, <3>1, TagsFacts DEF ToSet
  <2>2. P \in SUBSET (1 .. n)
    BY <2>1
  <2> HIDE DEF P
  <2>3. FirstOf(P) \in 0 .. n
    BY <1>2, <2>2
  <2> QED BY <2>3 DEF FindTagOutsideFence, P
<1> QED BY <1>1, <1>3, <1>4, <1>5 DEF FindToolSegmentStart, FirstFound

--------------------------------------------------------------------------------
(* Texts and calls that events carry *)

(* Events tell texts that lie from a to b, and calls that lie from c to d,  *)
(* one behind another: f and g mark how far each event has come.            *)
Marked(out, f, g) ==
  \A i \in 1 .. Len(out) : /\ Within(out[i].content, f[i - 1], f[i])
                           /\ Within(out[i].calls, g[i - 1], g[i])
                           /\ f[i - 1] <= f[i] /\ g[i - 1] <= g[i]
EventMarks(out, a, b, c, d, f, g) ==
  /\ f \in [0 .. Len(out) -> Nat] /\ f[0] = a /\ f[Len(out)] <= b
  /\ g \in [0 .. Len(out) -> Nat] /\ g[0] = c /\ g[Len(out)] <= d
  /\ Marked(out, f, g)
EventsAt(out, a, b, c, d) == IsSeq(out) /\ \E f, g : EventMarks(out, a, b, c, d, f, g)

(* No event at all. *)
LEMMA NoEvents ==
  ASSUME NEW a \in Nat, NEW b \in Nat, NEW c \in Nat, NEW d \in Nat, a <= b, c <= d
  PROVE  EventsAt(<< >>, a, b, c, d)
<1> DEFINE f == [i \in 0 .. 0 |-> a]
           g == [i \in 0 .. 0 |-> c]
<1>1. IsSeq(<< >>) /\ Len(<< >>) = 0
  BY ShortIsSeq
<1>2. PICK none : none = << >> /\ Len(none) = 0
  BY <1>1
<1>3. Marked(none, f, g)
  BY <1>2 DEF Marked
<1>4. EventMarks(none, a, b, c, d, f, g)
  BY <1>2, <1>3 DEF EventMarks
<1> HIDE DEF f, g
<1> QED BY <1>1, <1>2, <1>4 DEF EventsAt

(* One event. *)
LEMMA OneEvent ==
  ASSUME NEW a \in Nat, NEW b \in Nat, NEW c \in Nat, NEW d \in Nat, a <= b, c <= d,
         NEW e, Within(e.content, a, b), Within(e.calls, c, d)
  PROVE  EventsAt(<<e>>, a, b, c, d)
<1> DEFINE f == [i \in 0 .. 1 |-> IF i = 0 THEN a ELSE b]
           g == [i \in 0 .. 1 |-> IF i = 0 THEN c ELSE d]
<1>1. IsSeq(<<e>>) /\ Len(<<e>>) = 1 /\ <<e>>[1] = e
  BY ShortIsSeq
<1>2. PICK one : one = <<e>> /\ Len(one) = 1 /\ one[1] = e
  BY <1>1
<1>3. Marked(one, f, g)
  <2>1. \A i \in 1 .. Len(one) : i = 1 /\ i - 1 = 0
    BY <1>2
  <2>2. f[0] = a /\ f[1] = b /\ g[0] = c /\ g[1] = d
    OBVIOUS
  <2> HIDE DEF f, g
  <2> QED BY <1>2, <2>1, <2>2 DEF Marked
<1>4. EventMarks(one, a, b, c, d, f, g)
  BY <1>2, <1>3 DEF EventMarks
<1> HIDE DEF f, g
<1> QED BY <1>1, <1>2, <1>4 DEF EventsAt

(* Events behind events. *)
LEMMA EventsBehind ==
  ASSUME NEW a \in Nat, NEW b \in Nat, NEW c \in Nat, NEW d \in Nat, NEW m \in Nat, NEW h \in Nat,
         NEW x, EventsAt(x, a, m, c, h), NEW y, EventsAt(y, m, b, h, d)
  PROVE  EventsAt(x \o y, a, b, c, d)
<1>1. PICK z : z = x \o y
  OBVIOUS
<1>2. IsSeq(x) /\ IsSeq(y)
  BY DEF EventsAt
<1>3. PICK n \in Nat, l \in Nat : n = Len(x) /\ l = Len(y)
  BY <1>2, IsSeqFacts
<1>4. /\ IsSeq(z) /\ Len(z) = n + l
      /\ \A i \in 1 .. n : z[i] = x[i]
      /\ \A i \in 1 .. l : z[n + i] = y[i]
  BY <1>1, <1>2, <1>3, ConcatIsSeq
<1>5. PICK f1, g1 : EventMarks(x, a, m, c, h, f1, g1)
  BY DEF EventsAt
<1>6. PICK f2, g2 : EventMarks(y, m, b, h, d, f2, g2)
  BY DEF EventsAt
<1> DEFINE f == [i \in 0 .. n + l |-> IF i <= n THEN f1[i] ELSE f2[i - n]]
           g == [i \in 0 .. n + l |-> IF i <= n THEN g1[i] ELSE g2[i - n]]
<1>7. /\ f1 \in [0 .. n -> Nat] /\ f1[0] = a /\ f1[n] <= m /\ f2 \in [0 .. l -> Nat] /\ f2[0] = m /\ f2[l] <= b
      /\ g1 \in [0 .. n -> Nat] /\ g1[0] = c /\ g1[n] <= h /\ g2 \in [0 .. l -> Nat] /\ g2[0] = h /\ g2[l] <= d
  BY <1>3, <1>5, <1>6 DEF EventMarks
<1>8. /\ \A i \in 0 .. n : f[i] = f1[i] /\ g[i] = g1[i]
      /\ \A i \in 1 .. l : f[n + i] = f2[i] /\ g[n + i] = g2[i]
  OBVIOUS
<1>9. f \in [0 .. n + l -> Nat] /\ g \in [0 .. n + l -> Nat]
  <2>1. \A i \in 0 .. n + l : i <= n => i \in 0 .. n
    OBVIOUS
  <2>2. \A i \in 0 .. n + l : ~(i <= n) => i - n \in 0 .. l
    OBVIOUS
  <2> QED BY <1>7, <2>1, <2>2
<1>10. f[0] = a /\ f[n + l] <= b /\ g[0] = c /\ g[n + l] <= d
  <2>1. CASE l = 0
    BY <1>7, <2>1
  <2>2. CASE l # 0
    BY <1>7, <2>2
  <2> QED BY <2>1, <2>2
<1> HIDE DEF f, g
<1>11. Marked(z, f, g)
  <2> SUFFICES ASSUME NEW i \in 1 .. n + l
               PROVE  /\ Within(z[i].content, f[i - 1], f[i]) /\ Within(z[i].calls, g[i - 1], g[i])
                      /\ f[i - 1] <= f[i] /\ g[i - 1] <= g[i]
    BY <1>4 DEF Marked
  <2>1. CASE i <= n
    <3>1. i \in 1 .. n /\ i \in 0 .. n /\ i - 1 \in 0 .. n
      BY <2>1
    <3>2. f[i - 1] = f1[i - 1] /\ f[i] = f1[i] /\ g[i - 1] = g1[i - 1] /\ g[i] = g1[i] /\ z[i] = x[i]
      BY <1>4, <1>8, <3>1
    <3> QED BY <1>3, <1>5, <3>1, <3>2 DEF EventMarks, Marked
  <2>2. CASE ~(i <= n)
    <3>1. PICK j \in 1 .. l : i = n + j
      <4>1. i - n \in 1 .. l /\ i = n + (i - n)
        BY <2>2
      <4> QED BY <4>1
    <3>2. f[i] = f2[j] /\ g[i] = g2[j] /\ z[i] = y[j]
      BY <1>4, <1>8, <3>1
    <3>3. f[i - 1] \in Nat /\ f[i - 1] <= f2[j - 1] /\ g[i - 1] \in Nat /\ g[i - 1] <= g2[j - 1]
      <4>1. CASE j = 1
        <5>1. i - 1 = n /\ n \in 0 .. n /\ j - 1 = 0
          BY <3>1, <4>1
        <5>2. f[n] = f1[n] /\ g[n] = g1[n]
          BY <1>8, <5>1
        <5>3. f1[n] \in Nat /\ g1[n] \in Nat /\ f1[n] <= f2[0] /\ g1[n] <= g2[0]
          BY <1>7, <5>1
        <5> QED BY <5>1, <5>2, <5>3
      <4>2. CASE j # 1
        <5>1. j - 1 \in 1 .. l /\ j - 1 \in 0 .. l /\ i - 1 = n + (j - 1)
          BY <3>1, <4>2
        <5>2. PICK v \in 1 .. l : v = j - 1
          BY <5>1
        <5>3. f[n + v] = f2[v] /\ g[n + v] = g2[v]
          BY <1>8
        <5>4. f2[v] \in Nat /\ g2[v] \in Nat
          BY <1>7, <5>1, <5>2
        <5> QED BY <5>1, <5>2, <5>3, <5>4
      <4> QED BY <4>1, <4>2
    <3>4. j \in 0 .. l /\ j - 1 \in 0 .. l
      OBVIOUS
    <3>5. f2[j - 1] \in Nat /\ f2[j] \in Nat /\ g2[j - 1] \in Nat /\ g2[j] \in Nat
      BY <1>7, <3>4
    <3>6. /\ Within(y[j].content, f2[j - 1], f2[j]) /\ Within(y[j].calls, g2[j - 1], g2[j])
          /\ f2[j - 1] <= f2[j] /\ g2[j - 1] <= g2[j]
      BY <1>3, <1>6 DEF EventMarks, Marked
    <3>7. PICK p, q, r, s : p = f[i - 1] /\ q = g[i - 1] /\ r = f2[j - 1] /\ s = g2[j - 1]
      OBVIOUS
    <3>8. Within(y[j].content, p, f2[j]) /\ Within(y[j].calls, q, g2[j])
      <4>1. p \in Nat /\ q \in Nat /\ r \in Nat /\ s \in Nat /\ p <= r /\ q <= s
        BY <3>3, <3>5, <3>7
      <4>2. Within(y[j].content, r, f2[j]) /\ Within(y[j].calls, s, g2[j])
        BY <3>6, <3>7
      <4>3. f2[j] <= f2[j] /\ g2[j] <= g2[j]
        BY <3>5
      <4>4. Within(y[j].content, p, f2[j])
        BY <3>5, <4>1, <4>2, <4>3, WiderWithin
      <4>5. Within(y[j].calls, q, g2[j])
        BY <3>5, <4>1, <4>2, <4>3, WiderWithin
      <4> QED BY <4>4, <4>5
    <3> QED BY <3>2, <3>3, <3>5, <3>6, <3>7, <3>8
  <2> QED BY <2>1, <2>2
<1>12. EventMarks(z, a, b, c, d, f, g)
  BY <1>4, <1>9, <1>10, <1>11 DEF EventMarks
<1> QED BY <1>1, <1>4, <1>12 DEF EventsAt

(* Text that is handed out, and calls. *)
LEMMA TextLies ==
  ASSUME NEW a \in Nat, NEW b \in Nat, NEW c \in Nat, a <= b, NEW s, Within(s, a, b)
  PROVE  EventsAt(Text(s), a, b, c, c)
<1>1. c <= c
  OBVIOUS
<1>2. PICK e : e = Content(s)
  OBVIOUS
<1>3. e.content = s /\ e.calls = << >>
  BY <1>2 DEF Content
<1>4. EventsAt(<<e>>, a, b, c, c)
  BY <1>1, <1>3, NothingWithin, OneEvent
<1> QED BY <1>1, <1>2, <1>4, NoEvents DEF Text

(* Calls that are handed out, if there are any. *)
LEMMA HandOutLies ==
  ASSUME NEW a \in Nat, NEW c \in Nat, NEW d \in Nat, c <= d, NEW calls, Within(calls, c, d)
  PROVE  EventsAt(IF calls = << >> THEN << >> ELSE <<CallEvent(calls)>>, a, a, c, d)
<1>1. a <= a
  OBVIOUS
<1>2. PICK e : e = CallEvent(calls)
  OBVIOUS
<1>3. e.content = << >> /\ e.calls = calls
  BY <1>2 DEF CallEvent
<1>4. EventsAt(<<e>>, a, a, c, d)
  BY <1>1, <1>3, NothingWithin, OneEvent
<1> QED BY <1>1, <1>2, <1>4, NoEvents

--------------------------------------------------------------------------------
(* The sieve *)

(* Where a sieve is: the calls it has ready lie from c to a, the text it    *)
(* holds back from a to b.                                                  *)
SieveAt(st, c, a, b) ==
  /\ c \in Nat /\ a \in Nat /\ b \in Nat /\ c <= a /\ a <= b
  /\ Within(st.ready, c, a) /\ Within(st.capture \o st.pending, a, b)
  /\ ~st.capturing => st.capture = << >>

(* A round hands out the text up to a place of what the sieve holds. *)
RoundLies(r, c, a, b) ==
  \E m \in Nat : a <= m /\ m <= b /\ SieveAt(r.st, c, m, b) /\ EventsAt(r.out, a, m, c, c)

(* Nothing before or behind a text changes it. *)
LEMMA NothingAround ==
  ASSUME NEW s, IsSeq(s)
  PROVE  << >> \o s = s /\ s \o << >> = s
BY ConcatEmptySeq DEF IsSeq

(* Three texts one behind another, in either grouping. *)
LEMMA ConcatThree ==
  ASSUME NEW s, NEW t, NEW u, IsSeq(s), IsSeq(t), IsSeq(u)
  PROVE  s \o (t \o u) = (s \o t) \o u
<1> DEFINE S == Entries(s) \cup Entries(t) \cup Entries(u)
<1>1. s \in Seq(S) /\ t \in Seq(S) /\ u \in Seq(S)
  BY SeqMonotonic DEF IsSeq
<1> HIDE DEF S
<1> QED BY <1>1, ConcatAssociative

(* A capture that has become something. *)
LEMMA AfterCaptureLies ==
  ASSUME NEW st, NEW offered, SieveOk(st, offered), NEW c, NEW a, NEW b, SieveAt(st, c, a, b),
         st.capturing, NEW s, Within(s, a, b), NEW r, CutLies(r, a, b)
  PROVE  RoundLies(AfterCapture(st, s, r), c, a, b)
<1>1. c \in Nat /\ a \in Nat /\ b \in Nat /\ c <= a /\ a <= b /\ a <= a /\ c <= c
  BY DEF SieveAt
<1>2. PICK m \in Nat : /\ a <= m /\ m <= b
                       /\ Within(r.prefix, a, m) /\ Within(r.calls, a, m) /\ Within(r.suffix, m, b)
  BY DEF CutLies
<1> DEFINE noted == IF r.prefix = << >> THEN st ELSE NoteText(st, r.prefix)
           ready == IF r.calls # << >> THEN r.calls ELSE noted.ready
           next == [noted EXCEPT !.capture = << >>, !.capturing = FALSE, !.pending = r.suffix, !.ready = ready]
           held == [st EXCEPT !.capture = s, !.pending = << >>]
<1>3. AfterCapture(st, s, r) =
        IF ~r.ready THEN [st |-> held, out |-> << >>, more |-> FALSE]
        ELSE [st |-> next, out |-> Text(r.prefix), more |-> TRUE]
  BY DEF AfterCapture
<1>4. DOMAIN noted = SieveFields /\ noted.ready = st.ready
  BY NoteTextKeeps DEF SieveOk
<1> HIDE DEF noted
<1>5. Within(ready, c, m)
  <2>1. Within(st.ready, c, a)
    BY DEF SieveAt
  <2>2. Within(st.ready, c, m)
    BY <1>1, <1>2, <2>1, WiderWithin
  <2>3. Within(r.calls, c, m)
    <3>1. m <= m
      OBVIOUS
    <3> QED BY <1>1, <1>2, <3>1, WiderWithin
  <2> QED BY <1>4, <2>2, <2>3
<1> HIDE DEF ready
<1>6. SieveAt(next, c, m, b)
  <2>1. next.capture = << >> /\ next.pending = r.suffix /\ next.ready = ready /\ next.capturing = FALSE
    BY <1>4 DEF SieveFields
  <2>2. << >> \o r.suffix = r.suffix
    BY <1>2, NothingAround, WithinFacts
  <2> HIDE DEF next
  <2> QED BY <1>1, <1>2, <1>5, <2>1, <2>2 DEF SieveAt
<1>7. SieveAt(held, c, a, b)
  <2>1. held.capture = s /\ held.pending = << >> /\ held.ready = st.ready /\ held.capturing = st.capturing
    BY DEF SieveOk, SieveFields
  <2>2. s \o << >> = s
    BY NothingAround, WithinFacts
  <2> HIDE DEF held
  <2> QED BY <1>1, <2>1, <2>2 DEF SieveAt
<1> HIDE DEF next, held
<1>8. EventsAt(Text(r.prefix), a, m, c, c) /\ EventsAt(<< >>, a, a, c, c)
  BY <1>1, <1>2, TextLies, NoEvents
<1> QED BY <1>1, <1>2, <1>3, <1>6, <1>7, <1>8 DEF RoundLies

(* Text, up to where a block starts or to where it may yet become one. *)
LEMMA AfterTextLies ==
  ASSUME NEW st, NEW offered, SieveOk(st, offered), NEW c, NEW a, NEW b, SieveAt(st, c, a, b),
         ~st.capturing, NEW s, Within(s, a, b), s = st.capture \o st.pending,
         NEW start \in 0 .. Len(s), NEW l \in Int, s # << >> => l \in Nat /\ l <= Len(s)
  PROVE  RoundLies(AfterText(st, s, start, SubSeq(s, 1, l)), c, a, b)
<1>1. c \in Nat /\ a \in Nat /\ b \in Nat /\ c <= a /\ a <= b /\ a <= a /\ c <= c
  BY DEF SieveAt
<1> DEFINE safe == SubSeq(s, 1, l)
           before == SubSeq(s, 1, start - 1)
           noted == NoteText(st, before)
           passed == NoteText(st, safe)
           captures == [noted EXCEPT !.pending = << >>, !.capture = TextFrom(s, start), !.capturing = TRUE]
           passes == [passed EXCEPT !.pending = TextFrom(s, Len(safe) + 1)]
<1>2. AfterText(st, s, start, safe) =
          IF s = << >> \/ (start = 0 /\ safe = << >>) THEN [st |-> st, out |-> << >>, more |-> FALSE]
          ELSE IF start # 0 THEN [st |-> captures, out |-> Text(before), more |-> TRUE]
          ELSE [st |-> passes, out |-> Text(safe), more |-> TRUE]
    BY DEF AfterText
<1>3. PICK n \in Nat : n = Len(s)
  BY WithinFacts
<1>4. DOMAIN noted = SieveFields /\ noted.ready = st.ready
  BY NoteTextKeeps
<1>5. DOMAIN passed = SieveFields /\ passed.ready = st.ready /\ passed.capture = << >>
  BY NoteTextKeeps DEF SieveAt
<1>6. Within(st.ready, c, a)
  BY DEF SieveAt
<1>7. ASSUME start # 0
      PROVE  \E m \in Nat : a <= m /\ m <= b /\ SieveAt(captures, c, m, b) /\ EventsAt(Text(before), a, m, c, c)
  <2>0. start \in 0 .. n /\ start # 0
    BY <1>3, <1>7
  <2>1. start - 1 \in Nat /\ start - 1 <= n /\ start \in Int
    BY <2>0
  <2>2. PICK k : k = start - 1
    OBVIOUS
  <2>3. PICK m \in Nat : a <= m /\ m <= b /\ Parted(s, k, a, m, b)
    BY <1>1, <1>3, <2>1, <2>2, CutWithin
  <2>4. Within(SubSeq(s, 1, k), a, m) /\ Within(SubSeq(s, start, n), m, b)
    <3>1. 1 \in Int /\ k \in Int /\ n \in Int /\ 1 >= 1 /\ k <= k /\ start > k /\ n <= n
      BY <2>1, <2>2
    <3> QED BY <1>3, <2>1, <2>3, <3>1 DEF Parted
  <2>5. PICK after : after = SubSeq(s, start, n)
    OBVIOUS
  <2>6. TextFrom(s, start) = after
    BY <1>3, <2>5 DEF TextFrom
  <2>7. captures.capture = after /\ captures.pending = << >> /\ captures.ready = st.ready /\ captures.capturing = TRUE
    <3> HIDE DEF noted
    <3> QED BY <1>4, <2>6 DEF SieveFields
  <2>8. after \o << >> = after /\ Within(after, m, b)
    BY <2>4, <2>5, NothingAround, WithinFacts
  <2>9. Within(st.ready, c, m)
    BY <1>1, <1>6, <2>3, WiderWithin
  <2>10. SieveAt(captures, c, m, b)
    <3> HIDE DEF captures
    <3> QED BY <1>1, <2>3, <2>7, <2>8, <2>9 DEF SieveAt
  <2>11. EventsAt(Text(before), a, m, c, c)
    BY <1>1, <2>2, <2>3, <2>4, TextLies
  <2> HIDE DEF captures, before
  <2> QED BY <2>3, <2>10, <2>11
<1>8. ASSUME s # << >>
      PROVE  \E m \in Nat : a <= m /\ m <= b /\ SieveAt(passes, c, m, b) /\ EventsAt(Text(safe), a, m, c, c)
  <2>1. l \in Nat /\ l <= n
    BY <1>3, <1>8
  <2>2. PICK m \in Nat : a <= m /\ m <= b /\ Parted(s, l, a, m, b)
    BY <1>1, <1>3, <2>1, CutWithin
  <2>3. Within(safe, a, m) /\ Within(SubSeq(s, l + 1, n), m, b)
    <3>1. 1 \in Int /\ l \in Int /\ n \in Int /\ 1 >= 1 /\ l <= l /\ l + 1 \in Int /\ l + 1 > l /\ n <= n
      BY <2>1
    <3> QED BY <1>3, <2>2, <3>1 DEF Parted
  <2>4. Len(safe) = l
    <3>1. Len(safe) = IF 1 <= l THEN l - 1 + 1 ELSE 0
      BY SubSeqIsSeq
    <3> QED BY <2>1, <3>1
  <2>5. PICK after : after = SubSeq(s, l + 1, n)
    OBVIOUS
  <2>6. TextFrom(s, Len(safe) + 1) = after
    BY <1>3, <2>4, <2>5 DEF TextFrom
  <2>7. passes.capture = << >> /\ passes.pending = after /\ passes.ready = st.ready
    <3> HIDE DEF passed
    <3> QED BY <1>5, <2>6 DEF SieveFields
  <2>8. << >> \o after = after /\ Within(after, m, b)
    BY <2>3, <2>5, NothingAround, WithinFacts
  <2>9. Within(st.ready, c, m)
    BY <1>1, <1>6, <2>2, WiderWithin
  <2>10. SieveAt(passes, c, m, b)
    <3> HIDE DEF passes
    <3> QED BY <1>1, <2>2, <2>7, <2>8, <2>9 DEF SieveAt
  <2> HIDE DEF safe, passes
  <2>11. EventsAt(Text(safe), a, m, c, c)
    BY <1>1, <2>2, <2>3, TextLies
  <2> QED BY <2>2, <2>10, <2>11
<1>9. EventsAt(<< >>, a, a, c, c)
  BY <1>1, NoEvents
<1> HIDE DEF safe, before, noted, passed, captures, passes
<1> QED BY <1>1, <1>2, <1>7, <1>8, <1>9 DEF RoundLies, safe

(* One round of the loop. *)
LEMMA EachRoundLies ==
  ASSUME NEW st, NEW offered, SieveOk(st, offered), NEW c, NEW a, NEW b, SieveAt(st, c, a, b)
  PROVE  RoundLies(Round(st, offered), c, a, b)
<1>1. PICK s : s = st.capture \o st.pending
  OBVIOUS
<1>2. Within(s, a, b) /\ a \in Nat /\ b \in Nat /\ a <= b
  BY <1>1 DEF SieveAt
<1>3. PICK n \in Nat : n = Len(s) /\ IsSeq(s)
  BY <1>2, WithinFacts
<1>4. CASE st.capturing
  <2>1. CutLies(ConsumeCapture(s, offered), a, b)
    BY <1>2, ConsumeCaptureLies
  <2>2. RoundLies(AfterCapture(st, s, ConsumeCapture(s, offered)), c, a, b)
    BY <1>2, <1>4, <2>1, AfterCaptureLies
  <2> QED BY <1>1, <1>4, <2>2 DEF Round, RoundOn
<1>5. CASE ~st.capturing
  <2>1. PICK start : start = FindToolSegmentStart(st, s)
    OBVIOUS
  <2>2. start \in 0 .. n
    BY <1>3, <2>1, SegmentStartsInside
  <2>3. PICK held : held = Held(st, s)
    OBVIOUS
  <2>4. held \in {0, 1}
    BY <2>3 DEF Held
  <2>5. PICK l : l = n - held
    OBVIOUS
  <2>6. l \in Int /\ (s # << >> => l \in Nat /\ l <= Len(s))
    BY <1>3, <2>4, <2>5, IsSeqFacts
  <2>7. RoundLies(AfterText(st, s, start, SubSeq(s, 1, l)), c, a, b)
    BY <1>1, <1>2, <1>3, <1>5, <2>2, <2>6, AfterTextLies
  <2> QED BY <1>1, <1>3, <1>5, <2>1, <2>3, <2>5, <2>7 DEF Round, RoundOn
<1> QED BY <1>4, <1>5

(* The loop: what was handed out before ends where the sieve then is. *)
DrainLies(d, a0, c0, c, a, b) ==
  \E m \in Nat : a <= m /\ m <= b /\ SieveAt(d.st, c, m, b) /\ EventsAt(d.out, a0, m, c0, c)

(* The loop hands out what the sieve holds, round by round. *)
LEMMA DrainedLies ==
  ASSUME NEW st, NEW offered, SieveOk(st, offered), NEW c, NEW a, NEW b, SieveAt(st, c, a, b),
         NEW a0 \in Nat, NEW c0 \in Nat, NEW out, EventsAt(out, a0, a, c0, c)
  PROVE  DrainLies(Drain(st, offered, out), a0, c0, c, a, b)
<1> DEFINE Sound(d) == /\ DOMAIN d = {"st", "out", "more"} /\ SieveOk(d.st, offered)
                       /\ DrainLies(d, a0, c0, c, a, b)
           Step(d) == NextRound(d, offered)
<1>1. PICK n \in Nat : \E rounds :
        /\ Drain(st, offered, out) = [st |-> rounds[n].st, out |-> rounds[n].out]
        /\ rounds[0] = [st |-> st, out |-> out, more |-> TRUE]
        /\ \A i \in 1 .. n : rounds[i] = Step(rounds[i - 1])
  BY DrainSteps DEF SieveOk
<1>2. PICK rounds : /\ Drain(st, offered, out) = [st |-> rounds[n].st, out |-> rounds[n].out]
                    /\ rounds[0] = [st |-> st, out |-> out, more |-> TRUE]
                    /\ \A i \in 1 .. n : rounds[i] = Step(rounds[i - 1])
  BY <1>1
<1>3. c \in Nat /\ a \in Nat /\ b \in Nat /\ a <= b /\ a <= a
  BY DEF SieveAt
<1>4. ASSUME NEW d, Sound(d) PROVE Sound(Step(d))
  <2>1. PICK r : r = Round(d.st, offered)
    OBVIOUS
  <2>2. PICK m \in Nat : a <= m /\ m <= b /\ SieveAt(d.st, c, m, b) /\ EventsAt(d.out, a0, m, c0, c)
    BY <1>4 DEF DrainLies
  <2>3. RoundLies(r, c, m, b)
    BY <1>4, <2>1, <2>2, EachRoundLies
  <2>4. RoundOk(r, offered)
    BY <1>4, <2>1, RoundKeeps
  <2>5. PICK k \in Nat : m <= k /\ k <= b /\ SieveAt(r.st, c, k, b) /\ EventsAt(r.out, m, k, c, c)
    BY <2>3 DEF RoundLies
  <2>6. PICK all : all = d.out \o r.out
    OBVIOUS
  <2>7. EventsAt(all, a0, k, c0, c)
    BY <1>3, <2>2, <2>5, <2>6, EventsBehind
  <2>8. PICK x : x = [r EXCEPT !.out = all]
    OBVIOUS
  <2>9. DOMAIN x = {"st", "out", "more"} /\ x.st = r.st /\ x.out = all
    BY <2>4, <2>8 DEF RoundOk
  <2>10. a <= k
    BY <1>3, <2>2, <2>5
  <2>11. Sound(x)
    BY <2>4, <2>5, <2>7, <2>9, <2>10 DEF RoundOk, DrainLies
  <2>12. Step(d) = IF d.more THEN x ELSE d
    BY <2>1, <2>6, <2>8 DEF NextRound, Further
  <2> HIDE DEF Sound, Step
  <2> QED BY <1>4, <2>11, <2>12
<1>5. Sound(rounds[0])
  <2>1. PICK new : new = [st |-> st, out |-> out, more |-> TRUE]
    OBVIOUS
  <2>2. DOMAIN new = {"st", "out", "more"} /\ new.st = st /\ new.out = out
    BY <2>1
  <2>3. DrainLies(new, a0, c0, c, a, b)
    BY <1>3, <2>2 DEF DrainLies
  <2>4. rounds[0] = new
    BY <1>2, <2>1
  <2> QED BY <2>2, <2>3, <2>4
<1> HIDE DEF Sound, Step
<1> DEFINE Done == {i \in Nat : i <= n => Sound(rounds[i])}
<1>6. 0 \in Done
  BY <1>5
<1>7. ASSUME NEW i \in Nat, i \in Done PROVE i + 1 \in Done
  <2> SUFFICES ASSUME i + 1 <= n PROVE Sound(rounds[i + 1])
    OBVIOUS
  <2>1. i + 1 \in 1 .. n /\ (i + 1) - 1 = i /\ i <= n
    OBVIOUS
  <2>2. rounds[i + 1] = Step(rounds[i])
    BY <1>2, <2>1
  <2> QED BY <1>4, <1>7, <2>1, <2>2
<1>8. n \in Done
  <2> HIDE DEF Done
  <2> QED BY <1>6, <1>7, SetInduction
<1>9. DrainLies(rounds[n], a0, c0, c, a, b)
  BY <1>8 DEF Sound
<1> QED BY <1>2, <1>9 DEF DrainLies

(* A chunk goes through the sieve. *)
LEMMA ProcessChunkLies ==
  ASSUME NEW st, NEW offered, SieveOk(st, offered), NEW c, NEW a, NEW b, SieveAt(st, c, a, b),
         NEW e \in Nat, b <= e, NEW chunk, Within(chunk, b, e)
  PROVE  DrainLies(ProcessChunk(st, chunk, offered), a, c, a, a, e)
<1>1. c \in Nat /\ a \in Nat /\ b \in Nat /\ c <= a /\ a <= b /\ a <= a /\ a <= e
  BY DEF SieveAt
<1>2. IsSeq(chunk)
  BY WithinFacts
<1>3. PICK fed : fed = [st EXCEPT !.pending = st.pending \o chunk, !.ready = << >>]
  OBVIOUS
<1>4. /\ DOMAIN fed = SieveFields /\ fed.pending = st.pending \o chunk /\ fed.ready = << >>
      /\ fed.capture = st.capture /\ fed.capturing = st.capturing
  BY <1>3 DEF SieveOk, SieveFields
<1>5. IsSeq(st.capture) /\ IsSeq(st.pending)
  BY DEF SieveOk
<1>6. SieveOk(fed, offered)
  BY <1>2, <1>4, <1>5, NoCalls, ConcatIsSeq DEF SieveOk
<1>7. st.capture \o (st.pending \o chunk) = (st.capture \o st.pending) \o chunk
  <2>1. PICK x, y : x = st.capture /\ y = st.pending
    OBVIOUS
  <2>2. IsSeq(x) /\ IsSeq(y)
    BY <1>5, <2>1
  <2>3. x \o (y \o chunk) = (x \o y) \o chunk
    BY <1>2, <2>2, ConcatThree
  <2> QED BY <2>1, <2>3
<1>8. Within((st.capture \o st.pending) \o chunk, a, e)
  BY <1>1, JoinedWithin DEF SieveAt
<1>9. SieveAt(fed, a, a, e)
  BY <1>1, <1>4, <1>7, <1>8, NothingWithin DEF SieveAt
<1>10. EventsAt(HandOut(st), a, a, c, a)
  BY <1>1, HandOutLies DEF HandOut, SieveAt
<1>11. DrainLies(Drain(fed, offered, HandOut(st)), a, c, a, a, e)
  BY <1>1, <1>6, <1>9, <1>10, DrainedLies
<1> QED BY <1>3, <1>11 DEF ProcessChunk

(* At the end the sieve gives back all it holds, and starts anew. *)
Resting(st) == st.capture = << >> /\ st.pending = << >> /\ st.ready = << >>

(* A sieve that rests holds nothing, wherever it is. *)
LEMMA RestingAt ==
  ASSUME NEW st, Resting(st), NEW c \in Nat, NEW a \in Nat, NEW b \in Nat, c <= a, a <= b
  PROVE  SieveAt(st, c, a, b)
<1>1. << >> \o << >> = << >>
  BY NothingAround, ShortIsSeq
<1> QED BY <1>1, NothingWithin DEF Resting, SieveAt

(* What a capture that is still open becomes. *)
CutEvents(x) ==
  Text(x.prefix) \o (IF x.calls = << >> THEN << >> ELSE <<CallEvent(x.calls)>>) \o Text(x.suffix)

(* It becomes its text, its calls and the text behind it, in order. *)
LEMMA CutEventsLie ==
  ASSUME NEW a \in Nat, NEW b \in Nat, a <= b, NEW x, CutLies(x, a, b)
  PROVE  EventsAt(CutEvents(x), a, b, a, b)
<1>1. PICK m \in Nat : /\ a <= m /\ m <= b
                       /\ Within(x.prefix, a, m) /\ Within(x.calls, a, m) /\ Within(x.suffix, m, b)
  BY DEF CutLies
<1>2. PICK calls : calls = IF x.calls = << >> THEN << >> ELSE <<CallEvent(x.calls)>>
  OBVIOUS
<1>3. EventsAt(Text(x.prefix), a, m, a, a) /\ EventsAt(Text(x.suffix), m, b, b, b)
  BY <1>1, TextLies
<1>4. Within(x.calls, a, b)
  <2>1. a <= a
    OBVIOUS
  <2> QED BY <1>1, <2>1, WiderWithin
<1>5. EventsAt(calls, m, m, a, b)
  BY <1>1, <1>2, <1>4, HandOutLies
<1>6. EventsAt(Text(x.prefix) \o calls, a, m, a, b)
  BY <1>1, <1>3, <1>5, EventsBehind
<1>7. EventsAt((Text(x.prefix) \o calls) \o Text(x.suffix), a, b, a, b)
  BY <1>1, <1>3, <1>6, EventsBehind
<1> QED BY <1>2, <1>7 DEF CutEvents

(* A capture that is still open at the end goes out in its order. *)
LEMMA FlushCaptureLies ==
  ASSUME NEW a \in Nat, NEW b \in Nat, a <= b, NEW s, Within(s, a, b), NEW offered
  PROVE  EventsAt(FlushCapture(s, offered), a, b, a, b)
<1>1. PICK r, recovered : r = ConsumeCapture(s, offered) /\ recovered = ConsumeXML(SanitizeLooseCDATA(s), offered)
  OBVIOUS
<1>2. Within(SanitizeLooseCDATA(s), a, b)
  BY SanitizedDrawn, WithinDrawn, WithinFacts
<1>3. CutLies(r, a, b) /\ CutLies(recovered, a, b)
  BY <1>1, <1>2, ConsumeCaptureLies, ConsumeXMLLies
<1>4. EventsAt(CutEvents(r), a, b, a, b) /\ EventsAt(CutEvents(recovered), a, b, a, b)
  BY <1>3, CutEventsLie
<1>5. EventsAt(Text(s), a, b, a, b)
  <2>1. b <= b
    OBVIOUS
  <2>2. EventsAt(Text(s), a, b, a, a) /\ EventsAt(<< >>, b, b, a, b)
    BY <2>1, TextLies, NoEvents
  <2>3. EventsAt(Text(s) \o << >>, a, b, a, b)
    BY <2>2, EventsBehind
  <2>4. IsSeq(Text(s))
    BY <2>2 DEF EventsAt
  <2> QED BY <2>3, <2>4, NothingAround
<1>6. EventsAt(<< >>, a, b, a, b)
  BY NoEvents
<1>7. FlushCapture(s, offered) =
        IF r.ready THEN CutEvents(r)
        ELSE IF SanitizeLooseCDATA(s) # s /\ recovered.ready /\ recovered.calls # << >>
        THEN CutEvents(recovered)
        ELSE IF HasMalformedMarker(s) THEN << >> ELSE Text(s)
  BY <1>1 DEF FlushCapture, FlushedCapture, CutEvents
<1> QED BY <1>4, <1>5, <1>6, <1>7

(* All that a sieve still holds. *)
LEMMA LeftoverLies ==
  ASSUME NEW st, NEW offered, SieveOk(st, offered), NEW c, NEW a, NEW b, SieveAt(st, c, a, b)
  PROVE  EventsAt(Leftover(st, offered), a, b, a, b)
<1>1. a \in Nat /\ b \in Nat /\ a <= b
  BY DEF SieveAt
<1>2. PICK s, t : s = st.capture /\ t = st.pending
  OBVIOUS
<1>3. IsSeq(s) /\ IsSeq(t) /\ Within(s \o t, a, b)
  BY <1>2 DEF SieveOk, SieveAt
<1>4. PICK k \in Nat, l \in Nat : k = Len(s) /\ l = Len(t)
  BY <1>3, IsSeqFacts
<1>5. PICK u : u = s \o t
  OBVIOUS
<1>6. IsSeq(u) /\ Len(u) = k + l /\ (\A i \in 1 .. k : u[i] = s[i]) /\ (\A i \in 1 .. l : u[k + i] = t[i])
  BY <1>3, <1>4, <1>5, ConcatIsSeq
<1>7. PICK m \in Nat : a <= m /\ m <= b /\ Parted(u, k, a, m, b)
  <2>1. k <= Len(u)
    BY <1>6
  <2> QED BY <1>1, <1>3, <1>5, <2>1, CutWithin
<1>8. Within(s, a, m) /\ Within(t, m, b)
  <2>1. PICK x, y : x = SubSeq(u, 1, k) /\ y = SubSeq(u, k + 1, k + l)
    OBVIOUS
  <2>2. Within(x, a, m) /\ Within(y, m, b)
    <3>1. 1 \in Int /\ k \in Int /\ k + l \in Int /\ k + 1 \in Int /\ 1 >= 1 /\ k <= k /\ k + 1 > k /\ k + l <= k + l
      OBVIOUS
    <3> QED BY <1>6, <1>7, <2>1, <3>1 DEF Parted
  <2>3. Len(x) = k /\ \A i \in 1 .. k : x[i] = u[i]
    <3>1. /\ Len(x) = IF 1 <= k THEN k - 1 + 1 ELSE 0
          /\ \A i \in 1 .. k - 1 + 1 : x[i] = u[1 + i - 1]
      BY <2>1, SubSeqIsSeq
    <3>2. \A i \in 1 .. k : i \in 1 .. k - 1 + 1 /\ 1 + i - 1 = i
      OBVIOUS
    <3> QED BY <3>1, <3>2
  <2>4. Len(y) = l /\ \A i \in 1 .. l : y[i] = u[k + i]
    <3>1. /\ Len(y) = IF k + 1 <= k + l THEN (k + l) - (k + 1) + 1 ELSE 0
          /\ \A i \in 1 .. (k + l) - (k + 1) + 1 : y[i] = u[(k + 1) + i - 1]
      BY <2>1, SubSeqIsSeq
    <3>2. \A i \in 1 .. l : i \in 1 .. (k + l) - (k + 1) + 1 /\ (k + 1) + i - 1 = k + i
      OBVIOUS
    <3>3. Len(y) = l
      BY <3>1
    <3> QED BY <3>1, <3>2, <3>3
  <2>5. Within(s, a, m)
    <3>1. \A i \in 1 .. k : s[i] = x[i]
      BY <1>6, <2>3
    <3>2. \A i \in 1 .. k : Inside(s[i], a, m)
      BY <2>2, <2>3, <3>1 DEF Within
    <3>3. \A i, j \in 1 .. k : i < j => s[i].at < s[j].at
      BY <2>2, <2>3, <3>1 DEF Within
    <3> QED BY <1>3, <1>4, <3>2, <3>3 DEF Within
  <2>6. Within(t, m, b)
    <3>1. \A i \in 1 .. l : t[i] = y[i]
      BY <1>6, <2>4
    <3>2. \A i \in 1 .. l : Inside(t[i], m, b)
      BY <2>2, <2>4, <3>1 DEF Within
    <3>3. \A i, j \in 1 .. l : i < j => t[i].at < t[j].at
      BY <2>2, <2>4, <3>1 DEF Within
    <3> QED BY <1>3, <1>4, <3>2, <3>3 DEF Within
  <2> QED BY <2>5, <2>6
<1> DEFINE first == IF st.capturing THEN FlushCapture(s, offered) ELSE << >>
           second == IF HasMalformedMarker(t) THEN << >> ELSE Text(t)
<1>9. EventsAt(first, a, m, a, m)
  BY <1>1, <1>7, <1>8, FlushCaptureLies, NoEvents
<1>10. EventsAt(second, m, b, m, b)
  <2>1. m <= m /\ b <= b
    BY <1>1, <1>7
  <2>2. EventsAt(second, m, b, m, m)
    BY <1>1, <1>7, <1>8, <2>1, TextLies, NoEvents
  <2> HIDE DEF second
  <2>3. EventsAt(second \o << >>, m, b, m, b)
    <3>1. EventsAt(<< >>, b, b, m, b)
      BY <1>1, <1>7, <2>1, NoEvents
    <3> QED BY <1>1, <1>7, <2>2, <3>1, EventsBehind
  <2> QED BY <2>2, <2>3, NothingAround DEF EventsAt
<1> HIDE DEF first, second
<1>11. EventsAt(first \o second, a, b, a, b)
  BY <1>1, <1>7, <1>9, <1>10, EventsBehind
<1> QED BY <1>2, <1>11 DEF Leftover, first, second

(* What the sieve gives back at the end comes behind what it had handed out. *)
LEMMA FlushLies ==
  ASSUME NEW st, NEW offered, SieveOk(st, offered), NEW c, NEW a, NEW b, SieveAt(st, c, a, b)
  PROVE  EventsAt(Flush(st, offered).out, a, b, c, b) /\ Resting(Flush(st, offered).st)
<1>1. c \in Nat /\ a \in Nat /\ b \in Nat /\ c <= a /\ a <= b /\ b <= b /\ a <= a
  BY DEF SieveAt
<1>2. PICK d : d = ProcessChunk(st, << >>, offered)
  OBVIOUS
<1>3. DrainLies(d, a, c, a, a, b)
  BY <1>1, <1>2, NothingWithin, ProcessChunkLies
<1>4. PICK m \in Nat : a <= m /\ m <= b /\ SieveAt(d.st, a, m, b) /\ EventsAt(d.out, a, m, c, a)
  BY <1>3 DEF DrainLies
<1>5. SieveOk(d.st, offered)
  BY <1>2, ShortIsSeq, ProcessChunkKeeps DEF DrainedOk
<1>6. PICK last : last = Leftover(d.st, offered)
  OBVIOUS
<1>7. EventsAt(last, m, b, m, b)
  BY <1>4, <1>5, <1>6, LeftoverLies
<1>8. EventsAt(HandOut(d.st), m, m, a, m)
  <2>1. Within(d.st.ready, a, m)
    BY <1>4 DEF SieveAt
  <2> QED BY <1>1, <1>4, <2>1, HandOutLies DEF HandOut
<1>9. EventsAt(d.out \o HandOut(d.st), a, m, c, m)
  BY <1>1, <1>4, <1>8, EventsBehind
<1>10. EventsAt((d.out \o HandOut(d.st)) \o last, a, b, c, b)
  BY <1>1, <1>4, <1>7, <1>9, EventsBehind
<1>11. Resting(Emptied(d, last).st) /\ Emptied(d, last).out = (d.out \o HandOut(d.st)) \o last
  <2>1. PICK noted : noted = Noted(d.st, last)
    OBVIOUS
  <2>2. PICK new : new = NewSieve
    OBVIOUS
  <2>3. DOMAIN new = SieveFields /\ Resting(new)
    BY <2>2 DEF NewSieve, SieveFields, Resting
  <2>4. PICK fresh : fresh = [new EXCEPT !.fenced = noted.fenced, !.ticks = noted.ticks, !.lineStart = noted.lineStart]
    OBVIOUS
  <2>5. Resting(fresh)
    BY <2>3, <2>4 DEF Resting, SieveFields
  <2>6. PICK all : all = (d.out \o HandOut(d.st)) \o last
    OBVIOUS
  <2>7. Emptied(d, last) = [st |-> fresh, out |-> all]
    BY <2>1, <2>2, <2>4, <2>6 DEF Emptied
  <2>8. PICK x : x = Emptied(d, last)
    OBVIOUS
  <2>9. x.st = fresh /\ x.out = all
    BY <2>7, <2>8
  <2>10. Resting(x.st)
    BY <2>5, <2>9
  <2> QED BY <2>6, <2>8, <2>9, <2>10
<1> QED BY <1>2, <1>6, <1>10, <1>11 DEF Flush, FlushDrained

--------------------------------------------------------------------------------
(* What the client was sent *)

(* The text of a frame; its calls are CallsIn. *)
TextIn(frame) == IF frame.ev \in {"content", "text", "reasoning"} THEN frame.text ELSE << >>

(* Every token of s comes before every one of t. *)
Before(s, t) == \A x \in 1 .. Len(s) : \A y \in 1 .. Len(t) : s[x].at < t[y].at

(* The frames tell text up to m and calls up to c, one behind another. *)
SentAt(sent, c, m) ==
  /\ IsSeq(sent)
  /\ \A i \in 1 .. Len(sent) : Within(TextIn(sent[i]), 0, m) /\ Within(CallsIn(sent[i]), 0, c)
  /\ \A i, j \in 1 .. Len(sent) :
       i < j => Before(TextIn(sent[i]), TextIn(sent[j])) /\ Before(CallsIn(sent[i]), CallsIn(sent[j]))

(* What lies up to a place comes before what lies behind it. *)
LEMMA WithinBefore ==
  ASSUME NEW a, NEW b \in Nat, NEW c, NEW s, NEW t, Within(s, a, b), Within(t, b, c)
  PROVE  Before(s, t)
<1> SUFFICES ASSUME NEW x \in 1 .. Len(s), NEW y \in 1 .. Len(t) PROVE s[x].at < t[y].at
  BY DEF Before
<1>1. s[x].at \in Nat /\ s[x].at <= b
  BY DEF Within, Inside
<1>2. t[y].at \in Nat /\ b < t[y].at
  BY DEF Within, Inside
<1> QED BY <1>1, <1>2

(* Nothing has been sent, in order. *)
LEMMA NothingSent == SentAt(<< >>, 0, 0)
<1>1. IsSeq(<< >>) /\ Len(<< >>) = 0
  BY ShortIsSeq
<1>2. PICK none : none = << >> /\ IsSeq(none) /\ Len(none) = 0
  BY <1>1
<1>3. SentAt(none, 0, 0)
  BY <1>2 DEF SentAt
<1> QED BY <1>2, <1>3

(* What lies up to two places lies up to later ones. *)
LEMMA SentWider ==
  ASSUME NEW c \in Nat, NEW m \in Nat, NEW d \in Nat, NEW n \in Nat, c <= d, m <= n,
         NEW sent, SentAt(sent, c, m)
  PROVE  SentAt(sent, d, n)
<1>1. \A i \in 1 .. Len(sent) : Within(TextIn(sent[i]), 0, n) /\ Within(CallsIn(sent[i]), 0, d)
  <2> SUFFICES ASSUME NEW i \in 1 .. Len(sent)
               PROVE  Within(TextIn(sent[i]), 0, n) /\ Within(CallsIn(sent[i]), 0, d)
    OBVIOUS
  <2>1. Within(TextIn(sent[i]), 0, m) /\ Within(CallsIn(sent[i]), 0, c) /\ 0 \in Nat /\ 0 <= 0
    BY DEF SentAt
  <2> QED BY <2>1, WiderWithin
<1> QED BY <1>1 DEF SentAt

(* One more frame, whose text and calls come after those of the others. *)
LEMMA FrameSent ==
  ASSUME NEW c \in Nat, NEW m \in Nat, NEW d \in Nat, NEW n \in Nat, c <= d, m <= n,
         NEW sent, SentAt(sent, c, m), NEW frame, Within(TextIn(frame), m, n), Within(CallsIn(frame), c, d)
  PROVE  SentAt(Append(sent, frame), d, n)
<1>1. PICK more : more = Append(sent, frame)
  OBVIOUS
<1>2. IsSeq(sent)
  BY DEF SentAt
<1>3. PICK l \in Nat : l = Len(sent)
  BY <1>2, IsSeqFacts
<1>4. IsSeq(more) /\ Len(more) = l + 1 /\ (\A i \in 1 .. l : more[i] = sent[i]) /\ more[l + 1] = frame
  BY <1>1, <1>2, <1>3, AppendIsSeq
<1>5. Within(TextIn(frame), 0, n) /\ Within(CallsIn(frame), 0, d)
  <2>1. 0 \in Nat /\ 0 <= m /\ 0 <= c /\ n <= n /\ d <= d
    OBVIOUS
  <2> QED BY <2>1, WiderWithin
<1>6. \A i \in 1 .. l : Within(TextIn(sent[i]), 0, n) /\ Within(CallsIn(sent[i]), 0, d)
  <2>1. SentAt(sent, d, n)
    BY SentWider
  <2> QED BY <1>3, <2>1 DEF SentAt
<1>7. \A i \in 1 .. l : Before(TextIn(sent[i]), TextIn(frame)) /\ Before(CallsIn(sent[i]), CallsIn(frame))
  <2> SUFFICES ASSUME NEW i \in 1 .. l
               PROVE  Before(TextIn(sent[i]), TextIn(frame)) /\ Before(CallsIn(sent[i]), CallsIn(frame))
    OBVIOUS
  <2>1. Within(TextIn(sent[i]), 0, m) /\ Within(CallsIn(sent[i]), 0, c)
    BY <1>3 DEF SentAt
  <2>2. Before(TextIn(sent[i]), TextIn(frame))
    BY <2>1, WithinBefore
  <2>3. Before(CallsIn(sent[i]), CallsIn(frame))
    BY <2>1, WithinBefore
  <2> QED BY <2>2, <2>3
<1>8. \A i \in 1 .. l + 1 : i \in 1 .. l \/ i = l + 1
  OBVIOUS
<1>9. \A i \in 1 .. l + 1 : Within(TextIn(more[i]), 0, n) /\ Within(CallsIn(more[i]), 0, d)
  BY <1>4, <1>5, <1>6, <1>8
<1>10. ASSUME NEW i \in 1 .. l + 1, NEW j \in 1 .. l + 1, i < j
       PROVE  Before(TextIn(more[i]), TextIn(more[j])) /\ Before(CallsIn(more[i]), CallsIn(more[j]))
  <2>1. i \in 1 .. l
    BY <1>10
  <2>2. CASE j \in 1 .. l
    BY <1>3, <1>4, <1>10, <2>1, <2>2 DEF SentAt
  <2>3. CASE j = l + 1
    BY <1>4, <1>7, <2>1, <2>3
  <2> QED BY <1>8, <2>2, <2>3
<1> QED BY <1>1, <1>4, <1>9, <1>10 DEF SentAt

(* One more frame that tells nothing. *)
LEMMA BareSent ==
  ASSUME NEW c \in Nat, NEW m \in Nat, NEW sent, SentAt(sent, c, m), NEW frame,
         TextIn(frame) = << >>, CallsIn(frame) = << >>
  PROVE  SentAt(Append(sent, frame), c, m)
<1>1. c <= c /\ m <= m
  OBVIOUS
<1> QED BY <1>1, NothingWithin, FrameSent

(* The frames of an ending, which tell nothing either. *)
LEMMA EndSent ==
  ASSUME NEW c \in Nat, NEW m \in Nat, NEW sent, SentAt(sent, c, m), NEW first, NEW last,
         TextIn(first) = << >>, CallsIn(first) = << >>, TextIn(last) = << >>, CallsIn(last) = << >>
  PROVE  SentAt(sent \o <<first, last>>, c, m)
<1>1. PICK all : all = EndedBy(sent, first, last)
  OBVIOUS
<1>2. IsSeq(sent)
  BY DEF SentAt
<1>3. PICK n \in Nat : n = Len(all) /\ n >= 2
  BY <1>1, <1>2, SentEnding
<1>4. /\ IsSeq(all) /\ n - 2 = Len(sent) /\ all[n - 1] = first /\ all[n] = last
      /\ \A i \in 1 .. n - 2 : all[i] = sent[i]
  BY <1>1, <1>2, <1>3, SentEnding
<1>5. \A i \in 1 .. n : i \in 1 .. n - 2 \/ i = n - 1 \/ i = n
  BY <1>3
<1>6. \A i \in {n - 1, n} : TextIn(all[i]) = << >> /\ CallsIn(all[i]) = << >>
  BY <1>4
<1>7. \A i \in 1 .. n : Within(TextIn(all[i]), 0, m) /\ Within(CallsIn(all[i]), 0, c)
  BY <1>4, <1>5, <1>6, NothingWithin DEF SentAt
<1>8. \A s : Before(s, << >>) /\ Before(<< >>, s)
  <2>1. Len(<< >>) = 0
    BY ShortIsSeq
  <2>2. PICK none : none = << >> /\ Len(none) = 0
    BY <2>1
  <2>3. \A s : Before(s, none) /\ Before(none, s)
    BY <2>2 DEF Before
  <2> QED BY <2>2, <2>3
<1>9. ASSUME NEW i \in 1 .. n, NEW j \in 1 .. n, i < j
      PROVE  Before(TextIn(all[i]), TextIn(all[j])) /\ Before(CallsIn(all[i]), CallsIn(all[j]))
  <2>1. CASE i \in 1 .. n - 2 /\ j \in 1 .. n - 2
    BY <1>4, <1>9, <2>1 DEF SentAt
  <2>2. CASE i \in {n - 1, n} \/ j \in {n - 1, n}
    BY <1>6, <1>8, <2>2
  <2> QED BY <1>5, <2>1, <2>2
<1>10. SentAt(all, c, m)
  BY <1>3, <1>4, <1>7, <1>9 DEF SentAt
<1> QED BY <1>1, <1>10 DEF EndedBy

(* What the client sees is in the order of the reply. *)
LEMMA SentAscends ==
  ASSUME NEW c, NEW m, NEW sent, SentAt(sent, c, m)
  PROVE  /\ Ascending(FlattenSeq([i \in 1 .. Len(sent) |-> TextIn(sent[i])]))
         /\ Ascending(FlattenSeq([i \in 1 .. Len(sent) |-> CallsIn(sent[i])]))
<1>1. PICK n \in Nat : n = Len(sent)
  BY IsSeqFacts DEF SentAt
<1>2. ASSUME NEW parts, IsSeq(parts), Len(parts) = n,
             \A i \in 1 .. n : IsSeq(parts[i]),
             \A i \in 1 .. n : \A x, y \in 1 .. Len(parts[i]) : x < y => parts[i][x].at < parts[i][y].at,
             \A i, j \in 1 .. n : i < j => Before(parts[i], parts[j])
      PROVE  Ascending(FlattenSeq(parts))
  <2>1. PICK all : all = FlattenSeq(parts)
    OBVIOUS
  <2>2. IsSeq(all)
    BY <1>2, <2>1, FlattenFacts
  <2>3. PICK l \in Nat : l = Len(all)
    BY <2>2, IsSeqFacts
  <2> SUFFICES ASSUME NEW k \in 1 .. l - 1 PROVE all[k].at < all[k + 1].at
    BY <2>1, <2>3 DEF Ascending
  <2>4. k \in 1 .. l /\ k + 1 \in 1 .. l /\ k < k + 1
    OBVIOUS
  <2>5. Precedes(parts, all[k], all[k + 1])
    BY <1>2, <2>1, <2>3, <2>4, FlattenOrder
  <2>6. PICK i \in 1 .. n, j \in 1 .. n :
          \E x \in 1 .. Len(parts[i]) : \E y \in 1 .. Len(parts[j]) :
            all[k] = parts[i][x] /\ all[k + 1] = parts[j][y] /\ (i < j \/ (i = j /\ x < y))
    BY <1>2, <2>5 DEF Precedes
  <2>7. PICK x \in 1 .. Len(parts[i]), y \in 1 .. Len(parts[j]) :
            all[k] = parts[i][x] /\ all[k + 1] = parts[j][y] /\ (i < j \/ (i = j /\ x < y))
    BY <2>6
  <2>8. CASE i < j
    <3>1. Before(parts[i], parts[j])
      BY <1>2, <2>8
    <3> QED BY <2>7, <3>1 DEF Before
  <2>9. CASE i = j /\ x < y
    BY <1>2, <2>7, <2>9
  <2> QED BY <2>7, <2>8, <2>9
<1>3. Ascending(FlattenSeq([i \in 1 .. Len(sent) |-> TextIn(sent[i])]))
  <2> DEFINE parts == [i \in 1 .. Len(sent) |-> TextIn(sent[i])]
  <2>1. parts = [i \in 1 .. n |-> parts[i]] /\ \A i \in 1 .. n : parts[i] = TextIn(sent[i])
    BY <1>1
  <2> HIDE DEF parts
  <2>2. IsSeq(parts) /\ Len(parts) = n
    BY <2>1, BuiltIsSeq
  <2>3. \A i \in 1 .. n : Within(parts[i], 0, m)
    BY <1>1, <2>1 DEF SentAt
  <2>4. \A i, j \in 1 .. n : i < j => Before(parts[i], parts[j])
    BY <1>1, <2>1 DEF SentAt
  <2>5. \A i \in 1 .. n : /\ IsSeq(parts[i])
                          /\ \A x, y \in 1 .. Len(parts[i]) : x < y => parts[i][x].at < parts[i][y].at
    BY <2>3 DEF Within
  <2>6. Ascending(FlattenSeq(parts))
    BY <1>2, <2>2, <2>4, <2>5
  <2> QED BY <2>6 DEF parts
<1>4. Ascending(FlattenSeq([i \in 1 .. Len(sent) |-> CallsIn(sent[i])]))
  <2> DEFINE parts == [i \in 1 .. Len(sent) |-> CallsIn(sent[i])]
  <2>1. parts = [i \in 1 .. n |-> parts[i]] /\ \A i \in 1 .. n : parts[i] = CallsIn(sent[i])
    BY <1>1
  <2> HIDE DEF parts
  <2>2. IsSeq(parts) /\ Len(parts) = n
    BY <2>1, BuiltIsSeq
  <2>3. \A i \in 1 .. n : Within(parts[i], 0, c)
    BY <1>1, <2>1 DEF SentAt
  <2>4. \A i, j \in 1 .. n : i < j => Before(parts[i], parts[j])
    BY <1>1, <2>1 DEF SentAt
  <2>5. \A i \in 1 .. n : /\ IsSeq(parts[i])
                          /\ \A x, y \in 1 .. Len(parts[i]) : x < y => parts[i][x].at < parts[i][y].at
    BY <2>3 DEF Within
  <2>6. Ascending(FlattenSeq(parts))
    BY <1>2, <2>2, <2>4, <2>5
  <2> QED BY <2>6 DEF parts
<1> QED BY <1>3, <1>4

--------------------------------------------------------------------------------
(* How far a stream has come *)

(* The calls sent lie up to c; the text that is sent, and behind it that of *)
(* the batch, up to m.                                                      *)
RtAt(r, c, m) ==
  /\ c \in Nat /\ m \in Nat
  /\ \E k \in Nat : k <= m /\ SentAt(r.sent, c, k) /\ Within(r.batch.text, k, m)

(* A frame that shows nothing. *)
Bare(frame) == TextIn(frame) = << >> /\ CallsIn(frame) = << >>

(* What the frames of a chat, and of a response, show. *)
LEMMA FramesShow ==
  /\ \A s : \A field \in {"content", "reasoning"} :
       TextIn(Delta(field, s)) = s /\ CallsIn(Delta(field, s)) = << >>
  /\ \A calls : TextIn(CallsDelta(calls)) = << >> /\ CallsIn(CallsDelta(calls)) = calls
  /\ \A s : /\ TextIn(TextDelta(s)) = s /\ CallsIn(TextDelta(s)) = << >>
            /\ TextIn(ReasoningDelta(s)) = s /\ CallsIn(ReasoningDelta(s)) = << >>
  /\ \A call, item : TextIn(CallDone(call, item)) = << >> /\ CallsIn(CallDone(call, item)) = <<call>>
<1>1. \A s : \A field \in {"content", "reasoning"} :
       TextIn(Delta(field, s)) = s /\ CallsIn(Delta(field, s)) = << >>
  BY DEF Delta, TextIn, CallsIn
<1>2. \A calls : TextIn(CallsDelta(calls)) = << >> /\ CallsIn(CallsDelta(calls)) = calls
  BY DEF CallsDelta, TextIn, CallsIn
<1>3. \A s : /\ TextIn(TextDelta(s)) = s /\ CallsIn(TextDelta(s)) = << >>
             /\ TextIn(ReasoningDelta(s)) = s /\ CallsIn(ReasoningDelta(s)) = << >>
  BY DEF TextDelta, ReasoningDelta, TextIn, CallsIn
<1>4. \A call, item : TextIn(CallDone(call, item)) = << >> /\ CallsIn(CallDone(call, item)) = <<call>>
  BY DEF CallDone, TextIn, CallsIn
<1> QED BY <1>1, <1>2, <1>3, <1>4

(* The frames that show nothing. *)
LEMMA BareFrames ==
  /\ Bare(Created) /\ Bare(PartAddedFrame) /\ Bare(PartDone) /\ Bare(TextDone) /\ Bare(DoneChunk) /\ Bare(DoneMark)
  /\ \A item : Bare(ItemAdded(item)) /\ Bare(ItemDone(item))
  /\ \A reason : Bare(FinishChunk(reason)) /\ Bare(Completed(reason))
  /\ \A error : Bare(FailedChunk(error)) /\ Bare(Failed(error))
<1>1. Bare(Created) /\ Bare(PartAddedFrame) /\ Bare(PartDone) /\ Bare(TextDone) /\ Bare(DoneChunk) /\ Bare(DoneMark)
  BY DEF Bare, TextIn, CallsIn, Created, PartAddedFrame, PartDone, TextDone, DoneChunk, DoneMark
<1>2. \A item : Bare(ItemAdded(item)) /\ Bare(ItemDone(item))
  BY DEF Bare, TextIn, CallsIn, ItemAdded, ItemDone
<1>3. \A reason : Bare(FinishChunk(reason)) /\ Bare(Completed(reason))
  BY DEF Bare, TextIn, CallsIn, FinishChunk, Completed
<1>4. \A error : Bare(FailedChunk(error)) /\ Bare(Failed(error))
  BY DEF Bare, TextIn, CallsIn, FailedChunk, Failed
<1> QED BY <1>1, <1>2, <1>3, <1>4

(* Further bounds hold as well. *)
LEMMA RtWider ==
  ASSUME NEW r, NEW c, NEW m, RtAt(r, c, m), NEW d \in Nat, NEW n \in Nat, c <= d, m <= n
  PROVE  RtAt(r, d, n)
<1>1. c \in Nat /\ m \in Nat
  BY DEF RtAt
<1>2. PICK k \in Nat : k <= m /\ SentAt(r.sent, c, k) /\ Within(r.batch.text, k, m)
  BY DEF RtAt
<1>3. k <= k /\ k <= n
  BY <1>1, <1>2
<1>4. SentAt(r.sent, d, k)
  BY <1>1, <1>2, <1>3, SentWider
<1>5. Within(r.batch.text, k, n)
  BY <1>1, <1>2, <1>3, WiderWithin
<1> QED BY <1>3, <1>4, <1>5 DEF RtAt

(* With nothing in the batch the frames tell it all. *)
LEMMA RtSent ==
  ASSUME NEW r, NEW c \in Nat, NEW m \in Nat, r.batch.text = << >>
  PROVE  /\ SentAt(r.sent, c, m) => RtAt(r, c, m)
         /\ RtAt(r, c, m) => SentAt(r.sent, c, m)
<1>1. ASSUME SentAt(r.sent, c, m) PROVE RtAt(r, c, m)
  <2>1. m <= m
    OBVIOUS
  <2>2. Within(r.batch.text, m, m)
    BY NothingWithin
  <2> QED BY <1>1, <2>1, <2>2 DEF RtAt
<1>2. ASSUME RtAt(r, c, m) PROVE SentAt(r.sent, c, m)
  <2>1. PICK k \in Nat : k <= m /\ SentAt(r.sent, c, k)
    BY <1>2 DEF RtAt
  <2>2. c <= c
    OBVIOUS
  <2> QED BY <2>1, <2>2, SentWider
<1> QED BY <1>1, <1>2

(* Text without its leaked blocks lies where it lay. *)
LEMMA CleanWithin ==
  ASSUME NEW s, NEW a, NEW b, Within(s, a, b)
  PROVE  Within(Clean(s), a, b)
<1>1. ASSUME NEW u, Within(u, a, b), NEW blocks PROVE Within(WithoutBlocks(u, blocks), a, b)
  <2>1. IsSeq(u)
    BY <1>1 DEF Within
  <2> DEFINE P == {i \in 1 .. Len(u) : ~(\E k \in 1 .. Len(blocks) : blocks[k].open <= i /\ i <= blocks[k].close)}
  <2>2. WithoutBlocks(u, blocks) = Picked(u, P)
    BY DEF WithoutBlocks
  <2> HIDE DEF P
  <2>3. Drawn(Picked(u, P), u, Len(u))
    BY <2>1, PickedDrawn
  <2> QED BY <1>1, <2>2, <2>3, WithinDrawn
<1> QED BY <1>1 DEF Clean, Unwrapped

--------------------------------------------------------------------------------
(* The order of a chat *)

(* A step of a chat that leaves the sieve and the accumulated reply alone. *)
ChatStays(m, r) ==
  DOMAIN m = ChatFields /\ m.batch.field \in {"content", "reasoning"} /\ m.sieve = r.sieve /\ m.acc = r.acc

(* A frame is sent. *)
LEMMA ChatFrameSent ==
  ASSUME NEW r, ChatStays(r, r), NEW frame
  PROVE  LET m == ChatSend(r, frame)
         IN  ChatStays(m, r) /\ m.sent = Append(r.sent, frame) /\ m.batch = r.batch
<1>1. PICK more : more = Append(r.sent, frame)
  OBVIOUS
<1>2. PICK m : m = [r EXCEPT !.sent = more]
  OBVIOUS
<1>3. ChatStays(m, r) /\ m.sent = more /\ m.batch = r.batch
  BY <1>2 DEF ChatStays, ChatFields
<1> QED BY <1>1, <1>2, <1>3 DEF ChatSend

(* The batch goes out, behind what was sent. *)
LEMMA FlushBatchLies ==
  ASSUME NEW r, ChatStays(r, r), NEW c, NEW m, RtAt(r, c, m)
  PROVE  LET f == FlushBatch(r)
         IN  ChatStays(f, r) /\ RtAt(f, c, m) /\ f.batch.text = << >>
<1>1. c \in Nat /\ m \in Nat /\ c <= c /\ m <= m
  BY DEF RtAt
<1>2. PICK k \in Nat : k <= m /\ SentAt(r.sent, c, k) /\ Within(r.batch.text, k, m)
  BY DEF RtAt
<1>3. CASE r.batch.text = << >>
  BY <1>3 DEF FlushBatch
<1>4. CASE r.batch.text # << >>
  <2>1. PICK frame : frame = Delta(r.batch.field, r.batch.text)
    OBVIOUS
  <2>2. TextIn(frame) = r.batch.text /\ CallsIn(frame) = << >>
    BY <2>1, FramesShow DEF ChatStays
  <2>3. PICK g : g = ChatSend(r, frame)
    OBVIOUS
  <2>4. ChatStays(g, r) /\ g.sent = Append(r.sent, frame)
    BY <2>3, ChatFrameSent
  <2>5. SentAt(g.sent, c, m)
    BY <1>1, <1>2, <2>2, <2>4, NothingWithin, FrameSent
  <2>6. PICK none : none = NoBatch
    OBVIOUS
  <2>7. none.field = "content" /\ none.text = << >>
    BY <2>6 DEF NoBatch
  <2>8. PICK f : f = [g EXCEPT !.batch = none]
    OBVIOUS
  <2>9. ChatStays(f, r) /\ f.sent = g.sent /\ f.batch.text = << >>
    BY <2>4, <2>7, <2>8 DEF ChatStays, ChatFields
  <2>10. RtAt(f, c, m)
    BY <1>1, <2>5, <2>9, RtSent
  <2>11. FlushBatch(r) = f
    BY <1>4, <2>1, <2>3, <2>6, <2>8 DEF FlushBatch
  <2> QED BY <2>9, <2>10, <2>11
<1> QED BY <1>3, <1>4

(* Text behind that of the batch joins it. *)
LEMMA AddToBatchLies ==
  ASSUME NEW r, ChatStays(r, r), NEW c, NEW m, RtAt(r, c, m), NEW n \in Nat, m <= n,
         NEW field \in {"content", "reasoning"}, NEW s, Within(s, m, n)
  PROVE  ChatStays(AddToBatch(r, field, s), r) /\ RtAt(AddToBatch(r, field, s), c, n)
<1>1. c \in Nat /\ m \in Nat /\ c <= c /\ m <= m
  BY DEF RtAt
<1>2. PICK f : f = IF r.batch.field = field THEN r ELSE FlushBatch(r)
  OBVIOUS
<1>3. ChatStays(f, r) /\ RtAt(f, c, m)
  BY <1>2, FlushBatchLies
<1>4. PICK k \in Nat : k <= m /\ SentAt(f.sent, c, k) /\ Within(f.batch.text, k, m)
  BY <1>3 DEF RtAt
<1>5. PICK text : text = f.batch.text \o s
  OBVIOUS
<1>6. Within(text, k, n)
  BY <1>1, <1>4, <1>5, JoinedWithin
<1>7. PICK batch : batch = [field |-> field, text |-> text]
  OBVIOUS
<1>8. batch.field = field /\ batch.text = text
  BY <1>7
<1>9. PICK g : g = [f EXCEPT !.batch = batch]
  OBVIOUS
<1>10. ChatStays(g, r) /\ g.sent = f.sent /\ g.batch = batch
  BY <1>3, <1>8, <1>9 DEF ChatStays, ChatFields
<1>11. k <= n
  BY <1>1, <1>4
<1>12. RtAt(g, c, n)
  BY <1>1, <1>4, <1>6, <1>8, <1>10, <1>11 DEF RtAt
<1>13. RtAt(r, c, n)
  BY <1>1, RtWider
<1>14. AddToBatch(r, field, s) = IF s = << >> THEN r ELSE g
  BY <1>2, <1>5, <1>7, <1>9 DEF AddToBatch
<1> QED BY <1>10, <1>12, <1>13, <1>14

(* Calls behind those sent are sent. *)
LEMMA ChatCallsLie ==
  ASSUME NEW r, ChatStays(r, r), NEW c, NEW m, RtAt(r, c, m), NEW d \in Nat, c <= d, NEW calls, Within(calls, c, d)
  PROVE  LET l == ChatCalls(r, calls)
         IN  ChatStays(l, r) /\ RtAt(l, d, m) /\ l.batch.text = << >>
<1>1. c \in Nat /\ m \in Nat /\ m <= m
  BY DEF RtAt
<1>2. PICK f : f = FlushBatch(r)
  OBVIOUS
<1>3. ChatStays(f, r) /\ RtAt(f, c, m) /\ f.batch.text = << >>
  BY <1>2, FlushBatchLies
<1>4. SentAt(f.sent, c, m) /\ ChatStays(f, f)
  BY <1>1, <1>3, RtSent DEF ChatStays
<1>5. PICK frame : frame = CallsDelta(calls)
  OBVIOUS
<1>6. TextIn(frame) = << >> /\ CallsIn(frame) = calls
  BY <1>5, FramesShow
<1>7. PICK g : g = ChatSend(f, frame)
  OBVIOUS
<1>8. ChatStays(g, f) /\ g.sent = Append(f.sent, frame) /\ g.batch = f.batch
  BY <1>4, <1>7, ChatFrameSent
<1>9. SentAt(g.sent, d, m)
  BY <1>1, <1>4, <1>6, <1>8, NothingWithin, FrameSent
<1>10. PICK l : l = [g EXCEPT !.called = TRUE]
  OBVIOUS
<1>11. ChatStays(l, r) /\ l.sent = g.sent /\ l.batch = f.batch
  BY <1>3, <1>8, <1>10 DEF ChatStays, ChatFields
<1>12. RtAt(l, d, m)
  BY <1>1, <1>3, <1>9, <1>11, RtSent
<1>13. ChatCalls(r, calls) = l
  BY <1>2, <1>5, <1>7, <1>10 DEF ChatCalls
<1> QED BY <1>3, <1>11, <1>12, <1>13

(* What one event of the sieve becomes. *)
LEMMA ChatEventLies ==
  ASSUME NEW r, ChatStays(r, r), NEW c, NEW m, RtAt(r, c, m), NEW d \in Nat, c <= d, NEW n \in Nat, m <= n,
         NEW e, Within(e.content, m, n), Within(e.calls, c, d)
  PROVE  ChatStays(ChatEvent(r, e), r) /\ RtAt(ChatEvent(r, e), d, n)
<1>1. c \in Nat /\ m \in Nat /\ c <= c /\ d <= d /\ n <= n
  BY DEF RtAt
<1>2. CASE e.calls # << >>
  <2>1. PICK l : l = ChatCalls(r, e.calls)
    OBVIOUS
  <2>2. ChatStays(l, r) /\ RtAt(l, d, m)
    BY <2>1, ChatCallsLie
  <2>3. RtAt(l, d, n)
    BY <1>1, <2>2, RtWider
  <2> QED BY <1>2, <2>1, <2>2, <2>3 DEF ChatEvent
<1>3. CASE e.calls = << >>
  <2>1. Within(Clean(e.content), m, n)
    BY CleanWithin
  <2>2. PICK l : l = AddToBatch(r, "content", Clean(e.content))
    OBVIOUS
  <2>3. ChatStays(l, r) /\ RtAt(l, c, n)
    BY <2>1, <2>2, AddToBatchLies
  <2>4. RtAt(l, d, n)
    BY <1>1, <2>3, RtWider
  <2> QED BY <1>3, <2>2, <2>3, <2>4 DEF ChatEvent
<1> QED BY <1>2, <1>3

(* The events of the sieve, one behind another. *)
LEMMA ChatEventsLie ==
  ASSUME NEW r, ChatStays(r, r), NEW c, NEW m, RtAt(r, c, m), NEW d \in Nat, NEW n \in Nat,
         NEW events, EventsAt(events, m, n, c, d)
  PROVE  ChatStays(ChatEvents(r, events), r) /\ RtAt(ChatEvents(r, events), d, n)
<1>1. PICK l \in Nat : l = Len(events)
  BY IsSeqFacts DEF EventsAt
<1>2. PICK f, g : EventMarks(events, m, n, c, d, f, g)
  BY DEF EventsAt
<1>3. /\ f \in [0 .. l -> Nat] /\ f[0] = m /\ f[l] <= n
      /\ g \in [0 .. l -> Nat] /\ g[0] = c /\ g[l] <= d
      /\ Marked(events, f, g)
  BY <1>1, <1>2 DEF EventMarks
<1>4. PICK after : ChatEventsTrace(r, events, l, after)
  BY <1>1, ChatEventsSteps
<1>5. /\ ChatEvents(r, events) = after[l] /\ after[0] = r
      /\ \A i \in 1 .. l : after[i] = ChatEvent(after[i - 1], events[i])
  BY <1>4 DEF ChatEventsTrace
<1> DEFINE Reached(i) == ChatStays(after[i], r) /\ RtAt(after[i], g[i], f[i])
           Done == {i \in Nat : i <= l => Reached(i)}
<1>6. 0 \in Done
  BY <1>3, <1>5
<1>7. ASSUME NEW i \in Nat, i \in Done PROVE i + 1 \in Done
  <2> SUFFICES ASSUME i + 1 <= l PROVE Reached(i + 1)
    OBVIOUS
  <2>1. i + 1 \in 1 .. l /\ (i + 1) - 1 = i /\ i \in 0 .. l /\ i + 1 \in 0 .. l /\ i <= l
    BY <1>1
  <2>2. ChatStays(after[i], r) /\ RtAt(after[i], g[i], f[i])
    BY <1>7, <2>1
  <2>3. ChatStays(after[i], after[i])
    BY <2>2 DEF ChatStays
  <2>4. g[i + 1] \in Nat /\ f[i + 1] \in Nat
    BY <1>3, <2>1
  <2>5. /\ Within(events[i + 1].content, f[i], f[i + 1]) /\ Within(events[i + 1].calls, g[i], g[i + 1])
        /\ f[i] <= f[i + 1] /\ g[i] <= g[i + 1]
    BY <1>1, <1>3, <2>1 DEF Marked
  <2>6. PICK x : x = ChatEvent(after[i], events[i + 1])
    OBVIOUS
  <2>7. ChatStays(x, after[i]) /\ RtAt(x, g[i + 1], f[i + 1])
    BY <2>2, <2>3, <2>4, <2>5, <2>6, ChatEventLies
  <2>8. after[i + 1] = x
    BY <1>5, <2>1, <2>6
  <2>9. ChatStays(x, r)
    BY <2>2, <2>7 DEF ChatStays
  <2> QED BY <2>7, <2>8, <2>9
<1>8. l \in Done
  <2> HIDE DEF Done
  <2> QED BY <1>6, <1>7, SetInduction
<1>9. ChatStays(after[l], r) /\ RtAt(after[l], g[l], f[l])
  BY <1>8
<1>10. g[l] \in Nat /\ f[l] \in Nat
  BY <1>1, <1>3
<1>11. RtAt(after[l], d, n)
  BY <1>3, <1>9, <1>10, RtWider
<1> QED BY <1>5, <1>9, <1>11

(* The sieve of a runtime, behind what it has sent and put together, holds  *)
(* the rest of the reply up to e.                                           *)
RtRead(r, e) == \E c, m : RtAt(r, c, m) /\ SieveAt(r.sieve, c, m, e)

(* What has accumulated of a reply comes in its order. *)
AccAt(acc, e) == Within(acc.rawText, 0, e) /\ Within(acc.rawThinking, 0, e)

(* It grows by the parts of a line. *)
LEMMA AppliedLies ==
  ASSUME NEW acc, AccOk(acc), NEW e \in Nat, AccAt(acc, e), NEW n \in Nat, e <= n, NEW s, Within(s, e, n)
  PROVE  AccAt(ApplyThinking(acc, s), n) /\ AccAt(ApplyText(acc, s), n) /\ AccAt(acc, n)
<1>1. 0 \in Nat /\ 0 <= e /\ 0 <= 0
  OBVIOUS
<1>2. AccAt(acc, n)
  BY <1>1, WiderWithin DEF AccAt
<1>3. PICK a, b, t : a = acc.rawThinking \o s /\ b = acc.rawText \o s /\ t = Clean(s)
  OBVIOUS
<1>4. Within(a, 0, n) /\ Within(b, 0, n)
  BY <1>1, <1>3, JoinedWithin DEF AccAt
<1>5. AccAt([acc EXCEPT !.rawThinking = a, !.thinking = @ \o t], n)
  BY <1>2, <1>4 DEF AccAt, AccOk
<1>6. AccAt([acc EXCEPT !.rawText = b, !.text = @ \o t], n)
  BY <1>2, <1>4 DEF AccAt, AccOk
<1> QED BY <1>2, <1>3, <1>5, <1>6 DEF ApplyThinking, ApplyText

(* A sieve holds it up to every later place too. *)
LEMMA SieveWider ==
  ASSUME NEW st, NEW c, NEW a, NEW b, SieveAt(st, c, a, b), NEW d \in Nat, b <= d
  PROVE  SieveAt(st, c, a, d)
<1>1. c \in Nat /\ a \in Nat /\ b \in Nat /\ c <= a /\ a <= b /\ a <= a /\ a <= d
  BY DEF SieveAt
<1>2. Within(st.capture \o st.pending, a, b)
  BY DEF SieveAt
<1>3. Within(st.capture \o st.pending, a, d)
  BY <1>1, <1>2, WiderWithin
<1> QED BY <1>1, <1>3 DEF SieveAt

(* A runtime whose sieve rests may be taken to be further on. *)
LEMMA RestingRead ==
  ASSUME NEW r, NEW c, NEW m, RtAt(r, c, m), Resting(r.sieve), NEW e \in Nat, c <= e, m <= e
  PROVE  RtRead(r, e) /\ RtAt(r, e, e)
<1>1. e <= e
  OBVIOUS
<1>2. RtAt(r, e, e)
  BY RtWider
<1>3. SieveAt(r.sieve, e, e, e)
  BY <1>1, RestingAt
<1> QED BY <1>2, <1>3 DEF RtRead

(* What a sieve has handed out becomes frames of a chat. *)
LEMMA ChatSievedLies ==
  ASSUME NEW r, ChatStays(r, r), NEW c, NEW m, RtAt(r, c, m), NEW d \in Nat, NEW n \in Nat,
         NEW drained, EventsAt(drained.out, m, n, c, d)
  PROVE  LET l == ChatSieved(r, drained)
         IN  ChatStays(l, l) /\ l.sieve = drained.st /\ l.acc = r.acc /\ RtAt(l, d, n)
<1>1. PICK f : f = [r EXCEPT !.sieve = drained.st]
  OBVIOUS
<1>2. ChatStays(f, f) /\ f.sieve = drained.st /\ f.acc = r.acc /\ f.sent = r.sent /\ f.batch = r.batch
  BY <1>1 DEF ChatStays, ChatFields
<1>3. RtAt(f, c, m)
  BY <1>2 DEF RtAt
<1>4. PICK l : l = ChatEvents(f, drained.out)
  OBVIOUS
<1>5. ChatStays(l, f) /\ RtAt(l, d, n)
  BY <1>2, <1>3, <1>4, ChatEventsLie
<1>6. ChatStays(l, l) /\ l.sieve = drained.st /\ l.acc = r.acc
  BY <1>2, <1>5 DEF ChatStays
<1> QED BY <1>1, <1>4, <1>5, <1>6 DEF ChatSieved

(* The part of a line that is thinking: the sieve holds nothing then. *)
LEMMA ChatThinkingLies ==
  ASSUME NEW r, ChatStays(r, r), AccOk(r.acc), NEW e \in Nat, NEW n \in Nat, e <= n, RtRead(r, e), AccAt(r.acc, e),
         NEW s, Within(s, e, n), s # << >> => Resting(r.sieve)
  PROVE  LET l == ChatThinking(r, s)
         IN  ChatStays(l, l) /\ l.sieve = r.sieve /\ AccAt(l.acc, n) /\ RtRead(l, n)
<1>1. PICK acc : acc = ApplyThinking(r.acc, s)
  OBVIOUS
<1>2. AccAt(acc, n)
  BY <1>1, AppliedLies
<1>3. PICK f : f = [r EXCEPT !.acc = acc]
  OBVIOUS
<1>4. ChatStays(f, f) /\ f.sieve = r.sieve /\ f.acc = acc /\ f.sent = r.sent /\ f.batch = r.batch
  BY <1>3 DEF ChatStays, ChatFields
<1>5. PICK c, m : RtAt(r, c, m) /\ SieveAt(r.sieve, c, m, e)
  BY DEF RtRead
<1>6. c \in Nat /\ m \in Nat /\ c <= m /\ m <= e /\ e <= e /\ c <= n /\ m <= n /\ n <= n /\ m <= m
  BY <1>5 DEF SieveAt
<1>7. RtAt(f, c, m)
  BY <1>4, <1>5 DEF RtAt
<1>8. PICK l : l = AddToBatch(f, "reasoning", Clean(s))
  OBVIOUS
<1>9. l = ChatThinking(r, s)
  BY <1>1, <1>3, <1>8 DEF ChatThinking
<1>10. CASE s = << >>
  <2>1. Within(Clean(s), m, m)
    BY <1>10, NothingWithin, CleanWithin
  <2>2. ChatStays(l, f) /\ RtAt(l, c, m)
    BY <1>4, <1>6, <1>7, <1>8, <2>1, AddToBatchLies
  <2>3. SieveAt(r.sieve, c, m, n)
    BY <1>5, SieveWider
  <2>4. ChatStays(l, l) /\ l.sieve = r.sieve /\ l.acc = acc
    BY <1>4, <2>2 DEF ChatStays
  <2> QED BY <1>2, <1>9, <2>2, <2>3, <2>4 DEF RtRead
<1>11. CASE s # << >>
  <2>1. Within(Clean(s), m, n)
    <3>1. Within(Clean(s), e, n)
      BY CleanWithin
    <3> QED BY <1>6, <3>1, WiderWithin
  <2>2. ChatStays(l, f) /\ RtAt(l, c, n)
    BY <1>4, <1>6, <1>7, <1>8, <2>1, AddToBatchLies
  <2>3. ChatStays(l, l) /\ l.sieve = r.sieve /\ l.acc = acc
    BY <1>4, <2>2 DEF ChatStays
  <2>4. RtRead(l, n)
    BY <1>6, <1>11, <2>2, <2>3, RestingRead
  <2> QED BY <1>2, <1>9, <2>3, <2>4
<1> QED BY <1>10, <1>11

(* The part that is text, through the sieve if the request has tools. *)
LEMMA ChatTextLies ==
  ASSUME NEW r, NEW offered, ChatOk(r, offered), NEW e \in Nat, NEW n \in Nat, e <= n, RtRead(r, e), AccAt(r.acc, e),
         NEW s, Within(s, e, n), offered = {} => Resting(r.sieve)
  PROVE  LET l == ChatText(r, s, offered)
         IN  /\ ChatStays(l, l) /\ AccAt(l.acc, n) /\ RtRead(l, n)
             /\ offered = {} \/ s = << >> => l.sieve = r.sieve
<1>1. ChatStays(r, r) /\ AccOk(r.acc) /\ SieveOk(r.sieve, offered)
  BY DEF ChatOk, Running, ChatStays
<1>2. PICK acc : acc = ApplyText(r.acc, s)
  OBVIOUS
<1>3. AccAt(acc, n) /\ AccAt(r.acc, n)
  BY <1>1, <1>2, AppliedLies
<1>4. PICK f : f = [r EXCEPT !.acc = acc]
  OBVIOUS
<1>5. ChatStays(f, f) /\ f.sieve = r.sieve /\ f.acc = acc /\ f.sent = r.sent /\ f.batch = r.batch
  BY <1>1, <1>4 DEF ChatStays, ChatFields
<1>6. PICK c, m : RtAt(r, c, m) /\ SieveAt(r.sieve, c, m, e)
  BY DEF RtRead
<1>7. c \in Nat /\ m \in Nat /\ c <= m /\ m <= e /\ e <= e /\ c <= n /\ m <= n /\ n <= n /\ m <= m
  BY <1>6 DEF SieveAt
<1>8. RtAt(f, c, m)
  BY <1>5, <1>6 DEF RtAt
<1>9. CASE s = << >>
  <2>1. SieveAt(r.sieve, c, m, n)
    BY <1>6, SieveWider
  <2>2. ChatText(r, s, offered) = r
    BY <1>9 DEF ChatText
  <2> QED BY <1>1, <1>3, <1>6, <2>1, <2>2 DEF RtRead
<1>10. CASE s # << >> /\ offered = {}
  <2>1. PICK l : l = AddToBatch(f, "content", Clean(s))
    OBVIOUS
  <2>2. Within(Clean(s), m, n)
    <3>1. Within(Clean(s), e, n)
      BY CleanWithin
    <3> QED BY <1>7, <3>1, WiderWithin
  <2>3. ChatStays(l, f) /\ RtAt(l, c, n)
    BY <1>5, <1>7, <1>8, <2>1, <2>2, AddToBatchLies
  <2>4. ChatStays(l, l) /\ l.sieve = r.sieve /\ l.acc = acc
    BY <1>5, <2>3 DEF ChatStays
  <2>5. RtRead(l, n)
    BY <1>7, <1>10, <2>3, <2>4, RestingRead
  <2>6. ChatText(r, s, offered) = l
    BY <1>2, <1>4, <1>10, <2>1 DEF ChatText, ChatTextApplied
  <2> QED BY <1>3, <2>4, <2>5, <2>6
<1>11. CASE s # << >> /\ offered # {}
  <2>1. PICK drained : drained = ProcessChunk(f.sieve, s, offered)
    OBVIOUS
  <2>2. DrainLies(drained, m, c, m, m, n)
    BY <1>1, <1>5, <1>6, <2>1, ProcessChunkLies
  <2>3. PICK k \in Nat : m <= k /\ k <= n /\ SieveAt(drained.st, m, k, n) /\ EventsAt(drained.out, m, k, c, m)
    BY <2>2 DEF DrainLies
  <2>4. PICK l : l = ChatSieved(f, drained)
    OBVIOUS
  <2>5. ChatStays(l, l) /\ l.sieve = drained.st /\ l.acc = f.acc /\ RtAt(l, m, k)
    BY <1>5, <1>7, <1>8, <2>3, <2>4, ChatSievedLies
  <2>6. RtRead(l, n)
    BY <2>3, <2>5 DEF RtRead
  <2>7. ChatText(r, s, offered) = l
    BY <1>2, <1>4, <1>11, <2>1, <2>4 DEF ChatText, ChatTextApplied
  <2> QED BY <1>3, <1>5, <1>11, <2>5, <2>6, <2>7
<1> QED BY <1>9, <1>10, <1>11

(* A line of the reply. *)
LEMMA ChatLineLies ==
  ASSUME NEW r, NEW offered, ChatOk(r, offered), NEW e \in Nat, NEW h \in Nat, NEW n \in Nat, e <= h, h <= n,
         RtRead(r, e), AccAt(r.acc, e), NEW thinking, Within(thinking, e, h), NEW text, Within(text, h, n),
         thinking # << >> \/ offered = {} => Resting(r.sieve)
  PROVE  LET l == ChatLine(r, thinking, text, offered)
         IN  /\ RtRead(l, n) /\ AccAt(l.acc, n) /\ l.batch.text = << >>
             /\ offered = {} \/ text = << >> => l.sieve = r.sieve
<1>1. ChatStays(r, r) /\ AccOk(r.acc)
  BY DEF ChatOk, Running, ChatStays
<1>2. PICK f : f = ChatThinking(r, thinking)
  OBVIOUS
<1>3. ChatStays(f, f) /\ f.sieve = r.sieve /\ AccAt(f.acc, h) /\ RtRead(f, h)
  BY <1>1, <1>2, ChatThinkingLies
<1>4. ChatOk(f, offered)
  <2>1. PICK acc : acc = ApplyThinking(r.acc, thinking)
    OBVIOUS
  <2>2. AccOk(acc)
    BY <1>1, <2>1, AppliedOk DEF Within
  <2>3. PICK g : g = [r EXCEPT !.acc = acc]
    OBVIOUS
  <2>4. ChatOk(g, offered)
    BY <2>2, <2>3 DEF ChatOk, ChatFields, Running
  <2>5. ChatGoesOn(AddToBatch(g, "reasoning", Clean(thinking)), g, offered)
    BY <2>4, AddToBatchKeeps
  <2> QED BY <1>2, <2>1, <2>3, <2>5 DEF ChatThinking, ChatGoesOn
<1>5. PICK g : g = ChatText(f, text, offered)
  OBVIOUS
<1>6. /\ ChatStays(g, g) /\ AccAt(g.acc, n) /\ RtRead(g, n)
      /\ offered = {} \/ text = << >> => g.sieve = f.sieve
  BY <1>3, <1>4, <1>5, ChatTextLies
<1>7. PICK c, m : RtAt(g, c, m) /\ SieveAt(g.sieve, c, m, n)
  BY <1>6 DEF RtRead
<1>8. PICK l : l = FlushBatch(g)
  OBVIOUS
<1>9. ChatStays(l, g) /\ RtAt(l, c, m) /\ l.batch.text = << >>
  BY <1>6, <1>7, <1>8, FlushBatchLies
<1>10. RtRead(l, n)
  BY <1>7, <1>9 DEF RtRead, ChatStays
<1>11. ChatLine(r, thinking, text, offered) = l
  BY <1>2, <1>5, <1>8 DEF ChatLine
<1> QED BY <1>3, <1>6, <1>9, <1>10, <1>11 DEF ChatStays

--------------------------------------------------------------------------------
(* The end of an attempt *)

(* What was sent is in the order of the reply. *)
SentInTurn(r) == \E c, m \in Nat : SentAt(r.sent, c, m)

(* What a runtime has sent so far is in order. *)
LEMMA ReadInTurn ==
  ASSUME NEW r, NEW c, NEW m, RtAt(r, c, m)
  PROVE  SentInTurn(r)
BY DEF RtAt, SentInTurn

(* Two frames that show nothing end a stream. *)
LEMMA EndedInTurn ==
  ASSUME NEW r, SentInTurn(r), NEW first, NEW last, Bare(first), Bare(last),
         NEW m, m.sent = r.sent \o <<first, last>>
  PROVE  SentInTurn(m)
<1>1. PICK c \in Nat, k \in Nat : SentAt(r.sent, c, k)
  BY DEF SentInTurn
<1>2. SentAt(r.sent \o <<first, last>>, c, k)
  BY <1>1, EndSent DEF Bare
<1> QED BY <1>2 DEF SentInTurn

(* A stream that has sent no call may start with any. *)
LEMMA NoneCalled ==
  ASSUME NEW r, NEW offered, Running(r, offered), ~r.called, NEW c, NEW m, RtAt(r, c, m)
  PROVE  RtAt(r, 0, m)
<1>1. c \in Nat /\ m \in Nat
  BY DEF RtAt
<1>2. PICK k \in Nat : k <= m /\ SentAt(r.sent, c, k) /\ Within(r.batch.text, k, m)
  BY DEF RtAt
<1>3. \A i \in 1 .. Len(r.sent) : ~Calling(r.sent[i])
  BY DEF Running, CalledIn
<1>4. \A i \in 1 .. Len(r.sent) : Within(CallsIn(r.sent[i]), 0, 0)
  BY <1>3, CallsInFacts, NothingWithin
<1>5. SentAt(r.sent, 0, k)
  BY <1>2, <1>4 DEF SentAt
<1> QED BY <1>1, <1>2, <1>5 DEF RtAt

(* The calls that are found at the end come in the order of the reply. *)
LEMMA DetectedWithin ==
  ASSUME NEW acc, NEW e, AccAt(acc, e), NEW filtered, NEW emitted, NEW offered, NEW required
  PROVE  Within(StreamTurn(acc, filtered, emitted, offered, required).calls, 0, e)
<1>1. Within(ParseStandalone(acc.rawText, offered).calls, 0, e)
  BY WithinLaid, ParsedWithin DEF AccAt
<1>2. Within(ParseStandalone(acc.rawThinking, offered).calls, 0, e)
  BY WithinLaid, ParsedWithin DEF AccAt
<1>3. PICK text, calls : text = Clean(acc.text) /\ calls = Detect(acc.rawText, text, acc.rawThinking, offered)
  OBVIOUS
<1>4. Within(calls, 0, e)
  BY <1>1, <1>2, <1>3 DEF Detect, TextFirst
<1>5. StreamTurn(acc, filtered, emitted, offered, required)
        = StreamTurnOf(text, Clean(acc.thinking), calls, filtered, emitted, required)
  BY <1>3 DEF StreamTurn, StreamTurnOn
<1>6. StreamTurnOf(text, Clean(acc.thinking), calls, filtered, emitted, required).calls = calls
  BY DEF StreamTurnOf
<1> QED BY <1>4, <1>5, <1>6

(* A runtime of which an attempt takes nothing more. *)
SentAll(r, e) == RtRead(r, e) /\ Resting(r.sieve) /\ AccAt(r.acc, e)

(* What is left of a chat goes out: the calls if it has sent none, and else *)
(* what its sieve holds.                                                    *)
LEMMA ChatFlushLies ==
  ASSUME NEW r, NEW offered, ChatOk(r, offered), NEW e \in Nat, RtRead(r, e), AccAt(r.acc, e),
         offered = {} => Resting(r.sieve), NEW turn, Within(turn.calls, 0, e)
  PROVE  LET f == ChatFlush(r, turn, offered)
         IN  SentInTurn(f) /\ (turn.calls = << >> => SentAll(f, e))
<1>1. ChatStays(r, r) /\ SieveOk(r.sieve, offered) /\ Running(r, offered)
  BY DEF ChatOk, Running, ChatStays
<1>2. PICK c, m : RtAt(r, c, m) /\ SieveAt(r.sieve, c, m, e)
  BY DEF RtRead
<1>3. c \in Nat /\ m \in Nat /\ c <= m /\ m <= e /\ e <= e /\ c <= e /\ 0 <= e
  BY <1>2 DEF SieveAt
<1>4. CASE turn.calls # << >> /\ ~r.called
  <2>1. RtAt(r, 0, m)
    BY <1>1, <1>2, <1>4, NoneCalled
  <2>2. PICK l : l = ChatCalls(r, turn.calls)
    OBVIOUS
  <2>3. RtAt(l, e, m)
    BY <1>1, <1>3, <2>1, <2>2, ChatCallsLie
  <2>4. SentInTurn(l)
    BY <2>3, ReadInTurn
  <2> QED BY <1>4, <2>2, <2>4 DEF ChatFlush
<1>5. CASE ~(turn.calls # << >> /\ ~r.called) /\ offered # {}
  <2>1. PICK drained : drained = Flush(r.sieve, offered)
    OBVIOUS
  <2>2. EventsAt(drained.out, m, e, c, e) /\ Resting(drained.st)
    BY <1>1, <1>2, <2>1, FlushLies
  <2>3. PICK g : g = ChatSieved(r, drained)
    OBVIOUS
  <2>4. ChatStays(g, g) /\ g.sieve = drained.st /\ g.acc = r.acc /\ RtAt(g, e, e)
    BY <1>1, <1>2, <2>2, <2>3, ChatSievedLies
  <2>5. PICK l : l = FlushBatch(g)
    OBVIOUS
  <2>6. ChatStays(l, g) /\ RtAt(l, e, e)
    BY <2>4, <2>5, FlushBatchLies
  <2>7. Resting(l.sieve) /\ AccAt(l.acc, e)
    BY <2>2, <2>4, <2>6 DEF ChatStays
  <2>8. RtRead(l, e)
    BY <1>3, <2>6, <2>7, RestingRead
  <2>9. ChatFlush(r, turn, offered) = l
    BY <1>5, <2>1, <2>3, <2>5 DEF ChatFlush
  <2> QED BY <2>6, <2>7, <2>8, <2>9, ReadInTurn DEF SentAll
<1>6. CASE ~(turn.calls # << >> /\ ~r.called) /\ offered = {}
  <2>1. ChatFlush(r, turn, offered) = r
    BY <1>6 DEF ChatFlush
  <2> QED BY <1>2, <1>6, <2>1, ReadInTurn DEF SentAll
<1> QED BY <1>4, <1>5, <1>6

(* The attempt ends: it is put off, and all was sent, or tells its outcome. *)
LEMMA ChatFinalizeLies ==
  ASSUME NEW r, NEW offered, ChatOk(r, offered), NEW e \in Nat, RtRead(r, e), AccAt(r.acc, e),
         offered = {} => Resting(r.sieve), NEW reason, NEW defer, NEW required
  PROVE  LET judged == ChatFinalize(r, reason, defer, offered, required)
         IN  /\ judged.over => SentInTurn(judged.rt)
             /\ ~judged.over => SentAll(judged.rt, e)
<1>1. PICK turn : turn = StreamTurn(r.acc, reason = "content_filter", r.called, offered, required)
  OBVIOUS
<1>2. Within(turn.calls, 0, e)
  BY <1>1, DetectedWithin
<1>3. PICK fresh : fresh = [r EXCEPT !.error = "none"]
  OBVIOUS
<1>4. /\ ChatOk(fresh, offered) /\ fresh.sieve = r.sieve /\ fresh.acc = r.acc
      /\ fresh.sent = r.sent /\ fresh.batch = r.batch
  BY <1>3 DEF ChatOk, ChatFields, Running
<1>5. RtRead(fresh, e) /\ AccAt(fresh.acc, e) /\ (offered = {} => Resting(fresh.sieve))
  BY <1>4 DEF RtRead, RtAt
<1>6. PICK m : m = ChatFlush(fresh, turn, offered)
  OBVIOUS
<1>7. SentInTurn(m) /\ (turn.calls = << >> => SentAll(m, e))
  BY <1>2, <1>4, <1>5, <1>6, ChatFlushLies
<1>8. DOMAIN m = ChatFields
  <2>1. TurnOk(turn, r.called, offered, required)
    BY <1>1, StreamTurnOk DEF ChatOk, Running
  <2>2. turn.calls # << >> => ChatGoesOn(ChatCalls(fresh, turn.calls), fresh, offered)
    BY <1>4, <2>1, ChatCallsKeeps DEF TurnOk
  <2>3. ChatGoesOn(FlushBatch(ChatSieved(fresh, Flush(fresh.sieve, offered))), fresh, offered)
    <3>1. DrainedOk(Flush(fresh.sieve, offered), offered)
      BY <1>4, FlushKeeps DEF ChatOk, Running
    <3>2. ChatGoesOn(ChatSieved(fresh, Flush(fresh.sieve, offered)), fresh, offered)
      BY <1>4, <3>1, ChatSievedKeeps
    <3> QED BY <3>2, FlushBatchKeeps DEF ChatGoesOn
  <2> QED BY <1>4, <1>6, <2>2, <2>3 DEF ChatFlush, ChatGoesOn, ChatOk
<1>9. PICK o : o = Outcome(turn, m.called)
  OBVIOUS
<1>10. o.fails => turn.calls = << >>
  BY <1>9 DEF Outcome
<1>11. PICK judged : judged = ChatConclude(m, turn, o, defer)
  OBVIOUS
<1>12. ChatFinalize(r, reason, defer, offered, required) = judged
  BY <1>1, <1>3, <1>6, <1>9, <1>11 DEF ChatFinalize, ChatTurnJudged, ChatJudge
<1>13. CASE o.fails /\ defer
  <2>1. PICK b : b = [m EXCEPT !.error = turn.error]
    OBVIOUS
  <2>2. b.sieve = m.sieve /\ b.acc = m.acc /\ b.sent = m.sent /\ b.batch = m.batch
    BY <1>8, <2>1 DEF ChatFields
  <2>3. SentAll(b, e)
    BY <1>7, <1>10, <1>13, <2>2 DEF SentAll, RtRead, RtAt
  <2>4. judged = [rt |-> b, over |-> FALSE]
    BY <1>11, <1>13, <2>1 DEF ChatConclude
  <2> QED BY <1>12, <2>3, <2>4
<1>14. ASSUME NEW first, NEW last, Bare(first), Bare(last), NEW b, b.sent = m.sent \o <<first, last>>
       PROVE  SentInTurn(b)
  BY <1>7, <1>14, EndedInTurn
<1>15. CASE o.fails /\ ~defer
  <2>1. PICK sent : sent = m.sent \o <<FailedChunk(turn.error), DoneChunk>>
    OBVIOUS
  <2>2. PICK b : b = [m EXCEPT !.error = turn.error, !.sent = sent]
    OBVIOUS
  <2>3. b.sent = sent
    BY <1>8, <2>2 DEF ChatFields
  <2>4. SentInTurn(b)
    BY <1>14, <2>1, <2>3, BareFrames
  <2>5. judged = [rt |-> b, over |-> TRUE]
    BY <1>11, <1>15, <2>1, <2>2 DEF ChatConclude, ChatFail
  <2> QED BY <1>12, <2>4, <2>5
<1>16. CASE ~o.fails
  <2>1. PICK sent : sent = m.sent \o <<FinishChunk(o.reason), DoneChunk>>
    OBVIOUS
  <2>2. PICK b : b = [m EXCEPT !.sent = sent]
    OBVIOUS
  <2>3. b.sent = sent
    BY <1>8, <2>2 DEF ChatFields
  <2>4. SentInTurn(b)
    BY <1>14, <2>1, <2>3, BareFrames
  <2>5. judged = [rt |-> b, over |-> TRUE]
    BY <1>11, <1>16, <2>1, <2>2 DEF ChatConclude, ChatFinish
  <2> QED BY <1>12, <2>4, <2>5
<1> QED BY <1>13, <1>15, <1>16

--------------------------------------------------------------------------------
(* The order of a response *)

(* A step of a response that leaves the batch, the sieve and the            *)
(* accumulated reply alone.                                                 *)
RespStays(m, r) == DOMAIN m = RespFields /\ m.batch = r.batch /\ m.sieve = r.sieve /\ m.acc = r.acc
RespTo(m, r, c, k) == RespStays(m, r) /\ SentAt(m.sent, c, k)

(* A frame is sent. *)
LEMMA RespFrameSent ==
  ASSUME NEW r, DOMAIN r = RespFields, NEW frame
  PROVE  LET m == RespSend(r, frame)
         IN  RespStays(m, r) /\ m.sent = Append(r.sent, frame) /\ m.message = r.message
<1>1. PICK more : more = Append(r.sent, frame)
  OBVIOUS
<1>2. PICK m : m = [r EXCEPT !.sent = more]
  OBVIOUS
<1>3. RespStays(m, r) /\ m.sent = more /\ m.message = r.message
  BY <1>2 DEF RespStays, RespFields
<1> QED BY <1>1, <1>2, <1>3 DEF RespSend

(* A frame that shows nothing is sent. *)
LEMMA RespBareSent ==
  ASSUME NEW q, NEW r, NEW c \in Nat, NEW k \in Nat, RespTo(r, q, c, k), NEW frame, Bare(frame)
  PROVE  RespTo(RespSend(r, frame), q, c, k)
<1>1. PICK m : m = RespSend(r, frame)
  OBVIOUS
<1>2. RespStays(m, r) /\ m.sent = Append(r.sent, frame)
  BY <1>1, RespFrameSent DEF RespTo, RespStays
<1>3. SentAt(m.sent, c, k)
  BY <1>2, BareSent DEF RespTo, Bare
<1> QED BY <1>1, <1>2, <1>3 DEF RespTo, RespStays

(* The rest of a response is another. *)
LEMMA RespOther ==
  ASSUME NEW q, NEW r, NEW c, NEW k, RespTo(r, q, c, k), NEW message, NEW next
  PROVE  /\ RespTo([r EXCEPT !.message = message], q, c, k)
         /\ RespTo([r EXCEPT !.message = message, !.nextIndex = next], q, c, k)
         /\ RespTo([r EXCEPT !.functions = message], q, c, k)
         /\ RespTo([r EXCEPT !.functions = message, !.called = TRUE], q, c, k)
         /\ RespTo([r EXCEPT !.error = message], q, c, k)
<1>1. RespTo([r EXCEPT !.message = message], q, c, k)
  BY DEF RespTo, RespStays, RespFields
<1>2. RespTo([r EXCEPT !.message = message, !.nextIndex = next], q, c, k)
  BY DEF RespTo, RespStays, RespFields
<1>3. RespTo([r EXCEPT !.functions = message], q, c, k)
  BY DEF RespTo, RespStays, RespFields
<1>4. RespTo([r EXCEPT !.functions = message, !.called = TRUE], q, c, k)
  BY DEF RespTo, RespStays, RespFields
<1>5. RespTo([r EXCEPT !.error = message], q, c, k)
  BY DEF RespTo, RespStays, RespFields
<1> QED BY <1>1, <1>2, <1>3, <1>4, <1>5

(* The message is announced, with its part. *)
LEMMA PartAddedLies ==
  ASSUME NEW q, NEW r, NEW c \in Nat, NEW k \in Nat, RespTo(r, q, c, k)
  PROVE  RespTo(PartAdded(r), q, c, k)
<1>1. PICK message : message = [r.message EXCEPT !.index = r.nextIndex]
  OBVIOUS
<1>2. PICK next : next = r.nextIndex + 1
  OBVIOUS
<1>3. WithMessageIndex(r) = IF r.message.index >= 0 THEN r ELSE [r EXCEPT !.message = message, !.nextIndex = next]
  BY <1>1, <1>2 DEF WithMessageIndex
<1>4. PICK w : w = WithMessageIndex(r)
  OBVIOUS
<1>5. RespTo(w, q, c, k)
  <2>1. RespTo([r EXCEPT !.message = message, !.nextIndex = next], q, c, k)
    BY RespOther
  <2> QED BY <1>3, <1>4, <2>1
<1>6. PICK a : a = RespSend(w, ItemAdded(MessageItem(w)))
  OBVIOUS
<1>7. RespTo(a, q, c, k)
  BY <1>5, <1>6, BareFrames, RespBareSent
<1>8. PICK added : added = [a.message EXCEPT !.added = TRUE]
  OBVIOUS
<1>9. MessageAdded(r) = IF r.message.added THEN r ELSE [a EXCEPT !.message = added]
  BY <1>4, <1>6, <1>8 DEF MessageAdded
<1>10. PICK m : m = MessageAdded(r)
  OBVIOUS
<1>11. RespTo(m, q, c, k)
  <2>1. RespTo([a EXCEPT !.message = added], q, c, k)
    BY <1>7, RespOther
  <2> QED BY <1>9, <1>10, <2>1
<1>12. PICK p : p = RespSend(m, PartAddedFrame)
  OBVIOUS
<1>13. RespTo(p, q, c, k)
  BY <1>11, <1>12, BareFrames, RespBareSent
<1>14. PICK part : part = [p.message EXCEPT !.part = TRUE]
  OBVIOUS
<1>15. PartAdded(r) = IF r.message.part THEN r ELSE [p EXCEPT !.message = part]
  BY <1>10, <1>12, <1>14 DEF PartAdded
<1>16. RespTo([p EXCEPT !.message = part], q, c, k)
  BY <1>13, RespOther
<1> QED BY <1>15, <1>16

(* Text behind that sent goes into the message. *)
LEMMA EmitTextLies ==
  ASSUME NEW q, NEW r, NEW c \in Nat, NEW k \in Nat, RespTo(r, q, c, k), NEW n \in Nat, k <= n, NEW s, Within(s, k, n)
  PROVE  RespTo(EmitText(r, s), q, c, n)
<1>1. PICK p : p = PartAdded(r)
  OBVIOUS
<1>2. RespTo(p, q, c, k)
  BY <1>1, PartAddedLies
<1>3. PICK frame : frame = TextDelta(s)
  OBVIOUS
<1>4. TextIn(frame) = s /\ CallsIn(frame) = << >>
  BY <1>3, FramesShow
<1>5. PICK a : a = RespSend(p, frame)
  OBVIOUS
<1>6. RespStays(a, p) /\ a.sent = Append(p.sent, frame)
  BY <1>2, <1>5, RespFrameSent DEF RespTo, RespStays
<1>7. c <= c
  OBVIOUS
<1>8. SentAt(a.sent, c, n)
  BY <1>2, <1>4, <1>6, <1>7, NothingWithin, FrameSent DEF RespTo
<1>9. RespTo(a, q, c, n)
  BY <1>2, <1>6, <1>8 DEF RespTo, RespStays
<1>10. PICK message : message = [a.message EXCEPT !.text = @ \o s]
  OBVIOUS
<1>11. EmitText(r, s) = IF s = << >> THEN r ELSE [a EXCEPT !.message = message]
  BY <1>1, <1>3, <1>5, <1>10 DEF EmitText
<1>12. RespTo(r, q, c, n)
  BY <1>7, SentWider DEF RespTo
<1>13. RespTo([a EXCEPT !.message = message], q, c, n)
  BY <1>9, RespOther
<1> QED BY <1>11, <1>12, <1>13

(* The message is closed. *)
LEMMA CloseMessageLies ==
  ASSUME NEW q, NEW r, NEW c \in Nat, NEW k \in Nat, RespTo(r, q, c, k)
  PROVE  RespTo(CloseMessage(r), q, c, k)
<1>1. PICK t : t = RespSend(r, TextDone)
  OBVIOUS
<1>2. RespTo(t, q, c, k)
  BY <1>1, BareFrames, RespBareSent
<1>3. PICK p : p = RespSend(t, PartDone)
  OBVIOUS
<1>4. RespTo(p, q, c, k)
  BY <1>2, <1>3, BareFrames, RespBareSent
<1>5. PICK message : message = [p.message EXCEPT !.part = FALSE]
  OBVIOUS
<1>6. PICK part : part = IF r.message.part THEN [p EXCEPT !.message = message] ELSE r
  OBVIOUS
<1>7. RespTo(part, q, c, k)
  <2>1. RespTo([p EXCEPT !.message = message], q, c, k)
    BY <1>4, RespOther
  <2> QED BY <1>6, <2>1
<1>8. PICK d : d = RespSend(part, ItemDone(MessageItem(r)))
  OBVIOUS
<1>9. RespTo(d, q, c, k)
  BY <1>7, <1>8, BareFrames, RespBareSent
<1>10. CloseMessage(r) = IF r.message.added THEN d ELSE r
  <2>1. [p EXCEPT !.message.part = FALSE] = [p EXCEPT !.message = message]
    BY <1>5
  <2> QED BY <1>1, <1>3, <1>6, <1>8, <2>1 DEF CloseMessage
<1> QED BY <1>9, <1>10

(* What has told calls up to c has told them up to any later place. *)
LEMMA RespWider ==
  ASSUME NEW a, NEW q, NEW c \in Nat, NEW k \in Nat, RespTo(a, q, c, k)
  PROVE  \A d \in Nat : c <= d => RespTo(a, q, d, k)
<1> SUFFICES ASSUME NEW d \in Nat, c <= d PROVE RespTo(a, q, d, k)
  OBVIOUS
<1>1. PICK sent : sent = a.sent
  OBVIOUS
<1>2. SentAt(sent, c, k)
  BY <1>1 DEF RespTo
<1>3. k <= k
  OBVIOUS
<1>4. SentAt(sent, d, k)
  BY <1>2, <1>3, SentWider
<1> QED BY <1>1, <1>4 DEF RespTo

(* One call, behind those sent. *)
LEMMA EmitCallLies ==
  ASSUME NEW q, NEW r, NEW c \in Nat, NEW k \in Nat, RespTo(r, q, c, k), NEW d \in Nat, c <= d,
         NEW i, NEW call, Within(<<call>>, c, d)
  PROVE  RespTo(EmitCall(r, i, call), q, d, k)
<1>1. k <= k
  OBVIOUS
<1>2. PICK w : w = WithFunction(r, i)
  OBVIOUS
<1>3. RespTo(w, q, c, k)
  <2>1. PICK functions, id, next : /\ functions = Entered(r.functions, i, [id |-> r.nextId, index |-> r.nextIndex, done |-> FALSE])
                                   /\ id = r.nextId + 1 /\ next = r.nextIndex + 1
    OBVIOUS
  <2>2. RespTo([r EXCEPT !.functions = functions, !.nextId = id, !.nextIndex = next], q, c, k)
    BY DEF RespTo, RespStays, RespFields
  <2>3. w = r \/ w = [r EXCEPT !.functions = functions, !.nextId = id, !.nextIndex = next]
    BY <1>2, <2>1 DEF WithFunction
  <2> QED BY <2>2, <2>3
<1>4. PICK item : item = [id |-> w.functions[i].id, index |-> w.functions[i].index]
  OBVIOUS
<1>5. PICK a : a = IF i \in DOMAIN r.functions THEN w ELSE RespSend(w, ItemAdded(item))
  OBVIOUS
<1>6. RespTo(a, q, c, k)
  BY <1>3, <1>5, BareFrames, RespBareSent
<1>7. PICK frame : frame = CallDone(call, item)
  OBVIOUS
<1>8. TextIn(frame) = << >> /\ CallsIn(frame) = <<call>>
  BY <1>7, FramesShow
<1>9. PICK b : b = RespSend(a, frame)
  OBVIOUS
<1>10. RespStays(b, a) /\ b.sent = Append(a.sent, frame)
  BY <1>6, <1>9, RespFrameSent DEF RespTo, RespStays
<1>11. SentAt(b.sent, d, k)
  BY <1>1, <1>6, <1>8, <1>10, NothingWithin, FrameSent DEF RespTo
<1>12. RespTo(b, q, d, k)
  BY <1>6, <1>10, <1>11 DEF RespTo, RespStays
<1>13. PICK done : done = RespSend(b, ItemDone(item))
  OBVIOUS
<1>14. RespTo(done, q, d, k)
  BY <1>12, <1>13, BareFrames, RespBareSent
<1>15. PICK functions : functions = [done.functions EXCEPT ![i].done = TRUE]
  OBVIOUS
<1>16. RespTo([done EXCEPT !.functions = functions, !.called = TRUE], q, d, k)
  BY <1>14, RespOther
<1>17. RespTo(a, q, d, k)
  <2>1. \A e \in Nat : c <= e => RespTo(a, q, e, k)
    BY <1>6, RespWider
  <2> QED BY <2>1
<1>18. EmitCall(r, i, call) = IF w.functions[i].done THEN a ELSE [done EXCEPT !.functions = functions, !.called = TRUE]
  BY <1>2, <1>4, <1>5, <1>7, <1>9, <1>13, <1>15 DEF EmitCall
<1> QED BY <1>16, <1>17, <1>18

(* The calls of a block, one behind another. *)
LEMMA EmitCallsLie ==
  ASSUME NEW q, NEW r, NEW c \in Nat, NEW k \in Nat, RespTo(r, q, c, k), NEW d \in Nat, c <= d,
         NEW calls, Within(calls, c, d)
  PROVE  RespTo(EmitCalls(r, calls), q, d, k)
<1>1. PICK l \in Nat : l = Len(calls)
  BY WithinFacts
<1>2. PICK after : EmitCallsTrace(r, calls, l, after)
  BY <1>1, EmitCallsSteps
<1>3. /\ EmitCalls(r, calls) = after[l] /\ after[0] = r
      /\ \A i \in 1 .. l : after[i] = EmitCall(after[i - 1], i, calls[i])
  BY <1>2 DEF EmitCallsTrace
<1>4. \A i \in 1 .. l : Inside(calls[i], c, d)
  BY <1>1 DEF Within
<1>5. \A i, j \in 1 .. l : i < j => calls[i].at < calls[j].at
  BY <1>1 DEF Within
<1> DEFINE g(i) == IF i = 0 THEN c ELSE calls[i].at
           Reached(i) == RespTo(after[i], q, g(i), k)
           Done == {i \in Nat : i <= l => Reached(i)}
<1>6. \A i \in 0 .. l : g(i) \in Nat /\ g(i) <= d
  BY <1>4 DEF Inside
<1>7. 0 \in Done
  BY <1>3
<1>8. ASSUME NEW i \in Nat, i \in Done PROVE i + 1 \in Done
  <2> SUFFICES ASSUME i + 1 <= l PROVE Reached(i + 1)
    OBVIOUS
  <2>1. i + 1 \in 1 .. l /\ (i + 1) - 1 = i /\ i \in 0 .. l /\ i + 1 \in 0 .. l /\ i <= l /\ i + 1 # 0
    BY <1>1
  <2>2. RespTo(after[i], q, g(i), k)
    BY <1>8, <2>1
  <2>3. PICK call : call = calls[i + 1]
    OBVIOUS
  <2>4. Inside(call, c, d) /\ g(i + 1) = call.at
    BY <1>4, <2>1, <2>3
  <2>5. g(i) < call.at
    <3>1. CASE i = 0
      BY <2>4, <3>1 DEF Inside
    <3>2. CASE i # 0
      BY <1>5, <2>1, <2>3, <3>2
    <3> QED BY <3>1, <3>2
  <2>6. g(i) \in Nat /\ g(i + 1) \in Nat
    BY <1>6, <2>1
  <2>7. Within(<<call>>, g(i), g(i + 1))
    <3>1. PICK one : one = <<call>> /\ IsSeq(one) /\ Len(one) = 1 /\ one[1] = call
      BY ShortIsSeq
    <3>2. Inside(call, g(i), g(i + 1))
      BY <2>4, <2>5, <2>6 DEF Inside
    <3> HIDE DEF g
    <3>3. Within(one, g(i), g(i + 1))
      BY <3>1, <3>2 DEF Within
    <3> QED BY <3>1, <3>3
  <2>8. g(i) <= g(i + 1)
    BY <2>4, <2>5, <2>6
  <2>9. PICK x : x = EmitCall(after[i], i + 1, call)
    OBVIOUS
  <2>10. after[i + 1] = x
    BY <1>3, <2>1, <2>3, <2>9
  <2> HIDE DEF g
  <2>11. RespTo(x, q, g(i + 1), k)
    BY <2>2, <2>6, <2>7, <2>8, <2>9, EmitCallLies
  <2> QED BY <2>10, <2>11
<1>9. l \in Done
  <2> HIDE DEF Done
  <2> QED BY <1>7, <1>8, SetInduction
<1>10. RespTo(after[l], q, g(l), k)
  BY <1>9
<1>11. g(l) \in Nat /\ g(l) <= d /\ k <= k
  BY <1>1, <1>6
<1> HIDE DEF g
<1>12. RespTo(after[l], q, d, k)
  BY <1>10, <1>11, SentWider DEF RespTo
<1> QED BY <1>3, <1>12

(* What one event of the sieve becomes. *)
LEMMA RespEventLies ==
  ASSUME NEW q, NEW r, NEW c \in Nat, NEW m \in Nat, RespTo(r, q, c, m), NEW d \in Nat, c <= d,
         NEW n \in Nat, m <= n, NEW e, Within(e.content, m, n), Within(e.calls, c, d)
  PROVE  RespTo(RespEvent(r, e), q, d, n)
<1>1. Within(Clean(e.content), m, n)
  BY CleanWithin
<1>2. PICK shown : shown = EmitText(r, Clean(e.content))
  OBVIOUS
<1>3. RespTo(shown, q, c, n)
  BY <1>1, <1>2, EmitTextLies
<1>4. n <= n
  OBVIOUS
<1>5. RespTo(shown, q, d, n)
  BY <1>3, <1>4, SentWider DEF RespTo
<1>6. PICK x : x = EmitCalls(shown, e.calls)
  OBVIOUS
<1>7. RespTo(x, q, d, n)
  BY <1>3, <1>6, EmitCallsLie
<1>8. PICK none : none = << >>
  OBVIOUS
<1>9. RespTo([x EXCEPT !.functions = none], q, d, n)
  BY <1>7, RespOther
<1>10. RespEvent(r, e) = IF e.calls = << >> THEN shown ELSE [x EXCEPT !.functions = none]
  BY <1>2, <1>6, <1>8 DEF RespEvent
<1> QED BY <1>5, <1>9, <1>10

(* The events of the sieve, one behind another. *)
LEMMA RespEventsLie ==
  ASSUME NEW q, NEW r, NEW c \in Nat, NEW m \in Nat, RespTo(r, q, c, m), NEW d \in Nat, NEW n \in Nat,
         NEW events, EventsAt(events, m, n, c, d)
  PROVE  RespTo(RespEvents(r, events), q, d, n)
<1>1. PICK l \in Nat : l = Len(events)
  BY IsSeqFacts DEF EventsAt
<1>2. PICK f, g : EventMarks(events, m, n, c, d, f, g)
  BY DEF EventsAt
<1>3. /\ f \in [0 .. l -> Nat] /\ f[0] = m /\ f[l] <= n
      /\ g \in [0 .. l -> Nat] /\ g[0] = c /\ g[l] <= d
      /\ Marked(events, f, g)
  BY <1>1, <1>2 DEF EventMarks
<1>4. PICK after : RespEventsTrace(r, events, l, after)
  BY <1>1, RespEventsSteps
<1>5. /\ RespEvents(r, events) = after[l] /\ after[0] = r
      /\ \A i \in 1 .. l : after[i] = RespEvent(after[i - 1], events[i])
  BY <1>4 DEF RespEventsTrace
<1> DEFINE Reached(i) == RespTo(after[i], q, g[i], f[i])
           Done == {i \in Nat : i <= l => Reached(i)}
<1>6. 0 \in Done
  BY <1>3, <1>5
<1>7. ASSUME NEW i \in Nat, i \in Done PROVE i + 1 \in Done
  <2> SUFFICES ASSUME i + 1 <= l PROVE Reached(i + 1)
    OBVIOUS
  <2>1. i + 1 \in 1 .. l /\ (i + 1) - 1 = i /\ i \in 0 .. l /\ i + 1 \in 0 .. l /\ i <= l
    BY <1>1
  <2>2. RespTo(after[i], q, g[i], f[i])
    BY <1>7, <2>1
  <2>3. g[i] \in Nat /\ f[i] \in Nat /\ g[i + 1] \in Nat /\ f[i + 1] \in Nat
    BY <1>3, <2>1
  <2>4. /\ Within(events[i + 1].content, f[i], f[i + 1]) /\ Within(events[i + 1].calls, g[i], g[i + 1])
        /\ f[i] <= f[i + 1] /\ g[i] <= g[i + 1]
    BY <1>1, <1>3, <2>1 DEF Marked
  <2>5. PICK x : x = RespEvent(after[i], events[i + 1])
    OBVIOUS
  <2>6. RespTo(x, q, g[i + 1], f[i + 1])
    BY <2>2, <2>3, <2>4, <2>5, RespEventLies
  <2>7. after[i + 1] = x
    BY <1>5, <2>1, <2>5
  <2> QED BY <2>6, <2>7
<1>8. l \in Done
  <2> HIDE DEF Done
  <2> QED BY <1>6, <1>7, SetInduction
<1>9. RespTo(after[l], q, g[l], f[l])
  BY <1>8
<1>10. g[l] \in Nat /\ f[l] \in Nat
  BY <1>1, <1>3
<1>11. RespTo(after[l], q, d, n)
  BY <1>3, <1>9, <1>10, SentWider DEF RespTo
<1> QED BY <1>5, <1>11

--------------------------------------------------------------------------------
(* A response and its batch *)

RespKeeps(m, r) == DOMAIN m = RespFields /\ m.sieve = r.sieve /\ m.acc = r.acc

(* The batch goes out, behind what was sent. *)
LEMMA RespFlushBatchLies ==
  ASSUME NEW r, DOMAIN r = RespFields, NEW c, NEW m, RtAt(r, c, m)
  PROVE  LET f == RespFlushBatch(r)
         IN  RespKeeps(f, r) /\ RtAt(f, c, m) /\ f.batch.text = << >>
<1>1. c \in Nat /\ m \in Nat /\ c <= c /\ m <= m
  BY DEF RtAt
<1>2. PICK k \in Nat : k <= m /\ SentAt(r.sent, c, k) /\ Within(r.batch.text, k, m)
  BY DEF RtAt
<1>3. CASE r.batch.text = << >>
  BY <1>3 DEF RespFlushBatch, RespKeeps
<1>4. CASE r.batch.text # << >>
  <2>1. PICK none : none = [kind |-> "text", text |-> << >>]
    OBVIOUS
  <2>2. none.text = << >>
    BY <2>1
  <2>3. PICK cleared : cleared = [r EXCEPT !.batch = none]
    OBVIOUS
  <2>4. RespKeeps(cleared, r) /\ cleared.batch = none /\ cleared.sent = r.sent
    BY <2>3 DEF RespKeeps, RespFields
  <2>5. RespTo(cleared, cleared, c, k)
    BY <1>2, <2>4 DEF RespTo, RespStays, RespKeeps
  <2>6. PICK a : a = EmitText(cleared, r.batch.text)
    OBVIOUS
  <2>7. RespTo(a, cleared, c, m)
    BY <1>1, <1>2, <2>5, <2>6, EmitTextLies
  <2>8. PICK frame : frame = ReasoningDelta(r.batch.text)
    OBVIOUS
  <2>9. TextIn(frame) = r.batch.text /\ CallsIn(frame) = << >>
    BY <2>8, FramesShow
  <2>10. PICK b : b = RespSend(cleared, frame)
    OBVIOUS
  <2>11. RespStays(b, cleared) /\ b.sent = Append(cleared.sent, frame)
    BY <2>4, <2>10, RespFrameSent DEF RespKeeps
  <2>12. SentAt(b.sent, c, m)
    BY <1>1, <1>2, <2>4, <2>9, <2>11, NothingWithin, FrameSent
  <2>13. RespTo(b, cleared, c, m)
    BY <2>11, <2>12 DEF RespTo
  <2>14. PICK f : f = RespFlushBatch(r)
    OBVIOUS
  <2>15. f = a \/ f = b
    BY <1>4, <2>1, <2>3, <2>6, <2>8, <2>10, <2>14 DEF RespFlushBatch
  <2>16. RespTo(f, cleared, c, m)
    BY <2>7, <2>13, <2>15
  <2>17. RespKeeps(f, r) /\ f.batch.text = << >> /\ SentAt(f.sent, c, m)
    BY <2>2, <2>4, <2>16 DEF RespTo, RespStays, RespKeeps
  <2>18. RtAt(f, c, m)
    BY <1>1, <2>17, RtSent
  <2> QED BY <2>14, <2>17, <2>18
<1> QED BY <1>3, <1>4

(* Text behind that of the batch joins it. *)
LEMMA RespBatchLies ==
  ASSUME NEW r, DOMAIN r = RespFields, NEW c, NEW m, RtAt(r, c, m), NEW n \in Nat, m <= n,
         NEW kind, NEW s, Within(s, m, n)
  PROVE  RespKeeps(RespBatch(r, kind, s), r) /\ RtAt(RespBatch(r, kind, s), c, n)
<1>1. c \in Nat /\ m \in Nat /\ c <= c /\ m <= m
  BY DEF RtAt
<1>2. PICK f : f = IF r.batch.kind = kind THEN r ELSE RespFlushBatch(r)
  OBVIOUS
<1>3. RespKeeps(f, r) /\ RtAt(f, c, m)
  BY <1>2, RespFlushBatchLies DEF RespKeeps
<1>4. PICK k \in Nat : k <= m /\ SentAt(f.sent, c, k) /\ Within(f.batch.text, k, m)
  BY <1>3 DEF RtAt
<1>5. PICK text : text = f.batch.text \o s
  OBVIOUS
<1>6. Within(text, k, n)
  BY <1>1, <1>4, <1>5, JoinedWithin
<1>7. PICK batch : batch = [kind |-> kind, text |-> text]
  OBVIOUS
<1>8. batch.text = text
  BY <1>7
<1>9. PICK g : g = [f EXCEPT !.batch = batch]
  OBVIOUS
<1>10. RespKeeps(g, r) /\ g.sent = f.sent /\ g.batch = batch
  BY <1>3, <1>9 DEF RespKeeps, RespFields
<1>11. k <= n
  BY <1>1, <1>4
<1>12. RtAt(g, c, n)
  BY <1>1, <1>4, <1>6, <1>8, <1>10, <1>11 DEF RtAt
<1>13. RtAt(r, c, n) /\ RespKeeps(r, r)
  BY <1>1, RtWider DEF RespKeeps
<1>14. RespBatch(r, kind, s) = IF s = << >> THEN r ELSE g
  BY <1>2, <1>5, <1>7, <1>9 DEF RespBatch
<1> QED BY <1>10, <1>12, <1>13, <1>14

(* What a sieve has handed out becomes frames of a response. *)
LEMMA RespSievedLies ==
  ASSUME NEW r, DOMAIN r = RespFields, NEW c \in Nat, NEW m \in Nat, SentAt(r.sent, c, m),
         NEW d \in Nat, NEW n \in Nat, NEW drained, EventsAt(drained.out, m, n, c, d)
  PROVE  LET l == RespSieved(r, drained)
         IN  /\ DOMAIN l = RespFields /\ l.sieve = drained.st /\ l.acc = r.acc /\ l.batch = r.batch
             /\ SentAt(l.sent, d, n)
<1>1. PICK f : f = [r EXCEPT !.sieve = drained.st]
  OBVIOUS
<1>2. /\ DOMAIN f = RespFields /\ f.sieve = drained.st /\ f.acc = r.acc /\ f.sent = r.sent /\ f.batch = r.batch
  BY <1>1 DEF RespFields
<1>3. RespTo(f, f, c, m)
  BY <1>2 DEF RespTo, RespStays
<1>4. PICK l : l = RespEvents(f, drained.out)
  OBVIOUS
<1>5. RespTo(l, f, d, n)
  BY <1>3, <1>4, RespEventsLie
<1> QED BY <1>1, <1>2, <1>4, <1>5 DEF RespSieved, RespTo, RespStays

(* The part of a line that is thinking: the sieve holds nothing then. *)
LEMMA RespThinkingLies ==
  ASSUME NEW r, DOMAIN r = RespFields, AccOk(r.acc), NEW e \in Nat, NEW n \in Nat, e <= n,
         RtRead(r, e), AccAt(r.acc, e), NEW s, Within(s, e, n), s # << >> => Resting(r.sieve)
  PROVE  LET l == RespThinking(r, s)
         IN  DOMAIN l = RespFields /\ l.sieve = r.sieve /\ AccAt(l.acc, n) /\ RtRead(l, n)
<1>1. PICK acc : acc = ApplyThinking(r.acc, s)
  OBVIOUS
<1>2. AccAt(acc, n)
  BY <1>1, AppliedLies
<1>3. PICK f : f = [r EXCEPT !.acc = acc]
  OBVIOUS
<1>4. DOMAIN f = RespFields /\ f.sieve = r.sieve /\ f.acc = acc /\ f.sent = r.sent /\ f.batch = r.batch
  BY <1>3 DEF RespFields
<1>5. PICK c, m : RtAt(r, c, m) /\ SieveAt(r.sieve, c, m, e)
  BY DEF RtRead
<1>6. c \in Nat /\ m \in Nat /\ c <= m /\ m <= e /\ e <= e /\ c <= n /\ m <= n /\ n <= n /\ m <= m
  BY <1>5 DEF SieveAt
<1>7. RtAt(f, c, m)
  BY <1>4, <1>5 DEF RtAt
<1>8. PICK l : l = RespBatch(f, "reasoning", Clean(s))
  OBVIOUS
<1>9. l = RespThinking(r, s)
  BY <1>1, <1>3, <1>8 DEF RespThinking
<1>10. CASE s = << >>
  <2>1. Within(Clean(s), m, m)
    BY <1>10, NothingWithin, CleanWithin
  <2>2. RespKeeps(l, f) /\ RtAt(l, c, m)
    BY <1>4, <1>6, <1>7, <1>8, <2>1, RespBatchLies
  <2>3. SieveAt(r.sieve, c, m, n)
    BY <1>5, SieveWider
  <2>4. DOMAIN l = RespFields /\ l.sieve = r.sieve /\ l.acc = acc
    BY <1>4, <2>2 DEF RespKeeps
  <2> QED BY <1>2, <1>9, <2>2, <2>3, <2>4 DEF RtRead
<1>11. CASE s # << >>
  <2>1. Within(Clean(s), m, n)
    <3>1. Within(Clean(s), e, n)
      BY CleanWithin
    <3> QED BY <1>6, <3>1, WiderWithin
  <2>2. RespKeeps(l, f) /\ RtAt(l, c, n)
    BY <1>4, <1>6, <1>7, <1>8, <2>1, RespBatchLies
  <2>3. DOMAIN l = RespFields /\ l.sieve = r.sieve /\ l.acc = acc
    BY <1>4, <2>2 DEF RespKeeps
  <2>4. RtRead(l, n)
    BY <1>6, <1>11, <2>2, <2>3, RestingRead
  <2> QED BY <1>2, <1>9, <2>3, <2>4
<1> QED BY <1>10, <1>11

(* A response that reads text. *)
RespReads(r, offered, e) ==
  /\ DOMAIN r = RespFields /\ AccOk(r.acc) /\ SieveOk(r.sieve, offered)
  /\ RtRead(r, e) /\ AccAt(r.acc, e) /\ (offered = {} => Resting(r.sieve))

(* The part that is text, through the sieve if the request has tools. *)
LEMMA RespTextLies ==
  ASSUME NEW r, NEW offered, NEW e \in Nat, RespReads(r, offered, e),
         NEW n \in Nat, e <= n, NEW s, Within(s, e, n)
  PROVE  LET l == RespText(r, s, offered)
         IN  /\ RespKeeps(l, l) /\ AccAt(l.acc, n) /\ RtRead(l, n)
             /\ offered = {} \/ s = << >> => l.sieve = r.sieve
<1>0. /\ DOMAIN r = RespFields /\ AccOk(r.acc) /\ SieveOk(r.sieve, offered)
      /\ RtRead(r, e) /\ AccAt(r.acc, e) /\ (offered = {} => Resting(r.sieve))
  BY DEF RespReads
<1>1. PICK acc : acc = ApplyText(r.acc, s)
  OBVIOUS
<1>2. AccAt(acc, n) /\ AccAt(r.acc, n)
  BY <1>0, <1>1, AppliedLies
<1>3. PICK f : f = [r EXCEPT !.acc = acc]
  OBVIOUS
<1>4. DOMAIN f = RespFields /\ f.sieve = r.sieve /\ f.acc = acc /\ f.sent = r.sent /\ f.batch = r.batch
  BY <1>0, <1>3 DEF RespFields
<1>5. PICK c, m : RtAt(r, c, m) /\ SieveAt(r.sieve, c, m, e)
  BY <1>0 DEF RtRead
<1>6. c \in Nat /\ m \in Nat /\ c <= m /\ m <= e /\ e <= e /\ c <= n /\ m <= n /\ n <= n /\ m <= m
  BY <1>5 DEF SieveAt
<1>7. RtAt(f, c, m)
  BY <1>4, <1>5 DEF RtAt
<1>8. CASE s = << >>
  <2>1. SieveAt(r.sieve, c, m, n)
    BY <1>5, SieveWider
  <2>2. RespText(r, s, offered) = r
    BY <1>8 DEF RespText
  <2> QED BY <1>0, <1>2, <1>5, <2>1, <2>2 DEF RtRead, RespKeeps
<1>9. CASE s # << >> /\ offered = {}
  <2>1. PICK l : l = RespBatch(f, "text", Clean(s))
    OBVIOUS
  <2>2. Within(Clean(s), m, n)
    <3>1. Within(Clean(s), e, n)
      BY CleanWithin
    <3> QED BY <1>6, <3>1, WiderWithin
  <2>3. RespKeeps(l, f) /\ RtAt(l, c, n)
    BY <1>4, <1>6, <1>7, <2>1, <2>2, RespBatchLies
  <2>4. DOMAIN l = RespFields /\ l.sieve = r.sieve /\ l.acc = acc
    BY <1>4, <2>3 DEF RespKeeps
  <2>5. RtRead(l, n)
    BY <1>0, <1>6, <1>9, <2>3, <2>4, RestingRead
  <2>6. RespText(r, s, offered) = l
    BY <1>1, <1>3, <1>9, <2>1 DEF RespText, RespTextApplied
  <2>7. RespKeeps(l, l)
    BY <2>4 DEF RespKeeps
  <2> QED BY <1>2, <2>4, <2>5, <2>6, <2>7
<1>10. CASE s # << >> /\ offered # {}
  <2>1. PICK g : g = RespFlushBatch(f)
    OBVIOUS
  <2>2. RespKeeps(g, f) /\ RtAt(g, c, m) /\ g.batch.text = << >>
    BY <1>4, <1>7, <2>1, RespFlushBatchLies
  <2>3. SentAt(g.sent, c, m)
    BY <1>6, <2>2, RtSent
  <2>4. PICK drained : drained = ProcessChunk(f.sieve, s, offered)
    OBVIOUS
  <2>5. DrainLies(drained, m, c, m, m, n)
    BY <1>0, <1>4, <1>5, <2>4, ProcessChunkLies
  <2>6. PICK k \in Nat : m <= k /\ k <= n /\ SieveAt(drained.st, m, k, n) /\ EventsAt(drained.out, m, k, c, m)
    BY <2>5 DEF DrainLies
  <2>7. PICK l : l = RespSieved(g, drained)
    OBVIOUS
  <2>8. /\ DOMAIN l = RespFields /\ l.sieve = drained.st /\ l.acc = g.acc /\ l.batch = g.batch
        /\ SentAt(l.sent, m, k)
    BY <1>6, <2>2, <2>3, <2>6, <2>7, RespSievedLies DEF RespKeeps
  <2>9. RtAt(l, m, k)
    BY <1>6, <2>2, <2>6, <2>8, RtSent
  <2>10. RtRead(l, n)
    BY <2>6, <2>8, <2>9 DEF RtRead
  <2>11. RespText(r, s, offered) = l
    BY <1>1, <1>3, <1>10, <2>1, <2>4, <2>7 DEF RespText, RespTextApplied
  <2> QED BY <1>2, <1>4, <1>10, <2>2, <2>8, <2>10, <2>11 DEF RespKeeps
<1> QED BY <1>8, <1>9, <1>10

(* A line of the reply. *)
LEMMA RespLineLies ==
  ASSUME NEW r, NEW offered, RespOk(r, offered), NEW e \in Nat, NEW h \in Nat, NEW n \in Nat, e <= h, h <= n,
         RtRead(r, e), AccAt(r.acc, e), NEW thinking, Within(thinking, e, h), NEW text, Within(text, h, n),
         thinking # << >> \/ offered = {} => Resting(r.sieve)
  PROVE  LET l == RespLine(r, thinking, text, offered)
         IN  /\ RtRead(l, n) /\ AccAt(l.acc, n) /\ l.batch.text = << >>
             /\ offered = {} \/ text = << >> => l.sieve = r.sieve
<1>1. DOMAIN r = RespFields /\ AccOk(r.acc) /\ SieveOk(r.sieve, offered)
  BY DEF RespOk, RespMid, Running
<1>2. PICK f : f = RespThinking(r, thinking)
  OBVIOUS
<1>3. DOMAIN f = RespFields /\ f.sieve = r.sieve /\ AccAt(f.acc, h) /\ RtRead(f, h)
  BY <1>1, <1>2, RespThinkingLies
<1>4. AccOk(f.acc) /\ SieveOk(f.sieve, offered)
  <2>1. PICK acc : acc = ApplyThinking(r.acc, thinking)
    OBVIOUS
  <2>2. AccOk(acc)
    BY <1>1, <2>1, AppliedOk DEF Within
  <2>3. PICK g : g = [r EXCEPT !.acc = acc]
    OBVIOUS
  <2>4. RespGoesOn(g, r, offered, 0)
    BY <1>1, <2>2, <2>3, ReadTouched DEF RespOk
  <2>5. RespGoesOn(RespBatch(g, "reasoning", Clean(thinking)), g, offered, 0)
    BY <2>4, RespBatchKeeps DEF RespGoesOn
  <2> QED BY <1>2, <2>1, <2>3, <2>5 DEF RespThinking, RespGoesOn, RespMid, Running
<1>5. PICK g : g = RespText(f, text, offered)
  OBVIOUS
<1>6. /\ RespKeeps(g, g) /\ AccAt(g.acc, n) /\ RtRead(g, n)
      /\ offered = {} \/ text = << >> => g.sieve = f.sieve
  <2>1. RespReads(f, offered, h)
    BY <1>3, <1>4 DEF RespReads
  <2> QED BY <1>5, <2>1, RespTextLies
<1>7. PICK c, m : RtAt(g, c, m) /\ SieveAt(g.sieve, c, m, n)
  BY <1>6 DEF RtRead
<1>8. PICK l : l = RespFlushBatch(g)
  OBVIOUS
<1>9. RespKeeps(l, g) /\ RtAt(l, c, m) /\ l.batch.text = << >>
  BY <1>6, <1>7, <1>8, RespFlushBatchLies DEF RespKeeps
<1>10. RtRead(l, n)
  BY <1>7, <1>9 DEF RtRead, RespKeeps
<1>11. RespLine(r, thinking, text, offered) = l
  BY <1>2, <1>5, <1>8 DEF RespLine
<1> QED BY <1>3, <1>6, <1>9, <1>10, <1>11 DEF RespKeeps

(* What is left of a response goes out. *)
LEMMA RespFlushLies ==
  ASSUME NEW r, NEW offered, RespOk(r, offered), NEW e \in Nat, RtRead(r, e), r.batch.text = << >>,
         offered = {} => Resting(r.sieve)
  PROVE  LET f == RespFlush(r, offered)
         IN  /\ DOMAIN f = RespFields /\ f.acc = r.acc /\ f.batch = r.batch
             /\ Resting(f.sieve) /\ SentAt(f.sent, e, e)
<1>1. DOMAIN r = RespFields /\ SieveOk(r.sieve, offered)
  BY DEF RespOk, RespMid, Running
<1>2. PICK c, m : RtAt(r, c, m) /\ SieveAt(r.sieve, c, m, e)
  BY DEF RtRead
<1>3. c \in Nat /\ m \in Nat /\ c <= m /\ m <= e /\ c <= e
  BY <1>2 DEF SieveAt
<1>4. SentAt(r.sent, c, m)
  BY <1>2, <1>3, RtSent
<1>5. CASE offered = {}
  <2>1. SentAt(r.sent, e, e)
    BY <1>3, <1>4, SentWider
  <2> QED BY <1>1, <1>5, <2>1 DEF RespFlush
<1>6. CASE offered # {}
  <2>1. PICK drained : drained = Flush(r.sieve, offered)
    OBVIOUS
  <2>2. EventsAt(drained.out, m, e, c, e) /\ Resting(drained.st)
    BY <1>1, <1>2, <2>1, FlushLies
  <2>3. PICK g : g = RespSieved(r, drained)
    OBVIOUS
  <2>4. /\ DOMAIN g = RespFields /\ g.sieve = drained.st /\ g.acc = r.acc /\ g.batch = r.batch
        /\ SentAt(g.sent, e, e)
    BY <1>1, <1>3, <1>4, <2>2, <2>3, RespSievedLies
  <2> QED BY <1>6, <2>1, <2>2, <2>3, <2>4 DEF RespFlush
<1> QED BY <1>5, <1>6

(* The attempt ends: it is put off, and all was sent, or tells its outcome. *)
LEMMA RespFinalizeLies ==
  ASSUME NEW r, NEW offered, RespOk(r, offered), NEW e \in Nat, RtRead(r, e), AccAt(r.acc, e), r.batch.text = << >>,
         offered = {} => Resting(r.sieve), NEW reason, NEW defer, NEW required
  PROVE  LET judged == RespFinalize(r, reason, defer, offered, required)
         IN  /\ judged.over => SentInTurn(judged.rt)
             /\ ~judged.over => SentAll(judged.rt, e) /\ judged.rt.batch.text = << >>
<1>1. PICK fresh : fresh = [r EXCEPT !.error = "none"]
  OBVIOUS
<1>2. /\ fresh.sieve = r.sieve /\ fresh.acc = r.acc /\ fresh.sent = r.sent /\ fresh.batch = r.batch
  BY <1>1 DEF RespOk, RespMid, RespFields
<1>3. RespOk(fresh, offered)
  BY <1>1, ErrorTouched DEF RespOk
<1>4. RtRead(fresh, e) /\ fresh.batch.text = << >> /\ (offered = {} => Resting(fresh.sieve))
  BY <1>2 DEF RtRead, RtAt
<1>5. PICK f : f = RespFlush(fresh, offered)
  OBVIOUS
<1>6. /\ DOMAIN f = RespFields /\ f.acc = r.acc /\ f.batch.text = << >>
      /\ Resting(f.sieve) /\ SentAt(f.sent, e, e)
  <2>1. /\ DOMAIN f = RespFields /\ f.acc = fresh.acc /\ f.batch = fresh.batch
        /\ Resting(f.sieve) /\ SentAt(f.sent, e, e)
    BY <1>3, <1>4, <1>5, RespFlushLies
  <2> QED BY <1>2, <1>4, <2>1
<1>7. Running(f, offered)
  <2>1. DrainedOk(Flush(fresh.sieve, offered), offered)
    BY <1>3, FlushKeeps DEF RespOk, RespMid, Running
  <2>2. RespGoesOn(RespSieved(fresh, Flush(fresh.sieve, offered)), fresh, offered, 0)
    BY <1>3, <2>1, RespSievedKeeps
  <2> QED BY <1>3, <1>5, <2>2 DEF RespFlush, RespGoesOn, RespOk, RespMid
<1>8. PICK turn : turn = StreamTurn(f.acc, reason = "content_filter", f.called, offered, required)
  OBVIOUS
<1>9. Within(turn.calls, 0, e)
  <2>1. AccAt(f.acc, e)
    BY <1>6
  <2> QED BY <1>8, <2>1, DetectedWithin
<1>10. PICK l : l = IF f.called THEN f ELSE EmitCalls(f, turn.calls)
  OBVIOUS
<1>11. RespTo(f, f, e, e) /\ 0 <= e /\ e <= e
  BY <1>6 DEF RespTo, RespStays
<1>12. RespTo(l, f, e, e)
  <2>1. CASE f.called
    BY <1>10, <1>11, <2>1
  <2>2. CASE ~f.called
    <3>1. RtAt(f, e, e)
      BY <1>6, RtSent
    <3>2. RtAt(f, 0, e)
      BY <1>7, <2>2, <3>1, NoneCalled
    <3>3. SentAt(f.sent, 0, e)
      BY <1>6, <3>2, RtSent
    <3>4. RespTo(f, f, 0, e)
      BY <1>11, <3>3 DEF RespTo
    <3>5. RespTo(EmitCalls(f, turn.calls), f, e, e)
      BY <1>9, <1>11, <3>4, EmitCallsLie
    <3> QED BY <1>10, <2>2, <3>5
  <2> QED BY <2>1, <2>2
<1>13. PICK m : m = CloseMessage(l)
  OBVIOUS
<1>14. RespTo(m, f, e, e)
  BY <1>12, <1>13, CloseMessageLies
<1>15. PICK o : o = Outcome(turn, l.called)
  OBVIOUS
<1>16. PICK judged : judged = RespConclude(m, turn, o, defer)
  OBVIOUS
<1>17. RespFinalize(r, reason, defer, offered, required) = judged
  BY <1>1, <1>5, <1>8, <1>10, <1>13, <1>15, <1>16 DEF RespFinalize, RespTurnJudged, RespJudge
<1>18. DOMAIN m = RespFields /\ SentInTurn(m)
  BY <1>14 DEF RespTo, RespStays, SentInTurn
<1>19. CASE o.fails /\ defer
  <2>1. PICK b : b = [m EXCEPT !.error = turn.error]
    OBVIOUS
  <2>2. b.sieve = m.sieve /\ b.acc = m.acc /\ b.sent = m.sent /\ b.batch = m.batch
    BY <1>18, <2>1 DEF RespFields
  <2>3. b.sieve = f.sieve /\ b.acc = f.acc /\ b.batch = f.batch /\ SentAt(b.sent, e, e)
    BY <1>14, <2>2 DEF RespTo, RespStays
  <2>4. RtAt(b, e, e) /\ Resting(b.sieve) /\ AccAt(b.acc, e)
    BY <1>6, <2>3, RtSent
  <2>5. RtRead(b, e)
    BY <1>11, <2>4, RestingRead
  <2>6. judged = [rt |-> b, over |-> FALSE]
    BY <1>16, <1>19, <2>1 DEF RespConclude
  <2>7. SentAll(b, e) /\ b.batch.text = << >>
    BY <1>6, <2>3, <2>4, <2>5 DEF SentAll
  <2> QED BY <1>17, <2>6, <2>7
<1>20. CASE o.fails /\ ~defer
  <2>1. PICK sent : sent = m.sent \o <<Failed(turn.error), DoneMark>>
    OBVIOUS
  <2>2. PICK object : object = [status |-> "failed", items |-> {}]
    OBVIOUS
  <2>3. PICK b : b = [m EXCEPT !.error = turn.error, !.object = object, !.sent = sent]
    OBVIOUS
  <2>4. b.sent = sent
    BY <1>18, <2>3 DEF RespFields
  <2>5. SentInTurn(b)
    BY <1>18, <2>1, <2>4, BareFrames, EndedInTurn
  <2>6. judged = [rt |-> b, over |-> TRUE]
    BY <1>16, <1>20, <2>1, <2>2, <2>3 DEF RespConclude, RespFail
  <2> QED BY <1>17, <2>5, <2>6
<1>21. CASE ~o.fails
  <2>1. PICK sent : sent = m.sent \o <<Completed(o.reason), DoneMark>>
    OBVIOUS
  <2>2. PICK object : object = [status |-> "completed", items |-> CompletedItems(m, turn)]
    OBVIOUS
  <2>3. PICK b : b = [m EXCEPT !.object = object, !.sent = sent]
    OBVIOUS
  <2>4. b.sent = sent
    BY <1>18, <2>3 DEF RespFields
  <2>5. SentInTurn(b)
    BY <1>18, <2>1, <2>4, BareFrames, EndedInTurn
  <2>6. judged = [rt |-> b, over |-> TRUE]
    BY <1>16, <1>21, <2>1, <2>2, <2>3 DEF RespConclude, RespFinish
  <2> QED BY <1>17, <2>5, <2>6
<1> QED BY <1>19, <1>20, <1>21

--------------------------------------------------------------------------------
(* The reply, and how a line takes of it *)

(* Some of the tokens are thinking. *)
Thinks(s) == \E i \in 1 .. Len(s) : s[i].part = "thinking"

(* The tokens behind place e of all that the upstream sends, numbered one   *)
(* by one.                                                                  *)
Numbered(s, e) == IsSeq(s) /\ \A i \in 1 .. Len(s) : Inside(s[i], e + i - 1, e + i)

(* Those of an attempt: its thinking comes before its text. *)
InParts(s, e) ==
  /\ Numbered(s, e)
  /\ \A i \in 1 .. Len(s) : s[i].part \in {"thinking", "text"}
  /\ \A i, j \in 1 .. Len(s) : i < j /\ s[i].part = "text" => s[j].part = "text"

(* The tokens of one part of a reply. *)
LEMMA TokensLie ==
  ASSUME NEW kinds \in Seq(STRING), NEW kind, NEW at \in Nat
  PROVE  LET s == Tokens(kinds, kind, at)
         IN  Numbered(s, at) /\ Len(s) \in Nat /\ \A i \in 1 .. Len(s) : s[i].part = kind
<1>1. PICK n \in Nat : n = Len(kinds)
  BY LenProperties
<1>2. PICK s : s = [i \in 1 .. n |-> [t |-> kinds[i], at |-> at + i, part |-> kind]]
  OBVIOUS
<1>3. s = [i \in 1 .. n |-> s[i]]
  BY <1>2
<1>4. IsSeq(s) /\ Len(s) = n
  BY <1>3, BuiltIsSeq
<1>5. ASSUME NEW i \in 1 .. n PROVE Inside(s[i], at + i - 1, at + i) /\ s[i].part = kind
  <2>1. PICK token : token = [t |-> kinds[i], at |-> at + i, part |-> kind]
    OBVIOUS
  <2>2. "at" \in DOMAIN token /\ token.at = at + i /\ token.part = kind
    BY <2>1
  <2>3. s[i] = token
    BY <1>2, <2>1
  <2> QED BY <2>2, <2>3 DEF Inside
<1> QED BY <1>1, <1>2, <1>4, <1>5 DEF Tokens, Numbered

(* The reply of an attempt follows those before it. *)
LEMMA OpensLies ==
  ASSUME NEW reply \in Replies, Opens(reply), seen \in Nat
  PROVE  InParts(left', seen)
<1>1. reply.thinking \in Seq(STRING) /\ reply.text \in Seq(STRING)
  BY RepliesAssumption
<1>2. PICK thinking : thinking = Tokens(reply.thinking, "thinking", seen)
  OBVIOUS
<1>3. /\ Numbered(thinking, seen) /\ Len(thinking) \in Nat
      /\ \A i \in 1 .. Len(thinking) : thinking[i].part = "thinking"
  BY <1>1, <1>2, TokensLie
<1>4. PICK k \in Nat : k = Len(thinking)
  BY <1>3
<1>5. seen + k \in Nat
  BY <1>4
<1>6. PICK text : text = Tokens(reply.text, "text", seen + k)
  OBVIOUS
<1>7. Numbered(text, seen + k) /\ Len(text) \in Nat /\ \A i \in 1 .. Len(text) : text[i].part = "text"
  BY <1>1, <1>5, <1>6, TokensLie
<1>8. PICK s : s = thinking \o text
  OBVIOUS
<1>9. IsSeq(thinking) /\ IsSeq(text)
  BY <1>3, <1>7 DEF Numbered
<1>10. /\ IsSeq(s) /\ Len(s) = k + Len(text)
       /\ \A i \in 1 .. k : s[i] = thinking[i]
       /\ \A i \in 1 .. Len(text) : s[k + i] = text[i]
  BY <1>4, <1>8, <1>9, ConcatIsSeq
<1>11. ASSUME NEW i \in 1 .. k PROVE Inside(s[i], seen + i - 1, seen + i) /\ s[i].part = "thinking"
  BY <1>3, <1>4, <1>10 DEF Numbered
<1>12. ASSUME NEW i \in k + 1 .. Len(s) PROVE Inside(s[i], seen + i - 1, seen + i) /\ s[i].part = "text"
  <2>1. i - k \in 1 .. Len(text) /\ k + (i - k) = i
    BY <1>4, <1>7, <1>10
  <2>2. s[i] = text[i - k]
    BY <1>10, <2>1
  <2>3. Inside(text[i - k], (seen + k) + (i - k) - 1, (seen + k) + (i - k)) /\ text[i - k].part = "text"
    BY <1>7, <2>1 DEF Numbered
  <2>4. (seen + k) + (i - k) = seen + i
    BY <1>4, <1>10
  <2> QED BY <2>2, <2>3, <2>4
<1>13. \A i \in 1 .. Len(s) : i \in 1 .. k \/ i \in k + 1 .. Len(s)
  BY <1>4, <1>7, <1>10
<1>14. \A i \in 1 .. Len(s) : Inside(s[i], seen + i - 1, seen + i) /\ s[i].part \in {"thinking", "text"}
  BY <1>11, <1>12, <1>13
<1>15. ASSUME NEW i \in 1 .. Len(s), NEW j \in 1 .. Len(s), i < j, s[i].part = "text" PROVE s[j].part = "text"
  <2>1. i \notin 1 .. k
    BY <1>11, <1>15
  <2>2. j \in k + 1 .. Len(s)
    BY <1>4, <1>15, <2>1
  <2> QED BY <1>12, <2>2
<1>16. left' = s
  BY <1>2, <1>4, <1>6, <1>8 DEF Opens
<1> QED BY <1>10, <1>14, <1>15, <1>16 DEF InParts, Numbered

(* Tokens picked out of a stretch of a text lie in that stretch. *)
LEMMA PickedWithin ==
  ASSUME NEW s, NEW e \in Nat, Numbered(s, e), NEW P, NEW p \in Nat, NEW q \in Nat,
         \A i \in P \cap (1 .. Len(s)) : p < i /\ i <= q
  PROVE  Within(Picked(s, P), e + p, e + q)
<1>1. IsSeq(s) /\ Len(s) \in Nat
  BY IsSeqFacts DEF Numbered
<1>2. PICK t : t = Picked(s, P)
  OBVIOUS
<1>3. IsSeq(t) /\ \A k \in 1 .. Len(t) : \E i \in P \cap (1 .. Len(s)) : t[k] = s[i]
  BY <1>1, <1>2, PickedFacts
<1>4. ASSUME NEW k \in 1 .. Len(t) PROVE Inside(t[k], e + p, e + q)
  <2>1. PICK i \in P \cap (1 .. Len(s)) : t[k] = s[i]
    BY <1>3
  <2>2. Inside(s[i], e + i - 1, e + i) /\ p < i /\ i <= q /\ i \in Nat
    BY <1>1, <2>1 DEF Numbered
  <2> QED BY <2>1, <2>2 DEF Inside
<1>5. ASSUME NEW k \in 1 .. Len(t), NEW l \in 1 .. Len(t), k < l PROVE t[k].at < t[l].at
  <2>1. PICK i, j \in 1 .. Len(s) : i < j /\ t[k] = s[i] /\ t[l] = s[j]
    BY <1>1, <1>2, <1>5, PickedOrder
  <2>2. Inside(s[i], e + i - 1, e + i) /\ Inside(s[j], e + j - 1, e + j) /\ i \in Nat /\ j \in Nat
    BY <1>1, <2>1 DEF Numbered
  <2> QED BY <2>1, <2>2 DEF Inside
<1> QED BY <1>2, <1>3, <1>4, <1>5 DEF Within

(* A line takes thinking, then text, and leaves what comes behind; while    *)
(* thinking is left it takes no text.                                       *)
LineParts(line, rest, s, e, n) ==
  /\ InParts(rest, e + n)
  /\ OfPart(line, "thinking") # << >> \/ Thinks(rest) => Thinks(s)
  /\ Thinks(rest) => OfPart(line, "text") = << >>
  /\ \E h \in Nat : /\ e <= h /\ h <= e + n
                    /\ Within(OfPart(line, "thinking"), e, h) /\ Within(OfPart(line, "text"), h, e + n)

(* The upstream sends thinking before text, so every line is like this. *)
LEMMA LineTakes ==
  ASSUME NEW s, NEW e \in Nat, InParts(s, e), NEW n \in 1 .. Len(s)
  PROVE  LineParts(SubSeq(s, 1, n), TextFrom(s, n + 1), s, e, n)
<1>1. IsSeq(s) /\ Len(s) \in Nat /\ n \in Nat /\ n <= Len(s)
  BY IsSeqFacts DEF InParts, Numbered
<1>2. PICK line : line = SubSeq(s, 1, n)
  OBVIOUS
<1>3. PICK rest : rest = SubSeq(s, n + 1, Len(s))
  OBVIOUS
<1>4. IsSeq(line) /\ Len(line) = n /\ \A i \in 1 .. n : line[i] = s[i]
  <2>1. 1 \in Int /\ n \in Int /\ 1 <= n /\ n - 1 + 1 = n
    BY <1>1
  <2>2. /\ IsSeq(line) /\ Len(line) = n - 1 + 1
        /\ \A i \in 1 .. n - 1 + 1 : line[i] = s[1 + i - 1]
    BY <1>2, <2>1, SubSeqIsSeq
  <2>3. \A i \in 1 .. n : 1 + i - 1 = i
    BY <1>1
  <2> QED BY <2>1, <2>2, <2>3
<1>5. /\ IsSeq(rest) /\ Len(rest) = Len(s) - n
      /\ \A i \in 1 .. Len(s) - n : rest[i] = s[n + i]
  <2>1. n + 1 \in Int /\ Len(s) \in Int /\ Len(s) - (n + 1) + 1 = Len(s) - n
    BY <1>1
  <2>2. /\ IsSeq(rest) /\ Len(rest) = IF n + 1 <= Len(s) THEN Len(s) - (n + 1) + 1 ELSE 0
        /\ \A i \in 1 .. Len(s) - (n + 1) + 1 : rest[i] = s[n + 1 + i - 1]
    BY <1>3, <2>1, SubSeqIsSeq
  <2>3. ASSUME NEW i \in 1 .. Len(s) - n PROVE rest[i] = s[n + i]
    <3>1. i \in 1 .. Len(s) - (n + 1) + 1
      BY <2>1
    <3>2. rest[i] = s[n + 1 + i - 1]
      BY <2>2, <3>1
    <3>3. n + 1 + i - 1 = n + i
      BY <1>1
    <3> QED BY <3>2, <3>3
  <2>4. Len(rest) = Len(s) - n
    BY <1>1, <2>2
  <2> QED BY <2>2, <2>3, <2>4
<1>6. Numbered(line, e)
  <2>1. \A i \in 1 .. n : i \in 1 .. Len(s)
    BY <1>1
  <2> QED BY <1>4, <2>1 DEF InParts, Numbered
<1>7. \A i \in 1 .. Len(rest) : n + i \in 1 .. Len(s) /\ rest[i] = s[n + i]
  BY <1>1, <1>5
<1>8. InParts(rest, e + n)
  <2>1. ASSUME NEW i \in 1 .. Len(rest) PROVE Inside(rest[i], (e + n) + i - 1, (e + n) + i)
    <3>1. Inside(s[n + i], e + (n + i) - 1, e + (n + i)) /\ rest[i] = s[n + i]
      BY <1>7 DEF InParts, Numbered
    <3>2. e + (n + i) = (e + n) + i
      BY <1>1
    <3> QED BY <3>1, <3>2
  <2>2. \A i \in 1 .. Len(rest) : rest[i].part \in {"thinking", "text"}
    BY <1>7 DEF InParts
  <2>3. ASSUME NEW i \in 1 .. Len(rest), NEW j \in 1 .. Len(rest), i < j, rest[i].part = "text"
        PROVE  rest[j].part = "text"
    <3>1. n + i < n + j
      BY <1>1, <2>3
    <3> QED BY <1>7, <2>3, <3>1 DEF InParts
  <2> QED BY <1>5, <2>1, <2>2, <2>3 DEF InParts, Numbered
<1>9. \A kind : /\ IsSeq(OfPart(line, kind))
                /\ OfPart(line, kind) # << >> => \E i \in 1 .. n : s[i].part = kind
  <2> TAKE kind
  <2>1. PICK t : t = OfPart(line, kind)
    OBVIOUS
  <2>2. PICK P : P = {i \in 1 .. Len(line) : line[i].part = kind}
    OBVIOUS
  <2>3. t = Picked(line, P)
    BY <2>1, <2>2 DEF OfPart
  <2>4. IsSeq(t) /\ \A k \in 1 .. Len(t) : \E i \in P \cap (1 .. Len(line)) : t[k] = line[i]
    BY <1>4, <2>3, PickedFacts
  <2>5. t # << >> => 1 \in 1 .. Len(t)
    BY <2>4, IsSeqFacts
  <2> QED BY <1>4, <2>1, <2>2, <2>4, <2>5
<1>10. Thinks(rest) => Thinks(s) /\ OfPart(line, "text") = << >>
  <2> SUFFICES ASSUME Thinks(rest) PROVE Thinks(s) /\ OfPart(line, "text") = << >>
    OBVIOUS
  <2>1. PICK i \in 1 .. Len(rest) : rest[i].part = "thinking"
    BY DEF Thinks
  <2>2. n + i \in 1 .. Len(s) /\ s[n + i].part = "thinking"
    BY <1>7, <2>1
  <2>3. \A j \in 1 .. n : j \in 1 .. Len(s) /\ j < n + i
    BY <1>1, <1>5, <2>1
  <2>4. \A j \in 1 .. n : s[j].part # "text"
    BY <2>2, <2>3 DEF InParts
  <2> QED BY <1>9, <2>2, <2>4 DEF Thinks
<1>11. OfPart(line, "thinking") # << >> => Thinks(s)
  <2>1. \A j \in 1 .. n : j \in 1 .. Len(s)
    BY <1>1
  <2> QED BY <1>9, <2>1 DEF Thinks
<1>12. PICK f \in Nat :
         /\ f <= n
         /\ \A i \in 1 .. n : s[i].part = "thinking" => 0 < i /\ i <= f
         /\ \A i \in 1 .. n : s[i].part = "text" => f < i /\ i <= n
  <2>1. PICK T : T = {i \in 1 .. n : s[i].part = "text"}
    OBVIOUS
  <2>2. CASE T = {}
    <3>1. \A i \in 1 .. n : s[i].part # "text" /\ 0 < i /\ i <= n
      BY <1>1, <2>1, <2>2
    <3>2. n \in Nat /\ n <= n
      BY <1>1
    <3> QED BY <3>1, <3>2
  <2>3. CASE T # {}
    <3>1. T \in SUBSET Nat
      BY <1>1, <2>1
    <3>2. PICK p \in T : \A i \in T : p <= i
      BY <2>3, <3>1, NatLeast
    <3>3. p \in 1 .. n /\ s[p].part = "text"
      BY <2>1, <3>2
    <3>4. p - 1 \in Nat /\ p - 1 <= n
      BY <1>1, <3>3
    <3>5. ASSUME NEW i \in 1 .. n, s[i].part = "thinking" PROVE 0 < i /\ i <= p - 1
      <4>1. "thinking" # "text"
        OBVIOUS
      <4>2. i # p
        BY <3>3, <3>5, <4>1
      <4>3. i \in 1 .. Len(s) /\ p \in 1 .. Len(s)
        BY <1>1, <3>3
      <4>4. ~(p < i)
        BY <3>3, <3>5, <4>1, <4>3 DEF InParts
      <4> QED BY <1>1, <3>3, <4>2, <4>4
    <3>6. ASSUME NEW i \in 1 .. n, s[i].part = "text" PROVE p - 1 < i /\ i <= n
      <4>1. i \in T
        BY <2>1, <3>6
      <4>2. p <= i
        BY <3>2, <4>1
      <4> QED BY <1>1, <3>3, <4>2
    <3> QED BY <3>4, <3>5, <3>6
  <2> QED BY <2>2, <2>3
<1>13. Within(OfPart(line, "thinking"), e, e + f)
  <2>1. PICK P : P = {i \in 1 .. Len(line) : line[i].part = "thinking"}
    OBVIOUS
  <2>2. \A i \in P \cap (1 .. Len(line)) : 0 < i /\ i <= f
    BY <1>4, <1>12, <2>1
  <2>3. Within(Picked(line, P), e + 0, e + f)
    BY <1>6, <1>12, <2>2, PickedWithin
  <2>4. e + 0 = e
    OBVIOUS
  <2> QED BY <2>1, <2>3, <2>4 DEF OfPart
<1>14. Within(OfPart(line, "text"), e + f, e + n)
  <2>1. PICK P : P = {i \in 1 .. Len(line) : line[i].part = "text"}
    OBVIOUS
  <2>2. \A i \in P \cap (1 .. Len(line)) : f < i /\ i <= n
    BY <1>4, <1>12, <2>1
  <2>3. Within(Picked(line, P), e + f, e + n)
    BY <1>1, <1>6, <1>12, <2>2, PickedWithin
  <2> QED BY <2>1, <2>3 DEF OfPart
<1>15. e + f \in Nat /\ e <= e + f /\ e + f <= e + n
  BY <1>1, <1>12
<1>16. LineParts(line, rest, s, e, n)
  BY <1>8, <1>10, <1>11, <1>13, <1>14, <1>15 DEF LineParts
<1> QED BY <1>2, <1>3, <1>16 DEF TextFrom

--------------------------------------------------------------------------------
(* The order of a request *)

(* A stream that waits has sent a part of the reply up to seen, and its     *)
(* sieve holds the rest of it; it holds nothing where thinking may follow,  *)
(* which is sent past it.                                                   *)
ReadsInTurn ==
  /\ RtRead(rt, seen) /\ AccAt(rt.acc, seen)
  /\ req.api = "responses" => rt.batch.text = << >>
  /\ req.offered = {} \/ phase \in {"start", "retry"} \/ Thinks(left) => Resting(rt.sieve)

OrderInv ==
  /\ seen \in Nat /\ InParts(left, seen)
  /\ Streams /\ Waiting => ReadsInTurn
  /\ Streams /\ ~Waiting => SentInTurn(rt)

(* What a stream that waits has sent is in the order of the reply. *)
LEMMA WaitsInTurn == ReadsInTurn => SentInTurn(rt)
<1> SUFFICES ASSUME ReadsInTurn PROVE SentInTurn(rt)
  OBVIOUS
<1>1. PICK c, m : RtAt(rt, c, m)
  BY DEF ReadsInTurn, RtRead
<1> QED BY <1>1, ReadInTurn

(* A runtime that has sent nothing. *)
LEMMA NewReads ==
  ASSUME NEW r, r.sent = << >>, r.batch.text = << >>, r.sieve = NewSieve, r.acc = NewAcc
  PROVE  RtRead(r, 0) /\ AccAt(r.acc, 0) /\ Resting(r.sieve)
<1>1. 0 \in Nat /\ 0 <= 0
  OBVIOUS
<1>2. SentAt(r.sent, 0, 0)
  BY NothingSent
<1>3. RtAt(r, 0, 0)
  BY <1>1, <1>2, RtSent
<1>4. Resting(NewSieve)
  BY DEF Resting, NewSieve
<1>5. RtRead(r, 0)
  BY <1>1, <1>3, <1>4, RestingRead
<1>6. AccAt(NewAcc, 0)
  BY NothingWithin DEF AccAt, NewAcc
<1> QED BY <1>4, <1>5, <1>6

(* A request that has just arrived. *)
LEMMA OrderInitially == Init => OrderInv
<1> SUFFICES ASSUME Init PROVE OrderInv
  OBVIOUS
<1>1. seen = 0 /\ left = << >> /\ phase = "start"
  BY DEF Init
<1>2. InParts(left, seen)
  <2>1. IsSeq(left) /\ Len(left) = 0
    BY <1>1, ShortIsSeq
  <2>2. \A i \in 1 .. Len(left) : FALSE
    BY <2>1
  <2> QED BY <2>1, <2>2 DEF InParts, Numbered
<1>3. ASSUME req.api = "chat" PROVE ReadsInTurn
  <2>1. rt = NewChat
    BY <1>3 DEF Init
  <2>2. PICK c : c = NewChat
    OBVIOUS
  <2>3. c.sent = << >> /\ c.batch = NoBatch /\ c.sieve = NewSieve /\ c.acc = NewAcc
    BY <2>2 DEF NewChat
  <2>4. NoBatch.text = << >>
    BY DEF NoBatch
  <2>5. RtRead(c, 0) /\ AccAt(c.acc, 0) /\ Resting(c.sieve)
    BY <2>3, <2>4, NewReads
  <2> QED BY <1>1, <1>3, <2>1, <2>2, <2>5 DEF ReadsInTurn
<1>4. ASSUME req.api = "responses" PROVE ReadsInTurn
  <2>1. rt = NewResponse
    BY <1>4 DEF Init
  <2>2. PICK b : b = [kind |-> "text", text |-> << >>]
    OBVIOUS
  <2>3. PICK c : c = NewResponse
    OBVIOUS
  <2>4. c.sent = << >> /\ c.batch = b /\ c.sieve = NewSieve /\ c.acc = NewAcc
    BY <2>2, <2>3 DEF NewResponse
  <2>5. b.text = << >>
    BY <2>2
  <2>6. RtRead(c, 0) /\ AccAt(c.acc, 0) /\ Resting(c.sieve)
    BY <2>4, <2>5, NewReads
  <2> QED BY <1>1, <2>1, <2>3, <2>4, <2>5, <2>6 DEF ReadsInTurn
<1> QED BY <1>1, <1>2, <1>3, <1>4 DEF OrderInv, Streams, Waiting

(* A request that ends before its reply has sent what it had. *)
LEMMA OverInTurn ==
  ASSUME OrderInv, Waiting, UNCHANGED <<req, left, seen, rt>>, phase' = "over"
  PROVE  OrderInv'
<1>1. Streams => SentInTurn(rt)
  BY WaitsInTurn DEF OrderInv
<1>2. (SentInTurn(rt))' <=> SentInTurn(rt)
  BY DEF SentInTurn
<1>3. InParts(left, seen)' <=> InParts(left, seen)
  OBVIOUS
<1>4. (Streams <=> Streams') /\ ~Waiting'
  BY DEF Streams, Waiting
<1> QED BY <1>1, <1>2, <1>3, <1>4 DEF OrderInv

(* A request that is refused before it has begun. *)
LEMMA RefusedInTurn == OrderInv /\ (BadRequest \/ StartFails \/ StartRefused) => OrderInv'
BY OverInTurn DEF BadRequest, StartFails, StartRefused, Waiting

(* What happens beside the request. *)
LEMMA BesideInTurn == OrderInv /\ (Close \/ ClearHistory \/ DisableHistory \/ Expire \/ UNCHANGED vars) => OrderInv'
<1> SUFFICES ASSUME OrderInv, Close \/ ClearHistory \/ DisableHistory \/ Expire \/ UNCHANGED vars
             PROVE  OrderInv'
  OBVIOUS
<1>1. UNCHANGED <<req, left, seen, rt>> /\ (phase' = phase \/ (phase = "over" /\ phase' = "closed"))
  BY DEF Close, ClearHistory, DisableHistory, Expire, vars
<1>2. (Streams' <=> Streams) /\ (Waiting' <=> Waiting)
  BY <1>1 DEF Streams, Waiting
<1>3. ReadsInTurn => ReadsInTurn'
  BY <1>1 DEF ReadsInTurn
<1>4. (SentInTurn(rt) => SentInTurn(rt)') /\ (InParts(left, seen) => InParts(left, seen)')
  BY <1>1
<1> QED BY <1>1, <1>2, <1>3, <1>4 DEF OrderInv

(* A reply begins, a response with its announcement. *)
LEMMA StartOpensInTurn == IInv /\ OrderInv /\ StartOpens => OrderInv'
<1> SUFFICES ASSUME IInv, OrderInv, StartOpens PROVE OrderInv'
  OBVIOUS
<1>1. PICK reply \in Replies : Opens(reply)
  BY DEF StartOpens
<1>2. InParts(left', seen) /\ phase' = "reading"
  BY <1>1, OpensLies DEF OrderInv, Opens
<1>3. /\ rt' = (IF req.api = "responses" THEN RespSend(rt, Created) ELSE rt)
      /\ req' = req /\ seen' = seen /\ phase = "start"
  BY DEF StartOpens
<1>4. ASSUME Streams PROVE ReadsInTurn'
  <2>1. RtRuns /\ RtRead(rt, seen) /\ AccAt(rt.acc, seen) /\ Resting(rt.sieve) /\ seen \in Nat
        /\ (req.api = "responses" => rt.batch.text = << >>)
    BY <1>3, <1>4 DEF IInv, WaitingOk, Waiting, OrderInv, ReadsInTurn
  <2>2. CASE req.api = "responses"
    <3>1. DOMAIN rt = RespFields
      BY <2>1, <2>2 DEF RtRuns, RespOk, RespMid
    <3>2. PICK c, m : RtAt(rt, c, m) /\ SieveAt(rt.sieve, c, m, seen)
      BY <2>1 DEF RtRead
    <3>3. c \in Nat /\ m \in Nat
      BY <3>2 DEF RtAt
    <3>4. SentAt(rt.sent, c, m)
      BY <2>1, <2>2, <3>2, <3>3, RtSent
    <3>5. PICK r : r = RespSend(rt, Created)
      OBVIOUS
    <3>6. RespTo(rt, rt, c, m)
      BY <3>1, <3>4 DEF RespTo, RespStays
    <3>7. RespTo(r, rt, c, m)
      BY <3>3, <3>5, <3>6, BareFrames, RespBareSent
    <3>8. r.sieve = rt.sieve /\ r.acc = rt.acc /\ r.batch = rt.batch /\ SentAt(r.sent, c, m)
      BY <3>7 DEF RespTo, RespStays
    <3>9. r.batch.text = << >>
      BY <2>1, <2>2, <3>8
    <3>10. RtAt(r, c, m)
      BY <3>3, <3>8, <3>9, RtSent
    <3>11. RtRead(r, seen)
      BY <3>2, <3>8, <3>10 DEF RtRead
    <3>12. rt' = r
      BY <1>3, <2>2, <3>5
    <3> QED BY <1>3, <2>1, <3>8, <3>9, <3>11, <3>12 DEF ReadsInTurn
  <2>3. CASE req.api # "responses"
    BY <1>3, <2>1, <2>3 DEF ReadsInTurn
  <2> QED BY <2>2, <2>3
<1>5. (Streams' <=> Streams) /\ Waiting'
  BY <1>2, <1>3 DEF Streams, Waiting
<1> QED BY <1>2, <1>3, <1>4, <1>5 DEF OrderInv

(* Another attempt begins: the sieve rests. *)
LEMMA RetryOpensInTurn == OrderInv /\ RetryOpens => OrderInv'
<1> SUFFICES ASSUME OrderInv, RetryOpens PROVE OrderInv'
  OBVIOUS
<1>1. PICK reply \in Replies : Opens(reply)
  BY DEF RetryOpens
<1>2. InParts(left', seen) /\ phase' = "reading"
  BY <1>1, OpensLies DEF OrderInv, Opens
<1>3. UNCHANGED <<req, seen, rt>> /\ phase = "retry"
  BY DEF RetryOpens
<1>4. Streams => ReadsInTurn'
  BY <1>3 DEF OrderInv, ReadsInTurn, Waiting
<1>5. (Streams' <=> Streams) /\ Waiting'
  BY <1>2, <1>3 DEF Streams, Waiting
<1> QED BY <1>2, <1>3, <1>4, <1>5 DEF OrderInv

(* What a line brings a stream. *)
LEMMA LineReads ==
  ASSUME RtRuns, Streams, seen \in Nat, RtRead(rt, seen), AccAt(rt.acc, seen),
         NEW h \in Nat, NEW n \in Nat, seen <= h, h <= n, NEW thinking, Within(thinking, seen, h),
         NEW text, Within(text, h, n), thinking # << >> \/ req.offered = {} => Resting(rt.sieve)
  PROVE  LET l == OnLine(thinking, text)
         IN  /\ RtRead(l, n) /\ AccAt(l.acc, n) /\ l.batch.text = << >>
             /\ req.offered = {} \/ text = << >> => l.sieve = rt.sieve
<1>1. CASE req.api = "chat"
  <2>1. PICK l : l = ChatLine(rt, thinking, text, req.offered)
    OBVIOUS
  <2>2. ChatOk(rt, req.offered)
    BY <1>1 DEF RtRuns
  <2>3. /\ RtRead(l, n) /\ AccAt(l.acc, n) /\ l.batch.text = << >>
        /\ req.offered = {} \/ text = << >> => l.sieve = rt.sieve
    BY <2>1, <2>2, ChatLineLies
  <2>4. OnLine(thinking, text) = l
    BY <1>1, <2>1 DEF OnLine
  <2> QED BY <2>3, <2>4
<1>2. CASE req.api = "responses"
  <2>1. PICK l : l = RespLine(rt, thinking, text, req.offered)
    OBVIOUS
  <2>2. RespOk(rt, req.offered)
    BY <1>2 DEF RtRuns
  <2>3. /\ RtRead(l, n) /\ AccAt(l.acc, n) /\ l.batch.text = << >>
        /\ req.offered = {} \/ text = << >> => l.sieve = rt.sieve
    BY <2>1, <2>2, RespLineLies
  <2>4. OnLine(thinking, text) = l
    BY <1>2, <2>1 DEF OnLine
  <2> QED BY <2>3, <2>4
<1> QED BY <1>1, <1>2 DEF Streams

(* A line of the reply: none of it is thinking while the sieve holds text,  *)
(* and the sieve takes none while thinking is left.                         *)
LEMMA LineInTurn == IInv /\ OrderInv /\ Line => OrderInv'
<1> SUFFICES ASSUME IInv, OrderInv, Line PROVE OrderInv'
  OBVIOUS
<1>1. PICK n \in 1 .. MaxLine \cup {Len(left)} :
        /\ phase = "reading" /\ n > 0 /\ n <= Len(left)
        /\ rt' = OnLine(OfPart(SubSeq(left, 1, n), "thinking"), OfPart(SubSeq(left, 1, n), "text"))
        /\ left' = TextFrom(left, n + 1) /\ seen' = seen + n
        /\ UNCHANGED <<req, phase>>
  BY DEF Line
<1>2. seen \in Nat /\ InParts(left, seen) /\ IsSeq(left) /\ Len(left) \in Nat
  BY IsSeqFacts DEF OrderInv, IInv
<1>3. n \in 1 .. Len(left) /\ n \in Nat /\ seen + n \in Nat
  BY <1>1, <1>2
<1>4. PICK line : line = SubSeq(left, 1, n)
  OBVIOUS
<1>5. PICK thinking, text : thinking = OfPart(line, "thinking") /\ text = OfPart(line, "text")
  OBVIOUS
<1>6. LineParts(line, left', left, seen, n)
  BY <1>1, <1>2, <1>3, <1>4, LineTakes
<1>7. /\ InParts(left', seen + n)
      /\ thinking # << >> \/ Thinks(left') => Thinks(left)
      /\ Thinks(left') => text = << >>
  BY <1>5, <1>6 DEF LineParts
<1>8. PICK h \in Nat : seen <= h /\ h <= seen + n /\ Within(thinking, seen, h) /\ Within(text, h, seen + n)
  BY <1>5, <1>6 DEF LineParts
<1>9. ASSUME Streams PROVE ReadsInTurn'
  <2>1. RtRuns /\ ReadsInTurn
    BY <1>1, <1>9 DEF IInv, WaitingOk, Waiting, OrderInv
  <2>2. /\ RtRead(rt, seen) /\ AccAt(rt.acc, seen)
        /\ thinking # << >> \/ req.offered = {} => Resting(rt.sieve)
    BY <1>7, <2>1 DEF ReadsInTurn
  <2>3. PICK l : l = OnLine(thinking, text)
    OBVIOUS
  <2>4. /\ RtRead(l, seen + n) /\ AccAt(l.acc, seen + n) /\ l.batch.text = << >>
        /\ req.offered = {} \/ text = << >> => l.sieve = rt.sieve
    BY <1>2, <1>3, <1>8, <1>9, <2>1, <2>2, <2>3, LineReads
  <2>5. req.offered = {} \/ Thinks(left') => Resting(l.sieve)
    BY <1>7, <2>1, <2>4 DEF ReadsInTurn
  <2>6. rt' = l /\ seen' = seen + n /\ req' = req /\ phase' = "reading"
    BY <1>1, <1>4, <1>5, <2>3
  <2> QED BY <2>4, <2>5, <2>6 DEF ReadsInTurn
<1>10. (Streams' <=> Streams) /\ Waiting'
  BY <1>1 DEF Streams, Waiting
<1> QED BY <1>1, <1>3, <1>7, <1>9, <1>10 DEF OrderInv

(* An attempt is judged: all was sent, or the request has its outcome. *)
LEMMA JudgedInTurn ==
  ASSUME RtRuns, Streams, ReadsInTurn, req.offered = {} => Resting(rt.sieve)
  PROVE  /\ Judged.over => SentInTurn(Judged.rt)
         /\ ~Judged.over => /\ SentAll(Judged.rt, seen)
                            /\ req.api = "responses" => Judged.rt.batch.text = << >>
<1> DEFINE defer(reason) == attempt < MaxAttempts /\ reason # "content_filter"
<1>1. RtRead(rt, seen) /\ AccAt(rt.acc, seen)
  BY DEF ReadsInTurn
<1>2. seen \in Nat
  BY <1>1 DEF RtRead, SieveAt
<1>3. CASE req.api = "chat"
  <2>1. PICK reason, put : reason = ChatReason(rt, ends) /\ put = defer(reason)
    OBVIOUS
  <2>2. PICK judged : judged = ChatFinalize(rt, reason, put, req.offered, req.required)
    OBVIOUS
  <2>3. Judged = judged
    BY <1>3, <2>1, <2>2 DEF Judged
  <2>4. ChatOk(rt, req.offered)
    BY <1>3 DEF RtRuns
  <2>5. (judged.over => SentInTurn(judged.rt)) /\ (~judged.over => SentAll(judged.rt, seen))
    BY <1>1, <1>2, <2>2, <2>4, ChatFinalizeLies
  <2> QED BY <1>3, <2>3, <2>5
<1>4. CASE req.api = "responses"
  <2>1. PICK reason, put : reason = RespReason(ends) /\ put = defer(reason)
    OBVIOUS
  <2>2. PICK judged : judged = RespFinalize(rt, reason, put, req.offered, req.required)
    OBVIOUS
  <2>3. Judged = judged
    BY <1>4, <2>1, <2>2 DEF Judged
  <2>4. RespOk(rt, req.offered) /\ rt.batch.text = << >>
    BY <1>4 DEF RtRuns, ReadsInTurn
  <2>5. /\ judged.over => SentInTurn(judged.rt)
        /\ ~judged.over => SentAll(judged.rt, seen) /\ judged.rt.batch.text = << >>
    BY <1>1, <1>2, <2>2, <2>4, RespFinalizeLies
  <2> QED BY <2>3, <2>5
<1> QED BY <1>3, <1>4 DEF Streams

(* A streamed attempt ends. *)
LEMMA EndStreamedInTurn == IInv /\ OrderInv /\ EndStreamed => OrderInv'
<1> SUFFICES ASSUME IInv, OrderInv, EndStreamed PROVE OrderInv'
  OBVIOUS
<1>1. PICK judged : judged = Judged
  OBVIOUS
<1>2. /\ phase = "reading" /\ Streams /\ UNCHANGED <<req, left, seen>> /\ rt' = judged.rt
      /\ phase' = IF judged.over THEN "over" ELSE "retry"
  BY <1>1 DEF EndStreamed
<1>3. RtRuns /\ ReadsInTurn
  BY <1>2 DEF IInv, WaitingOk, Waiting, OrderInv
<1>4. req.offered = {} => Resting(rt.sieve)
  BY <1>3 DEF ReadsInTurn
<1>5. /\ judged.over => SentInTurn(judged.rt)
      /\ ~judged.over => /\ SentAll(judged.rt, seen)
                         /\ req.api = "responses" => judged.rt.batch.text = << >>
  BY <1>1, <1>2, <1>3, <1>4, JudgedInTurn
<1>6. Streams' /\ (Waiting' <=> ~judged.over)
  BY <1>2 DEF Streams, Waiting
<1>7. ~judged.over => ReadsInTurn'
  BY <1>2, <1>5 DEF ReadsInTurn, SentAll
<1>8. judged.over => SentInTurn(rt)'
  BY <1>2, <1>5 DEF SentInTurn
<1> QED BY <1>2, <1>6, <1>7, <1>8 DEF OrderInv

(* A whole reply is judged. *)
LEMMA EndCollectedInTurn == OrderInv /\ EndCollected => OrderInv'
<1> SUFFICES ASSUME OrderInv, EndCollected PROVE OrderInv'
  OBVIOUS
<1>1. ~Streams /\ UNCHANGED <<req, left, seen>>
  BY DEF EndCollected
<1>2. ~Streams'
  BY <1>1 DEF Streams
<1> QED BY <1>1, <1>2 DEF OrderInv

(* The client leaves. *)
LEMMA CancelledInTurn == IInv /\ OrderInv /\ Cancelled => OrderInv'
<1> SUFFICES ASSUME IInv, OrderInv, Cancelled PROVE OrderInv'
  OBVIOUS
<1>1. /\ phase = "reading" /\ Streams /\ phase' = "over" /\ UNCHANGED <<req, left, seen>>
      /\ rt' = [rt EXCEPT !.error = "context_cancelled"]
  BY DEF Cancelled
<1>2. RtRuns /\ SentInTurn(rt)
  BY <1>1, WaitsInTurn DEF IInv, WaitingOk, Waiting, OrderInv
<1>3. "sent" \in DOMAIN rt
  BY <1>1, <1>2 DEF RtRuns, Streams, ChatOk, RespOk, RespMid, ChatFields, RespFields
<1>4. rt'.sent = rt.sent
  BY <1>1, <1>3
<1>5. SentInTurn(rt)'
  BY <1>2, <1>4 DEF SentInTurn
<1>6. ~Waiting'
  BY <1>1 DEF Waiting
<1> QED BY <1>1, <1>5, <1>6 DEF OrderInv

(* Another attempt cannot begin: the request fails. *)
LEMMA RetryFailsInTurn == IInv /\ OrderInv /\ RetryFails => OrderInv'
<1> SUFFICES ASSUME IInv, OrderInv, RetryFails PROVE OrderInv'
  OBVIOUS
<1>1. phase = "retry" /\ phase' = "over" /\ UNCHANGED <<req, left, seen>>
  BY DEF RetryFails
<1>2. (Streams' <=> Streams) /\ ~Waiting'
  BY <1>1 DEF Streams, Waiting
<1>3. ASSUME Streams PROVE SentInTurn(rt)'
  <2>1. RtRuns /\ SentInTurn(rt)
    BY <1>1, <1>3, WaitsInTurn DEF IInv, WaitingOk, Waiting, OrderInv
  <2>2. CASE req.api = "chat"
    <3>1. PICK sent : sent = rt.sent \o <<FailedChunk("error"), DoneChunk>>
      OBVIOUS
    <3>2. PICK m : m = [rt EXCEPT !.error = "error", !.sent = sent]
      OBVIOUS
    <3>3. rt' = m
      BY <1>3, <2>2, <3>1, <3>2 DEF RetryFails, ChatFail
    <3>4. DOMAIN rt = ChatFields
      BY <2>1, <2>2 DEF RtRuns, ChatOk
    <3>5. m.sent = sent
      BY <3>2, <3>4 DEF ChatFields
    <3>6. SentInTurn(m)
      BY <2>1, <3>1, <3>5, BareFrames, EndedInTurn
    <3> QED BY <3>3, <3>6 DEF SentInTurn
  <2>3. CASE req.api = "responses"
    <3>1. PICK sent : sent = rt.sent \o <<Failed("error"), DoneMark>>
      OBVIOUS
    <3>2. PICK object : object = [status |-> "failed", items |-> {}]
      OBVIOUS
    <3>3. PICK m : m = [rt EXCEPT !.error = "error", !.object = object, !.sent = sent]
      OBVIOUS
    <3>4. rt' = m
      BY <1>3, <2>3, <3>1, <3>2, <3>3 DEF RetryFails, RespFail
    <3>5. DOMAIN rt = RespFields
      BY <2>1, <2>3 DEF RtRuns, RespOk, RespMid
    <3>6. m.sent = sent
      BY <3>3, <3>5 DEF RespFields
    <3>7. SentInTurn(m)
      BY <2>1, <3>1, <3>6, BareFrames, EndedInTurn
    <3> QED BY <3>4, <3>7 DEF SentInTurn
  <2> QED BY <1>3, <2>2, <2>3 DEF Streams
<1> QED BY <1>1, <1>2, <1>3 DEF OrderInv

(* The text and the calls a client has been sent are in the order of the    *)
(* reply, whatever the sieve and the delta batch have held back, in every   *)
(* attempt (tool_sieve_core.go, *_delta_batch).                             *)
THEOREM SentInOrder == Spec => []InOrder
<1>1. Init => OrderInv
  BY OrderInitially
<1>2. IInv /\ OrderInv /\ [Next]_vars => OrderInv'
  BY RefusedInTurn, StartOpensInTurn, LineInTurn, EndStreamedInTurn, EndCollectedInTurn, CancelledInTurn,
     RetryOpensInTurn, RetryFailsInTurn, BesideInTurn DEF Next
<1>3. OrderInv => InOrder
  <2> SUFFICES ASSUME OrderInv PROVE InOrder
    OBVIOUS
  <2>1. \E c, m : SentAt(Sent, c, m)
    <3>1. CASE Streams
      <4>1. SentInTurn(rt)
        BY <3>1, WaitsInTurn DEF OrderInv
      <4> QED BY <3>1, <4>1 DEF SentInTurn, Sent
    <3>2. CASE ~Streams
      BY <3>2, NothingSent DEF Sent
    <3> QED BY <3>1, <3>2
  <2>2. PICK c, m : SentAt(Sent, c, m)
    BY <2>1
  <2>3. /\ Ascending(FlattenSeq([i \in 1 .. Len(Sent) |-> TextIn(Sent[i])]))
        /\ Ascending(FlattenSeq([i \in 1 .. Len(Sent) |-> CallsIn(Sent[i])]))
    BY <2>2, SentAscends
  <2> QED BY <2>3 DEF InOrder, TextShown, CallsShown, TextIn, CallsIn
<1> QED BY <1>1, <1>2, <1>3, Invariant, PTL DEF Spec

================================================================================
