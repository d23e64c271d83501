---------------------------- MODULE SequenceLemmas -----------------------------
(***************************************************************************)
(* Facts about sequences without repeated entries - rotation queues and    *)
(* waiting lists - and the operations the code performs on them, and about *)
(* sequences of anything: texts, calls, frames.                            *)
(***************************************************************************)
EXTENDS Integers, Selections, SequencesExt, SequenceTheorems, FiniteSetTheorems, TLAPS

--------------------------------------------------------------------------------
(* Induction.  The induction theorems of the library take an operator; that *)
(* finite sets are well-founded under inclusion does not, and initial      *)
(* segments of the naturals are finite sets.                               *)

(* A set of naturals has a least element. *)
LEMMA NatLeast ==
  ASSUME NEW T \in SUBSET Nat, T # {}
  PROVE  \E n \in T : \A m \in T : n <= m
<1> DEFINE U == {1 .. n : n \in T}
<1>1. U \subseteq FiniteSubsetsOf(Nat) /\ U # {}
  <2>1. \A n \in T : 1 .. n \in SUBSET Nat /\ IsFiniteSet(1 .. n)
    BY FS_Interval
  <2> QED BY <2>1 DEF FiniteSubsetsOf
<1>2. IsWellFoundedOn(StrictSubsetOrdering(Nat), FiniteSubsetsOf(Nat))
  BY FS_StrictSubsetOrderingWellFounded
<1>3. PICK X \in U : \A Y \in U : <<Y, X>> \notin StrictSubsetOrdering(Nat)
  <2> HIDE DEF U
  <2> QED BY <1>1, <1>2, WFMin
<1>4. PICK n \in T : X = 1 .. n
  BY <1>3
<1>5. ASSUME NEW m \in T, m < n PROVE FALSE
  <2>1. 1 .. m \in SUBSET Nat /\ 1 .. n \in SUBSET Nat /\ 1 .. m \subseteq 1 .. n
    BY <1>5
  <2>2. n \in 1 .. n /\ n \notin 1 .. m
    BY <1>5
  <2>3. <<1 .. m, 1 .. n>> \in StrictSubsetOrdering(Nat)
    BY <2>1, <2>2 DEF StrictSubsetOrdering
  <2>4. 1 .. m \in U
    OBVIOUS
  <2> QED BY <2>3, <2>4, <1>3, <1>4
<1> QED BY <1>5

(* A set that holds zero and the successor of each of its members holds    *)
(* every natural number.                                                   *)
LEMMA SetInduction ==
  ASSUME NEW S, 0 \in S, \A n \in Nat : n \in S => n + 1 \in S
  PROVE  Nat \subseteq S
<1> SUFFICES ASSUME NEW k \in Nat, k \notin S PROVE FALSE
  OBVIOUS
<1> DEFINE T == Nat \ S
<1>1. PICK n \in T : \A m \in T : n <= m
  BY NatLeast
<1>2. n # 0 /\ n \in Nat
  BY <1>1
<1>3. n - 1 \in Nat /\ n - 1 \in S
  BY <1>1, <1>2
<1>4. (n - 1) + 1 \in S
  BY <1>3
<1> QED BY <1>4, <1>1, <1>2

(* g lists the values that F computes from b, one after the other. *)
Iterates(g, T, b, n, F) ==
  g \in [0 .. n -> T] /\ g[0] = b /\ \A i \in 1 .. n : g[i] = F[<<g[i - 1], i>>]

(* A computation of n steps can be written down as one function, which is *)
(* what a recursive definition over a sequence asks for.                   *)
LEMMA FiniteRecursion ==
  ASSUME NEW T, NEW b \in T, NEW n \in Nat, NEW F \in [T \X (1 .. n) -> T]
  PROVE  \E g : Iterates(g, T, b, n, F)
<1> DEFINE Upto(k, g) == /\ g \in [0 .. k -> T]
                         /\ g[0] = b /\ \A i \in 1 .. k : g[i] = F[<<g[i - 1], i>>]
           Done == {k \in Nat : k <= n => \E g : Upto(k, g)}
<1>1. 0 \in Done
  <2>1. Upto(0, [i \in 0 .. 0 |-> b])
    OBVIOUS
  <2> QED BY <2>1
<1>2. ASSUME NEW k \in Nat, k \in Done PROVE k + 1 \in Done
  <2> SUFFICES ASSUME k + 1 <= n PROVE \E g : Upto(k + 1, g)
    OBVIOUS
  <2>1. PICK g : Upto(k, g)
    BY <1>2
  <2> DEFINE h == [i \in 0 .. (k + 1) |-> IF i <= k THEN g[i] ELSE F[<<g[k], k + 1>>]]
  <2>2. g[k] \in T /\ k + 1 \in 1 .. n
    BY <2>1
  <2>3. F[<<g[k], k + 1>>] \in T
    BY <2>2
  <2>4. h \in [0 .. (k + 1) -> T]
    BY <2>1, <2>3
  <2>5. h[0] = b
    BY <2>1
  <2>6. ASSUME NEW i \in 1 .. (k + 1) PROVE h[i] = F[<<h[i - 1], i>>]
    <3>1. CASE i <= k
      <4>1. i \in 1 .. k /\ i \in 0 .. (k + 1) /\ i - 1 \in 0 .. (k + 1) /\ i - 1 <= k
        BY <3>1
      <4>2. h[i] = g[i] /\ h[i - 1] = g[i - 1]
        BY <3>1, <4>1
      <4> QED BY <2>1, <4>1, <4>2
    <3>2. CASE ~(i <= k)
      <4>1. i = k + 1 /\ i - 1 = k
        BY <3>2
      <4>2. h[k + 1] = F[<<g[k], k + 1>>] /\ h[k] = g[k]
        OBVIOUS
      <4> QED BY <4>1, <4>2
    <3> QED BY <3>1, <3>2
  <2>7. Upto(k + 1, h)
    BY <2>4, <2>5, <2>6
  <2> QED BY <2>7
<1> HIDE DEF Done
<1>3. Nat \subseteq Done
  BY <1>1, <1>2, SetInduction
<1>4. \E g : Upto(n, g)
  <2>1. n \in Done
    BY <1>3
  <2> QED BY <2>1 DEF Done
<1> QED BY <1>4 DEF Iterates

--------------------------------------------------------------------------------
(* Sequences without repeated entries *)

(* Taking the entry at position i out of a sequence shifts the rest. *)
LEMMA RemoveAtElements ==
  ASSUME NEW S, NEW s \in Seq(S), NEW i \in 1 .. Len(s)
  PROVE  /\ RemoveAt(s, i) \in Seq(S)
         /\ Len(RemoveAt(s, i)) = Len(s) - 1
         /\ \A j \in 1 .. (Len(s) - 1) :
              RemoveAt(s, i)[j] = IF j < i THEN s[j] ELSE s[j + 1]
<1> DEFINE front == SubSeq(s, 1, i - 1)
           back == SubSeq(s, i + 1, Len(s))
<1>1. /\ front \in Seq(S) /\ Len(front) = i - 1
      /\ \A j \in 1 .. (i - 1) : front[j] = s[j]
  BY SubSeqProperties, LenProperties
<1>2. /\ back \in Seq(S) /\ Len(back) = Len(s) - i
      /\ \A j \in 1 .. (Len(s) - i) : back[j] = s[i + j]
  BY SubSeqProperties, LenProperties
<1>3. RemoveAt(s, i) = front \o back
  BY DEF RemoveAt
<1> HIDE DEF front, back
<1>4. /\ front \o back \in Seq(S)
      /\ Len(front \o back) = Len(s) - 1
      /\ \A j \in 1 .. (Len(s) - 1) :
           (front \o back)[j] = IF j <= i - 1 THEN front[j] ELSE back[j - (i - 1)]
  <2>1. /\ front \o back \in Seq(S)
        /\ Len(front \o back) = Len(front) + Len(back)
        /\ \A j \in 1 .. (Len(front) + Len(back)) :
             (front \o back)[j] =
               IF j <= Len(front) THEN front[j] ELSE back[j - Len(front)]
    BY <1>1, <1>2, ConcatProperties
  <2>2. Len(s) \in Nat /\ Len(front) + Len(back) = Len(s) - 1
    BY <1>1, <1>2, LenProperties
  <2> QED BY <2>1, <2>2, <1>1
<1>5. ASSUME NEW j \in 1 .. (Len(s) - 1)
      PROVE  (front \o back)[j] = IF j < i THEN s[j] ELSE s[j + 1]
  <2>1. CASE j < i
    <3>1. j \in 1 .. (i - 1) /\ j <= i - 1
      BY <2>1, LenProperties
    <3>2. (front \o back)[j] = front[j]
      BY <3>1, <1>4
    <3> QED BY <2>1, <3>1, <3>2, <1>1
  <2>2. CASE ~(j < i)
    <3>1. j - (i - 1) \in 1 .. (Len(s) - i)
      BY <2>2, LenProperties
    <3>2. (front \o back)[j] = back[j - (i - 1)]
      BY <2>2, <1>4, LenProperties
    <3>3. back[j - (i - 1)] = s[i + (j - (i - 1))] /\ i + (j - (i - 1)) = j + 1
      BY <3>1, <1>2, LenProperties
    <3> QED BY <2>2, <3>2, <3>3
  <2> QED BY <2>1, <2>2
<1> QED BY <1>3, <1>4, <1>5

(* Removal keeps entries distinct and loses exactly the removed one. *)
LEMMA RemoveAtDistinct ==
  ASSUME NEW S, NEW s \in Seq(S), IsInjective(s), NEW i \in 1 .. Len(s)
  PROVE  /\ RemoveAt(s, i) \in Seq(S)
         /\ IsInjective(RemoveAt(s, i))
         /\ Range(RemoveAt(s, i)) = Range(s) \ {s[i]}
<1> DEFINE t == RemoveAt(s, i)
<1>1. /\ t \in Seq(S) /\ Len(t) = Len(s) - 1
      /\ \A j \in 1 .. (Len(s) - 1) : t[j] = IF j < i THEN s[j] ELSE s[j + 1]
  BY RemoveAtElements
<1> HIDE DEF t
<1>2. /\ Len(s) \in Nat
      /\ DOMAIN t = 1 .. (Len(s) - 1) /\ DOMAIN s = 1 .. Len(s)
      /\ \A j, k \in 1 .. Len(s) : s[j] = s[k] => j = k
  BY <1>1, LenProperties DEF IsInjective
<1>3. IsInjective(t)
  <2> SUFFICES ASSUME NEW j \in 1 .. (Len(s) - 1), NEW k \in 1 .. (Len(s) - 1),
                      t[j] = t[k]
               PROVE  j = k
    BY <1>2 DEF IsInjective
  <2> DEFINE p == IF j < i THEN j ELSE j + 1
             q == IF k < i THEN k ELSE k + 1
  <2>1. p \in 1 .. Len(s) /\ q \in 1 .. Len(s) /\ t[j] = s[p] /\ t[k] = s[q]
    BY <1>1, <1>2
  <2>2. p = q
    BY <2>1, <1>2
  <2> QED BY <2>2, <1>2
<1>4. Range(t) \subseteq Range(s) \ {s[i]}
  <2> SUFFICES ASSUME NEW j \in 1 .. (Len(s) - 1)
               PROVE  t[j] \in Range(s) \ {s[i]}
    BY <1>2 DEF Range
  <2> DEFINE p == IF j < i THEN j ELSE j + 1
  <2>1. p \in 1 .. Len(s) /\ p # i /\ t[j] = s[p]
    BY <1>1, <1>2
  <2> QED BY <2>1, <1>2 DEF Range
<1>5. Range(s) \ {s[i]} \subseteq Range(t)
  <2> SUFFICES ASSUME NEW p \in 1 .. Len(s), p # i
               PROVE  s[p] \in Range(t)
    BY <1>2 DEF Range
  <2> DEFINE j == IF p < i THEN p ELSE p - 1
  <2>1. j \in 1 .. (Len(s) - 1) /\ t[j] = s[p]
    BY <1>1, <1>2
  <2> QED BY <2>1, <1>2 DEF Range
<1> QED BY <1>1, <1>3, <1>4, <1>5 DEF t

(* A new entry at the end joins the entries. *)
LEMMA AppendRange ==
  ASSUME NEW S, NEW s \in Seq(S), NEW e \in S
  PROVE  Append(s, e) \in Seq(S) /\ Range(Append(s, e)) = Range(s) \cup {e}
<1> DEFINE t == Append(s, e)
<1>1. /\ t \in Seq(S) /\ Len(t) = Len(s) + 1 /\ t[Len(s) + 1] = e
      /\ \A j \in 1 .. Len(s) : t[j] = s[j]
      /\ Len(s) \in Nat
  BY AppendProperties, LenProperties
<1> HIDE DEF t
<1>2. DOMAIN t = 1 .. (Len(s) + 1) /\ DOMAIN s = 1 .. Len(s)
  BY <1>1, LenProperties
<1>3. Range(t) = Range(s) \cup {e}
  BY <1>1, <1>2 DEF Range
<1> QED BY <1>1, <1>3 DEF t

(* A new entry at the end keeps entries distinct. *)
LEMMA AppendDistinct ==
  ASSUME NEW S, NEW s \in Seq(S), IsInjective(s), NEW e \in S, e \notin Range(s)
  PROVE  /\ Append(s, e) \in Seq(S)
         /\ IsInjective(Append(s, e))
         /\ Range(Append(s, e)) = Range(s) \cup {e}
<1> DEFINE t == Append(s, e)
<1>1. /\ t \in Seq(S) /\ Len(t) = Len(s) + 1 /\ t[Len(s) + 1] = e
      /\ \A j \in 1 .. Len(s) : t[j] = s[j]
      /\ Len(s) \in Nat
  BY AppendProperties, LenProperties
<1> HIDE DEF t
<1>2. DOMAIN t = 1 .. (Len(s) + 1) /\ DOMAIN s = 1 .. Len(s)
  BY <1>1, LenProperties
<1>3. Range(t) = Range(s) \cup {e}
  BY <1>1, <1>2 DEF Range
<1>4. IsInjective(t)
  BY <1>1, <1>2 DEF IsInjective, Range
<1> QED BY <1>1, <1>3, <1>4 DEF t

(* The tail of a sequence without repetitions loses exactly its head. *)
LEMMA TailDistinct ==
  ASSUME NEW S, NEW s \in Seq(S), IsInjective(s), s # << >>
  PROVE  /\ Tail(s) \in Seq(S)
         /\ IsInjective(Tail(s))
         /\ Range(Tail(s)) = Range(s) \ {Head(s)}
<1> DEFINE t == Tail(s)
<1>1. /\ t \in Seq(S) /\ Len(t) = Len(s) - 1 /\ Head(s) = s[1]
      /\ \A j \in 1 .. Len(t) : t[j] = s[j + 1]
      /\ Len(s) \in Nat \ {0}
  BY HeadTailProperties, EmptySeq, LenProperties
<1> HIDE DEF t
<1>2. DOMAIN t = 1 .. (Len(s) - 1) /\ DOMAIN s = 1 .. Len(s)
  BY <1>1, LenProperties
<1>3. IsInjective(t)
  <2> SUFFICES ASSUME NEW j \in 1 .. (Len(s) - 1), NEW k \in 1 .. (Len(s) - 1),
                      t[j] = t[k]
               PROVE  j = k
    BY <1>2 DEF IsInjective
  <2>1. j + 1 \in 1 .. Len(s) /\ k + 1 \in 1 .. Len(s) /\ s[j + 1] = s[k + 1]
    BY <1>1
  <2> QED BY <2>1, <1>1, <1>2 DEF IsInjective
<1>4. Range(t) \subseteq Range(s) \ {s[1]}
  BY <1>1, <1>2 DEF IsInjective, Range
<1>5. Range(s) \ {s[1]} \subseteq Range(t)
  <2> SUFFICES ASSUME NEW p \in 1 .. Len(s), p # 1
               PROVE  s[p] \in Range(t)
    BY <1>1, <1>2 DEF Range
  <2>1. p - 1 \in 1 .. (Len(s) - 1) /\ (p - 1) + 1 = p
    BY <1>1
  <2>2. t[p - 1] = s[p]
    BY <2>1, <1>1
  <2> QED BY <2>1, <2>2, <1>2 DEF Range
<1> QED BY <1>1, <1>3, <1>4, <1>5 DEF t

--------------------------------------------------------------------------------
(* The order of entries *)

(* An entry `a' of s stands at or before an entry `b'. *)
NotAfter(s, a, b) == \E i, j \in DOMAIN s : i <= j /\ s[i] = a /\ s[j] = b

(* Taking an entry out leaves the others in their order. *)
LEMMA RemoveAtOrder ==
  ASSUME NEW S, NEW s \in Seq(S), NEW i \in 1 .. Len(s),
         NEW a, NEW b, NotAfter(RemoveAt(s, i), a, b)
  PROVE  NotAfter(s, a, b)
<1> DEFINE t == RemoveAt(s, i)
<1>1. /\ t \in Seq(S) /\ Len(t) = Len(s) - 1
      /\ \A j \in 1 .. (Len(s) - 1) : t[j] = IF j < i THEN s[j] ELSE s[j + 1]
  BY RemoveAtElements
<1> HIDE DEF t
<1>2. /\ Len(s) \in Nat
      /\ DOMAIN t = 1 .. (Len(s) - 1) /\ DOMAIN s = 1 .. Len(s)
  BY <1>1, LenProperties
<1>3. PICK j, k \in 1 .. (Len(s) - 1) : j <= k /\ t[j] = a /\ t[k] = b
  BY <1>2 DEF NotAfter, t
<1> DEFINE p == IF j < i THEN j ELSE j + 1
           q == IF k < i THEN k ELSE k + 1
<1>4. p \in 1 .. Len(s) /\ q \in 1 .. Len(s) /\ p <= q /\ s[p] = a /\ s[q] = b
  BY <1>1, <1>2, <1>3
<1> QED BY <1>2, <1>4 DEF NotAfter

(* A new entry at the end stands before no other. *)
LEMMA AppendOrder ==
  ASSUME NEW S, NEW s \in Seq(S), NEW e \in S,
         NEW a, NEW b, NotAfter(Append(s, e), a, b)
  PROVE  b = e \/ (NotAfter(s, a, b) /\ a \in Range(s))
<1> DEFINE t == Append(s, e)
<1>1. /\ t \in Seq(S) /\ Len(t) = Len(s) + 1 /\ t[Len(s) + 1] = e
      /\ \A j \in 1 .. Len(s) : t[j] = s[j]
      /\ Len(s) \in Nat
  BY AppendProperties, LenProperties
<1> HIDE DEF t
<1>2. DOMAIN t = 1 .. (Len(s) + 1) /\ DOMAIN s = 1 .. Len(s)
  BY <1>1, LenProperties
<1>3. PICK j, k \in 1 .. (Len(s) + 1) : j <= k /\ t[j] = a /\ t[k] = b
  BY <1>2 DEF NotAfter, t
<1>4. CASE k = Len(s) + 1
  BY <1>1, <1>3, <1>4
<1>5. CASE k # Len(s) + 1
  <2>1. j \in 1 .. Len(s) /\ k \in 1 .. Len(s) /\ s[j] = a /\ s[k] = b
    BY <1>1, <1>3, <1>5
  <2> QED BY <1>2, <1>3, <2>1 DEF NotAfter, Range
<1> QED BY <1>4, <1>5

--------------------------------------------------------------------------------
(* Selections *)

(* Leaving entries out: what is kept, and that it is kept once. *)
LEMMA WithoutFacts ==
  ASSUME NEW S, NEW s \in Seq(S), NEW X
  PROVE  /\ Without(s, X) \in Seq(S)
         /\ Range(Without(s, X)) = Range(s) \ X
         /\ IsInjective(s) => IsInjective(Without(s, X))
<1> DEFINE n == Len(s)
           F == [p \in Seq(S) \X (1 .. n) |->
                  IF s[p[2]] \in X THEN p[1] ELSE Append(p[1], s[p[2]])]
           Body(f) == [i \in 0 .. n |->
                        IF i = 0 THEN << >>
                        ELSE IF s[i] \in X THEN f[i - 1] ELSE Append(f[i - 1], s[i])]
           kept == CHOOSE f : f = Body(f)
           front(i) == {s[j] : j \in 1 .. i}
<1>1. n \in Nat /\ DOMAIN s = 1 .. n /\ \A i \in 1 .. n : s[i] \in S
  BY LenProperties, ElementOfSeq
<1>2. PICK g \in [0 .. n -> Seq(S)] :
             g[0] = << >> /\ \A i \in 1 .. n : g[i] = F[<<g[i - 1], i>>]
  <2>1. << >> \in Seq(S)
    BY EmptySeq
  <2>2. F \in [Seq(S) \X (1 .. n) -> Seq(S)]
    <3>1. ASSUME NEW p \in Seq(S) \X (1 .. n)
          PROVE  (IF s[p[2]] \in X THEN p[1] ELSE Append(p[1], s[p[2]])) \in Seq(S)
      BY <1>1, AppendProperties
    <3> QED BY <3>1
  <2> HIDE DEF F
  <2>3. PICK g : Iterates(g, Seq(S), << >>, n, F)
    BY <1>1, <2>1, <2>2, FiniteRecursion
  <2> QED BY <2>3 DEF Iterates
<1>3. g = Body(g)
  <2>1. ASSUME NEW i \in 0 .. n
        PROVE  g[i] = IF i = 0 THEN << >>
                      ELSE IF s[i] \in X THEN g[i - 1] ELSE Append(g[i - 1], s[i])
    <3>1. CASE i = 0
      BY <1>2, <3>1
    <3>2. CASE i # 0
      <4>1. i \in 1 .. n /\ g[i - 1] \in Seq(S)
        BY <1>1, <3>2
      <4>2. g[i] = F[<<g[i - 1], i>>]
        BY <1>2, <4>1
      <4> QED BY <3>2, <4>1, <4>2
    <3> QED BY <3>1, <3>2
  <2>2. g = [i \in 0 .. n |-> g[i]]
    OBVIOUS
  <2> QED BY <2>1, <2>2
<1>4. kept = Body(kept) /\ Without(s, X) = kept[n]
  <2>1. Without(s, X) = kept[n]
    BY DEF Without
  <2> HIDE DEF Body
  <2> QED BY <1>3, <2>1
<1>5. /\ kept[0] = << >>
      /\ \A i \in 1 .. n :
           kept[i] = IF s[i] \in X THEN kept[i - 1] ELSE Append(kept[i - 1], s[i])
  <2> HIDE DEF kept
  <2>1. 0 \in 0 .. n /\ \A i \in 1 .. n : i \in 0 .. n /\ i # 0
    BY <1>1
  <2> QED BY <1>4, <2>1
<1> HIDE DEF kept
<1> DEFINE Good(i) == /\ kept[i] \in Seq(S)
                      /\ Range(kept[i]) = front(i) \ X
                      /\ IsInjective(s) => IsInjective(kept[i])
           Done == {i \in Nat : i <= n => Good(i)}
<1>6. 0 \in Done
  <2>1. Range(<< >>) = {} /\ IsInjective(<< >>) /\ << >> \in Seq(S) /\ front(0) = {}
    BY EmptySeq DEF Range, IsInjective
  <2> QED BY <1>5, <2>1
<1>7. ASSUME NEW i \in Nat, i \in Done PROVE i + 1 \in Done
  <2> SUFFICES ASSUME i + 1 <= n PROVE Good(i + 1)
    OBVIOUS
  <2>1. Good(i) /\ i + 1 \in 1 .. n /\ s[i + 1] \in S
    <3>1. i + 1 \in 1 .. n /\ i <= n
      BY <1>1
    <3>2. Good(i)
      <4> HIDE DEF Good
      <4> QED BY <1>7, <3>1
    <3> QED BY <1>1, <3>1, <3>2
  <2>2. kept[i + 1] = IF s[i + 1] \in X THEN kept[i] ELSE Append(kept[i], s[i + 1])
    BY <1>5, <2>1
  <2>3. front(i + 1) = front(i) \cup {s[i + 1]}
    <3>1. 1 .. (i + 1) = (1 .. i) \cup {i + 1}
      OBVIOUS
    <3> QED BY <3>1
  <2>4. CASE s[i + 1] \in X
    BY <2>1, <2>2, <2>3, <2>4
  <2>5. CASE s[i + 1] \notin X
    <3>1. IsInjective(s) => s[i + 1] \notin front(i)
      BY <1>1, <2>1 DEF IsInjective
    <3>2. /\ Append(kept[i], s[i + 1]) \in Seq(S)
          /\ Range(Append(kept[i], s[i + 1])) = Range(kept[i]) \cup {s[i + 1]}
      BY <2>1, AppendRange
    <3>3. IsInjective(s) => IsInjective(Append(kept[i], s[i + 1]))
      BY <2>1, <3>1, AppendDistinct
    <3> QED BY <2>1, <2>2, <2>3, <2>5, <3>2, <3>3
  <2> QED BY <2>4, <2>5
<1>8. n \in Done
  <2> HIDE DEF Done
  <2> QED BY <1>1, <1>6, <1>7, SetInduction
<1>9. Range(s) = front(n)
  BY <1>1 DEF Range
<1> QED BY <1>1, <1>4, <1>8, <1>9

--------------------------------------------------------------------------------
(* Sequences of anything: what the operators of the code's lists return is  *)
(* a sequence, whatever its entries are.                                    *)

Entries(s) == {s[i] : i \in 1 .. Len(s)}
IsSeq(s) == s \in Seq(Entries(s))

(* What is a sequence over some set is one. *)
LEMMA SeqIsSeq ==
  ASSUME NEW S, NEW s \in Seq(S)
  PROVE  IsSeq(s) /\ Len(s) \in Nat /\ DOMAIN s = 1 .. Len(s)
<1>1. Len(s) \in Nat /\ DOMAIN s = 1 .. Len(s) /\ s \in [1 .. Len(s) -> S]
  BY LenProperties
<1>2. s \in [1 .. Len(s) -> Entries(s)]
  BY <1>1 DEF Entries
<1>3. s \in Seq(Entries(s))
  BY <1>1, <1>2
<1> QED BY <1>1, <1>3 DEF IsSeq

(* The length and the places of a sequence. *)
LEMMA IsSeqFacts ==
  ASSUME NEW s, IsSeq(s)
  PROVE  /\ Len(s) \in Nat /\ DOMAIN s = 1 .. Len(s)
         /\ s = << >> <=> Len(s) = 0
         /\ \A i \in 1 .. Len(s) : s[i] \in Entries(s)
<1>1. s \in Seq(Entries(s))
  BY DEF IsSeq
<1>2. Len(s) \in Nat /\ DOMAIN s = 1 .. Len(s)
  BY <1>1, LenProperties
<1>3. s = << >> <=> Len(s) = 0
  BY <1>1, EmptySeq
<1> QED BY <1>2, <1>3 DEF Entries

(* A function on the numbers up to n is a sequence. *)
LEMMA BuiltIsSeq ==
  ASSUME NEW n \in Nat, NEW s, s = [i \in 1 .. n |-> s[i]]
  PROVE  IsSeq(s) /\ Len(s) = n
<1> DEFINE S == {s[i] : i \in 1 .. n}
<1>1. s \in [1 .. n -> S]
  OBVIOUS
<1>2. s \in Seq(S)
  BY <1>1
<1>3. Len(s) = n
  <2>1. DOMAIN s = 1 .. n /\ Len(s) \in Nat /\ DOMAIN s = 1 .. Len(s)
    BY <1>1, <1>2, LenProperties
  <2>2. 1 .. n = 1 .. Len(s)
    BY <2>1
  <2> QED BY <2>1, <2>2
<1> QED BY <1>2, <1>3, SeqIsSeq

(* The empty sequence, one with a single entry, and one with two. *)
LEMMA ShortIsSeq ==
  /\ IsSeq(<< >>) /\ Len(<< >>) = 0
  /\ \A e : IsSeq(<<e>>) /\ Len(<<e>>) = 1 /\ <<e>>[1] = e
  /\ \A d, e : IsSeq(<<d, e>>) /\ Len(<<d, e>>) = 2 /\ <<d, e>>[1] = d /\ <<d, e>>[2] = e
<1>1. << >> \in Seq({}) /\ Len(<< >>) = 0
  OBVIOUS
<1>2. ASSUME NEW e PROVE <<e>> \in Seq({e}) /\ Len(<<e>>) = 1 /\ <<e>>[1] = e
  OBVIOUS
<1>3. ASSUME NEW d, NEW e
      PROVE  <<d, e>> \in Seq({d, e}) /\ Len(<<d, e>>) = 2 /\ <<d, e>>[1] = d /\ <<d, e>>[2] = e
  OBVIOUS
<1>4. IsSeq(<< >>)
  BY <1>1, SeqIsSeq
<1>5. ASSUME NEW e PROVE IsSeq(<<e>>)
  BY <1>2, SeqIsSeq
<1>6. ASSUME NEW d, NEW e PROVE IsSeq(<<d, e>>)
  <2> DEFINE S == {d, e}
             t == <<d, e>>
  <2>1. t \in Seq(S)
    BY <1>3
  <2> HIDE DEF S, t
  <2>2. IsSeq(t)
    BY <2>1, SeqIsSeq
  <2> QED BY <2>2 DEF t
<1> QED BY <1>1, <1>2, <1>3, <1>4, <1>5, <1>6

(* One sequence after another. *)
LEMMA ConcatIsSeq ==
  ASSUME NEW s, NEW t, IsSeq(s), IsSeq(t)
  PROVE  /\ IsSeq(s \o t)
         /\ Len(s \o t) = Len(s) + Len(t)
         /\ \A i \in 1 .. Len(s) : (s \o t)[i] = s[i]
         /\ \A i \in 1 .. Len(t) : (s \o t)[Len(s) + i] = t[i]
<1> DEFINE S == Entries(s) \cup Entries(t)
<1>1. s \in Seq(S) /\ t \in Seq(S)
  BY SeqMonotonic DEF IsSeq
<1>2. Len(s) \in Nat /\ Len(t) \in Nat
  BY IsSeqFacts
<1> HIDE DEF S
<1>3. /\ s \o t \in Seq(S)
      /\ Len(s \o t) = Len(s) + Len(t)
      /\ \A i \in 1 .. Len(s) + Len(t) : (s \o t)[i] = IF i <= Len(s) THEN s[i] ELSE t[i - Len(s)]
  BY <1>1, ConcatProperties
<1>4. \A i \in 1 .. Len(s) : (s \o t)[i] = s[i]
  BY <1>2, <1>3
<1>5. ASSUME NEW i \in 1 .. Len(t) PROVE (s \o t)[Len(s) + i] = t[i]
  <2>1. Len(s) + i \in 1 .. Len(s) + Len(t) /\ ~(Len(s) + i <= Len(s)) /\ (Len(s) + i) - Len(s) = i
    BY <1>2
  <2> QED BY <1>3, <2>1
<1> QED BY <1>3, <1>4, <1>5, SeqIsSeq

(* A sequence and a last entry. *)
LEMMA AppendIsSeq ==
  ASSUME NEW s, NEW e, IsSeq(s)
  PROVE  /\ IsSeq(Append(s, e))
         /\ Len(Append(s, e)) = Len(s) + 1
         /\ \A i \in 1 .. Len(s) : Append(s, e)[i] = s[i]
         /\ Append(s, e)[Len(s) + 1] = e
<1> DEFINE S == Entries(s) \cup {e}
<1>1. s \in Seq(S) /\ e \in S
  BY SeqMonotonic DEF IsSeq
<1> HIDE DEF S
<1>2. /\ Append(s, e) \in Seq(S)
      /\ Len(Append(s, e)) = Len(s) + 1
      /\ \A i \in 1 .. Len(s) : Append(s, e)[i] = s[i]
      /\ Append(s, e)[Len(s) + 1] = e
  BY <1>1, AppendProperties
<1>3. IsSeq(Append(s, e))
  BY <1>2, SeqIsSeq
<1> QED BY <1>2, <1>3

(* A piece of anything is a sequence; where it has entries, they are those. *)
LEMMA SubSeqIsSeq ==
  ASSUME NEW s, NEW m \in Int, NEW n \in Int
  PROVE  /\ IsSeq(SubSeq(s, m, n))
         /\ Len(SubSeq(s, m, n)) = IF m <= n THEN n - m + 1 ELSE 0
         /\ \A i \in 1 .. n - m + 1 : SubSeq(s, m, n)[i] = s[m + i - 1]
<1> DEFINE S == {s[i] : i \in m .. n}
<1>1. \A i \in m .. n : s[i] \in S
  OBVIOUS
<1> HIDE DEF S
<1>2. /\ SubSeq(s, m, n) \in Seq(S)
      /\ Len(SubSeq(s, m, n)) = IF m <= n THEN n - m + 1 ELSE 0
      /\ \A i \in 1 .. n - m + 1 : SubSeq(s, m, n)[i] = s[m + i - 1]
  BY <1>1, SubSeqProperties
<1> QED BY <1>2, SeqIsSeq

(* The numbers of a set are collected one by one. *)
LEMMA PlacesSteps ==
  ASSUME NEW P, NEW n \in Nat
  PROVE  \E upto : /\ upto[0] = << >> /\ Places(P, n) = upto[n]
                   /\ \A i \in 1 .. n : upto[i] = IF i \in P THEN Append(upto[i - 1], i) ELSE upto[i - 1]
<1> DEFINE S == P \cap (1 .. n)
           F == [p \in Seq(S) \X (1 .. n) |-> IF p[2] \in P THEN Append(p[1], p[2]) ELSE p[1]]
           Body(f) == [i \in 0 .. n |->
                        IF i = 0 THEN << >>
                        ELSE IF i \in P THEN Append(f[i - 1], i) ELSE f[i - 1]]
           upto == CHOOSE f : f = Body(f)
<1>1. PICK g \in [0 .. n -> Seq(S)] :
             g[0] = << >> /\ \A i \in 1 .. n : g[i] = F[<<g[i - 1], i>>]
  <2>1. << >> \in Seq(S)
    BY EmptySeq
  <2>2. F \in [Seq(S) \X (1 .. n) -> Seq(S)]
    <3>1. ASSUME NEW p \in Seq(S) \X (1 .. n)
          PROVE  (IF p[2] \in P THEN Append(p[1], p[2]) ELSE p[1]) \in Seq(S)
      BY AppendProperties
    <3> QED BY <3>1
  <2> HIDE DEF F
  <2>3. PICK g : Iterates(g, Seq(S), << >>, n, F)
    BY <2>1, <2>2, FiniteRecursion
  <2> QED BY <2>3 DEF Iterates
<1>2. g = Body(g)
  <2>1. ASSUME NEW i \in 0 .. n
        PROVE  g[i] = IF i = 0 THEN << >> ELSE IF i \in P THEN Append(g[i - 1], i) ELSE g[i - 1]
    <3>1. CASE i = 0
      BY <1>1, <3>1
    <3>2. CASE i # 0
      <4>1. i \in 1 .. n /\ g[i - 1] \in Seq(S)
        BY <3>2
      <4>2. g[i] = F[<<g[i - 1], i>>]
        BY <1>1, <4>1
      <4> QED BY <3>2, <4>1, <4>2
    <3> QED BY <3>1, <3>2
  <2>2. g = [i \in 0 .. n |-> g[i]]
    OBVIOUS
  <2> QED BY <2>1, <2>2
<1>3. upto = Body(upto) /\ Places(P, n) = upto[n]
  <2>1. Places(P, n) = upto[n]
    BY DEF Places
  <2> HIDE DEF Body
  <2> QED BY <1>2, <2>1
<1>4. upto[0] = << >> /\ \A i \in 1 .. n : upto[i] = IF i \in P THEN Append(upto[i - 1], i) ELSE upto[i - 1]
  <2> HIDE DEF upto
  <2>1. 0 \in 0 .. n /\ \A i \in 1 .. n : i \in 0 .. n /\ i # 0
    OBVIOUS
  <2> QED BY <1>3, <2>1
<1> HIDE DEF upto
<1> QED BY <1>3, <1>4

(* Numbers in ascending order. *)
LEMMA PlacesFacts ==
  ASSUME NEW P, NEW n \in Nat
  PROVE  /\ Places(P, n) \in Seq(P \cap (1 .. n))
         /\ \A k, l \in 1 .. Len(Places(P, n)) : k < l => Places(P, n)[k] < Places(P, n)[l]
<1> DEFINE S == P \cap (1 .. n)
<1>4. PICK upto : /\ upto[0] = << >> /\ Places(P, n) = upto[n]
                  /\ \A i \in 1 .. n : upto[i] = IF i \in P THEN Append(upto[i - 1], i) ELSE upto[i - 1]
  BY PlacesSteps
<1> DEFINE Rising(u, i) == /\ u \in Seq(S) /\ \A k \in 1 .. Len(u) : u[k] <= i
                           /\ \A k, l \in 1 .. Len(u) : k < l => u[k] < u[l]
           Done == {i \in Nat : i <= n => Rising(upto[i], i)}
<1>5. 0 \in Done
  <2>1. Len(<< >>) = 0 /\ << >> \in Seq(S)
    BY EmptySeq
  <2>2. Rising(<< >>, 0)
    BY <2>1
  <2> HIDE DEF Rising
  <2> QED BY <1>4, <2>2
<1>6. ASSUME NEW i \in Nat, i \in Done PROVE i + 1 \in Done
  <2> SUFFICES ASSUME i + 1 <= n PROVE Rising(upto[i + 1], i + 1)
    <3> HIDE DEF Rising
    <3> QED OBVIOUS
  <2>1. PICK u : u = upto[i]
    OBVIOUS
  <2>2. i + 1 \in 1 .. n /\ Rising(u, i) /\ (i + 1) - 1 = i
    <3> HIDE DEF Rising
    <3> QED BY <1>6, <2>1
  <2>3. upto[i + 1] = IF i + 1 \in P THEN Append(u, i + 1) ELSE u
    BY <1>4, <2>1, <2>2
  <2>4. Len(u) \in Nat /\ \A k \in 1 .. Len(u) : u[k] \in Nat
    <3> HIDE DEF S
    <3>1. Len(u) \in Nat /\ \A k \in 1 .. Len(u) : u[k] \in S
      BY <2>2, LenProperties, ElementOfSeq
    <3>2. S \subseteq Nat
      BY DEF S
    <3> QED BY <3>1, <3>2
  <2>5. CASE i + 1 \in P
    <3>1. i + 1 \in S
      BY <2>2, <2>5
    <3>2. PICK t : t = Append(u, i + 1)
      OBVIOUS
    <3>3. /\ t \in Seq(S) /\ Len(t) = Len(u) + 1 /\ t[Len(u) + 1] = i + 1
          /\ \A k \in 1 .. Len(u) : t[k] = u[k]
      <4> HIDE DEF S
      <4> QED BY <2>2, <3>1, <3>2, AppendProperties
    <3>4. \A k \in 1 .. Len(t) : k # Len(u) + 1 => k \in 1 .. Len(u)
      BY <2>4, <3>3
    <3>5. ASSUME NEW k \in 1 .. Len(t) PROVE t[k] <= i + 1
      <4>1. CASE k = Len(u) + 1
        BY <3>3, <4>1
      <4>2. CASE k # Len(u) + 1
        <5>1. k \in 1 .. Len(u) /\ t[k] = u[k]
          BY <3>3, <3>4, <4>2
        <5>2. u[k] <= i /\ u[k] \in Nat
          BY <2>2, <2>4, <5>1
        <5> QED BY <5>1, <5>2
      <4> QED BY <4>1, <4>2
    <3>6. ASSUME NEW k \in 1 .. Len(t), NEW l \in 1 .. Len(t), k < l PROVE t[k] < t[l]
      <4>1. k \in 1 .. Len(u)
        BY <2>4, <3>3, <3>6
      <4>2. u[k] <= i /\ u[k] \in Nat /\ t[k] = u[k]
        BY <2>2, <2>4, <3>3, <4>1
      <4>3. CASE l = Len(u) + 1
        BY <3>3, <4>2, <4>3
      <4>4. CASE l # Len(u) + 1
        <5>1. l \in 1 .. Len(u)
          BY <3>4, <4>4
        <5> QED BY <2>2, <3>3, <3>6, <4>1, <5>1
      <4> QED BY <4>3, <4>4
    <3> QED BY <2>3, <2>5, <3>2, <3>3, <3>5, <3>6
  <2>6. CASE ~(i + 1 \in P)
    <3>1. \A k \in 1 .. Len(u) : u[k] <= i + 1
      BY <2>2, <2>4
    <3> QED BY <2>2, <2>3, <2>6, <3>1
  <2> QED BY <2>5, <2>6
<1>7. n \in Done
  <2> HIDE DEF Done
  <2> QED BY <1>5, <1>6, SetInduction
<1> QED BY <1>4, <1>7

(* The entries at some places are entries at these places. *)
LEMMA PickedFacts ==
  ASSUME NEW s, IsSeq(s), NEW P
  PROVE  /\ IsSeq(Picked(s, P))
         /\ \A k \in 1 .. Len(Picked(s, P)) : \E i \in P \cap (1 .. Len(s)) : Picked(s, P)[k] = s[i]
<1> DEFINE at == Places(P, Len(s))
           t == [k \in 1 .. Len(at) |-> s[at[k]]]
<1>1. Len(s) \in Nat
  BY IsSeqFacts
<1>2. at \in Seq(P \cap (1 .. Len(s)))
  BY <1>1, PlacesFacts
<1> HIDE DEF at
<1>3. Len(at) \in Nat /\ \A k \in 1 .. Len(at) : at[k] \in P \cap (1 .. Len(s))
  BY <1>2, LenProperties, ElementOfSeq
<1>4. IsSeq(t) /\ Len(t) = Len(at)
  <2>1. t = [k \in 1 .. Len(at) |-> t[k]]
    OBVIOUS
  <2> HIDE DEF t
  <2> QED BY <1>3, <2>1, BuiltIsSeq
<1>5. Picked(s, P) = t
  BY DEF Picked, at
<1> QED BY <1>3, <1>4, <1>5

(* They keep their order. *)
LEMMA PickedOrder ==
  ASSUME NEW s, IsSeq(s), NEW P,
         NEW k \in 1 .. Len(Picked(s, P)), NEW l \in 1 .. Len(Picked(s, P)), k < l
  PROVE  \E i, j \in 1 .. Len(s) : i < j /\ Picked(s, P)[k] = s[i] /\ Picked(s, P)[l] = s[j]
<1> DEFINE at == Places(P, Len(s))
           t == [x \in 1 .. Len(at) |-> s[at[x]]]
<1>1. Len(s) \in Nat
  BY IsSeqFacts
<1>2. at \in Seq(P \cap (1 .. Len(s))) /\ \A x, y \in 1 .. Len(at) : x < y => at[x] < at[y]
  BY <1>1, PlacesFacts
<1> HIDE DEF at
<1>3. Len(at) \in Nat /\ \A x \in 1 .. Len(at) : at[x] \in P \cap (1 .. Len(s))
  BY <1>2, LenProperties, ElementOfSeq
<1>4. Len(t) = Len(at)
  <2>1. t = [x \in 1 .. Len(at) |-> t[x]]
    OBVIOUS
  <2> HIDE DEF t
  <2> QED BY <1>3, <2>1, BuiltIsSeq
<1>5. Picked(s, P) = t
  BY DEF Picked, at
<1> QED BY <1>2, <1>3, <1>4, <1>5

(* Sequences written one after another, one at a time. *)
LEMMA FlattenSteps ==
  ASSUME NEW s, NEW n \in Nat, n = Len(s), n # 0
  PROVE  \E flat : /\ FlattenSeq(s) = flat[n]
                   /\ \A i \in 1 .. n : flat[i] = IF i = 1 THEN s[i] ELSE flat[i - 1] \o s[i]
<1> DEFINE Body(f) == [i \in 1 .. n |-> IF i = 1 THEN s[i] ELSE f[i - 1] \o s[i]]
           flat == CHOOSE f : f = Body(f)
           Upto(k, g) == g = [i \in 1 .. k |-> IF i = 1 THEN s[i] ELSE g[i - 1] \o s[i]]
           Made == {k \in Nat : \E g : Upto(k, g)}
<1>1. 0 \in Made
  <2>1. Upto(0, << >>)
    OBVIOUS
  <2> QED BY <2>1
<1>2. ASSUME NEW k \in Nat, k \in Made PROVE k + 1 \in Made
  <2>1. PICK g : Upto(k, g)
    BY <1>2
  <2> DEFINE last == IF k + 1 = 1 THEN s[k + 1] ELSE g[k] \o s[k + 1]
             h == [i \in 1 .. (k + 1) |-> IF i <= k THEN g[i] ELSE last]
  <2>2. ASSUME NEW i \in 1 .. (k + 1) PROVE h[i] = IF i = 1 THEN s[i] ELSE h[i - 1] \o s[i]
    <3>1. CASE i <= k
      <4>1. i \in 1 .. k /\ h[i] = g[i] /\ (i # 1 => h[i - 1] = g[i - 1])
        BY <3>1
      <4>2. g[i] = IF i = 1 THEN s[i] ELSE g[i - 1] \o s[i]
        BY <2>1, <4>1
      <4> QED BY <4>1, <4>2
    <3>2. CASE ~(i <= k)
      <4>1. i = k + 1 /\ h[i] = last
        BY <3>2
      <4>2. i # 1 => h[i - 1] = g[k]
        BY <4>1
      <4> QED BY <4>1, <4>2
    <3> QED BY <3>1, <3>2
  <2>3. h = [i \in 1 .. (k + 1) |-> h[i]]
    OBVIOUS
  <2> HIDE DEF h
  <2>4. Upto(k + 1, h)
    BY <2>2, <2>3
  <2>5. \E f : Upto(k + 1, f)
    BY <2>4
  <2> HIDE DEF Upto
  <2> QED BY <2>5
<1> HIDE DEF Made
<1>3. n \in Made
  BY <1>1, <1>2, SetInduction
<1>4. PICK g : Upto(n, g)
  BY <1>3 DEF Made
<1>5. FlattenSeq(s) = flat[n]
  BY DEF FlattenSeq
<1>6. flat = Body(flat)
  <2>1. g = Body(g)
    BY <1>4
  <2> HIDE DEF Body
  <2> QED BY <2>1
<1>7. \A i \in 1 .. n : flat[i] = IF i = 1 THEN s[i] ELSE flat[i - 1] \o s[i]
  <2> HIDE DEF flat
  <2> QED BY <1>6
<1> HIDE DEF flat
<1> QED BY <1>5, <1>7

(* Sequences written one after another. *)
LEMMA FlattenFacts ==
  ASSUME NEW s, IsSeq(s), \A i \in 1 .. Len(s) : IsSeq(s[i])
  PROVE  /\ IsSeq(FlattenSeq(s))
         /\ \A k \in 1 .. Len(FlattenSeq(s)) :
              \E i \in 1 .. Len(s) : \E j \in 1 .. Len(s[i]) : FlattenSeq(s)[k] = s[i][j]
         /\ FlattenSeq(s) # << >> <=> \E i \in 1 .. Len(s) : s[i] # << >>
<1> DEFINE n == Len(s)
<1>1. n \in Nat /\ (n = 0 => s = << >>)
  BY IsSeqFacts
<1>2. CASE n = 0
  <2>1. FlattenSeq(s) = << >>
    BY <1>1, <1>2 DEF FlattenSeq
  <2>2. IsSeq(<< >>) /\ Len(<< >>) = 0
    BY ShortIsSeq
  <2> QED BY <1>2, <2>1, <2>2
<1>3. CASE n # 0
  <2>1. PICK flat : /\ FlattenSeq(s) = flat[n]
                    /\ \A i \in 1 .. n : flat[i] = IF i = 1 THEN s[i] ELSE flat[i - 1] \o s[i]
    BY <1>1, <1>3, FlattenSteps
  <2> DEFINE From(k, e) == \E i \in 1 .. k : \E j \in 1 .. Len(s[i]) : e = s[i][j]
             Good(k) == /\ IsSeq(flat[k])
                        /\ \A m \in 1 .. Len(flat[k]) : From(k, flat[k][m])
                        /\ Len(flat[k]) # 0 <=> \E i \in 1 .. k : Len(s[i]) # 0
             Done == {k \in Nat : k + 1 <= n => Good(k + 1)}
  <2>2. 0 \in Done
    <3>1. 1 \in 1 .. n /\ flat[1] = s[1] /\ IsSeq(s[1]) /\ 0 + 1 = 1
      BY <1>1, <1>3, <2>1
    <3> QED BY <3>1
  <2>3. ASSUME NEW k \in Nat, k \in Done PROVE k + 1 \in Done
    <3> SUFFICES ASSUME (k + 1) + 1 <= n PROVE Good((k + 1) + 1)
      <4> HIDE DEF Good
      <4> QED OBVIOUS
    <3> DEFINE a == flat[k + 1]
               b == s[(k + 1) + 1]
    <3>1. Good(k + 1)
      <4> HIDE DEF Good
      <4> QED BY <1>1, <2>3
    <3>2. (k + 1) + 1 \in 1 .. n /\ (k + 1) + 1 # 1 /\ ((k + 1) + 1) - 1 = k + 1
      BY <1>1
    <3>3. flat[(k + 1) + 1] = a \o b /\ IsSeq(a) /\ IsSeq(b)
      BY <2>1, <3>1, <3>2
    <3> HIDE DEF a, b
    <3>4. /\ IsSeq(a \o b) /\ Len(a \o b) = Len(a) + Len(b)
          /\ \A i \in 1 .. Len(a) : (a \o b)[i] = a[i]
          /\ \A i \in 1 .. Len(b) : (a \o b)[Len(a) + i] = b[i]
          /\ Len(a) \in Nat /\ Len(b) \in Nat
      BY <3>3, ConcatIsSeq, IsSeqFacts
    <3>5. ASSUME NEW m \in 1 .. Len(a \o b) PROVE From((k + 1) + 1, (a \o b)[m])
      <4>1. CASE m <= Len(a)
        <5>1. m \in 1 .. Len(a) /\ (a \o b)[m] = a[m]
          BY <3>4, <4>1
        <5>2. From(k + 1, a[m])
          BY <3>1, <5>1 DEF a
        <5> QED BY <5>1, <5>2
      <4>2. CASE ~(m <= Len(a))
        <5>1. m - Len(a) \in 1 .. Len(b) /\ Len(a) + (m - Len(a)) = m
          BY <3>4, <4>2
        <5>2. (a \o b)[m] = b[m - Len(a)]
          BY <3>4, <5>1
        <5>3. (k + 1) + 1 \in 1 .. (k + 1) + 1
          OBVIOUS
        <5> QED BY <5>1, <5>2, <5>3 DEF b
      <4> QED BY <4>1, <4>2
    <3>6. Len(a \o b) # 0 <=> \E i \in 1 .. (k + 1) + 1 : Len(s[i]) # 0
      <4>1. Len(a) # 0 <=> \E i \in 1 .. k + 1 : Len(s[i]) # 0
        BY <3>1 DEF a
      <4>2. 1 .. (k + 1) + 1 = (1 .. k + 1) \cup {(k + 1) + 1}
        OBVIOUS
      <4> QED BY <3>4, <4>1, <4>2 DEF b
    <3>7. Good((k + 1) + 1)
      <4> HIDE DEF From
      <4> QED BY <3>3, <3>4, <3>5, <3>6
    <3> QED BY <3>7
  <2>4. n - 1 \in Done
    <3> HIDE DEF Done
    <3>1. n - 1 \in Nat
      BY <1>1, <1>3
    <3> QED BY <2>2, <2>3, <3>1, SetInduction
  <2>5. Good(n)
    <3>1. (n - 1) + 1 = n /\ n <= n
      BY <1>1
    <3> HIDE DEF Good
    <3> QED BY <2>4, <3>1
  <2>6. \A i \in 1 .. n : s[i] # << >> <=> Len(s[i]) # 0
    BY IsSeqFacts
  <2>7. flat[n] # << >> <=> Len(flat[n]) # 0
    BY <2>5, IsSeqFacts
  <2> QED BY <2>1, <2>5, <2>6, <2>7
<1> QED BY <1>2, <1>3

(* Among some sequences one entry comes before another. *)
Precedes(s, d, e) ==
  \E i, x \in 1 .. Len(s) : \E j \in 1 .. Len(s[i]) : \E y \in 1 .. Len(s[x]) :
    d = s[i][j] /\ e = s[x][y] /\ (i < x \/ (i = x /\ j < y))

(* They keep the order of the sequences, and their own. *)
LEMMA FlattenOrder ==
  ASSUME NEW s, IsSeq(s), \A i \in 1 .. Len(s) : IsSeq(s[i]), NEW all, all = FlattenSeq(s),
         NEW k \in 1 .. Len(all), NEW l \in 1 .. Len(all), k < l
  PROVE  Precedes(s, all[k], all[l])
<1>1. PICK n \in Nat : n = Len(s)
  BY IsSeqFacts
<1>2. CASE n = 0
  <2>1. FlattenSeq(s) = << >>
    BY <1>1, <1>2, IsSeqFacts DEF FlattenSeq
  <2> QED BY <2>1, ShortIsSeq
<1>3. CASE n # 0
  <2>1. PICK flat : /\ FlattenSeq(s) = flat[n]
                    /\ \A i \in 1 .. n : flat[i] = IF i = 1 THEN s[i] ELSE flat[i - 1] \o s[i]
    BY <1>1, <1>3, FlattenSteps
  <2> DEFINE From(h, e) == \E i \in 1 .. h : \E j \in 1 .. Len(s[i]) : e = s[i][j]
             Apart(h, d, e) == \E i, x \in 1 .. h : \E j \in 1 .. Len(s[i]) : \E y \in 1 .. Len(s[x]) :
                                 d = s[i][j] /\ e = s[x][y] /\ (i < x \/ (i = x /\ j < y))
             Good(h) == /\ IsSeq(flat[h])
                        /\ \A m \in 1 .. Len(flat[h]) : From(h, flat[h][m])
                        /\ \A m, o \in 1 .. Len(flat[h]) : m < o => Apart(h, flat[h][m], flat[h][o])
             Done == {h \in Nat : h + 1 <= n => Good(h + 1)}
  <2>2. 0 \in Done
    <3>1. 1 \in 1 .. n /\ flat[1] = s[1] /\ IsSeq(s[1]) /\ 0 + 1 = 1 /\ 1 \in 1 .. 1
      BY <1>1, <1>3, <2>1
    <3> QED BY <3>1
  <2>3. ASSUME NEW h \in Nat, h \in Done PROVE h + 1 \in Done
    <3> SUFFICES ASSUME (h + 1) + 1 <= n PROVE Good((h + 1) + 1)
      <4> HIDE DEF Good
      <4> QED OBVIOUS
    <3>1. PICK p : p = h + 1
      OBVIOUS
    <3>2. PICK q : q = (h + 1) + 1
      OBVIOUS
    <3>3. p \in 1 .. n /\ q \in 1 .. n /\ p < q /\ q - 1 = p /\ p \in Nat /\ q # 1 /\ q \in 1 .. q /\ 1 .. p \subseteq 1 .. q
      BY <1>1, <3>1, <3>2
    <3>4. Good(p)
      <4> HIDE DEF Good
      <4> QED BY <1>1, <2>3, <3>1, <3>3
    <3>5. PICK a, b : a = flat[p] /\ b = s[q]
      OBVIOUS
    <3>6. flat[q] = a \o b /\ IsSeq(a) /\ IsSeq(b)
      BY <1>1, <2>1, <3>3, <3>4, <3>5
    <3>7. PICK t : t = a \o b
      OBVIOUS
    <3>8. /\ IsSeq(t) /\ Len(t) = Len(a) + Len(b)
          /\ \A i \in 1 .. Len(a) : t[i] = a[i]
          /\ \A i \in 1 .. Len(b) : t[Len(a) + i] = b[i]
          /\ Len(a) \in Nat /\ Len(b) \in Nat
      BY <3>6, <3>7, ConcatIsSeq, IsSeqFacts
    <3>9. \A m \in 1 .. Len(a) : From(p, a[m])
      <4> HIDE DEF From
      <4> QED BY <3>4, <3>5
    <3>10. \A m, o \in 1 .. Len(a) : m < o => Apart(p, a[m], a[o])
      <4> HIDE DEF Apart
      <4> QED BY <3>4, <3>5
    <3>11. ASSUME NEW m \in 1 .. Len(t), m > Len(a) PROVE \E j \in 1 .. Len(b) : m = Len(a) + j /\ t[m] = s[q][j]
      <4>1. m - Len(a) \in 1 .. Len(b) /\ m = Len(a) + (m - Len(a))
        BY <3>8, <3>11
      <4> QED BY <3>5, <3>8, <4>1
    <3>12. ASSUME NEW m \in 1 .. Len(t), ~(m > Len(a)) PROVE m \in 1 .. Len(a) /\ t[m] = a[m]
      BY <3>8, <3>12
    <3>13. ASSUME NEW m \in 1 .. Len(t) PROVE From(q, t[m])
      <4>1. CASE m > Len(a)
        <5>1. PICK j \in 1 .. Len(b) : t[m] = s[q][j]
          BY <3>11, <4>1
        <5> QED BY <3>3, <3>5, <5>1
      <4>2. CASE ~(m > Len(a))
        <5>1. From(p, t[m])
          BY <3>9, <3>12, <4>2
        <5> QED BY <3>3, <5>1
      <4> QED BY <4>1, <4>2
    <3>14. ASSUME NEW m \in 1 .. Len(t), NEW o \in 1 .. Len(t), m < o PROVE Apart(q, t[m], t[o])
      <4>1. CASE ~(o > Len(a))
        <5>1. ~(m > Len(a))
          BY <3>8, <3>14, <4>1
        <5>2. m \in 1 .. Len(a) /\ t[m] = a[m] /\ o \in 1 .. Len(a) /\ t[o] = a[o]
          BY <3>12, <4>1, <5>1
        <5>3. Apart(p, t[m], t[o])
          <6> HIDE DEF Apart
          <6> QED BY <3>10, <3>14, <5>2
        <5> QED BY <3>3, <5>3
      <4>2. CASE o > Len(a) /\ ~(m > Len(a))
        <5>1. PICK y \in 1 .. Len(b) : t[o] = s[q][y]
          BY <3>11, <4>2
        <5>2. PICK i \in 1 .. p : \E j \in 1 .. Len(s[i]) : t[m] = s[i][j]
          BY <3>9, <3>12, <4>2
        <5>3. i \in 1 .. q /\ i < q
          BY <3>3, <5>2
        <5> QED BY <3>3, <3>5, <5>1, <5>2, <5>3
      <4>3. CASE o > Len(a) /\ m > Len(a)
        <5>1. PICK y \in 1 .. Len(b) : o = Len(a) + y /\ t[o] = s[q][y]
          BY <3>11, <4>3
        <5>2. PICK j \in 1 .. Len(b) : m = Len(a) + j /\ t[m] = s[q][j]
          BY <3>11, <4>3
        <5>3. j < y
          BY <3>8, <3>14, <5>1, <5>2
        <5> QED BY <3>3, <3>5, <5>1, <5>2, <5>3
      <4> QED BY <4>1, <4>2, <4>3
    <3>15. Good(q)
      <4> HIDE DEF From, Apart
      <4> QED BY <3>6, <3>7, <3>8, <3>13, <3>14
    <3> HIDE DEF Good
    <3> QED BY <3>2, <3>15
  <2>4. n - 1 \in Done
    <3> HIDE DEF Done
    <3>1. n - 1 \in Nat
      BY <1>1, <1>3
    <3> QED BY <2>2, <2>3, <3>1, SetInduction
  <2>5. Good(n)
    <3>1. (n - 1) + 1 = n /\ n <= n
      BY <1>1
    <3> HIDE DEF Good
    <3> QED BY <2>4, <3>1
  <2>6. Apart(n, all[k], all[l])
    <3> HIDE DEF From, Apart
    <3> QED BY <2>1, <2>5
  <2> QED BY <1>1, <2>6 DEF Precedes
<1> QED BY <1>1, <1>2, <1>3


================================================================================
