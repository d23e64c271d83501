---------------------------- MODULE CompletionProofs ----------------------------
(***************************************************************************)
(* What Completion promises for every set of requests and replies.  The    *)
(* parser and the sieve are only asked that they hand out sequences, and   *)
(* calls of tools that may be called; the runtimes, that they say nothing  *)
(* of an outcome before it is one.                                         *)
(***************************************************************************)
EXTENDS Completion, SequenceLemmas

--------------------------------------------------------------------------------
(* Places in a text *)

(* The first of some positions is one of them. *)
LEMMA FirstOfFacts ==
  ASSUME NEW P \in SUBSET Nat
  PROVE  FirstOf(P) \in Nat /\ (FirstOf(P) # 0 => FirstOf(P) \in P) /\ (P # {} => FirstOf(P) \in P)
<1>1. CASE P = {}
  BY <1>1 DEF FirstOf
<1>2. CASE P # {}
  <2>1. \E x \in P : \A y \in P : x =< y
    BY <1>2, NatLeast
  <2>2. Min(P) \in P
    BY <2>1 DEF Min
  <2> QED BY <1>2, <2>2 DEF FirstOf
<1> QED BY <1>1, <1>2

(* The last of some positions is one of them. *)
LEMMA LastOfFacts ==
  ASSUME NEW n \in Nat, NEW P \in SUBSET (1 .. n)
  PROVE  LastOf(P) \in Nat /\ (LastOf(P) # 0 => LastOf(P) \in P)
<1>1. CASE P = {}
  BY <1>1 DEF LastOf
<1>2. CASE P # {}
  <2> DEFINE Q == {n - x : x \in P}
  <2>1. Q \in SUBSET Nat /\ Q # {}
    <3>1. ASSUME NEW x \in P PROVE n - x \in Nat
      <4>1. x \in 1 .. n
        OBVIOUS
      <4> QED BY <4>1
    <3>2. \E x \in P : TRUE
      BY <1>2
    <3> QED BY <3>1, <3>2
  <2>2. PICK q \in Q : \A y \in Q : q <= y
    <3> HIDE DEF Q
    <3> QED BY <2>1, NatLeast
  <2>3. PICK x \in P : q = n - x
    OBVIOUS
  <2>4. \A y \in P : x >= y
    <3> SUFFICES ASSUME NEW y \in P PROVE x >= y
      OBVIOUS
    <3>1. n - y \in Q
      OBVIOUS
    <3>2. n - x <= n - y
      BY <2>2, <2>3, <3>1
    <3>3. x \in Nat /\ y \in Nat
      OBVIOUS
    <3> QED BY <3>2, <3>3
  <2>5. Max(P) \in P
    BY <2>4 DEF Max
  <2>6. LastOf(P) \in P
    BY <1>2, <2>5 DEF LastOf
  <2>7. LastOf(P) \in 1 .. n
    BY <2>6
  <2> QED BY <2>6, <2>7
<1> QED BY <1>1, <1>2

(* The rest of a text is one. *)
LEMMA TextFromIsSeq ==
  ASSUME NEW s, IsSeq(s), NEW i \in Int
  PROVE  IsSeq(TextFrom(s, i))
BY IsSeqFacts, SubSeqIsSeq DEF TextFrom

(* The blanks around a text are cut off. *)
LEMMA TrimIsSeq ==
  ASSUME NEW s, IsSeq(s)
  PROVE  IsSeq(TrimLeft(s)) /\ IsSeq(TrimRight(s)) /\ IsSeq(TrimSpace(s))
<1>1. ASSUME NEW u, IsSeq(u) PROVE IsSeq(TrimLeft(u))
  <2> DEFINE P == Printed(u) \union {Len(u) + 1}
  <2>1. Len(u) \in Nat
    BY <1>1, IsSeqFacts
  <2>2. P \in SUBSET Nat /\ P # {}
    BY <2>1 DEF Printed
  <2> HIDE DEF P
  <2>3. \E x \in P : \A y \in P : x =< y
    BY <2>2, NatLeast
  <2>4. Min(P) \in Nat
    BY <2>2, <2>3 DEF Min
  <2> QED BY <1>1, <2>4, TextFromIsSeq DEF TrimLeft, P
<1>2. ASSUME NEW u, IsSeq(u) PROVE IsSeq(TrimRight(u))
  <2>1. Len(u) \in Nat /\ Printed(u) \in SUBSET (1 .. Len(u))
    BY <1>2, IsSeqFacts DEF Printed
  <2>2. LastOf(Printed(u)) \in Nat
    BY <2>1, LastOfFacts
  <2> QED BY <2>2, SubSeqIsSeq DEF TrimRight
<1>3. IsSeq(TrimSpace(s))
  BY <1>1, <1>2 DEF TrimSpace
<1> QED BY <1>1, <1>2, <1>3

(* The numbers listed are in the set and in the range. *)
LEMMA ListedPlaces ==
  ASSUME NEW P, NEW n \in Nat
  PROVE  /\ Len(Places(P, n)) \in Nat
         /\ \A k \in 1 .. Len(Places(P, n)) : Places(P, n)[k] \in P \cap (1 .. n)
<1>1. Places(P, n) \in Seq(P \cap (1 .. n))
  BY PlacesFacts
<1> QED BY <1>1, LenProperties, ElementOfSeq

(* A text is a sequence of lines, and each of them a sequence. *)
LEMMA LinesAreSeqs ==
  ASSUME NEW s, IsSeq(s)
  PROVE  IsSeq(Lines(s)) /\ \A k \in 1 .. Len(Lines(s)) : IsSeq(Lines(s)[k])
<1> DEFINE starts == Places({i \in 1 .. Len(s) : i = 1 \/ s[i - 1].t = "\n"}, Len(s))
           last(k) == IF k = Len(starts) THEN Len(s) ELSE starts[k + 1] - 1
           lines == [k \in 1 .. Len(starts) |-> SubSeq(s, starts[k], last(k))]
<1>1. Len(s) \in Nat
  BY IsSeqFacts
<1>2. Len(starts) \in Nat /\ \A k \in 1 .. Len(starts) : starts[k] \in 1 .. Len(s)
  <2>1. {i \in 1 .. Len(s) : i = 1 \/ s[i - 1].t = "\n"} \cap (1 .. Len(s)) \subseteq 1 .. Len(s)
    OBVIOUS
  <2> QED BY <1>1, <2>1, ListedPlaces
<1> HIDE DEF starts
<1>3. \A k \in 1 .. Len(starts) : starts[k] \in Int /\ last(k) \in Int
  <2> SUFFICES ASSUME NEW k \in 1 .. Len(starts) PROVE starts[k] \in Int /\ last(k) \in Int
    OBVIOUS
  <2>1. k # Len(starts) => k + 1 \in 1 .. Len(starts)
    BY <1>2
  <2> QED BY <1>1, <1>2, <2>1
<1> HIDE DEF last
<1>4. IsSeq(lines) /\ Len(lines) = Len(starts)
  <2>1. lines = [k \in 1 .. Len(starts) |-> lines[k]]
    OBVIOUS
  <2> HIDE DEF lines
  <2> QED BY <1>2, <2>1, BuiltIsSeq
<1>5. \A k \in 1 .. Len(starts) : IsSeq(lines[k])
  BY <1>3, SubSeqIsSeq
<1>6. Lines(s) = lines
  BY DEF Lines, LinesAt, starts, last
<1> QED BY <1>4, <1>5, <1>6

--------------------------------------------------------------------------------
(* The parser *)

(* The fenced lines are taken out line by line. *)
NoneStripped == [out |-> << >>, fence |-> FALSE, before |-> 0, cdata |-> [in |-> FALSE, fenced |-> FALSE]]

LEMMA StripFencedSteps ==
  ASSUME NEW s, IsSeq(s), NEW n \in Nat, n = Len(Lines(s))
  PROVE  \E after : /\ StripFenced(s) = Unfenced(after[n]) /\ after[0] = NoneStripped
                    /\ \A i \in 1 .. n : after[i] = StripLine(after[i - 1], Lines(s)[i])
<1> DEFINE new == NoneStripped
           Body(f) == [i \in 0 .. n |-> IF i = 0 THEN new ELSE StripLine(f[i - 1], Lines(s)[i])]
           after == CHOOSE f : f = Body(f)
           Upto(k, g) == g = [i \in 0 .. k |-> IF i = 0 THEN new ELSE StripLine(g[i - 1], Lines(s)[i])]
           Computed == {k \in Nat : \E g : Upto(k, g)}
<1>2. 0 \in Computed
  <2>1. Upto(0, [i \in 0 .. 0 |-> new])
    OBVIOUS
  <2>2. \E g : Upto(0, g)
    BY <2>1
  <2> HIDE DEF Upto
  <2> QED BY <2>2
<1>3. ASSUME NEW k \in Nat, k \in Computed PROVE k + 1 \in Computed
  <2>1. PICK g : Upto(k, g)
    BY <1>3
  <2> DEFINE h == [i \in 0 .. (k + 1) |-> IF i <= k THEN g[i] ELSE StripLine(g[k], Lines(s)[k + 1])]
  <2>2. ASSUME NEW i \in 0 .. (k + 1) PROVE h[i] = IF i = 0 THEN new ELSE StripLine(h[i - 1], Lines(s)[i])
    <3>1. CASE i <= k
      <4>1. i \in 0 .. k /\ h[i] = g[i] /\ (i # 0 => h[i - 1] = g[i - 1])
        BY <3>1
      <4>2. g[i] = IF i = 0 THEN new ELSE StripLine(g[i - 1], Lines(s)[i])
        BY <2>1, <4>1
      <4> QED BY <4>1, <4>2
    <3>2. CASE ~(i <= k)
      <4>1. i = k + 1 /\ i # 0 /\ h[i] = StripLine(g[k], Lines(s)[k + 1]) /\ h[i - 1] = g[k]
        BY <3>2
      <4> QED BY <4>1
    <3> QED BY <3>1, <3>2
  <2>3. h = [i \in 0 .. (k + 1) |-> h[i]]
    OBVIOUS
  <2> HIDE DEF h, new
  <2>4. Upto(k + 1, h)
    BY <2>2, <2>3
  <2>5. \E f : Upto(k + 1, f)
    BY <2>4
  <2> HIDE DEF Upto
  <2> QED BY <2>5
<1>4. n \in Computed
  <2> HIDE DEF Computed
  <2> QED BY <1>2, <1>3, SetInduction
<1>5. StripFenced(s) = Unfenced(after[n])
  BY DEF StripFenced, NoneStripped
<1>6. after = Body(after)
  <2>1. PICK g : g = Body(g)
    BY <1>4
  <2> HIDE DEF Body
  <2> QED BY <2>1
<1> HIDE DEF after, Upto, Computed
<1>7. after[0] = new /\ \A i \in 1 .. n : after[i] = StripLine(after[i - 1], Lines(s)[i])
  <2>1. 0 \in 0 .. n /\ \A i \in 1 .. n : i \in 0 .. n /\ i # 0
    OBVIOUS
  <2> HIDE DEF new
  <2> QED BY <1>6, <2>1
<1> HIDE DEF Body
<1> QED BY <1>5, <1>7

(* What is left is a sequence. *)
LEMMA StripFencedIsSeq ==
  ASSUME NEW s, IsSeq(s)
  PROVE  IsSeq(StripFenced(s))
<1>1. PICK n \in Nat : n = Len(Lines(s)) /\ \A k \in 1 .. n : IsSeq(Lines(s)[k])
  BY LinesAreSeqs, IsSeqFacts
<1>7. PICK after : /\ StripFenced(s) = Unfenced(after[n]) /\ after[0] = NoneStripped
                   /\ \A i \in 1 .. n : after[i] = StripLine(after[i - 1], Lines(s)[i])
  BY <1>1, StripFencedSteps
<1> DEFINE Sound(a) == DOMAIN a = {"out", "fence", "before", "cdata"} /\ IsSeq(a.out) /\ a.before \in Int
           Done == {i \in Nat : i <= n => Sound(after[i])}
<1>8. 0 \in Done
  BY <1>7, ShortIsSeq DEF NoneStripped
<1>9. ASSUME NEW i \in Nat, i \in Done PROVE i + 1 \in Done
  <2> SUFFICES ASSUME i + 1 <= n PROVE Sound(after[i + 1])
    OBVIOUS
  <2>1. PICK a : a = after[i]
    OBVIOUS
  <2>2. PICK line : line = Lines(s)[i + 1]
    OBVIOUS
  <2>3. Sound(a) /\ IsSeq(line) /\ after[i + 1] = StripLine(a, line)
    <3>1. i + 1 \in 1 .. n /\ (i + 1) - 1 = i /\ i <= n
      BY <1>1
    <3>2. Sound(after[i])
      <4> HIDE DEF Sound
      <4> QED BY <1>9, <3>1
    <3> QED BY <1>1, <1>7, <2>1, <2>2, <3>1, <3>2
  <2>4. IsSeq(a.out \o line) /\ Len(a.out) \in Int
    BY <2>3, ConcatIsSeq, IsSeqFacts
  <2> QED BY <2>3, <2>4 DEF StripLine
<1>10. n \in Done
  <2> HIDE DEF Done
  <2> QED BY <1>1, <1>8, <1>9, SetInduction
<1>11. Sound(after[n])
  BY <1>10
<1>12. PICK a : a = after[n]
  OBVIOUS
<1>13. IsSeq(a.out) /\ a.before \in Int /\ IsSeq(SubSeq(a.out, 1, a.before))
  BY <1>11, <1>12, SubSeqIsSeq
<1> QED BY <1>7, <1>12, <1>13 DEF Unfenced

(* Every tag lies in the text. *)
LEMMA TagsFacts ==
  ASSUME NEW s, IsSeq(s)
  PROVE  /\ IsSeq(Tags(s))
         /\ \A k \in 1 .. Len(Tags(s)) : Tags(s)[k].first \in 1 .. Len(s) /\ Tags(s)[k].last \in Nat
<1> DEFINE P == {i \in 1 .. Len(s) : IsTag(s, i)} \ Ignored(s)
           at == Places(P, Len(s))
           tags == [k \in 1 .. Len(at) |-> [t |-> s[at[k]].t, first |-> at[k], last |-> TagEnd(s, at[k])]]
<1>1. Len(s) \in Nat
  BY IsSeqFacts
<1>2. Len(at) \in Nat /\ \A k \in 1 .. Len(at) : at[k] \in 1 .. Len(s)
  <2> HIDE DEF P
  <2> QED BY <1>1, ListedPlaces
<1> HIDE DEF at
<1>3. IsSeq(tags) /\ Len(tags) = Len(at)
  <2>1. tags = [k \in 1 .. Len(at) |-> tags[k]]
    OBVIOUS
  <2> HIDE DEF tags
  <2> QED BY <1>2, <2>1, BuiltIsSeq
<1>4. \A k \in 1 .. Len(at) : tags[k].first \in 1 .. Len(s) /\ tags[k].last \in Nat
  BY <1>2 DEF TagEnd
<1>5. Tags(s) = tags
  BY DEF Tags, TagsAt, at
<1> QED BY <1>3, <1>4, <1>5

(* Every element lies between two tags. *)
LEMMA ElementsFacts ==
  ASSUME NEW tags, IsSeq(tags), \A k \in 1 .. Len(tags) : tags[k].first \in Nat /\ tags[k].last \in Nat,
         NEW opens, NEW close
  PROVE  /\ IsSeq(Elements(tags, opens, close))
         /\ \A i \in 1 .. Len(Elements(tags, opens, close)) :
              /\ Elements(tags, opens, close)[i].body \in Nat
              /\ Elements(tags, opens, close)[i].close \in Nat
<1> DEFINE upto == [k \in 1 .. Len(tags) |-> IF tags[k].t \in opens THEN MatchClose(tags, k, opens, close) ELSE 0]
           at == Places(Outermost(upto), Len(tags))
           els == [i \in 1 .. Len(at) |-> [open |-> tags[at[i]].first, body |-> tags[at[i]].last + 1,
                                          close |-> tags[upto[at[i]]].first]]
<1>1. Len(tags) \in Nat
  BY IsSeqFacts
<1>2. \A k \in 1 .. Len(tags) : upto[k] # 0 => upto[k] \in 1 .. Len(tags)
  <2> SUFFICES ASSUME NEW k \in 1 .. Len(tags) 
               PROVE  MatchClose(tags, k, opens, close) # 0 => MatchClose(tags, k, opens, close) \in 1 .. Len(tags)
    OBVIOUS
  <2> DEFINE Q == {p \in k + 1 .. Len(tags) :
                     /\ tags[p].t = close
                     /\ Cardinality({q \in k + 1 .. p - 1 : tags[q].t \in opens})
                          = Cardinality({q \in k + 1 .. p - 1 : tags[q].t \in {close}})}
  <2>1. Q \in SUBSET (1 .. Len(tags))
    BY <1>1
  <2>2. MatchClose(tags, k, opens, close) = FirstOf(Q)
    BY DEF MatchClose
  <2> HIDE DEF Q
  <2>3. Q \in SUBSET Nat
    BY <2>1
  <2>4. FirstOf(Q) # 0 => FirstOf(Q) \in Q
    BY <2>3, FirstOfFacts
  <2> QED BY <2>1, <2>2, <2>4
<1>3. Outermost(upto) \subseteq {k \in 1 .. Len(upto) : upto[k] # 0}
  BY DEF Outermost
<1>4. Len(upto) = Len(tags)
  <2>1. upto = [k \in 1 .. Len(tags) |-> upto[k]]
    OBVIOUS
  <2> HIDE DEF upto
  <2> QED BY <1>1, <2>1, BuiltIsSeq
<1>5. /\ Len(at) \in Nat
      /\ \A i \in 1 .. Len(at) : at[i] \in 1 .. Len(tags) /\ upto[at[i]] \in 1 .. Len(tags)
  <2> HIDE DEF upto
  <2>1. Len(at) \in Nat /\ \A i \in 1 .. Len(at) : at[i] \in Outermost(upto) \cap (1 .. Len(tags))
    BY <1>1, ListedPlaces
  <2> HIDE DEF at
  <2> QED BY <1>2, <1>3, <1>4, <2>1
<1> HIDE DEF at, upto
<1>6. IsSeq(els) /\ Len(els) = Len(at)
  <2>1. els = [i \in 1 .. Len(at) |-> els[i]]
    OBVIOUS
  <2> HIDE DEF els
  <2> QED BY <1>5, <2>1, BuiltIsSeq
<1>7. \A i \in 1 .. Len(at) : els[i].body \in Nat /\ els[i].close \in Nat
  BY <1>5
<1>8. Elements(tags, opens, close) = els
  <2>1. Elements(tags, opens, close) = ElementsOf(tags, upto)
    BY DEF Elements, upto
  <2> QED BY <2>1 DEF ElementsOf, ElementsAt, at
<1> QED BY <1>6, <1>7, <1>8

(* The invokes of a text, wrapped or not, are a sequence. *)
LEMMA InvokesAreSeqs ==
  ASSUME NEW s, IsSeq(s)
  PROVE  IsSeq(XMLInvokes(s))
<1>1. ASSUME NEW body, IsSeq(body) PROVE IsSeq(InvokesIn(body))
  <2> DEFINE els == Elements(Tags(body), Invokes, "</invoke>")
             found == [i \in 1 .. Len(els) |-> Invoked(body, els[i])]
  <2>1. IsSeq(Tags(body)) /\ \A k \in 1 .. Len(Tags(body)) : Tags(body)[k].first \in Nat /\ Tags(body)[k].last \in Nat
    BY <1>1, TagsFacts
  <2>2. IsSeq(els)
    BY <2>1, ElementsFacts
  <2> HIDE DEF els
  <2>3. Len(els) \in Nat /\ found = [i \in 1 .. Len(els) |-> found[i]]
    BY <2>2, IsSeqFacts
  <2> HIDE DEF found
  <2>4. IsSeq(found)
    BY <2>3, BuiltIsSeq
  <2> QED BY <2>4 DEF found, els, InvokesIn, InvokedAll
<1>2. ASSUME NEW u, IsSeq(u) PROVE IsSeq(Wrapped(u))
  <2> DEFINE w == Wrappers(u)
             found == [i \in 1 .. Len(w) |-> InvokesIn(SubSeq(u, w[i].body, w[i].close - 1))]
  <2>1. IsSeq(Tags(u)) /\ \A k \in 1 .. Len(Tags(u)) : Tags(u)[k].first \in Nat /\ Tags(u)[k].last \in Nat
    BY <1>2, TagsFacts
  <2>2. IsSeq(w) /\ \A i \in 1 .. Len(w) : w[i].body \in Nat /\ w[i].close \in Nat
    BY <2>1, ElementsFacts DEF Wrappers
  <2> HIDE DEF w
  <2>3. \A i \in 1 .. Len(w) : IsSeq(found[i])
    <3> SUFFICES ASSUME NEW i \in 1 .. Len(w) PROVE IsSeq(InvokesIn(SubSeq(u, w[i].body, w[i].close - 1)))
      OBVIOUS
    <3>1. w[i].body \in Int /\ w[i].close - 1 \in Int
      BY <2>2
    <3>2. IsSeq(SubSeq(u, w[i].body, w[i].close - 1))
      BY <3>1, SubSeqIsSeq
    <3> QED BY <3>2, <1>1
  <2>4. Len(w) \in Nat /\ found = [i \in 1 .. Len(w) |-> found[i]]
    BY <2>2, IsSeqFacts
  <2> HIDE DEF found
  <2>5. IsSeq(found) /\ Len(found) = Len(w)
    BY <2>4, BuiltIsSeq
  <2>6. IsSeq(FlattenSeq(found))
    BY <2>3, <2>5, FlattenFacts
  <2> QED BY <2>6 DEF found, w, Wrapped, InvokesOf
<1>3. IsSeq(RepairOpening(s))
  <2> DEFINE inv == FirstKind(s, Invokes)
             new == <<Inserted("<tool_calls"), Inserted(">")>>
  <2>1. Len(s) \in Nat
    BY IsSeqFacts
  <2>2. inv \in Nat
    <3>1. {i \in 1 .. Len(s) : s[i].t \in Invokes} \in SUBSET Nat
      OBVIOUS
    <3> QED BY <3>1, FirstOfFacts DEF FirstKind, FirstAt
  <2> HIDE DEF inv
  <2>3. IsSeq(SubSeq(s, 1, inv - 1)) /\ IsSeq(new) /\ IsSeq(TextFrom(s, inv))
    BY <2>2, SubSeqIsSeq, ShortIsSeq, TextFromIsSeq
  <2> HIDE DEF new
  <2>4. IsSeq(SubSeq(s, 1, inv - 1) \o new \o TextFrom(s, inv))
    BY <2>3, ConcatIsSeq
  <2> QED BY <2>4 DEF RepairOpening, inv, new
<1> QED BY <1>2, <1>3 DEF XMLInvokes

(* A call the reply may hold: of an offered tool, of an implicit one, or of *)
(* a dialect that is read with a tool of its own.                          *)
MayCall(call, offered) ==
  \/ offered = {} \/ AnyTool \in offered
  \/ call.t \in offered \union Implicit \union {"shell fence", "minimax"}
CallsOf(calls, offered) ==
  IsSeq(calls) /\ \A i \in 1 .. Len(calls) : MayCall(calls[i], offered)

(* No call is made of a tool that is neither offered nor implicit. *)
LEMMA CanonicalCalls ==
  ASSUME NEW invokes, IsSeq(invokes), NEW offered
  PROVE  IsSeq(Calls(invokes)) /\ CallsOf(Canonical(Calls(invokes), WithImplicit(offered)), offered)
<1> DEFINE kept == Picked(invokes, {i \in 1 .. Len(invokes) : invokes[i].meant})
           calls == [i \in 1 .. Len(kept) |-> kept[i].call]
           all == WithImplicit(offered)
           P == {i \in 1 .. Len(calls) : all = {} \/ AnyTool \in all \/ calls[i].t \in all}
<1>1. IsSeq(kept)
  BY PickedFacts
<1> HIDE DEF kept
<1>2. Len(kept) \in Nat /\ calls = [i \in 1 .. Len(kept) |-> calls[i]]
  BY <1>1, IsSeqFacts
<1>3. Calls(invokes) = calls
  BY DEF Calls, kept
<1> HIDE DEF calls
<1>4. IsSeq(calls)
  BY <1>2, BuiltIsSeq
<1>5. Canonical(calls, all) = Picked(calls, P)
  BY DEF Canonical
<1> DEFINE got == Picked(calls, P)
<1>6. IsSeq(got) /\ \A k \in 1 .. Len(got) : \E i \in P \cap (1 .. Len(calls)) : got[k] = calls[i]
  <2> HIDE DEF P
  <2> QED BY <1>4, PickedFacts
<1> HIDE DEF got
<1>7. \A k \in 1 .. Len(got) : MayCall(got[k], offered)
  BY <1>6 DEF MayCall, WithImplicit, Implicit, AnyTool
<1> QED BY <1>3, <1>4, <1>5, <1>6, <1>7 DEF CallsOf, got

(* The other dialects are read in order, each with its own tool. *)
LEMMA OtherCalls ==
  ASSUME NEW s, IsSeq(s), NEW offered
  PROVE  CallsOf(MultiFormat(s), offered)
<1>1. CallsOf(MinimaxCalls(s), offered)
  <2> DEFINE upto == [i \in 1 .. Len(s) |->
                        IF i \in MinimaxStarts(s) THEN FirstAt(s, i, {"</minimaxtool_call>"}) ELSE 0]
             at == Places(Outermost(upto), Len(s))
             blocks == [k \in 1 .. Len(at) |-> [open |-> at[k], close |-> upto[at[k]]]]
             calls == [i \in 1 .. Len(blocks) |-> s[blocks[i].open]]
  <2>1. Len(s) \in Nat
    BY IsSeqFacts
  <2>2. Outermost(upto) \subseteq {k \in 1 .. Len(upto) : upto[k] # 0}
    BY DEF Outermost
  <2>3. \A k \in 1 .. Len(s) : upto[k] # 0 => s[k].t = "minimax"
    BY DEF MinimaxStarts, IsMarker, Kind
  <2>4. Len(upto) = Len(s)
    <3>1. upto = [k \in 1 .. Len(s) |-> upto[k]]
      OBVIOUS
    <3> HIDE DEF upto
    <3> QED BY <2>1, <3>1, BuiltIsSeq
  <2> HIDE DEF upto
  <2>5. Len(at) \in Nat /\ \A k \in 1 .. Len(at) : at[k] \in Outermost(upto) \cap (1 .. Len(s))
    BY <2>1, ListedPlaces
  <2> HIDE DEF at
  <2>6. Len(blocks) = Len(at) /\ \A k \in 1 .. Len(at) : blocks[k].open = at[k]
    <3>1. blocks = [k \in 1 .. Len(at) |-> blocks[k]] /\ \A k \in 1 .. Len(at) : blocks[k].open = at[k]
      OBVIOUS
    <3> HIDE DEF blocks
    <3> QED BY <2>5, <3>1, BuiltIsSeq
  <2>7. MinimaxBlocks(s) = blocks
    <3>1. MinimaxBlocks(s) = BlocksOf(upto)
      BY DEF MinimaxBlocks, upto
    <3> QED BY <2>4, <3>1 DEF BlocksOf, BlocksAt, at
  <2> HIDE DEF blocks
  <2>8. MinimaxCalls(s) = calls
    BY <2>7 DEF MinimaxCalls, Openers
  <2>9. \A i \in 1 .. Len(at) : calls[i].t = "minimax"
    BY <2>2, <2>3, <2>4, <2>5, <2>6
  <2>10. IsSeq(calls) /\ Len(calls) = Len(at)
    <3>1. calls = [i \in 1 .. Len(at) |-> calls[i]]
      BY <2>6
    <3> HIDE DEF calls
    <3> QED BY <2>5, <3>1, BuiltIsSeq
  <2> QED BY <2>8, <2>9, <2>10 DEF CallsOf, MayCall
<1>2. ASSUME NEW lines, IsSeq(lines) PROVE CallsOf(ShellCalls(lines), offered)
  <2> DEFINE upto == [k \in 1 .. Len(lines) |->
                        IF Kind(TrimLeft(lines[k]), 1) = "shell fence"
                        THEN FirstOf({j \in k + 1 .. Len(lines) : ClosesFence(lines[j])}) ELSE 0]
             bodied == {k \in Outermost(upto) : ~IsBlank(FlattenSeq(SubSeq(lines, k + 1, upto[k] - 1)))}
             at == Places(bodied, Len(lines))
             calls == [i \in 1 .. Len(at) |-> TrimLeft(lines[at[i]])[1]]
  <2>1. Len(lines) \in Nat
    BY <1>2, IsSeqFacts
  <2>2. bodied \subseteq {k \in 1 .. Len(upto) : upto[k] # 0}
    BY DEF Outermost
  <2>3. \A k \in 1 .. Len(lines) : upto[k] # 0 => TrimLeft(lines[k])[1].t = "shell fence"
    BY DEF Kind
  <2>4. Len(upto) = Len(lines)
    <3>1. upto = [k \in 1 .. Len(lines) |-> upto[k]]
      OBVIOUS
    <3> HIDE DEF upto
    <3> QED BY <2>1, <3>1, BuiltIsSeq
  <2> HIDE DEF upto, bodied
  <2>5. Len(at) \in Nat /\ \A k \in 1 .. Len(at) : at[k] \in bodied \cap (1 .. Len(lines))
    BY <2>1, ListedPlaces
  <2> HIDE DEF at
  <2>6. \A i \in 1 .. Len(at) : calls[i].t = "shell fence"
    BY <2>2, <2>3, <2>4, <2>5
  <2>7. ShellCalls(lines) = calls
    BY DEF ShellCalls, at, bodied, upto
  <2>8. IsSeq(calls) /\ Len(calls) = Len(at)
    <3>1. calls = [i \in 1 .. Len(at) |-> calls[i]]
      OBVIOUS
    <3> HIDE DEF calls
    <3> QED BY <2>5, <3>1, BuiltIsSeq
  <2> QED BY <2>6, <2>7, <2>8 DEF CallsOf, MayCall
<1>3. IsSeq(Lines(s))
  BY LinesAreSeqs
<1> QED BY <1>1, <1>2, <1>3 DEF MultiFormat, OrElse

(* A text without its open CDATA section is a text. *)
LEMMA SanitizedIsSeq ==
  ASSUME NEW s, IsSeq(s)
  PROVE  IsSeq(SanitizeLooseCDATA(s))
<1> DEFINE last == LastOf({i \in 1 .. Len(s) : s[i].t = "]]>"})
           open == FirstAt(s, last + 1, {"<![CDATA["})
<1>1. Len(s) \in Nat
  BY IsSeqFacts
<1>2. last \in Nat
  <2>1. {i \in 1 .. Len(s) : s[i].t = "]]>"} \in SUBSET (1 .. Len(s))
    OBVIOUS
  <2> QED BY <1>1, <2>1, LastOfFacts
<1> HIDE DEF last
<1>3. open \in Nat
  <2>1. {i \in last + 1 .. Len(s) : s[i].t \in {"<![CDATA["}} \in SUBSET Nat
    BY <1>2
  <2> QED BY <2>1, FirstOfFacts DEF FirstAt
<1> HIDE DEF open
<1>4. IsSeq(RemoveAt(s, open))
  <2>1. open - 1 \in Int /\ open + 1 \in Int /\ 1 \in Int
    BY <1>3
  <2>2. IsSeq(SubSeq(s, 1, open - 1)) /\ IsSeq(SubSeq(s, open + 1, Len(s)))
    BY <1>1, <2>1, SubSeqIsSeq
  <2> QED BY <2>2, ConcatIsSeq DEF RemoveAt
<1> QED BY <1>4 DEF SanitizeLooseCDATA, open, last

(* What the parser finds in a text, all dialects. *)
LEMMA ParsedCalls ==
  ASSUME NEW s, IsSeq(s), NEW offered
  PROVE  CallsOf(ParseStandalone(s, offered).calls, offered)
<1>1. ASSUME NEW u, IsSeq(u) PROVE IsSeq(ReadXML(u))
  <2>1. IsSeq(SanitizeLooseCDATA(u))
    BY <1>1, SanitizedIsSeq
  <2> QED BY <1>1, <2>1, InvokesAreSeqs DEF ReadXML, OrLoose
<1>2. ASSUME NEW u, IsSeq(u) PROVE IsSeq(XMLOnly(u))
  BY <1>1, <1>2, StripFencedIsSeq, TrimIsSeq DEF XMLOnly
<1>3. IsSeq(TrimSpace(s))
  BY TrimIsSeq
<1> DEFINE u == TrimSpace(s)
<1> HIDE DEF u
<1>4. IsSeq(XMLOnly(u)) /\ CallsOf(MultiFormat(u), offered)
  BY <1>2, <1>3, OtherCalls DEF u
<1>5. CallsOf(Canonical(Calls(XMLOnly(u)), WithImplicit(offered)), offered)
  BY <1>4, CanonicalCalls
<1>6. CallsOf(<< >>, offered)
  BY ShortIsSeq DEF CallsOf
<1> QED BY <1>4, <1>5, <1>6 DEF ParseStandalone, ParseTrimmed, FirstReading, u

--------------------------------------------------------------------------------
(* The sieve *)

SieveFields == {"pending", "capture", "capturing", "ready", "fenced", "ticks", "lineStart"}
SieveOk(st, offered) ==
  DOMAIN st = SieveFields /\ IsSeq(st.pending) /\ IsSeq(st.capture) /\ CallsOf(st.ready, offered)
EventsOk(out, offered) == IsSeq(out) /\ \A i \in 1 .. Len(out) : CallsOf(out[i].calls, offered)
CutOk(r, offered) == IsSeq(r.suffix) /\ CallsOf(r.calls, offered)

(* No calls at all are calls that may be made. *)
LEMMA NoCalls == \A offered : CallsOf(<< >>, offered)
BY ShortIsSeq DEF CallsOf

(* Text of the fence state leaves the buffers alone. *)
LEMMA NoteTextKeeps ==
  ASSUME NEW st, NEW offered, SieveOk(st, offered), NEW s
  PROVE  /\ DOMAIN NoteText(st, s) = SieveFields
         /\ NoteText(st, s).pending = st.pending /\ NoteText(st, s).capture = st.capture
         /\ NoteText(st, s).ready = st.ready
<1> DEFINE f == Simulate(st, s)
<1> HIDE DEF f
<1>1. NoteText(st, s) = IF IsBlank(s) THEN st
                        ELSE [st EXCEPT !.fenced = f.fenced, !.ticks = f.ticks, !.lineStart = f.lineStart]
  BY DEF NoteText, f
<1> QED BY <1>1 DEF SieveOk, SieveFields

(* A block that is cut out of a text leaves a text. *)
LEMMA BlockAtOk ==
  ASSUME NEW s, IsSeq(s), NEW p \in Nat, NEW e \in Nat, NEW opening, IsSeq(opening), NEW offered
  PROVE  CutOk(BlockAt(s, p, e, opening, offered), offered)
<1>1. PICK parsed : parsed = ParseStandalone(opening \o SubSeq(s, p, e), offered)
  OBVIOUS
<1>2. CallsOf(parsed.calls, offered)
  <2>1. IsSeq(opening \o SubSeq(s, p, e))
    BY SubSeqIsSeq, ConcatIsSeq
  <2> QED BY <1>1, <2>1, ParsedCalls
<1> DEFINE prefix == SubSeq(s, 1, p - 1)
           suffix == TextFrom(s, e + 1)
<1>3. IsSeq(suffix)
  BY TextFromIsSeq
<1>4. BlockAt(s, p, e, opening, offered) = BlockOf(s, p, e, parsed)
  BY <1>1 DEF BlockAt
<1> HIDE DEF prefix, suffix
<1>5. ASSUME NEW before PROVE CutOk(AsText(before, suffix), offered)
  BY <1>3, NoCalls DEF AsText, CutOk
<1>6. CutOk(AsCalls(prefix, parsed.calls, suffix), offered)
  <2> DEFINE q == TrimLeft(suffix)
             new == [q[1] EXCEPT !.t = "word"]
  <2>1. IsSeq(q)
    BY <1>3, TrimIsSeq
  <2>2. Kind(q, 1) \in FenceOpens => q # << >>
    <3>1. Kind(q, 1) \in FenceOpens => 1 \in 1 .. Len(q)
      BY DEF Kind, FenceOpens
    <3> QED BY <2>1, <3>1, IsSeqFacts
  <2>3. q # << >> => IsSeq(Tail(q))
    <3>1. q \in Seq(Entries(q))
      BY <2>1 DEF IsSeq
    <3>2. q # << >> => Tail(q) \in Seq(Entries(q))
      BY <3>1, HeadTailProperties
    <3> QED BY <3>2, SeqIsSeq
  <2>4. q # << >> => IsSeq(<<new>> \o Tail(q))
    BY <2>3, ShortIsSeq, ConcatIsSeq
  <2> HIDE DEF q
  <2>5. IsSeq(TrimWrappingFence(prefix, suffix).suffix)
    BY <1>3, <2>2, <2>3, <2>4 DEF TrimWrappingFence, q
  <2> QED BY <1>2, <2>5 DEF AsCalls, CutOk
<1> QED BY <1>4, <1>5, <1>6 DEF BlockOf, prefix, suffix

(* What a capture has become, the wrapped blocks first. *)
LEMMA ConsumeXMLOk ==
  ASSUME NEW s, IsSeq(s), NEW offered
  PROVE  CutOk(ConsumeXML(s, offered), offered)
<1>1. PICK tags : tags = Tags(s)
  OBVIOUS
<1>2. /\ IsSeq(tags) /\ Len(tags) \in Nat
      /\ \A k \in 1 .. Len(tags) : tags[k].first \in Nat /\ tags[k].last \in Nat
  BY <1>1, TagsFacts, IsSeqFacts
<1>3. ASSUME NEW k \in Nat, NEW kinds
      PROVE  FindTagOf(tags, k, kinds) \in Nat /\ (FindTagOf(tags, k, kinds) # 0 => FindTagOf(tags, k, kinds) \in k .. Len(tags))
  <2> DEFINE P == {i \in k .. Len(tags) : tags[i].t \in kinds}
  <2>1. P \in SUBSET Nat
    OBVIOUS
  <2>2. FindTagOf(tags, k, kinds) = FirstOf(P)
    BY DEF FindTagOf, FirstAt
  <2>3. P \subseteq k .. Len(tags)
    OBVIOUS
  <2> HIDE DEF P
  <2> QED BY <2>1, <2>2, <2>3, FirstOfFacts
<1>4. CutOk(NotReady, offered)
  BY NoCalls, ShortIsSeq DEF NotReady, CutOk
<1>5. CutOk(BareInvoke(s, tags, offered), offered)
  <2> DEFINE inv == FindTagOf(tags, 1, Invokes)
             wrapper == FindTagOf(tags, 1, {"<tool_calls"})
             close == FindTagOf(tags, inv + 1, {"</tool_calls>"})
             opening == <<Inserted("<tool_calls"), Inserted(">")>>
  <2>1. inv \in Nat /\ (inv # 0 => inv \in 1 .. Len(tags))
    BY <1>3
  <2> HIDE DEF inv
  <2>2. inv + 1 \in Nat /\ inv + 1 # 0
    BY <2>1
  <2>3. close # 0 => close \in 1 .. Len(tags)
    <3>1. close # 0 => close \in inv + 1 .. Len(tags)
      BY <1>3, <2>2
    <3> HIDE DEF close
    <3> QED BY <2>1, <3>1
  <2> HIDE DEF close, wrapper
  <2>4. IsSeq(opening)
    BY ShortIsSeq
  <2>5. BareInvoke(s, tags, offered) =
          IF inv = 0 \/ close = 0 \/ (wrapper # 0 /\ wrapper <= inv) THEN NotReady
          ELSE BlockAt(s, tags[inv].first, tags[close].last, opening, offered)
    BY DEF BareInvoke, inv, close, wrapper
  <2> HIDE DEF opening
  <2>6. ASSUME inv # 0, close # 0 PROVE CutOk(BlockAt(s, tags[inv].first, tags[close].last, opening, offered), offered)
    <3>1. tags[inv].first \in Nat /\ tags[close].last \in Nat
      BY <1>2, <2>1, <2>3, <2>6
    <3> QED BY <2>4, <3>1, BlockAtOk
  <2> QED BY <1>4, <2>5, <2>6
<1>6. PICK blocks : blocks = ClosedBlocks(s, tags, offered)
  OBVIOUS
<1>7. DOMAIN blocks \in SUBSET Nat /\ \A k \in DOMAIN blocks : CutOk(blocks[k], offered)
  <2> DEFINE D == {w \in WrapperTags(tags) : CloseOf(tags, w) # 0}
  <2>1. \A k \in D : k \in 1 .. Len(tags) /\ CloseOf(tags, k) \in 1 .. Len(tags)
    <3> SUFFICES ASSUME NEW k \in D PROVE k \in 1 .. Len(tags) /\ CloseOf(tags, k) \in 1 .. Len(tags)
      OBVIOUS
    <3>1. k \in 1 .. Len(tags)
      BY DEF WrapperTags
    <3> DEFINE Q == {q \in k + 1 .. Len(tags) :
                       /\ tags[q].t = "</tool_calls>"
                       /\ Cardinality({j \in k + 1 .. q - 1 : tags[j].t \in {"<tool_calls"}})
                            = Cardinality({j \in k + 1 .. q - 1 : tags[j].t \in {"</tool_calls>"}})}
    <3>2. CloseOf(tags, k) = FirstOf(Q)
      BY DEF CloseOf, MatchClose
    <3>3. Q \in SUBSET (1 .. Len(tags)) /\ CloseOf(tags, k) # 0
      BY <1>2, <3>1
    <3> HIDE DEF Q
    <3>4. Q \in SUBSET Nat
      BY <3>3
    <3>5. FirstOf(Q) \in Q
      BY <3>2, <3>3, <3>4, FirstOfFacts
    <3> QED BY <3>1, <3>2, <3>3, <3>5
  <2>2. blocks = [k \in D |-> BlockAt(s, tags[k].first, tags[CloseOf(tags, k)].last, << >>, offered)]
    BY <1>6 DEF ClosedBlocks
  <2> HIDE DEF D
  <2>3. D \in SUBSET Nat
    BY <2>1
  <2>4. ASSUME NEW k \in D PROVE CutOk(BlockAt(s, tags[k].first, tags[CloseOf(tags, k)].last, << >>, offered), offered)
    <3>1. tags[k].first \in Nat /\ tags[CloseOf(tags, k)].last \in Nat
      BY <1>2, <2>1
    <3>2. IsSeq(<< >>)
      BY ShortIsSeq
    <3> QED BY <3>1, <3>2, BlockAtOk
  <2> QED BY <2>2, <2>3, <2>4
<1>8. ASSUME NEW P \in SUBSET (DOMAIN blocks), P # {} PROVE Min(P) \in DOMAIN blocks
  <2>1. P \in SUBSET Nat
    BY <1>7
  <2>2. \E x \in P : \A y \in P : x =< y
    BY <1>8, <2>1, NatLeast
  <2>3. Min(P) \in P
    BY <2>2 DEF Min
  <2> QED BY <2>3
<1>9. CutOk(ConsumeWrapped(blocks, HasOpenWrapper(tags), BareInvoke(s, tags, offered)), offered)
  <2> DEFINE parsed == {k \in DOMAIN blocks : blocks[k].calls # << >>}
  <2>1. parsed # {} => Min(parsed) \in DOMAIN blocks
    BY <1>8
  <2>2. DOMAIN blocks # {} => Min(DOMAIN blocks) \in DOMAIN blocks
    BY <1>8
  <2> HIDE DEF parsed
  <2> QED BY <1>4, <1>5, <1>7, <2>1, <2>2 DEF ConsumeWrapped, parsed
<1> QED BY <1>1, <1>6, <1>9 DEF ConsumeXML, ConsumeTags

(* A capture that is consumed leaves a text, and calls that may be made. *)
LEMMA ConsumeCaptureOk ==
  ASSUME NEW s, IsSeq(s), NEW offered
  PROVE  CutOk(ConsumeCapture(s, offered), offered)
<1>1. CutOk(ConsumeXML(s, offered), offered)
  BY ConsumeXMLOk
<1>2. CallsOf(ParseStandalone(s, offered).calls, offered)
  BY ParsedCalls
<1>3. IsSeq(<< >>) /\ CallsOf(<< >>, offered)
  BY ShortIsSeq, NoCalls
<1> DEFINE calls == ParseStandalone(s, offered).calls
           xml == ConsumeXML(s, offered)
<1> HIDE DEF calls, xml
<1>4. CutOk(Consumed(s, xml, calls), offered)
  BY <1>1, <1>2, <1>3 DEF Consumed, CutOk, NotReady, AsText, calls, xml
<1> QED BY <1>4 DEF ConsumeCapture, calls, xml

(* Where a block starts is a place. *)
LEMMA SegmentStart ==
  ASSUME NEW st, NEW s, IsSeq(s)
  PROVE  FindToolSegmentStart(st, s) \in Nat
<1>1. Len(s) \in Nat
  BY IsSeqFacts
<1>2. FindMinimaxMarker(st, s) \in Nat
  <2> DEFINE P == {i \in MinimaxStarts(s) : ~InsideFence(st, SubSeq(s, 1, i - 1))}
  <2>1. P \in SUBSET Nat
    BY DEF MinimaxStarts
  <2> HIDE DEF P
  <2> QED BY <2>1, FirstOfFacts DEF FindMinimaxMarker, P
<1>3. FindShellFence(st, s) \in Nat
  <2> DEFINE starts == {LineStart(s, i) : i \in {j \in 1 .. Len(s) : s[j].t = "shell fence"}} \ {0}
             P == {i \in starts : ~InsideFence(st, SubSeq(s, 1, i - 1))}
  <2>1. ASSUME NEW i \in 1 .. Len(s) PROVE LineStart(s, i) \in Nat
    <3> DEFINE Q == {j \in 1 .. i - 1 : s[j].t # " "}
    <3>1. Q \in SUBSET (1 .. i - 1)
      BY Zenon
    <3>2. LineStart(s, i) = IF LastOf(Q) = 0 \/ Kind(s, LastOf(Q)) = "\n" THEN LastOf(Q) + 1 ELSE 0
      BY Zenon DEF LineStart
    <3> HIDE DEF Q
    <3>3. i - 1 \in Nat
      OBVIOUS
    <3>4. LastOf(Q) \in Nat
      BY <3>1, <3>3, LastOfFacts
    <3> QED BY <3>2, <3>4
  <2>2. P \in SUBSET Nat
    BY <2>1
  <2> HIDE DEF P
  <2>3. FirstOf(P) \in Nat
    BY <2>2, FirstOfFacts
  <2> QED BY <2>3 DEF FindShellFence, P
<1>4. FindTagOutsideFence(st, s) \in Nat
  <2> DEFINE outside == {t \in ToSet(Tags(s)) : ~InsideFence(st, SubSeq(s, 1, t.first - 1))}
             P == {tag.first : tag \in outside}
  <2>1. \A t \in ToSet(Tags(s)) : t.first \in Nat
    <3>1. DOMAIN Tags(s) = 1 .. Len(Tags(s))
      BY TagsFacts, IsSeqFacts
    <3> QED BY <3>1, TagsFacts DEF ToSet
  <2>2. P \in SUBSET Nat
    BY <2>1
  <2> HIDE DEF P
  <2>3. FirstOf(P) \in Nat
    BY <2>2, FirstOfFacts
  <2> QED BY <2>3 DEF FindTagOutsideFence, P
<1> QED BY <1>2, <1>3, <1>4 DEF FindToolSegmentStart, FirstFound

RoundOk(r, offered) == DOMAIN r = {"st", "out", "more"} /\ SieveOk(r.st, offered) /\ EventsOk(r.out, offered)

(* Text that is handed out makes no call. *)
LEMMA TextOk ==
  ASSUME NEW s, NEW offered
  PROVE  EventsOk(Text(s), offered)
<1>1. CallsOf(Content(s).calls, offered)
  BY NoCalls DEF Content
<1>2. IsSeq(<<Content(s)>>) /\ Len(<<Content(s)>>) = 1 /\ <<Content(s)>>[1] = Content(s) /\ IsSeq(<< >>) /\ Len(<< >>) = 0
  BY ShortIsSeq
<1> DEFINE c == Content(s)
<1> HIDE DEF c
<1>3. EventsOk(<<c>>, offered) /\ EventsOk(<< >>, offered)
  BY <1>1, <1>2 DEF EventsOk, c
<1> QED BY <1>3 DEF Text, c

(* Events handed out one after another. *)
LEMMA EventsTogether ==
  ASSUME NEW a, NEW b, NEW offered, EventsOk(a, offered), EventsOk(b, offered)
  PROVE  EventsOk(a \o b, offered)
<1>1. /\ IsSeq(a \o b) /\ Len(a \o b) = Len(a) + Len(b) /\ Len(a) \in Nat /\ Len(b) \in Nat
      /\ \A i \in 1 .. Len(a) : (a \o b)[i] = a[i]
      /\ \A i \in 1 .. Len(b) : (a \o b)[Len(a) + i] = b[i]
  BY ConcatIsSeq, IsSeqFacts DEF EventsOk
<1>2. ASSUME NEW i \in 1 .. Len(a \o b) PROVE CallsOf((a \o b)[i].calls, offered)
  <2>1. CASE i <= Len(a)
    <3>1. i \in 1 .. Len(a)
      BY <1>1, <2>1
    <3> QED BY <1>1, <3>1 DEF EventsOk
  <2>2. CASE ~(i <= Len(a))
    <3>1. i - Len(a) \in 1 .. Len(b) /\ Len(a) + (i - Len(a)) = i
      BY <1>1, <2>2
    <3>2. (a \o b)[i] = b[i - Len(a)]
      BY <1>1, <3>1
    <3> QED BY <3>1, <3>2 DEF EventsOk
  <2> QED BY <2>1, <2>2
<1> QED BY <1>1, <1>2 DEF EventsOk

(* One round of the loop. *)
LEMMA RoundKeeps ==
  ASSUME NEW st, NEW offered, SieveOk(st, offered)
  PROVE  RoundOk(Round(st, offered), offered)
<1>1. PICK s : s = st.capture \o st.pending
  OBVIOUS
<1>2. IsSeq(s)
  BY <1>1, ConcatIsSeq DEF SieveOk
<1>3. IsSeq(<< >>) /\ CallsOf(<< >>, offered)
  BY ShortIsSeq, NoCalls
<1>4. RoundOk([st |-> st, out |-> << >>, more |-> FALSE], offered)
  <2>1. EventsOk(<< >>, offered)
    BY ShortIsSeq DEF EventsOk
  <2> QED BY <2>1 DEF RoundOk
<1>5. ASSUME NEW r, CutOk(r, offered) PROVE RoundOk(AfterCapture(st, s, r), offered)
  <2> DEFINE noted == IF r.prefix = << >> THEN st ELSE NoteText(st, r.prefix)
             next == [noted EXCEPT !.capture = << >>, !.capturing = FALSE, !.pending = r.suffix,
                                   !.ready = IF r.calls # << >> THEN r.calls ELSE @]
             held == [st EXCEPT !.capture = s, !.pending = << >>]
  <2>1. DOMAIN noted = SieveFields /\ noted.ready = st.ready
    BY NoteTextKeeps DEF SieveOk
  <2> HIDE DEF noted
  <2>2. SieveOk(next, offered)
    BY <1>3, <1>5, <2>1 DEF SieveOk, CutOk, SieveFields
  <2>3. SieveOk(held, offered)
    BY <1>2, <1>3 DEF SieveOk, SieveFields
  <2>4. EventsOk(Text(r.prefix), offered) /\ EventsOk(<< >>, offered)
    <3>1. EventsOk(<< >>, offered)
      BY ShortIsSeq DEF EventsOk
    <3> QED BY <3>1, TextOk
  <2> HIDE DEF next, held
  <2> QED BY <2>2, <2>3, <2>4 DEF AfterCapture, RoundOk, next, noted, held
<1>6. ASSUME NEW start \in Nat, NEW safe, IsSeq(safe) PROVE RoundOk(AfterText(st, s, start, safe), offered)
  <2> DEFINE before == SubSeq(s, 1, start - 1)
             noted == NoteText(st, before)
             passed == NoteText(st, safe)
             captures == [noted EXCEPT !.pending = << >>, !.capture = TextFrom(s, start), !.capturing = TRUE]
             passes == [passed EXCEPT !.pending = TextFrom(s, Len(safe) + 1)]
  <2>1. IsSeq(TextFrom(s, start))
    BY <1>2, TextFromIsSeq
  <2>2. IsSeq(TextFrom(s, Len(safe) + 1))
    <3>1. Len(safe) + 1 \in Int
      BY <1>6, IsSeqFacts
    <3> QED BY <1>2, <3>1, TextFromIsSeq
  <2>3. DOMAIN noted = SieveFields /\ noted.ready = st.ready
    BY NoteTextKeeps
  <2>4. DOMAIN passed = SieveFields /\ passed.ready = st.ready /\ passed.capture = st.capture
    BY NoteTextKeeps
  <2>5. EventsOk(Text(before), offered) /\ EventsOk(Text(safe), offered)
    BY TextOk
  <2>6. AfterText(st, s, start, safe) =
          IF s = << >> \/ (start = 0 /\ safe = << >>) THEN [st |-> st, out |-> << >>, more |-> FALSE]
          ELSE IF start # 0 THEN [st |-> captures, out |-> Text(before), more |-> TRUE]
          ELSE [st |-> passes, out |-> Text(safe), more |-> TRUE]
    BY DEF AfterText
  <2> HIDE DEF before, noted, passed
  <2>7. SieveOk(captures, offered)
    BY <1>3, <2>1, <2>3 DEF SieveOk, SieveFields
  <2>8. SieveOk(passes, offered)
    BY <2>2, <2>4 DEF SieveOk, SieveFields
  <2> HIDE DEF captures, passes
  <2> QED BY <1>4, <2>5, <2>6, <2>7, <2>8 DEF RoundOk
<1>7. CutOk(ConsumeCapture(s, offered), offered)
  BY <1>2, ConsumeCaptureOk
<1>8. FindToolSegmentStart(st, s) \in Nat
  BY <1>2, SegmentStart
<1>9. IsSeq(SubSeq(s, 1, Len(s) - Held(st, s)))
  <2>1. Held(st, s) \in Int
    BY DEF Held
  <2>2. Len(s) - Held(st, s) \in Int
    BY <1>2, <2>1, IsSeqFacts
  <2> QED BY <2>2, SubSeqIsSeq
<1> QED BY <1>1, <1>5, <1>6, <1>7, <1>8, <1>9 DEF Round, RoundOn

(* The loop, round by round. *)
LEMMA DrainSteps ==
  ASSUME NEW st, IsSeq(st.capture), IsSeq(st.pending), NEW offered, NEW out
  PROVE  \E n \in Nat : \E rounds :
           /\ Drain(st, offered, out) = [st |-> rounds[n].st, out |-> rounds[n].out]
           /\ rounds[0] = [st |-> st, out |-> out, more |-> TRUE]
           /\ \A i \in 1 .. n : rounds[i] = NextRound(rounds[i - 1], offered)
<1> DEFINE n == MaxRounds(st)
           new == [st |-> st, out |-> out, more |-> TRUE]
           Step(d) == NextRound(d, offered)
           Body(f) == [i \in 0 .. n |-> IF i = 0 THEN new ELSE Step(f[i - 1])]
           rounds == CHOOSE f : f = Body(f)
           Upto(k, g) == g = [i \in 0 .. k |-> IF i = 0 THEN new ELSE Step(g[i - 1])]
           Computed == {k \in Nat : \E g : Upto(k, g)}
<1>1. n \in Nat
  <2>1. Len(st.capture \o st.pending) \in Nat
    BY ConcatIsSeq, IsSeqFacts
  <2>2. PICK l \in Nat : l = Len(st.capture \o st.pending)
    BY <2>1
  <2>3. n = 2 * l + 2
    BY <2>2 DEF MaxRounds
  <2> QED BY <2>3
<1>2. Drain(st, offered, out) = [st |-> rounds[n].st, out |-> rounds[n].out]
  BY DEF Drain, Drained
<1> HIDE DEF new, n, Step
<1>3. 0 \in Computed
  <2>1. Upto(0, [i \in 0 .. 0 |-> new])
    OBVIOUS
  <2>2. \E g : Upto(0, g)
    BY <2>1
  <2> HIDE DEF Upto
  <2> QED BY <2>2
<1>4. ASSUME NEW k \in Nat, k \in Computed PROVE k + 1 \in Computed
  <2>1. PICK g : Upto(k, g)
    BY <1>4
  <2> DEFINE h == [i \in 0 .. (k + 1) |-> IF i <= k THEN g[i] ELSE Step(g[k])]
  <2>2. ASSUME NEW i \in 0 .. (k + 1) PROVE h[i] = IF i = 0 THEN new ELSE Step(h[i - 1])
    <3>1. CASE i <= k
      <4>1. i \in 0 .. k /\ h[i] = g[i] /\ (i # 0 => h[i - 1] = g[i - 1])
        BY <3>1
      <4>2. g[i] = IF i = 0 THEN new ELSE Step(g[i - 1])
        BY <2>1, <4>1
      <4> QED BY <4>1, <4>2
    <3>2. CASE ~(i <= k)
      <4>1. i = k + 1 /\ i # 0 /\ h[i] = Step(g[k]) /\ h[i - 1] = g[k]
        BY <3>2
      <4> QED BY <4>1
    <3> QED BY <3>1, <3>2
  <2>3. h = [i \in 0 .. (k + 1) |-> h[i]]
    OBVIOUS
  <2> HIDE DEF h
  <2>4. Upto(k + 1, h)
    BY <2>2, <2>3
  <2>5. \E f : Upto(k + 1, f)
    BY <2>4
  <2> HIDE DEF Upto
  <2> QED BY <2>5
<1>5. n \in Computed
  <2> HIDE DEF Computed
  <2> QED BY <1>1, <1>3, <1>4, SetInduction
<1>6. rounds = Body(rounds)
  <2>1. PICK g : g = Body(g)
    BY <1>5
  <2> HIDE DEF Body
  <2> QED BY <2>1
<1> HIDE DEF rounds, Upto, Computed
<1>7. rounds[0] = new /\ \A i \in 1 .. n : rounds[i] = Step(rounds[i - 1])
  <2>1. 0 \in 0 .. n /\ \A i \in 1 .. n : i \in 0 .. n /\ i # 0
    BY <1>1
  <2> QED BY <1>6, <2>1
<1> HIDE DEF Body
<1> QED BY <1>1, <1>2, <1>7 DEF new, Step

(* The loop of rounds. *)
LEMMA DrainKeeps ==
  ASSUME NEW st, NEW offered, SieveOk(st, offered), NEW out, EventsOk(out, offered)
  PROVE  LET d == Drain(st, offered, out)
         IN  SieveOk(d.st, offered) /\ EventsOk(d.out, offered)
<1> DEFINE Step(d) == NextRound(d, offered)
<1>1. PICK n \in Nat : \E rounds :
        /\ Drain(st, offered, out) = [st |-> rounds[n].st, out |-> rounds[n].out]
        /\ rounds[0] = [st |-> st, out |-> out, more |-> TRUE]
        /\ \A i \in 1 .. n : rounds[i] = Step(rounds[i - 1])
  BY DrainSteps DEF SieveOk
<1>2. PICK rounds : /\ Drain(st, offered, out) = [st |-> rounds[n].st, out |-> rounds[n].out]
                    /\ rounds[0] = [st |-> st, out |-> out, more |-> TRUE]
                    /\ \A i \in 1 .. n : rounds[i] = Step(rounds[i - 1])
  BY <1>1
<1> HIDE DEF Step
<1> DEFINE Done == {i \in Nat : i <= n => RoundOk(rounds[i], offered)}
<1>8. 0 \in Done
  BY <1>2 DEF RoundOk
<1>9. ASSUME NEW i \in Nat, i \in Done PROVE i + 1 \in Done
  <2> SUFFICES ASSUME i + 1 <= n PROVE RoundOk(rounds[i + 1], offered)
    OBVIOUS
  <2>1. PICK d : d = rounds[i]
    OBVIOUS
  <2>2. RoundOk(d, offered) /\ rounds[i + 1] = Step(d)
    <3>1. i + 1 \in 1 .. n /\ (i + 1) - 1 = i /\ i <= n
      BY <1>1
    <3> QED BY <1>2, <1>9, <2>1, <3>1
  <2>3. PICK r : r = Round(d.st, offered)
    OBVIOUS
  <2>4. RoundOk(r, offered)
    BY <2>2, <2>3, RoundKeeps DEF RoundOk
  <2>5. EventsOk(d.out \o r.out, offered)
    BY <2>2, <2>4, EventsTogether DEF RoundOk
  <2>6. Step(d) = IF d.more THEN [r EXCEPT !.out = d.out \o r.out] ELSE d
    BY <2>3 DEF Step, NextRound, Further
  <2> QED BY <2>2, <2>4, <2>5, <2>6 DEF RoundOk
<1>10. n \in Done
  <2> HIDE DEF Done
  <2> QED BY <1>1, <1>8, <1>9, SetInduction
<1>11. RoundOk(rounds[n], offered)
  BY <1>1, <1>10
<1> QED BY <1>2, <1>11 DEF RoundOk

DrainedOk(d, offered) == SieveOk(d.st, offered) /\ EventsOk(d.out, offered)

(* The calls that were held back are handed out as they are. *)
LEMMA HandOutOk ==
  ASSUME NEW calls, NEW offered, CallsOf(calls, offered)
  PROVE  EventsOk(IF calls = << >> THEN << >> ELSE <<CallEvent(calls)>>, offered)
<1> DEFINE e == CallEvent(calls)
<1>1. CallsOf(e.calls, offered)
  BY DEF CallEvent
<1> HIDE DEF e
<1>2. IsSeq(<<e>>) /\ Len(<<e>>) = 1 /\ <<e>>[1] = e /\ IsSeq(<< >>) /\ Len(<< >>) = 0
  BY ShortIsSeq
<1>3. EventsOk(<<e>>, offered) /\ EventsOk(<< >>, offered)
  BY <1>1, <1>2 DEF EventsOk
<1> QED BY <1>3 DEF e

(* A new sieve is empty. *)
LEMMA NewSieveOk == \A offered : SieveOk(NewSieve, offered)
BY ShortIsSeq, NoCalls DEF SieveOk, NewSieve, SieveFields

(* A chunk goes through the sieve: what comes out are calls that may be    *)
(* made, and what stays is a sieve.                                        *)
LEMMA ProcessChunkKeeps ==
  ASSUME NEW st, NEW offered, SieveOk(st, offered), NEW chunk, IsSeq(chunk)
  PROVE  DrainedOk(ProcessChunk(st, chunk, offered), offered)
<1> DEFINE fed == [st EXCEPT !.pending = @ \o chunk, !.ready = << >>]
<1>1. SieveOk(fed, offered)
  <2>1. IsSeq(st.pending \o chunk)
    BY ConcatIsSeq DEF SieveOk
  <2> QED BY <2>1, NoCalls DEF SieveOk, SieveFields
<1>2. EventsOk(HandOut(st), offered)
  BY HandOutOk DEF HandOut, SieveOk
<1> HIDE DEF fed
<1>3. LET d == Drain(fed, offered, HandOut(st)) IN SieveOk(d.st, offered) /\ EventsOk(d.out, offered)
  BY <1>1, <1>2, DrainKeeps
<1> QED BY <1>3 DEF ProcessChunk, DrainedOk, fed

(* At the end the sieve gives back all it holds. *)
LEMMA FlushKeeps ==
  ASSUME NEW st, NEW offered, SieveOk(st, offered)
  PROVE  DrainedOk(Flush(st, offered), offered)
<1>1. PICK d : d = ProcessChunk(st, << >>, offered)
  OBVIOUS
<1>2. SieveOk(d.st, offered) /\ EventsOk(d.out, offered)
  BY <1>1, ShortIsSeq, ProcessChunkKeeps DEF DrainedOk
<1>3. IsSeq(d.st.capture) /\ CallsOf(d.st.ready, offered)
  BY <1>2 DEF SieveOk
<1>4. EventsOk(<< >>, offered)
  BY ShortIsSeq DEF EventsOk
<1>5. ASSUME NEW s, IsSeq(s) PROVE EventsOk(FlushCapture(s, offered), offered)
  <2> DEFINE events(x) == Text(x.prefix) \o (IF x.calls = << >> THEN << >> ELSE <<CallEvent(x.calls)>>)
                          \o Text(x.suffix)
  <2>1. ASSUME NEW x, CutOk(x, offered) PROVE EventsOk(events(x), offered)
    <3> DEFINE a == Text(x.prefix)
               b == IF x.calls = << >> THEN << >> ELSE <<CallEvent(x.calls)>>
               c == Text(x.suffix)
    <3>1. EventsOk(a, offered) /\ EventsOk(c, offered)
      BY TextOk
    <3>2. EventsOk(b, offered)
      BY <2>1, HandOutOk DEF CutOk
    <3> HIDE DEF a, b, c
    <3>3. EventsOk(a \o b, offered)
      BY <3>1, <3>2, EventsTogether
    <3>4. EventsOk((a \o b) \o c, offered)
      BY <3>1, <3>3, EventsTogether
    <3> QED BY <3>4 DEF a, b, c
  <2> HIDE DEF events
  <2>2. IsSeq(SanitizeLooseCDATA(s))
    BY <1>5, SanitizedIsSeq
  <2>3. CutOk(ConsumeCapture(s, offered), offered) /\ CutOk(ConsumeXML(SanitizeLooseCDATA(s), offered), offered)
    BY <1>5, <2>2, ConsumeCaptureOk, ConsumeXMLOk
  <2>4. PICK r, recovered : r = ConsumeCapture(s, offered) /\ recovered = ConsumeXML(SanitizeLooseCDATA(s), offered)
    OBVIOUS
  <2>5. EventsOk(events(r), offered) /\ EventsOk(events(recovered), offered) /\ EventsOk(Text(s), offered)
    BY <2>1, <2>3, <2>4, TextOk
  <2>6. FlushCapture(s, offered) =
          IF r.ready THEN events(r)
          ELSE IF SanitizeLooseCDATA(s) # s /\ recovered.ready /\ recovered.calls # << >>
          THEN events(recovered)
          ELSE IF HasMalformedMarker(s) THEN << >> ELSE Text(s)
    BY <2>4 DEF FlushCapture, FlushedCapture, events
  <2> QED BY <1>4, <2>5, <2>6
<1> DEFINE a == IF d.st.capturing THEN FlushCapture(d.st.capture, offered) ELSE << >>
           b == IF HasMalformedMarker(d.st.pending) THEN << >> ELSE Text(d.st.pending)
           last == Leftover(d.st, offered)
<1>6. EventsOk(last, offered)
  <2>1. EventsOk(a, offered)
    BY <1>3, <1>4, <1>5
  <2>2. EventsOk(b, offered)
    BY <1>4, TextOk
  <2> HIDE DEF a, b
  <2>3. EventsOk(a \o b, offered)
    BY <2>1, <2>2, EventsTogether
  <2> QED BY <2>3 DEF Leftover, a, b
<1>7. EventsOk(HandOut(d.st), offered)
  BY <1>3, HandOutOk DEF HandOut
<1> HIDE DEF last
<1>8. EventsOk(d.out \o HandOut(d.st) \o last, offered)
  <2>1. EventsOk(d.out \o HandOut(d.st), offered)
    BY <1>2, <1>7, EventsTogether
  <2> QED BY <1>6, <2>1, EventsTogether
<1>9. SieveOk(Emptied(d, last).st, offered) /\ Emptied(d, last).out = d.out \o HandOut(d.st) \o last
  <2>1. PICK noted : noted = Noted(d.st, last)
    OBVIOUS
  <2> DEFINE fresh == [NewSieve EXCEPT !.fenced = noted.fenced, !.ticks = noted.ticks, !.lineStart = noted.lineStart]
  <2>2. Emptied(d, last) = [st |-> fresh, out |-> d.out \o HandOut(d.st) \o last]
    BY <2>1 DEF Emptied
  <2>3. SieveOk(fresh, offered)
    <3>1. SieveOk(NewSieve, offered)
      BY NewSieveOk
    <3>2. PICK new : new = NewSieve
      OBVIOUS
    <3>3. SieveOk([new EXCEPT !.fenced = noted.fenced, !.ticks = noted.ticks, !.lineStart = noted.lineStart], offered)
      BY <3>1, <3>2 DEF SieveOk, SieveFields
    <3> QED BY <3>2, <3>3
  <2> DEFINE all == d.out \o HandOut(d.st) \o last
  <2> HIDE DEF fresh, all
  <2>4. Emptied(d, last) = [st |-> fresh, out |-> all]
    BY <2>2 DEF all
  <2>5. Emptied(d, last).st = fresh /\ Emptied(d, last).out = all
    BY <2>4
  <2> QED BY <2>3, <2>5 DEF all
<1> QED BY <1>1, <1>8, <1>9 DEF Flush, FlushDrained, DrainedOk, last

--------------------------------------------------------------------------------
(* What a runtime has sent *)

AccOk(acc) ==
  /\ DOMAIN acc = {"rawThinking", "thinking", "rawText", "text"}
  /\ IsSeq(acc.rawThinking) /\ IsSeq(acc.rawText)

(* A frame that tells no outcome, its calls such as may be made. *)
Quiet == {"content", "reasoning", "created", "item added", "item done", "part added", "part done",
          "text", "text done"}
Calling(frame) == frame.ev \in {"tool_calls", "call"}
Shows(frame, offered) ==
  \/ frame.ev \in Quiet
  \/ frame.ev = "tool_calls" /\ frame.calls # << >> /\ CallsOf(frame.calls, offered)
  \/ frame.ev = "call" /\ MayCall(frame.call, offered)
Shown(frames, n, offered) == \A i \in 1 .. n : Shows(frames[i], offered)
CalledIn(frames, n) == \E i \in 1 .. n : Calling(frames[i])

(* A runtime before the end: it knows whether it has sent calls. *)
Running(r, offered) ==
  /\ IsSeq(r.sent) /\ Shown(r.sent, Len(r.sent), offered)
  /\ r.called \in BOOLEAN /\ (r.called <=> CalledIn(r.sent, Len(r.sent)))
  /\ AccOk(r.acc) /\ SieveOk(r.sieve, offered)

(* A runtime at its end: one outcome, then the end mark. *)
Outcomes(r, n, required) ==
  \/ /\ r.sent[n - 1].ev \in Good /\ r.error = "none"
     /\ r.sent[n - 1].reason = "tool_calls" <=> CalledIn(r.sent, n - 2)
     /\ required => CalledIn(r.sent, n - 2)
  \/ /\ r.sent[n - 1].ev \in Bad /\ r.error \notin {"none", "context_cancelled"}
     /\ r.error = "tool_choice_violation" => required
Ended(r, offered, required) ==
  LET n == Len(r.sent)
  IN /\ IsSeq(r.sent) /\ n >= 2 /\ Shown(r.sent, n - 2, offered)
     /\ r.sent[n].ev = "done" /\ Outcomes(r, n, required)

ChatFields == {"acc", "sieve", "batch", "called", "error", "sent"}
ChatOk(r, offered) ==
  DOMAIN r = ChatFields /\ Running(r, offered) /\ r.batch.field \in {"content", "reasoning"}

(* The items of a response: those announced have identifiers and output    *)
(* indexes of their own, and all but the message are closed.               *)
ItemsIn(frames, n, ev) ==
  {[id |-> frames[i].id, index |-> frames[i].index] : i \in {j \in 1 .. n : frames[j].ev = ev}}
AddedTo(r) == ItemsIn(r.sent, Len(r.sent), "item added")
DoneIn(r) == ItemsIn(r.sent, Len(r.sent), "item done")
MessageOk(r) ==
  /\ DOMAIN r.message = {"added", "part", "index", "text"}
  /\ \/ r.message.added = FALSE /\ r.message.index = -1
     \/ r.message.added = TRUE /\ r.message.index \in 0 .. (r.nextIndex - 1) /\ MessageItem(r) \in AddedTo(r)
ItemsOk(r) ==
  /\ r.nextIndex \in Nat /\ r.nextId \in Nat \ {0} /\ MessageOk(r)
  /\ \A a \in AddedTo(r) :
       /\ a.id \in 0 .. (r.nextId - 1) /\ a.index \in 0 .. (r.nextIndex - 1)
       /\ a.id = 0 <=> a.index = r.message.index
  /\ \A a, b \in AddedTo(r) : a.index = b.index => a = b
  /\ DoneIn(r) \subseteq AddedTo(r)
  /\ \A a \in AddedTo(r) : a.id # 0 => a \in DoneIn(r)
FunctionsOk(r, n) ==
  /\ DOMAIN r.functions = 1 .. n
  /\ \A i \in 1 .. n : [id |-> r.functions[i].id, index |-> r.functions[i].index] \in AddedTo(r)
RespFields == {"acc", "sieve", "batch", "called", "error", "sent", "message", "functions", "nextIndex",
               "nextId", "object"}
RespMid(r, offered, n) ==
  /\ DOMAIN r = RespFields /\ Running(r, offered) /\ ItemsOk(r) /\ FunctionsOk(r, n)
  /\ r.object = NoObject
RespOk(r, offered) == RespMid(r, offered, 0)

(* A completed response. *)
ItemsEnded(r) ==
  LET n == Len(r.sent)
      added == ItemsIn(r.sent, n - 2, "item added")
  IN /\ r.sent[n - 1].ev \in Good => r.object.status = "completed"
     /\ r.sent[n - 1].ev \in Bad => r.object.status = "failed"
     /\ r.sent[n - 1].ev \in Good =>
          /\ added = ItemsIn(r.sent, n - 2, "item done")
          /\ \A a, b \in r.object.items \union added : a.index = b.index => a = b
          /\ {a \in added : a.id = 0} \subseteq r.object.items

--------------------------------------------------------------------------------
(* What a reply amounts to *)

Errors == {"none", "tool_choice_violation", "content_filter", "upstream_empty_output"}
TurnOk(turn, emitted, offered, required) ==
  /\ CallsOf(turn.calls, offered) /\ turn.error \in Errors
  /\ turn.error = "tool_choice_violation" => required
  /\ turn.calls # << >> => turn.error = "none"
  /\ required /\ ~emitted /\ turn.calls = << >> => turn.error # "none"
  /\ turn.stop = "tool_calls" <=> turn.calls # << >> \/ emitted

(* The calls of a reply, of its text or else of its thinking, may be made. *)
LEMMA DetectedCalls ==
  ASSUME NEW rawText, IsSeq(rawText), NEW visible, NEW thinking, IsSeq(thinking), NEW offered
  PROVE  CallsOf(Detect(rawText, visible, thinking, offered), offered)
<1>1. CallsOf(ParseStandalone(rawText, offered).calls, offered) /\ CallsOf(ParseStandalone(thinking, offered).calls, offered)
  BY ParsedCalls
<1> DEFINE a == ParseStandalone(rawText, offered).calls
           b == ParseStandalone(thinking, offered).calls
<1> HIDE DEF a, b
<1>2. CallsOf(TextFirst(a, visible, b), offered)
  BY <1>1 DEF TextFirst, a, b
<1> QED BY <1>2 DEF Detect, a, b

(* A turn without calls is in error when calls are required, one with calls *)
(* never.                                                                  *)
LEMMA ValidatedFacts ==
  ASSUME NEW calls, NEW text, NEW filtered, NEW required
  PROVE  LET error == Validate(calls, text, filtered, required)
         IN  /\ error \in Errors /\ (error = "tool_choice_violation" => required)
             /\ calls # << >> => error = "none"
             /\ required /\ calls = << >> => error # "none"
BY DEF Validate, EmptyError, Errors

(* The turn of a stream, and that of a collected reply. *)
LEMMA StreamTurnOk ==
  ASSUME NEW acc, AccOk(acc), NEW filtered, NEW emitted, NEW offered, NEW required
  PROVE  TurnOk(StreamTurn(acc, filtered, emitted, offered, required), emitted, offered, required)
<1> DEFINE text == Clean(acc.text)
           calls == Detect(acc.rawText, text, acc.rawThinking, offered)
           thinking == Clean(acc.thinking)
<1>1. CallsOf(calls, offered)
  BY DetectedCalls DEF AccOk
<1> HIDE DEF text, calls, thinking
<1>2. PICK error : error = Validate(calls, text, filtered, required)
  OBVIOUS
<1>3. /\ error \in Errors /\ (error = "tool_choice_violation" => required)
      /\ calls # << >> => error = "none"
      /\ required /\ calls = << >> => error # "none"
  BY <1>2, ValidatedFacts
<1> DEFINE told == IF emitted THEN "none" ELSE error
           stop == IF told # "none" /\ calls = << >> THEN "error" ELSE StopReason(calls, emitted, filtered)
<1>4. /\ told \in Errors /\ (told = "tool_choice_violation" => required)
      /\ calls # << >> => told = "none"
      /\ required /\ ~emitted /\ calls = << >> => told # "none"
  BY <1>3 DEF Errors
<1>5. stop = "tool_calls" <=> calls # << >> \/ emitted
  BY <1>3 DEF StopReason
<1>6. StreamTurn(acc, filtered, emitted, offered, required) =
        [text |-> text, thinking |-> thinking, calls |-> calls, filtered |-> filtered, error |-> told,
         stop |-> stop]
  BY <1>2 DEF StreamTurn, StreamTurnOn, StreamTurnOf, text, calls, thinking
<1> HIDE DEF told, stop
<1> QED BY <1>1, <1>4, <1>5, <1>6 DEF TurnOk

(* The turn of a reply that was collected. *)
LEMMA CollectedTurnOk ==
  ASSUME NEW rawText, IsSeq(rawText), NEW rawThinking, IsSeq(rawThinking), NEW filtered, NEW offered,
         NEW required
  PROVE  TurnOk(CollectedTurn(rawText, rawThinking, filtered, offered, required), FALSE, offered, required)
<1> DEFINE text == Clean(rawText)
           calls == Detect(rawText, text, rawThinking, offered)
           thinking == Clean(rawThinking)
<1>1. CallsOf(calls, offered)
  BY DetectedCalls
<1> HIDE DEF text, calls, thinking
<1>2. PICK error : error = Validate(calls, text, filtered, required)
  OBVIOUS
<1>3. /\ error \in Errors /\ (error = "tool_choice_violation" => required)
      /\ calls # << >> => error = "none"
      /\ required /\ calls = << >> => error # "none"
  BY <1>2, ValidatedFacts
<1> DEFINE stop == IF error # "none" THEN "error" ELSE StopReason(calls, FALSE, filtered)
<1>4. stop = "tool_calls" <=> calls # << >>
  BY <1>3 DEF StopReason
<1>5. CollectedTurn(rawText, rawThinking, filtered, offered, required) =
        [text |-> text, thinking |-> thinking, calls |-> calls, filtered |-> filtered, error |-> error,
         stop |-> stop]
  BY <1>2 DEF CollectedTurn, CollectedTurnOn, CollectedTurnOf, text, calls, thinking
<1> HIDE DEF stop
<1> QED BY <1>1, <1>3, <1>4, <1>5 DEF TurnOk

(* How an attempt ends: it fails only without calls, and names tool calls  *)
(* as its reason exactly when there are some.                              *)
LEMMA OutcomeFacts ==
  ASSUME NEW turn, NEW before, NEW after, NEW offered, NEW required,
         TurnOk(turn, before, offered, required), before => after
  PROVE  LET has == turn.calls # << >> \/ after
             o == Outcome(turn, after)
         IN  /\ o.fails \in BOOLEAN
             /\ o.fails => ~has /\ turn.error # "none"
             /\ ~o.fails => (o.reason = "tool_calls" <=> has)
             /\ ~o.fails /\ required => has
<1> DEFINE has == turn.calls # << >> \/ after
           fails == ~has /\ turn.error # "none"
           reason == IF has THEN "tool_calls" ELSE FinishReason(turn)
<1>1. Outcome(turn, after) = [fails |-> fails, reason |-> reason]
  BY DEF Outcome
<1>2. reason = "tool_calls" <=> has
  BY DEF FinishReason, TurnOk
<1>3. fails \in BOOLEAN /\ (fails => ~has /\ turn.error # "none") /\ (~fails /\ required => has)
  BY DEF TurnOk
<1> HIDE DEF fails, reason
<1> QED BY <1>1, <1>2, <1>3

--------------------------------------------------------------------------------
(* The frames of a stream *)

(* One more frame. *)
LEMMA SentMore ==
  ASSUME NEW sent, IsSeq(sent), NEW offered, Shown(sent, Len(sent), offered), NEW frame, Shows(frame, offered)
  PROVE  LET more == Append(sent, frame)
         IN  /\ IsSeq(more) /\ Shown(more, Len(more), offered)
             /\ CalledIn(more, Len(more)) <=> CalledIn(sent, Len(sent)) \/ Calling(frame)
             /\ \A ev : ItemsIn(more, Len(more), ev) =
                          ItemsIn(sent, Len(sent), ev) \cup
                            (IF frame.ev = ev THEN {[id |-> frame.id, index |-> frame.index]} ELSE {})
<1> DEFINE n == Len(sent)
           more == Append(sent, frame)
<1>1. /\ n \in Nat /\ IsSeq(more) /\ Len(more) = n + 1
      /\ (\A i \in 1 .. n : more[i] = sent[i]) /\ more[n + 1] = frame
  BY IsSeqFacts, AppendIsSeq
<1>2. PICK m : m = more
  OBVIOUS
<1>3. /\ n \in Nat /\ IsSeq(m) /\ Len(m) = n + 1
      /\ (\A i \in 1 .. n : m[i] = sent[i]) /\ m[n + 1] = frame
  BY <1>1, <1>2
<1> HIDE DEF n, more
<1>4. Shown(sent, n, offered)
  BY DEF n
<1>5. \A i \in 1 .. n + 1 : i \in 1 .. n \/ i = n + 1
  BY <1>3
<1>6. \A i \in 1 .. n : i \in 1 .. n + 1
  BY <1>3
<1>7. n + 1 \in 1 .. n + 1
  BY <1>3
<1>8. Shown(m, n + 1, offered)
  BY <1>3, <1>4, <1>5 DEF Shown
<1>9. CalledIn(m, n + 1) <=> CalledIn(sent, n) \/ Calling(frame)
  BY <1>3, <1>5, <1>6, <1>7 DEF CalledIn
<1>10. ASSUME NEW ev
       PROVE  ItemsIn(m, n + 1, ev) = ItemsIn(sent, n, ev) \cup
                            (IF frame.ev = ev THEN {[id |-> frame.id, index |-> frame.index]} ELSE {})
  <2> DEFINE item(s, i) == [id |-> s[i].id, index |-> s[i].index]
             new == IF frame.ev = ev THEN {[id |-> frame.id, index |-> frame.index]} ELSE {}
  <2>1. ASSUME NEW x PROVE x \in ItemsIn(m, n + 1, ev) <=> x \in ItemsIn(sent, n, ev) \cup new
    <3>1. x \in ItemsIn(m, n + 1, ev) <=> \E i \in 1 .. n + 1 : m[i].ev = ev /\ x = item(m, i)
      BY DEF ItemsIn
    <3>2. x \in ItemsIn(sent, n, ev) <=> \E i \in 1 .. n : sent[i].ev = ev /\ x = item(sent, i)
      BY DEF ItemsIn
    <3>3. \A i \in 1 .. n : m[i].ev = sent[i].ev /\ item(m, i) = item(sent, i)
      BY <1>3
    <3>4. m[n + 1].ev = frame.ev /\ item(m, n + 1) = [id |-> frame.id, index |-> frame.index]
      BY <1>3
    <3>5. x \in new <=> frame.ev = ev /\ x = [id |-> frame.id, index |-> frame.index]
      OBVIOUS
    <3> HIDE DEF item, new
    <3> QED BY <1>5, <1>6, <1>7, <3>1, <3>2, <3>3, <3>4, <3>5
  <2> QED BY <2>1
<1> QED BY <1>2, <1>3, <1>8, <1>9, <1>10 DEF n, more

(* The two frames of the end: what was sent before them stays. *)
EndedBy(sent, a, b) == sent \o <<a, b>>

(* The two frames of an ending, behind those sent before. *)
LEMMA SentEnding ==
  ASSUME NEW sent, IsSeq(sent), NEW a, NEW b, NEW all, all = EndedBy(sent, a, b)
  PROVE  /\ IsSeq(all) /\ Len(all) \in Nat /\ Len(all) >= 2
         /\ all[Len(all) - 1] = a /\ all[Len(all)] = b /\ Len(all) - 2 = Len(sent)
         /\ \A i \in 1 .. Len(all) - 2 : all[i] = sent[i]
<1> DEFINE end == <<a, b>>
<1>1. IsSeq(end) /\ Len(end) = 2 /\ end[1] = a /\ end[2] = b
  BY ShortIsSeq
<1>2. PICK l \in Nat : l = Len(sent)
  BY IsSeqFacts
<1> HIDE DEF end
<1>3. /\ IsSeq(sent \o end) /\ Len(sent \o end) = l + 2
      /\ \A i \in 1 .. l : (sent \o end)[i] = sent[i]
      /\ \A i \in 1 .. 2 : (sent \o end)[l + i] = end[i]
  <2>1. /\ IsSeq(sent \o end) /\ Len(sent \o end) = Len(sent) + 2
        /\ \A i \in 1 .. Len(sent) : (sent \o end)[i] = sent[i]
        /\ \A i \in 1 .. 2 : (sent \o end)[Len(sent) + i] = end[i]
    <3>1. PICK t : t = end
      OBVIOUS
    <3>2. IsSeq(t)
      BY <1>1, <3>1
    <3>4. Len(t) = 2
      BY <1>1, <3>1
    <3>3. /\ IsSeq(sent \o t) /\ Len(sent \o t) = Len(sent) + Len(t)
          /\ \A i \in 1 .. Len(sent) : (sent \o t)[i] = sent[i]
          /\ \A i \in 1 .. Len(t) : (sent \o t)[Len(sent) + i] = t[i]
      BY <3>2, ConcatIsSeq
    <3> QED BY <3>1, <3>3, <3>4
  <2> QED BY <1>2, <2>1
<1>4. (sent \o end)[l + 1] = a /\ (sent \o end)[l + 2] = b
  <2>1. 1 \in 1 .. 2 /\ 2 \in 1 .. 2
    OBVIOUS
  <2> QED BY <1>1, <1>3, <2>1
<1>5. all = sent \o end
  BY DEF EndedBy, end
<1> QED BY <1>2, <1>3, <1>4, <1>5

(* What holds of frames holds of frames that are the same. *)
LEMMA SameFrames ==
  ASSUME NEW s, NEW t, NEW n, \A i \in 1 .. n : t[i] = s[i], NEW offered
  PROVE  /\ Shown(s, n, offered) => Shown(t, n, offered)
         /\ CalledIn(t, n) <=> CalledIn(s, n)
         /\ \A ev : ItemsIn(t, n, ev) = ItemsIn(s, n, ev)
<1>1. (Shown(s, n, offered) => Shown(t, n, offered)) /\ (CalledIn(t, n) <=> CalledIn(s, n))
  BY DEF Shown, CalledIn
<1>2. \A ev : ItemsIn(t, n, ev) = ItemsIn(s, n, ev)
  BY DEF ItemsIn
<1> QED BY <1>1, <1>2

--------------------------------------------------------------------------------
(* The chat runtime *)

(* What a step of the runtime keeps while the attempt goes on. *)
ChatGoesOn(m, r, offered) == ChatOk(m, offered) /\ m.error = r.error /\ (r.called => m.called)

(* A frame that makes no call leaves a chat going on. *)
LEMMA ChatSendKeeps ==
  ASSUME NEW r, NEW offered, ChatOk(r, offered), NEW frame, Shows(frame, offered)
  PROVE  LET m == ChatSend(r, frame)
         IN  /\ DOMAIN m = ChatFields /\ m.sent = Append(r.sent, frame)
             /\ m.acc = r.acc /\ m.sieve = r.sieve /\ m.batch = r.batch /\ m.error = r.error /\ m.called = r.called
             /\ IsSeq(m.sent) /\ Shown(m.sent, Len(m.sent), offered)
             /\ CalledIn(m.sent, Len(m.sent)) <=> r.called \/ Calling(frame)
<1>1. PICK more : more = Append(r.sent, frame)
  OBVIOUS
<1>2. /\ IsSeq(more) /\ Shown(more, Len(more), offered)
      /\ CalledIn(more, Len(more)) <=> r.called \/ Calling(frame)
  BY <1>1, SentMore DEF ChatOk, Running
<1>3. ChatSend(r, frame) = [r EXCEPT !.sent = more]
  BY <1>1 DEF ChatSend
<1> QED BY <1>1, <1>2, <1>3 DEF ChatOk, ChatFields

(* The batch becomes one such frame. *)
LEMMA FlushBatchKeeps ==
  ASSUME NEW r, NEW offered, ChatOk(r, offered)
  PROVE  ChatGoesOn(FlushBatch(r), r, offered)
<1> DEFINE frame == Delta(r.batch.field, r.batch.text)
<1>1. Shows(frame, offered) /\ ~Calling(frame)
  BY DEF ChatOk, Delta, Shows, Quiet, Calling
<1> HIDE DEF frame
<1>2. PICK m : m = ChatSend(r, frame)
  OBVIOUS
<1>3. PICK none : none = NoBatch
  OBVIOUS
<1>4. none.field = "content"
  BY <1>3 DEF NoBatch
<1>5. ChatOk([m EXCEPT !.batch = none], offered) /\ [m EXCEPT !.batch = none].error = r.error
      /\ [m EXCEPT !.batch = none].called = r.called
  BY <1>1, <1>2, <1>4, ChatSendKeeps DEF ChatOk, ChatFields, Running
<1>6. FlushBatch(r) = IF r.batch.text = << >> THEN r ELSE [m EXCEPT !.batch = none]
  BY <1>2, <1>3 DEF FlushBatch, frame
<1> QED BY <1>5, <1>6 DEF ChatGoesOn

(* Text joins the batch, which a change of its kind flushes. *)
LEMMA AddToBatchKeeps ==
  ASSUME NEW r, NEW offered, ChatOk(r, offered), NEW field \in {"content", "reasoning"}, NEW s
  PROVE  ChatGoesOn(AddToBatch(r, field, s), r, offered)
<1>1. PICK ready : ready = IF r.batch.field = field THEN r ELSE FlushBatch(r)
  OBVIOUS
<1>2. ChatGoesOn(ready, r, offered)
  BY <1>1, FlushBatchKeeps DEF ChatGoesOn
<1>3. PICK batch : batch = [field |-> field, text |-> ready.batch.text \o s]
  OBVIOUS
<1>4. batch.field = field
  BY <1>3
<1>5. ChatGoesOn([ready EXCEPT !.batch = batch], r, offered)
  BY <1>2, <1>4 DEF ChatGoesOn, ChatOk, ChatFields, Running
<1>6. AddToBatch(r, field, s) = IF s = << >> THEN r ELSE [ready EXCEPT !.batch = batch]
  BY <1>1, <1>3 DEF AddToBatch
<1> QED BY <1>5, <1>6 DEF ChatGoesOn

(* Calls that may be made are sent, and noted. *)
LEMMA ChatCallsKeeps ==
  ASSUME NEW r, NEW offered, ChatOk(r, offered), NEW calls, calls # << >>, CallsOf(calls, offered)
  PROVE  ChatGoesOn(ChatCalls(r, calls), r, offered) /\ ChatCalls(r, calls).called = TRUE
<1>1. PICK f : f = FlushBatch(r)
  OBVIOUS
<1>2. ChatGoesOn(f, r, offered)
  BY <1>1, FlushBatchKeeps
<1> DEFINE frame == CallsDelta(calls)
<1>3. Shows(frame, offered) /\ Calling(frame)
  BY DEF CallsDelta, Shows, Calling
<1> HIDE DEF frame
<1>4. PICK m : m = ChatSend(f, frame)
  OBVIOUS
<1>5. /\ DOMAIN m = ChatFields /\ AccOk(m.acc) /\ SieveOk(m.sieve, offered) /\ m.error = r.error
      /\ m.batch.field \in {"content", "reasoning"}
      /\ IsSeq(m.sent) /\ Shown(m.sent, Len(m.sent), offered) /\ CalledIn(m.sent, Len(m.sent))
  BY <1>2, <1>3, <1>4, ChatSendKeeps DEF ChatGoesOn, ChatOk, Running
<1>6. PICK last : last = [m EXCEPT !.called = TRUE]
  OBVIOUS
<1>7. /\ DOMAIN last = ChatFields /\ last.acc = m.acc /\ last.sieve = m.sieve /\ last.error = m.error
      /\ last.batch = m.batch /\ last.sent = m.sent /\ last.called = TRUE
  BY <1>5, <1>6 DEF ChatFields
<1>8. ChatGoesOn(last, r, offered)
  BY <1>5, <1>7 DEF ChatGoesOn, ChatOk, Running
<1> QED BY <1>1, <1>4, <1>6, <1>7, <1>8 DEF ChatCalls, frame

(* What one event of the sieve becomes. *)
LEMMA ChatEventKeeps ==
  ASSUME NEW r, NEW offered, ChatOk(r, offered), NEW e, CallsOf(e.calls, offered)
  PROVE  ChatGoesOn(ChatEvent(r, e), r, offered)
BY ChatCallsKeeps, AddToBatchKeeps DEF ChatEvent

(* The frames of a chat, event by event. *)
ChatEventsTrace(r, events, n, after) ==
  /\ ChatEvents(r, events) = after[n] /\ after[0] = r
  /\ \A i \in 1 .. n : after[i] = ChatEvent(after[i - 1], events[i])

LEMMA ChatEventsSteps ==
  ASSUME NEW r, NEW events, NEW n \in Nat, n = Len(events)
  PROVE  \E after : ChatEventsTrace(r, events, n, after)
<1> DEFINE Step(m, i) == ChatEvent(m, events[i])
           Body(f) == [i \in 0 .. n |-> IF i = 0 THEN r ELSE Step(f[i - 1], i)]
           after == CHOOSE f : f = Body(f)
           Upto(k, g) == g = [i \in 0 .. k |-> IF i = 0 THEN r ELSE Step(g[i - 1], i)]
           Computed == {k \in Nat : \E g : Upto(k, g)}
<1>1. ChatEvents(r, events) = after[n]
  BY DEF ChatEvents
<1> HIDE DEF Step
<1>2. 0 \in Computed
  <2>1. Upto(0, [i \in 0 .. 0 |-> r])
    OBVIOUS
  <2>2. \E g : Upto(0, g)
    BY <2>1
  <2> HIDE DEF Upto
  <2> QED BY <2>2
<1>3. ASSUME NEW k \in Nat, k \in Computed PROVE k + 1 \in Computed
  <2>1. PICK g : Upto(k, g)
    BY <1>3
  <2> DEFINE h == [i \in 0 .. (k + 1) |-> IF i <= k THEN g[i] ELSE Step(g[k], k + 1)]
  <2>2. ASSUME NEW i \in 0 .. (k + 1) PROVE h[i] = IF i = 0 THEN r ELSE Step(h[i - 1], i)
    <3>1. CASE i <= k
      <4>1. i \in 0 .. k /\ h[i] = g[i] /\ (i # 0 => h[i - 1] = g[i - 1])
        BY <3>1
      <4>2. g[i] = IF i = 0 THEN r ELSE Step(g[i - 1], i)
        BY <2>1, <4>1
      <4> QED BY <4>1, <4>2
    <3>2. CASE ~(i <= k)
      <4>1. i = k + 1 /\ i # 0 /\ h[i] = Step(g[k], k + 1) /\ h[i - 1] = g[k]
        BY <3>2
      <4> QED BY <4>1
    <3> QED BY <3>1, <3>2
  <2>3. h = [i \in 0 .. (k + 1) |-> h[i]]
    OBVIOUS
  <2> HIDE DEF h
  <2>4. Upto(k + 1, h)
    BY <2>2, <2>3
  <2>5. \E f : Upto(k + 1, f)
    BY <2>4
  <2> HIDE DEF Upto
  <2> QED BY <2>5
<1>4. n \in Computed
  <2> HIDE DEF Computed
  <2> QED BY <1>2, <1>3, SetInduction
<1>5. after = Body(after)
  <2>1. PICK g : g = Body(g)
    BY <1>4
  <2> HIDE DEF Body
  <2> QED BY <2>1
<1> HIDE DEF after, Upto, Computed
<1>6. after[0] = r /\ \A i \in 1 .. n : after[i] = Step(after[i - 1], i)
  <2>1. 0 \in 0 .. n /\ \A i \in 1 .. n : i \in 0 .. n /\ i # 0
    OBVIOUS
  <2> QED BY <1>5, <2>1
<1> HIDE DEF Body
<1> QED BY <1>1, <1>6 DEF Step, ChatEventsTrace

(* The events of the sieve one after another. *)
LEMMA ChatEventsKeep ==
  ASSUME NEW r, NEW offered, ChatOk(r, offered), NEW events, EventsOk(events, offered)
  PROVE  ChatGoesOn(ChatEvents(r, events), r, offered)
<1>1. PICK n \in Nat : n = Len(events)
  BY IsSeqFacts DEF EventsOk
<1>8. PICK after : ChatEventsTrace(r, events, n, after)
  BY <1>1, ChatEventsSteps
<1>2. ChatEvents(r, events) = after[n] /\ after[0] = r
  BY <1>8 DEF ChatEventsTrace
<1> DEFINE Step(m, i) == ChatEvent(m, events[i])
<1>0. \A i \in 1 .. n : after[i] = Step(after[i - 1], i)
  BY <1>8 DEF ChatEventsTrace
<1>3. ASSUME NEW m, NEW i \in 1 .. n, ChatGoesOn(m, r, offered) PROVE ChatGoesOn(Step(m, i), r, offered)
  <2>1. ChatGoesOn(Step(m, i), m, offered)
    BY <1>1, <1>3, ChatEventKeeps DEF EventsOk, ChatGoesOn
  <2> HIDE DEF Step
  <2> QED BY <1>3, <2>1 DEF ChatGoesOn
<1> HIDE DEF Step
<1> DEFINE Done == {i \in Nat : i <= n => ChatGoesOn(after[i], r, offered)}
<1>9. 0 \in Done
  BY <1>2 DEF ChatGoesOn
<1>10. ASSUME NEW i \in Nat, i \in Done PROVE i + 1 \in Done
  <2> SUFFICES ASSUME i + 1 <= n PROVE ChatGoesOn(after[i + 1], r, offered)
    OBVIOUS
  <2>1. i + 1 \in 1 .. n /\ (i + 1) - 1 = i /\ i <= n
    BY <1>1
  <2>2. after[i + 1] = Step(after[i], i + 1) /\ ChatGoesOn(after[i], r, offered)
    BY <1>0, <1>10, <2>1
  <2> QED BY <1>3, <2>1, <2>2
<1>11. n \in Done
  <2> HIDE DEF Done
  <2> QED BY <1>1, <1>9, <1>10, SetInduction
<1> QED BY <1>1, <1>2, <1>11

(* What a sieve has handed out becomes frames of a chat. *)
LEMMA ChatSievedKeeps ==
  ASSUME NEW r, NEW offered, ChatOk(r, offered), NEW d, DrainedOk(d, offered)
  PROVE  ChatGoesOn(ChatSieved(r, d), r, offered)
<1>1. PICK m : m = [r EXCEPT !.sieve = d.st]
  OBVIOUS
<1>2. ChatOk(m, offered) /\ m.error = r.error /\ m.called = r.called
  BY <1>1 DEF ChatOk, ChatFields, Running, DrainedOk
<1>3. ChatGoesOn(ChatEvents(m, d.out), m, offered)
  BY <1>2, ChatEventsKeep DEF DrainedOk
<1> QED BY <1>1, <1>2, <1>3 DEF ChatSieved, ChatGoesOn

(* What has accumulated stays text. *)
LEMMA AppliedOk ==
  ASSUME NEW acc, AccOk(acc), NEW s, IsSeq(s)
  PROVE  AccOk(ApplyThinking(acc, s)) /\ AccOk(ApplyText(acc, s))
<1>1. PICK c : c = Clean(s)
  OBVIOUS
<1>2. IsSeq(acc.rawThinking \o s) /\ IsSeq(acc.rawText \o s)
  BY ConcatIsSeq DEF AccOk
<1>3. AccOk([acc EXCEPT !.rawThinking = @ \o s, !.thinking = @ \o c])
  BY <1>2 DEF AccOk
<1>4. AccOk([acc EXCEPT !.rawText = @ \o s, !.text = @ \o c])
  BY <1>2 DEF AccOk
<1> QED BY <1>1, <1>3, <1>4 DEF ApplyThinking, ApplyText

(* A line of the reply. *)
LEMMA ChatLineKeeps ==
  ASSUME NEW r, NEW offered, ChatOk(r, offered), NEW thinking, IsSeq(thinking), NEW text, IsSeq(text)
  PROVE  ChatGoesOn(ChatLine(r, thinking, text, offered), r, offered)
<1>1. PICK a, b : a = ApplyThinking(r.acc, thinking) /\ b = [r EXCEPT !.acc = a]
  OBVIOUS
<1>2. AccOk(a)
  BY <1>1, AppliedOk DEF ChatOk, Running
<1>3. ChatGoesOn(b, r, offered)
  BY <1>1, <1>2 DEF ChatGoesOn, ChatOk, ChatFields, Running
<1>4. PICK c : c = ChatThinking(r, thinking)
  OBVIOUS
<1>5. c = AddToBatch(b, "reasoning", Clean(thinking))
  BY <1>1, <1>4 DEF ChatThinking
<1>6. ChatGoesOn(c, r, offered)
  BY <1>3, <1>5, AddToBatchKeeps DEF ChatGoesOn
<1>7. PICK d, e : d = ApplyText(c.acc, text) /\ e = [c EXCEPT !.acc = d]
  OBVIOUS
<1>8. AccOk(d)
  BY <1>6, <1>7, AppliedOk DEF ChatGoesOn, ChatOk, Running
<1>9. ChatGoesOn(e, r, offered)
  BY <1>6, <1>7, <1>8 DEF ChatGoesOn, ChatOk, ChatFields, Running
<1>10. DrainedOk(ProcessChunk(e.sieve, text, offered), offered)
  BY <1>9, ProcessChunkKeeps DEF ChatGoesOn, ChatOk, Running
<1>11. ChatGoesOn(ChatTextApplied(e, text, offered), r, offered)
  <2>1. ChatGoesOn(ChatSieved(e, ProcessChunk(e.sieve, text, offered)), r, offered)
    BY <1>9, <1>10, ChatSievedKeeps DEF ChatGoesOn
  <2>2. ChatGoesOn(AddToBatch(e, "content", Clean(text)), r, offered)
    BY <1>9, AddToBatchKeeps DEF ChatGoesOn
  <2> QED BY <2>1, <2>2 DEF ChatTextApplied
<1>12. ChatText(c, text, offered) = IF text = << >> THEN c ELSE ChatTextApplied(e, text, offered)
  BY <1>7 DEF ChatText
<1>13. ChatGoesOn(ChatText(c, text, offered), r, offered)
  BY <1>6, <1>11, <1>12
<1> QED BY <1>4, <1>13, FlushBatchKeeps DEF ChatLine, ChatGoesOn

(* The two frames of the end, after which nothing is sent. *)
Ending(frame, error, called, required) ==
  \/ /\ frame.ev \in Good /\ error = "none"
     /\ frame.reason = "tool_calls" <=> called
     /\ required => called
  \/ /\ frame.ev \in Bad /\ error \notin {"none", "context_cancelled"}
     /\ error = "tool_choice_violation" => required

(* A runtime that sends its end has told one outcome. *)
LEMMA EndsOk ==
  ASSUME NEW r, NEW offered, NEW required, Running(r, offered), NEW frame, NEW last, last.ev = "done",
         NEW m, m.sent = EndedBy(r.sent, frame, last), Ending(frame, m.error, r.called, required)
  PROVE  Ended(m, offered, required)
<1>1. IsSeq(r.sent) /\ Shown(r.sent, Len(r.sent), offered) /\ (r.called <=> CalledIn(r.sent, Len(r.sent)))
  BY DEF Running
<1>2. PICK sent, full : sent = r.sent /\ full = EndedBy(sent, frame, last)
  OBVIOUS
<1>3. IsSeq(sent) /\ m.sent = full
  BY <1>1, <1>2
<1>4. IsSeq(full) /\ Len(full) \in Nat /\ Len(full) >= 2
  BY <1>2, <1>3, SentEnding
<1>5. full[Len(full) - 1] = frame
  BY <1>2, <1>3, SentEnding
<1>6. full[Len(full)] = last
  BY <1>2, <1>3, SentEnding
<1>7. Len(full) - 2 = Len(sent)
  BY <1>2, <1>3, SentEnding
<1>8. \A i \in 1 .. Len(full) - 2 : full[i] = sent[i]
  BY <1>2, <1>3, SentEnding
<1>9. PICK n, l : n = Len(full) /\ l = Len(sent)
  OBVIOUS
<1>10. \A i \in 1 .. l : full[i] = sent[i]
  BY <1>7, <1>8, <1>9
<1>11. Shown(full, l, offered) /\ (CalledIn(full, l) <=> CalledIn(sent, l))
  <2>1. Shown(sent, l, offered)
    BY <1>1, <1>2, <1>9
  <2> QED BY <1>10, <2>1, SameFrames, Zenon
<1>12. Shown(full, n - 2, offered) /\ (CalledIn(full, n - 2) <=> r.called)
  BY <1>1, <1>2, <1>7, <1>9, <1>11
<1>13. Ended(m, offered, required)
  BY <1>3, <1>4, <1>5, <1>6, <1>9, <1>12 DEF Ended, Outcomes, Ending
<1> QED BY <1>13

(* Its last but one frame is the outcome, and the items are those it had. *)
LEMMA EndedItems ==
  ASSUME NEW sent, IsSeq(sent), NEW frame, NEW last, NEW full, full = EndedBy(sent, frame, last)
  PROVE  /\ full[Len(full) - 1] = frame
         /\ \A ev : ItemsIn(full, Len(full) - 2, ev) = ItemsIn(sent, Len(sent), ev)
<1>1. IsSeq(full) /\ Len(full) \in Nat /\ Len(full) >= 2
  BY SentEnding
<1>2. full[Len(full) - 1] = frame
  BY SentEnding
<1>3. Len(full) - 2 = Len(sent)
  BY SentEnding
<1>4. \A i \in 1 .. Len(full) - 2 : full[i] = sent[i]
  BY SentEnding
<1>5. PICK l : l = Len(sent)
  OBVIOUS
<1>6. \A i \in 1 .. l : full[i] = sent[i]
  BY <1>3, <1>4, <1>5
<1>7. ASSUME NEW ev PROVE ItemsIn(full, l, ev) = ItemsIn(sent, l, ev)
  BY <1>6 DEF ItemsIn
<1> QED BY <1>2, <1>3, <1>5, <1>7

(* The frames of the endings are one good or bad outcome, then the end mark. *)
LEMMA EndingFrames ==
  /\ \A error : FailedChunk(error).ev \in Bad /\ Failed(error).ev \in Bad
  /\ \A reason : /\ FinishChunk(reason).ev \in Good /\ FinishChunk(reason).reason = reason
                 /\ Completed(reason).ev \in Good /\ Completed(reason).reason = reason
  /\ DoneChunk.ev = "done" /\ DoneMark.ev = "done"
  /\ \A frame : ~(frame.ev \in Good /\ frame.ev \in Bad)
BY DEF FailedChunk, Failed, FinishChunk, Completed, DoneChunk, DoneMark, Good, Bad

(* A request that fails: its error is told, and one of its own. *)
LEMMA ChatFailEnds ==
  ASSUME NEW r, NEW offered, NEW required, ChatOk(r, offered), NEW error,
         error \notin {"none", "context_cancelled"}, error = "tool_choice_violation" => required
  PROVE  Ended(ChatFail(r, error), offered, required) /\ ChatFail(r, error).error = error
<1>1. PICK frame, last : frame = FailedChunk(error) /\ last = DoneChunk
  OBVIOUS
<1>2. PICK sent : sent = EndedBy(r.sent, frame, last)
  OBVIOUS
<1>3. PICK m : m = [r EXCEPT !.error = error, !.sent = sent]
  OBVIOUS
<1>4. m.error = error /\ m.sent = sent
  BY <1>3 DEF ChatOk, ChatFields
<1>5. frame.ev \in Bad /\ last.ev = "done"
  BY <1>1, EndingFrames
<1>6. Ending(frame, m.error, r.called, required)
  BY <1>4, <1>5 DEF Ending
<1>7. Ended(m, offered, required)
  <2>1. Running(r, offered) /\ last.ev = "done" /\ m.sent = EndedBy(r.sent, frame, last)
    BY <1>2, <1>4, <1>5 DEF ChatOk
  <2> QED BY <1>6, <2>1, EndsOk, Zenon
<1>8. ChatFail(r, error) = m
  BY <1>1, <1>2, <1>3 DEF ChatFail, EndedBy
<1> QED BY <1>4, <1>7, <1>8

(* A request that comes to a finish with the reason its calls ask for. *)
LEMMA ChatFinishEnds ==
  ASSUME NEW r, NEW offered, NEW required, ChatOk(r, offered), NEW reason, r.error = "none",
         reason = "tool_calls" <=> r.called, required => r.called
  PROVE  Ended(ChatFinish(r, reason), offered, required) /\ ChatFinish(r, reason).error = "none"
<1>1. PICK frame, last : frame = FinishChunk(reason) /\ last = DoneChunk
  OBVIOUS
<1>2. PICK sent : sent = EndedBy(r.sent, frame, last)
  OBVIOUS
<1>3. PICK m : m = [r EXCEPT !.sent = sent]
  OBVIOUS
<1>4. m.error = "none" /\ m.sent = sent
  BY <1>3 DEF ChatOk, ChatFields
<1>5. frame.ev \in Good /\ last.ev = "done" /\ frame.reason = reason
  BY <1>1, EndingFrames
<1>6. Ending(frame, m.error, r.called, required)
  BY <1>4, <1>5 DEF Ending
<1>7. Ended(m, offered, required)
  <2>1. Running(r, offered) /\ last.ev = "done" /\ m.sent = EndedBy(r.sent, frame, last)
    BY <1>2, <1>4, <1>5 DEF ChatOk
  <2> QED BY <1>6, <2>1, EndsOk, Zenon
<1>8. ChatFinish(r, reason) = m
  BY <1>1, <1>2, <1>3 DEF ChatFinish, EndedBy
<1> QED BY <1>4, <1>7, <1>8

(* The end of an attempt: it is put off, and goes on, or tells its outcome. *)
LEMMA ChatFinalizeEnds ==
  ASSUME NEW r, NEW offered, NEW required, ChatOk(r, offered), NEW reason, NEW defer
  PROVE  LET judged == ChatFinalize(r, reason, defer, offered, required)
         IN  /\ judged.over \in BOOLEAN
             /\ judged.over => Ended(judged.rt, offered, required)
             /\ ~judged.over => ChatOk(judged.rt, offered)
<1>1. PICK turn : turn = StreamTurn(r.acc, reason = "content_filter", r.called, offered, required)
  OBVIOUS
<1>2. TurnOk(turn, r.called, offered, required)
  BY <1>1, StreamTurnOk DEF ChatOk, Running
<1>3. PICK fresh : fresh = [r EXCEPT !.error = "none"]
  OBVIOUS
<1>4. ChatOk(fresh, offered) /\ fresh.error = "none" /\ fresh.called = r.called
  BY <1>3 DEF ChatOk, ChatFields, Running
<1>5. PICK m : m = ChatFlush(fresh, turn, offered)
  OBVIOUS
<1>6. ChatGoesOn(m, fresh, offered) /\ (turn.calls # << >> => m.called)
  <2>1. turn.calls # << >> => ChatGoesOn(ChatCalls(fresh, turn.calls), fresh, offered)
                                /\ ChatCalls(fresh, turn.calls).called = TRUE
    BY <1>2, <1>4, ChatCallsKeeps DEF TurnOk
  <2>2. ChatGoesOn(FlushBatch(ChatSieved(fresh, Flush(fresh.sieve, offered))), fresh, offered)
    <3>1. DrainedOk(Flush(fresh.sieve, offered), offered)
      BY <1>4, FlushKeeps DEF ChatOk, Running
    <3>2. ChatGoesOn(ChatSieved(fresh, Flush(fresh.sieve, offered)), fresh, offered)
      BY <1>4, <3>1, ChatSievedKeeps
    <3> QED BY <3>2, FlushBatchKeeps DEF ChatGoesOn
  <2>3. ChatGoesOn(fresh, fresh, offered)
    BY <1>4 DEF ChatGoesOn
  <2> QED BY <1>5, <2>1, <2>2, <2>3 DEF ChatFlush, ChatGoesOn
<1>7. PICK o : o = Outcome(turn, m.called)
  OBVIOUS
<1> DEFINE has == turn.calls # << >> \/ m.called
<1>8. /\ o.fails \in BOOLEAN /\ (o.fails => ~has /\ turn.error # "none")
      /\ ~o.fails => (o.reason = "tool_calls" <=> has) /\ (required => has)
  <2>1. r.called => m.called
    BY <1>4, <1>6 DEF ChatGoesOn
  <2> QED BY <1>2, <1>7, <2>1, OutcomeFacts
<1>9. ChatOk(m, offered) /\ m.error = "none" /\ (has <=> m.called)
  BY <1>4, <1>6 DEF ChatGoesOn
<1> HIDE DEF has
<1>10. CASE o.fails
  <2>1. turn.error \notin {"none", "context_cancelled"} /\ (turn.error = "tool_choice_violation" => required)
    BY <1>2, <1>8, <1>10 DEF TurnOk, Errors
  <2>2. Ended(ChatFail(m, turn.error), offered, required)
    BY <1>9, <2>1, ChatFailEnds
  <2>3. ChatOk([m EXCEPT !.error = turn.error], offered)
    BY <1>9 DEF ChatOk, ChatFields, Running
  <2>4. PICK a, b : a = ChatFail(m, turn.error) /\ b = [m EXCEPT !.error = turn.error]
    OBVIOUS
  <2>5. ChatConclude(m, turn, o, defer) = IF defer THEN [rt |-> b, over |-> FALSE] ELSE [rt |-> a, over |-> TRUE]
    BY <1>10, <2>4 DEF ChatConclude
  <2>6. ChatFinalize(r, reason, defer, offered, required) = ChatConclude(m, turn, o, defer)
    BY <1>1, <1>3, <1>5, <1>7 DEF ChatFinalize, ChatTurnJudged, ChatJudge
  <2> QED BY <2>2, <2>3, <2>4, <2>5, <2>6
<1>11. CASE ~o.fails
  <2>1. Ended(ChatFinish(m, o.reason), offered, required)
    BY <1>8, <1>9, <1>11, ChatFinishEnds
  <2>2. PICK a : a = ChatFinish(m, o.reason)
    OBVIOUS
  <2>3. ChatConclude(m, turn, o, defer) = [rt |-> a, over |-> TRUE]
    BY <1>11, <2>2 DEF ChatConclude
  <2>4. ChatFinalize(r, reason, defer, offered, required) = ChatConclude(m, turn, o, defer)
    BY <1>1, <1>3, <1>5, <1>7 DEF ChatFinalize, ChatTurnJudged, ChatJudge
  <2> QED BY <2>1, <2>2, <2>3, <2>4
<1> QED BY <1>8, <1>10, <1>11

--------------------------------------------------------------------------------
(* The responses runtime *)

RespGoesOn(m, r, offered, n) == RespMid(m, offered, n) /\ m.error = r.error /\ (r.called => m.called)

(* A frame is sent: the items announced and closed are those before, and   *)
(* the one of the frame.                                                   *)
ItemOf(frame, ev) == IF frame.ev = ev THEN {[id |-> frame.id, index |-> frame.index]} ELSE {}

(* What a frame changes of a response. *)
LEMMA RespSendFacts ==
  ASSUME NEW r, NEW offered, DOMAIN r = RespFields, Running(r, offered), NEW frame, Shows(frame, offered)
  PROVE  LET m == RespSend(r, frame)
         IN  /\ DOMAIN m = RespFields /\ m.acc = r.acc /\ m.sieve = r.sieve /\ m.batch = r.batch
             /\ m.called = r.called /\ m.error = r.error /\ m.message = r.message /\ m.functions = r.functions
             /\ m.nextIndex = r.nextIndex /\ m.nextId = r.nextId /\ m.object = r.object
             /\ IsSeq(m.sent) /\ Shown(m.sent, Len(m.sent), offered)
             /\ CalledIn(m.sent, Len(m.sent)) <=> r.called \/ Calling(frame)
             /\ AddedTo(m) = AddedTo(r) \cup ItemOf(frame, "item added")
             /\ DoneIn(m) = DoneIn(r) \cup ItemOf(frame, "item done")
<1>1. PICK more : more = Append(r.sent, frame)
  OBVIOUS
<1>2. /\ IsSeq(more) /\ Shown(more, Len(more), offered)
      /\ CalledIn(more, Len(more)) <=> r.called \/ Calling(frame)
      /\ \A ev : ItemsIn(more, Len(more), ev) = ItemsIn(r.sent, Len(r.sent), ev) \cup ItemOf(frame, ev)
  <2>1. IsSeq(r.sent) /\ Shown(r.sent, Len(r.sent), offered) /\ (r.called <=> CalledIn(r.sent, Len(r.sent)))
    BY DEF Running
  <2>2. /\ IsSeq(more) /\ Shown(more, Len(more), offered)
        /\ CalledIn(more, Len(more)) <=> CalledIn(r.sent, Len(r.sent)) \/ Calling(frame)
    BY <1>1, <2>1, SentMore
  <2>3. \A ev : ItemsIn(more, Len(more), ev) = ItemsIn(r.sent, Len(r.sent), ev) \cup ItemOf(frame, ev)
    BY <1>1, <2>1, SentMore, Zenon DEF ItemOf
  <2> QED BY <2>1, <2>2, <2>3
<1>3. PICK m : m = [r EXCEPT !.sent = more]
  OBVIOUS
<1>4. /\ DOMAIN m = RespFields /\ m.acc = r.acc /\ m.sieve = r.sieve /\ m.batch = r.batch
      /\ m.called = r.called /\ m.error = r.error /\ m.message = r.message /\ m.functions = r.functions
      /\ m.nextIndex = r.nextIndex /\ m.nextId = r.nextId /\ m.object = r.object /\ m.sent = more
  BY <1>3 DEF RespFields
<1>5. AddedTo(m) = AddedTo(r) \cup ItemOf(frame, "item added") /\ DoneIn(m) = DoneIn(r) \cup ItemOf(frame, "item done")
  BY <1>2, <1>4 DEF AddedTo, DoneIn
<1>6. RespSend(r, frame) = m
  BY <1>1, <1>3 DEF RespSend
<1> QED BY <1>2, <1>4, <1>5, <1>6

(* What holds of the items of a runtime depends on a part of it only. *)
LEMMA SameItems ==
  ASSUME NEW r, NEW m, AddedTo(m) = AddedTo(r), DoneIn(m) = DoneIn(r), m.nextIndex = r.nextIndex,
         m.nextId = r.nextId, DOMAIN m.message = DOMAIN r.message, m.message.added = r.message.added,
         m.message.index = r.message.index, ItemsOk(r)
  PROVE  ItemsOk(m)
<1>1. MessageItem(m) = MessageItem(r)
  BY DEF MessageItem
<1>2. MessageOk(m)
  BY <1>1 DEF ItemsOk, MessageOk
<1> QED BY <1>2 DEF ItemsOk

(* A frame that announces no item, closes none and carries no call. *)
Plain == {"reasoning", "created", "part added", "part done", "text", "text done"}

(* A plain frame makes no call and is about no item. *)
LEMMA PlainFrames ==
  ASSUME NEW frame, frame.ev \in Plain, NEW offered
  PROVE  Shows(frame, offered) /\ ~Calling(frame) /\ ItemOf(frame, "item added") = {} /\ ItemOf(frame, "item done") = {}
BY DEF Plain, Shows, Quiet, Calling, ItemOf

(* A plain frame leaves a response going on. *)
LEMMA PlainSent ==
  ASSUME NEW r, NEW offered, NEW n, RespMid(r, offered, n), NEW frame, frame.ev \in Plain
  PROVE  LET m == RespSend(r, frame)
         IN  RespGoesOn(m, r, offered, n) /\ m.called = r.called /\ m.message = r.message
<1>1. PICK m : m = RespSend(r, frame)
  OBVIOUS
<1>2. /\ DOMAIN m = RespFields /\ m.acc = r.acc /\ m.sieve = r.sieve
      /\ m.called = r.called /\ m.error = r.error /\ m.message = r.message /\ m.functions = r.functions
      /\ m.nextIndex = r.nextIndex /\ m.nextId = r.nextId /\ m.object = r.object
      /\ IsSeq(m.sent) /\ Shown(m.sent, Len(m.sent), offered)
      /\ CalledIn(m.sent, Len(m.sent)) <=> r.called
      /\ AddedTo(m) = AddedTo(r) /\ DoneIn(m) = DoneIn(r)
  <2>1. DOMAIN r = RespFields /\ Running(r, offered)
    BY DEF RespMid
  <2>2. Shows(frame, offered) /\ ~Calling(frame) /\ ItemOf(frame, "item added") = {} /\ ItemOf(frame, "item done") = {}
    BY PlainFrames
  <2>3. /\ DOMAIN m = RespFields /\ m.acc = r.acc /\ m.sieve = r.sieve
        /\ m.called = r.called /\ m.error = r.error /\ m.message = r.message /\ m.functions = r.functions
        /\ m.nextIndex = r.nextIndex /\ m.nextId = r.nextId /\ m.object = r.object
    BY <1>1, <2>1, <2>2, RespSendFacts
  <2>4. /\ IsSeq(m.sent) /\ Shown(m.sent, Len(m.sent), offered)
        /\ CalledIn(m.sent, Len(m.sent)) <=> r.called \/ Calling(frame)
    BY <1>1, <2>1, <2>2, RespSendFacts
  <2>5. /\ AddedTo(m) = AddedTo(r) \cup ItemOf(frame, "item added")
        /\ DoneIn(m) = DoneIn(r) \cup ItemOf(frame, "item done")
    BY <1>1, <2>1, <2>2, RespSendFacts
  <2>6. r.called \in BOOLEAN
    BY <2>1 DEF Running
  <2> QED BY <2>2, <2>3, <2>4, <2>5, <2>6
<1>3. ItemsOk(m)
  BY <1>2, SameItems DEF RespMid
<1>4. FunctionsOk(m, n)
  BY <1>2 DEF RespMid, FunctionsOk
<1>5. Running(m, offered)
  BY <1>2 DEF RespMid, Running
<1> QED BY <1>1, <1>2, <1>3, <1>4, <1>5 DEF RespGoesOn, RespMid

(* The message is filled: what its items are told by stays. *)
LEMMA MessageFilled ==
  ASSUME NEW r, NEW offered, NEW n, RespMid(r, offered, n), NEW message, DOMAIN message = DOMAIN r.message,
         message.added = r.message.added, message.index = r.message.index
  PROVE  LET m == [r EXCEPT !.message = message]
         IN  RespGoesOn(m, r, offered, n) /\ m.message = message /\ m.called = r.called
<1>1. PICK m : m = [r EXCEPT !.message = message]
  OBVIOUS
<1>2. /\ DOMAIN m = RespFields /\ m.acc = r.acc /\ m.sieve = r.sieve
      /\ m.called = r.called /\ m.error = r.error /\ m.message = message /\ m.functions = r.functions
      /\ m.nextIndex = r.nextIndex /\ m.nextId = r.nextId /\ m.object = r.object /\ m.sent = r.sent
  BY <1>1 DEF RespMid, RespFields
<1>3. AddedTo(m) = AddedTo(r) /\ DoneIn(m) = DoneIn(r)
  BY <1>2 DEF AddedTo, DoneIn
<1>4. ItemsOk(m)
  BY <1>2, <1>3, SameItems DEF RespMid
<1>5. FunctionsOk(m, n)
  BY <1>2, <1>3 DEF RespMid, FunctionsOk
<1>6. Running(m, offered)
  BY <1>2 DEF RespMid, Running
<1> QED BY <1>1, <1>2, <1>4, <1>5, <1>6 DEF RespGoesOn, RespMid

(* The message is announced once, under an output index of its own. *)
LEMMA MessageAddedKeeps ==
  ASSUME NEW r, NEW offered, NEW n, RespMid(r, offered, n)
  PROVE  RespGoesOn(MessageAdded(r), r, offered, n) /\ MessageAdded(r).message.added = TRUE
<1>1. CASE r.message.added
  BY <1>1 DEF MessageAdded, RespGoesOn, RespMid, ItemsOk, MessageOk
<1>2. CASE ~r.message.added
  <2>1. DOMAIN r = RespFields /\ r.message.index = -1 /\ r.nextIndex \in Nat
        /\ DOMAIN r.message = {"added", "part", "index", "text"}
    BY <1>2 DEF RespMid, ItemsOk, MessageOk
  <2>2. PICK base : base = WithMessageIndex(r)
    OBVIOUS
  <2>3. base = [r EXCEPT !.message.index = r.nextIndex, !.nextIndex = @ + 1]
    BY <2>1, <2>2 DEF WithMessageIndex
  <2>4. /\ DOMAIN base = RespFields /\ base.acc = r.acc /\ base.sieve = r.sieve
        /\ base.called = r.called /\ base.error = r.error /\ base.functions = r.functions
        /\ base.nextIndex = r.nextIndex + 1 /\ base.nextId = r.nextId /\ base.object = r.object /\ base.sent = r.sent
        /\ DOMAIN base.message = {"added", "part", "index", "text"} /\ base.message.index = r.nextIndex
    BY <2>1, <2>3 DEF RespFields
  <2>5. AddedTo(base) = AddedTo(r) /\ DoneIn(base) = DoneIn(r) /\ Running(base, offered)
    BY <2>4 DEF AddedTo, DoneIn, RespMid, Running
  <2>6. PICK item : item = [id |-> 0, index |-> r.nextIndex]
    OBVIOUS
  <2>7. PICK frame : frame = ItemAdded(item)
    OBVIOUS
  <2>8. Shows(frame, offered) /\ ~Calling(frame) /\ ItemOf(frame, "item added") = {item} /\ ItemOf(frame, "item done") = {}
    BY <2>6, <2>7 DEF ItemAdded, Shows, Quiet, Calling, ItemOf
  <2>9. PICK s : s = RespSend(base, frame)
    OBVIOUS
  <2>10. /\ DOMAIN s = RespFields /\ s.acc = r.acc /\ s.sieve = r.sieve
         /\ s.called = r.called /\ s.error = r.error /\ s.message = base.message /\ s.functions = r.functions
         /\ s.nextIndex = r.nextIndex + 1 /\ s.nextId = r.nextId /\ s.object = r.object
         /\ IsSeq(s.sent) /\ Shown(s.sent, Len(s.sent), offered)
         /\ CalledIn(s.sent, Len(s.sent)) <=> r.called
         /\ AddedTo(s) = AddedTo(r) \cup {item} /\ DoneIn(s) = DoneIn(r)
    <3>1. /\ DOMAIN s = RespFields /\ s.acc = base.acc /\ s.sieve = base.sieve
          /\ s.called = base.called /\ s.error = base.error /\ s.message = base.message
          /\ s.functions = base.functions
          /\ s.nextIndex = base.nextIndex /\ s.nextId = base.nextId /\ s.object = base.object
      BY <2>4, <2>5, <2>8, <2>9, RespSendFacts
    <3>2. /\ IsSeq(s.sent) /\ Shown(s.sent, Len(s.sent), offered)
          /\ CalledIn(s.sent, Len(s.sent)) <=> base.called \/ Calling(frame)
      BY <2>4, <2>5, <2>8, <2>9, RespSendFacts
    <3>3. /\ AddedTo(s) = AddedTo(base) \cup ItemOf(frame, "item added")
          /\ DoneIn(s) = DoneIn(base) \cup ItemOf(frame, "item done")
      BY <2>4, <2>5, <2>8, <2>9, RespSendFacts
    <3>4. base.called \in BOOLEAN
      BY <2>5 DEF Running
    <3> QED BY <2>4, <2>5, <2>8, <3>1, <3>2, <3>3, <3>4
  <2>11. PICK m : m = [s EXCEPT !.message.added = TRUE]
    OBVIOUS
  <2>12. /\ DOMAIN m = RespFields /\ m.acc = r.acc /\ m.sieve = r.sieve /\ m.sent = s.sent
         /\ m.called = r.called /\ m.error = r.error /\ m.functions = r.functions
         /\ m.nextIndex = r.nextIndex + 1 /\ m.nextId = r.nextId /\ m.object = r.object
         /\ DOMAIN m.message = {"added", "part", "index", "text"}
         /\ m.message.index = r.nextIndex /\ m.message.added = TRUE
    BY <2>4, <2>10, <2>11 DEF RespFields
  <2>13. AddedTo(m) = AddedTo(r) \cup {item} /\ DoneIn(m) = DoneIn(r)
    BY <2>10, <2>12 DEF AddedTo, DoneIn
  <2>14. ItemsOk(m)
    <3>1. MessageItem(m) = item
      BY <2>6, <2>12 DEF MessageItem
    <3>2. item.id = 0 /\ item.index = r.nextIndex
      BY <2>6
    <3>3. MessageOk(m)
      BY <2>1, <2>12, <2>13, <3>1 DEF MessageOk
    <3>4. /\ r.nextId \in Nat \ {0}
          /\ \A a \in AddedTo(r) : /\ a.id \in 0 .. (r.nextId - 1) /\ a.index \in 0 .. (r.nextIndex - 1)
                                   /\ a.id # 0
          /\ \A a, b \in AddedTo(r) : a.index = b.index => a = b
          /\ DoneIn(r) \subseteq AddedTo(r)
          /\ \A a \in AddedTo(r) : a.id # 0 => a \in DoneIn(r)
      BY <2>1 DEF RespMid, ItemsOk
    <3>5. \A a \in AddedTo(m) : /\ a.id \in 0 .. (m.nextId - 1) /\ a.index \in 0 .. (m.nextIndex - 1)
                                /\ a.id = 0 <=> a.index = m.message.index
      BY <2>1, <2>12, <2>13, <3>2, <3>4
    <3>6. \A a, b \in AddedTo(m) : a.index = b.index => a = b
      BY <2>1, <2>13, <3>2, <3>4
    <3>7. DoneIn(m) \subseteq AddedTo(m) /\ \A a \in AddedTo(m) : a.id # 0 => a \in DoneIn(m)
      BY <2>13, <3>2, <3>4
    <3> QED BY <2>1, <2>12, <3>3, <3>4, <3>5, <3>6, <3>7 DEF ItemsOk
  <2>15. FunctionsOk(m, n)
    BY <2>12, <2>13 DEF RespMid, FunctionsOk
  <2>16. Running(m, offered)
    BY <2>10, <2>12 DEF RespMid, Running
  <2>17. MessageAdded(r) = m
    <3>1. MessageItem(base) = item
      BY <2>4, <2>6 DEF MessageItem
    <3> QED BY <1>2, <2>2, <2>7, <2>9, <2>11, <3>1 DEF MessageAdded
  <2> QED BY <2>12, <2>14, <2>15, <2>16, <2>17 DEF RespGoesOn, RespMid
<1> QED BY <1>1, <1>2

(* A response that goes on twice goes on. *)
LEMMA GoesOnTwice ==
  ASSUME NEW r, NEW m, NEW l, NEW offered, NEW n, NEW k, RespGoesOn(m, r, offered, n), RespGoesOn(l, m, offered, k)
  PROVE  RespGoesOn(l, r, offered, k)
BY DEF RespGoesOn

(* The message is announced, with its part. *)
LEMMA PartAddedKeeps ==
  ASSUME NEW r, NEW offered, NEW n, RespMid(r, offered, n)
  PROVE  RespGoesOn(PartAdded(r), r, offered, n)
<1>1. CASE r.message.part
  BY <1>1 DEF PartAdded, RespGoesOn
<1>2. CASE ~r.message.part
  <2>1. PICK a, b : a = MessageAdded(r) /\ b = RespSend(a, PartAddedFrame)
    OBVIOUS
  <2>2. RespGoesOn(a, r, offered, n)
    BY <2>1, MessageAddedKeeps
  <2>3. PICK frame : frame = PartAddedFrame
    OBVIOUS
  <2>4. frame.ev \in Plain
    BY <2>3 DEF PartAddedFrame, Plain
  <2>5. RespGoesOn(b, a, offered, n)
    BY <2>1, <2>2, <2>3, <2>4, PlainSent DEF RespGoesOn
  <2>6. DOMAIN b.message = {"added", "part", "index", "text"}
    BY <2>5 DEF RespGoesOn, RespMid, ItemsOk, MessageOk
  <2>7. PICK message : message = [b.message EXCEPT !.part = TRUE]
    OBVIOUS
  <2>8. DOMAIN message = DOMAIN b.message /\ message.added = b.message.added /\ message.index = b.message.index
    BY <2>6, <2>7
  <2>9. RespGoesOn([b EXCEPT !.message = message], b, offered, n)
    BY <2>5, <2>8, MessageFilled DEF RespGoesOn
  <2>10. RespGoesOn([b EXCEPT !.message = message], r, offered, n)
    BY <2>2, <2>5, <2>9 DEF RespGoesOn
  <2>11. PartAdded(r) = [b EXCEPT !.message.part = TRUE]
    BY <1>2, <2>1 DEF PartAdded
  <2>12. [b EXCEPT !.message.part = TRUE] = [b EXCEPT !.message = message]
    BY <2>7
  <2> QED BY <2>10, <2>11, <2>12
<1> QED BY <1>1, <1>2

(* Text goes into the message. *)
LEMMA EmitTextKeeps ==
  ASSUME NEW r, NEW offered, NEW n, RespMid(r, offered, n), NEW s
  PROVE  RespGoesOn(EmitText(r, s), r, offered, n)
<1>1. PICK a, frame : a = PartAdded(r) /\ frame = TextDelta(s)
  OBVIOUS
<1>2. PICK b : b = RespSend(a, frame)
  OBVIOUS
<1>3. RespGoesOn(a, r, offered, n)
  BY <1>1, PartAddedKeeps
<1>4. frame.ev \in Plain
  BY <1>1 DEF TextDelta, Plain
<1>5. RespGoesOn(b, a, offered, n)
  BY <1>2, <1>3, <1>4, PlainSent DEF RespGoesOn
<1>6. DOMAIN b.message = {"added", "part", "index", "text"}
  BY <1>5 DEF RespGoesOn, RespMid, ItemsOk, MessageOk
<1>7. PICK message : message = [b.message EXCEPT !.text = @ \o s]
  OBVIOUS
<1>8. DOMAIN message = DOMAIN b.message /\ message.added = b.message.added /\ message.index = b.message.index
  BY <1>6, <1>7
<1>9. RespGoesOn([b EXCEPT !.message = message], b, offered, n)
  BY <1>5, <1>8, MessageFilled DEF RespGoesOn
<1>10. RespGoesOn([b EXCEPT !.message = message], r, offered, n)
  BY <1>3, <1>5, <1>9 DEF RespGoesOn
<1>11. EmitText(r, s) = IF s = << >> THEN r ELSE [b EXCEPT !.message.text = @ \o s]
  BY <1>1, <1>2 DEF EmitText
<1>12. [b EXCEPT !.message.text = @ \o s] = [b EXCEPT !.message = message]
  BY <1>7
<1>13. RespGoesOn(r, r, offered, n)
  BY DEF RespGoesOn
<1> QED BY <1>10, <1>11, <1>12, <1>13

(* The message is closed: every item announced is. *)
LEMMA CloseMessageKeeps ==
  ASSUME NEW r, NEW offered, NEW n, RespMid(r, offered, n)
  PROVE  LET m == CloseMessage(r)
         IN  /\ RespGoesOn(m, r, offered, n) /\ m.called = r.called
             /\ AddedTo(m) = DoneIn(m)
<1>1. CASE ~r.message.added
  <2>1. CloseMessage(r) = r
    BY <1>1 DEF CloseMessage
  <2>2. \A a \in AddedTo(r) : a.id # 0
    BY <1>1 DEF RespMid, ItemsOk, MessageOk
  <2>3. AddedTo(r) = DoneIn(r)
    BY <2>2 DEF RespMid, ItemsOk
  <2> QED BY <2>1, <2>3 DEF RespGoesOn
<1>2. CASE r.message.added
  <2>1. PICK a, b : a = RespSend(r, TextDone) /\ b = RespSend(a, PartDone)
    OBVIOUS
  <2>2. PICK f, g : f = TextDone /\ g = PartDone
    OBVIOUS
  <2>3. f.ev \in Plain /\ g.ev \in Plain
    BY <2>2 DEF TextDone, PartDone, Plain
  <2>4. RespGoesOn(a, r, offered, n) /\ a.called = r.called /\ a.message = r.message
    BY <2>1, <2>2, <2>3, PlainSent
  <2>5. RespGoesOn(b, a, offered, n) /\ b.called = a.called /\ b.message = a.message
    BY <2>1, <2>2, <2>3, <2>4, PlainSent DEF RespGoesOn
  <2>6. DOMAIN b.message = {"added", "part", "index", "text"}
    BY <2>5 DEF RespGoesOn, RespMid, ItemsOk, MessageOk
  <2>7. PICK message : message = [b.message EXCEPT !.part = FALSE]
    OBVIOUS
  <2>8. DOMAIN message = DOMAIN b.message /\ message.added = b.message.added /\ message.index = b.message.index
    BY <2>6, <2>7
  <2>9. PICK c : c = [b EXCEPT !.message = message]
    OBVIOUS
  <2>10. RespGoesOn(c, b, offered, n) /\ c.message = message /\ c.called = b.called
    BY <2>5, <2>8, <2>9, MessageFilled DEF RespGoesOn
  <2>11. PICK part : part = IF r.message.part THEN c ELSE r
    OBVIOUS
  <2>12. RespGoesOn(part, r, offered, n) /\ part.called = r.called
         /\ part.message.index = r.message.index /\ part.message.added
    BY <1>2, <2>4, <2>5, <2>8, <2>10, <2>11 DEF RespGoesOn
  <2>13. PICK item, frame : item = MessageItem(r) /\ frame = ItemDone(item)
    OBVIOUS
  <2>14. item = MessageItem(part)
    BY <2>12, <2>13 DEF MessageItem
  <2>15. item \in AddedTo(part) /\ \A x \in AddedTo(part) : x.id = 0 => x = item
    <3>1. item.index = part.message.index /\ item \in AddedTo(part)
      BY <2>12, <2>14 DEF RespGoesOn, RespMid, ItemsOk, MessageOk, MessageItem
    <3>2. \A x \in AddedTo(part) : x.id = 0 => x.index = item.index
      BY <2>12, <3>1 DEF RespGoesOn, RespMid, ItemsOk
    <3>3. \A x, y \in AddedTo(part) : x.index = y.index => x = y
      BY <2>12 DEF RespGoesOn, RespMid, ItemsOk
    <3> QED BY <3>1, <3>2, <3>3
  <2>16. Shows(frame, offered) /\ ~Calling(frame) /\ ItemOf(frame, "item added") = {} /\ ItemOf(frame, "item done") = {item}
    BY <2>13 DEF ItemDone, Shows, Quiet, Calling, ItemOf, MessageItem
  <2>17. PICK m : m = RespSend(part, frame)
    OBVIOUS
  <2>18. DOMAIN part = RespFields /\ Running(part, offered)
    BY <2>12 DEF RespGoesOn, RespMid
  <2>19. /\ DOMAIN m = RespFields /\ m.acc = part.acc /\ m.sieve = part.sieve
         /\ m.called = part.called /\ m.error = part.error /\ m.message = part.message /\ m.functions = part.functions
         /\ m.nextIndex = part.nextIndex /\ m.nextId = part.nextId /\ m.object = part.object
    BY <2>16, <2>17, <2>18, RespSendFacts
  <2>20. /\ IsSeq(m.sent) /\ Shown(m.sent, Len(m.sent), offered)
         /\ CalledIn(m.sent, Len(m.sent)) <=> part.called \/ Calling(frame)
    BY <2>16, <2>17, <2>18, RespSendFacts
  <2>21. /\ AddedTo(m) = AddedTo(part) \cup ItemOf(frame, "item added")
         /\ DoneIn(m) = DoneIn(part) \cup ItemOf(frame, "item done")
    BY <2>16, <2>17, <2>18, RespSendFacts
  <2>22. AddedTo(m) = AddedTo(part) /\ DoneIn(m) = DoneIn(part) \cup {item}
    BY <2>16, <2>21
  <2>23. Running(m, offered)
    BY <2>16, <2>18, <2>19, <2>20 DEF Running
  <2>24. ItemsOk(part)
    BY <2>12 DEF RespGoesOn, RespMid
  <2>25. ItemsOk(m) /\ AddedTo(m) = DoneIn(m)
    <3>1. MessageItem(m) = MessageItem(part)
      BY <2>19 DEF MessageItem
    <3>2. MessageOk(m)
      BY <2>19, <2>22, <2>24, <3>1 DEF ItemsOk, MessageOk
    <3>3. DoneIn(m) \subseteq AddedTo(m)
      BY <2>15, <2>22, <2>24 DEF ItemsOk
    <3>4. \A x \in AddedTo(m) : x \in DoneIn(m)
      BY <2>15, <2>22, <2>24 DEF ItemsOk
    <3> QED BY <2>19, <2>22, <2>24, <3>2, <3>3, <3>4 DEF ItemsOk
  <2>26. FunctionsOk(m, n)
    BY <2>12, <2>19, <2>22 DEF RespGoesOn, RespMid, FunctionsOk
  <2>27. RespGoesOn(m, r, offered, n) /\ m.called = r.called
    BY <2>12, <2>19, <2>23, <2>25, <2>26 DEF RespGoesOn, RespMid
  <2>28. CloseMessage(r) = m
    <3>1. c = [b EXCEPT !.message.part = FALSE]
      BY <2>7, <2>9
    <3> QED BY <1>2, <2>1, <2>11, <2>13, <2>17, <3>1 DEF CloseMessage
  <2> QED BY <2>25, <2>27, <2>28
<1> QED BY <1>1, <1>2 DEF RespMid, ItemsOk, MessageOk

(* A batch is put together, and goes out. *)
LEMMA BatchTouched ==
  ASSUME NEW r, NEW offered, NEW n, RespMid(r, offered, n), NEW batch
  PROVE  RespGoesOn([r EXCEPT !.batch = batch], r, offered, n)
<1>1. PICK m : m = [r EXCEPT !.batch = batch]
  OBVIOUS
<1>2. /\ DOMAIN m = RespFields /\ m.acc = r.acc /\ m.sieve = r.sieve
      /\ m.called = r.called /\ m.error = r.error /\ m.message = r.message /\ m.functions = r.functions
      /\ m.nextIndex = r.nextIndex /\ m.nextId = r.nextId /\ m.object = r.object /\ m.sent = r.sent
  BY <1>1 DEF RespMid, RespFields
<1>3. AddedTo(m) = AddedTo(r) /\ DoneIn(m) = DoneIn(r)
  BY <1>2 DEF AddedTo, DoneIn
<1>4. ItemsOk(m)
  BY <1>2, <1>3, SameItems DEF RespMid
<1>5. FunctionsOk(m, n)
  BY <1>2, <1>3 DEF RespMid, FunctionsOk
<1>6. Running(m, offered)
  BY <1>2 DEF RespMid, Running
<1> QED BY <1>1, <1>2, <1>4, <1>5, <1>6 DEF RespGoesOn, RespMid

(* The batch becomes text of the message, or reasoning. *)
LEMMA RespFlushBatchKeeps ==
  ASSUME NEW r, NEW offered, NEW n, RespMid(r, offered, n)
  PROVE  RespGoesOn(RespFlushBatch(r), r, offered, n)
<1>1. PICK none : none = [kind |-> "text", text |-> << >>]
  OBVIOUS
<1>2. PICK cleared : cleared = [r EXCEPT !.batch = none]
  OBVIOUS
<1>3. PICK frame, text : frame = ReasoningDelta(r.batch.text) /\ text = r.batch.text
  OBVIOUS
<1>4. RespGoesOn(cleared, r, offered, n)
  BY <1>2, BatchTouched
<1>5. RespGoesOn(EmitText(cleared, text), r, offered, n)
  BY <1>4, EmitTextKeeps DEF RespGoesOn
<1>6. frame.ev \in Plain
  BY <1>3 DEF ReasoningDelta, Plain
<1>7. RespGoesOn(RespSend(cleared, frame), r, offered, n)
  BY <1>4, <1>6, PlainSent DEF RespGoesOn
<1>8. RespGoesOn(r, r, offered, n)
  BY DEF RespGoesOn
<1>9. RespFlushBatch(r) = IF text = << >> THEN r
                          ELSE IF r.batch.kind = "text" THEN EmitText(cleared, text)
                          ELSE RespSend(cleared, frame)
  BY <1>1, <1>2, <1>3 DEF RespFlushBatch
<1> QED BY <1>5, <1>7, <1>8, <1>9

(* Text joins the batch, which a change of its kind flushes. *)
LEMMA RespBatchKeeps ==
  ASSUME NEW r, NEW offered, NEW n, RespMid(r, offered, n), NEW kind, NEW s
  PROVE  RespGoesOn(RespBatch(r, kind, s), r, offered, n)
<1>1. PICK ready : ready = IF r.batch.kind = kind THEN r ELSE RespFlushBatch(r)
  OBVIOUS
<1>2. RespGoesOn(r, r, offered, n)
  BY DEF RespGoesOn
<1>3. RespGoesOn(ready, r, offered, n)
  BY <1>1, <1>2, RespFlushBatchKeeps
<1>4. PICK batch : batch = [kind |-> kind, text |-> ready.batch.text \o s]
  OBVIOUS
<1>5. RespGoesOn([ready EXCEPT !.batch = batch], r, offered, n)
  BY <1>3, BatchTouched DEF RespGoesOn
<1>6. RespBatch(r, kind, s) = IF s = << >> THEN r ELSE [ready EXCEPT !.batch = batch]
  BY <1>1, <1>4 DEF RespBatch
<1> QED BY <1>2, <1>5, <1>6

(* One call of a block: its item is announced under an output index of its *)
(* own, the call is sent, and the item is closed.                          *)
LEMMA EmitCallKeeps ==
  ASSUME NEW r, NEW offered, NEW n \in Nat, RespMid(r, offered, n), NEW call, MayCall(call, offered)
  PROVE  RespGoesOn(EmitCall(r, n + 1, call), r, offered, n + 1) /\ EmitCall(r, n + 1, call).called = TRUE
<1>1. PICK i : i = n + 1
  OBVIOUS
<1>2. DOMAIN r.functions = 1 .. n /\ i \notin DOMAIN r.functions /\ i \in Nat
  BY <1>1 DEF RespMid, FunctionsOk
<1>3. /\ DOMAIN r = RespFields /\ Running(r, offered) /\ r.nextIndex \in Nat /\ r.nextId \in Nat \ {0}
      /\ ItemsOk(r) /\ FunctionsOk(r, n) /\ r.object = NoObject
  BY DEF RespMid, ItemsOk
<1>4. PICK f, item : f = [id |-> r.nextId, index |-> r.nextIndex, done |-> FALSE]
                     /\ item = [id |-> r.nextId, index |-> r.nextIndex]
  OBVIOUS
<1>5. PICK g : g = Entered(r.functions, i, f)
  OBVIOUS
<1>6. DOMAIN g = (1 .. n) \cup {i} /\ g[i] = f /\ \A x \in 1 .. n : g[x] = r.functions[x]
  BY <1>2, <1>5 DEF Entered
<1>7. PICK w : w = WithFunction(r, i)
  OBVIOUS
<1>8. w = [r EXCEPT !.functions = g, !.nextId = @ + 1, !.nextIndex = @ + 1]
  BY <1>2, <1>4, <1>5, <1>7 DEF WithFunction
<1>9. /\ DOMAIN w = RespFields /\ w.acc = r.acc /\ w.sieve = r.sieve
      /\ w.called = r.called /\ w.error = r.error /\ w.message = r.message /\ w.functions = g
      /\ w.nextIndex = r.nextIndex + 1 /\ w.nextId = r.nextId + 1 /\ w.object = r.object /\ w.sent = r.sent
  BY <1>3, <1>8 DEF RespFields
<1>10. AddedTo(w) = AddedTo(r) /\ DoneIn(w) = DoneIn(r) /\ Running(w, offered)
  BY <1>3, <1>9 DEF AddedTo, DoneIn, Running
<1>11. PICK fa, fc, fd : fa = ItemAdded(item) /\ fc = CallDone(call, item) /\ fd = ItemDone(item)
  OBVIOUS
<1>12. /\ Shows(fa, offered) /\ ~Calling(fa) /\ ItemOf(fa, "item added") = {item} /\ ItemOf(fa, "item done") = {}
       /\ Shows(fd, offered) /\ ~Calling(fd) /\ ItemOf(fd, "item added") = {} /\ ItemOf(fd, "item done") = {item}
  BY <1>4, <1>11 DEF ItemAdded, ItemDone, Shows, Quiet, Calling, ItemOf
<1>13. Shows(fc, offered) /\ Calling(fc) /\ ItemOf(fc, "item added") = {} /\ ItemOf(fc, "item done") = {}
  BY <1>11 DEF CallDone, Shows, Calling, ItemOf
<1>14. PICK a : a = RespSend(w, fa)
  OBVIOUS
<1>15. /\ DOMAIN a = RespFields /\ a.acc = r.acc /\ a.sieve = r.sieve
       /\ a.called = r.called /\ a.error = r.error /\ a.message = r.message /\ a.functions = g
       /\ a.nextIndex = r.nextIndex + 1 /\ a.nextId = r.nextId + 1 /\ a.object = r.object
  <2>1. DOMAIN w = RespFields /\ Running(w, offered) /\ Shows(fa, offered)
    BY <1>9, <1>10, <1>12
  <2>2. DOMAIN a = RespFields /\ a.acc = w.acc /\ a.sieve = w.sieve
    BY <1>14, <2>1, RespSendFacts
  <2>3. a.called = w.called /\ a.error = w.error /\ a.message = w.message
    BY <1>14, <2>1, RespSendFacts
  <2>4. a.functions = w.functions /\ a.nextIndex = w.nextIndex
    BY <1>14, <2>1, RespSendFacts
  <2>5. a.nextId = w.nextId /\ a.object = w.object
    BY <1>14, <2>1, RespSendFacts
  <2> QED BY <1>9, <2>2, <2>3, <2>4, <2>5
<1>16. /\ IsSeq(a.sent) /\ Shown(a.sent, Len(a.sent), offered)
       /\ CalledIn(a.sent, Len(a.sent)) <=> w.called \/ Calling(fa)
  BY <1>9, <1>10, <1>12, <1>14, RespSendFacts
<1>17. AddedTo(a) = AddedTo(w) \cup ItemOf(fa, "item added") /\ DoneIn(a) = DoneIn(w) \cup ItemOf(fa, "item done")
  <2>1. DOMAIN w = RespFields /\ Running(w, offered) /\ Shows(fa, offered)
    BY <1>9, <1>10, <1>12
  <2> QED BY <1>14, <2>1, RespSendFacts
<1>18. Running(a, offered)
  BY <1>3, <1>9, <1>12, <1>15, <1>16 DEF Running
<1>19. PICK c : c = RespSend(a, fc)
  OBVIOUS
<1>20. /\ DOMAIN c = RespFields /\ c.acc = r.acc /\ c.sieve = r.sieve
       /\ c.called = r.called /\ c.error = r.error /\ c.message = r.message /\ c.functions = g
       /\ c.nextIndex = r.nextIndex + 1 /\ c.nextId = r.nextId + 1 /\ c.object = r.object
  <2>1. /\ DOMAIN c = RespFields /\ c.acc = a.acc /\ c.sieve = a.sieve
        /\ c.called = a.called /\ c.error = a.error /\ c.message = a.message /\ c.functions = a.functions
        /\ c.nextIndex = a.nextIndex /\ c.nextId = a.nextId /\ c.object = a.object
    BY <1>13, <1>15, <1>18, <1>19, RespSendFacts
  <2> QED BY <1>15, <2>1
<1>21. IsSeq(c.sent) /\ Shown(c.sent, Len(c.sent), offered) /\ CalledIn(c.sent, Len(c.sent))
  BY <1>13, <1>15, <1>18, <1>19, RespSendFacts
<1>22. AddedTo(c) = AddedTo(a) \cup ItemOf(fc, "item added") /\ DoneIn(c) = DoneIn(a) \cup ItemOf(fc, "item done")
  BY <1>13, <1>15, <1>18, <1>19, RespSendFacts
<1>23. PICK called : called = [c EXCEPT !.called = TRUE]
  OBVIOUS
<1>24. /\ DOMAIN called = RespFields /\ called.acc = r.acc /\ called.sieve = r.sieve
       /\ called.called = TRUE /\ called.error = r.error /\ called.message = r.message /\ called.functions = g
       /\ called.nextIndex = r.nextIndex + 1 /\ called.nextId = r.nextId + 1 /\ called.object = r.object
       /\ called.sent = c.sent
  BY <1>20, <1>23 DEF RespFields
<1>25. AddedTo(called) = AddedTo(c) /\ DoneIn(called) = DoneIn(c) /\ Running(called, offered)
  BY <1>3, <1>21, <1>24 DEF AddedTo, DoneIn, Running
<1>26. PICK d : d = RespSend(called, fd)
  OBVIOUS
<1>27. /\ DOMAIN d = RespFields /\ d.acc = r.acc /\ d.sieve = r.sieve
       /\ d.called = TRUE /\ d.error = r.error /\ d.message = r.message /\ d.functions = g
       /\ d.nextIndex = r.nextIndex + 1 /\ d.nextId = r.nextId + 1 /\ d.object = r.object
  BY <1>12, <1>24, <1>25, <1>26, RespSendFacts
<1>28. IsSeq(d.sent) /\ Shown(d.sent, Len(d.sent), offered) /\ CalledIn(d.sent, Len(d.sent))
  BY <1>12, <1>24, <1>25, <1>26, RespSendFacts
<1>29. AddedTo(d) = AddedTo(called) \cup ItemOf(fd, "item added")
       /\ DoneIn(d) = DoneIn(called) \cup ItemOf(fd, "item done")
  BY <1>12, <1>24, <1>25, <1>26, RespSendFacts
<1>30. PICK last : last = RespSend(c, fd)
  OBVIOUS
<1>31. last.sent = d.sent
  BY <1>20, <1>23, <1>24, <1>26, <1>30 DEF RespSend, RespFields
<1>32. PICK h : h = [g EXCEPT ![i].done = TRUE]
  OBVIOUS
<1>33. PICK m : m = [last EXCEPT !.functions[i].done = TRUE, !.called = TRUE]
  OBVIOUS
<1>34. DOMAIN last = RespFields /\ last.acc = r.acc /\ last.sieve = r.sieve
       /\ last.error = r.error /\ last.message = r.message /\ last.functions = g
       /\ last.nextIndex = r.nextIndex + 1 /\ last.nextId = r.nextId + 1 /\ last.object = r.object
  BY <1>20, <1>30 DEF RespSend, RespFields
<1>35. /\ DOMAIN m = RespFields /\ m.acc = r.acc /\ m.sieve = r.sieve /\ m.sent = d.sent
       /\ m.called = TRUE /\ m.error = r.error /\ m.message = r.message /\ m.functions = h
       /\ m.nextIndex = r.nextIndex + 1 /\ m.nextId = r.nextId + 1 /\ m.object = r.object
  BY <1>31, <1>32, <1>33, <1>34 DEF RespFields
<1>36. AddedTo(m) = AddedTo(r) \cup {item} /\ DoneIn(m) = DoneIn(r) \cup {item}
  <2>1. AddedTo(m) = AddedTo(d) /\ DoneIn(m) = DoneIn(d)
    BY <1>35 DEF AddedTo, DoneIn
  <2> QED BY <1>10, <1>12, <1>13, <1>17, <1>22, <1>25, <1>29, <2>1
<1>37. Running(m, offered)
  BY <1>3, <1>28, <1>35 DEF Running
<1>38. ItemsOk(m)
  <2>1. item.id = r.nextId /\ item.index = r.nextIndex
    BY <1>4
  <2>2. MessageOk(r)
    BY <1>3 DEF ItemsOk
  <2>3. MessageOk(m)
    <3>1. MessageItem(m) = MessageItem(r)
      BY <1>35 DEF MessageItem
    <3> QED BY <1>3, <1>35, <1>36, <2>2, <3>1 DEF MessageOk
  <2>4. r.message.index \in Int /\ r.message.index < r.nextIndex
    BY <1>3, <2>2 DEF MessageOk
  <2>5. /\ \A x \in AddedTo(r) : /\ x.id \in 0 .. (r.nextId - 1) /\ x.index \in 0 .. (r.nextIndex - 1)
                                 /\ x.id = 0 <=> x.index = r.message.index
        /\ \A x, y \in AddedTo(r) : x.index = y.index => x = y
        /\ DoneIn(r) \subseteq AddedTo(r)
        /\ \A x \in AddedTo(r) : x.id # 0 => x \in DoneIn(r)
    BY <1>3 DEF ItemsOk
  <2>6. \A x \in AddedTo(m) : /\ x.id \in 0 .. (m.nextId - 1) /\ x.index \in 0 .. (m.nextIndex - 1)
                              /\ x.id = 0 <=> x.index = m.message.index
    BY <1>3, <1>35, <1>36, <2>1, <2>4, <2>5
  <2>7. \A x, y \in AddedTo(m) : x.index = y.index => x = y
    BY <1>3, <1>36, <2>1, <2>5
  <2>8. DoneIn(m) \subseteq AddedTo(m) /\ \A x \in AddedTo(m) : x.id # 0 => x \in DoneIn(m)
    BY <1>36, <2>5
  <2>9. m.nextIndex \in Nat /\ m.nextId \in Nat \ {0}
    BY <1>3, <1>35
  <2> QED BY <2>3, <2>6, <2>7, <2>8, <2>9 DEF ItemsOk
<1>39. FunctionsOk(m, i)
  <2>1. DOMAIN h = 1 .. i
    BY <1>1, <1>6, <1>32
  <2>2. DOMAIN f = {"id", "index", "done"} /\ f.id = r.nextId /\ f.index = r.nextIndex
    BY <1>4
  <2>3. h[i].id = r.nextId /\ h[i].index = r.nextIndex
    BY <1>6, <1>32, <2>2
  <2>4. \A x \in 1 .. n : h[x] = r.functions[x]
    BY <1>2, <1>6, <1>32
  <2>5. \A x \in 1 .. i : x \in 1 .. n \/ x = i
    BY <1>1
  <2>6. [id |-> h[i].id, index |-> h[i].index] \in AddedTo(m)
    BY <1>4, <1>36, <2>3
  <2>7. \A x \in 1 .. n : [id |-> h[x].id, index |-> h[x].index] \in AddedTo(m)
    BY <1>3, <1>36, <2>4 DEF FunctionsOk
  <2> QED BY <1>35, <2>1, <2>5, <2>6, <2>7 DEF FunctionsOk
<1>40. EmitCall(r, i, call) = m
  <2>1. w.functions[i].id = r.nextId /\ w.functions[i].index = r.nextIndex /\ w.functions[i].done = FALSE
    BY <1>4, <1>6, <1>9
  <2>2. item = [id |-> w.functions[i].id, index |-> w.functions[i].index]
    BY <1>4, <2>1
  <2> QED BY <1>2, <1>7, <1>11, <1>14, <1>19, <1>30, <1>33, <2>1, <2>2 DEF EmitCall
<1> QED BY <1>1, <1>3, <1>35, <1>37, <1>38, <1>39, <1>40 DEF RespGoesOn, RespMid

(* The calls of a block one after another. *)
EmittedUpto(m, r, offered, i) == RespGoesOn(m, r, offered, i) /\ (i > 0 => m.called = TRUE)

(* The items of a block, call by call. *)
EmitCallsTrace(r, calls, n, after) ==
  /\ EmitCalls(r, calls) = after[n] /\ after[0] = r
  /\ \A i \in 1 .. n : after[i] = EmitCall(after[i - 1], i, calls[i])

LEMMA EmitCallsSteps ==
  ASSUME NEW r, NEW calls, NEW n \in Nat, n = Len(calls)
  PROVE  \E after : EmitCallsTrace(r, calls, n, after)
<1> DEFINE Step(m, i) == EmitCall(m, i, calls[i])
           Body(f) == [i \in 0 .. n |-> IF i = 0 THEN r ELSE Step(f[i - 1], i)]
           after == CHOOSE f : f = Body(f)
           Upto(k, g) == g = [i \in 0 .. k |-> IF i = 0 THEN r ELSE Step(g[i - 1], i)]
           Computed == {k \in Nat : \E g : Upto(k, g)}
<1>1. EmitCalls(r, calls) = after[n]
  BY DEF EmitCalls
<1> HIDE DEF Step
<1>2. 0 \in Computed
  <2>1. Upto(0, [i \in 0 .. 0 |-> r])
    OBVIOUS
  <2>2. \E g : Upto(0, g)
    BY <2>1
  <2> HIDE DEF Upto
  <2> QED BY <2>2
<1>3. ASSUME NEW k \in Nat, k \in Computed PROVE k + 1 \in Computed
  <2>1. PICK g : Upto(k, g)
    BY <1>3
  <2> DEFINE h == [i \in 0 .. (k + 1) |-> IF i <= k THEN g[i] ELSE Step(g[k], k + 1)]
  <2>2. ASSUME NEW i \in 0 .. (k + 1) PROVE h[i] = IF i = 0 THEN r ELSE Step(h[i - 1], i)
    <3>1. CASE i <= k
      <4>1. i \in 0 .. k /\ h[i] = g[i] /\ (i # 0 => h[i - 1] = g[i - 1])
        BY <3>1
      <4>2. g[i] = IF i = 0 THEN r ELSE Step(g[i - 1], i)
        BY <2>1, <4>1
      <4> QED BY <4>1, <4>2
    <3>2. CASE ~(i <= k)
      <4>1. i = k + 1 /\ i # 0 /\ h[i] = Step(g[k], k + 1) /\ h[i - 1] = g[k]
        BY <3>2
      <4> QED BY <4>1
    <3> QED BY <3>1, <3>2
  <2>3. h = [i \in 0 .. (k + 1) |-> h[i]]
    OBVIOUS
  <2> HIDE DEF h
  <2>4. Upto(k + 1, h)
    BY <2>2, <2>3
  <2>5. \E f : Upto(k + 1, f)
    BY <2>4
  <2> HIDE DEF Upto
  <2> QED BY <2>5
<1>4. n \in Computed
  <2> HIDE DEF Computed
  <2> QED BY <1>2, <1>3, SetInduction
<1>5. after = Body(after)
  <2>1. PICK g : g = Body(g)
    BY <1>4
  <2> HIDE DEF Body
  <2> QED BY <2>1
<1> HIDE DEF after, Upto, Computed
<1>6. after[0] = r /\ \A i \in 1 .. n : after[i] = Step(after[i - 1], i)
  <2>1. 0 \in 0 .. n /\ \A i \in 1 .. n : i \in 0 .. n /\ i # 0
    OBVIOUS
  <2> QED BY <1>5, <2>1
<1> HIDE DEF Body
<1> QED BY <1>1, <1>6 DEF Step, EmitCallsTrace

(* The calls of a block, one item each. *)
LEMMA EmitCallsKeep ==
  ASSUME NEW r, NEW offered, RespOk(r, offered), NEW calls, CallsOf(calls, offered)
  PROVE  EmittedUpto(EmitCalls(r, calls), r, offered, Len(calls))
<1>1. PICK n \in Nat : n = Len(calls)
  BY IsSeqFacts DEF CallsOf
<1>8. PICK after : EmitCallsTrace(r, calls, n, after)
  BY <1>1, EmitCallsSteps
<1>2. EmitCalls(r, calls) = after[n] /\ after[0] = r
  BY <1>8 DEF EmitCallsTrace
<1> DEFINE Step(m, i) == EmitCall(m, i, calls[i])
<1>0. \A i \in 1 .. n : after[i] = Step(after[i - 1], i)
  BY <1>8 DEF EmitCallsTrace
<1>3. ASSUME NEW m, NEW i \in 1 .. n, EmittedUpto(m, r, offered, i - 1) PROVE EmittedUpto(Step(m, i), r, offered, i)
  <2>1. i - 1 \in Nat /\ (i - 1) + 1 = i /\ MayCall(calls[i], offered)
    BY <1>1 DEF CallsOf
  <2>2. PICK k \in Nat : k = i - 1 /\ k + 1 = i
    BY <2>1
  <2>3. PICK call : call = calls[i]
    OBVIOUS
  <2>4. RespGoesOn(m, r, offered, k) /\ RespMid(m, offered, k) /\ MayCall(call, offered)
    BY <1>3, <2>1, <2>2, <2>3 DEF EmittedUpto, RespGoesOn
  <2>5. RespGoesOn(EmitCall(m, k + 1, call), m, offered, k + 1) /\ EmitCall(m, k + 1, call).called = TRUE
    BY <2>4, EmitCallKeeps
  <2>6. Step(m, i) = EmitCall(m, k + 1, call)
    BY <2>2, <2>3
  <2> HIDE DEF Step
  <2>7. RespGoesOn(Step(m, i), r, offered, k + 1) /\ Step(m, i).called = TRUE
    BY <2>4, <2>5, <2>6, GoesOnTwice
  <2> QED BY <2>2, <2>7 DEF EmittedUpto
<1> HIDE DEF Step
<1> DEFINE Done == {i \in Nat : i <= n => EmittedUpto(after[i], r, offered, i)}
<1>9. 0 \in Done
  BY <1>2 DEF EmittedUpto, RespGoesOn, RespOk
<1>10. ASSUME NEW i \in Nat, i \in Done PROVE i + 1 \in Done
  <2> SUFFICES ASSUME i + 1 <= n PROVE EmittedUpto(after[i + 1], r, offered, i + 1)
    OBVIOUS
  <2>1. i + 1 \in 1 .. n /\ (i + 1) - 1 = i /\ i <= n
    BY <1>1
  <2>2. after[i + 1] = Step(after[i], i + 1) /\ EmittedUpto(after[i], r, offered, i)
    BY <1>0, <1>10, <2>1
  <2> QED BY <1>3, <2>1, <2>2
<1>11. n \in Done
  <2> HIDE DEF Done
  <2> QED BY <1>1, <1>9, <1>10, SetInduction
<1>12. EmittedUpto(after[n], r, offered, n)
  BY <1>1, <1>11
<1> QED BY <1>1, <1>2, <1>12

(* The items of a block are forgotten once its calls are sent. *)
LEMMA Forgotten ==
  ASSUME NEW r, NEW offered, NEW n, RespMid(r, offered, n)
  PROVE  RespGoesOn([r EXCEPT !.functions = << >>], r, offered, 0)
<1>1. PICK m : m = [r EXCEPT !.functions = << >>]
  OBVIOUS
<1>2. /\ DOMAIN m = RespFields /\ m.acc = r.acc /\ m.sieve = r.sieve
      /\ m.called = r.called /\ m.error = r.error /\ m.message = r.message /\ m.functions = << >>
      /\ m.nextIndex = r.nextIndex /\ m.nextId = r.nextId /\ m.object = r.object /\ m.sent = r.sent
  BY <1>1 DEF RespMid, RespFields
<1>3. AddedTo(m) = AddedTo(r) /\ DoneIn(m) = DoneIn(r)
  BY <1>2 DEF AddedTo, DoneIn
<1>4. ItemsOk(m)
  BY <1>2, <1>3, SameItems DEF RespMid
<1>5. FunctionsOk(m, 0)
  BY <1>2 DEF FunctionsOk
<1>6. Running(m, offered)
  BY <1>2 DEF RespMid, Running
<1> QED BY <1>1, <1>2, <1>4, <1>5, <1>6 DEF RespGoesOn, RespMid

(* What one event of the sieve becomes. *)
LEMMA RespEventKeeps ==
  ASSUME NEW r, NEW offered, RespOk(r, offered), NEW e, CallsOf(e.calls, offered)
  PROVE  RespGoesOn(RespEvent(r, e), r, offered, 0)
<1>1. PICK shown : shown = EmitText(r, Clean(e.content))
  OBVIOUS
<1>2. RespGoesOn(shown, r, offered, 0)
  BY <1>1, EmitTextKeeps DEF RespOk
<1>3. PICK calls : calls = e.calls
  OBVIOUS
<1>4. RespGoesOn(EmitCalls(shown, calls), shown, offered, Len(calls))
  BY <1>2, <1>3, EmitCallsKeep DEF RespOk, RespGoesOn, EmittedUpto
<1>5. RespGoesOn([EmitCalls(shown, calls) EXCEPT !.functions = << >>], EmitCalls(shown, calls), offered, 0)
  BY <1>4, Forgotten DEF RespGoesOn
<1>6. RespGoesOn([EmitCalls(shown, calls) EXCEPT !.functions = << >>], r, offered, 0)
  BY <1>2, <1>4, <1>5, GoesOnTwice
<1> QED BY <1>1, <1>2, <1>3, <1>6 DEF RespEvent

(* The frames of a response, event by event. *)
RespEventsTrace(r, events, n, after) ==
  /\ RespEvents(r, events) = after[n] /\ after[0] = r
  /\ \A i \in 1 .. n : after[i] = RespEvent(after[i - 1], events[i])

LEMMA RespEventsSteps ==
  ASSUME NEW r, NEW events, NEW n \in Nat, n = Len(events)
  PROVE  \E after : RespEventsTrace(r, events, n, after)
<1> DEFINE Step(m, i) == RespEvent(m, events[i])
           Body(f) == [i \in 0 .. n |-> IF i = 0 THEN r ELSE Step(f[i - 1], i)]
           after == CHOOSE f : f = Body(f)
           Upto(k, g) == g = [i \in 0 .. k |-> IF i = 0 THEN r ELSE Step(g[i - 1], i)]
           Computed == {k \in Nat : \E g : Upto(k, g)}
<1>1. RespEvents(r, events) = after[n]
  BY DEF RespEvents
<1> HIDE DEF Step
<1>2. 0 \in Computed
  <2>1. Upto(0, [i \in 0 .. 0 |-> r])
    OBVIOUS
  <2>2. \E g : Upto(0, g)
    BY <2>1
  <2> HIDE DEF Upto
  <2> QED BY <2>2
<1>3. ASSUME NEW k \in Nat, k \in Computed PROVE k + 1 \in Computed
  <2>1. PICK g : Upto(k, g)
    BY <1>3
  <2> DEFINE h == [i \in 0 .. (k + 1) |-> IF i <= k THEN g[i] ELSE Step(g[k], k + 1)]
  <2>2. ASSUME NEW i \in 0 .. (k + 1) PROVE h[i] = IF i = 0 THEN r ELSE Step(h[i - 1], i)
    <3>1. CASE i <= k
      <4>1. i \in 0 .. k /\ h[i] = g[i] /\ (i # 0 => h[i - 1] = g[i - 1])
        BY <3>1
      <4>2. g[i] = IF i = 0 THEN r ELSE Step(g[i - 1], i)
        BY <2>1, <4>1
      <4> QED BY <4>1, <4>2
    <3>2. CASE ~(i <= k)
      <4>1. i = k + 1 /\ i # 0 /\ h[i] = Step(g[k], k + 1) /\ h[i - 1] = g[k]
        BY <3>2
      <4> QED BY <4>1
    <3> QED BY <3>1, <3>2
  <2>3. h = [i \in 0 .. (k + 1) |-> h[i]]
    OBVIOUS
  <2> HIDE DEF h
  <2>4. Upto(k + 1, h)
    BY <2>2, <2>3
  <2>5. \E f : Upto(k + 1, f)
    BY <2>4
  <2> HIDE DEF Upto
  <2> QED BY <2>5
<1>4. n \in Computed
  <2> HIDE DEF Computed
  <2> QED BY <1>2, <1>3, SetInduction
<1>5. after = Body(after)
  <2>1. PICK g : g = Body(g)
    BY <1>4
  <2> HIDE DEF Body
  <2> QED BY <2>1
<1> HIDE DEF after, Upto, Computed
<1>6. after[0] = r /\ \A i \in 1 .. n : after[i] = Step(after[i - 1], i)
  <2>1. 0 \in 0 .. n /\ \A i \in 1 .. n : i \in 0 .. n /\ i # 0
    OBVIOUS
  <2> QED BY <1>5, <2>1
<1> HIDE DEF Body
<1> QED BY <1>1, <1>6 DEF Step, RespEventsTrace

(* What the events of the sieve become, one after another. *)
LEMMA RespEventsKeep ==
  ASSUME NEW r, NEW offered, RespOk(r, offered), NEW events, EventsOk(events, offered)
  PROVE  RespGoesOn(RespEvents(r, events), r, offered, 0)
<1>1. PICK n \in Nat : n = Len(events)
  BY IsSeqFacts DEF EventsOk
<1>8. PICK after : RespEventsTrace(r, events, n, after)
  BY <1>1, RespEventsSteps
<1>2. RespEvents(r, events) = after[n] /\ after[0] = r
  BY <1>8 DEF RespEventsTrace
<1> DEFINE Step(m, i) == RespEvent(m, events[i])
<1>0. \A i \in 1 .. n : after[i] = Step(after[i - 1], i)
  BY <1>8 DEF RespEventsTrace
<1>3. ASSUME NEW m, NEW i \in 1 .. n, RespGoesOn(m, r, offered, 0) PROVE RespGoesOn(Step(m, i), r, offered, 0)
  <2>1. RespGoesOn(Step(m, i), m, offered, 0)
    BY <1>1, <1>3, RespEventKeeps DEF EventsOk, RespGoesOn, RespOk
  <2> HIDE DEF Step
  <2> QED BY <1>3, <2>1, GoesOnTwice
<1> HIDE DEF Step
<1> DEFINE Done == {i \in Nat : i <= n => RespGoesOn(after[i], r, offered, 0)}
<1>9. 0 \in Done
  BY <1>2 DEF RespGoesOn, RespOk
<1>10. ASSUME NEW i \in Nat, i \in Done PROVE i + 1 \in Done
  <2> SUFFICES ASSUME i + 1 <= n PROVE RespGoesOn(after[i + 1], r, offered, 0)
    OBVIOUS
  <2>1. i + 1 \in 1 .. n /\ (i + 1) - 1 = i /\ i <= n
    BY <1>1
  <2>2. after[i + 1] = Step(after[i], i + 1) /\ RespGoesOn(after[i], r, offered, 0)
    BY <1>0, <1>10, <2>1
  <2> QED BY <1>3, <2>1, <2>2
<1>11. n \in Done
  <2> HIDE DEF Done
  <2> QED BY <1>1, <1>9, <1>10, SetInduction
<1> QED BY <1>1, <1>2, <1>11

(* The accumulated reply, or the sieve, is another. *)
LEMMA ReadTouched ==
  ASSUME NEW r, NEW offered, NEW n, RespMid(r, offered, n), NEW acc, AccOk(acc), NEW st, SieveOk(st, offered)
  PROVE  RespGoesOn([r EXCEPT !.acc = acc], r, offered, n) /\ RespGoesOn([r EXCEPT !.sieve = st], r, offered, n)
<1>1. ASSUME NEW m, m = [r EXCEPT !.acc = acc] \/ m = [r EXCEPT !.sieve = st] PROVE RespGoesOn(m, r, offered, n)
  <2>1. /\ DOMAIN m = RespFields /\ m.acc \in {acc, r.acc} /\ m.sieve \in {st, r.sieve}
        /\ m.called = r.called /\ m.error = r.error /\ m.message = r.message /\ m.functions = r.functions
        /\ m.nextIndex = r.nextIndex /\ m.nextId = r.nextId /\ m.object = r.object /\ m.sent = r.sent
    BY <1>1 DEF RespMid, RespFields
  <2>2. AddedTo(m) = AddedTo(r) /\ DoneIn(m) = DoneIn(r)
    BY <2>1 DEF AddedTo, DoneIn
  <2>3. ItemsOk(m)
    BY <2>1, <2>2, SameItems DEF RespMid
  <2>4. FunctionsOk(m, n)
    BY <2>1, <2>2 DEF RespMid, FunctionsOk
  <2>5. Running(m, offered)
    BY <2>1 DEF RespMid, Running
  <2> QED BY <2>1, <2>3, <2>4, <2>5 DEF RespGoesOn, RespMid
<1> QED BY <1>1

(* What a sieve has handed out becomes frames of a response. *)
LEMMA RespSievedKeeps ==
  ASSUME NEW r, NEW offered, RespOk(r, offered), NEW d, DrainedOk(d, offered)
  PROVE  RespGoesOn(RespSieved(r, d), r, offered, 0)
<1>1. PICK m : m = [r EXCEPT !.sieve = d.st]
  OBVIOUS
<1>2. AccOk(r.acc) /\ SieveOk(d.st, offered) /\ EventsOk(d.out, offered)
  BY DEF RespOk, RespMid, Running, DrainedOk
<1>3. RespGoesOn(m, r, offered, 0)
  BY <1>1, <1>2, ReadTouched DEF RespOk
<1>4. RespGoesOn(RespEvents(m, d.out), m, offered, 0)
  BY <1>2, <1>3, RespEventsKeep DEF RespOk, RespGoesOn
<1> QED BY <1>1, <1>3, <1>4, GoesOnTwice DEF RespSieved

(* A line of the reply. *)
LEMMA RespLineKeeps ==
  ASSUME NEW r, NEW offered, RespOk(r, offered), NEW thinking, IsSeq(thinking), NEW text, IsSeq(text)
  PROVE  RespGoesOn(RespLine(r, thinking, text, offered), r, offered, 0)
<1>1. PICK a, b : a = ApplyThinking(r.acc, thinking) /\ b = [r EXCEPT !.acc = a]
  OBVIOUS
<1>2. RespMid(r, offered, 0) /\ AccOk(r.acc) /\ SieveOk(r.sieve, offered)
  BY DEF RespOk, RespMid, Running
<1>3. AccOk(a)
  BY <1>1, <1>2, AppliedOk
<1>4. RespGoesOn(b, r, offered, 0)
  BY <1>1, <1>2, <1>3, ReadTouched
<1>5. PICK c : c = RespThinking(r, thinking)
  OBVIOUS
<1>6. RespGoesOn(c, b, offered, 0)
  <2>1. c = RespBatch(b, "reasoning", Clean(thinking))
    BY <1>1, <1>5 DEF RespThinking
  <2> QED BY <1>4, <2>1, RespBatchKeeps DEF RespGoesOn
<1>7. RespGoesOn(c, r, offered, 0)
  BY <1>4, <1>6, GoesOnTwice
<1>8. RespMid(c, offered, 0) /\ AccOk(c.acc) /\ SieveOk(c.sieve, offered)
  BY <1>7 DEF RespGoesOn, RespMid, Running
<1>9. PICK d, e : d = ApplyText(c.acc, text) /\ e = [c EXCEPT !.acc = d]
  OBVIOUS
<1>10. AccOk(d)
  BY <1>8, <1>9, AppliedOk
<1>11. RespGoesOn(e, c, offered, 0)
  BY <1>8, <1>9, <1>10, ReadTouched
<1>12. RespGoesOn(e, r, offered, 0)
  BY <1>7, <1>11, GoesOnTwice
<1>13. SieveOk(e.sieve, offered) /\ RespMid(e, offered, 0)
  BY <1>12 DEF RespGoesOn, RespMid, Running
<1>14. DrainedOk(ProcessChunk(e.sieve, text, offered), offered)
  BY <1>13, ProcessChunkKeeps
<1>15. RespGoesOn(RespTextApplied(e, text, offered), r, offered, 0)
  <2>1. PICK f : f = RespFlushBatch(e)
    OBVIOUS
  <2>2. RespGoesOn(f, e, offered, 0)
    BY <1>13, <2>1, RespFlushBatchKeeps
  <2>3. SieveOk(f.sieve, offered) /\ RespOk(f, offered)
    BY <2>2 DEF RespGoesOn, RespMid, Running, RespOk
  <2>4. RespGoesOn(RespSieved(f, ProcessChunk(e.sieve, text, offered)), f, offered, 0)
    BY <1>14, <2>3, RespSievedKeeps
  <2>5. RespGoesOn(RespSieved(f, ProcessChunk(e.sieve, text, offered)), r, offered, 0)
    BY <1>12, <2>2, <2>4, GoesOnTwice
  <2>6. RespGoesOn(RespBatch(e, "text", Clean(text)), e, offered, 0)
    BY <1>13, RespBatchKeeps
  <2>7. RespGoesOn(RespBatch(e, "text", Clean(text)), r, offered, 0)
    BY <1>12, <2>6, GoesOnTwice
  <2> QED BY <2>1, <2>5, <2>7 DEF RespTextApplied
<1>16. RespText(c, text, offered) = IF text = << >> THEN c ELSE RespTextApplied(e, text, offered)
  BY <1>9 DEF RespText
<1>17. RespGoesOn(RespText(c, text, offered), r, offered, 0)
  BY <1>7, <1>15, <1>16
<1>18. PICK g : g = RespText(c, text, offered)
  OBVIOUS
<1>19. RespGoesOn(RespFlushBatch(g), g, offered, 0)
  BY <1>17, <1>18, RespFlushBatchKeeps DEF RespGoesOn
<1>20. RespGoesOn(RespFlushBatch(g), r, offered, 0)
  BY <1>17, <1>18, <1>19, GoesOnTwice
<1> QED BY <1>5, <1>18, <1>20 DEF RespLine

(* The items the completed response gives the calls: one that was          *)
(* announced, or one of an output index that was not used yet.             *)
FunctionItem(m, x) == [id |-> m.functions[x].id, index |-> m.functions[x].index]
Indexed(m, r, added, i) ==
  /\ DOMAIN m = RespFields /\ m.message = r.message /\ m.nextIndex \in Nat /\ m.nextIndex >= r.nextIndex
  /\ 1 .. i \subseteq DOMAIN m.functions
  /\ \A x \in DOMAIN m.functions :
       FunctionItem(m, x) \in added \/ m.functions[x].index \in r.nextIndex .. (m.nextIndex - 1)
  /\ \A x, y \in DOMAIN m.functions :
       m.functions[x].index = m.functions[y].index /\ m.functions[x].index >= r.nextIndex => x = y

(* A call that has no item yet gets an identifier and an index of its own. *)
LEMMA WithFunctionKeeps ==
  ASSUME NEW m, NEW r, NEW added, NEW i \in Nat \ {0}, Indexed(m, r, added, i - 1), r.nextIndex \in Nat,
         \A a \in added : a.index \in 0 .. (r.nextIndex - 1)
  PROVE  Indexed(WithFunction(m, i), r, added, i)
<1>1. \A x \in 1 .. i : x \in 1 .. (i - 1) \/ x = i
  OBVIOUS
<1>2. CASE i \in DOMAIN m.functions
  BY <1>1, <1>2 DEF WithFunction, Indexed
<1>3. CASE i \notin DOMAIN m.functions
  <2>1. PICK f : f = [id |-> m.nextId, index |-> m.nextIndex, done |-> FALSE]
    OBVIOUS
  <2>2. PICK functions, g : functions = m.functions /\ g = Entered(functions, i, f)
    OBVIOUS
  <2>3. /\ DOMAIN g = DOMAIN m.functions \cup {i} /\ g[i] = f
        /\ \A x \in DOMAIN m.functions : g[x] = m.functions[x] /\ x # i
    BY <1>3, <2>2 DEF Entered
  <2>4. PICK w : w = [m EXCEPT !.functions = g, !.nextId = @ + 1, !.nextIndex = @ + 1]
    OBVIOUS
  <2>5. WithFunction(m, i) = w
    BY <1>3, <2>1, <2>2, <2>4 DEF WithFunction
  <2>6. DOMAIN w = RespFields /\ w.message = m.message /\ w.functions = g /\ w.nextIndex = m.nextIndex + 1
    BY <2>4 DEF Indexed, RespFields
  <2>7. f.index = m.nextIndex /\ m.nextIndex \in Nat /\ m.nextIndex >= r.nextIndex
    BY <2>1 DEF Indexed
  <2>8. ASSUME NEW x \in DOMAIN m.functions
        PROVE  /\ FunctionItem(w, x) = FunctionItem(m, x)
               /\ m.functions[x].index # f.index
               /\ FunctionItem(w, x) \in added \/ g[x].index \in r.nextIndex .. (w.nextIndex - 1)
    <3>1. FunctionItem(w, x) = FunctionItem(m, x)
      BY <2>3, <2>6 DEF FunctionItem
    <3>2. FunctionItem(m, x).index = m.functions[x].index
      BY DEF FunctionItem
    <3>3. FunctionItem(m, x) \in added \/ m.functions[x].index \in r.nextIndex .. (m.nextIndex - 1)
      BY DEF Indexed
    <3>4. m.functions[x].index # f.index
      BY <2>7, <3>2, <3>3
    <3> QED BY <2>3, <2>6, <2>7, <3>1, <3>3, <3>4
  <2>9. \A x \in DOMAIN g : FunctionItem(w, x) \in added \/ g[x].index \in r.nextIndex .. (w.nextIndex - 1)
    BY <2>3, <2>6, <2>7, <2>8
  <2>10. \A x, y \in DOMAIN g : g[x].index = g[y].index /\ g[x].index >= r.nextIndex => x = y
    <3>1. \A x, y \in DOMAIN m.functions :
            m.functions[x].index = m.functions[y].index /\ m.functions[x].index >= r.nextIndex => x = y
      BY DEF Indexed
    <3>2. \A x \in DOMAIN m.functions : g[x].index = m.functions[x].index /\ g[x].index # f.index
      BY <2>3, <2>8
    <3> QED BY <2>3, <3>1, <3>2
  <2>11. 1 .. i \subseteq DOMAIN g /\ w.message = r.message
    BY <1>1, <2>3, <2>6 DEF Indexed
  <2> QED BY <2>5, <2>6, <2>7, <2>9, <2>10, <2>11 DEF Indexed
<1> QED BY <1>2, <1>3

(* So do all calls of a reply. *)
LEMMA WithFunctionsKeep ==
  ASSUME NEW b, NEW r, NEW added, NEW n \in Nat, Indexed(b, r, added, 0), r.nextIndex \in Nat,
         \A a \in added : a.index \in 0 .. (r.nextIndex - 1)
  PROVE  Indexed(WithFunctions(b, n), r, added, n)
<1> DEFINE Step(m, i) == WithFunction(m, i)
           Body(f) == [i \in 0 .. n |-> IF i = 0 THEN b ELSE Step(f[i - 1], i)]
           after == CHOOSE f : f = Body(f)
           Upto(k, g) == g = [i \in 0 .. k |-> IF i = 0 THEN b ELSE Step(g[i - 1], i)]
           Computed == {k \in Nat : \E g : Upto(k, g)}
<1>1. n \in Nat
  OBVIOUS
<1>2. WithFunctions(b, n) = after[n]
  BY DEF WithFunctions
<1>3. ASSUME NEW m, NEW i \in 1 .. n, Indexed(m, r, added, i - 1) PROVE Indexed(Step(m, i), r, added, i)
  <2>1. i \in Nat \ {0}
    OBVIOUS
  <2>2. Indexed(WithFunction(m, i), r, added, i)
    BY <1>3, <2>1, WithFunctionKeeps
  <2> QED BY <2>2
<1> HIDE DEF Step
<1>4. 0 \in Computed
  <2>1. Upto(0, [i \in 0 .. 0 |-> b])
    OBVIOUS
  <2>2. \E g : Upto(0, g)
    BY <2>1
  <2> HIDE DEF Upto
  <2> QED BY <2>2
<1>5. ASSUME NEW k \in Nat, k \in Computed PROVE k + 1 \in Computed
  <2>1. PICK g : Upto(k, g)
    BY <1>5
  <2> DEFINE h == [i \in 0 .. (k + 1) |-> IF i <= k THEN g[i] ELSE Step(g[k], k + 1)]
  <2>2. ASSUME NEW i \in 0 .. (k + 1) PROVE h[i] = IF i = 0 THEN b ELSE Step(h[i - 1], i)
    <3>1. CASE i <= k
      <4>1. i \in 0 .. k /\ h[i] = g[i] /\ (i # 0 => h[i - 1] = g[i - 1])
        BY <3>1
      <4>2. g[i] = IF i = 0 THEN b ELSE Step(g[i - 1], i)
        BY <2>1, <4>1
      <4> QED BY <4>1, <4>2
    <3>2. CASE ~(i <= k)
      <4>1. i = k + 1 /\ i # 0 /\ h[i] = Step(g[k], k + 1) /\ h[i - 1] = g[k]
        BY <3>2
      <4> QED BY <4>1
    <3> QED BY <3>1, <3>2
  <2>3. h = [i \in 0 .. (k + 1) |-> h[i]]
    OBVIOUS
  <2> HIDE DEF h
  <2>4. Upto(k + 1, h)
    BY <2>2, <2>3
  <2>5. \E f : Upto(k + 1, f)
    BY <2>4
  <2> HIDE DEF Upto
  <2> QED BY <2>5
<1>6. n \in Computed
  <2> HIDE DEF Computed
  <2> QED BY <1>1, <1>4, <1>5, SetInduction
<1>7. after = Body(after)
  <2>1. PICK g : g = Body(g)
    BY <1>6
  <2> HIDE DEF Body
  <2> QED BY <2>1
<1> HIDE DEF after, Upto, Computed
<1>8. after[0] = b /\ \A i \in 1 .. n : after[i] = Step(after[i - 1], i)
  <2>1. 0 \in 0 .. n /\ \A i \in 1 .. n : i \in 0 .. n /\ i # 0
    BY <1>1
  <2> QED BY <1>7, <2>1
<1> HIDE DEF Body
<1> DEFINE Done == {i \in Nat : i <= n => Indexed(after[i], r, added, i)}
<1>9. 0 \in Done
  BY <1>8
<1>10. ASSUME NEW i \in Nat, i \in Done PROVE i + 1 \in Done
  <2> SUFFICES ASSUME i + 1 <= n PROVE Indexed(after[i + 1], r, added, i + 1)
    OBVIOUS
  <2>1. i + 1 \in 1 .. n /\ (i + 1) - 1 = i /\ i <= n
    BY <1>1
  <2>2. after[i + 1] = Step(after[i], i + 1) /\ Indexed(after[i], r, added, i)
    BY <1>8, <1>10, <2>1
  <2> QED BY <1>3, <2>1, <2>2
<1>11. n \in Done
  <2> HIDE DEF Done
  <2> QED BY <1>1, <1>9, <1>10, SetInduction
<1> QED BY <1>1, <1>2, <1>11

(* The items of a completed response agree with those that were announced. *)
LEMMA CompletedItemsFacts ==
  ASSUME NEW r, NEW offered, NEW n, RespMid(r, offered, n), NEW turn, IsSeq(turn.calls)
  PROVE  LET items == CompletedItems(r, turn)
         IN  /\ \A a, b \in items \union AddedTo(r) : a.index = b.index => a = b
             /\ {a \in AddedTo(r) : a.id = 0} \subseteq items
<1>1. PICK added, k : added = AddedTo(r) /\ k = Len(turn.calls)
  OBVIOUS
<1>2. k \in Nat /\ (turn.calls = << >> <=> k = 0)
  BY <1>1, IsSeqFacts
<1>3. /\ DOMAIN r = RespFields /\ r.nextIndex \in Nat /\ MessageOk(r) /\ DOMAIN r.functions = 1 .. n
      /\ \A x \in 1 .. n : FunctionItem(r, x) \in added
      /\ \A a \in added : a.index \in 0 .. (r.nextIndex - 1) /\ (a.id = 0 <=> a.index = r.message.index)
      /\ \A a, b \in added : a.index = b.index => a = b
  BY <1>1 DEF RespMid, ItemsOk, FunctionsOk, FunctionItem
<1>4. PICK bare : bare = (~r.message.added /\ turn.calls = << >> /\ (turn.thinking # << >> \/ turn.text # << >>))
  OBVIOUS
<1>5. PICK base : base = IF bare THEN WithMessageIndex(r) ELSE r
  OBVIOUS
<1>6. ASSUME NEW m, m.functions = r.functions, m.nextIndex \in Nat, m.nextIndex >= r.nextIndex, DOMAIN m = RespFields
      PROVE  Indexed(m, m, added, 0)
  <2>1. 1 .. 0 \subseteq DOMAIN m.functions
    OBVIOUS
  <2>2. \A x \in DOMAIN m.functions : FunctionItem(m, x) \in added
    BY <1>3, <1>6 DEF FunctionItem
  <2>3. \A x \in DOMAIN m.functions : m.functions[x].index \in 0 .. (r.nextIndex - 1)
    <3>1. \A x : FunctionItem(m, x).index = m.functions[x].index
      BY DEF FunctionItem
    <3> QED BY <1>3, <2>2, <3>1
  <2> QED BY <1>3, <1>6, <2>1, <2>2, <2>3 DEF Indexed
<1>7. PICK l : l = WithFunctions(base, k)
  OBVIOUS
<1>8. PICK functions : functions = {FunctionItem(l, x) : x \in 1 .. k}
  OBVIOUS
<1>9. PICK messages : messages = IF r.message.added \/ bare THEN {MessageItem(l)} ELSE {}
  OBVIOUS
<1>10. CompletedItems(r, turn) = messages \union functions
  <2>1. functions = {[id |-> l.functions[i].id, index |-> l.functions[i].index] : i \in 1 .. k}
    BY <1>8 DEF FunctionItem
  <2> QED BY <1>1, <1>4, <1>5, <1>7, <1>9, <2>1 DEF CompletedItems
<1>11. CASE bare
  <2>1. k = 0 /\ ~r.message.added /\ r.message.index = -1 /\ DOMAIN r.message = {"added", "part", "index", "text"}
    BY <1>2, <1>3, <1>4, <1>11 DEF MessageOk
  <2>2. base = [r EXCEPT !.message.index = r.nextIndex, !.nextIndex = @ + 1]
    BY <1>5, <1>11, <2>1 DEF WithMessageIndex
  <2>3. /\ DOMAIN base = RespFields /\ base.functions = r.functions /\ base.nextIndex = r.nextIndex + 1
        /\ base.message.index = r.nextIndex
    BY <1>3, <2>1, <2>2 DEF RespFields
  <2>4. Indexed(base, base, added, 0)
    BY <1>3, <1>6, <2>3
  <2>5. Indexed(l, base, added, 0)
    <3>1. \A a \in added : a.index \in 0 .. (base.nextIndex - 1)
      BY <1>3, <2>3
    <3>2. base.nextIndex \in Nat
      BY <1>3, <2>3
    <3>3. PICK z \in Nat : z = k
      BY <1>2
    <3>4. Indexed(WithFunctions(base, z), base, added, z)
      BY <2>4, <3>1, <3>2, WithFunctionsKeep
    <3> QED BY <1>7, <2>1, <3>3, <3>4
  <2>6. MessageItem(l) = [id |-> 0, index |-> r.nextIndex]
    BY <2>3, <2>5 DEF Indexed, MessageItem
  <2>7. functions = {} /\ messages = {[id |-> 0, index |-> r.nextIndex]}
    BY <1>8, <1>9, <1>11, <2>1, <2>6
  <2>8. PICK item : item = [id |-> 0, index |-> r.nextIndex]
    OBVIOUS
  <2>9. item.index = r.nextIndex /\ CompletedItems(r, turn) = {item}
    BY <1>10, <2>7, <2>8
  <2>10. \A a \in added : a.id # 0
    BY <1>3, <2>1
  <2>11. \A a \in added : a.index # r.nextIndex
    BY <1>3
  <2> QED BY <1>1, <1>3, <2>9, <2>10, <2>11
<1>12. CASE ~bare
  <2>1. base = r /\ Indexed(base, base, added, 0)
    BY <1>3, <1>5, <1>6, <1>12
  <2>2. Indexed(l, r, added, k)
    <3>1. PICK z \in Nat : z = k
      BY <1>2
    <3>2. Indexed(WithFunctions(r, z), r, added, z)
      BY <1>3, <2>1, WithFunctionsKeep
    <3> QED BY <1>7, <2>1, <3>1, <3>2
  <2>3. \A x \in 1 .. k : x \in DOMAIN l.functions
    BY <2>2 DEF Indexed
  <2>4. MessageItem(l) = MessageItem(r)
    BY <2>2 DEF Indexed, MessageItem
  <2>5. r.message.added => MessageItem(r) \in added /\ messages = {MessageItem(r)} /\ MessageItem(r).index = r.message.index
    BY <1>1, <1>3, <1>9, <2>4 DEF MessageOk, MessageItem
  <2>6. messages \subseteq added
    BY <1>9, <1>12, <2>5
  <2>7. \A a \in functions : \E x \in DOMAIN l.functions :
          a = FunctionItem(l, x) /\ a.index = l.functions[x].index
    <3>1. \A x : FunctionItem(l, x).index = l.functions[x].index
      BY DEF FunctionItem
    <3> QED BY <1>8, <2>3, <3>1
  <2>8. /\ l.nextIndex \in Nat /\ l.nextIndex >= r.nextIndex
        /\ \A x \in DOMAIN l.functions :
             FunctionItem(l, x) \in added \/ l.functions[x].index \in r.nextIndex .. (l.nextIndex - 1)
        /\ \A x, y \in DOMAIN l.functions :
             l.functions[x].index = l.functions[y].index /\ l.functions[x].index >= r.nextIndex => x = y
    BY <2>2 DEF Indexed
  <2>9. ASSUME NEW a \in functions \union added, NEW b \in functions \union added, a.index = b.index PROVE a = b
    <3>1. CASE a \in added /\ b \in added
      BY <1>3, <2>9, <3>1
    <3>2. CASE a \notin added
      <4>1. a.index \in Int /\ a.index >= r.nextIndex
        BY <1>3, <2>7, <2>8, <2>9, <3>2
      <4>2. b \notin added
        BY <1>3, <2>9, <4>1
      <4>3. PICK x \in DOMAIN l.functions, y \in DOMAIN l.functions :
              /\ a = FunctionItem(l, x) /\ a.index = l.functions[x].index
              /\ b = FunctionItem(l, y) /\ b.index = l.functions[y].index
        BY <2>7, <2>9, <3>2, <4>2
      <4>4. x = y
        BY <2>8, <2>9, <4>1, <4>3
      <4> QED BY <4>3, <4>4
    <3>3. CASE b \notin added
      <4>1. b.index \in Int /\ b.index >= r.nextIndex
        BY <1>3, <2>7, <2>8, <2>9, <3>3
      <4>2. a \notin added
        BY <1>3, <2>9, <4>1
      <4> QED BY <3>2, <4>2
    <3> QED BY <3>1, <3>2, <3>3
  <2>10. \A a, b \in CompletedItems(r, turn) \union added : a.index = b.index => a = b
    BY <1>10, <2>6, <2>9
  <2>11. ASSUME NEW a \in added, a.id = 0 PROVE a \in messages
    <3>1. a.index = r.message.index /\ a.index >= 0
      BY <1>3, <2>11
    <3>2. r.message.added
      BY <1>3, <3>1 DEF MessageOk
    <3>3. a = MessageItem(r)
      BY <1>3, <2>5, <3>1, <3>2
    <3> QED BY <2>5, <3>2, <3>3
  <2> QED BY <1>1, <1>10, <2>10, <2>11
<1> QED BY <1>4, <1>11, <1>12

(* A request that fails, and one that is completed. *)
LEMMA RespFailEnds ==
  ASSUME NEW r, NEW offered, NEW required, NEW n, RespMid(r, offered, n), NEW error,
         error \notin {"none", "context_cancelled"}, error = "tool_choice_violation" => required
  PROVE  LET m == RespFail(r, error)
         IN  Ended(m, offered, required) /\ ItemsEnded(m) /\ m.error = error /\ m.object.status = "failed"
<1>1. PICK frame, last : frame = Failed(error) /\ last = DoneMark
  OBVIOUS
<1>2. PICK sent : sent = EndedBy(r.sent, frame, last)
  OBVIOUS
<1>3. PICK object : object = [status |-> "failed", items |-> {}]
  OBVIOUS
<1>4. PICK m : m = [r EXCEPT !.error = error, !.object = object, !.sent = sent]
  OBVIOUS
<1>5. m.error = error /\ m.sent = sent /\ m.object = object
  BY <1>4 DEF RespMid, RespFields
<1>6. frame.ev \in Bad /\ last.ev = "done" /\ ~(frame.ev \in Good)
  BY <1>1, EndingFrames
<1>7. Ending(frame, m.error, r.called, required)
  BY <1>5, <1>6 DEF Ending
<1>8. Ended(m, offered, required) /\ m.sent[Len(m.sent) - 1] = frame
  <2>1. Running(r, offered) /\ last.ev = "done" /\ m.sent = EndedBy(r.sent, frame, last)
    BY <1>2, <1>5, <1>6 DEF RespMid
  <2>2. Ended(m, offered, required)
    BY <1>7, <2>1, EndsOk, Zenon
  <2>3. IsSeq(r.sent)
    BY <2>1 DEF Running
  <2>4. sent[Len(sent) - 1] = frame
    BY <1>2, <2>3, EndedItems
  <2> QED BY <1>5, <2>2, <2>4
<1>9. object.status = "failed"
  BY <1>3
<1>10. ItemsEnded(m)
  BY <1>5, <1>6, <1>8, <1>9 DEF ItemsEnded
<1>11. RespFail(r, error) = m
  BY <1>1, <1>2, <1>3, <1>4 DEF RespFail, EndedBy
<1> QED BY <1>5, <1>8, <1>9, <1>10, <1>11

(* A response that is completed. *)
LEMMA RespFinishEnds ==
  ASSUME NEW r, NEW offered, NEW required, NEW n, RespMid(r, offered, n), AddedTo(r) = DoneIn(r),
         NEW turn, IsSeq(turn.calls), NEW reason, r.error = "none",
         reason = "tool_calls" <=> r.called, required => r.called
  PROVE  LET m == RespFinish(r, turn, reason)
         IN  Ended(m, offered, required) /\ ItemsEnded(m) /\ m.error = "none" /\ m.object.status = "completed"
<1>1. PICK frame, last : frame = Completed(reason) /\ last = DoneMark
  OBVIOUS
<1>2. PICK sent : sent = EndedBy(r.sent, frame, last)
  OBVIOUS
<1>3. PICK items : items = CompletedItems(r, turn)
  OBVIOUS
<1>4. PICK object : object = [status |-> "completed", items |-> items]
  OBVIOUS
<1>5. PICK m : m = [r EXCEPT !.object = object, !.sent = sent]
  OBVIOUS
<1>6. m.error = "none" /\ m.sent = sent /\ m.object = object
  BY <1>5 DEF RespMid, RespFields
<1>7. frame.ev \in Good /\ last.ev = "done" /\ frame.reason = reason /\ ~(frame.ev \in Bad)
  BY <1>1, EndingFrames
<1>8. Ending(frame, m.error, r.called, required)
  BY <1>6, <1>7 DEF Ending
<1>9. Running(r, offered) /\ last.ev = "done" /\ m.sent = EndedBy(r.sent, frame, last)
  BY <1>2, <1>6, <1>7 DEF RespMid
<1>10. Ended(m, offered, required)
  BY <1>8, <1>9, EndsOk, Zenon
<1>11. /\ m.sent[Len(m.sent) - 1] = frame
       /\ \A ev : ItemsIn(m.sent, Len(m.sent) - 2, ev) = ItemsIn(r.sent, Len(r.sent), ev)
  <2>1. IsSeq(r.sent)
    BY <1>9 DEF Running
  <2>2. /\ sent[Len(sent) - 1] = frame
        /\ \A ev : ItemsIn(sent, Len(sent) - 2, ev) = ItemsIn(r.sent, Len(r.sent), ev)
    BY <1>2, <2>1, EndedItems
  <2> QED BY <1>6, <2>2
<1>12. /\ ItemsIn(m.sent, Len(m.sent) - 2, "item added") = AddedTo(r)
       /\ ItemsIn(m.sent, Len(m.sent) - 2, "item done") = DoneIn(r)
  BY <1>11 DEF AddedTo, DoneIn
<1>13. object.status = "completed" /\ object.items = items
  BY <1>4
<1>14. /\ \A a, b \in items \union AddedTo(r) : a.index = b.index => a = b
       /\ {a \in AddedTo(r) : a.id = 0} \subseteq items
  BY <1>3, CompletedItemsFacts
<1>15. ItemsEnded(m)
  BY <1>6, <1>7, <1>11, <1>12, <1>13, <1>14 DEF ItemsEnded
<1>16. RespFinish(r, turn, reason) = m
  BY <1>1, <1>2, <1>3, <1>4, <1>5 DEF RespFinish, EndedBy
<1> QED BY <1>6, <1>10, <1>13, <1>15, <1>16

(* The error of an attempt is another. *)
LEMMA ErrorTouched ==
  ASSUME NEW r, NEW offered, NEW n, RespMid(r, offered, n), NEW error
  PROVE  LET m == [r EXCEPT !.error = error]
         IN  RespMid(m, offered, n) /\ m.error = error /\ m.called = r.called /\ m.sieve = r.sieve
<1>1. PICK m : m = [r EXCEPT !.error = error]
  OBVIOUS
<1>2. /\ DOMAIN m = RespFields /\ m.acc = r.acc /\ m.sieve = r.sieve
      /\ m.called = r.called /\ m.error = error /\ m.message = r.message /\ m.functions = r.functions
      /\ m.nextIndex = r.nextIndex /\ m.nextId = r.nextId /\ m.object = r.object /\ m.sent = r.sent
  BY <1>1 DEF RespMid, RespFields
<1>3. AddedTo(m) = AddedTo(r) /\ DoneIn(m) = DoneIn(r)
  BY <1>2 DEF AddedTo, DoneIn
<1>4. ItemsOk(m)
  BY <1>2, <1>3, SameItems DEF RespMid
<1>5. FunctionsOk(m, n)
  BY <1>2, <1>3 DEF RespMid, FunctionsOk
<1>6. Running(m, offered)
  BY <1>2 DEF RespMid, Running
<1> QED BY <1>1, <1>2, <1>4, <1>5, <1>6 DEF RespMid

(* The end of an attempt: it is put off, and goes on, or tells its outcome *)
(* and leaves the response to be stored.                                   *)
LEMMA RespFinalizeEnds ==
  ASSUME NEW r, NEW offered, NEW required, RespOk(r, offered), NEW reason, NEW defer
  PROVE  LET judged == RespFinalize(r, reason, defer, offered, required)
         IN  /\ judged.over \in BOOLEAN
             /\ judged.over => /\ Ended(judged.rt, offered, required) /\ ItemsEnded(judged.rt)
                               /\ judged.rt.object.status = IF judged.rt.error = "none" THEN "completed" ELSE "failed"
             /\ ~judged.over => RespOk(judged.rt, offered)
<1>1. PICK fresh : fresh = [r EXCEPT !.error = "none"]
  OBVIOUS
<1>2. RespMid(fresh, offered, 0) /\ fresh.error = "none"
  BY <1>1, ErrorTouched DEF RespOk
<1>3. PICK f : f = RespFlush(fresh, offered)
  OBVIOUS
<1>4. RespGoesOn(f, fresh, offered, 0)
  <2>1. DrainedOk(Flush(fresh.sieve, offered), offered)
    BY <1>2, FlushKeeps DEF RespMid, Running
  <2>2. RespGoesOn(RespSieved(fresh, Flush(fresh.sieve, offered)), fresh, offered, 0)
    BY <1>2, <2>1, RespSievedKeeps DEF RespOk
  <2>3. RespGoesOn(fresh, fresh, offered, 0)
    BY <1>2 DEF RespGoesOn
  <2> QED BY <1>3, <2>2, <2>3 DEF RespFlush
<1>5. RespOk(f, offered) /\ f.error = "none" /\ AccOk(f.acc) /\ f.called \in BOOLEAN
  BY <1>2, <1>4 DEF RespGoesOn, RespOk, RespMid, Running
<1>6. PICK turn : turn = StreamTurn(f.acc, reason = "content_filter", f.called, offered, required)
  OBVIOUS
<1>7. TurnOk(turn, f.called, offered, required)
  BY <1>5, <1>6, StreamTurnOk
<1>8. CallsOf(turn.calls, offered) /\ IsSeq(turn.calls) /\ Len(turn.calls) \in Nat /\ (turn.calls = << >> <=> Len(turn.calls) = 0)
  BY <1>7, IsSeqFacts DEF TurnOk, CallsOf
<1>9. PICK c : c = IF f.called THEN f ELSE EmitCalls(f, turn.calls)
  OBVIOUS
<1>10. PICK n : n = IF f.called THEN 0 ELSE Len(turn.calls)
  OBVIOUS
<1>11. /\ RespMid(c, offered, n) /\ c.error = "none" /\ c.called \in BOOLEAN
       /\ (f.called => c.called) /\ (turn.calls # << >> => c.called)
  <2>1. EmittedUpto(EmitCalls(f, turn.calls), f, offered, Len(turn.calls))
    BY <1>5, <1>8, EmitCallsKeep
  <2>2. CASE f.called
    BY <1>5, <1>9, <1>10, <2>2 DEF RespOk
  <2>3. CASE ~f.called
    <3>1. EmittedUpto(c, f, offered, n) /\ n = Len(turn.calls)
      BY <1>9, <1>10, <2>1, <2>3
    <3>2. RespMid(c, offered, n) /\ c.error = f.error /\ (n > 0 => c.called = TRUE)
      BY <3>1 DEF EmittedUpto, RespGoesOn
    <3>3. c.called \in BOOLEAN
      BY <3>2 DEF RespMid, Running
    <3> QED BY <1>5, <1>8, <2>3, <3>1, <3>2, <3>3
  <2> QED BY <2>2, <2>3
<1>12. PICK m : m = CloseMessage(c)
  OBVIOUS
<1>13. /\ RespMid(m, offered, n) /\ m.error = "none" /\ m.called = c.called /\ AddedTo(m) = DoneIn(m)
  BY <1>11, <1>12, CloseMessageKeeps DEF RespGoesOn
<1>14. PICK o : o = Outcome(turn, c.called)
  OBVIOUS
<1> DEFINE has == turn.calls # << >> \/ c.called
<1>15. /\ o.fails \in BOOLEAN /\ (o.fails => ~has /\ turn.error # "none")
       /\ ~o.fails => (o.reason = "tool_calls" <=> has) /\ (required => has)
  BY <1>7, <1>11, <1>14, OutcomeFacts
<1>16. has <=> m.called
  BY <1>11, <1>13
<1> HIDE DEF has
<1>17. RespFinalize(r, reason, defer, offered, required) = RespConclude(m, turn, o, defer)
  BY <1>1, <1>3, <1>6, <1>9, <1>12, <1>14 DEF RespFinalize, RespTurnJudged, RespJudge
<1>18. CASE o.fails
  <2>1. turn.error \notin {"none", "context_cancelled"} /\ (turn.error = "tool_choice_violation" => required)
    BY <1>7, <1>15, <1>18 DEF TurnOk, Errors
  <2>2. PICK a, b : a = RespFail(m, turn.error) /\ b = [m EXCEPT !.error = turn.error]
    OBVIOUS
  <2>3. Ended(a, offered, required) /\ ItemsEnded(a) /\ a.error = turn.error /\ a.object.status = "failed"
    <3>1. PICK error : error = turn.error
      OBVIOUS
    <3>2. RespMid(m, offered, n)
      BY <1>13
    <3>3. error \notin {"none", "context_cancelled"}
      BY <2>1, <3>1
    <3>4. error = "tool_choice_violation" => required
      BY <2>1, <3>1
    <3>5. a = RespFail(m, error)
      BY <2>2, <3>1
    <3>6. Ended(RespFail(m, error), offered, required)
      BY <3>2, <3>3, <3>4, RespFailEnds, Zenon
    <3>7. ItemsEnded(RespFail(m, error))
      BY <3>2, <3>3, <3>4, RespFailEnds, Zenon
    <3>8. RespFail(m, error).error = error
      BY <3>2, <3>3, <3>4, RespFailEnds
    <3>9. RespFail(m, error).object.status = "failed"
      BY <3>2, <3>3, <3>4, RespFailEnds
    <3> QED BY <3>1, <3>5, <3>6, <3>7, <3>8, <3>9
  <2>4. RespMid(b, offered, n)
    BY <1>13, <2>2, ErrorTouched
  <2>5. n = 0
    BY <1>8, <1>10, <1>15, <1>18 DEF has
  <2>6. RespConclude(m, turn, o, defer) = IF defer THEN [rt |-> b, over |-> FALSE] ELSE [rt |-> a, over |-> TRUE]
    BY <1>18, <2>2 DEF RespConclude
  <2> QED BY <1>17, <2>1, <2>3, <2>4, <2>5, <2>6 DEF RespOk
<1>19. CASE ~o.fails
  <2>1. PICK a : a = RespFinish(m, turn, o.reason)
    OBVIOUS
  <2>2. Ended(a, offered, required) /\ ItemsEnded(a) /\ a.error = "none" /\ a.object.status = "completed"
    BY <1>8, <1>13, <1>15, <1>16, <1>19, <2>1, RespFinishEnds
  <2>3. RespConclude(m, turn, o, defer) = [rt |-> a, over |-> TRUE]
    BY <1>19, <2>1 DEF RespConclude
  <2> QED BY <1>17, <2>2, <2>3
<1> QED BY <1>15, <1>18, <1>19
--------------------------------------------------------------------------------
(* The inductive invariant *)

RtRuns ==
  CASE req.api = "chat" -> ChatOk(rt, req.offered)
    [] req.api = "responses" -> RespOk(rt, req.offered)
    [] OTHER -> DOMAIN rt = {"acc"} /\ AccOk(rt.acc)
RtEnded ==
  Ended(rt, req.offered, req.required) /\ (req.api = "responses" => ItemsEnded(rt))

(* The entry says so, unless it was cleared or history is off. *)
EntryIs(status) == session = "on" /\ entry # "missing" => entry = status
StoredIs(status) == IF req.keeps THEN stored \in {status, "expired"} ELSE stored = "none"

Waiting == phase \in {"start", "reading", "retry"}
WaitingOk == answer = NoAnswer /\ stored = "none" /\ RtRuns /\ EntryIs("streaming")
LeftOk ==
  /\ Streams /\ answer = NoAnswer /\ RtRuns /\ rt.error = "context_cancelled" /\ stored = "none"
  /\ EntryIs(IF req.api = "chat" THEN "stopped" ELSE "streaming")
ToldOk ==
  /\ Streams /\ answer = NoAnswer /\ RtEnded /\ EntryIs(Settled(rt))
  /\ StoredIs(IF rt.error = "none" THEN "completed" ELSE "failed")
RefusedOk ==
  /\ RtRuns /\ stored = "none" /\ EntryIs("error")
  /\ answer.status \notin {"none", "ok"} /\ answer.calls = << >>
  /\ answer.status = "tool_choice_violation" => req.required
AnsweredOk ==
  /\ ~Streams /\ RtRuns /\ EntryIs("success") /\ StoredIs("completed")
  /\ answer.status = "ok" /\ CallsOf(answer.calls, req.offered)
  /\ req.required => answer.calls # << >>

IInv ==
  /\ req \in {Received(r) : r \in Requests}
  /\ phase \in {"start", "reading", "retry", "over", "closed"}
  /\ IsSeq(left)
  /\ session \in {"on", "off"} /\ (~req.accepted => session = "off")
  /\ Waiting => WaitingOk
  /\ ~Waiting => LeftOk \/ ToldOk \/ RefusedOk \/ AnsweredOk

--------------------------------------------------------------------------------
(* What a client may ask *)

(* A choice that is accepted demands a call exactly when the client means  *)
(* one to be made, and offers tools that the client means.                 *)
LEMMA ChoiceRead ==
  ASSUME NEW r \in Requests, Accepted(r), Meant(r).clear
  PROVE  /\ Demands(Judging(r)) <=> Meant(r).must
         /\ Offered(r) # {} => AnyTool \notin Offered(r) /\ Offered(r) \subseteq Meant(r).may
<1> DEFINE c == r.choice
           p == ParseToolChoicePolicy(c, r.declared)
           again == ResponsesPolicy(c)
           one == Selects(c) /\ c.word \in {"blank", "auto", "function"}
           misread == r.api = "responses" /\ \/ c.form = "string" /\ c.word = "blank"
                                             \/ one /\ c.word = "auto"
                                             \/ one /\ c.word = "blank" /\ c.name = NoTool
           may == IF one THEN {Selected(c)} ELSE IF c.narrows THEN c.allowed ELSE r.declared
           allowed == IF c.narrows THEN c.allowed ELSE r.declared
<1>1. /\ AnyTool \notin r.declared
      /\ c.form \in {"absent", "string", "object", "other"} /\ c.narrows \in BOOLEAN
      /\ c.word \in {"blank", "auto", "none", "required", "function", "else"}
      /\ c.form # "object" => ~Selects(c) /\ ~c.narrows
      /\ c.form \in {"absent", "other"} => c.word = "blank"
  BY RequestsAssumption
<1>2. ~misread /\ c.word # "none" /\ ~(r.listed /\ r.declared = {})
  BY DEF Meant
<1>3. (Meant(r).must <=> c.word = "required" \/ one) /\ Meant(r).may = may
  BY <1>2 DEF Meant
<1>4. p.mode # "refused"
  BY DEF Accepted
<1>5. p = ReadChoice(c, r.declared) /\ c.form # "other" /\ Narrowed(c, r.declared)
  BY <1>4 DEF ParseToolChoicePolicy, ReadChoice, Refused, Policy
<1>6. Demands(p) => p.allowed # {} /\ p.allowed \subseteq r.declared
  BY <1>4, <1>5 DEF ParseToolChoicePolicy, Refused, Policy
<1>7. c.narrows => c.allowed # {} /\ c.allowed \subseteq r.declared
  BY <1>5 DEF Narrowed
<1> HIDE DEF p, again
<1>8. ASSUME one
      PROVE  /\ Demands(p) <=> c.word = "required" \/ one
             /\ r.api = "responses" /\ again.mode # "refused" => (Demands(again) <=> c.word = "required" \/ one)
             /\ Described(p, r.declared) \subseteq may
             /\ Described(p, r.declared) = {} => r.declared = {}
  <2> DEFINE name == Selected(c)
  <2>1. p = Forced(name)
    BY <1>5, <1>8 DEF ReadChoice
  <2> HIDE DEF name
  <2>2. p.mode = "forced" /\ p.allowed = {name}
    BY <2>1 DEF Forced
  <2>3. name \in r.declared /\ may = {name}
    BY <1>6, <1>8, <2>2 DEF Demands, name
  <2>4. Demands(p) /\ Described(p, r.declared) = {name}
    BY <2>2, <2>3 DEF Demands, Described
  <2>5. c.form = "object" /\ c.word \in {"blank", "auto", "function"} /\ Selects(c)
    BY <1>1, <1>8
  <2>6. r.api = "responses" => again.mode = "forced"
    <3>1. r.api = "responses" => c.word # "auto" /\ (c.word = "blank" => c.name # NoTool)
      BY <1>2, <1>8
    <3>2. c.word = "function" => again = Forced(Selected(c))
      BY <2>5 DEF ResponsesPolicy, again
    <3>3. c.word = "blank" /\ c.name # NoTool => again = Forced(c.name)
      BY <2>5 DEF ResponsesPolicy, again
    <3> QED BY <2>5, <3>1, <3>2, <3>3 DEF Forced
  <2> QED BY <1>8, <2>3, <2>4, <2>6 DEF Demands
<1>9. ASSUME ~one
      PROVE  /\ Demands(p) <=> c.word = "required" \/ one
             /\ r.api = "responses" /\ again.mode # "refused" => (Demands(again) <=> c.word = "required" \/ one)
             /\ Described(p, r.declared) \subseteq may
             /\ Described(p, r.declared) = {} => r.declared = {}
  <2>1. c.word \in {"blank", "auto"} => p = Policy("auto", allowed)
    BY <1>5, <1>9 DEF ReadChoice
  <2>2. c.word = "required" => p = Policy("required", allowed)
    BY <1>5, <1>9 DEF ReadChoice
  <2>3. c.word \in {"blank", "auto", "required"}
    <3>1. c.word \in {"function", "else"} => p = Refused
      BY <1>5, <1>9 DEF ReadChoice
    <3> QED BY <1>1, <1>2, <1>4, <3>1 DEF Refused, Policy
  <2>4. p.mode \in {"auto", "required"} /\ (p.mode = "required" <=> c.word = "required") /\ p.allowed = allowed
    BY <2>1, <2>2, <2>3 DEF Policy
  <2>5. may = allowed /\ allowed \subseteq r.declared
    BY <1>1, <1>7, <1>9
  <2>6. Described(p, r.declared) = {t \in r.declared : allowed = {} \/ t \in allowed}
    BY <2>4 DEF Described
  <2>7. allowed = {} => r.declared = {}
    BY <1>7
  <2>8. Described(p, r.declared) = allowed
    BY <2>5, <2>6, <2>7
  <2>9. Demands(p) <=> c.word = "required"
    BY <2>4 DEF Demands
  <2>10. r.api = "responses" /\ again.mode # "refused" => (Demands(again) <=> c.word = "required")
    <3>1. c.form \in {"string", "object"} /\ c.word \in {"auto", "required"} => again = Policy(c.word, {})
      BY DEF ResponsesPolicy, again
    <3>2. c.form = "absent" => c.word = "blank" /\ again = Policy("auto", {})
      BY <1>1 DEF ResponsesPolicy, again
    <3>3. c.form = "object" /\ c.word = "blank" => again = Policy("auto", {})
      <4>1. c.word = "blank" => c.name = NoTool
        BY <1>9 DEF Selects, Selected
      <4> QED BY <4>1 DEF ResponsesPolicy, again
    <3>4. r.api = "responses" => ~(c.form = "string" /\ c.word = "blank")
      BY <1>2
    <3>5. c.form \in {"absent", "string", "object"}
      BY <1>1, <1>5
    <3>6. again = Policy("auto", {}) => ~Demands(again)
      BY DEF Policy, Demands
    <3>7. again = Policy(c.word, {}) => (Demands(again) <=> c.word = "required") \/ c.word = "forced"
      BY DEF Policy, Demands
    <3> QED BY <2>3, <3>1, <3>2, <3>3, <3>4, <3>5, <3>6, <3>7
  <2> QED BY <1>9, <2>5, <2>7, <2>8, <2>9, <2>10
<1>10. /\ Demands(p) <=> Meant(r).must
       /\ r.api = "responses" /\ again.mode # "refused" => (Demands(again) <=> Meant(r).must)
       /\ Described(p, r.declared) \subseteq Meant(r).may
       /\ Described(p, r.declared) = {} => r.declared = {}
  BY <1>3, <1>8, <1>9
<1>11. Judging(r) = IF r.api = "responses" /\ again.mode # "refused" THEN again ELSE p
  BY DEF Judging, p, again
<1>12. PICK names : names = Described(p, r.declared)
  OBVIOUS
<1>13. ToolNames(p, r) = names
  BY <1>2, <1>10, <1>12 DEF ToolNames, EnsureToolDetection
<1>14. names \subseteq r.declared
  BY <1>12 DEF Described
<1>15. Offered(r) \subseteq names
  <2>1. \A a : EnsureAllowedToolNames(names, a) \subseteq names
    BY DEF EnsureAllowedToolNames
  <2>2. Offered(r) = IF r.api = "responses" /\ Judging(r).mode # "none"
                     THEN EnsureAllowedToolNames(names, Judging(r).allowed) ELSE names
    BY <1>13 DEF Offered, p
  <2> QED BY <2>1, <2>2
<1>16. Demands(Judging(r)) <=> Meant(r).must
  BY <1>10, <1>11
<1> QED BY <1>1, <1>10, <1>12, <1>14, <1>15, <1>16

(* What is kept of a request. *)
LEMMA ReceivedFacts ==
  ASSUME req \in {Received(r) : r \in Requests}
  PROVE  /\ req.api = "chat" => ~req.keeps
         /\ req.meant.clear => /\ req.required <=> req.meant.must
                               /\ req.offered # {} => /\ AnyTool \notin req.offered
                                                      /\ req.offered \subseteq req.meant.may
<1>1. PICK r \in Requests : req = Received(r)
  OBVIOUS
<1>2. CASE Accepted(r)
  <2>1. /\ req.api = (IF r.stream THEN r.api ELSE "plain") /\ (req.keeps <=> r.api = "responses")
        /\ req.offered = Offered(r) /\ (req.required <=> Demands(Judging(r))) /\ req.meant = Meant(r)
    BY <1>1, <1>2 DEF Received
  <2>2. req.meant.clear => /\ Demands(Judging(r)) <=> Meant(r).must
                           /\ Offered(r) # {} => AnyTool \notin Offered(r) /\ Offered(r) \subseteq Meant(r).may
    <3> HAVE req.meant.clear
    <3>1. Meant(r).clear
      BY <2>1
    <3> QED BY <1>2, <3>1, ChoiceRead
  <2> QED BY <2>1, <2>2
<1>3. CASE ~Accepted(r)
  BY <1>1, <1>3 DEF Received
<1> QED BY <1>2, <1>3

--------------------------------------------------------------------------------
(* The inductive invariant holds at first *)

(* A runtime is ready to send. *)
LEMMA NewRuntimes ==
  ASSUME NEW offered
  PROVE  ChatOk(NewChat, offered) /\ RespOk(NewResponse, offered) /\ AccOk(NewAcc)
<1>1. AccOk(NewAcc)
  BY ShortIsSeq DEF AccOk, NewAcc
<1>2. PICK none : none = << >> /\ IsSeq(none) /\ Len(none) = 0
  BY ShortIsSeq
<1>3. /\ Shown(none, Len(none), offered) /\ ~CalledIn(none, Len(none))
      /\ \A ev : ItemsIn(none, Len(none), ev) = {}
  BY <1>2 DEF Shown, CalledIn, ItemsIn
<1>4. PICK c : c = NewChat
  OBVIOUS
<1>5. /\ DOMAIN c = ChatFields /\ c.acc = NewAcc /\ c.sieve = NewSieve /\ c.batch = NoBatch
      /\ c.called = FALSE /\ c.sent = none
  BY <1>2, <1>4 DEF NewChat, ChatFields
<1>6. ChatOk(c, offered)
  <2>1. Running(c, offered)
    BY <1>1, <1>2, <1>3, <1>5, NewSieveOk DEF Running
  <2>2. NoBatch.field = "content"
    BY DEF NoBatch
  <2> QED BY <1>5, <2>1, <2>2 DEF ChatOk
<1>7. PICK r : r = NewResponse
  OBVIOUS
<1>8. /\ DOMAIN r = RespFields /\ r.acc = NewAcc /\ r.sieve = NewSieve /\ r.message = NoMessage
      /\ r.called = FALSE /\ r.sent = none /\ r.functions = none /\ r.nextIndex = 0 /\ r.nextId = 1
      /\ r.object = NoObject
  BY <1>2, <1>7 DEF NewResponse, RespFields
<1>9. Running(r, offered)
  BY <1>1, <1>2, <1>3, <1>8, NewSieveOk DEF Running
<1>10. AddedTo(r) = {} /\ DoneIn(r) = {}
  BY <1>3, <1>8 DEF AddedTo, DoneIn
<1>11. MessageOk(r)
  <2>1. /\ DOMAIN r.message = {"added", "part", "index", "text"}
        /\ r.message.added = FALSE /\ r.message.index = -1
    BY <1>8 DEF NoMessage
  <2> QED BY <2>1 DEF MessageOk
<1>12. ItemsOk(r)
  BY <1>8, <1>10, <1>11 DEF ItemsOk
<1>13. FunctionsOk(r, 0)
  <2>1. DOMAIN none = 1 .. 0
    BY <1>2, IsSeqFacts
  <2> QED BY <1>8, <2>1 DEF FunctionsOk
<1>14. RespOk(r, offered)
  BY <1>8, <1>9, <1>12, <1>13 DEF RespOk, RespMid
<1> QED BY <1>1, <1>4, <1>6, <1>7, <1>14

(* A request that has just arrived. *)
LEMMA Initially == Init => IInv
<1> SUFFICES ASSUME Init PROVE IInv
  OBVIOUS
<1>1. req \in {Received(r) : r \in Requests} /\ phase = "start" /\ session \in {"on", "off"}
      /\ (~req.accepted => session = "off")
  BY DEF Init
<1>2. IsSeq(left)
  BY ShortIsSeq DEF Init
<1>3. RtRuns
  <2>1. CASE req.api = "chat"
    BY <2>1, NewRuntimes DEF Init, RtRuns
  <2>2. CASE req.api = "responses"
    BY <2>2, NewRuntimes DEF Init, RtRuns
  <2>3. CASE req.api \notin {"chat", "responses"}
    <3>1. rt = [acc |-> NewAcc]
      BY <2>3 DEF Init
    <3> QED BY <2>3, <3>1, NewRuntimes DEF RtRuns
  <2> QED BY <2>1, <2>2, <2>3
<1>4. WaitingOk
  <2>1. EntryIs("streaming")
    BY DEF Init, EntryIs
  <2> QED BY <1>3, <2>1 DEF Init, WaitingOk
<1> QED BY <1>1, <1>2, <1>4 DEF IInv, Waiting

--------------------------------------------------------------------------------
(* The inductive invariant is kept *)

(* What is told to the history, unless it is off. *)
LEMMA Persisted ==
  ASSUME session \in {"on", "off"}, NEW status, Persist(status)
  PROVE  session' \in {"on", "off"} /\ (session = "off" => session' = "off") /\ EntryIs(status)'
BY DEF Persist, EntryIs

(* A runtime nobody touches stays as it is. *)
LEMMA RtStays ==
  ASSUME UNCHANGED <<req, rt>>
  PROVE  (RtRuns' <=> RtRuns) /\ (RtEnded' <=> RtEnded)
BY DEF RtRuns, RtEnded

(* The tokens of a reply. *)
LEMMA TokensFacts ==
  ASSUME NEW kinds \in Seq(STRING), NEW kind, NEW at
  PROVE  IsSeq(Tokens(kinds, kind, at)) /\ Len(Tokens(kinds, kind, at)) \in Nat
<1>1. PICK n \in Nat : n = Len(kinds)
  BY LenProperties
<1>2. PICK s : s = [i \in 1 .. n |-> [t |-> kinds[i], at |-> at + i, part |-> kind]]
  OBVIOUS
<1>3. s = [i \in 1 .. n |-> s[i]]
  BY <1>2
<1>4. IsSeq(s) /\ Len(s) = n
  BY <1>3, BuiltIsSeq
<1> QED BY <1>1, <1>2, <1>4 DEF Tokens

(* An attempt that opens has a reply to read. *)
LEMMA OpensFacts ==
  ASSUME NEW reply \in Replies, Opens(reply)
  PROVE  IsSeq(left') /\ phase' = "reading"
<1>1. reply.thinking \in Seq(STRING) /\ reply.text \in Seq(STRING)
  BY RepliesAssumption
<1>2. PICK thinking : thinking = Tokens(reply.thinking, "thinking", seen)
  OBVIOUS
<1>3. PICK text : text = Tokens(reply.text, "text", seen + Len(thinking))
  OBVIOUS
<1>4. IsSeq(thinking) /\ IsSeq(text)
  BY <1>1, <1>2, <1>3, TokensFacts
<1>5. IsSeq(thinking \o text)
  BY <1>4, ConcatIsSeq
<1> QED BY <1>2, <1>3, <1>5 DEF Opens

(* A request that cannot be read is refused. *)
LEMMA BadRequestKeeps == IInv /\ BadRequest => IInv'
<1> SUFFICES ASSUME IInv, BadRequest PROVE IInv'
  OBVIOUS
<1>1. WaitingOk /\ session = "off"
  BY DEF IInv, BadRequest, Waiting
<1>2. RtRuns' /\ stored' = "none" /\ EntryIs("error")'
  BY <1>1, RtStays DEF BadRequest, WaitingOk, EntryIs
<1>3. answer'.status = "bad request" /\ answer'.calls = << >>
  BY DEF BadRequest, Refusal, NoAnswer
<1>4. RefusedOk'
  BY <1>2, <1>3 DEF RefusedOk
<1> QED BY <1>1, <1>4 DEF IInv, BadRequest, Waiting

(* A start that fails is refused, and its entry settled. *)
LEMMA StartFailsKeeps == IInv /\ (StartFails \/ StartRefused) => IInv'
<1> SUFFICES ASSUME IInv, StartFails \/ StartRefused PROVE IInv'
  OBVIOUS
<1>1. WaitingOk /\ session \in {"on", "off"} /\ req.accepted
  BY DEF IInv, StartFails, StartRefused, Waiting
<1>2. PICK status \in {"start failed", "upstream status"} : answer' = Refusal(status)
  BY DEF StartFails, StartRefused
<1>3. /\ Persist("error") /\ phase' = "over"
      /\ UNCHANGED <<req, rt>> /\ left' = left /\ stored' = stored
  BY DEF StartFails, StartRefused
<1>4. session' \in {"on", "off"} /\ (session = "off" => session' = "off") /\ EntryIs("error")'
  BY <1>1, <1>3, Persisted
<1>5. answer'.status = status /\ answer'.calls = << >>
  BY <1>2 DEF Refusal, NoAnswer
<1>6. RtRuns'
  BY <1>1, <1>3, RtStays DEF WaitingOk
<1>7. RefusedOk'
  BY <1>1, <1>2, <1>3, <1>4, <1>5, <1>6 DEF RefusedOk, WaitingOk
<1> QED BY <1>1, <1>3, <1>4, <1>7 DEF IInv, Waiting

(* A reply begins, a response with its announcement. *)
LEMMA StartOpensKeeps == IInv /\ StartOpens => IInv'
<1> SUFFICES ASSUME IInv, StartOpens PROVE IInv'
  OBVIOUS
<1>1. WaitingOk
  BY DEF IInv, StartOpens, Waiting
<1>2. IsSeq(left') /\ phase' = "reading"
  BY OpensFacts DEF StartOpens
<1>3. /\ rt' = (IF req.api = "responses" THEN RespSend(rt, Created) ELSE rt)
      /\ req' = req /\ answer' = answer /\ entry' = entry /\ session' = session /\ stored' = stored
  BY DEF StartOpens
<1>4. RtRuns'
  <2>1. CASE req.api = "responses"
    <3>1. RespMid(rt, req.offered, 0)
      BY <1>1, <2>1 DEF WaitingOk, RtRuns, RespOk
    <3>2. Created.ev \in Plain
      BY DEF Created, Plain
    <3>3. RespGoesOn(RespSend(rt, Created), rt, req.offered, 0)
      BY <3>1, <3>2, PlainSent
    <3> QED BY <1>3, <2>1, <3>3 DEF RespGoesOn, RtRuns, RespOk
  <2>2. CASE req.api # "responses"
    BY <1>1, <1>3, <2>2, RtStays DEF WaitingOk
  <2> QED BY <2>1, <2>2
<1>5. WaitingOk'
  BY <1>1, <1>3, <1>4 DEF WaitingOk, EntryIs
<1> QED BY <1>2, <1>3, <1>5 DEF IInv, Waiting

(* A line is read by the runtime, or collected. *)
LEMMA LineRuns ==
  ASSUME RtRuns, NEW thinking, IsSeq(thinking), NEW text, IsSeq(text), rt' = OnLine(thinking, text), req' = req
  PROVE  RtRuns'
<1>1. CASE req.api = "chat"
  <2>1. ChatOk(rt, req.offered) /\ rt' = ChatLine(rt, thinking, text, req.offered)
    BY <1>1 DEF RtRuns, OnLine
  <2>2. ChatGoesOn(ChatLine(rt, thinking, text, req.offered), rt, req.offered)
    BY <2>1, ChatLineKeeps
  <2> QED BY <1>1, <2>1, <2>2 DEF ChatGoesOn, RtRuns
<1>2. CASE req.api = "responses"
  <2>1. RespOk(rt, req.offered) /\ rt' = RespLine(rt, thinking, text, req.offered)
    BY <1>2 DEF RtRuns, OnLine
  <2>2. RespGoesOn(RespLine(rt, thinking, text, req.offered), rt, req.offered, 0)
    BY <2>1, RespLineKeeps
  <2> QED BY <1>2, <2>1, <2>2 DEF RespGoesOn, RtRuns, RespOk
<1>3. CASE req.api \notin {"chat", "responses"}
  <2>1. DOMAIN rt = {"acc"} /\ AccOk(rt.acc)
    BY <1>3 DEF RtRuns
  <2>2. PICK acc : acc = ApplyText(ApplyThinking(rt.acc, thinking), text)
    OBVIOUS
  <2>3. AccOk(acc)
    BY <2>1, <2>2, AppliedOk
  <2>4. rt' = [rt EXCEPT !.acc = acc]
    BY <1>3, <2>2 DEF OnLine
  <2>5. DOMAIN rt' = {"acc"} /\ rt'.acc = acc
    BY <2>1, <2>4
  <2> QED BY <1>3, <2>3, <2>5 DEF RtRuns
<1> QED BY <1>1, <1>2, <1>3

(* A line of the reply. *)
LEMMA LineKeeps == IInv /\ Line => IInv'
<1> SUFFICES ASSUME IInv, Line PROVE IInv'
  OBVIOUS
<1>1. PICK n \in 1 .. MaxLine \cup {Len(left)} :
        /\ phase = "reading" /\ n > 0 /\ n <= Len(left)
        /\ rt' = OnLine(OfPart(SubSeq(left, 1, n), "thinking"), OfPart(SubSeq(left, 1, n), "text"))
        /\ left' = TextFrom(left, n + 1)
        /\ IF Streams THEN Progress ELSE UNCHANGED <<entry, session>>
        /\ UNCHANGED <<req, phase, answer, stored>>
  BY DEF Line
<1>2. IsSeq(left) /\ Len(left) \in Nat
  BY IsSeqFacts DEF IInv
<1>3. n \in Int
  BY <1>1, <1>2
<1>4. IsSeq(left')
  BY <1>1, <1>2, <1>3, TextFromIsSeq
<1>5. PICK line : line = SubSeq(left, 1, n)
  OBVIOUS
<1>6. IsSeq(line)
  BY <1>3, <1>5, SubSeqIsSeq
<1>7. IsSeq(OfPart(line, "thinking")) /\ IsSeq(OfPart(line, "text"))
  BY <1>6, PickedFacts DEF OfPart
<1>8. WaitingOk /\ session \in {"on", "off"}
  BY <1>1 DEF IInv, Waiting
<1>9. RtRuns'
  BY <1>1, <1>5, <1>7, <1>8, LineRuns DEF WaitingOk
<1>10. session' \in {"on", "off"} /\ (session = "off" => session' = "off") /\ EntryIs("streaming")'
  <2>1. CASE UNCHANGED <<entry, session>>
    BY <1>8, <2>1 DEF WaitingOk, EntryIs
  <2>2. CASE Persist("streaming")
    BY <1>8, <2>2, Persisted
  <2> QED BY <1>1, <2>1, <2>2 DEF Progress
<1>11. WaitingOk'
  BY <1>1, <1>8, <1>9, <1>10 DEF WaitingOk
<1> QED BY <1>1, <1>4, <1>10, <1>11 DEF IInv, Waiting

(* An attempt is judged: the request goes on with another, or has its outcome. *)
LEMMA JudgedFacts ==
  ASSUME RtRuns, Streams
  PROVE  /\ Judged.over \in BOOLEAN
         /\ Judged.over => /\ Ended(Judged.rt, req.offered, req.required)
                           /\ req.api = "responses" =>
                                /\ ItemsEnded(Judged.rt)
                                /\ Judged.rt.object.status = IF Judged.rt.error = "none" THEN "completed" ELSE "failed"
         /\ ~Judged.over => /\ req.api = "chat" => ChatOk(Judged.rt, req.offered)
                            /\ req.api = "responses" => RespOk(Judged.rt, req.offered)
<1> DEFINE defer(reason) == attempt < MaxAttempts /\ reason # "content_filter"
<1>1. CASE req.api = "chat"
  <2>1. PICK reason, put : reason = ChatReason(rt, ends) /\ put = defer(reason)
    OBVIOUS
  <2>2. PICK judged : judged = ChatFinalize(rt, reason, put, req.offered, req.required)
    OBVIOUS
  <2>3. Judged = judged
    BY <1>1, <2>1, <2>2 DEF Judged
  <2>4. ChatOk(rt, req.offered)
    BY <1>1 DEF RtRuns
  <2>5. /\ judged.over \in BOOLEAN
        /\ judged.over => Ended(judged.rt, req.offered, req.required)
        /\ ~judged.over => ChatOk(judged.rt, req.offered)
    BY <2>2, <2>4, ChatFinalizeEnds
  <2> QED BY <1>1, <2>3, <2>5
<1>2. CASE req.api = "responses"
  <2>1. PICK reason, put : reason = RespReason(ends) /\ put = defer(reason)
    OBVIOUS
  <2>2. PICK judged : judged = RespFinalize(rt, reason, put, req.offered, req.required)
    OBVIOUS
  <2>3. Judged = judged
    BY <1>2, <2>1, <2>2 DEF Judged
  <2>4. RespOk(rt, req.offered)
    BY <1>2 DEF RtRuns
  <2>5. /\ judged.over \in BOOLEAN
        /\ judged.over => /\ Ended(judged.rt, req.offered, req.required) /\ ItemsEnded(judged.rt)
                          /\ judged.rt.object.status = IF judged.rt.error = "none" THEN "completed" ELSE "failed"
        /\ ~judged.over => RespOk(judged.rt, req.offered)
    BY <2>2, <2>4, RespFinalizeEnds
  <2> QED BY <1>2, <2>3, <2>5
<1> QED BY <1>1, <1>2 DEF Streams

(* A streamed attempt ends: it is put off, or told, stored and settled. *)
LEMMA EndStreamedKeeps == IInv /\ EndStreamed => IInv'
<1> SUFFICES ASSUME IInv, EndStreamed PROVE IInv'
  OBVIOUS
<1>1. /\ phase = "reading" /\ Streams /\ UNCHANGED <<req, left, answer>>
      /\ rt' = Judged.rt /\ Keep(Object(Judged.rt))
      /\ IF Judged.over THEN phase' = "over" /\ Persist(Settled(Judged.rt))
         ELSE phase' = "retry" /\ UNCHANGED <<entry, session>>
  BY DEF EndStreamed
<1>2. WaitingOk /\ session \in {"on", "off"} /\ (req.api = "chat" => ~req.keeps)
  BY <1>1, ReceivedFacts DEF IInv, Waiting
<1>3. PICK judged : judged = Judged
  OBVIOUS
<1>4. /\ judged.over \in BOOLEAN
      /\ judged.over => /\ Ended(judged.rt, req.offered, req.required)
                        /\ req.api = "responses" =>
                             /\ ItemsEnded(judged.rt)
                             /\ judged.rt.object.status = IF judged.rt.error = "none" THEN "completed" ELSE "failed"
      /\ ~judged.over => /\ req.api = "chat" => ChatOk(judged.rt, req.offered)
                         /\ req.api = "responses" => RespOk(judged.rt, req.offered)
  BY <1>1, <1>2, <1>3, JudgedFacts DEF WaitingOk
<1>5. CASE judged.over
  <2>1. /\ phase' = "over" /\ session' \in {"on", "off"} /\ (session = "off" => session' = "off")
        /\ EntryIs(Settled(rt))'
    <3>1. PICK status : status = Settled(judged.rt)
      OBVIOUS
    <3>2. phase' = "over" /\ Persist(status)
      BY <1>1, <1>3, <1>5, <3>1
    <3>3. session' \in {"on", "off"} /\ (session = "off" => session' = "off") /\ EntryIs(status)'
      BY <1>2, <3>2, Persisted
    <3>4. status = Settled(rt')
      BY <1>1, <1>3, <3>1
    <3> QED BY <3>2, <3>3, <3>4 DEF EntryIs, Settled
  <2>2. RtEnded'
    BY <1>1, <1>3, <1>4, <1>5 DEF RtEnded
  <2>3. StoredIs(IF rt.error = "none" THEN "completed" ELSE "failed")'
    <3>1. PICK status : status = Object(judged.rt)
      OBVIOUS
    <3>2. req.keeps => req.api = "responses" /\ status = IF rt'.error = "none" THEN "completed" ELSE "failed"
      BY <1>1, <1>2, <1>3, <1>4, <1>5, <3>1 DEF Object, Streams
    <3>3. stored' = IF req.keeps /\ status # "none" THEN status ELSE stored
      BY <1>1, <1>3, <3>1 DEF Keep
    <3>4. stored = "none"
      BY <1>2 DEF WaitingOk
    <3> QED BY <1>1, <3>2, <3>3, <3>4 DEF StoredIs
  <2>4. Streams' /\ answer' = NoAnswer
    BY <1>1, <1>2 DEF WaitingOk, Streams
  <2>5. ToldOk'
    BY <2>1, <2>2, <2>3, <2>4 DEF ToldOk
  <2> QED BY <1>1, <2>1, <2>5 DEF IInv, Waiting
<1>6. CASE ~judged.over
  <2>1. phase' = "retry" /\ UNCHANGED <<entry, session>>
    BY <1>1, <1>3, <1>6
  <2>2. RtRuns'
    BY <1>1, <1>3, <1>4, <1>6 DEF RtRuns, Streams
  <2>3. stored' = "none"
    <3>1. req.api = "responses" => judged.rt.object.status = "none"
      BY <1>4, <1>6 DEF RespOk, RespMid, NoObject
    <3>2. PICK status : status = Object(judged.rt)
      OBVIOUS
    <3>3. status = "none"
      BY <3>1, <3>2 DEF Object
    <3>4. Keep(status)
      BY <1>1, <1>3, <3>2
    <3> QED BY <1>2, <3>3, <3>4 DEF Keep, WaitingOk
  <2>4. WaitingOk'
    BY <1>1, <1>2, <2>1, <2>2, <2>3 DEF WaitingOk, EntryIs
  <2> QED BY <1>1, <1>2, <2>1, <2>4 DEF IInv, Waiting
<1> QED BY <1>4, <1>5, <1>6

(* A whole reply is judged: it is answered, refused or asked for again. *)
LEMMA EndCollectedKeeps == IInv /\ EndCollected => IInv'
<1> SUFFICES ASSUME IInv, EndCollected PROVE IInv'
  OBVIOUS
<1>1. PICK turn : turn = CollectedTurn(rt.acc.rawText, rt.acc.rawThinking, ends = "filter", req.offered, req.required)
  OBVIOUS
<1>2. /\ phase = "reading" /\ ~Streams
      /\ IF RetryEmpty(turn, attempt, MaxAttempts)
         THEN /\ phase' = "retry" /\ UNCHANGED <<answer, entry, session>>
              /\ rt' = [rt EXCEPT !.acc.rawText = << >>, !.acc.text = << >>]
         ELSE /\ phase' = "over" /\ UNCHANGED rt
              /\ answer' = (IF turn.error = "none" THEN Answer(turn) ELSE Refusal(turn.error))
              /\ Persist(IF turn.error = "none" THEN "success" ELSE "error")
      /\ Keep(IF phase' = "over" /\ turn.error = "none" THEN "completed" ELSE "none")
      /\ UNCHANGED <<req, left>>
  BY <1>1 DEF EndCollected
<1>3. WaitingOk /\ session \in {"on", "off"}
  BY <1>2 DEF IInv, Waiting
<1>4. DOMAIN rt = {"acc"} /\ AccOk(rt.acc)
  BY <1>2, <1>3 DEF WaitingOk, RtRuns, Streams
<1>5. TurnOk(turn, FALSE, req.offered, req.required)
  BY <1>1, <1>4, CollectedTurnOk DEF AccOk
<1>6. ~Streams' /\ req.api \notin {"chat", "responses"}
  BY <1>2 DEF Streams
<1>7. CASE RetryEmpty(turn, attempt, MaxAttempts)
  <2>1. PICK acc, none : none = << >> /\ acc = [rt.acc EXCEPT !.rawText = none, !.text = none]
    OBVIOUS
  <2>2. AccOk(acc)
    <3>1. IsSeq(none)
      BY <2>1, ShortIsSeq
    <3> QED BY <1>4, <2>1, <3>1 DEF AccOk
  <2>3. rt' = [rt EXCEPT !.acc = acc]
    <3>1. rt' = [rt EXCEPT !.acc.rawText = none, !.acc.text = none]
      BY <1>2, <1>7, <2>1
    <3> QED BY <1>4, <2>1, <3>1
  <2>4. DOMAIN rt' = {"acc"} /\ rt'.acc = acc
    BY <1>4, <2>3
  <2>5. RtRuns'
    BY <1>2, <1>6, <2>2, <2>4 DEF RtRuns
  <2>6. stored' = "none" /\ phase' = "retry" /\ UNCHANGED <<answer, entry, session>>
    BY <1>2, <1>3, <1>7 DEF Keep, WaitingOk
  <2>7. WaitingOk'
    BY <1>2, <1>3, <2>5, <2>6 DEF WaitingOk, EntryIs
  <2> QED BY <1>2, <1>3, <2>6, <2>7 DEF IInv, Waiting
<1>8. CASE ~RetryEmpty(turn, attempt, MaxAttempts)
  <2>1. PICK status : status = IF turn.error = "none" THEN "success" ELSE "error"
    OBVIOUS
  <2>2. /\ phase' = "over" /\ rt' = rt /\ Persist(status)
        /\ answer' = (IF turn.error = "none" THEN Answer(turn) ELSE Refusal(turn.error))
    BY <1>2, <1>8, <2>1
  <2>3. session' \in {"on", "off"} /\ (session = "off" => session' = "off") /\ EntryIs(status)'
    BY <1>3, <2>2, Persisted
  <2>4. RtRuns'
    BY <1>2, <1>3, <2>2, RtStays DEF WaitingOk
  <2>5. stored = "none" /\ req' = req
    BY <1>2, <1>3 DEF WaitingOk
  <2>6. CASE turn.error = "none"
    <3>1. answer'.status = "ok" /\ answer'.calls = turn.calls
      BY <2>2, <2>6 DEF Answer
    <3>2. CallsOf(turn.calls, req.offered) /\ (req.required => turn.calls # << >>)
      BY <1>5, <2>6 DEF TurnOk
    <3>3. StoredIs("completed")'
      BY <1>2, <2>2, <2>5, <2>6 DEF Keep, StoredIs
    <3>4. status = "success"
      BY <2>1, <2>6
    <3>5. AnsweredOk'
      BY <1>6, <2>3, <2>4, <2>5, <3>1, <3>2, <3>3, <3>4 DEF AnsweredOk
    <3> QED BY <1>2, <2>2, <2>3, <3>5 DEF IInv, Waiting
  <2>7. CASE turn.error # "none"
    <3>1. answer'.status = turn.error /\ answer'.calls = << >>
      BY <2>2, <2>7 DEF Refusal, NoAnswer
    <3>2. turn.error \notin {"none", "ok"} /\ (turn.error = "tool_choice_violation" => req.required)
      BY <1>5, <2>7 DEF TurnOk, Errors
    <3>3. stored' = "none"
      BY <1>2, <2>5, <2>7 DEF Keep
    <3>4. status = "error"
      BY <2>1, <2>7
    <3>5. RefusedOk'
      BY <2>3, <2>4, <2>5, <3>1, <3>2, <3>3, <3>4 DEF RefusedOk
    <3> QED BY <1>2, <2>2, <2>3, <3>5 DEF IInv, Waiting
  <2> QED BY <2>6, <2>7
<1> QED BY <1>7, <1>8

(* The client leaves. *)
LEMMA CancelledKeeps == IInv /\ Cancelled => IInv'
<1> SUFFICES ASSUME IInv, Cancelled PROVE IInv'
  OBVIOUS
<1>1. /\ phase = "reading" /\ Streams /\ phase' = "over" /\ rt' = [rt EXCEPT !.error = "context_cancelled"]
      /\ IF req.api = "chat" THEN Persist("stopped") ELSE UNCHANGED <<entry, session>>
      /\ UNCHANGED <<req, left, answer, stored>>
  BY DEF Cancelled
<1>2. WaitingOk /\ session \in {"on", "off"}
  BY <1>1 DEF IInv, Waiting
<1>3. RtRuns' /\ rt'.error = "context_cancelled"
  <2>1. CASE req.api = "chat"
    <3>1. ChatOk(rt, req.offered)
      BY <1>2, <2>1 DEF WaitingOk, RtRuns
    <3>2. ChatOk(rt', req.offered) /\ rt'.error = "context_cancelled"
      BY <1>1, <3>1 DEF ChatOk, ChatFields, Running
    <3> QED BY <1>1, <2>1, <3>2 DEF RtRuns
  <2>2. CASE req.api = "responses"
    <3>1. RespMid(rt, req.offered, 0)
      BY <1>2, <2>2 DEF WaitingOk, RtRuns, RespOk
    <3>2. RespMid(rt', req.offered, 0) /\ rt'.error = "context_cancelled"
      BY <1>1, <3>1, ErrorTouched
    <3> QED BY <1>1, <2>2, <3>2 DEF RtRuns, RespOk
  <2> QED BY <1>1, <2>1, <2>2 DEF Streams
<1>4. session' \in {"on", "off"} /\ (session = "off" => session' = "off")
      /\ EntryIs(IF req.api = "chat" THEN "stopped" ELSE "streaming")'
  <2>1. CASE req.api = "chat"
    <3>1. Persist("stopped")
      BY <1>1, <2>1
    <3>2. session' \in {"on", "off"} /\ (session = "off" => session' = "off") /\ EntryIs("stopped")'
      BY <1>2, <3>1, Persisted
    <3> QED BY <1>1, <2>1, <3>2 DEF EntryIs
  <2>2. CASE req.api # "chat"
    BY <1>1, <1>2, <2>2 DEF WaitingOk, EntryIs
  <2> QED BY <2>1, <2>2
<1>5. Streams' /\ answer' = NoAnswer /\ stored' = "none"
  BY <1>1, <1>2 DEF WaitingOk, Streams
<1>6. LeftOk'
  BY <1>3, <1>4, <1>5 DEF LeftOk
<1> QED BY <1>1, <1>4, <1>6 DEF IInv, Waiting

(* Another attempt begins. *)
LEMMA RetryOpensKeeps == IInv /\ RetryOpens => IInv'
<1> SUFFICES ASSUME IInv, RetryOpens PROVE IInv'
  OBVIOUS
<1>1. WaitingOk /\ UNCHANGED <<req, rt, answer, entry, session, stored>>
  BY DEF IInv, RetryOpens, Waiting
<1>2. IsSeq(left') /\ phase' = "reading"
  BY OpensFacts DEF RetryOpens
<1>3. WaitingOk'
  BY <1>1, RtStays DEF WaitingOk, EntryIs
<1> QED BY <1>1, <1>2, <1>3 DEF IInv, Waiting

(* Another attempt cannot begin: the request fails. *)
LEMMA RetryFailsKeeps == IInv /\ RetryFails => IInv'
<1> SUFFICES ASSUME IInv, RetryFails PROVE IInv'
  OBVIOUS
<1>1. /\ phase = "retry" /\ phase' = "over" /\ Persist("error") /\ UNCHANGED <<req, left>>
      /\ IF Streams
         THEN /\ rt' = (IF req.api = "chat" THEN ChatFail(rt, "error") ELSE RespFail(rt, "error"))
              /\ Keep(Object(rt')) /\ UNCHANGED answer
         ELSE answer' = Refusal("error") /\ UNCHANGED <<rt, stored>>
  BY DEF RetryFails
<1>2. WaitingOk /\ session \in {"on", "off"} /\ (req.api = "chat" => ~req.keeps)
  BY <1>1, ReceivedFacts DEF IInv, Waiting
<1>3. session' \in {"on", "off"} /\ (session = "off" => session' = "off") /\ EntryIs("error")'
  BY <1>1, <1>2, Persisted
<1>4. CASE Streams
  <2>1. PICK error : error = "error"
    OBVIOUS
  <2>2. error \notin {"none", "context_cancelled"} /\ (error = "tool_choice_violation" => req.required)
    BY <2>1
  <2>3. /\ Ended(rt', req.offered, req.required) /\ rt'.error = error
        /\ req.api = "responses" => ItemsEnded(rt') /\ rt'.object.status = "failed"
    <3>1. CASE req.api = "chat"
      <4>1. ChatOk(rt, req.offered) /\ rt' = ChatFail(rt, error)
        BY <1>1, <1>2, <1>4, <2>1, <3>1 DEF WaitingOk, RtRuns
      <4>2. Ended(ChatFail(rt, error), req.offered, req.required) /\ ChatFail(rt, error).error = error
        BY <2>2, <4>1, ChatFailEnds
      <4> QED BY <3>1, <4>1, <4>2
    <3>2. CASE req.api = "responses"
      <4>1. RespMid(rt, req.offered, 0)
        BY <1>2, <3>2 DEF WaitingOk, RtRuns, RespOk
      <4>2. rt' = RespFail(rt, error)
        BY <1>1, <1>4, <2>1, <3>2
      <4>3. error \notin {"none", "context_cancelled"}
        BY <2>2
      <4>4. error = "tool_choice_violation" => req.required
        BY <2>2
      <4>5. Ended(RespFail(rt, error), req.offered, req.required)
        BY <4>1, <4>3, <4>4, RespFailEnds, Zenon
      <4>6. ItemsEnded(RespFail(rt, error))
        BY <4>1, <4>3, <4>4, RespFailEnds, Zenon
      <4>7. RespFail(rt, error).error = error
        BY <4>1, <4>3, <4>4, RespFailEnds
      <4>8. RespFail(rt, error).object.status = "failed"
        BY <4>1, <4>3, <4>4, RespFailEnds
      <4> QED BY <4>2, <4>5, <4>6, <4>7, <4>8
    <3> QED BY <1>4, <3>1, <3>2 DEF Streams
  <2>4. RtEnded' /\ Settled(rt') = "error"
    BY <1>1, <2>1, <2>3 DEF RtEnded, Settled
  <2>5. StoredIs("failed")'
    <3>1. PICK status : status = Object(rt')
      OBVIOUS
    <3>2. req.keeps => status = "failed"
      BY <1>1, <1>2, <1>4, <2>3, <3>1 DEF Object, Streams
    <3>3. stored' = IF req.keeps /\ status # "none" THEN status ELSE stored
      BY <1>1, <1>4, <3>1 DEF Keep
    <3>4. stored = "none"
      BY <1>2 DEF WaitingOk
    <3> QED BY <1>1, <3>2, <3>3, <3>4 DEF StoredIs
  <2>6. Streams' /\ answer' = NoAnswer /\ rt'.error # "none"
    BY <1>1, <1>2, <1>4, <2>1, <2>3 DEF WaitingOk, Streams
  <2>7. ToldOk'
    BY <1>3, <2>4, <2>5, <2>6 DEF ToldOk
  <2> QED BY <1>1, <1>3, <2>7 DEF IInv, Waiting
<1>5. CASE ~Streams
  <2>1. answer'.status = "error" /\ answer'.calls = << >>
    BY <1>1, <1>5 DEF Refusal, NoAnswer
  <2>2. RtRuns' /\ stored' = "none"
    BY <1>1, <1>2, <1>5, RtStays DEF WaitingOk
  <2>3. RefusedOk'
    BY <1>3, <2>1, <2>2 DEF RefusedOk
  <2> QED BY <1>1, <1>3, <2>3 DEF IInv, Waiting
<1> QED BY <1>4, <1>5

(* What happens beside the request: it ends, the operator clears the       *)
(* history or switches it off, what is kept expires.                       *)
LEMMA BesideKeeps == IInv /\ (Close \/ ClearHistory \/ DisableHistory) => IInv'
<1> SUFFICES ASSUME IInv, Close \/ ClearHistory \/ DisableHistory PROVE IInv'
  OBVIOUS
<1>1. /\ UNCHANGED <<req, left, rt, answer, session, stored>>
      /\ entry' = entry \/ entry' = "missing"
      /\ phase' = phase \/ (phase = "over" /\ phase' = "closed")
  BY DEF Close, ClearHistory, DisableHistory
<1>2. \A status : EntryIs(status) => EntryIs(status)'
  BY <1>1 DEF EntryIs
<1>3. \A status : StoredIs(status) => StoredIs(status)'
  BY <1>1 DEF StoredIs
<1>4. (RtRuns' <=> RtRuns) /\ (RtEnded' <=> RtEnded)
  BY <1>1, RtStays
<1>5. WaitingOk => WaitingOk'
  BY <1>1, <1>2, <1>4 DEF WaitingOk
<1>6. LeftOk => LeftOk'
  BY <1>1, <1>2, <1>4 DEF LeftOk, Streams
<1>7. ToldOk => ToldOk'
  BY <1>1, <1>2, <1>3, <1>4 DEF ToldOk, Streams, Settled
<1>8. RefusedOk => RefusedOk'
  BY <1>1, <1>2, <1>4 DEF RefusedOk
<1>9. AnsweredOk => AnsweredOk'
  BY <1>1, <1>2, <1>3, <1>4 DEF AnsweredOk, Streams
<1> QED BY <1>1, <1>5, <1>6, <1>7, <1>8, <1>9 DEF IInv, Waiting

(* What was stored expires. *)
LEMMA ExpireKeeps == IInv /\ Expire => IInv'
<1> SUFFICES ASSUME IInv, Expire PROVE IInv'
  OBVIOUS
<1>1. /\ UNCHANGED <<req, phase, left, rt, answer, session, entry>>
      /\ stored \in {"completed", "failed"} /\ stored' = "expired"
  BY DEF Expire, Found
<1>2. ~Waiting /\ ~LeftOk /\ ~RefusedOk /\ ~Waiting'
  BY <1>1 DEF IInv, WaitingOk, LeftOk, RefusedOk, Waiting
<1>3. \A status : EntryIs(status) => EntryIs(status)'
  BY <1>1 DEF EntryIs
<1>4. \A status : StoredIs(status) => StoredIs(status)'
  BY <1>1 DEF StoredIs
<1>5. (RtRuns' <=> RtRuns) /\ (RtEnded' <=> RtEnded)
  BY <1>1, RtStays
<1>6. ToldOk => ToldOk'
  BY <1>1, <1>3, <1>4, <1>5 DEF ToldOk, Streams, Settled
<1>7. AnsweredOk => AnsweredOk'
  BY <1>1, <1>3, <1>4, <1>5 DEF AnsweredOk, Streams
<1> QED BY <1>1, <1>2, <1>6, <1>7 DEF IInv

(* Nothing happens. *)
LEMMA StutterKeeps == IInv /\ UNCHANGED vars => IInv'
<1> SUFFICES ASSUME IInv, UNCHANGED vars PROVE IInv'
  OBVIOUS
<1>1. UNCHANGED <<req, phase, left, rt, answer, session, entry, stored>>
  BY DEF vars
<1>2. (RtRuns' <=> RtRuns) /\ (RtEnded' <=> RtEnded)
  BY <1>1, RtStays
<1> QED BY <1>1, <1>2 DEF IInv, Waiting, WaitingOk, LeftOk, ToldOk, RefusedOk, AnsweredOk, EntryIs, StoredIs,
                          Streams, Settled

(* The inductive invariant of a request, from its arrival to its end: while  *)
(* it waits nothing of an outcome has been sent, answered, stored or told to *)
(* the history; then all four say the same.                                  *)
THEOREM Invariant == Spec => []IInv
<1>1. Init => IInv
  BY Initially
<1>2. IInv /\ [Next]_vars => IInv'
  BY BadRequestKeeps, StartFailsKeeps, StartOpensKeeps, LineKeeps, EndStreamedKeeps, EndCollectedKeeps,
     CancelledKeeps, RetryOpensKeeps, RetryFailsKeeps, BesideKeeps, ExpireKeeps, StutterKeeps DEF Next
<1> QED BY <1>1, <1>2, PTL DEF Spec

--------------------------------------------------------------------------------
(* What the client has been sent *)

CallsIn(frame) ==
  IF frame.ev = "tool_calls" THEN frame.calls
  ELSE IF frame.ev = "call" THEN <<frame.call>> ELSE << >>

(* The calls of one frame. *)
LEMMA CallsInFacts ==
  ASSUME NEW frame, NEW offered
  PROVE  /\ ~Calling(frame) => CallsIn(frame) = << >>
         /\ Shows(frame, offered) => /\ CallsOf(CallsIn(frame), offered)
                                     /\ CallsIn(frame) # << >> <=> Calling(frame)
<1>1. CASE frame.ev = "tool_calls"
  <2>1. CallsIn(frame) = frame.calls /\ Calling(frame)
    BY <1>1 DEF CallsIn, Calling
  <2>2. Shows(frame, offered) => frame.calls # << >> /\ CallsOf(frame.calls, offered)
    BY <1>1 DEF Shows, Quiet
  <2> QED BY <2>1, <2>2
<1>2. CASE frame.ev = "call"
  <2>1. PICK one : one = <<frame.call>>
    OBVIOUS
  <2>2. CallsIn(frame) = one /\ Calling(frame)
    BY <1>2, <2>1 DEF CallsIn, Calling
  <2>3. IsSeq(one)
    BY <2>1, ShortIsSeq
  <2>4. Len(one) = 1 /\ one[1] = frame.call
    BY <2>1, ShortIsSeq
  <2>5. one # << >>
    <3>1. Len(one) # 0
      BY <2>4
    <3>2. one = << >> <=> Len(one) = 0
      BY <2>3, IsSeqFacts
    <3> QED BY <3>1, <3>2
  <2>6. Shows(frame, offered) => MayCall(frame.call, offered)
    BY <1>2 DEF Shows, Quiet
  <2>7. Shows(frame, offered) => CallsOf(one, offered)
    BY <2>3, <2>4, <2>6 DEF CallsOf
  <2> QED BY <2>2, <2>5, <2>7
<1>3. CASE frame.ev \notin {"tool_calls", "call"}
  <2>1. CallsIn(frame) = << >> /\ ~Calling(frame)
    BY <1>3 DEF CallsIn, Calling
  <2>2. CallsOf(<< >>, offered)
    BY NoCalls
  <2> QED BY <2>1, <2>2
<1> QED BY <1>1, <1>2, <1>3

(* The calls of a stream: there are some when a frame carries one, and each may be made. *)
LEMMA StreamedCalls ==
  ASSUME NEW s, IsSeq(s), NEW offered, NEW k \in 0 .. Len(s), Shown(s, k, offered),
         \A i \in k + 1 .. Len(s) : ~Calling(s[i]), NEW all, all = FlattenSeq([i \in 1 .. Len(s) |-> CallsIn(s[i])])
  PROVE  CallsOf(all, offered) /\ (all # << >> <=> CalledIn(s, k))
<1>1. PICK n \in Nat : n = Len(s)
  BY IsSeqFacts
<1>2. PICK parts : parts = [i \in 1 .. n |-> CallsIn(s[i])]
  OBVIOUS
<1>3. parts = [i \in 1 .. n |-> parts[i]]
  BY <1>2
<1>4. IsSeq(parts) /\ Len(parts) = n
  BY <1>3, BuiltIsSeq
<1>5. ASSUME NEW i \in 1 .. n
      PROVE  CallsOf(parts[i], offered) /\ (parts[i] # << >> <=> i <= k /\ Calling(s[i]))
  <2>1. parts[i] = CallsIn(s[i])
    BY <1>2
  <2>2. CASE i <= k
    <3>1. Shows(s[i], offered)
      BY <1>1, <2>2 DEF Shown
    <3> QED BY <2>1, <2>2, <3>1, CallsInFacts
  <2>3. CASE ~(i <= k)
    <3>1. ~Calling(s[i])
      BY <1>1, <2>3
    <3>2. CallsOf(<< >>, offered)
      BY NoCalls
    <3> QED BY <2>1, <2>3, <3>1, <3>2, CallsInFacts
  <2> QED BY <2>2, <2>3
<1>6. \A i \in 1 .. Len(parts) : IsSeq(parts[i])
  BY <1>4, <1>5 DEF CallsOf
<1>7. PICK flat : flat = FlattenSeq(parts)
  OBVIOUS
<1>8. /\ IsSeq(flat)
      /\ \A j \in 1 .. Len(flat) : \E i \in 1 .. Len(parts) : \E m \in 1 .. Len(parts[i]) : flat[j] = parts[i][m]
      /\ flat # << >> <=> \E i \in 1 .. Len(parts) : parts[i] # << >>
  BY <1>4, <1>6, <1>7, FlattenFacts
<1>9. all = flat
  BY <1>1, <1>2, <1>7
<1>10. CallsOf(flat, offered)
  <2>1. ASSUME NEW j \in 1 .. Len(flat) PROVE MayCall(flat[j], offered)
    <3>1. PICK i \in 1 .. n : \E m \in 1 .. Len(parts[i]) : flat[j] = parts[i][m]
      BY <1>4, <1>8
    <3> QED BY <1>5, <3>1 DEF CallsOf
  <2> QED BY <1>8, <2>1 DEF CallsOf
<1>11. flat # << >> <=> CalledIn(s, k)
  <2>1. flat # << >> <=> \E i \in 1 .. n : i <= k /\ Calling(s[i])
    BY <1>4, <1>5, <1>8
  <2>2. (\E i \in 1 .. n : i <= k /\ Calling(s[i])) <=> CalledIn(s, k)
    BY <1>1 DEF CalledIn
  <2> QED BY <2>1, <2>2
<1> QED BY <1>9, <1>10, <1>11

(* Before the end the frames are such as a running request shows. *)
LEMMA SentRuns ==
  ASSUME RtRuns
  PROVE  IsSeq(Sent) /\ Shown(Sent, Len(Sent), req.offered) /\ (~Streams => Sent = << >>)
<1>1. CASE Streams
  <2>1. Running(rt, req.offered)
    BY <1>1 DEF RtRuns, Streams, ChatOk, RespOk, RespMid
  <2>2. Sent = rt.sent
    BY <1>1 DEF Sent
  <2> QED BY <1>1, <2>1, <2>2 DEF Running
<1>2. CASE ~Streams
  <2>1. PICK none : none = << >>
    OBVIOUS
  <2>2. Sent = none
    BY <1>2, <2>1 DEF Sent
  <2>3. IsSeq(none) /\ Len(none) = 0
    BY <2>1, ShortIsSeq
  <2>4. Shown(none, Len(none), req.offered)
    BY <2>3 DEF Shown
  <2> QED BY <1>2, <2>1, <2>2, <2>3, <2>4
<1> QED BY <1>1, <1>2

(* No outcome is among them, and the calls are such as may be made. *)
LEMMA FramesUntold ==
  ASSUME RtRuns
  PROVE  /\ \A i \in 1 .. Len(Sent) : Sent[i].ev \notin Good \cup Bad
         /\ Frames(Good) = {} /\ Frames(Bad) = {} /\ Frames(Good \cup Bad) = {} /\ Frames({"completed"}) = {}
         /\ CallsOf(CallsShown, req.offered)
<1>1. PICK sent : sent = Sent
  OBVIOUS
<1>2. IsSeq(sent) /\ Shown(sent, Len(sent), req.offered)
  BY <1>1, SentRuns
<1>3. \A i \in 1 .. Len(sent) : sent[i].ev \notin Good \cup Bad
  BY <1>2 DEF Shown, Shows, Quiet, Good, Bad
<1>4. Frames(Good) = {} /\ Frames(Bad) = {} /\ Frames(Good \cup Bad) = {}
  BY <1>1, <1>3 DEF Frames
<1>5. Frames({"completed"}) = {}
  BY <1>1, <1>3 DEF Frames, Good
<1>6. Len(sent) \in Nat
  BY <1>2, IsSeqFacts
<1>7. CallsShown = FlattenSeq([i \in 1 .. Len(sent) |-> CallsIn(sent[i])])
  BY <1>1 DEF CallsShown, CallsIn
<1>8. CallsOf(CallsShown, req.offered)
  <2>1. PICK k : k = Len(sent)
    OBVIOUS
  <2>2. k \in 0 .. Len(sent) /\ \A i \in k + 1 .. Len(sent) : ~Calling(sent[i])
    BY <1>6, <2>1
  <2>3. Shown(sent, k, req.offered)
    BY <1>2, <2>1
  <2> QED BY <1>2, <1>7, <2>2, <2>3, StreamedCalls
<1> QED BY <1>1, <1>3, <1>4, <1>5, <1>8

(* At the end the last frame but one is the one outcome. *)
LEMMA FramesTold ==
  ASSUME RtEnded, Streams
  PROVE  LET n == Len(Sent)
         IN  /\ Sent = rt.sent /\ n \in Nat /\ n >= 2 /\ Sent[n].ev = "done"
             /\ Frames(Good \cup Bad) = {n - 1}
             /\ Frames(Good) = IF rt.error = "none" THEN {n - 1} ELSE {}
             /\ Frames(Bad) = IF rt.error = "none" THEN {} ELSE {n - 1}
             /\ rt.error # "context_cancelled" /\ (rt.error = "tool_choice_violation" => req.required)
             /\ CallsOf(CallsShown, req.offered)
             /\ rt.error = "none" => /\ Sent[n - 1].reason = "tool_calls" <=> CallsShown # << >>
                                     /\ req.required => CallsShown # << >>
<1>1. PICK sent : sent = Sent
  OBVIOUS
<1>2. sent = rt.sent
  BY <1>1 DEF Sent
<1>3. PICK n : n = Len(sent)
  OBVIOUS
<1>4. /\ IsSeq(sent) /\ n \in Nat /\ n >= 2 /\ Shown(sent, n - 2, req.offered) /\ sent[n].ev = "done"
      /\ Outcomes(rt, n, req.required)
  BY <1>2, <1>3, IsSeqFacts DEF RtEnded, Ended
<1>5. /\ rt.error = "none" => sent[n - 1].ev \in Good
      /\ rt.error # "none" => sent[n - 1].ev \in Bad
      /\ rt.error # "context_cancelled" /\ (rt.error = "tool_choice_violation" => req.required)
      /\ rt.error = "none" => /\ sent[n - 1].reason = "tool_calls" <=> CalledIn(sent, n - 2)
                              /\ req.required => CalledIn(sent, n - 2)
  BY <1>2, <1>4 DEF Outcomes
<1>6. \A i \in 1 .. n - 2 : sent[i].ev \notin Good \cup Bad
  BY <1>4 DEF Shown, Shows, Quiet, Good, Bad
<1>7. \A i \in 1 .. n : sent[i].ev \in Good \cup Bad => i = n - 1
  <2>1. sent[n].ev \notin Good \cup Bad
    BY <1>4 DEF Good, Bad
  <2>2. \A i \in 1 .. n : i \in 1 .. n - 2 \/ i = n - 1 \/ i = n
    BY <1>4
  <2> QED BY <1>6, <2>1, <2>2
<1>8. n - 1 \in 1 .. n
  BY <1>4
<1>9. \A frame : ~(frame.ev \in Good /\ frame.ev \in Bad)
  BY EndingFrames
<1>10. /\ Frames(Good \cup Bad) = {n - 1}
       /\ Frames(Good) = IF rt.error = "none" THEN {n - 1} ELSE {}
       /\ Frames(Bad) = IF rt.error = "none" THEN {} ELSE {n - 1}
  <2>1. \A kinds : Frames(kinds) = {i \in 1 .. n : sent[i].ev \in kinds}
    BY <1>1, <1>3 DEF Frames
  <2>2. Frames(Good \cup Bad) = {n - 1}
    BY <1>5, <1>7, <1>8, <2>1
  <2>3. CASE rt.error = "none"
    BY <1>5, <1>7, <1>8, <1>9, <2>1, <2>2, <2>3
  <2>4. CASE rt.error # "none"
    BY <1>5, <1>7, <1>8, <1>9, <2>1, <2>2, <2>4
  <2> QED BY <2>2, <2>3, <2>4
<1>11. CallsOf(CallsShown, req.offered) /\ (CallsShown # << >> <=> CalledIn(sent, n - 2))
  <2>1. CallsShown = FlattenSeq([i \in 1 .. Len(sent) |-> CallsIn(sent[i])])
    BY <1>1 DEF CallsShown, CallsIn
  <2>2. PICK k : k = n - 2
    OBVIOUS
  <2>3. k \in 0 .. Len(sent) /\ Shown(sent, k, req.offered)
    BY <1>3, <1>4, <2>2
  <2>4. \A i \in k + 1 .. Len(sent) : ~Calling(sent[i])
    <3>1. sent[n - 1].ev \in Good \cup Bad /\ sent[n].ev = "done"
      BY <1>4, <1>5
    <3>2. ~Calling(sent[n - 1]) /\ ~Calling(sent[n])
      BY <3>1 DEF Good, Bad, Calling
    <3>3. \A i \in k + 1 .. n : i = n - 1 \/ i = n
      BY <1>4, <2>2
    <3> QED BY <1>3, <3>2, <3>3
  <2> QED BY <1>4, <2>1, <2>2, <2>3, <2>4, StreamedCalls
<1> QED BY <1>1, <1>2, <1>3, <1>4, <1>5, <1>10, <1>11

--------------------------------------------------------------------------------
(* What the runs check *)

(* A stream tells one outcome, just before its end mark, and ends without   *)
(* one only when the client has left (finalize, failChatStreamRetry,        *)
(* failResponse).                                                           *)
THEOREM EndsOnce == Spec => []OneEnding
<1>1. IInv => OneEnding
  <2> SUFFICES ASSUME IInv PROVE OneEnding
    OBVIOUS
  <2>1. CASE Waiting
    <3>1. RtRuns
      BY <2>1 DEF IInv, WaitingOk
    <3> QED BY <2>1, <3>1, FramesUntold DEF OneEnding, Over, Waiting
  <2>2. CASE LeftOk
    BY <2>2, FramesUntold DEF OneEnding, LeftOk
  <2>3. CASE ToldOk
    <3>1. PICK n : n = Len(Sent)
      OBVIOUS
    <3>2. n \in Nat /\ n >= 2 /\ Sent[n].ev = "done" /\ Frames(Good \cup Bad) = {n - 1}
      BY <2>3, <3>1, FramesTold DEF ToldOk
    <3>3. (n - 1) + 1 = n
      BY <3>2
    <3> QED BY <3>1, <3>2, <3>3 DEF OneEnding
  <2>4. CASE RefusedOk
    <3>1. answer # NoAnswer
      BY <2>4 DEF RefusedOk, NoAnswer
    <3> QED BY <2>4, <3>1, FramesUntold DEF OneEnding, RefusedOk
  <2>5. CASE AnsweredOk
    BY <2>5, FramesUntold DEF OneEnding, AnsweredOk
  <2> QED BY <2>1, <2>2, <2>3, <2>4, <2>5 DEF IInv
<1> QED BY <1>1, Invariant, PTL

(* When a request is over, its history entry and the response that is kept  *)
(* say what the client was told (the settling calls of the handlers,        *)
(* handlePersistError, persistResponse).                                    *)
THEOREM HistorySays == Spec => []HistoryTells
<1>1. IInv => HistoryTells
  <2> SUFFICES ASSUME IInv, Over PROVE HistoryTells
    BY DEF HistoryTells
  <2>1. ~Waiting
    BY DEF Over, Waiting
  <2>2. CASE LeftOk
    <3>1. Frames(Good) = {} /\ Frames(Bad) = {}
      BY <2>2, FramesUntold DEF LeftOk
    <3>2. answer.status = "none"
      BY <2>2 DEF LeftOk, NoAnswer
    <3>3. Told = "nothing"
      BY <3>1, <3>2 DEF Told
    <3> QED BY <2>2, <3>1, <3>3 DEF HistoryTells, LeftOk, EntryIs, Found
  <2>3. CASE ToldOk
    <3>1. PICK n : n = Len(Sent)
      OBVIOUS
    <3>2. /\ Frames(Good) = IF rt.error = "none" THEN {n - 1} ELSE {}
          /\ Frames(Bad) = IF rt.error = "none" THEN {} ELSE {n - 1}
      BY <2>3, <3>1, FramesTold DEF ToldOk
    <3>3. answer.status = "none"
      BY <2>3 DEF ToldOk, NoAnswer
    <3>4. Told = Settled(rt)
      BY <3>2, <3>3 DEF Told, Settled
    <3>5. EntryIs(Settled(rt)) /\ StoredIs(IF rt.error = "none" THEN "completed" ELSE "failed")
      BY <2>3 DEF ToldOk
    <3> QED BY <3>4, <3>5 DEF HistoryTells, EntryIs, StoredIs, Found, Settled
  <2>4. CASE RefusedOk
    <3>1. Frames(Good) = {} /\ Frames(Bad) = {}
      BY <2>4, FramesUntold DEF RefusedOk
    <3>2. Told = "error"
      BY <2>4, <3>1 DEF Told, RefusedOk
    <3> QED BY <2>4, <3>1, <3>2 DEF HistoryTells, RefusedOk, EntryIs, Found
  <2>5. CASE AnsweredOk
    <3>1. Told = "success"
      <4>1. Frames(Bad) = {} /\ answer.status = "ok"
        BY <2>5, FramesUntold DEF AnsweredOk
      <4> QED BY <4>1 DEF Told
    <3>2. EntryIs("success") /\ StoredIs("completed")
      BY <2>5 DEF AnsweredOk
    <3> QED BY <3>1, <3>2 DEF HistoryTells, EntryIs, StoredIs, Found
  <2> QED BY <2>1, <2>2, <2>3, <2>4, <2>5 DEF IInv
<1> QED BY <1>1, Invariant, PTL

(* The finish names tool calls exactly when calls were sent (FinalizeTurn). *)
THEOREM FinishNames == Spec => []FinishNamesCalls
<1>1. IInv => FinishNamesCalls
  <2> SUFFICES ASSUME IInv PROVE FinishNamesCalls
    OBVIOUS
  <2>1. RtRuns => FinishNamesCalls
    BY FramesUntold DEF FinishNamesCalls
  <2>2. CASE ToldOk
    <3>1. PICK n : n = Len(Sent)
      OBVIOUS
    <3>2. /\ Frames(Good) = IF rt.error = "none" THEN {n - 1} ELSE {}
          /\ rt.error = "none" => (Sent[n - 1].reason = "tool_calls" <=> CallsShown # << >>)
      BY <2>2, <3>1, FramesTold DEF ToldOk
    <3> QED BY <3>2 DEF FinishNamesCalls
  <2> QED BY <2>1, <2>2 DEF IInv, WaitingOk, LeftOk, RefusedOk, AnsweredOk
<1> QED BY <1>1, Invariant, PTL

(* A completed response has closed the items it announced, no two share an  *)
(* output index, and the response that is stored repeats the message (the   *)
(* item helpers, buildCompletedResponseObject).                             *)
THEOREM ItemsAreClosed == Spec => []ItemsClosed
<1>1. IInv => ItemsClosed
  <2> SUFFICES ASSUME IInv, req.api = "responses", Frames({"completed"}) # {} PROVE ItemsClosed
    BY DEF ItemsClosed
  <2>1. ~RtRuns
    BY FramesUntold
  <2>2. ToldOk
    BY <2>1 DEF IInv, WaitingOk, LeftOk, RefusedOk, AnsweredOk
  <2>3. PICK sent, n : sent = Sent /\ n = Len(Sent)
    OBVIOUS
  <2>4. /\ sent = rt.sent /\ n \in Nat /\ n >= 2 /\ sent[n].ev = "done"
        /\ Frames(Good) = IF rt.error = "none" THEN {n - 1} ELSE {}
        /\ Frames(Good \cup Bad) = {n - 1}
    BY <2>2, <2>3, FramesTold DEF ToldOk
  <2>5. ItemsEnded(rt)
    BY <2>2 DEF ToldOk, RtEnded
  <2>6. sent[n - 1].ev \in Good
    <3>1. PICK i \in Frames({"completed"}) : TRUE
      OBVIOUS
    <3>2. i \in Frames(Good)
      BY <3>1 DEF Frames, Good
    <3>3. i = n - 1 /\ sent[i].ev \in Good
      BY <2>3, <2>4, <3>2 DEF Frames
    <3> QED BY <3>3
  <2>7. \A ev \in {"item added", "item done"} : Items(ev) = ItemsIn(sent, n - 2, ev)
    <3>1. n \in Nat /\ n >= 2
      BY <2>4
    <3>2. (\A i \in 1 .. n : i \in 1 .. n - 2 \/ i = n - 1 \/ i = n) /\ 1 .. n - 2 \subseteq 1 .. n
      BY <3>1
    <3> TAKE ev \in {"item added", "item done"}
    <3>3. ev \notin Good \cup Bad /\ ev # "done"
      BY DEF Good, Bad
    <3>4. Frames({ev}) = {j \in 1 .. n - 2 : sent[j].ev = ev}
      BY <2>3, <2>4, <2>6, <3>2, <3>3 DEF Frames
    <3> QED BY <2>3, <3>4 DEF Items, ItemsIn
  <2>8. Items("item added") = ItemsIn(sent, n - 2, "item added") /\ Items("item done") = ItemsIn(sent, n - 2, "item done")
    BY <2>7
  <2>9. PICK added, done : added = ItemsIn(sent, n - 2, "item added") /\ done = ItemsIn(sent, n - 2, "item done")
    OBVIOUS
  <2>10. /\ added = done
         /\ \A a, b \in rt.object.items \cup added : a.index = b.index => a = b
         /\ {a \in added : a.id = 0} \subseteq rt.object.items
    BY <2>3, <2>4, <2>5, <2>6, <2>9 DEF ItemsEnded
  <2>11. Items("item added") = added /\ Items("item done") = done
    BY <2>8, <2>9
  <2> QED BY <2>10, <2>11 DEF ItemsClosed
<1> QED BY <1>1, Invariant, PTL

(* What the client asks of the tools comes true: calls that are demanded    *)
(* are made, none is missed that was not demanded, and no call is made of a *)
(* tool that was not allowed, but for the implicit tools and those of the   *)
(* other dialects, which no choice keeps out.                               *)
THEOREM ChoiceComesTrue == Spec => []ChoiceKept
<1>1. IInv => ChoiceKept
  <2> SUFFICES ASSUME IInv, Over, req.meant.clear PROVE ChoiceKept
    BY DEF ChoiceKept
  <2>1. /\ req.required <=> req.meant.must
        /\ req.offered # {} => AnyTool \notin req.offered /\ req.offered \subseteq req.meant.may
    BY ReceivedFacts DEF IInv
  <2>2. LeftOk \/ ToldOk \/ RefusedOk \/ AnsweredOk
    BY DEF IInv, Over, Waiting
  <2>3. CallsOf(CallsShown, req.offered)
    BY <2>2, FramesUntold, FramesTold DEF LeftOk, ToldOk, RefusedOk, AnsweredOk
  <2>4. CallsOf(answer.calls, req.offered)
    <3>1. LeftOk \/ ToldOk => answer.calls = << >>
      BY DEF LeftOk, ToldOk, NoAnswer
    <3> QED BY <2>2, <3>1, NoCalls DEF RefusedOk, AnsweredOk
  <2>5. Error = "tool_choice_violation" => req.required
    <3>1. CASE LeftOk
      BY <3>1 DEF LeftOk, Error
    <3>2. CASE ToldOk
      BY <3>2, FramesTold DEF ToldOk, Error
    <3>3. CASE RefusedOk
      <4>1. answer # NoAnswer
        BY <3>3 DEF RefusedOk, NoAnswer
      <4> QED BY <3>3, <4>1 DEF RefusedOk, Error
    <3>4. CASE AnsweredOk
      BY <3>4 DEF AnsweredOk, Error
    <3> QED BY <2>2, <3>1, <3>2, <3>3, <3>4
  <2>6. PICK shown, told : shown = CallsShown /\ told = answer.calls
    OBVIOUS
  <2>7. Told = "success" /\ req.required => shown # << >> \/ told # << >>
    <3>1. CASE LeftOk
      <4>1. Frames(Good) = {} /\ answer.status = "none"
        BY <3>1, FramesUntold DEF LeftOk, NoAnswer
      <4>2. Told # "success"
        BY <4>1 DEF Told
      <4> QED BY <4>2
    <3>2. CASE ToldOk
      <4>1. answer.status = "none"
        BY <3>2 DEF ToldOk, NoAnswer
      <4>2. Frames(Good) # {} => (req.required => CallsShown # << >>)
        BY <3>2, FramesTold DEF ToldOk
      <4>3. Told = "success" => Frames(Good) # {}
        BY <4>1 DEF Told
      <4> QED BY <2>6, <4>2, <4>3
    <3>3. CASE RefusedOk
      <4>1. Frames(Good) = {}
        BY <3>3, FramesUntold DEF RefusedOk
      <4>2. Told # "success"
        BY <3>3, <4>1 DEF Told, RefusedOk
      <4> QED BY <4>2
    <3>4. CASE AnsweredOk
      BY <2>6, <3>4 DEF AnsweredOk
    <3> QED BY <2>2, <3>1, <3>2, <3>3, <3>4
  <2>8. PICK made : made = shown \o told
    OBVIOUS
  <2>9. IsSeq(shown) /\ IsSeq(told) /\ Len(shown) \in Nat /\ Len(told) \in Nat
    BY <2>3, <2>4, <2>6, IsSeqFacts DEF CallsOf
  <2>10. /\ IsSeq(made) /\ Len(made) = Len(shown) + Len(told)
         /\ \A i \in 1 .. Len(shown) : made[i] = shown[i]
         /\ \A i \in 1 .. Len(told) : made[Len(shown) + i] = told[i]
    BY <2>8, <2>9, ConcatIsSeq
  <2>11. shown # << >> \/ told # << >> => made # << >>
    BY <2>9, <2>10, IsSeqFacts
  <2>12. \A i \in 1 .. Len(made) : MayCall(made[i], req.offered)
    <3> TAKE i \in 1 .. Len(made)
    <3>1. CASE i <= Len(shown)
      <4>1. i \in 1 .. Len(shown)
        BY <2>9, <3>1
      <4> QED BY <2>3, <2>6, <2>10, <4>1 DEF CallsOf
    <3>2. CASE ~(i <= Len(shown))
      <4>1. i - Len(shown) \in 1 .. Len(told) /\ Len(shown) + (i - Len(shown)) = i
        BY <2>9, <2>10, <3>2
      <4>2. made[i] = told[i - Len(shown)]
        BY <2>10, <4>1
      <4> QED BY <2>4, <2>6, <4>1, <4>2 DEF CallsOf
    <3> QED BY <3>1, <3>2
  <2>13. req.offered # {} =>
           \A i \in 1 .. Len(made) : made[i].t \in req.meant.may \union Implicit \union {"shell fence", "minimax"}
    BY <2>1, <2>12 DEF MayCall
  <2>14. Made = made
    BY <2>6, <2>8 DEF Made
  <2> QED BY <2>1, <2>5, <2>7, <2>11, <2>13, <2>14 DEF ChoiceKept
<1> QED BY <1>1, Invariant, PTL
================================================================================
