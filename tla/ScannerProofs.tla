---------------------------- MODULE ScannerProofs ----------------------------
(***************************************************************************)
(* Proofs about Scanner, for every text, every set of findings and every   *)
(* assignment of priorities.                                               *)
(***************************************************************************)
EXTENDS Scanner, SequenceTheorems, WellFoundedInduction, TLAPS

-----------------------------------------------------------------------------
(* Putting pieces together.  FlattenSeq is a recursive function; that it is  *)
(* defined, and what it makes of one more piece, is shown with the smallest *)
(* number for which it would not hold.                                      *)

LEMMA Smallest ==
  ASSUME NEW T \in SUBSET Nat, T # {}
  PROVE  \E n \in T : \A m \in T : n <= m
<1>1. PICK n \in T : \A m \in T : <<m, n>> \notin OpToRel(<, Nat)
  BY NatLessThanWellFounded, WFMin
<1>2. \A m \in T : ~(m < n)
  BY <1>1 DEF OpToRel
<1> QED BY <1>2

\* g[i] is the concatenation of s[1], ..., s[i], for i up to n.
Flattens(s, n, g) == g = [i \in 1 .. n |-> IF i = 1 THEN s[i] ELSE g[i - 1] \o s[i]]

LEMMA FlattenSeqAsFunction ==
  ASSUME NEW s, Len(s) \in Nat \ {0}
  PROVE  FlattenSeq(s) = (CHOOSE g : Flattens(s, Len(s), g))[Len(s)]
BY DEF FlattenSeq, Flattens

LEMMA FlattensExists ==
  ASSUME NEW s, NEW n \in Nat
  PROVE  \E g : Flattens(s, n, g)
<1> DEFINE T == {m \in Nat : ~ \E g : Flattens(s, m, g)}
<1> SUFFICES ASSUME T # {} PROVE FALSE
  OBVIOUS
<1>1. PICK m \in T : \A k \in T : m <= k
  BY Smallest
<1>2. Flattens(s, 0, [i \in 1 .. 0 |-> s])
  <2> DEFINE e == [i \in 1 .. 0 |-> s]
  <2>1. \A i \in 1 .. 0 : e[i] = IF i = 1 THEN s[i] ELSE e[i - 1] \o s[i]
    OBVIOUS
  <2>2. e = [i \in 1 .. 0 |-> e[i]]
    OBVIOUS
  <2> HIDE DEF e
  <2>3. e = [i \in 1 .. 0 |-> IF i = 1 THEN s[i] ELSE e[i - 1] \o s[i]]
    BY <2>1, <2>2, Zenon
  <2> QED BY <2>3, Zenon DEF Flattens, e
<1>3. m - 1 \in Nat /\ m - 1 \notin T
  BY <1>1, <1>2
<1>4. PICK g : Flattens(s, m - 1, g)
  BY <1>3
<1> DEFINE h == [i \in 1 .. m |->
                   IF i = 1 THEN s[i] ELSE g[i - 1] \o s[i]]
<1>5. Flattens(s, m, h)
  <2>0. m \in Nat \ {0} /\ \A i \in 1 .. m - 1 : i \in 1 .. m
    BY <1>3
  <2>1. \A i \in 1 .. m - 1 : h[i] = g[i]
    <3> TAKE i \in 1 .. m - 1
    <3>1. g[i] = IF i = 1 THEN s[i] ELSE g[i - 1] \o s[i]
      BY <1>4 DEF Flattens
    <3>2. h[i] = IF i = 1 THEN s[i] ELSE g[i - 1] \o s[i]
      BY <2>0
    <3> QED BY <3>1, <3>2
  <2>2. \A i \in 1 .. m : h[i] = IF i = 1 THEN s[i] ELSE h[i - 1] \o s[i]
    <3> TAKE i \in 1 .. m
    <3>1. h[i] = IF i = 1 THEN s[i] ELSE g[i - 1] \o s[i]
      OBVIOUS
    <3>2. i = 1 \/ i - 1 \in 1 .. m - 1
      BY <2>0
    <3> QED BY <2>1, <3>1, <3>2, Zenon
  <2>3. h = [i \in 1 .. m |-> h[i]]
    OBVIOUS
  <2> QED BY <2>2, <2>3, Zenon DEF Flattens
<1> QED BY <1>5

\* The concatenation of one more piece.
LEMMA FlattensOneMore ==
  ASSUME NEW s, NEW t, NEW n \in Nat, \A i \in 1 .. n : t[i] = s[i],
         NEW g, Flattens(t, n + 1, g), NEW h, Flattens(s, n, h)
  PROVE  g[n + 1] = IF n = 0 THEN t[1] ELSE h[n] \o t[n + 1]
<1> DEFINE T == {i \in 1 .. n : h[i] # g[i]}
<1>1. /\ \A i \in 1 .. n + 1 : g[i] = IF i = 1 THEN t[i] ELSE g[i - 1] \o t[i]
      /\ \A i \in 1 .. n : h[i] = IF i = 1 THEN s[i] ELSE h[i - 1] \o s[i]
  BY DEF Flattens
<1>2. T = {}
  <2> SUFFICES ASSUME T # {} PROVE FALSE
    OBVIOUS
  <2>1. PICK i \in T : \A k \in T : i <= k
    <3>1. T \in SUBSET Nat
      OBVIOUS
    <3> HIDE DEF T
    <3> QED BY <3>1, Smallest
  <2>2. i \in 1 .. n /\ i \in 1 .. n + 1 /\ h[i] # g[i]
    OBVIOUS
  <2>3. i = 1 \/ h[i - 1] = g[i - 1]
    BY <2>1
  <2> QED BY <1>1, <2>2, <2>3
<1>3. n # 0 => h[n] = g[n]
  BY <1>2
<1>4. n + 1 \in 1 .. n + 1 /\ (n + 1) - 1 = n /\ (n + 1 = 1 <=> n = 0)
  OBVIOUS
<1> HIDE DEF T
<1> QED BY <1>1, <1>3, <1>4

LEMMA FlattenEmpty == FlattenSeq(<<>>) = <<>>
BY DEF FlattenSeq

LEMMA FlattenAppend ==
  ASSUME NEW S, NEW s \in Seq(Seq(S)), NEW x \in Seq(S)
  PROVE  FlattenSeq(Append(s, x)) = FlattenSeq(s) \o x
<1> DEFINE t == Append(s, x)
           n == Len(s)
           g == CHOOSE f : Flattens(t, n + 1, f)
           h == CHOOSE f : Flattens(s, n, f)
<1>1. /\ n \in Nat /\ n + 1 \in Nat \ {0} /\ Len(t) = n + 1 /\ t[n + 1] = x
      /\ \A i \in 1 .. n : t[i] = s[i]
  OBVIOUS
<1>2. n = 0 => s = <<>> /\ x = <<>> \o x
  OBVIOUS
<1> HIDE DEF t, n
<1>3. Flattens(t, n + 1, g) /\ Flattens(s, n, h)
  <2>1. /\ \E f : Flattens(t, n + 1, f)
        /\ \E f : Flattens(s, n, f)
    BY <1>1, FlattensExists
  <2> QED BY <2>1, Zenon
<1>4. FlattenSeq(t) = g[n + 1]
  <2>1. FlattenSeq(t) = (CHOOSE f : Flattens(t, Len(t), f))[Len(t)]
    BY <1>1, FlattenSeqAsFunction
  <2> QED BY <1>1, <2>1
<1>5. n # 0 => FlattenSeq(s) = h[n]
  BY <1>1, FlattenSeqAsFunction DEF n
<1> HIDE DEF g, h
<1>6. g[n + 1] = IF n = 0 THEN t[1] ELSE h[n] \o t[n + 1]
  BY SMTT(30), <1>1, <1>3, FlattensOneMore
<1>7. FlattenSeq(t) = FlattenSeq(s) \o x
  <2>1. CASE n = 0
    BY <1>1, <1>2, <1>4, <1>6, <2>1, FlattenEmpty
  <2>2. CASE n # 0
    BY <1>1, <1>4, <1>5, <1>6, <2>2
  <2> QED BY <2>1, <2>2
<1> QED BY <1>7 DEF t

LEMMA FlattenType ==
  ASSUME NEW S, NEW s \in Seq(Seq(S))
  PROVE  FlattenSeq(s) \in Seq(S)
<1> DEFINE T == {n \in 0 .. Len(s) : FlattenSeq(SubSeq(s, 1, n)) \notin Seq(S)}
<1>1. T = {}
  <2> SUFFICES ASSUME T # {} PROVE FALSE
    OBVIOUS
  <2>1. PICK n \in T : \A k \in T : n <= k
    <3>1. T \in SUBSET Nat
      OBVIOUS
    <3> HIDE DEF T
    <3> QED BY <3>1, Smallest
  <2>2. n # 0
    <3>1. FlattenSeq(SubSeq(s, 1, 0)) = <<>>
      <4>1. SubSeq(s, 1, 0) = <<>>
        BY SubSeqEmpty
      <4> QED BY <4>1, FlattenEmpty
    <3>2. FlattenSeq(SubSeq(s, 1, n)) \notin Seq(S)
      OBVIOUS
    <3> HIDE DEF T
    <3> QED BY <3>1, <3>2, EmptySeq
  <2>3. n - 1 \in 0 .. Len(s) /\ n \in 1 .. Len(s) /\ n - 1 \notin T
    BY <2>1, <2>2
  <2> DEFINE r == SubSeq(s, 1, n - 1)
  <2>4. /\ r \in Seq(Seq(S)) /\ s[n] \in Seq(S)
        /\ FlattenSeq(r) \in Seq(S)
    BY <2>3
  <2>5. SubSeq(s, 1, n) = Append(r, s[n])
    BY <2>3
  <2> HIDE DEF r
  <2>6. FlattenSeq(SubSeq(s, 1, n)) = FlattenSeq(r) \o s[n]
    BY <2>4, <2>5, FlattenAppend
  <2>7. FlattenSeq(r) \o s[n] \in Seq(S)
    BY <2>4, ConcatProperties
  <2> QED BY <2>6, <2>7
<1>2. SubSeq(s, 1, Len(s)) = s /\ Len(s) \in 0 .. Len(s)
  OBVIOUS
<1> QED BY <1>1, <1>2

LEMMA FlattenConcat ==
  ASSUME NEW S, NEW s \in Seq(Seq(S)), NEW t \in Seq(Seq(S))
  PROVE  FlattenSeq(s \o t) = FlattenSeq(s) \o FlattenSeq(t)
<1> DEFINE Upto(n) == FlattenSeq(s \o SubSeq(t, 1, n)) = FlattenSeq(s) \o FlattenSeq(SubSeq(t, 1, n))
           T == {n \in 0 .. Len(t) : ~Upto(n)}
<1>1. Upto(0)
  <2>1. SubSeq(t, 1, 0) = <<>> /\ s \o <<>> = s
    OBVIOUS
  <2>2. FlattenSeq(s) \o <<>> = FlattenSeq(s)
    BY FlattenType
  <2> QED BY <2>1, <2>2, FlattenEmpty
<1>2. ASSUME NEW n \in 1 .. Len(t), Upto(n - 1) PROVE Upto(n)
  <2> DEFINE r == SubSeq(t, 1, n - 1)
  <2>1. /\ r \in Seq(Seq(S)) /\ t[n] \in Seq(S) /\ s \o r \in Seq(Seq(S))
        /\ SubSeq(t, 1, n) = Append(r, t[n])
        /\ s \o Append(r, t[n]) = Append(s \o r, t[n])
    <3>1. r \in Seq(Seq(S)) /\ t[n] \in Seq(S)
      OBVIOUS
    <3>2. SubSeq(t, 1, n) = Append(r, t[n])
      OBVIOUS
    <3>3. s \o r \in Seq(Seq(S))
      BY <3>1, ConcatProperties
    <3>4. s \o Append(r, t[n]) = Append(s \o r, t[n])
      <4>1. <<t[n]>> \in Seq(Seq(S))
        BY <3>1
      <4> HIDE DEF r
      <4>2. Append(r, t[n]) = r \o <<t[n]>> /\ Append(s \o r, t[n]) = (s \o r) \o <<t[n]>>
        BY <3>1, <3>3, AppendIsConcat
      <4>3. (s \o r) \o <<t[n]>> = s \o (r \o <<t[n]>>)
        <5> DEFINE last == <<t[n]>>
                   X == Seq(S)
        <5>1. last \in Seq(X) /\ r \in Seq(X) /\ s \in Seq(X)
          BY <3>1, <4>1
        <5> HIDE DEF last, X
        <5>2. (s \o r) \o last = s \o (r \o last)
          BY ONLY SMTT(30), <5>1, ConcatAssociative
        <5> QED BY <5>2 DEF last
      <4> QED BY <4>2, <4>3
    <3> QED BY <3>1, <3>2, <3>3, <3>4
  <2>2. FlattenSeq(s \o r) = FlattenSeq(s) \o FlattenSeq(r)
    BY <1>2
  <2> HIDE DEF r
  <2>3. FlattenSeq(Append(s \o r, t[n])) = FlattenSeq(s \o r) \o t[n]
    BY <2>1, FlattenAppend
  <2>4. FlattenSeq(Append(r, t[n])) = FlattenSeq(r) \o t[n]
    BY <2>1, FlattenAppend
  <2>5. /\ FlattenSeq(s) \in Seq(S) /\ FlattenSeq(r) \in Seq(S)
    BY <2>1, FlattenType
  <2>6. (FlattenSeq(s) \o FlattenSeq(r)) \o t[n] = FlattenSeq(s) \o (FlattenSeq(r) \o t[n])
    <3> DEFINE a == FlattenSeq(s)  b == FlattenSeq(r)  c == t[n]
    <3>1. a \in Seq(S) /\ b \in Seq(S) /\ c \in Seq(S)
      BY <2>1, <2>5
    <3> HIDE DEF a, b, c
    <3>2. (a \o b) \o c = a \o (b \o c)
      BY ONLY <3>1, SMTT(30)
    <3> QED BY <3>2 DEF a, b, c
  <2> QED BY <2>1, <2>2, <2>3, <2>4, <2>6
<1> HIDE DEF Upto
<1>3. T = {}
  <2> SUFFICES ASSUME T # {} PROVE FALSE
    OBVIOUS
  <2>1. PICK n \in T : \A k \in T : n <= k
    <3>1. T \in SUBSET Nat
      OBVIOUS
    <3> HIDE DEF T
    <3> QED BY <3>1, Smallest
  <2>2. n \in 1 .. Len(t) /\ n - 1 \in 0 .. Len(t) /\ n - 1 \notin T
    BY <1>1, <2>1
  <2> QED BY <1>2, <2>2
<1>4. Upto(Len(t))
  BY <1>3
<1>5. SubSeq(t, 1, Len(t)) = t
  OBVIOUS
<1> QED BY <1>4, <1>5 DEF Upto

\* A piece per symbol gives the sequence back.
LEMMA FlattenLetters ==
  ASSUME NEW S, NEW w \in Seq(S)
  PROVE  FlattenSeq([p \in DOMAIN w |-> <<w[p]>>]) = w
<1> DEFINE Letters(n) == [p \in 1 .. n |-> <<w[p]>>]
           T == {n \in 0 .. Len(w) : FlattenSeq(Letters(n)) # SubSeq(w, 1, n)}
<1>1. FlattenSeq(Letters(0)) = SubSeq(w, 1, 0)
  <2>1. Letters(0) = <<>> /\ SubSeq(w, 1, 0) = <<>>
    OBVIOUS
  <2> QED BY <2>1, FlattenEmpty
<1>2. ASSUME NEW n \in 1 .. Len(w), FlattenSeq(Letters(n - 1)) = SubSeq(w, 1, n - 1)
      PROVE  FlattenSeq(Letters(n)) = SubSeq(w, 1, n)
  <2>1. /\ Letters(n - 1) \in Seq(Seq(S)) /\ <<w[n]>> \in Seq(S)
        /\ Letters(n) = Append(Letters(n - 1), <<w[n]>>)
    OBVIOUS
  <2>2. SubSeq(w, 1, n) = SubSeq(w, 1, n - 1) \o <<w[n]>>
    OBVIOUS
  <2> HIDE DEF Letters
  <2> QED BY <1>2, <2>1, <2>2, FlattenAppend
<1>3. T = {}
  <2> HIDE DEF Letters
  <2> SUFFICES ASSUME T # {} PROVE FALSE
    OBVIOUS
  <2>1. PICK n \in T : \A k \in T : n <= k
    <3>1. T \in SUBSET Nat
      OBVIOUS
    <3> HIDE DEF T
    <3> QED BY <3>1, Smallest
  <2>2. n \in 1 .. Len(w) /\ n - 1 \in 0 .. Len(w) /\ n - 1 \notin T
    BY <1>1, <2>1
  <2> QED BY <1>2, <2>2
<1>4. FlattenSeq(Letters(Len(w))) = SubSeq(w, 1, Len(w))
  <2> HIDE DEF Letters
  <2> QED BY <1>3
<1>5. SubSeq(w, 1, Len(w)) = w /\ DOMAIN w = 1 .. Len(w)
  OBVIOUS
<1> QED BY <1>4, <1>5

\* Empty pieces give nothing.
LEMMA FlattenNothing ==
  ASSUME NEW n \in Nat
  PROVE  FlattenSeq([p \in 1 .. n |-> <<>>]) = <<>>
<1> DEFINE Empty(m) == [p \in 1 .. m |-> <<>>]
           T == {m \in Nat : FlattenSeq(Empty(m)) # <<>>}
<1>1. FlattenSeq(Empty(0)) = <<>>
  <2>1. Empty(0) = <<>>
    OBVIOUS
  <2> QED BY <2>1, FlattenEmpty
<1>2. ASSUME NEW m \in Nat \ {0}, FlattenSeq(Empty(m - 1)) = <<>>
      PROVE  FlattenSeq(Empty(m)) = <<>>
  <2>1. /\ Empty(m - 1) \in Seq(Seq({})) /\ <<>> \in Seq({})
        /\ Empty(m) = Append(Empty(m - 1), <<>>)
    OBVIOUS
  <2>2. <<>> \o <<>> = <<>>
    OBVIOUS
  <2> HIDE DEF Empty
  <2> QED BY <1>2, <2>1, <2>2, FlattenAppend
<1>3. T = {}
  <2> HIDE DEF Empty
  <2> SUFFICES ASSUME T # {} PROVE FALSE
    OBVIOUS
  <2>1. PICK m \in T : \A k \in T : m <= k
    <3>1. T \in SUBSET Nat
      OBVIOUS
    <3> HIDE DEF T
    <3> QED BY <3>1, Smallest
  <2>2. m \in Nat \ {0} /\ m - 1 \in Nat /\ m - 1 \notin T
    BY <1>1, <2>1
  <2> QED BY <1>2, <2>2
<1> QED BY <1>3

-----------------------------------------------------------------------------
(* The inductive invariant. *)

\* Nothing is kept before the pass starts.
BeforePass ==
  pc \in {"detect", "filter"} => kept = <<>> /\ todo = {} /\ lastEnd = -1

\* lastEnd is what its name says.
LastEndOfLast ==
  lastEnd = IF kept = <<>> THEN -1 ELSE reports[kept[Len(kept)]].end

\* The findings kept have been visited, ...
KeptVisited == \A n \in DOMAIN kept : kept[n] \in cand \ todo

\* ... and a finding not yet visited starts no earlier than one visited.
VisitedInOrder ==
  \A i \in cand \ todo, j \in todo : reports[i].start <= reports[j].start

\* No placeholder is handed out before the pass is over.
AssignAfterPass ==
  pc \in {"detect", "filter", "resolve"} => ph = <<>> /\ left = {}

PassInv ==
  /\ TypeOK
  /\ BeforePass
  /\ LastEndOfLast
  /\ KeptVisited
  /\ VisitedInOrder
  /\ AssignAfterPass
  /\ KeptDisjoint

-----------------------------------------------------------------------------
LEMMA InitPassInv == Init => PassInv
<1> SUFFICES ASSUME Init PROVE PassInv
  OBVIOUS
<1>1. TypeOK
  BY ReportsAssumption DEF Init, TypeOK, Placeholder
<1>2. QED
  BY <1>1 DEF Init, PassInv, BeforePass, LastEndOfLast, KeptVisited,
              VisitedInOrder, AssignAfterPass, KeptDisjoint

-----------------------------------------------------------------------------
(* One lemma per group of actions. *)

LEMMA TypesKept == TypeOK /\ BeforePass /\ [Next]_vars => TypeOK'
<1> SUFFICES ASSUME TypeOK, BeforePass, [Next]_vars PROVE TypeOK'
  OBVIOUS
<1> USE DEF TypeOK
<1>1. CASE Detect
  BY <1>1 DEF BeforePass, Detect, inputs, resolving, numbering, editing
<1>2. CASE Filter
  BY <1>2 DEF BeforePass, Filter, inputs, numbering, editing
<1>3. CASE \E i \in todo : Keep(i) \/ ReplacePrevious(i) \/ Drop(i)
  <2> PICK i \in todo : Keep(i) \/ ReplacePrevious(i) \/ Drop(i)
    BY <1>3
  <2>1. reports[i] \in Finding(text)
    OBVIOUS
  <2>2. UNCHANGED <<inputs, pc, cand, numbering, editing>> /\ todo' \subseteq cand'
    BY DEF NextInOrder, Keep, ReplacePrevious, Drop
  <2>3. reports[i].end \in Int /\ i \in cand /\ cand' = cand
    BY <2>1, <2>2 DEF Finding
  <2>4. kept' \in Seq(cand') /\ lastEnd' \in Int /\ Len(kept') >= Len(kept)
    <3>1. CASE Keep(i)
      BY <2>3, <3>1 DEF Keep
    <3>2. CASE ReplacePrevious(i)
      BY <2>3, <3>2 DEF ReplacePrevious
    <3>3. CASE Drop(i)
      BY <2>3, <3>3 DEF Drop
    <3> QED
      BY <3>1, <3>2, <3>3
  <2> QED
    BY <2>2, <2>4 DEF inputs, numbering, editing
<1>4. CASE Resolved
  BY <1>4 DEF Resolved, inputs, resolving, numbering, editing
<1>5. CASE ReusePlaceholder
  BY <1>5 DEF ReusePlaceholder, Assigning, inputs, resolving, editing
<1>6. CASE NewPlaceholder
  <2> DEFINE t == reports[kept[Len(ph) + 1]].type
             p == <<t, NextNumber(t)>>
  <2>1. t \in Types
    <3>1. Len(ph) + 1 \in DOMAIN kept
      BY <1>6 DEF NewPlaceholder, Assigning
    <3>2. kept[Len(ph) + 1] \in DOMAIN reports
      BY <3>1
    <3>3. reports[kept[Len(ph) + 1]] \in Finding(text)
      BY <3>2
    <3> QED
      BY <3>3 DEF Finding
  <2>2. p \in Placeholder /\ counters' \in [Types -> Nat]
    <3>1. counters[t] \in Nat /\ NextNumber(t) \in Nat \ {0}
      BY SMTT(30), <2>1 DEF NextNumber
    <3>2. counters' = [counters EXCEPT ![t] = @ + 1]
      BY <1>6 DEF NewPlaceholder
    <3> QED
      BY SMTT(30), <2>1, <3>1, <3>2 DEF Placeholder
  <2>3. seenText' \in [DOMAIN seenText' -> Placeholder]
    BY <1>6, <2>2 DEF NewPlaceholder, Remember
  <2>4. ph' \in Seq(Placeholder) /\ Len(ph') <= Len(kept)
    BY <1>6, <2>2 DEF NewPlaceholder, Assigning
  <2> QED
    BY <1>6, <2>2, <2>3, <2>4
    DEF NewPlaceholder, Assigning, inputs, resolving, editing
<1>7. CASE Assigned
  BY <1>7 DEF Assigned, inputs, resolving, numbering
<1>8. CASE \E n \in left : Replace(n)
  BY <1>8 DEF Replace, inputs, resolving, numbering
<1>9. CASE Return
  BY <1>9 DEF Return, inputs, resolving, numbering, editing
<1>10. CASE UNCHANGED vars
  BY <1>10 DEF vars, inputs, resolving, numbering, editing
<1> QED
  BY <1>1, <1>2, <1>3, <1>4, <1>5, <1>6, <1>7, <1>8, <1>9, <1>10 DEF Next, Returned

\* The heart of the matter: one visit of resolveOverlaps.
LEMMA VisitKeepsPassInv ==
  ASSUME PassInv, NEW i \in todo, Keep(i) \/ ReplacePrevious(i) \/ Drop(i)
  PROVE  LastEndOfLast' /\ KeptVisited' /\ VisitedInOrder' /\ KeptDisjoint'
<1> USE DEF PassInv, TypeOK
<1> DEFINE last == kept[Len(kept)]
<1>1. /\ \A j \in cand : /\ reports[j] \in Finding(text)
                         /\ reports[j].start \in Nat /\ reports[j].end \in Nat
                         /\ reports[j].start < reports[j].end
      /\ text \in Seq(Symbols)
  BY TextsAssumption DEF Finding
<1>2. NextInOrder(i) /\ i \in cand
  BY DEF Keep, ReplacePrevious, Drop
<1>3. /\ todo' = todo \ {i} /\ cand' = cand /\ reports' = reports
      /\ pc = "resolve" /\ pc' = pc
      /\ UNCHANGED <<ph, left, text>>
  BY <1>2 DEF NextInOrder, inputs, numbering, editing
<1>4. \A j \in todo' : reports[i].start <= reports[j].start
  BY SMTT(30), <1>1, <1>2, <1>3 DEF NextInOrder, Before
<1>5. VisitedInOrder'
  BY <1>2, <1>3, <1>4 DEF VisitedInOrder
<1>6. CASE Keep(i)
  <2>1. kept' = Append(kept, i) /\ lastEnd' = reports[i].end /\ lastEnd <= reports[i].start
    BY <1>1, <1>2, <1>6 DEF Keep
  <2>2. LastEndOfLast' /\ KeptVisited'
    BY SMTT(30), <1>2, <1>3, <2>1 DEF LastEndOfLast, KeptVisited
  <2>3. \A m \in DOMAIN kept : reports[kept[m]].end <= reports[i].start
    <3> SUFFICES ASSUME NEW m \in DOMAIN kept
                 PROVE  reports[kept[m]].end <= reports[i].start
      OBVIOUS
    <3>1. reports[last].end <= reports[i].start /\ last \in cand
      BY <2>1 DEF LastEndOfLast
    <3>2. reports[kept[m]].end <= reports[last].end
      <4>1. CASE m = Len(kept)
        BY <1>1, <3>1, <4>1
      <4>2. CASE m < Len(kept)
        <5>1. reports[kept[m]].end <= reports[last].start
          BY <4>2 DEF KeptDisjoint
        <5> QED
          BY SMTT(30), <1>1, <3>1, <5>1
      <4> QED
        BY <4>1, <4>2
    <3> QED
      BY SMTT(30), <1>1, <1>2, <3>1, <3>2
  <2>4. KeptDisjoint'
    <3> SUFFICES ASSUME NEW m \in DOMAIN kept', NEW n \in DOMAIN kept', m < n
                 PROVE  reports[kept'[m]].end <= reports[kept'[n]].start
      BY <1>3 DEF KeptDisjoint
    <3>1. /\ m \in DOMAIN kept /\ kept'[m] = kept[m]
          /\ \/ n \in DOMAIN kept /\ kept'[n] = kept[n]
             \/ n = Len(kept) + 1 /\ kept'[n] = i
      BY <2>1
    <3>2. CASE n \in DOMAIN kept /\ kept'[n] = kept[n]
      BY <3>1, <3>2 DEF KeptDisjoint
    <3>3. CASE n = Len(kept) + 1 /\ kept'[n] = i
      BY <2>3, <3>1, <3>3
    <3> QED
      BY <3>1, <3>2, <3>3
  <2> QED
    BY <1>5, <2>2, <2>4
<1>7. CASE ReplacePrevious(i)
  <2>1. /\ kept # <<>> /\ kept' = [kept EXCEPT ![Len(kept)] = i]
        /\ lastEnd' = reports[i].end
    BY <1>7 DEF ReplacePrevious
  <2>2. LastEndOfLast' /\ KeptVisited'
    BY <1>2, <1>3, <2>1 DEF LastEndOfLast, KeptVisited
  <2>3. last \in cand \ todo /\ reports[last].start <= reports[i].start
    BY <2>1 DEF KeptVisited, VisitedInOrder
  <2>4. \A m \in DOMAIN kept : m < Len(kept) => reports[kept[m]].end <= reports[i].start
    <3> SUFFICES ASSUME NEW m \in DOMAIN kept, m < Len(kept)
                 PROVE  reports[kept[m]].end <= reports[i].start
      OBVIOUS
    <3>1. reports[kept[m]].end <= reports[last].start
      BY <2>1 DEF KeptDisjoint
    <3> QED
      BY SMTT(30), <1>1, <1>2, <2>3, <3>1
  <2>5. KeptDisjoint'
    BY <1>3, <2>1, <2>4 DEF KeptDisjoint
  <2> QED
    BY <1>5, <2>2, <2>5
<1>8. CASE Drop(i)
  <2>1. UNCHANGED <<kept, lastEnd>>
    BY <1>8 DEF Drop
  <2>2. LastEndOfLast' /\ KeptDisjoint'
    BY <1>3, <2>1 DEF LastEndOfLast, KeptDisjoint
  <2>3. KeptVisited'
    BY <1>3, <2>1 DEF KeptVisited
  <2> QED
    BY <1>5, <2>2, <2>3
<1> QED
  BY <1>6, <1>7, <1>8

LEMMA NextKeepsPassInv == PassInv /\ [Next]_vars => PassInv'
<1> SUFFICES ASSUME PassInv, [Next]_vars PROVE PassInv'
  OBVIOUS
<1>1. TypeOK'
  BY TypesKept DEF PassInv
<1> USE DEF PassInv, BeforePass, LastEndOfLast, KeptVisited, VisitedInOrder,
            AssignAfterPass, KeptDisjoint
<1>2. CASE Detect
  BY <1>2 DEF Detect, TypeOK, inputs, resolving, numbering, editing
<1>3. CASE Filter
  BY <1>3 DEF Filter, TypeOK, inputs, numbering, editing
<1>4. CASE \E i \in todo : Keep(i) \/ ReplacePrevious(i) \/ Drop(i)
  <2> PICK i \in todo : Keep(i) \/ ReplacePrevious(i) \/ Drop(i)
    BY <1>4
  <2>1. LastEndOfLast' /\ KeptVisited' /\ VisitedInOrder' /\ KeptDisjoint'
    BY VisitKeepsPassInv
  <2>2. NextInOrder(i)
    BY DEF Keep, ReplacePrevious, Drop
  <2>3. BeforePass' /\ AssignAfterPass'
    BY <2>2 DEF NextInOrder, numbering, editing
  <2> QED
    BY <1>1, <2>1, <2>3
<1>5. CASE Resolved \/ Return \/ UNCHANGED vars
  BY <1>1, <1>5 DEF Resolved, Return, vars, inputs, resolving, numbering, editing
<1>6. CASE ReusePlaceholder \/ NewPlaceholder
  <2>1. pc = "assign" /\ UNCHANGED <<reports, pc, cand, todo, kept, lastEnd, left>>
    BY <1>6 DEF ReusePlaceholder, NewPlaceholder, Assigning, inputs, resolving, editing
  <2> QED
    BY <1>1, <2>1
<1>7. CASE Assigned
  BY <1>1, <1>7 DEF Assigned, inputs, resolving, numbering
<1>8. CASE \E n \in left : Replace(n)
  <2>1. pc = "replace" /\ UNCHANGED <<reports, pc, cand, todo, kept, lastEnd, ph>>
    BY <1>8 DEF Replace, inputs, resolving, numbering
  <2> QED
    BY <1>1, <2>1
<1> QED
  BY <1>2, <1>3, <1>4, <1>5, <1>6, <1>7, <1>8 DEF Next, Returned

-----------------------------------------------------------------------------
\* Every variable of a scan keeps its type, for every input.
THEOREM TypeCorrect == Spec => []TypeOK
<1>1. PassInv => TypeOK
  BY DEF PassInv
<1> QED
  BY InitPassInv, NextKeepsPassInv, <1>1, PTL DEF Spec

\* resolveOverlaps never keeps two findings that overlap, and keeps them in
\* text order: the precondition of the right to left edit of the text.
THEOREM ResolvedDisjoint == Spec => []KeptDisjoint
<1>1. PassInv => KeptDisjoint
  BY DEF PassInv
<1> QED
  BY InitPassInv, NextKeepsPassInv, <1>1, PTL DEF Spec

-----------------------------------------------------------------------------
(* Who loses.  PassInv is not enough for TopFindingKept: the reason for     *)
(* which a finding was left out must survive the replacement of the finding *)
(* it lost to, so it is stated of all the findings visited, not of those    *)
(* kept.                                                                    *)

\* The findings in play, loop by loop.
InPlay ==
  /\ pc = "filter" => cand = {i \in DOMAIN reports : Enabled(detectors, reports[i].type)}
  /\ pc \in {"resolve", "assign", "replace", "done"} =>
       cand = Live(text, reports, detectors, whitelist)
  /\ pc \in {"assign", "replace", "done"} => todo = {}

Lost(i) ==
  \E j \in (cand \ todo) \ {i} : /\ Overlap(reports[i], reports[j])
                                 /\ ~Better(reports[i], reports[j])

LosersLost ==
  pc \notin {"detect", "filter"} => \A i \in cand \ todo : i \in Range(kept) \/ Lost(i)

TopInv == PassInv /\ InPlay /\ LosersLost

LEMMA InitTopInv == Init => TopInv
BY InitPassInv DEF Init, TopInv, InPlay, LosersLost

LEMMA VisitKeepsLosersLost ==
  ASSUME TopInv, NEW i \in todo, Keep(i) \/ ReplacePrevious(i) \/ Drop(i)
  PROVE  LosersLost'
<1> USE DEF TopInv, PassInv, TypeOK
<1> DEFINE last == kept[Len(kept)]
<1>1. \A j \in cand : /\ reports[j].type \in Types
                      /\ reports[j].start \in Nat /\ reports[j].end \in Nat
                      /\ reports[j].start < reports[j].end
  <2> SUFFICES ASSUME NEW j \in cand
               PROVE  /\ reports[j].type \in Types
                      /\ reports[j].start \in Nat /\ reports[j].end \in Nat
                      /\ reports[j].start < reports[j].end
    OBVIOUS
  <2>1. reports[j] \in Finding(text) /\ text \in Seq(Symbols)
    BY TextsAssumption
  <2> QED
    BY <2>1 DEF Finding
<1>2. NextInOrder(i) /\ i \in cand
  BY DEF Keep, ReplacePrevious, Drop
<1>3. /\ todo' = todo \ {i} /\ cand' = cand /\ reports' = reports
      /\ pc = "resolve" /\ pc' = pc
  BY <1>2 DEF NextInOrder, inputs
<1>4. cand' \ todo' = (cand \ todo) \cup {i}
  BY <1>2, <1>3
<1>5. \A j \in cand \ todo : Lost(j) => Lost(j)'
  BY <1>3, <1>4 DEF Lost, Overlap, Better
<1>6. CASE Keep(i)
  <2>1. kept' = Append(kept, i)
    BY <1>6 DEF Keep
  <2>2. i \in Range(kept') /\ Range(kept) \subseteq Range(kept')
    <3>1. Len(kept) + 1 \in DOMAIN kept' /\ kept'[Len(kept) + 1] = i
      BY <2>1
    <3>2. \A m \in DOMAIN kept : m \in DOMAIN kept' /\ kept'[m] = kept[m]
      BY <2>1
    <3> QED
      BY <3>1, <3>2 DEF Range
  <2> QED
    BY <1>3, <1>4, <1>5, <2>2 DEF LosersLost
<1>7. CASE ReplacePrevious(i)
  <2>1. /\ kept # <<>> /\ kept' = [kept EXCEPT ![Len(kept)] = i]
        /\ reports[i].start < lastEnd /\ Better(reports[i], reports[last])
    BY <1>7 DEF ReplacePrevious, Last
  <2>2. last \in cand \ todo /\ reports[last].start <= reports[i].start
    BY <2>1 DEF KeptVisited, VisitedInOrder
  <2> PICK loser \in cand \ todo : loser = last
    BY <2>2
  <2>3. i \in Range(kept') /\ Range(kept) \subseteq Range(kept') \cup {loser}
    <3>1. Len(kept) \in DOMAIN kept' /\ kept'[Len(kept)] = i
      BY <2>1
    <3>2. \A m \in DOMAIN kept : m \in DOMAIN kept' /\ (m # Len(kept) => kept'[m] = kept[m])
      BY <2>1
    <3> QED
      BY <3>1, <3>2 DEF Range
  <2>4. Overlap(reports[loser], reports[i])
    BY <1>1, <1>2, <2>1, <2>2 DEF Overlap, LastEndOfLast
  <2>5. ~Better(reports[loser], reports[i])
    <3>1. Priority[reports[i].type] \in Nat /\ Priority[reports[loser].type] \in Nat
      BY <1>1, <1>2, PriorityAssumption
    <3>2. Size(reports[i]) \in Int /\ Size(reports[loser]) \in Int
      BY SMTT(30), <1>1, <1>2 DEF Size
    <3>3. Better(reports[i], reports[loser])
      BY <2>1
    <3> QED
      BY SMTT(30), <3>1, <3>2, <3>3 DEF Better
  <2>6. i \in (cand' \ todo') \ {loser} /\ reports' = reports
    BY <1>2, <1>3, <1>4
  <2>7. Lost(loser)'
    BY <2>4, <2>5, <2>6 DEF Lost, Overlap, Better, Size
  <2> QED
    BY <1>3, <1>4, <1>5, <2>3, <2>7 DEF LosersLost
<1>8. CASE Drop(i)
  <2>1. kept' = kept /\ reports[i].start < lastEnd
    BY <1>8 DEF Drop
  <2>2. kept # <<>> /\ lastEnd = reports[last].end
    BY <1>1, <1>2, <2>1 DEF LastEndOfLast
  <2>3. ~Better(reports[i], reports[last])
    BY <1>8, <2>2 DEF Drop, Last
  <2>4. last \in cand \ todo /\ reports[last].start <= reports[i].start
    BY <2>2 DEF KeptVisited, VisitedInOrder
  <2>5. Overlap(reports[i], reports[last])
    BY <1>1, <1>2, <2>1, <2>2, <2>4 DEF Overlap
  <2>6. Lost(i)'
    BY <1>2, <1>3, <1>4, <2>3, <2>4, <2>5 DEF Lost, Overlap, Better
  <2> QED
    BY <1>3, <1>4, <1>5, <2>1, <2>6 DEF LosersLost
<1> QED
  BY <1>6, <1>7, <1>8

LEMMA NextKeepsTopInv == TopInv /\ [Next]_vars => TopInv'
<1> SUFFICES ASSUME TopInv, [Next]_vars PROVE TopInv'
  OBVIOUS
<1>1. PassInv'
  BY NextKeepsPassInv DEF TopInv
<1> USE DEF TopInv, InPlay
<1>2. CASE Detect
  BY <1>1, <1>2 DEF Detect, LosersLost, Live, PassInv, BeforePass,
                    inputs, resolving, numbering, editing
<1>3. CASE Filter
  <2>1. /\ cand' = Live(text, reports, detectors, whitelist) /\ todo' = cand'
        /\ UNCHANGED inputs
    BY <1>3 DEF Filter, Live
  <2>2. pc' \in {"resolve", "done"} /\ (pc' = "done" => cand' = {})
    BY <1>3 DEF Filter
  <2> QED
    BY <1>1, <2>1, <2>2 DEF LosersLost, inputs
<1>4. CASE \E i \in todo : Keep(i) \/ ReplacePrevious(i) \/ Drop(i)
  <2> PICK i \in todo : Keep(i) \/ ReplacePrevious(i) \/ Drop(i)
    BY <1>4
  <2>1. LosersLost'
    BY VisitKeepsLosersLost
  <2>2. pc = "resolve" /\ UNCHANGED <<inputs, pc, cand>>
    BY DEF Keep, ReplacePrevious, Drop, NextInOrder
  <2> QED
    BY <1>1, <2>1, <2>2 DEF inputs
<1>5. CASE Resolved
  BY <1>1, <1>5 DEF Resolved, LosersLost, Lost, inputs, resolving, numbering, editing
<1>6. CASE ReusePlaceholder \/ NewPlaceholder \/ Assigned \/ Return
           \/ (\E n \in left : Replace(n)) \/ UNCHANGED vars
  <2>1. /\ UNCHANGED <<inputs, cand, todo, kept>>
        /\ \/ pc \in {"assign", "replace"} /\ pc' \in {"assign", "replace", "done"}
           \/ pc' = pc
    BY <1>6 DEF ReusePlaceholder, NewPlaceholder, Assigning, Assigned, Return, Replace,
                vars, resolving
  <2> QED
    BY <1>1, <2>1 DEF LosersLost, Lost, inputs
<1> QED
  BY <1>2, <1>3, <1>4, <1>5, <1>6 DEF Next, Returned

\* A finding that beats everything it overlaps is masked, whatever the other
\* findings are and however often resolveOverlaps changed its mind.
THEOREM TopFindingIsKept == Spec => []TopFindingKept
<1>1. TopInv => TopFindingKept
  <2> SUFFICES ASSUME TopInv, pc \in {"assign", "replace", "done"},
                      NEW i \in Live(text, reports, detectors, whitelist)
               PROVE  \/ i \in Range(kept)
                      \/ \E j \in Live(text, reports, detectors, whitelist) \ {i} :
                           /\ Overlap(reports[i], reports[j])
                           /\ ~Better(reports[i], reports[j])
    BY DEF TopFindingKept
  <2> QED
    BY DEF TopInv, InPlay, LosersLost, Lost
<1> QED
  BY InitTopInv, NextKeepsTopInv, <1>1, PTL DEF Spec

-----------------------------------------------------------------------------
(* Placeholders.  seenText is the graph of the numbering so far; that its   *)
(* numbers stay at or below the counters is what makes the next one new.    *)

SeenIsAssigned ==
  /\ DOMAIN seenText = {KeptText(m) : m \in DOMAIN ph}
  /\ \A m \in DOMAIN ph : ph[m] = seenText[KeptText(m)]

SeenOneToOne == \A x, y \in DOMAIN seenText : seenText[x] = seenText[y] => x = y

SeenCounted == \A x \in DOMAIN seenText : seenText[x][2] <= counters[seenText[x][1]]

NumberingInv == PassInv /\ SeenIsAssigned /\ SeenOneToOne /\ SeenCounted

LEMMA InitNumberingInv == Init => NumberingInv
<1> SUFFICES ASSUME Init PROVE NumberingInv
  OBVIOUS
<1>1. DOMAIN ph = {} /\ DOMAIN seenText = {}
  BY DEF Init
<1> QED
  BY <1>1, InitPassInv DEF NumberingInv, SeenIsAssigned, SeenOneToOne, SeenCounted

\* One turn of the numbering loop.
LEMMA NumberKeepsNumberingInv ==
  ASSUME NumberingInv, ReusePlaceholder \/ NewPlaceholder
  PROVE  SeenIsAssigned' /\ SeenOneToOne' /\ SeenCounted'
<1> USE DEF NumberingInv, PassInv, TypeOK
<1> DEFINE n == Len(ph) + 1
           s == KeptText(n)
<1>1. /\ n \in DOMAIN kept /\ UNCHANGED <<text, reports, kept>>
      /\ \A m : KeptText(m)' = KeptText(m)
  BY DEF ReusePlaceholder, NewPlaceholder, Assigning, inputs, resolving, KeptText
<1>2. CASE ReusePlaceholder
  <2>1. ph' = Append(ph, seenText[s]) /\ s \in DOMAIN seenText
        /\ UNCHANGED <<counters, seenText>>
    BY <1>2 DEF ReusePlaceholder
  <2>2. DOMAIN ph' = DOMAIN ph \cup {n} /\ ph'[n] = seenText[s]
        /\ \A m \in DOMAIN ph : ph'[m] = ph[m]
    BY <2>1
  <2>3. SeenIsAssigned'
    BY <1>1, <2>1, <2>2 DEF SeenIsAssigned
  <2> QED
    BY <2>1, <2>3 DEF SeenOneToOne, SeenCounted
<1>3. CASE NewPlaceholder
  <2> DEFINE t == reports[kept[n]].type
             p == <<t, NextNumber(t)>>
  <2>1. /\ ph' = Append(ph, p) /\ s \notin DOMAIN seenText
        /\ counters' = [counters EXCEPT ![t] = @ + 1]
        /\ seenText' = [x \in DOMAIN seenText \cup {s} |->
                          IF x = s THEN p ELSE seenText[x]]
    BY <1>3 DEF NewPlaceholder, NextNumber, Remember
  <2>2. t \in Types
    <3>1. kept[n] \in DOMAIN reports
      BY <1>1
    <3>2. reports[kept[n]] \in Finding(text)
      BY <3>1
    <3> QED
      BY <3>2 DEF Finding
  <2>3. DOMAIN ph' = DOMAIN ph \cup {n} /\ ph'[n] = p
        /\ \A m \in DOMAIN ph : ph'[m] = ph[m]
    <3>1. p \in Placeholder
      BY SMTT(30), <2>2 DEF Placeholder, NextNumber
    <3> QED
      BY <2>1, <3>1
  <2>4. /\ DOMAIN seenText' = DOMAIN seenText \cup {s}
        /\ seenText'[s] = p
        /\ \A x \in DOMAIN seenText : seenText'[x] = seenText[x] /\ x # s
    BY <2>1
  <2>5. SeenIsAssigned'
    BY <1>1, <2>3, <2>4 DEF SeenIsAssigned
  <2>6. \A x \in DOMAIN seenText :
          /\ seenText[x][1] \in Types /\ seenText[x][2] \in Nat
          /\ counters[seenText[x][1]] \in Nat
          /\ seenText[x][2] <= counters[seenText[x][1]]
    BY DEF SeenCounted, Placeholder
  <2>7. \A x \in DOMAIN seenText : seenText[x] # p
    <3> SUFFICES ASSUME NEW x \in DOMAIN seenText, seenText[x] = p PROVE FALSE
      OBVIOUS
    <3>1. seenText[x][1] = t /\ seenText[x][2] = counters[t] + 1
      BY DEF NextNumber
    <3> QED
      BY <2>6, <3>1
  <2>8. SeenOneToOne'
    BY <2>4, <2>7 DEF SeenOneToOne
  <2>9. SeenCounted'
    <3> SUFFICES ASSUME NEW x \in DOMAIN seenText'
                 PROVE  seenText'[x][2] <= counters'[seenText'[x][1]]
      BY DEF SeenCounted
    <3>1. CASE x = s
      BY <2>1, <2>2, <2>4, <3>1 DEF NextNumber
    <3>2. CASE x \in DOMAIN seenText
      BY SMTT(30), <2>1, <2>2, <2>4, <2>6, <3>2
    <3> QED
      BY <2>4, <3>1, <3>2
  <2> QED
    BY <2>5, <2>8, <2>9
<1> QED
  BY <1>2, <1>3

LEMMA NextKeepsNumberingInv == NumberingInv /\ [Next]_vars => NumberingInv'
<1> SUFFICES ASSUME NumberingInv, [Next]_vars PROVE NumberingInv'
  OBVIOUS
<1>1. PassInv'
  BY NextKeepsPassInv DEF NumberingInv
<1>2. CASE ReusePlaceholder \/ NewPlaceholder
  BY <1>1, <1>2, NumberKeepsNumberingInv DEF NumberingInv
<1>3. CASE Detect \/ Filter \/ Resolved
           \/ (\E i \in todo : Keep(i) \/ ReplacePrevious(i) \/ Drop(i))
  <2>1. pc \in {"detect", "filter", "resolve"} /\ UNCHANGED numbering
    BY <1>3 DEF Detect, Filter, Resolved, Keep, ReplacePrevious, Drop, NextInOrder
  <2>2. DOMAIN ph = {} /\ DOMAIN seenText = {}
    BY <2>1 DEF NumberingInv, PassInv, AssignAfterPass, SeenIsAssigned
  <2> QED
    BY <1>1, <2>1, <2>2 DEF NumberingInv, SeenIsAssigned, SeenOneToOne, SeenCounted, numbering
<1>4. CASE Assigned \/ Return \/ (\E n \in left : Replace(n)) \/ UNCHANGED vars
  <2>1. UNCHANGED <<text, reports, kept, numbering>>
    BY <1>4 DEF Assigned, Return, Replace, vars, inputs, resolving
  <2> QED
    BY <1>1, <2>1
    DEF NumberingInv, SeenIsAssigned, SeenOneToOne, SeenCounted, KeptText, numbering
<1> QED
  BY <1>2, <1>3, <1>4 DEF Next, Returned

\* Two masked values share a placeholder exactly when their texts are equal,
\* whatever their types, in every text and after every number of findings.
THEOREM NumberingOneToOne == Spec => []PlaceholdersOneToOne
<1>1. NumberingInv => PlaceholdersOneToOne
  BY DEF NumberingInv, SeenIsAssigned, SeenOneToOne, PlaceholdersOneToOne
<1> QED
  BY InitNumberingInv, NextKeepsNumberingInv, <1>1, PTL DEF Spec

-----------------------------------------------------------------------------
(* The edit.  The loop replaces the findings from right to left, so what is *)
(* left of the last one replaced is still the text, offset by offset.       *)

\* What the text is made of while it is edited.
Text == Seq(Symbols \cup Placeholder)

StartOf(n) == reports[kept[n]].start
EndOf(n) == reports[kept[n]].end

\* What becomes of symbol p when the findings at the positions D of kept are
\* replaced.
PieceAt(D, p) ==
  LET here == {n \in D : StartOf(n) < p /\ p <= EndOf(n)}
      n == CHOOSE n \in here : TRUE
  IN  IF here = {} THEN <<text[p]>> ELSE IF p = StartOf(n) + 1 THEN <<ph[n]>> ELSE <<>>

Pieces(D) == [p \in 1 .. Len(text) |-> PieceAt(D, p)]

\* The positions whose replacement has been applied.
Edited == DOMAIN kept \ left

\* What a symbol of the result stands for.
Meaning(x) == IF x \in Range(ph) THEN Mapping[x] ELSE <<x>>
Meanings(w) == [p \in DOMAIN w |-> Meaning(w[p])]

\* From right to left, the findings replaced so far are in the result as the
\* contract wants them, and the result still says what the text says.
EditInv ==
  /\ pc \notin {"replace", "done"} => out = text
  /\ pc \in {"replace", "done"} =>
       /\ Len(ph) = Len(kept)
       /\ \A m \in left, n \in Edited : m < n
       /\ out = FlattenSeq(Pieces(Edited))
       /\ Restored = text
  /\ pc = "done" => left = {}

-----------------------------------------------------------------------------
\* Where the findings kept lie.
LEMMA Spans ==
  ASSUME PassInv
  PROVE  /\ text \in Seq(Symbols)
         /\ \A n \in DOMAIN kept : /\ reports[kept[n]] \in Finding(text)
                                   /\ StartOf(n) \in 0 .. Len(text) /\ EndOf(n) \in 0 .. Len(text)
                                   /\ StartOf(n) < EndOf(n)
                                   /\ KeptText(n) = SubSeq(text, StartOf(n) + 1, EndOf(n))
                                   /\ KeptText(n) \in Seq(Symbols)
         /\ \A m, n \in DOMAIN kept : m < n => EndOf(m) <= StartOf(n)
<1>1. text \in Seq(Symbols)
  BY TextsAssumption DEF PassInv, TypeOK
<1>2. ASSUME NEW n \in DOMAIN kept
      PROVE  /\ reports[kept[n]] \in Finding(text)
             /\ StartOf(n) \in 0 .. Len(text) /\ EndOf(n) \in 0 .. Len(text)
             /\ StartOf(n) < EndOf(n)
             /\ KeptText(n) = SubSeq(text, StartOf(n) + 1, EndOf(n))
             /\ KeptText(n) \in Seq(Symbols)
  <2>1. kept[n] \in DOMAIN reports
    BY DEF PassInv, TypeOK
  <2>2. reports[kept[n]] \in Finding(text)
    BY <2>1 DEF PassInv, TypeOK
  <2>3. /\ StartOf(n) \in 0 .. Len(text) /\ EndOf(n) \in 0 .. Len(text)
        /\ StartOf(n) < EndOf(n)
    BY <1>1, <2>2 DEF Finding, StartOf, EndOf
  <2>4. KeptText(n) = SubSeq(text, StartOf(n) + 1, EndOf(n))
    BY DEF KeptText, TextOf, StartOf, EndOf
  <2>5. KeptText(n) \in Seq(Symbols)
    BY <1>1, <2>3, <2>4
  <2> QED BY <2>2, <2>3, <2>4, <2>5
<1>3. \A m, n \in DOMAIN kept : m < n => EndOf(m) <= StartOf(n)
  BY DEF PassInv, KeptDisjoint, StartOf, EndOf
<1> QED BY <1>1, <1>2, <1>3

LEMMA MeaningsConcat ==
  ASSUME NEW a \in Text, NEW b \in Text
  PROVE  Meanings(a \o b) = Meanings(a) \o Meanings(b)
<1>1. a \o b \in Text /\ Len(a \o b) = Len(a) + Len(b)
  BY DEF Text
<1>2. \A i \in 1 .. Len(a) + Len(b) :
        (a \o b)[i] = IF i <= Len(a) THEN a[i] ELSE b[i - Len(a)]
  BY DEF Text
<1> DEFINE l == Meanings(a \o b)  r == Meanings(a) \o Meanings(b)
<1>3. l = [i \in 1 .. Len(a) + Len(b) |-> Meaning((a \o b)[i])]
  BY <1>1 DEF Meanings, Text
<1>4. /\ Len(a) \in Nat /\ Len(b) \in Nat
      /\ Meanings(a) = [i \in 1 .. Len(a) |-> Meaning(a[i])]
      /\ Meanings(b) = [i \in 1 .. Len(b) |-> Meaning(b[i])]
  BY DEF Meanings, Text
<1>5. r = [i \in 1 .. Len(a) + Len(b) |->
             IF i <= Len(a) THEN Meaning(a[i]) ELSE Meaning(b[i - Len(a)])]
  BY <1>4
<1> QED BY <1>2, <1>3, <1>4, <1>5

\* The letters of the text stand for themselves.
LEMMA LettersStay ==
  ASSUME PassInv, NEW w \in Seq(Symbols)
  PROVE  FlattenSeq(Meanings(w)) = w
<1>1. \A x \in Range(ph) : x \in Types \X Nat
  BY DEF PassInv, TypeOK, Placeholder, Range
<1>2. \A p \in DOMAIN w : w[p] \notin Range(ph)
  BY <1>1, SymbolsAssumption
<1>3. Meanings(w) = [p \in DOMAIN w |-> <<w[p]>>]
  BY <1>2 DEF Meanings, Meaning
<1> QED BY <1>3, FlattenLetters

LEMMA MeaningOfPlaceholder ==
  ASSUME NumberingInv, NEW n \in DOMAIN ph
  PROVE  Meaning(ph[n]) = KeptText(n)
<1>1. ph[n] \in Range(ph)
  BY DEF Range
<1> DEFINE m == CHOOSE k \in DOMAIN ph : ph[k] = ph[n]
<1>2. m \in DOMAIN ph /\ ph[m] = ph[n]
  OBVIOUS
<1>3. KeptText(m) = KeptText(n)
  BY <1>2 DEF NumberingInv, SeenIsAssigned, SeenOneToOne
<1>4. Mapping[ph[n]] = KeptText(m)
  BY <1>1 DEF Mapping
<1> QED BY <1>1, <1>3, <1>4 DEF Meaning

LEMMA MeaningsTyped ==
  ASSUME NumberingInv, NEW w \in Text
  PROVE  Meanings(w) \in Seq(Text)
<1>1. ASSUME NEW x \in Symbols \cup Placeholder PROVE Meaning(x) \in Text
  <2>1. CASE x \in Range(ph)
    <3>1. PICK n \in DOMAIN ph : x = ph[n]
      BY <2>1 DEF Range
    <3>2. n \in DOMAIN kept
      BY DEF NumberingInv, PassInv, TypeOK
    <3>3. KeptText(n) \in Seq(Symbols)
      BY <3>2, Spans DEF NumberingInv
    <3>4. KeptText(n) \in Text
      BY <3>3 DEF Text
    <3> QED BY <3>1, <3>4, MeaningOfPlaceholder
  <2>2. CASE x \notin Range(ph)
    BY <2>2 DEF Meaning, Text
  <2> QED BY <2>1, <2>2
<1>2. Meanings(w) = [p \in 1 .. Len(w) |-> Meaning(w[p])]
  BY DEF Meanings, Text
<1>3. \A p \in 1 .. Len(w) : Meaning(w[p]) \in Text
  BY <1>1 DEF Text
<1>4. Len(w) \in Nat
  BY DEF Text
<1> HIDE DEF Text
<1> QED BY <1>2, <1>3, <1>4

\* Replacing one more finding, left of those replaced so far, changes the
\* pieces of its own span and no other.
LEMMA PiecesAround ==
  ASSUME PassInv, NEW n \in DOMAIN kept, NEW D \in SUBSET (DOMAIN kept),
         \A k \in D : n < k
  PROVE  /\ \A p \in 1 .. EndOf(n) : PieceAt(D, p) = <<text[p]>>
         /\ \A p \in 1 .. StartOf(n) : PieceAt(D \cup {n}, p) = <<text[p]>>
         /\ PieceAt(D \cup {n}, StartOf(n) + 1) = <<ph[n]>>
         /\ \A p \in StartOf(n) + 2 .. EndOf(n) : PieceAt(D \cup {n}, p) = <<>>
         /\ \A p \in EndOf(n) + 1 .. Len(text) : PieceAt(D \cup {n}, p) = PieceAt(D, p)
<1> DEFINE here(E, p) == {k \in E : StartOf(k) < p /\ p <= EndOf(k)}
<1>1. /\ \A k \in DOMAIN kept : StartOf(k) \in Int /\ EndOf(k) \in Int /\ StartOf(k) < EndOf(k)
      /\ \A k \in D : EndOf(n) <= StartOf(k)
      /\ StartOf(n) \in Nat
  BY Spans
<1>2. \A p \in 1 .. EndOf(n) : here(D, p) = {}
  BY <1>1
<1>3. \A p \in 1 .. StartOf(n) : here(D \cup {n}, p) = {}
  BY <1>1
<1>4. \A p \in StartOf(n) + 1 .. EndOf(n) : here(D \cup {n}, p) = {n}
  BY <1>1
<1>5. \A p \in EndOf(n) + 1 .. Len(text) : here(D \cup {n}, p) = here(D, p)
  <2> SUFFICES ASSUME NEW p \in EndOf(n) + 1 .. Len(text)
               PROVE  here(D \cup {n}, p) = here(D, p)
    OBVIOUS
  <2>1. ~(p <= EndOf(n))
    BY <1>1
  <2> QED BY <2>1
<1>6. \A E, p : PieceAt(E, p) =
        IF here(E, p) = {} THEN <<text[p]>>
        ELSE IF p = StartOf(CHOOSE k \in here(E, p) : TRUE) + 1
             THEN <<ph[CHOOSE k \in here(E, p) : TRUE]>> ELSE <<>>
  BY DEF PieceAt
<1>7. \A E, p : here(E, p) = {n} =>
        PieceAt(E, p) = IF p = StartOf(n) + 1 THEN <<ph[n]>> ELSE <<>>
  BY <1>6
<1> HIDE DEF here
<1>8. \A p \in 1 .. EndOf(n) : PieceAt(D, p) = <<text[p]>>
  BY <1>2, <1>6
<1>9. \A p \in 1 .. StartOf(n) : PieceAt(D \cup {n}, p) = <<text[p]>>
  BY <1>3, <1>6
<1>10. PieceAt(D \cup {n}, StartOf(n) + 1) = <<ph[n]>>
  <2>1. StartOf(n) + 1 \in StartOf(n) + 1 .. EndOf(n)
    BY <1>1
  <2> QED BY <1>4, <1>7, <2>1
<1>11. \A p \in StartOf(n) + 2 .. EndOf(n) : PieceAt(D \cup {n}, p) = <<>>
  <2> TAKE p \in StartOf(n) + 2 .. EndOf(n)
  <2>1. p \in StartOf(n) + 1 .. EndOf(n) /\ p # StartOf(n) + 1
    BY <1>1
  <2> QED BY <1>4, <1>7, <2>1
<1>12. \A p \in EndOf(n) + 1 .. Len(text) : PieceAt(D \cup {n}, p) = PieceAt(D, p)
  <2> TAKE p \in EndOf(n) + 1 .. Len(text)
  <2>1. here(D \cup {n}, p) = here(D, p)
    BY <1>5
  <2> DEFINE piece(h) == IF h = {} THEN <<text[p]>>
                         ELSE IF p = StartOf(CHOOSE k \in h : TRUE) + 1
                              THEN <<ph[CHOOSE k \in h : TRUE]>> ELSE <<>>
  <2>2. \A E : PieceAt(E, p) = piece(here(E, p))
    BY <1>6
  <2> HIDE DEF piece
  <2> QED BY <2>1, <2>2
<1> QED BY <1>8, <1>9, <1>10, <1>11, <1>12

LEMMA PieceTyped ==
  ASSUME PassInv, Len(ph) = Len(kept), NEW D \in SUBSET (DOMAIN kept), NEW p \in 1 .. Len(text)
  PROVE  PieceAt(D, p) \in Text
<1> DEFINE here == {k \in D : StartOf(k) < p /\ p <= EndOf(k)}
           n == CHOOSE k \in here : TRUE
<1>1. <<text[p]>> \in Text
  BY Spans DEF Text
<1>2. here # {} => n \in DOMAIN ph
  BY DEF PassInv, TypeOK
<1>3. n \in DOMAIN ph => <<ph[n]>> \in Text
  BY DEF PassInv, TypeOK, Text
<1>4. <<>> \in Text
  BY DEF Text
<1> HIDE DEF n
<1>5. PieceAt(D, p) = IF here = {} THEN <<text[p]>> ELSE IF p = StartOf(n) + 1 THEN <<ph[n]>> ELSE <<>>
  BY DEF PieceAt, n
<1> QED BY <1>1, <1>2, <1>3, <1>4, <1>5

LEMMA SplitAt ==
  ASSUME NEW f, NEW l \in Nat, NEW s \in 0 .. l
  PROVE  [p \in 1 .. l |-> f[p]] = [p \in 1 .. s |-> f[p]] \o [p \in 1 .. l - s |-> f[s + p]]
<1> DEFINE a == [p \in 1 .. s |-> f[p]]  b == [p \in 1 .. l - s |-> f[s + p]]
           R == {f[p] : p \in 1 .. l}
<1>1. Len(a) = s /\ Len(b) = l - s /\ a \in Seq(R) /\ b \in Seq(R) /\ s \in Nat /\ l - s \in Nat
  OBVIOUS
<1>2. \A p \in 1 .. l : f[p] = IF p <= s THEN a[p] ELSE b[p - s]
  OBVIOUS
<1>3. [p \in 1 .. l |-> f[p]] \in Seq(R) /\ Len([p \in 1 .. l |-> f[p]]) = l
  OBVIOUS
<1> HIDE DEF a, b, R
<1>4. /\ a \o b \in Seq(R) /\ Len(a \o b) = s + (l - s)
      /\ \A i \in 1 .. s + (l - s) : (a \o b)[i] = IF i <= s THEN a[i] ELSE b[i - s]
  <2>1. a \o b \in Seq(R)
    BY <1>1, ConcatProperties
  <2>2. Len(a \o b) = Len(a) + Len(b)
    BY <1>1, ConcatProperties
  <2>3. \A i \in 1 .. Len(a) + Len(b) : (a \o b)[i] = IF i <= Len(a) THEN a[i] ELSE b[i - Len(a)]
    BY <1>1, ConcatProperties
  <2> QED BY <1>1, <2>1, <2>2, <2>3
<1>5. s + (l - s) = l
  OBVIOUS
<1> DEFINE c == [p \in 1 .. l |-> f[p]]  d == a \o b
<1>6. /\ c \in Seq(R) /\ d \in Seq(R) /\ Len(c) = Len(d)
      /\ \A i \in 1 .. Len(c) : c[i] = d[i]
  BY <1>2, <1>3, <1>4, <1>5
<1> HIDE DEF c, d
<1>7. c = d
  BY <1>6, SeqEqual
<1> QED BY <1>7 DEF a, b, c, d

\* The same of the text made of the pieces.
LEMMA EditStep ==
  ASSUME PassInv, Len(ph) = Len(kept), NEW n \in DOMAIN kept, NEW D \in SUBSET (DOMAIN kept),
         \A k \in D : n < k
  PROVE  \E t \in Text :
           /\ FlattenSeq(Pieces(D)) = SubSeq(text, 1, StartOf(n)) \o (KeptText(n) \o t)
           /\ FlattenSeq(Pieces(D \cup {n})) = SubSeq(text, 1, StartOf(n)) \o (<<ph[n]>> \o t)
<1> DEFINE s == StartOf(n)  e == EndOf(n)  L == Len(text)
           before == [p \in 1 .. s |-> <<text[p]>>]
           span == [p \in 1 .. e - s |-> <<text[s + p]>>]
           place == [p \in 1 .. e - s |-> IF p = 1 THEN <<ph[n]>> ELSE <<>>]
           after == [p \in 1 .. L - e |-> PieceAt(D, e + p)]
           t == FlattenSeq(after)
<1>1. /\ s \in Nat /\ e \in Nat /\ L \in Nat /\ s < e /\ e <= L
      /\ text \in Seq(Symbols) /\ KeptText(n) = SubSeq(text, s + 1, e)
      /\ KeptText(n) \in Seq(Symbols)
  BY Spans
<1>2. /\ before \in Seq(Text) /\ span \in Seq(Text) /\ place \in Seq(Text) /\ after \in Seq(Text)
  <2>1. \A p \in 1 .. L : <<text[p]>> \in Text
    BY <1>1 DEF Text
  <2>2. <<ph[n]>> \in Text /\ <<>> \in Text
    BY DEF PassInv, TypeOK, Text
  <2>3. \A p \in 1 .. L - e : PieceAt(D, e + p) \in Text
    BY SMTT(30), <1>1, PieceTyped
  <2> HIDE DEF s, e, L, Text, PieceAt
  <2>4. before \in Seq(Text)
    BY <1>1, <2>1
  <2>5. span \in Seq(Text)
    BY <1>1, <2>1
  <2>6. place \in Seq(Text)
    BY <1>1, <2>2
  <2>7. after \in Seq(Text)
    BY <1>1, <2>3
  <2> QED BY <2>4, <2>5, <2>6, <2>7
<1>3. Pieces(D) = before \o (span \o after)
  <2> DEFINE f == Pieces(D)  rest == [p \in 1 .. L - s |-> f[s + p]]
  <2>1. \A p \in 1 .. e : PieceAt(D, p) = <<text[p]>>
    BY PiecesAround
  <2>2. f = [p \in 1 .. L |-> PieceAt(D, p)]
    BY DEF Pieces
  <2> HIDE DEF s, e, L, PieceAt, f
  <2>3. f = [p \in 1 .. s |-> f[p]] \o rest
    <3>1. f = [p \in 1 .. L |-> f[p]]
      BY <2>2
    <3>2. s \in 0 .. L /\ L \in Nat
      BY <1>1
    <3>3. [p \in 1 .. L |-> f[p]] = [p \in 1 .. s |-> f[p]] \o [p \in 1 .. L - s |-> f[s + p]]
      BY <3>2, SplitAt
    <3> QED BY <3>1, <3>3
  <2>4. rest = [p \in 1 .. e - s |-> rest[p]] \o [p \in 1 .. (L - s) - (e - s) |-> rest[(e - s) + p]]
    <3>1. e - s \in 0 .. L - s /\ L - s \in Nat
      BY <1>1
    <3>2. rest = [p \in 1 .. L - s |-> rest[p]]
      OBVIOUS
    <3> HIDE DEF rest
    <3> QED BY SMTT(30), <3>1, <3>2, SplitAt
  <2>5. [p \in 1 .. s |-> f[p]] = before
    BY <1>1, <2>1, <2>2
  <2>6. [p \in 1 .. e - s |-> rest[p]] = span
    BY <1>1, <2>1, <2>2
  <2>7. [p \in 1 .. (L - s) - (e - s) |-> rest[(e - s) + p]] = after
    <3>1. (L - s) - (e - s) = L - e
      BY <1>1
    <3>2. \A p \in 1 .. L - e : rest[(e - s) + p] = PieceAt(D, e + p)
      BY <1>1, <2>2
    <3> HIDE DEF rest
    <3> QED BY <3>1, <3>2
  <2> QED BY <2>3, <2>4, <2>5, <2>6, <2>7 DEF f
<1>4. Pieces(D \cup {n}) = before \o (place \o after)
  <2> DEFINE E == D \cup {n}
             f == Pieces(E)  rest == [p \in 1 .. L - s |-> f[s + p]]
  <2>1. /\ \A p \in 1 .. s : PieceAt(E, p) = <<text[p]>>
        /\ PieceAt(E, s + 1) = <<ph[n]>>
        /\ \A p \in s + 2 .. e : PieceAt(E, p) = <<>>
        /\ \A p \in e + 1 .. L : PieceAt(E, p) = PieceAt(D, p)
    BY PiecesAround
  <2>2. f = [p \in 1 .. L |-> PieceAt(E, p)]
    BY DEF Pieces
  <2> HIDE DEF s, e, L, PieceAt, f, E
  <2>3. f = [p \in 1 .. s |-> f[p]] \o rest
    <3>1. f = [p \in 1 .. L |-> f[p]]
      BY <2>2
    <3>2. s \in 0 .. L /\ L \in Nat
      BY <1>1
    <3>3. [p \in 1 .. L |-> f[p]] = [p \in 1 .. s |-> f[p]] \o [p \in 1 .. L - s |-> f[s + p]]
      BY <3>2, SplitAt
    <3> QED BY <3>1, <3>3
  <2>4. rest = [p \in 1 .. e - s |-> rest[p]] \o [p \in 1 .. (L - s) - (e - s) |-> rest[(e - s) + p]]
    <3>1. e - s \in 0 .. L - s /\ L - s \in Nat
      BY <1>1
    <3>2. rest = [p \in 1 .. L - s |-> rest[p]]
      OBVIOUS
    <3> HIDE DEF rest
    <3> QED BY SMTT(30), <3>1, <3>2, SplitAt
  <2>5. [p \in 1 .. s |-> f[p]] = before
    BY <1>1, <2>1, <2>2
  <2>6. [p \in 1 .. e - s |-> rest[p]] = place
    <3> SUFFICES ASSUME NEW p \in 1 .. e - s
                 PROVE  rest[p] = IF p = 1 THEN <<ph[n]>> ELSE <<>>
      OBVIOUS
    <3>1. s + p \in 1 .. L /\ p \in 1 .. L - s
      BY <1>1
    <3>2. rest[p] = PieceAt(E, s + p)
      BY <2>2, <3>1
    <3>3. CASE p = 1
      BY <2>1, <3>2, <3>3
    <3>4. CASE p # 1
      <4>1. s + p \in s + 2 .. e
        BY <1>1, <3>4
      <4> QED BY <2>1, <3>2, <3>4, <4>1
    <3> QED BY <3>3, <3>4
  <2>7. [p \in 1 .. (L - s) - (e - s) |-> rest[(e - s) + p]] = after
    <3>1. (L - s) - (e - s) = L - e
      BY <1>1
    <3>2. \A p \in 1 .. L - e : rest[(e - s) + p] = PieceAt(D, e + p)
      <4> TAKE p \in 1 .. L - e
      <4>1. /\ (e - s) + p \in 1 .. L - s /\ s + ((e - s) + p) = e + p
            /\ e + p \in 1 .. L /\ e + p \in e + 1 .. L
        BY <1>1
      <4>2. rest[(e - s) + p] = PieceAt(E, e + p)
        BY <2>2, <4>1
      <4> QED BY <2>1, <4>1, <4>2
    <3> HIDE DEF rest
    <3> QED BY <3>1, <3>2
  <2> QED BY <2>3, <2>4, <2>5, <2>6, <2>7 DEF f, E
<1>5. FlattenSeq(before) = SubSeq(text, 1, s)
  <2> DEFINE w == SubSeq(text, 1, s)
  <2>1. w \in Seq(Symbols) /\ before = [p \in DOMAIN w |-> <<w[p]>>]
    BY <1>1
  <2> HIDE DEF before, w
  <2>2. FlattenSeq(before) = w
    BY <2>1, FlattenLetters
  <2> QED BY <2>2 DEF w
<1>6. FlattenSeq(span) = KeptText(n)
  <2> DEFINE w == KeptText(n)
  <2>1. span = [p \in DOMAIN w |-> <<w[p]>>]
    BY SMTT(30), <1>1
  <2> HIDE DEF span, w
  <2>2. FlattenSeq(span) = w
    BY <1>1, <2>1, FlattenLetters DEF w
  <2> QED BY <2>2 DEF w
<1>7. FlattenSeq(place) = <<ph[n]>>
  <2> DEFINE one == << <<ph[n]>> >>  rest == [p \in 1 .. e - s - 1 |-> <<>>]
  <2>1. /\ e - s - 1 \in Nat /\ place = one \o rest
        /\ rest \in Seq(Text) /\ one \in Seq(Text) /\ <<ph[n]>> \in Text
    <3>1. e - s - 1 \in Nat
      BY <1>1
    <3>2. <<ph[n]>> \in Text /\ <<>> \in Text
      BY DEF PassInv, TypeOK, Text
    <3> HIDE DEF s, e, Text
    <3>3. place = one \o rest
      <4>1. place = [p \in 1 .. e - s |-> place[p]] /\ 1 \in 0 .. e - s /\ e - s \in Nat
        BY <1>1
      <4>2. [p \in 1 .. 1 |-> place[p]] = one
        BY <1>1
      <4>3. [p \in 1 .. e - s - 1 |-> place[1 + p]] = rest
        BY <1>1
      <4> HIDE DEF place, one, rest
      <4>4. [p \in 1 .. e - s |-> place[p]] = [p \in 1 .. 1 |-> place[p]] \o [p \in 1 .. e - s - 1 |-> place[1 + p]]
        BY <4>1, SplitAt
      <4> QED BY <4>2, <4>3, <4>4, <4>1
    <3>4. rest \in Seq(Text) /\ one \in Seq(Text)
      BY <3>1, <3>2
    <3> QED BY <3>1, <3>2, <3>3, <3>4
  <2>2. FlattenSeq(rest) = <<>>
    BY <2>1, FlattenNothing
  <2>3. FlattenSeq(one) = <<ph[n]>>
    <3>1. one = Append(<<>>, <<ph[n]>>) /\ <<>> \in Seq(Text)
      OBVIOUS
    <3>2. FlattenSeq(one) = FlattenSeq(<<>>) \o <<ph[n]>>
      <4> HIDE DEF one
      <4> QED BY <2>1, <3>1, FlattenAppend DEF Text
    <3>3. <<>> \o <<ph[n]>> = <<ph[n]>>
      OBVIOUS
    <3> QED BY <3>2, <3>3, FlattenEmpty
  <2>4. FlattenSeq(place) = FlattenSeq(one) \o FlattenSeq(rest)
    <3> HIDE DEF one, rest, place
    <3> QED BY <2>1, FlattenConcat DEF Text
  <2>5. <<ph[n]>> \o <<>> = <<ph[n]>>
    OBVIOUS
  <2> QED BY <2>2, <2>3, <2>4, <2>5
<1> HIDE DEF before, span, place, after, s
<1>8. t \in Text
  BY <1>2, FlattenType DEF Text
<1>9. FlattenSeq(Pieces(D)) = SubSeq(text, 1, s) \o (KeptText(n) \o t)
  <2> DEFINE tail == span \o after
  <2>1. tail \in Seq(Text)
    BY <1>2, ConcatProperties
  <2>2. FlattenSeq(tail) = FlattenSeq(span) \o t
    BY <1>2, FlattenConcat DEF Text
  <2> HIDE DEF tail
  <2>3. FlattenSeq(before \o tail) = FlattenSeq(before) \o FlattenSeq(tail)
    BY <1>2, <2>1, FlattenConcat DEF Text
  <2> QED BY <1>3, <1>5, <1>6, <2>2, <2>3 DEF tail
<1>10. FlattenSeq(Pieces(D \cup {n})) = SubSeq(text, 1, s) \o (<<ph[n]>> \o t)
  <2> DEFINE tail == place \o after
  <2>1. tail \in Seq(Text)
    BY <1>2, ConcatProperties
  <2>2. FlattenSeq(tail) = FlattenSeq(place) \o t
    BY <1>2, FlattenConcat DEF Text
  <2> HIDE DEF tail
  <2>3. FlattenSeq(before \o tail) = FlattenSeq(before) \o FlattenSeq(tail)
    BY <1>2, <2>1, FlattenConcat DEF Text
  <2> QED BY <1>4, <1>5, <1>7, <2>2, <2>3 DEF tail
<1> QED BY <1>8, <1>9, <1>10 DEF s

\* The pieces and the meanings depend on nothing else.
LEMMA PiecesUnchanged ==
  ASSUME UNCHANGED <<text, reports, kept, ph>>
  PROVE  /\ \A D : Pieces(D)' = Pieces(D)
         /\ \A w : Meanings(w)' = Meanings(w)
<1>1. \A D, p : PieceAt(D, p)' = PieceAt(D, p)
  BY DEF PieceAt, StartOf, EndOf
<1>2. \A D : Pieces(D)' = Pieces(D)
  BY <1>1 DEF Pieces
<1>3. \A m : KeptText(m)' = KeptText(m)
  BY DEF KeptText
<1>4. Mapping' = Mapping
  BY <1>3 DEF Mapping
<1>5. \A w : Meanings(w)' = Meanings(w)
  BY <1>4 DEF Meanings, Meaning
<1> QED BY <1>2, <1>5

LEMMA RestoredIsMeanings == Restored = FlattenSeq(Meanings(out))
BY DEF Restored, Meanings, Meaning

\* Before the first replacement.
LEMMA NothingEdited ==
  ASSUME PassInv
  PROVE  FlattenSeq(Pieces({})) = text /\ FlattenSeq(Meanings(text)) = text
<1>1. text \in Seq(Symbols)
  BY Spans
<1>2. Pieces({}) = [p \in DOMAIN text |-> <<text[p]>>]
  <2>1. \A p : PieceAt({}, p) = <<text[p]>>
    BY DEF PieceAt
  <2> QED BY <1>1, <2>1 DEF Pieces
<1> QED BY <1>1, <1>2, FlattenLetters, LettersStay

LEMMA InitEditInv == Init => EditInv
BY DEF Init, EditInv

LEMMA WhatFollows ==
  ASSUME NEW S, NEW a \in Seq(S), NEW b \in Seq(S), NEW t \in Seq(S)
  PROVE  SubSeq(a \o (b \o t), Len(a) + Len(b) + 1, Len(a \o (b \o t))) = t
<1> DEFINE w == a \o (b \o t)
           m == Len(a) + Len(b) + 1
           r == SubSeq(w, m, Len(w))
<1>1. w \in Seq(S) /\ Len(w) = Len(a) + Len(b) + Len(t)
  OBVIOUS
<1>2. \A i \in 1 .. Len(t) : w[Len(a) + Len(b) + i] = t[i]
  BY SMTT(30)
<1> HIDE DEF w
<1>3. r \in Seq(S) /\ Len(r) = Len(t) /\ \A i \in 1 .. Len(t) : r[i] = w[Len(a) + Len(b) + i]
  BY <1>1
<1> HIDE DEF r
<1>4. r = t
  BY <1>2, <1>3, SeqEqual
<1> QED BY <1>4 DEF r, w

\* One turn of the loop that edits the text.
LEMMA ReplaceKeepsEditInv ==
  ASSUME NumberingInv, EditInv, NEW n \in left, Replace(n)
  PROVE  /\ \A m \in left', k \in Edited' : m < k
         /\ out' = FlattenSeq(Pieces(Edited))'
         /\ Restored' = text'
<1>1. PassInv
  BY DEF NumberingInv
<1>2. /\ pc = "replace" /\ left' = left \ {n} /\ left \subseteq DOMAIN kept
      /\ \A m \in left : reports[kept[m]].start <= reports[kept[n]].start
      /\ UNCHANGED <<text, reports, kept, ph>>
  BY <1>1 DEF Replace, inputs, resolving, numbering, PassInv, TypeOK
<1>3. /\ Len(ph) = Len(kept) /\ out = FlattenSeq(Pieces(Edited)) /\ Restored = text
      /\ \A m \in left, k \in Edited : m < k
  BY <1>2 DEF EditInv
<1>4. Edited \subseteq DOMAIN kept /\ n \in DOMAIN kept /\ \A k \in Edited : n < k
  BY <1>2, <1>3 DEF Edited
<1>5. Edited' = Edited \cup {n}
  BY <1>2 DEF Edited
<1>6. \A m \in left' : m < n
  <2> SUFFICES ASSUME NEW m \in left, m # n, n < m PROVE FALSE
    BY <1>1, <1>2 DEF PassInv, TypeOK
  <2>1. EndOf(n) <= StartOf(m) /\ StartOf(n) < EndOf(n) /\ StartOf(m) <= StartOf(n)
    BY <1>1, <1>2, Spans DEF StartOf
  <2>2. StartOf(n) \in Int /\ EndOf(n) \in Int /\ StartOf(m) \in Int
    BY <1>1, <1>2, Spans
  <2> QED BY <2>1, <2>2
<1>7. \A m \in left', k \in Edited' : m < k
  BY <1>2, <1>3, <1>5, <1>6
<1> DEFINE a == SubSeq(text, 1, StartOf(n))
<1>8. PICK t \in Text : /\ FlattenSeq(Pieces(Edited)) = a \o (KeptText(n) \o t)
                        /\ FlattenSeq(Pieces(Edited \cup {n})) = a \o (<<ph[n]>> \o t)
  BY <1>1, <1>3, <1>4, EditStep
<1>9. /\ StartOf(n) \in Nat /\ EndOf(n) \in Nat /\ StartOf(n) < EndOf(n) /\ EndOf(n) <= Len(text)
      /\ text \in Seq(Symbols) /\ KeptText(n) = SubSeq(text, StartOf(n) + 1, EndOf(n))
      /\ KeptText(n) \in Seq(Symbols)
  BY <1>1, <1>4, Spans
<1>10. /\ a \in Seq(Symbols) /\ a \in Text /\ Len(a) = StartOf(n)
       /\ KeptText(n) \in Text /\ Len(KeptText(n)) = EndOf(n) - StartOf(n)
  BY <1>9 DEF Text
<1>11. out' = a \o (<<ph[n]>> \o t)
  <2>1. out = a \o (KeptText(n) \o t)
    BY <1>3, <1>8
  <2>2. out' = SubSeq(out, 1, StartOf(n)) \o <<ph[n]>> \o SubSeq(out, EndOf(n) + 1, Len(out))
    BY DEF Replace, TailAfter, StartOf, EndOf
  <2> DEFINE M == KeptText(n)
  <2> HIDE DEF a, M
  <2>3. SubSeq(out, 1, StartOf(n)) = a
    BY <1>10, <2>1 DEF Text, M
  <2>4. SubSeq(out, EndOf(n) + 1, Len(out)) = t
    <3>1. EndOf(n) + 1 = Len(a) + Len(M) + 1
      BY <1>9, <1>10 DEF M
    <3>2. a \in Seq(Symbols \cup Placeholder) /\ M \in Seq(Symbols \cup Placeholder)
          /\ t \in Seq(Symbols \cup Placeholder)
      BY <1>10 DEF M, Text
    <3> QED BY <2>1, <3>1, <3>2, WhatFollows DEF M
  <2>5. (a \o <<ph[n]>>) \o t = a \o (<<ph[n]>> \o t)
    BY <1>10 DEF Text
  <2> QED BY <2>2, <2>3, <2>4, <2>5
<1>12. out' = FlattenSeq(Pieces(Edited))'
  BY <1>2, <1>5, <1>8, <1>11, PiecesUnchanged
<1>13. Restored' = text'
  <2> DEFINE M == KeptText(n)  one == <<ph[n]>>
             F(w) == FlattenSeq(Meanings(w))
  <2>1. one \in Text /\ M \in Text /\ n \in DOMAIN ph
    BY <1>1, <1>3, <1>4, <1>10 DEF Text, PassInv, TypeOK
  <2>2. ASSUME NEW b \in Text, NEW c \in Text PROVE F(b \o c) = F(b) \o F(c)
    <3>1. Meanings(b) \in Seq(Text) /\ Meanings(c) \in Seq(Text)
      BY MeaningsTyped
    <3> QED BY <3>1, MeaningsConcat, FlattenConcat DEF Text
  <2>3. F(M) = M
    BY <1>1, <1>9, LettersStay
  <2>4. F(one) = M
    <3>1. Meanings(one) = <<Meaning(ph[n])>>
      BY DEF Meanings
    <3>2. Meaning(ph[n]) = M
      BY <2>1, MeaningOfPlaceholder
    <3>3. <<M>> = Append(<<>>, M) /\ <<>> \o M = M /\ <<>> \in Seq(Text)
      BY <2>1 DEF Text
    <3> HIDE DEF M
    <3>4. FlattenSeq(<<M>>) = FlattenSeq(<<>>) \o M
      BY <2>1, <3>3, FlattenAppend DEF Text
    <3> QED BY <3>1, <3>2, <3>3, <3>4, FlattenEmpty
  <2> HIDE DEF F, M, one, a
  <2>5. /\ M \o t \in Text /\ one \o t \in Text
    BY <2>1, ConcatProperties DEF Text
  <2>6. F(a \o (M \o t)) = F(a) \o (F(M) \o F(t))
    <3> DEFINE u == M \o t
    <3>1. F(u) = F(M) \o F(t)
      BY <2>1, <2>2
    <3>2. u \in Text
      BY <2>5
    <3> HIDE DEF u
    <3>3. F(a \o u) = F(a) \o F(u)
      BY <1>10, <2>2, <3>2
    <3> QED BY <3>1, <3>3 DEF u
  <2>7. F(a \o (one \o t)) = F(a) \o (F(one) \o F(t))
    <3> DEFINE u == one \o t
    <3>1. F(u) = F(one) \o F(t)
      BY <2>1, <2>2
    <3>2. u \in Text
      BY <2>5
    <3> HIDE DEF u
    <3>3. F(a \o u) = F(a) \o F(u)
      BY <1>10, <2>2, <3>2
    <3> QED BY <3>1, <3>3 DEF u
  <2>8. F(out') = F(out)
    BY <1>3, <1>8, <1>11, <2>3, <2>4, <2>6, <2>7 DEF M, one
  <2>9. Restored = F(out)
    BY RestoredIsMeanings DEF F
  <2>10. Restored' = FlattenSeq(Meanings(out))'
    BY DEF Restored, Meanings, Meaning
  <2>11. FlattenSeq(Meanings(out))' = F(out')
    BY <1>2, PiecesUnchanged DEF F
  <2> QED BY <1>2, <1>3, <2>8, <2>9, <2>10, <2>11
<1> QED BY <1>7, <1>12, <1>13

LEMMA NextKeepsEditInv == NumberingInv /\ EditInv /\ [Next]_vars => EditInv'
<1> SUFFICES ASSUME NumberingInv, EditInv, [Next]_vars PROVE EditInv'
  OBVIOUS
<1>1. PassInv /\ text \in Seq(Symbols)
  BY Spans DEF NumberingInv
<1>2. ASSUME UNCHANGED <<text, reports, kept, ph, out>>, out = text, left' = DOMAIN kept,
             Len(ph) = Len(kept), pc' = "done" => kept = <<>>
      PROVE  EditInv'
  <2>1. Edited' = {} /\ (pc' = "done" => left' = {})
    BY <1>2 DEF Edited
  <2>2. out' = FlattenSeq(Pieces(Edited))'
    BY <1>1, <1>2, <2>1, NothingEdited, PiecesUnchanged
  <2>3. Restored' = FlattenSeq(Meanings(out))'
    BY DEF Restored, Meanings, Meaning
  <2>4. Restored' = text'
    BY <1>1, <1>2, <2>3, NothingEdited, PiecesUnchanged
  <2> QED BY <1>2, <2>1, <2>2, <2>4 DEF EditInv
<1>3. CASE Detect \/ Filter
  <2>1. /\ pc \in {"detect", "filter"} /\ pc' \in {"filter", "resolve", "done"}
        /\ UNCHANGED <<text, reports, kept, ph, out, left>>
    BY <1>3 DEF Detect, Filter, inputs, resolving, numbering, editing
  <2>2. kept = <<>> /\ ph = <<>> /\ left = {} /\ out = text
    BY <1>1, <2>1 DEF PassInv, BeforePass, AssignAfterPass, EditInv
  <2> QED BY <1>2, <2>1, <2>2
<1>4. CASE \/ Resolved \/ ReusePlaceholder \/ NewPlaceholder
           \/ \E i \in todo : Keep(i) \/ ReplacePrevious(i) \/ Drop(i)
  <2>1. pc \in {"resolve", "assign"} /\ pc' \in {"resolve", "assign"} /\ UNCHANGED <<text, out>>
    BY <1>4 DEF Resolved, ReusePlaceholder, NewPlaceholder, Assigning, Keep, ReplacePrevious, Drop,
                NextInOrder, inputs, editing
  <2> QED BY <2>1 DEF EditInv
<1>5. CASE Assigned
  <2>1. /\ pc = "assign" /\ pc' = "replace" /\ left' = DOMAIN kept /\ Len(ph) = Len(kept)
        /\ UNCHANGED <<text, reports, kept, ph, out>>
    BY <1>5 DEF Assigned, inputs, resolving, numbering
  <2>2. out = text
    BY <2>1 DEF EditInv
  <2> QED BY <1>2, <2>1, <2>2
<1>6. CASE \E n \in left : Replace(n)
  <2> PICK n \in left : Replace(n)
    BY <1>6
  <2>1. pc = "replace" /\ pc' = "replace" /\ UNCHANGED <<kept, ph>>
    BY DEF Replace, resolving, numbering
  <2>2. Len(ph') = Len(kept')
    BY <2>1 DEF EditInv
  <2> QED BY <2>1, <2>2, ReplaceKeepsEditInv DEF EditInv
<1>7. CASE Return \/ UNCHANGED vars
  <2>1. /\ UNCHANGED <<text, reports, kept, ph, out, left>>
        /\ \/ pc = "replace" /\ pc' = "done" /\ left = {}
           \/ pc' = pc
    BY <1>7 DEF Return, vars, inputs, resolving, numbering, editing
  <2>2. Edited' = Edited
    BY <2>1 DEF Edited
  <2>3. FlattenSeq(Pieces(Edited))' = FlattenSeq(Pieces(Edited))
    BY <2>1, <2>2, PiecesUnchanged
  <2>4. Restored' = Restored
    <3>1. Restored' = FlattenSeq(Meanings(out))'
      BY DEF Restored, Meanings, Meaning
    <3> QED BY <2>1, <3>1, RestoredIsMeanings, PiecesUnchanged
  <2> QED BY <2>1, <2>2, <2>3, <2>4 DEF EditInv
<1> QED BY <1>3, <1>4, <1>5, <1>6, <1>7 DEF Next, Returned

\* Replacing the placeholders by what they stand for gives the text back, for
\* every text, whatever was found in it and in whatever order it was edited.
THEOREM ScanIsUndone == Spec => []RoundTrip
<1>1. EditInv => RoundTrip
  BY DEF EditInv, RoundTrip
<1> QED BY InitNumberingInv, NextKeepsNumberingInv, InitEditInv, NextKeepsEditInv, <1>1, PTL DEF Spec

-----------------------------------------------------------------------------
(* The contract. *)

Found == [i \in Range(kept) |-> ph[CHOOSE n \in DOMAIN kept : kept[n] = i]]

\* The vocabulary of the contract is that of the scanner.
LEMMA SameWords ==
  /\ Contract!Survivors = Live(text, reports, detectors, whitelist)
  /\ \A f, g : Contract!Overlap(f, g) <=> Overlap(f, g)
  /\ \A f, g : Contract!Better(f, g) <=> Better(f, g)
  /\ \A t, f : Contract!TextOf(t, f) = TextOf(t, f)
  /\ \A t : Contract!Finding(t) = Finding(t)
<1>1. \A f, g : Contract!Overlap(f, g) <=> Overlap(f, g)
  BY DEF Contract!Overlap, Overlap
<1>2. \A f, g : Contract!Better(f, g) <=> Better(f, g)
  BY DEF Contract!Better, Better, Contract!Size, Size
<1>3. \A t, f : Contract!TextOf(t, f) = TextOf(t, f)
  BY DEF Contract!TextOf, TextOf
<1>4. \A t : Contract!Finding(t) = Finding(t)
  BY DEF Contract!Finding, Finding
<1>5. \A f : Contract!Whitelisted(text, f, whitelist) <=> Whitelisted(text, f, whitelist)
  <2>1. \A s : Contract!FoldCase(s) = FoldCase(s)
    BY DEF Contract!FoldCase, FoldCase
  <2>2. \A s, t : Contract!HasSubstring(s, t) <=> HasSubstring(s, t)
    BY DEF Contract!HasSubstring, HasSubstring
  <2>3. \A s : Contract!Trim(s) = Trim(s)
    BY DEF Contract!Trim, Trim, Contract!Min, Contract!Max, Min, Max
  <2>4. Contract!Tokens(whitelist) = Tokens(whitelist)
    BY <2>1, <2>3 DEF Contract!Tokens, Tokens
  <2> QED BY <1>3, <2>1, <2>2, <2>4 DEF Contract!Whitelisted, Whitelisted
<1>6. Contract!Survivors = Live(text, reports, detectors, whitelist)
  BY <1>5 DEF Contract!Survivors, Contract!Live, Live, Contract!Enabled, Enabled
<1> QED BY <1>1, <1>2, <1>3, <1>4, <1>6

\* Each finding kept has one place in kept, and so one placeholder.
LEMMA FoundIs ==
  ASSUME PassInv
  PROVE  /\ DOMAIN Found = Range(kept)
         /\ \A m, n \in DOMAIN kept : kept[m] = kept[n] => m = n
         /\ \A n \in DOMAIN kept : Found[kept[n]] = ph[n]
<1>1. \A m, n \in DOMAIN kept : m < n => kept[m] # kept[n]
  <2> SUFFICES ASSUME NEW m \in DOMAIN kept, NEW n \in DOMAIN kept, m < n, kept[m] = kept[n]
               PROVE  FALSE
    OBVIOUS
  <2>1. EndOf(m) <= StartOf(n) /\ EndOf(m) = EndOf(n) /\ StartOf(n) < EndOf(n)
    BY Spans DEF EndOf
  <2>2. StartOf(n) \in Int /\ EndOf(n) \in Int
    BY Spans
  <2> QED BY <2>1, <2>2
<1>2. \A m, n \in DOMAIN kept : kept[m] = kept[n] => m = n
  <2>1. \A m, n \in DOMAIN kept : m < n \/ n < m \/ m = n
    BY DEF PassInv, TypeOK
  <2> QED BY <1>1, <2>1
<1>3. ASSUME NEW n \in DOMAIN kept PROVE Found[kept[n]] = ph[n]
  <2> DEFINE m == CHOOSE k \in DOMAIN kept : kept[k] = kept[n]
  <2>1. m \in DOMAIN kept /\ kept[m] = kept[n]
    OBVIOUS
  <2>2. m = n
    BY <1>2, <2>1
  <2>3. kept[n] \in Range(kept)
    BY DEF Range
  <2>4. Found[kept[n]] = ph[m]
    BY <2>3 DEF Found
  <2> QED BY <2>2, <2>4
<1> QED BY <1>2, <1>3 DEF Found

\* The contract's text is that of the pieces.
LEMMA SpliceIsPieces ==
  ASSUME PassInv
  PROVE  Contract!Splice(Found) = FlattenSeq(Pieces(DOMAIN kept))
<1> DEFINE here(p) == {n \in DOMAIN kept : StartOf(n) < p /\ p <= EndOf(n)}
           there(p) == {i \in DOMAIN Found : reports[i].start < p /\ p <= reports[i].end}
           n(p) == CHOOSE k \in here(p) : TRUE
           i(p) == CHOOSE k \in there(p) : TRUE
           piece(p) == IF there(p) = {} THEN <<text[p]>>
                       ELSE IF p = reports[i(p)].start + 1 THEN <<Found[i(p)]>> ELSE <<>>
<1>1. /\ DOMAIN Found = Range(kept)
      /\ \A k \in DOMAIN kept : Found[kept[k]] = ph[k]
  BY FoundIs
<1>2. DOMAIN text = 1 .. Len(text)
  BY Spans
<1>3. Contract!Splice(Found) = FlattenSeq([p \in DOMAIN text |-> piece(p)])
  <2>1. \A s : Contract!FlattenSeq(s) = FlattenSeq(s)
    BY DEF Contract!FlattenSeq, FlattenSeq
  <2>2. Contract!Splice(Found) = Contract!FlattenSeq([p \in DOMAIN text |-> piece(p)])
    BY DEF Contract!Splice
  <2> QED BY <2>1, <2>2
<1>4. ASSUME NEW p \in DOMAIN text PROVE piece(p) = PieceAt(DOMAIN kept, p)
  <2>1. \A k : k \in there(p) <=> \E m \in here(p) : k = kept[m]
    BY <1>1 DEF StartOf, EndOf, Range
  <2>2. \A k, m \in here(p) : k = m
    <3> SUFFICES ASSUME NEW k \in here(p), NEW m \in here(p), k < m PROVE FALSE
      BY DEF PassInv, TypeOK
    <3>1. EndOf(k) <= StartOf(m) /\ p <= EndOf(k) /\ StartOf(m) < p
      BY Spans
    <3>2. p \in Int /\ EndOf(k) \in Int /\ StartOf(m) \in Int
      BY <1>2, Spans
    <3> QED BY <3>1, <3>2
  <2>3. PieceAt(DOMAIN kept, p) =
          IF here(p) = {} THEN <<text[p]>> ELSE IF p = StartOf(n(p)) + 1 THEN <<ph[n(p)]>> ELSE <<>>
    BY DEF PieceAt
  <2>4. CASE here(p) = {}
    <3>1. there(p) = {}
      BY <2>1, <2>4
    <3> QED BY <2>3, <2>4, <3>1
  <2>5. CASE here(p) # {}
    <3>1. n(p) \in here(p)
      BY <2>5
    <3>2. there(p) # {}
      BY <2>1, <3>1
    <3>3. i(p) \in there(p)
      BY <3>2
    <3>4. i(p) = kept[n(p)]
      <4> HIDE DEF n, i, here, there
      <4> QED BY <2>1, <2>2, <3>1, <3>3
    <3>5. n(p) \in DOMAIN kept
      BY <3>1
    <3>6. Found[i(p)] = ph[n(p)] /\ reports[i(p)].start = StartOf(n(p))
      <4> HIDE DEF n, i
      <4> QED BY <1>1, <3>4, <3>5 DEF StartOf
    <3> HIDE DEF n, i, here, there
    <3> QED BY <2>3, <2>5, <3>2, <3>6 DEF piece
  <2> QED BY <2>4, <2>5
<1> HIDE DEF piece
<1>5. [p \in DOMAIN text |-> piece(p)] = Pieces(DOMAIN kept)
  BY <1>2, <1>4 DEF Pieces
<1> QED BY <1>3, <1>5

\* What the call has done when it returns.
Promised ==
  /\ DOMAIN Found \subseteq Contract!Survivors
  /\ Contract!Disjoint(DOMAIN Found)
  /\ Contract!Justified(DOMAIN Found)
  /\ Contract!OneToOne(Found)
  /\ out = Contract!Splice(Found)

ReturnedAsPromised == pc = "done" => Promised

ScanInv == TopInv /\ NumberingInv /\ EditInv

LEMMA ReturnsAsPromised == ScanInv => ReturnedAsPromised
<1> SUFFICES ASSUME ScanInv, pc = "done" PROVE Promised
  BY DEF ReturnedAsPromised
<1>1. PassInv /\ cand = Live(text, reports, detectors, whitelist) /\ todo = {}
  BY DEF ScanInv, TopInv, InPlay
<1>2. /\ DOMAIN Found = Range(kept)
      /\ \A n \in DOMAIN kept : Found[kept[n]] = ph[n]
  BY <1>1, FoundIs
<1>3. Contract!Survivors = cand
  BY <1>1, SameWords
<1>4. Range(kept) \subseteq cand
  BY <1>1 DEF PassInv, TypeOK, Range
<1>5. Contract!Disjoint(DOMAIN Found)
  <2> SUFFICES ASSUME NEW m \in DOMAIN kept, NEW n \in DOMAIN kept, kept[m] # kept[n]
               PROVE  ~Overlap(reports[kept[m]], reports[kept[n]])
    BY <1>2, SameWords DEF Contract!Disjoint, Range
  <2>1. m < n \/ n < m
    BY <1>1 DEF PassInv, TypeOK
  <2>2. EndOf(m) <= StartOf(n) \/ EndOf(n) <= StartOf(m)
    BY <1>1, <2>1, Spans
  <2>3. /\ StartOf(m) \in Int /\ EndOf(m) \in Int /\ StartOf(n) \in Int /\ EndOf(n) \in Int
    BY <1>1, Spans
  <2> QED BY <2>2, <2>3 DEF Overlap, StartOf, EndOf
<1>6. Contract!Justified(DOMAIN Found)
  <2> SUFFICES ASSUME NEW i \in cand, i \notin Range(kept)
               PROVE  \E j \in cand \ {i} : Overlap(reports[i], reports[j]) /\ ~Better(reports[i], reports[j])
    BY <1>2, <1>3, SameWords DEF Contract!Justified
  <2> QED BY <1>1 DEF ScanInv, TopInv, LosersLost, Lost
<1>7. Contract!OneToOne(Found)
  <2> SUFFICES ASSUME NEW m \in DOMAIN kept, NEW n \in DOMAIN kept
               PROVE  Found[kept[m]] = Found[kept[n]] <=>
                        TextOf(text, reports[kept[m]]) = TextOf(text, reports[kept[n]])
    BY <1>2, SameWords DEF Contract!OneToOne, Range
  <2>1. m \in DOMAIN ph /\ n \in DOMAIN ph
    BY <1>1 DEF ScanInv, EditInv, PassInv, TypeOK
  <2>2. ph[m] = ph[n] <=> KeptText(m) = KeptText(n)
    BY <2>1 DEF ScanInv, NumberingInv, SeenIsAssigned, SeenOneToOne
  <2> QED BY <1>2, <2>2 DEF KeptText
<1>8. out = Contract!Splice(Found)
  <2>1. Edited = DOMAIN kept
    BY DEF ScanInv, EditInv, Edited
  <2> QED BY <1>1, <2>1, SpliceIsPieces DEF ScanInv, EditInv
<1> QED BY <1>2, <1>3, <1>4, <1>5, <1>6, <1>7, <1>8 DEF Promised

LEMMA InitScanInv == Init => ScanInv
BY InitTopInv, InitNumberingInv, InitEditInv DEF ScanInv

LEMMA NextKeepsScanInv == ScanInv /\ [Next]_vars => ScanInv'
BY NextKeepsTopInv, NextKeepsNumberingInv, NextKeepsEditInv DEF ScanInv

\* A step of the scanner is the return of the call, or invisible.
LEMMA StepImplements ==
  [Next]_vars /\ ReturnedAsPromised' => [Contract!Scan]_(Contract!vars)
<1> SUFFICES ASSUME [Next]_vars, pc' = "done" => Promised'
             PROVE  [Contract!Scan]_(Contract!vars)
  BY DEF ReturnedAsPromised
<1>1. CASE pc = "done"
  <2>1. UNCHANGED vars
    BY <1>1 DEF Next, Detect, Filter, Keep, ReplacePrevious, Drop, NextInOrder, Resolved,
                ReusePlaceholder, NewPlaceholder, Assigning, Assigned, Replace, Return, Returned
  <2> QED BY <2>1 DEF vars, inputs, resolving, numbering, editing, Contract!vars
<1>2. UNCHANGED <<text, reports, detectors, whitelist>>
  BY DEF Next, Detect, Filter, Keep, ReplacePrevious, Drop, NextInOrder, Resolved,
         ReusePlaceholder, NewPlaceholder, Assigning, Assigned, Replace, Return, Returned,
         vars, inputs
<1>3. CASE pc # "done" /\ pc' # "done"
  BY <1>2, <1>3 DEF Contract!vars
<1>4. CASE pc # "done" /\ pc' = "done"
  BY SMTT(60), <1>2, <1>4 DEF Contract!Scan, Promised, Found, Contract!Survivors, Contract!Disjoint,
                    Contract!Justified, Contract!OneToOne, Contract!Splice
<1> QED BY <1>1, <1>3, <1>4

\* The loops of ScanWithWhitelist do, for every input, what ScanContract says
\* in one step: the findings returned are live, disjoint and justified, they
\* share placeholders exactly when they share their text, and the text
\* returned is the argument with their spans replaced.
THEOREM ScannerImplements == Spec => ImplementsContract
<1>1. Init => Contract!Init
  <2>1. Init => reports \in Seq(Finding(text))
    BY ReportsAssumption DEF Init
  <2> QED BY <2>1, SameWords DEF Init, Contract!Init
<1>2. Spec => []ReturnedAsPromised
  BY InitScanInv, NextKeepsScanInv, ReturnsAsPromised, PTL DEF Spec
<1>3. QED
  BY <1>1, <1>2, StepImplements, PTL DEF Spec, ImplementsContract, Contract!Spec

=============================================================================
