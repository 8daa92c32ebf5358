--------------------------- MODULE SequenceLemmas ---------------------------
(***************************************************************************)
(* Induction on a set of natural numbers, and what it shows about the      *)
(* concatenation of a sequence of sequences.                               *)
(***************************************************************************)
EXTENDS Naturals, Sequences, SequencesExt, WellFoundedInduction, SequenceTheorems, TLAPS

\* A set that holds 0 and the successor of each of its numbers holds them all.
LEMMA SetInduction ==
    ASSUME NEW T, 0 \in T, \A n \in Nat : n \in T => n + 1 \in T
    PROVE  Nat \subseteq T
<1> DEFINE R == OpToRel(<, Nat)
<1>1. IsWellFoundedOn(R, Nat)
  BY NatLessThanWellFounded
<1>2. \A x, y \in Nat : x < y => <<x, y>> \in R
  BY DEF OpToRel
<1> HIDE DEF R
<1>3. SUFFICES ASSUME Nat \ T # {} PROVE FALSE
  OBVIOUS
<1>4. Nat \ T \subseteq Nat
  OBVIOUS
<1>5. PICK x \in Nat \ T : \A y \in Nat \ T : <<y, x>> \notin R
  BY <1>1, <1>3, <1>4, WFMin
<1>6. x - 1 \in Nat /\ (x - 1) + 1 = x /\ x - 1 < x
  BY <1>5
<1>7. x - 1 \notin T
  BY <1>5, <1>6
<1>8. QED
  BY <1>2, <1>5, <1>6, <1>7

\* f[i] is the concatenation of the first i sequences of q.
Concatenates(f, q) ==
    f = [i \in 1 .. Len(q) |-> IF i = 1 THEN q[i] ELSE f[i - 1] \o q[i]]

\* f starts with the first sequence and goes on with one more each time.
Grows(f, q) ==
    /\ Len(q) > 0 => f[1] = q[1]
    /\ \A i, j \in 1 .. Len(q) : j = i + 1 => f[j] = f[i] \o q[j]

LEMMA Concatenated == \A f, q : Len(q) \in Nat /\ Concatenates(f, q) => Grows(f, q)
<1> SUFFICES ASSUME NEW f, NEW q, Len(q) \in Nat, Concatenates(f, q)
             PROVE  Grows(f, q)
  OBVIOUS
<1>1. \A i \in 1 .. Len(q) : f[i] = IF i = 1 THEN q[i] ELSE f[i - 1] \o q[i]
  BY DEF Concatenates
<1>2. ASSUME NEW i \in 1 .. Len(q), NEW j \in 1 .. Len(q), j = i + 1
      PROVE  f[j] = f[i] \o q[j]
  <2>1. j # 1 /\ j - 1 = i
    BY <1>2
  <2>2. QED
    BY <1>1, <2>1
<1>3. Len(q) > 0 => 1 \in 1 .. Len(q)
  OBVIOUS
<1>4. QED
  BY <1>1, <1>2, <1>3 DEF Grows

\* What is concatenated depends on the sequences concatenated only.
LEMMA ConcatenatesAgree ==
    \A f, g, q, r :
        /\ Len(q) \in Nat /\ Len(r) \in Nat /\ Len(q) <= Len(r)
        /\ Concatenates(f, q) /\ Concatenates(g, r)
        /\ \A i \in 1 .. Len(q) : q[i] = r[i]
        => \A i \in 1 .. Len(q) : f[i] = g[i]
<1> SUFFICES ASSUME NEW f, NEW g, NEW q, NEW r,
                    Len(q) \in Nat, Len(r) \in Nat, Len(q) <= Len(r),
                    Concatenates(f, q), Concatenates(g, r),
                    \A i \in 1 .. Len(q) : q[i] = r[i]
             PROVE  \A i \in 1 .. Len(q) : f[i] = g[i]
  OBVIOUS
<1>1. Grows(f, q) /\ Grows(g, r)
  BY Concatenated
<1> DEFINE T == {i \in Nat : i \in 1 .. Len(q) => f[i] = g[i]}
<1>3. 0 \in T
  OBVIOUS
<1>4. ASSUME NEW i \in Nat, i \in 1 .. Len(q) => f[i] = g[i], NEW j \in 1 .. Len(q), j = i + 1
      PROVE  f[j] = g[j]
  <2>1. q[j] = r[j] /\ j \in 1 .. Len(r)
    BY <1>4
  <2>2. CASE i = 0
    <3>1. j = 1 /\ Len(q) > 0 /\ Len(r) > 0
      BY <1>4, <2>2
    <3>2. QED
      BY <1>1, <2>1, <3>1 DEF Grows
  <2>3. CASE i # 0
    <3>1. i \in 1 .. Len(q) /\ i \in 1 .. Len(r)
      BY <1>4, <2>3
    <3>2. f[j] = f[i] \o q[j]
      BY <1>1, <1>4, <3>1 DEF Grows
    <3>3. g[j] = g[i] \o r[j]
      BY <1>1, <1>4, <2>1, <3>1 DEF Grows
    <3>4. QED
      BY <1>4, <2>1, <3>1, <3>2, <3>3
  <2>4. QED
    BY <2>2, <2>3
<1>5. ASSUME NEW i \in Nat, i \in T PROVE i + 1 \in T
  <2>1. i + 1 \in 1 .. Len(q) => f[i + 1] = g[i + 1]
    BY <1>4, <1>5
  <2>2. QED
    BY <2>1
<1>6. Nat \subseteq T
  <2> HIDE DEF T
  <2> QED
    BY <1>3, <1>5, SetInduction
<1>7. QED
  BY <1>6

\* The recursive definition in FlattenSeq defines a function.
LEMMA ConcatenationExists ==
    ASSUME NEW S, NEW q \in Seq(Seq(S))
    PROVE  \E f \in [1 .. Len(q) -> Seq(S)] : Concatenates(f, q)
<1> DEFINE Good(f, n) == \A i \in 1 .. n : f[i] = IF i = 1 THEN q[i] ELSE f[i - 1] \o q[i]
           T == {n \in Nat : n <= Len(q) => \E f \in [1 .. n -> Seq(S)] : Good(f, n)}
<1>1. 0 \in T
  <2>1. [i \in 1 .. 0 |-> <<>>] \in [1 .. 0 -> Seq(S)]
    OBVIOUS
  <2>2. Good([i \in 1 .. 0 |-> <<>>], 0)
    OBVIOUS
  <2>3. QED
    BY <2>1, <2>2
<1>2. ASSUME NEW n \in Nat, n + 1 <= Len(q),
             NEW f \in [1 .. n -> Seq(S)], Good(f, n)
      PROVE  \E g \in [1 .. n + 1 -> Seq(S)] : Good(g, n + 1)
  <2>1. q[n + 1] \in Seq(S) /\ n \in Nat
    BY <1>2
  <2> DEFINE last == IF n = 0 THEN q[n + 1] ELSE f[n] \o q[n + 1]
             g == [i \in 1 .. n + 1 |-> IF i = n + 1 THEN last ELSE f[i]]
  <2>2. last \in Seq(S)
    <3>1. n # 0 => f[n] \in Seq(S)
      OBVIOUS
    <3>2. QED
      BY <2>1, <3>1, ConcatProperties
  <2>3. g \in [1 .. n + 1 -> Seq(S)]
    <3>1. \A i \in 1 .. n + 1 : i = n + 1 \/ i \in 1 .. n
      OBVIOUS
    <3> HIDE DEF last
    <3>2. QED
      BY <2>2, <3>1
  <2>4. ASSUME NEW i \in 1 .. n + 1
        PROVE  g[i] = IF i = 1 THEN q[i] ELSE g[i - 1] \o q[i]
    <3>1. CASE i = n + 1
      <4>1. g[i] = last
        BY <3>1
      <4>2. n # 0 => g[i - 1] = f[n] /\ i # 1
        BY <3>1
      <4>3. QED
        BY <3>1, <4>1, <4>2
    <3>2. CASE i # n + 1
      <4>1. i \in 1 .. n /\ g[i] = f[i]
        BY <3>2
      <4>2. i # 1 => i - 1 \in 1 .. n /\ g[i - 1] = f[i - 1]
        BY <4>1
      <4>3. QED
        BY <1>2, <4>1, <4>2
    <3>3. QED
      BY <3>1, <3>2
  <2>5. Good(g, n + 1)
    BY <2>4
  <2> HIDE DEF g, Good
  <2>6. QED
    BY <2>3, <2>5
<1>3. ASSUME NEW n \in Nat, n \in T PROVE n + 1 \in T
  <2> HIDE DEF Good
  <2>1. ASSUME n + 1 <= Len(q)
        PROVE  \E f \in [1 .. n + 1 -> Seq(S)] : Good(f, n + 1)
    <3>1. n <= Len(q)
      BY <2>1
    <3>2. QED
      BY <1>2, <1>3, <2>1, <3>1
  <2>2. QED
    BY <2>1
<1>4. Nat \subseteq T
  <2> HIDE DEF T
  <2> QED
    BY <1>1, <1>3, SetInduction
<1>5. PICK f \in [1 .. Len(q) -> Seq(S)] : Good(f, Len(q))
  <2>1. Len(q) \in Nat
    OBVIOUS
  <2> HIDE DEF Good
  <2>2. QED
    BY <1>4, <2>1
<1>6. f = [i \in 1 .. Len(q) |-> f[i]]
  OBVIOUS
<1>7. Concatenates(f, q)
  BY <1>5, <1>6 DEF Concatenates
<1>8. QED
  BY <1>7

LEMMA Flattened ==
    ASSUME NEW S, NEW q \in Seq(Seq(S)), q # <<>>
    PROVE  \E f \in [1 .. Len(q) -> Seq(S)] :
              Concatenates(f, q) /\ FlattenSeq(q) = f[Len(q)]
<1> DEFINE f == CHOOSE f : Concatenates(f, q)
<1>1. Len(q) \in Nat /\ Len(q) \in 1 .. Len(q)
  OBVIOUS
<1>2. FlattenSeq(q) = f[Len(q)]
  BY DEF FlattenSeq, Concatenates
<1>3. PICK g \in [1 .. Len(q) -> Seq(S)] : Concatenates(g, q)
  BY ConcatenationExists
<1>4. Concatenates(f, q)
  BY <1>3
<1>5. \A i \in 1 .. Len(q) : f[i] = g[i]
  <2> HIDE DEF f
  <2>1. Len(q) <= Len(q) /\ \A i \in 1 .. Len(q) : q[i] = q[i]
    BY <1>1
  <2>2. QED
    BY <1>1, <1>3, <1>4, <2>1, ConcatenatesAgree
<1>6. FlattenSeq(q) = g[Len(q)]
  BY <1>1, <1>2, <1>5
<1>7. QED
  BY <1>3, <1>6

\* The concatenation of nothing is empty.
LEMMA FlattenEmpty == FlattenSeq(<<>>) = <<>>
  BY DEF FlattenSeq

LEMMA FlattenTyped ==
    ASSUME NEW S, NEW q \in Seq(Seq(S))
    PROVE  FlattenSeq(q) \in Seq(S)
<1>1. CASE q = <<>>
  <2>1. <<>> \in Seq(S)
    OBVIOUS
  <2>2. QED
    BY <1>1, <2>1, FlattenEmpty
<1>2. CASE q # <<>>
  <2>1. PICK f \in [1 .. Len(q) -> Seq(S)] : FlattenSeq(q) = f[Len(q)]
    BY <1>2, Flattened
  <2>2. Len(q) \in 1 .. Len(q)
    BY <1>2
  <2>3. QED
    BY <2>1, <2>2
<1>3. QED
  BY <1>1, <1>2

\* A sequence at the end is concatenated at the end.
LEMMA FlattenAppend ==
    ASSUME NEW S, NEW q \in Seq(Seq(S)), NEW x \in Seq(S)
    PROVE  FlattenSeq(Append(q, x)) = FlattenSeq(q) \o x
<1>1. PICK r : r = Append(q, x)
  OBVIOUS
<1>2. PICK n : n = Len(q)
  OBVIOUS
<1>3. /\ r \in Seq(Seq(S)) /\ Len(r) = n + 1 /\ n \in Nat
      /\ r[n + 1] = x /\ \A i \in 1 .. n : r[i] = q[i]
  BY <1>1, <1>2
<1>4. r # <<>>
  BY <1>3
<1>5. PICK g : Concatenates(g, r) /\ FlattenSeq(r) = g[n + 1]
  BY <1>3, <1>4, Flattened
<1>6. /\ n + 1 = 1 => g[n + 1] = x
      /\ 0 < n => g[n + 1] = g[n] \o x
  <2>1. Grows(g, r)
    <3>1. Len(r) \in Nat
      BY <1>3
    <3>2. QED
      BY <1>5, <3>1, Concatenated
  <2>2. ASSUME 0 < n PROVE g[n + 1] = g[n] \o x
    <3>1. n \in 1 .. n + 1 /\ n + 1 \in 1 .. n + 1
      BY <1>3, <2>2
    <3>2. QED
      BY <1>3, <2>1, <3>1 DEF Grows
  <2>3. QED
    BY <1>3, <2>1, <2>2 DEF Grows
<1>7. CASE q = <<>>
  <2>1. FlattenSeq(q) \o x = x
    BY <1>7, FlattenEmpty, ConcatEmptySeq
  <2>2. n + 1 = 1
    BY <1>2, <1>7
  <2>3. QED
    BY <1>1, <1>5, <1>6, <2>1, <2>2
<1>8. CASE q # <<>>
  <2>1. PICK f : Concatenates(f, q) /\ FlattenSeq(q) = f[n]
    BY <1>2, <1>8, Flattened
  <2>2. n \in 1 .. n /\ 0 < n
    BY <1>2, <1>3, <1>8
  <2>3. \A i \in 1 .. n : f[i] = g[i]
    <3>1. /\ Len(q) \in Nat /\ Len(r) \in Nat /\ Len(q) <= Len(r)
          /\ \A i \in 1 .. Len(q) : q[i] = r[i]
      BY <1>2, <1>3
    <3>2. \A i \in 1 .. Len(q) : f[i] = g[i]
      BY <1>5, <2>1, <3>1, ConcatenatesAgree
    <3>3. QED
      BY <1>2, <3>2
  <2>4. QED
    BY <1>1, <1>5, <1>6, <2>1, <2>2, <2>3
<1>9. QED
  BY <1>7, <1>8

AreSequences(S, a, b, c) == a \in Seq(S) /\ b \in Seq(S) /\ c \in Seq(S)

LEMMA Associative ==
    \A S, a, b, c : AreSequences(S, a, b, c) =>
        /\ (a \o b) \o c = a \o (b \o c)
        /\ a \o b \in Seq(S) /\ b \o c \in Seq(S)
  BY ConcatAssociative, ConcatProperties DEF AreSequences

LEMMA HeadJoined ==
    ASSUME NEW S, NEW e \in Seq(S), e # <<>>
    PROVE  /\ Head(e) \in S /\ Tail(e) \in Seq(S) /\ <<Head(e)>> \in Seq(S)
           /\ e = <<Head(e)>> \o Tail(e)
<1>1. PICK h \in S : h = Head(e)
  OBVIOUS
<1>2. PICK t \in Seq(S) : t = Tail(e)
  BY HeadTailProperties
<1>3. <<h>> \o t \in Seq(S) /\ Len(<<h>> \o t) = Len(e)
  BY <1>2
<1>4. ASSUME NEW i \in 1 .. Len(e) PROVE e[i] = (<<h>> \o t)[i]
  <2>1. CASE i = 1
    BY <1>1, <1>2, <2>1
  <2>2. CASE i # 1
    <3>1. i - 1 \in 1 .. Len(t) /\ t[i - 1] = e[i]
      BY <1>2, <2>2
    <3>2. (<<h>> \o t)[i] = t[i - 1]
      BY <2>2, <3>1
    <3>3. QED
      BY <3>1, <3>2
  <2>3. QED
    BY <2>1, <2>2
<1>5. e = <<h>> \o t
  BY <1>3, <1>4, SeqEqual
<1>6. QED
  BY <1>1, <1>2, <1>5

LEMMA TailJoined ==
    ASSUME NEW S, NEW x \in Seq(S), NEW y \in Seq(S), x # <<>>
    PROVE  /\ x \o y \in Seq(S) /\ x \o y # <<>> /\ Head(x \o y) = Head(x)
           /\ Tail(x) \in Seq(S) /\ Tail(x \o y) = Tail(x) \o y
<1>1. x \o y \in Seq(S) /\ x \o y # <<>> /\ Head(x \o y) = Head(x) /\ Tail(x) \in Seq(S)
  OBVIOUS
<1>2. Tail(x \o y) \in Seq(S) /\ Tail(x) \o y \in Seq(S)
  BY <1>1
<1>3. Len(Tail(x \o y)) = Len(Tail(x) \o y)
  BY <1>1, <1>2
<1>4. \A i \in 1 .. Len(Tail(x \o y)) : Tail(x \o y)[i] = (Tail(x) \o y)[i]
  BY <1>1, <1>2
<1>5. QED
  BY <1>1, <1>2, <1>3, <1>4, SeqEqual

\* A sequence at the front is concatenated at the front.
LEMMA FlattenTail ==
    ASSUME NEW S, NEW q \in Seq(Seq(S)), q # <<>>
    PROVE  FlattenSeq(q) = Head(q) \o FlattenSeq(Tail(q))
<1>1. PICK r : r = Tail(q)
  OBVIOUS
<1>2. PICK n : n = Len(r)
  OBVIOUS
<1>0. PICK h : h = Head(q)
  OBVIOUS
<1>3. /\ r \in Seq(Seq(S)) /\ n \in Nat
      /\ Len(q) = n + 1 /\ q[1] = h /\ h \in Seq(S)
  BY <1>0, <1>1, <1>2
<1>4. \A i \in 1 .. n : r[i] = q[i + 1] /\ r[i] \in Seq(S)
  BY <1>1, <1>2
<1>5. PICK f : Concatenates(f, q) /\ FlattenSeq(q) = f[n + 1]
  BY <1>3, Flattened
<1>6. /\ f[1] = q[1]
      /\ \A i, j \in 1 .. n + 1 : j = i + 1 => f[j] = f[i] \o q[j]
  <2>1. Len(q) \in Nat /\ Len(q) > 0
    BY <1>3
  <2>2. Grows(f, q)
    BY <1>5, <2>1, Concatenated
  <2>3. QED
    BY <1>3, <2>1, <2>2 DEF Grows
<1>7. CASE r = <<>>
  <2>1. h \o FlattenSeq(r) = h
    BY <1>3, <1>7, FlattenEmpty, ConcatEmptySeq
  <2>2. n + 1 = 1
    BY <1>2, <1>7
  <2>3. QED
    BY <1>0, <1>1, <1>3, <1>5, <1>6, <2>1, <2>2
<1>8. CASE r # <<>>
  <2>1. PICK g \in [1 .. n -> Seq(S)] : Concatenates(g, r) /\ FlattenSeq(r) = g[n]
    BY <1>2, <1>3, <1>8, Flattened
  <2>2. 0 < n
    BY <1>2, <1>3, <1>8
  <2>3. /\ g[1] = r[1]
        /\ \A i, j \in 1 .. n : j = i + 1 => g[j] = g[i] \o r[j]
    <3>1. Len(r) \in Nat /\ Len(r) > 0
      BY <1>2, <1>3, <2>2
    <3>2. Grows(g, r)
      BY <2>1, <3>1, Concatenated
    <3>3. QED
      BY <1>2, <3>1, <3>2 DEF Grows
  <2> DEFINE T == {i \in Nat : i \in 1 .. n => f[i + 1] = h \o g[i]}
  <2>4. 0 \in T
    OBVIOUS
  <2>5. ASSUME NEW i \in Nat, i \in 1 .. n => f[i + 1] = h \o g[i],
               NEW j \in 1 .. n, j = i + 1
        PROVE  f[j + 1] = h \o g[j]
    <3>1. f[j + 1] = f[j] \o q[j + 1]
      <4>1. j \in 1 .. n + 1 /\ j + 1 \in 1 .. n + 1
        BY <1>3
      <4>2. QED
        BY <1>6, <4>1
    <3>2. q[j + 1] = r[j] /\ r[j] \in Seq(S)
      BY <1>4
    <3>3. CASE i = 0
      <4>1. j = 1
        BY <2>5, <3>3
      <4>2. QED
        BY <1>3, <1>6, <2>3, <3>1, <3>2, <4>1
    <3>4. CASE i # 0
      <4>1. i \in 1 .. n
        BY <1>3, <2>5, <3>4
      <4>2. g[j] = g[i] \o r[j]
        BY <2>3, <2>5, <4>1
      <4>3. f[j] = h \o g[i] /\ g[i] \in Seq(S)
        BY <2>1, <2>5, <4>1
      <4>4. (h \o g[i]) \o r[j] = h \o (g[i] \o r[j])
        <5>1. PICK u, v : u = g[i] /\ v = r[j]
          OBVIOUS
        <5>2. AreSequences(S, h, u, v)
          BY <1>3, <3>2, <4>3, <5>1 DEF AreSequences
        <5>3. (h \o u) \o v = h \o (u \o v)
          BY <5>2, Associative
        <5>4. QED
          BY <5>1, <5>3
      <4>5. QED
        BY <3>1, <3>2, <4>2, <4>3, <4>4
    <3>5. QED
      BY <3>3, <3>4
  <2>6. ASSUME NEW i \in Nat, i \in T PROVE i + 1 \in T
    <3>1. ASSUME NEW j \in 1 .. n, j = i + 1 PROVE f[j + 1] = h \o g[j]
      BY <2>5, <2>6, <3>1
    <3>2. QED
      BY <3>1
  <2>7. Nat \subseteq T
    <3> HIDE DEF T
    <3> QED
      BY <2>4, <2>6, SetInduction
  <2>8. f[n + 1] = h \o g[n]
    <3>1. n \in 1 .. n
      BY <1>3, <2>2
    <3>2. QED
      BY <1>3, <2>7, <3>1
  <2>9. QED
    BY <1>0, <1>1, <1>5, <2>1, <2>8
<1>9. QED
  BY <1>7, <1>8

=============================================================================
