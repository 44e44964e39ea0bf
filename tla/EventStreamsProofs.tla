-------------------------- MODULE EventStreamsProofs --------------------------
(***************************************************************************)
(* The translated streams, proved for every answer of a provider and every *)
(* cut of it into reads: items follow one another and add up to their      *)
(* deltas, blocks have the shape of the API, nothing that was received is  *)
(* lost or overtaken, a refusal is clean, and the log says what was sent.  *)
(***************************************************************************)
EXTENDS EventStreams, SequenceTheorems, FiniteSetTheorems, WellFoundedInduction, TLAPS

-----------------------------------------------------------------------------
(* Induction over numbers, and the folds the model is built from.           *)

\* A set of natural numbers has a least element.
LEMMA Least ==
  ASSUME NEW T \in SUBSET Nat, T # {}
  PROVE  \E n \in T : \A m \in T : n <= m
<1> DEFINE R == OpToRel(<, Nat)
<1>1. IsWellFoundedOn(R, Nat)
  BY NatLessThanWellFounded
<1>2. \A m, n \in Nat : <<m, n>> \in R <=> m < n
  BY DEF OpToRel
<1> HIDE DEF R
<1>3. PICK n \in T : \A y \in T : ~ (<<y, n>> \in R)
  BY <1>1, WFMin
<1>4. ASSUME NEW m \in T PROVE n <= m
  <2>1. m \in Nat /\ n \in Nat
    OBVIOUS
  <2>2. ~ (m < n)
    BY <1>2, <1>3, <2>1
  <2> QED
    BY <2>1, <2>2
<1> QED
  BY <1>4

\* So a set that holds 0 and, with a number, the next one holds them all.
LEMMA Induct ==
  ASSUME NEW T, 0 \in T, \A n \in Nat : n \in T => n + 1 \in T
  PROVE  Nat \subseteq T
<1> DEFINE B == Nat \ T
<1> SUFFICES ASSUME B # {} PROVE FALSE
  OBVIOUS
<1>1. PICK n \in B : \A m \in B : n <= m
  BY Least
<1>2. n # 0 /\ n - 1 \in Nat
  BY <1>1
<1>3. n - 1 \notin B
  BY <1>1, <1>2
<1> QED
  BY <1>1, <1>2, <1>3

\* The partial concatenations g of the sequences in p, the recursion behind FlattenSeq.
FlatTo(p, n, g) ==
    \A i \in 1..n : g[i] = IF i = 1 THEN p[i] ELSE g[i - 1] \o p[i]

\* They extend by one,
LEMMA FlatToMore ==
  ASSUME NEW S, NEW p \in Seq(Seq(S)), NEW n \in Nat, n + 1 <= Len(p),
         NEW g \in [1..n -> Seq(S)], FlatTo(p, n, g)
  PROVE  \E h \in [1..(n + 1) -> Seq(S)] : FlatTo(p, n + 1, h)
<1>0. /\ Len(p) \in Nat
      /\ \A i \in 1..Len(p) : p[i] \in Seq(S)
  BY LenProperties, ElementOfSeq
<1> DEFINE x == IF n = 0 THEN p[1] ELSE g[n] \o p[n + 1]
           h == [i \in 1..(n + 1) |-> IF i = n + 1 THEN x ELSE g[i]]
<1>1. x \in Seq(S)
  <2>1. CASE n = 0
    BY <1>0, <2>1
  <2>2. CASE n # 0
    <3>1. g[n] \in Seq(S) /\ p[n + 1] \in Seq(S)
      BY <1>0, <2>2
    <3> QED
      BY <2>2, <3>1, ConcatProperties
  <2> QED
    BY <2>1, <2>2
<1>2. x = IF n = 0 THEN p[1] ELSE g[n] \o p[n + 1]
  OBVIOUS
<1> HIDE DEF x
<1>3. h \in [1..(n + 1) -> Seq(S)]
  BY <1>1
<1>4. ASSUME NEW i \in 1..(n + 1)
      PROVE  h[i] = IF i = 1 THEN p[i] ELSE h[i - 1] \o p[i]
  <2>1. CASE i = n + 1 /\ n = 0
    BY <1>2, <2>1
  <2>2. CASE i = n + 1 /\ n # 0
    <3>1. h[i] = x /\ h[i - 1] = g[n] /\ i # 1
      BY <2>2
    <3> QED
      BY <1>2, <2>2, <3>1
  <2>3. CASE i # n + 1
    <3>1. i \in 1..n /\ h[i] = g[i]
      BY <2>3
    <3>2. i # 1 => h[i - 1] = g[i - 1]
      BY <3>1
    <3> QED
      BY <3>1, <3>2 DEF FlatTo
  <2> QED
    BY <2>1, <2>2, <2>3
<1>5. FlatTo(p, n + 1, h)
  BY <1>4 DEF FlatTo
<1> QED
  BY <1>3, <1>5

\* so they exist up to any length,
LEMMA FlatToExists ==
  ASSUME NEW S, NEW p \in Seq(Seq(S))
  PROVE  \E g \in [1..Len(p) -> Seq(S)] : FlatTo(p, Len(p), g)
<1> DEFINE T == {n \in Nat : n <= Len(p) => \E g \in [1..n -> Seq(S)] : FlatTo(p, n, g)}
<1>0. Len(p) \in Nat
  BY LenProperties
<1>1. 0 \in T
  <2>1. \A g : FlatTo(p, 0, g)
    BY DEF FlatTo
  <2>2. [i \in 1..0 |-> <<>>] \in [1..0 -> Seq(S)]
    OBVIOUS
  <2> QED
    BY <2>1, <2>2
<1>2. ASSUME NEW n \in Nat, n \in T PROVE n + 1 \in T
  <2>1. CASE ~ (n + 1 <= Len(p))
    BY <2>1
  <2>2. CASE n + 1 <= Len(p)
    <3>1. PICK g \in [1..n -> Seq(S)] : FlatTo(p, n, g)
      BY <1>0, <1>2, <2>2
    <3> QED
      BY <2>2, <3>1, FlatToMore
  <2> QED
    BY <2>1, <2>2
<1> HIDE DEF T
<1>3. Len(p) \in T
  BY <1>0, <1>1, <1>2, Induct
<1> QED
  BY <1>0, <1>3 DEF T

\* and FlattenSeq, which chooses them, ends with the last one.
LEMMA FlattenIs ==
  ASSUME NEW S, NEW p \in Seq(Seq(S)), p # <<>>
  PROVE  \E g \in [1..Len(p) -> Seq(S)] : FlatTo(p, Len(p), g) /\ FlattenSeq(p) = g[Len(p)]
<1> DEFINE F(g) == g = [i \in 1..Len(p) |-> IF i = 1 THEN p[i] ELSE g[i - 1] \o p[i]]
           f == CHOOSE g : F(g)
<1>1. PICK g0 \in [1..Len(p) -> Seq(S)] : FlatTo(p, Len(p), g0)
  BY FlatToExists
<1>2. F(g0)
  BY <1>1 DEF FlatTo
<1>3. F(f)
  BY <1>2
<1>4. Len(p) # 0 /\ Len(p) \in Nat
  BY EmptySeq, LenProperties
<1>5. FlattenSeq(p) = f[Len(p)]
  BY <1>4 DEF FlattenSeq
<1> HIDE DEF f
<1>6. DOMAIN f = 1..Len(p) /\ FlatTo(p, Len(p), f)
  BY <1>3 DEF FlatTo
<1> DEFINE T == {n \in Nat : n \in 1..Len(p) => f[n] = g0[n]}
<1>7. \A n \in Nat : n \in T
  <2>1. 0 \in T
    OBVIOUS
  <2>2. ASSUME NEW n \in Nat, n \in T PROVE n + 1 \in T
    <3> SUFFICES ASSUME n + 1 \in 1..Len(p) PROVE f[n + 1] = g0[n + 1]
      OBVIOUS
    <3>1. CASE n = 0
      <4>1. 1 \in 1..Len(p) /\ n + 1 = 1
        BY <3>1
      <4>2. f[1] = p[1] /\ g0[1] = p[1]
        BY <1>1, <1>6, <4>1 DEF FlatTo
      <4> QED
        BY <4>1, <4>2
    <3>2. CASE n # 0
      <4>1. n \in 1..Len(p) /\ (n + 1) - 1 = n /\ n + 1 # 1
        BY <1>4, <3>2
      <4>2. f[n + 1] = f[n] \o p[n + 1] /\ g0[n + 1] = g0[n] \o p[n + 1]
        BY <1>1, <1>6, <4>1 DEF FlatTo
      <4> QED
        BY <2>2, <4>1, <4>2
    <3> QED
      BY <3>1, <3>2
  <2> HIDE DEF T
  <2> QED
    BY <2>1, <2>2, Induct
<1>8. f[Len(p)] = g0[Len(p)]
  BY <1>4, <1>7
<1> QED
  BY <1>1, <1>5, <1>8

\* A concatenation of sequences of S is one.
LEMMA FlattenType ==
  ASSUME NEW S, NEW p \in Seq(Seq(S))
  PROVE  FlattenSeq(p) \in Seq(S)
<1>1. CASE p = <<>>
  BY <1>1, EmptySeq DEF FlattenSeq
<1>2. CASE p # <<>>
  <2>1. PICK g \in [1..Len(p) -> Seq(S)] : FlattenSeq(p) = g[Len(p)]
    BY <1>2, FlattenIs
  <2>2. Len(p) \in 1..Len(p)
    BY <1>2, EmptySeq
  <2> QED
    BY <2>1, <2>2
<1> QED
  BY <1>1, <1>2

\* FlattenSeq of one sequence more.
LEMMA FlattenAppend ==
  ASSUME NEW S, NEW p \in Seq(Seq(S)), NEW c \in Seq(S)
  PROVE  FlattenSeq(Append(p, c)) = FlattenSeq(p) \o c
<1> DEFINE q == Append(p, c)
           n == Len(p)
<1>1. /\ q \in Seq(Seq(S)) /\ q # <<>> /\ Len(q) = n + 1 /\ n \in Nat
      /\ \A i \in 1..n : q[i] = p[i]
      /\ q[n + 1] = c
  BY AppendProperties, LenProperties
<1> HIDE DEF q, n
<1>2. PICK h \in [1..(n + 1) -> Seq(S)] : FlatTo(q, n + 1, h) /\ FlattenSeq(q) = h[n + 1]
  BY <1>1, FlattenIs
<1>3. CASE p = <<>>
  <2>1. n = 0 /\ FlattenSeq(p) = <<>>
    BY <1>3 DEF FlattenSeq, n
  <2>2. 1 \in 1..1 /\ h[1] = q[1] /\ q[1] = c
    BY <1>1, <1>2, <2>1 DEF FlatTo
  <2> QED
    BY <1>1, <1>2, <2>1, <2>2, ConcatEmptySeq DEF q
<1>4. CASE p # <<>>
  <2>1. n # 0
    BY <1>4, EmptySeq DEF n
  <2>2. PICK g \in [1..n -> Seq(S)] : FlatTo(p, n, g) /\ FlattenSeq(p) = g[n]
    BY <1>4, FlattenIs DEF n
  <2> DEFINE T == {m \in Nat : m \in 1..n => h[m] = g[m]}
  <2>3. 0 \in T
    OBVIOUS
  <2>4. ASSUME NEW m \in Nat, m \in T PROVE m + 1 \in T
    <3> SUFFICES ASSUME m + 1 \in 1..n PROVE h[m + 1] = g[m + 1]
      OBVIOUS
    <3>1. CASE m = 0
      <4>1. 1 \in 1..n /\ 1 \in 1..(n + 1) /\ m + 1 = 1
        BY <1>1, <3>1
      <4>2. h[1] = q[1] /\ g[1] = p[1] /\ q[1] = p[1]
        BY <1>1, <1>2, <2>2, <4>1 DEF FlatTo
      <4> QED
        BY <4>1, <4>2
    <3>2. CASE m # 0
      <4>1. /\ m \in 1..n /\ (m + 1) - 1 = m /\ m + 1 # 1
            /\ m + 1 \in 1..(n + 1)
        BY <1>1, <3>2
      <4>2. h[m + 1] = h[m] \o q[m + 1] /\ g[m + 1] = g[m] \o p[m + 1] /\ q[m + 1] = p[m + 1]
        BY <1>1, <1>2, <2>2, <4>1 DEF FlatTo
      <4> QED
        BY <2>4, <4>1, <4>2
    <3> QED
      BY <3>1, <3>2
  <2> HIDE DEF T
  <2>5. n \in T
    BY <1>1, <2>3, <2>4, Induct
  <2>6. h[n] = g[n]
    BY <1>1, <2>1, <2>5 DEF T
  <2>7. n + 1 \in 1..(n + 1) /\ n + 1 # 1 /\ (n + 1) - 1 = n
    BY <1>1, <2>1
  <2>8. h[n + 1] = h[n] \o q[n + 1]
    BY <1>2, <2>7 DEF FlatTo
  <2> QED
    BY <1>1, <1>2, <2>2, <2>6, <2>8 DEF q
<1> QED
  BY <1>3, <1>4

\* FlattenSeq of two lists of sequences.
LEMMA FlattenConcat ==
  ASSUME NEW S, NEW p \in Seq(Seq(S)), NEW q \in Seq(Seq(S))
  PROVE  FlattenSeq(p \o q) = FlattenSeq(p) \o FlattenSeq(q)
<1> DEFINE T == {n \in Nat : \A r \in Seq(Seq(S)) :
                    Len(r) = n => FlattenSeq(p \o r) = FlattenSeq(p) \o FlattenSeq(r)}
<1>1. 0 \in T
  <2> SUFFICES ASSUME NEW r \in Seq(Seq(S)), Len(r) = 0
               PROVE  FlattenSeq(p \o r) = FlattenSeq(p) \o FlattenSeq(r)
    OBVIOUS
  <2>1. r = <<>> /\ FlattenSeq(r) = <<>>
    BY EmptySeq DEF FlattenSeq
  <2> QED
    BY <2>1, ConcatEmptySeq, FlattenType
<1>2. ASSUME NEW n \in Nat, n \in T PROVE n + 1 \in T
  <2> SUFFICES ASSUME NEW r \in Seq(Seq(S)), Len(r) = n + 1
               PROVE  FlattenSeq(p \o r) = FlattenSeq(p) \o FlattenSeq(r)
    OBVIOUS
  <2>1. r # <<>>
    BY EmptySeq
  <2>2. PICK s \in Seq(Seq(S)), c \in Seq(S) : r = Append(s, c)
    BY <2>1, SequenceEmptyOrAppend
  <2>3. Len(s) = n
    BY <2>2, AppendProperties, LenProperties
  <2>4. FlattenSeq(p \o s) = FlattenSeq(p) \o FlattenSeq(s)
    BY <1>2, <2>3
  <2>5. p \o r = Append(p \o s, c)
    <3>1. p \o Append(s, c) = Append(p \o s, c)
      BY SMTT(40)
    <3> QED
      BY <2>2, <3>1
  <2>6. /\ FlattenSeq(r) = FlattenSeq(s) \o c
        /\ FlattenSeq(p \o r) = FlattenSeq(p \o s) \o c
    BY <2>2, <2>5, FlattenAppend, ConcatProperties
  <2>7. FlattenSeq(p) \in Seq(S) /\ FlattenSeq(s) \in Seq(S)
    BY FlattenType
  <2>8. (FlattenSeq(p) \o FlattenSeq(s)) \o c = FlattenSeq(p) \o (FlattenSeq(s) \o c)
    <3> DEFINE a == FlattenSeq(p)
               b == FlattenSeq(s)
    <3>1. a \in Seq(S) /\ b \in Seq(S) /\ c \in Seq(S)
      BY <2>7
    <3> HIDE DEF a, b
    <3>2. (a \o b) \o c = a \o (b \o c)
      BY <3>1, ConcatAssociative, SMTT(40)
    <3> QED
      BY <3>2 DEF a, b
  <2> QED
    BY <2>4, <2>6, <2>8
<1> HIDE DEF T
<1>3. Len(q) \in Nat
  BY LenProperties
<1>4. Len(q) \in T
  BY <1>1, <1>2, <1>3, Induct
<1> QED
  BY <1>4 DEF T

\* The maximum FoldLeft picks its next index by.
LEMMA MaxIsMember ==
  ASSUME NEW n \in Nat, NEW S \in SUBSET (1..n), S # {}
  PROVE  Max(S) \in S /\ \A m \in S : m <= Max(S)
<1> DEFINE T == {n - m : m \in S}
<1>0. ASSUME NEW m \in S PROVE m \in Nat /\ n - m \in Nat
  <2>1. m \in 1..n
    OBVIOUS
  <2> QED
    BY <2>1
<1>1. T \in SUBSET Nat /\ T # {}
  BY <1>0
<1>2. PICK k \in T : \A j \in T : k <= j
  BY <1>1, Least
<1>3. PICK x \in S : k = n - x
  OBVIOUS
<1>4. ASSUME NEW y \in S PROVE x >= y
  <2>1. n - y \in T
    OBVIOUS
  <2>2. n - x <= n - y
    BY <1>2, <1>3, <2>1
  <2> QED
    BY <1>0, <2>2
<1>5. \E z \in S : \A y \in S : z >= y
  BY <1>4
<1>6. Max(S) \in S /\ \A y \in S : Max(S) >= y
  BY <1>5 DEF Max
<1> QED
  BY <1>6

\* It is the only upper bound inside the set.
LEMMA MaxIs ==
  ASSUME NEW n \in Nat, NEW S \in SUBSET (1..n), NEW x \in S, \A m \in S : m <= x
  PROVE  Max(S) = x
<1>1. Max(S) \in S /\ \A m \in S : m <= Max(S)
  BY MaxIsMember
<1>2. Max(S) \in 1..n /\ x \in 1..n
  BY <1>1
<1>3. x <= Max(S) /\ Max(S) <= x
  BY <1>1
<1> QED
  BY <1>2, <1>3

-----------------------------------------------------------------------------
(* What events carry (Gathered), and sequences in general.                  *)

Pos == 1 .. MaxLines

\* A sequence of a set's elements given by a function.
LEMMA IsSeqOf ==
  ASSUME NEW S, NEW n \in Nat, NEW f, f \in [1..n -> S]
  PROVE  f \in Seq(S) /\ Len(f) = n
<1>1. f \in Seq(S)
  BY SeqDef
<1>2. DOMAIN f = 1..n /\ DOMAIN f = 1..Len(f) /\ Len(f) \in Nat
  BY <1>1, LenProperties
<1> QED
  BY <1>1, <1>2

\* What one event adds.
Gain(x, e, I) == IF x.e = e /\ x.i \in I THEN x.c ELSE <<>>

Gains(S, e, I) == [p \in DOMAIN S |-> Gain(S[p], e, I)]

\* An event adds positions,
LEMMA GainType ==
  ASSUME NEW x \in Events, NEW e, NEW I
  PROVE  Gain(x, e, I) \in Seq(Pos)
<1>1. x.c \in Seq(Pos)
  BY DEF Events, Pos
<1> QED
  BY <1>1, EmptySeq DEF Gain

\* so Gathered is a concatenation of sequences of positions,
LEMMA GathersType ==
  ASSUME NEW S \in Seq(Events), NEW e, NEW I
  PROVE  /\ Gains(S, e, I) \in Seq(Seq(Pos)) /\ Len(Gains(S, e, I)) = Len(S)
         /\ Gathered(S, e, I) = FlattenSeq(Gains(S, e, I))
         /\ Gathered(S, e, I) \in Seq(Pos)
<1>1. Len(S) \in Nat /\ DOMAIN S = 1..Len(S)
  BY LenProperties
<1>2. ASSUME NEW p \in 1..Len(S) PROVE Gain(S[p], e, I) \in Seq(Pos)
  BY GainType, ElementOfSeq
<1> DEFINE g == Gains(S, e, I)
           n == Len(S)
<1>3. g \in [1..n -> Seq(Pos)]
  BY <1>1, <1>2 DEF Gains
<1>4. n \in Nat
  BY <1>1
<1>5. Gathered(S, e, I) = FlattenSeq(g)
  BY DEF Gathered, Gain, Gains
<1> HIDE DEF g, n
<1>6. g \in Seq(Seq(Pos)) /\ Len(g) = n
  BY <1>3, <1>4, IsSeqOf
<1>7. FlattenSeq(g) \in Seq(Pos)
  BY <1>6, FlattenType
<1> QED
  BY <1>5, <1>6, <1>7 DEF g, n

\* Of no events, of one more, and of two lists.
LEMMA GatherNone == \A e, I : Gathered(<<>>, e, I) = <<>>
<1> TAKE e, I
<1>1. DOMAIN <<>> = {}
  OBVIOUS
<1>2. Gathered(<<>>, e, I) = FlattenSeq(<<>>)
  BY <1>1 DEF Gathered
<1> QED
  BY <1>2 DEF FlattenSeq

\* which grows by what is appended,
LEMMA GatherAppend ==
  ASSUME NEW S \in Seq(Events), NEW x \in Events, NEW e, NEW I
  PROVE  /\ Gathered(Append(S, x), e, I) = Gathered(S, e, I) \o Gain(x, e, I)
         /\ Gathered(S, e, I) \in Seq(Pos)
<1> DEFINE T == Append(S, x)
           g == Gains(S, e, I)
           h == Gains(T, e, I)
           c == Gain(x, e, I)
<1>1. T \in Seq(Events) /\ Len(T) = Len(S) + 1 /\ T[Len(S) + 1] = x
      /\ \A p \in 1..Len(S) : T[p] = S[p]
  BY AppendProperties
<1>2. /\ g \in Seq(Seq(Pos)) /\ Len(g) = Len(S) /\ Gathered(S, e, I) = FlattenSeq(g)
      /\ Gathered(S, e, I) \in Seq(Pos)
  BY GathersType
<1>3. h \in Seq(Seq(Pos)) /\ Len(h) = Len(T) /\ Gathered(T, e, I) = FlattenSeq(h)
  <2> HIDE DEF T
  <2> QED
    BY <1>1, GathersType
<1>4. c \in Seq(Pos)
  BY GainType
<1>5. Len(S) \in Nat /\ DOMAIN S = 1..Len(S) /\ DOMAIN T = 1..(Len(S) + 1)
  BY <1>1, LenProperties
<1>6. \A p \in 1..Len(S) : h[p] = g[p]
  BY <1>1, <1>5 DEF Gains
<1>7. h[Len(S) + 1] = c
  BY <1>1, <1>5 DEF Gains
<1> HIDE DEF T, g, h, c
<1>8. h = Append(g, c)
  <2>1. /\ Append(g, c) \in Seq(Seq(Pos)) /\ Len(Append(g, c)) = Len(S) + 1
        /\ \A p \in 1..Len(S) : Append(g, c)[p] = g[p]
        /\ Append(g, c)[Len(S) + 1] = c
    BY <1>2, <1>4, AppendProperties
  <2> DEFINE a == Append(g, c)
  <2> HIDE DEF a
  <2>2. \A p \in 1..Len(h) : h[p] = a[p]
    BY <1>1, <1>3, <1>5, <1>6, <1>7, <2>1 DEF a
  <2>3. a \in Seq(Seq(Pos)) /\ Len(h) = Len(a)
    BY <1>1, <1>3, <2>1 DEF a
  <2> QED
    BY <1>3, <2>2, <2>3, SeqEqual DEF a
<1>9. FlattenSeq(h) = FlattenSeq(g) \o c
  BY <1>2, <1>4, <1>8, FlattenAppend
<1> QED
  BY <1>2, <1>3, <1>9 DEF T, c

\* starts with the first event
LEMMA GatherOne ==
  ASSUME NEW x \in Events, NEW e, NEW I
  PROVE  Gathered(<<x>>, e, I) = Gain(x, e, I)
<1> DEFINE o == <<x>>
           g == Gain(x, e, I)
<1>0. g \in Seq(Pos)
  BY GainType
<1>1. PICK s \in Seq(Events) : s = <<>>
  BY EmptySeq
<1>2. Gathered(Append(s, x), e, I) = Gathered(s, e, I) \o Gain(x, e, I)
  BY GatherAppend
<1>3. Gathered(s, e, I) = <<>> /\ o = Append(s, x)
  BY <1>1, GatherNone
<1>4. <<>> \o g = g
  BY <1>0, ConcatEmptySeq
<1> HIDE DEF o, g
<1>5. Gathered(o, e, I) = <<>> \o g
  BY <1>2, <1>3 DEF g
<1> QED
  BY <1>4, <1>5 DEF o, g

\* Concatenation of three is written without brackets.
LEMMA Assoc ==
  ASSUME NEW S, NEW a \in Seq(S), NEW b \in Seq(S), NEW c \in Seq(S)
  PROVE  (a \o b) \o c = a \o (b \o c)
BY ConcatAssociative

\* and is distributed over concatenation.
LEMMA GatherConcat ==
  ASSUME NEW S \in Seq(Events), NEW T \in Seq(Events), NEW e, NEW I
  PROVE  Gathered(S \o T, e, I) = Gathered(S, e, I) \o Gathered(T, e, I)
<1> DEFINE P == {n \in Nat : \A r \in Seq(Events) : Len(r) = n =>
                   Gathered(S \o r, e, I) = Gathered(S, e, I) \o Gathered(r, e, I)}
<1>1. 0 \in P
  <2> SUFFICES ASSUME NEW r \in Seq(Events), Len(r) = 0
               PROVE  Gathered(S \o r, e, I) = Gathered(S, e, I) \o Gathered(r, e, I)
    OBVIOUS
  <2>1. r = <<>> /\ S \o r = S
    BY EmptySeq, ConcatEmptySeq
  <2> QED
    BY <2>1, GatherNone, GathersType, ConcatEmptySeq
<1>2. ASSUME NEW n \in Nat, n \in P PROVE n + 1 \in P
  <2> SUFFICES ASSUME NEW r \in Seq(Events), Len(r) = n + 1
               PROVE  Gathered(S \o r, e, I) = Gathered(S, e, I) \o Gathered(r, e, I)
    OBVIOUS
  <2>1. r # <<>>
    BY EmptySeq
  <2>2. PICK s \in Seq(Events), x \in Events : r = Append(s, x)
    BY <2>1, SequenceEmptyOrAppend
  <2>3. Len(s) = n
    BY <2>2, AppendProperties, LenProperties
  <2>4. Gathered(S \o s, e, I) = Gathered(S, e, I) \o Gathered(s, e, I)
    BY <1>2, <2>3
  <2>5. S \o r = Append(S \o s, x) /\ S \o s \in Seq(Events)
    <3>1. S \o Append(s, x) = Append(S \o s, x)
      OBVIOUS
    <3> QED
      BY <2>2, <3>1, ConcatProperties
  <2> DEFINE a == Gathered(S, e, I)
             b == Gathered(s, e, I)
             c == Gain(x, e, I)
             u == S \o s
  <2>6. a \in Seq(Pos) /\ b \in Seq(Pos) /\ c \in Seq(Pos)
    BY GathersType, GainType
  <2>7. Gathered(r, e, I) = b \o c
    BY <2>2, GatherAppend
  <2>11. u \in Seq(Events)
    BY <2>5
  <2> HIDE DEF u
  <2>8. Gathered(Append(u, x), e, I) = Gathered(u, e, I) \o Gain(x, e, I)
    BY ONLY <2>11, x \in Events, GatherAppend
  <2>9. Gathered(S \o r, e, I) = (a \o b) \o c
    BY <2>4, <2>5, <2>8 DEF u
  <2> HIDE DEF a, b, c
  <2>10. (a \o b) \o c = a \o (b \o c)
    BY <2>6, Assoc, SMTT(40)
  <2> QED
    BY <2>7, <2>9, <2>10 DEF a
<1> HIDE DEF P
<1>3. Len(T) \in Nat
  BY LenProperties
<1>4. Len(T) \in P
  BY <1>1, <1>2, <1>3, Induct
<1> QED
  BY <1>4 DEF P

-----------------------------------------------------------------------------
(* The leaked calls, added by FoldLeft.                                     *)

\* f is the table behind FoldLeft: what the calls of every set of indices make of d.
FoldTable(d, h, n, f) ==
    \A S \in SUBSET (1..n) :
        f[S] = IF S = {} THEN d ELSE LeakedItem(f[S \ {Max(S)}], h[Max(S)])

\* A table of n calls extends to n + 1,
LEMMA FoldTableMore ==
  ASSUME NEW d, NEW h, NEW n \in Nat, NEW f, FoldTable(d, h, n, f)
  PROVE  \E g : g = [S \in SUBSET (1..(n + 1)) |-> g[S]] /\ FoldTable(d, h, n + 1, g)
<1> DEFINE g == [S \in SUBSET (1..(n + 1)) |->
                   IF n + 1 \in S THEN LeakedItem(f[S \ {n + 1}], h[n + 1]) ELSE f[S]]
<1>1. ASSUME NEW S \in SUBSET (1..(n + 1))
      PROVE  g[S] = IF S = {} THEN d ELSE LeakedItem(g[S \ {Max(S)}], h[Max(S)])
  <2>1. CASE n + 1 \in S
    <3>1. Max(S) = n + 1
      BY <2>1, MaxIs
    <3>2. S \ {n + 1} \in SUBSET (1..(n + 1)) /\ n + 1 \notin S \ {n + 1} /\ S # {}
      BY <2>1
    <3>3. g[S \ {n + 1}] = f[S \ {n + 1}]
      BY <3>2
    <3>4. g[S] = LeakedItem(f[S \ {n + 1}], h[n + 1])
      BY <2>1
    <3> QED
      BY <3>1, <3>2, <3>3, <3>4
  <2>2. CASE n + 1 \notin S
    <3>1. S \in SUBSET (1..n)
      <4>1. ASSUME NEW m \in S PROVE m \in 1..n
        BY <2>2
      <4> QED
        BY <4>1
    <3>2. /\ S \ {Max(S)} \in SUBSET (1..(n + 1))
          /\ n + 1 \notin S \ {Max(S)}
      BY <2>2
    <3>3. g[S] = f[S] /\ g[S \ {Max(S)}] = f[S \ {Max(S)}]
      BY <2>2, <3>2
    <3> QED
      BY <3>1, <3>3 DEF FoldTable
  <2> QED
    BY <2>1, <2>2
<1>2. FoldTable(d, h, n + 1, g)
  BY <1>1 DEF FoldTable
<1>3. g = [S \in SUBSET (1..(n + 1)) |-> g[S]]
  OBVIOUS
<1> QED
  BY <1>2, <1>3

\* so there is one of any size.
LEMMA FoldTableExists ==
  ASSUME NEW d, NEW h, NEW n \in Nat
  PROVE  \E g : g = [S \in SUBSET (1..n) |-> g[S]] /\ FoldTable(d, h, n, g)
<1> DEFINE P(k) == \E g : g = [S \in SUBSET (1..k) |-> g[S]] /\ FoldTable(d, h, k, g)
           T == {k \in Nat : P(k)}
<1>1. 0 \in T
  <2> DEFINE g == [S \in SUBSET (1..0) |-> d]
  <2>1. SUBSET (1..0) = {{}}
    BY SMT
  <2>2. FoldTable(d, h, 0, g)
    BY <2>1 DEF FoldTable
  <2>3. g = [S \in SUBSET (1..0) |-> g[S]]
    OBVIOUS
  <2>4. P(0)
    BY <2>2, <2>3
  <2> QED
    BY <2>4
<1>2. ASSUME NEW k \in Nat, k \in T PROVE k + 1 \in T
  <2>1. P(k)
    BY <1>2
  <2>2. PICK g : FoldTable(d, h, k, g)
    BY <2>1
  <2>3. P(k + 1)
    BY <2>2, FoldTableMore
  <2> QED
    BY <2>3
<1> HIDE DEF T
<1>3. n \in T
  BY <1>1, <1>2, Induct
<1> QED
  BY <1>3 DEF T

\* Calls added to a member of P stay in P when each of them does, and the last
\* one leads to Q when it does from all of P.
LEMMA LeakedFold ==
  ASSUME NEW P, NEW Q, NEW X, NEW d \in P, NEW h \in Seq(X),
         \A s \in P, x \in X : LeakedItem(s, x) \in P /\ LeakedItem(s, x) \in Q
  PROVE  /\ FoldLeft(LeakedItem, d, h) \in P
         /\ Len(h) # 0 => FoldLeft(LeakedItem, d, h) \in Q
<1> DEFINE n == Len(h)
           F(g) == g = [S \in SUBSET (1..n) |->
                          IF S = {} THEN d ELSE LeakedItem(g[S \ {Max(S)}], h[Max(S)])]
           f == CHOOSE g : F(g)
<1>0. n \in Nat /\ DOMAIN h = 1..n
  BY LenProperties
<1>1. PICK g : g = [S \in SUBSET (1..n) |-> g[S]] /\ FoldTable(d, h, n, g)
  BY <1>0, FoldTableExists
<1>2. F(g)
  BY <1>1 DEF FoldTable
<1>3. F(f)
  BY <1>2
<1>4. FoldLeft(LeakedItem, d, h) = f[1..n]
  BY <1>0 DEF FoldLeft, MapThenFoldSet
<1> HIDE DEF f
<1>5. FoldTable(d, h, n, f)
  BY <1>3 DEF FoldTable
<1> DEFINE T == {k \in Nat : k <= n => f[1..k] \in P}
<1>6. ASSUME NEW k \in Nat, k + 1 <= n
      PROVE  f[1..(k + 1)] = LeakedItem(f[1..k], h[k + 1]) /\ h[k + 1] \in X
  <2> DEFINE S == 1..(k + 1)
             i == k + 1
  <2>1. /\ S \in SUBSET (1..n) /\ i \in S /\ \A m \in S : m <= i
        /\ S \ {i} = 1..k /\ i \in Nat /\ S \in SUBSET (1..i)
    BY <1>0, <1>6
  <2>2. h[i] \in X
    BY <2>1, ElementOfSeq
  <2> HIDE DEF S, i
  <2>3. Max(S) = i
    BY <2>1, MaxIs
  <2>4. f[S] = LeakedItem(f[1..k], h[i])
    BY <1>5, <2>1, <2>3 DEF FoldTable
  <2> QED
    BY <2>2, <2>4 DEF S, i
<1>7. 0 \in T
  <2>1. 1..0 = {}
    OBVIOUS
  <2>2. f[1..0] = d
    BY <1>5, <2>1 DEF FoldTable
  <2> QED
    BY <2>2
<1>8. ASSUME NEW k \in Nat, k \in T PROVE k + 1 \in T
  <2> SUFFICES ASSUME k + 1 <= n PROVE f[1..(k + 1)] \in P
    OBVIOUS
  <2>1. f[1..k] \in P
    BY <1>0, <1>8
  <2> QED
    BY <1>6, <2>1
<1>9. \A k \in Nat : k \in T
  <2> HIDE DEF T
  <2> QED
    BY <1>7, <1>8, Induct
<1>10. FoldLeft(LeakedItem, d, h) \in P
  BY <1>0, <1>4, <1>9
<1>11. ASSUME Len(h) # 0
       PROVE  FoldLeft(LeakedItem, d, h) \in Q
  <2> DEFINE k == n - 1
  <2>1. k \in Nat /\ k + 1 = n /\ k + 1 <= n /\ k <= n
    BY <1>0, <1>11
  <2>2. f[1..k] \in P
    BY <1>9, <2>1
  <2> HIDE DEF k
  <2>3. f[1..(k + 1)] = LeakedItem(f[1..k], h[k + 1]) /\ h[k + 1] \in X
    BY <1>6, <2>1
  <2> QED
    BY <1>4, <2>1, <2>2, <2>3
<1> QED
  BY <1>10, <1>11

-----------------------------------------------------------------------------
(* The types of the state, and of what a step works on.                     *)

Line == [k : LineKinds, i : Nat, n : Pos]
Item == [k : {"none", "message", "function_call"}, call : Nat, c : Seq(Pos)]
Work == [ev : Seq(Events), cur : Item, items : Seq(Item)]

Providers == {"openai", "anthropic", "gemini"}

TInv ==
    /\ api \in {"responses", "messages"} /\ provider \in Providers /\ holding \in BOOLEAN
    /\ sent \in Seq(Line) /\ Len(sent) <= MaxLines
    /\ chunk \in Seq(Line) /\ Len(chunk) <= MaxInRead
    /\ torn \in Seq(Line) /\ Len(torn) <= 1
    /\ lines \in Seq(Line)
    /\ lost \in SUBSET Pos
    /\ failed \in BOOLEAN /\ tokens \in 0 .. MaxLines /\ accum \in Seq(Pos)
    /\ started \in BOOLEAN /\ pending \in Seq(Events) /\ wire \in Seq(Events)
    /\ out \in Seq(Events)
    /\ current \in Item /\ items \in Seq(Item) /\ heldText \in Seq(Pos)
    /\ finish \in Ends \cup {""}
    /\ logs \in Seq([error : BOOLEAN, tokens : Nat]) /\ Len(logs) <= 1

Marks == {"none", "message", "function_call", "text", "tool_use"} \cup LineKinds
Names == {"created", "open", "delta", "close", "completed", "incomplete", "done",
          "start", "reason", "stop", "raw", "half", "error"}

\* An event has the fields it is made with.
LEMMA EventIs ==
  ASSUME NEW e \in Names, NEW k \in Marks, NEW i \in Nat, NEW c \in Seq(Pos)
  PROVE  /\ Event(e, k, i, c) \in Events
         /\ Event(e, k, i, c).e = e /\ Event(e, k, i, c).k = k
         /\ Event(e, k, i, c).i = i /\ Event(e, k, i, c).c = c
BY DEF Event, Events, Names, Pos, Marks

\* The events without content,
LEMMA BareIs ==
  ASSUME NEW e \in Names
  PROVE  /\ Bare(e) \in Events /\ Bare(e).e = e /\ Bare(e).k = "none"
         /\ Bare(e).i = 0 /\ Bare(e).c = <<>>
<1>1. <<>> \in Seq(Pos) /\ "none" \in Marks /\ 0 \in Nat
  BY EmptySeq DEF Marks
<1> DEFINE c == <<>>
<1>2. c \in Seq(Pos) /\ Bare(e) = Event(e, "none", 0, c)
  BY <1>1 DEF Bare
<1> HIDE DEF c
<1>3. /\ Bare(e) \in Events /\ Bare(e).e = e /\ Bare(e).k = "none"
      /\ Bare(e).i = 0 /\ Bare(e).c = c
  BY <1>1, <1>2, EventIs
<1> QED
  BY <1>3 DEF c

\* the open item when there is none,
LEMMA NoItemIs == NoItem \in Item /\ NoItem.k = "none" /\ NoItem.c = <<>>
<1>1. <<>> \in Seq(Pos)
  OBVIOUS
<1> QED
  BY <1>1 DEF NoItem, Item

\* and the parts of a piece of work have their types.
LEMMA WorkFields ==
  ASSUME NEW s \in Work
  PROVE  /\ s.ev \in Seq(Events) /\ s.cur \in Item /\ s.items \in Seq(Item)
         /\ s.cur.k \in {"none", "message", "function_call"} /\ s.cur.call \in Nat
         /\ s.cur.c \in Seq(Pos) /\ Len(s.items) \in Nat /\ s.cur.k \in Marks
<1>1. s.ev \in Seq(Events) /\ s.cur \in Item /\ s.items \in Seq(Item)
  BY DEF Work
<1>2. Len(s.items) \in Nat
  BY <1>1, LenProperties
<1> QED
  BY <1>1, <1>2 DEF Item, Marks

\* A record of three such parts is a piece of work.
LEMMA WorkIs ==
  ASSUME NEW ev \in Seq(Events), NEW cur \in Item, NEW its \in Seq(Item), NEW s,
         s = [ev |-> ev, cur |-> cur, items |-> its]
  PROVE  s \in Work /\ s.ev = ev /\ s.cur = cur /\ s.items = its
BY DEF Work

\* A step begins with no event and with the items as they are.
LEMMA NowIs ==
  ASSUME TInv
  PROVE  Now \in Work /\ Now.ev = <<>> /\ Now.cur = current /\ Now.items = items
<1>1. <<>> \in Seq(Events) /\ current \in Item /\ items \in Seq(Item)
  BY EmptySeq DEF TInv
<1> QED
  BY <1>1 DEF Now, Work

\* What the helpers make of it, field by field.
LEMMA CloseItemIs ==
  ASSUME NEW s \in Work
  PROVE  /\ CloseItem(s) \in Work
         /\ s.cur = NoItem => CloseItem(s) = s
         /\ s.cur # NoItem =>
              /\ CloseItem(s).ev =
                    Append(s.ev, Event("close", s.cur.k, Len(s.items), s.cur.c))
              /\ CloseItem(s).cur = NoItem
              /\ CloseItem(s).items = Append(s.items, s.cur)
         /\ CloseItem(s).cur = NoItem
<1> DEFINE x == Event("close", s.cur.k, Len(s.items), s.cur.c)
<1>1. x \in Events
  BY WorkFields, EventIs DEF Names
<1>2. Append(s.ev, x) \in Seq(Events) /\ Append(s.items, s.cur) \in Seq(Item)
  BY <1>1, WorkFields, AppendProperties
<1> HIDE DEF x
<1>3. CASE s.cur # NoItem
  <2>1. CloseItem(s) = [ev |-> Append(s.ev, x), cur |-> NoItem,
                        items |-> Append(s.items, s.cur)]
    BY <1>3 DEF CloseItem, x
  <2>2. /\ CloseItem(s) \in Work /\ CloseItem(s).ev = Append(s.ev, x)
        /\ CloseItem(s).cur = NoItem /\ CloseItem(s).items = Append(s.items, s.cur)
    BY <1>2, <2>1, NoItemIs DEF Work
  <2> QED
    BY <1>3, <2>2 DEF x
<1>4. CASE s.cur = NoItem
  BY <1>4 DEF CloseItem
<1> QED
  BY <1>3, <1>4

\* Opening announces the item with the next index,
LEMMA OpenItemIs ==
  ASSUME NEW s \in Work, NEW k \in {"message", "function_call"}, NEW call \in Nat
  PROVE  /\ OpenItem(s, k, call) \in Work
         /\ OpenItem(s, k, call).ev = Append(s.ev, Event("open", k, Len(s.items), <<>>))
         /\ OpenItem(s, k, call).cur = [k |-> k, call |-> call, c |-> <<>>]
         /\ OpenItem(s, k, call).items = s.items
<1> DEFINE x == Event("open", k, Len(s.items), <<>>)
           cur == [k |-> k, call |-> call, c |-> <<>>]
           t == OpenItem(s, k, call)
<1>1. x \in Events
  <2>1. <<>> \in Seq(Pos) /\ k \in Marks /\ "open" \in Names
    BY EmptySeq DEF Names, Marks
  <2> QED
    BY <2>1, WorkFields, EventIs
<1>2. Append(s.ev, x) \in Seq(Events) /\ s.items \in Seq(Item)
  BY <1>1, WorkFields, AppendProperties
<1>3. cur \in Item
  <2>1. <<>> \in Seq(Pos)
    OBVIOUS
  <2> QED
    BY <2>1 DEF Item
<1>5. t = [ev |-> Append(s.ev, x), cur |-> cur, items |-> s.items]
  BY DEF OpenItem
<1> HIDE DEF x, cur, t
<1>6. t \in Work /\ t.ev = Append(s.ev, x) /\ t.cur = cur /\ t.items = s.items
  BY <1>2, <1>3, <1>5 DEF Work
<1> QED
  BY <1>6 DEF x, cur, t

\* a message is opened unless one is open,
LEMMA OpenMessageIs ==
  ASSUME NEW s \in Work
  PROVE  OpenMessage(s) \in Work /\ OpenMessage(s).cur.k = "message"
<1>1. CASE s.cur.k = "message"
  BY <1>1 DEF OpenMessage
<1>2. CASE s.cur.k # "message"
  <2> DEFINE c == CloseItem(s)
  <2>1. c \in Work
    BY CloseItemIs
  <2> HIDE DEF c
  <2>2. OpenItem(c, "message", 0) \in Work
        /\ OpenItem(c, "message", 0).cur = [k |-> "message", call |-> 0, c |-> <<>>]
    BY <2>1, OpenItemIs
  <2>3. OpenMessage(s) = OpenItem(c, "message", 0)
    BY <1>2 DEF OpenMessage, c
  <2> QED
    BY <2>2, <2>3
<1> QED
  BY <1>1, <1>2

\* a delta says its content and adds it to the open item,
LEMMA DeltaIs ==
  ASSUME NEW s \in Work, NEW c \in Seq(Pos)
  PROVE  /\ Delta(s, c) \in Work
         /\ Delta(s, c).ev = Append(s.ev, Event("delta", s.cur.k, Len(s.items), c))
         /\ Delta(s, c).cur = [k |-> s.cur.k, call |-> s.cur.call, c |-> s.cur.c \o c]
         /\ Delta(s, c).items = s.items
<1> DEFINE x == Event("delta", s.cur.k, Len(s.items), c)
           cur == [k |-> s.cur.k, call |-> s.cur.call, c |-> s.cur.c \o c]
           t == Delta(s, c)
<1>1. x \in Events
  BY WorkFields, EventIs DEF Names
<1>2. Append(s.ev, x) \in Seq(Events) /\ s.items \in Seq(Item)
  BY <1>1, WorkFields, AppendProperties
<1>3. cur \in Item
  <2>1. s.cur.c \o c \in Seq(Pos)
    BY WorkFields, ConcatProperties
  <2> QED
    BY <2>1, WorkFields DEF Item
<1>5. t = [ev |-> Append(s.ev, x), cur |-> cur, items |-> s.items]
  BY DEF Delta
<1> HIDE DEF x, cur, t
<1>6. t \in Work /\ t.ev = Append(s.ev, x) /\ t.cur = cur /\ t.items = s.items
  BY <1>2, <1>3, <1>5 DEF Work
<1> QED
  BY <1>6 DEF x, cur, t

\* the held text is such a delta,
LEMMA FlushHeldType ==
  ASSUME TInv, NEW s \in Work
  PROVE  FlushHeld(s) \in Work
<1> DEFINE o == OpenMessage(s)
<1>1. o \in Work /\ heldText \in Seq(Pos)
  BY OpenMessageIs DEF TInv
<1> HIDE DEF o
<1>2. Delta(o, heldText) \in Work
  BY <1>1, DeltaIs
<1> QED
  BY <1>2 DEF FlushHeld, o

\* a call's item is opened unless it is open,
LEMMA CallItemIs ==
  ASSUME NEW s \in Work, NEW l \in Line
  PROVE  CallItem(s, l) \in Work /\ CallItem(s, l).cur.k = "function_call"
<1>1. CASE s.cur.k = "function_call" /\ s.cur.call = l.i
  BY <1>1 DEF CallItem
<1>2. CASE ~ (s.cur.k = "function_call" /\ s.cur.call = l.i)
  <2> DEFINE c == CloseItem(s)
             i == l.i
  <2>1. c \in Work /\ i \in Nat
    BY CloseItemIs DEF Line
  <2>2. CallItem(s, l) = OpenItem(c, "function_call", i)
    BY <1>2 DEF CallItem
  <2> HIDE DEF c, i
  <2>3. OpenItem(c, "function_call", i) \in Work
        /\ OpenItem(c, "function_call", i).cur = [k |-> "function_call", call |-> i, c |-> <<>>]
    BY <2>1, OpenItemIs
  <2> QED
    BY <2>2, <2>3
<1> QED
  BY <1>1, <1>2

\* and a leaked call is opened and closed with its content.
LEMMA LeakedItemIs ==
  ASSUME NEW s \in Work, NEW n \in Pos
  PROVE  /\ LeakedItem(s, n) \in Work
         /\ LeakedItem(s, n).ev =
              Append(Append(s.ev, Event("open", "function_call", Len(s.items), <<>>)),
                     Event("close", "function_call", Len(s.items), <<n>>))
         /\ LeakedItem(s, n).cur = s.cur
         /\ LeakedItem(s, n).items =
              Append(s.items, [k |-> "function_call", call |-> 0, c |-> <<n>>])
<1> DEFINE x == Event("open", "function_call", Len(s.items), <<>>)
           y == Event("close", "function_call", Len(s.items), <<n>>)
           it == [k |-> "function_call", call |-> 0, c |-> <<n>>]
           t == LeakedItem(s, n)
<1>1. <<>> \in Seq(Pos) /\ <<n>> \in Seq(Pos)
  OBVIOUS
<1>2. x \in Events /\ y \in Events
  BY <1>1, WorkFields, EventIs DEF Names, Marks
<1>3. it \in Item
  BY <1>1 DEF Item
<1>4. /\ Append(s.ev, x) \in Seq(Events) /\ Append(Append(s.ev, x), y) \in Seq(Events)
      /\ Append(s.items, it) \in Seq(Item)
  BY <1>2, <1>3, WorkFields, AppendProperties
<1>5. s.ev \in Seq(Events)
  BY WorkFields
<1>6. t = [ev |-> s.ev \o <<x, y>>, cur |-> s.cur, items |-> Append(s.items, it)]
  BY DEF LeakedItem
<1> HIDE DEF x, y, it
<1>7. s.ev \o <<x, y>> = Append(Append(s.ev, x), y)
  BY <1>2, <1>5
<1>8. /\ t \in Work /\ t.ev = Append(Append(s.ev, x), y) /\ t.cur = s.cur
      /\ t.items = Append(s.items, it)
  <2> HIDE DEF t
  <2> QED
    BY <1>4, <1>6, <1>7, WorkFields DEF Work
<1> QED
  BY <1>8 DEF x, y, it, t

-----------------------------------------------------------------------------
(* The inductive invariant: the provider's lines and where they are.        *)

\* The lines that were read, and those of them that were given to the handler.
ReadTo == Len(sent) - Len(chunk)
Fed == IF Converts THEN (1 .. ReadTo) \ lost ELSE 1 .. ReadTo - Len(torn)

\* What a provider sends is in order: nothing follows an error or "[DONE]", only
\* counts and "[DONE]" follow the end, and a call begins once, before its arguments.
InOrder(s) ==
    /\ \A p \in DOMAIN s : s[p].n = p
    /\ \A p \in DOMAIN s : \A q \in DOMAIN s : p < q =>
          /\ s[p].k \notin {"done", "fail"}
          /\ s[p].k \in Ends => s[q].k \in {"usage", "done"}
    /\ \A q \in DOMAIN s : s[q].k = "done" => \E p \in DOMAIN s : p < q /\ s[p].k \in Ends
    /\ \A q \in DOMAIN s : s[q].k \in ToolKind =>
          \E p \in DOMAIN s : p <= q /\ s[p].k \in CallKind /\ s[p].i = s[q].i
    /\ \A p \in DOMAIN s : \A q \in DOMAIN s :
          s[p].k \in CallKind /\ s[q].k \in CallKind /\ s[p].i = s[q].i => p = q
    /\ \A p \in DOMAIN s : s[p].k \in CallKind =>
          s[p].i < Cardinality({q \in DOMAIN s : s[q].k \in CallKind})

\* The handler's line l is the provider's line o, or what the adapter left of it.
Matches(l, o) ==
    /\ l.n = o.n
    /\ \/ provider = "openai" /\ l = o
       \/ l.k \in Content /\ l.k = o.k
       \/ l.k = "stop" /\ o.k \in Ends

\* Where the lines are: the unread ones are the last, a torn one was the last read,
\* those the handler works on were given to it, in order; without a count no line
\* that was read whole had one.
Reading ==
    /\ InOrder(sent)
    /\ \A p \in DOMAIN sent : sent[p].k \in Kinds[provider]
    /\ Len(chunk) <= Len(sent)
    /\ \A q \in DOMAIN chunk : chunk[q] = sent[ReadTo + q]
    /\ torn # <<>> => ReadTo >= 1 /\ torn[1] = sent[ReadTo] /\ ReadTo \in lost
    /\ lost \subseteq 1 .. ReadTo
    /\ api = "messages" =>
          \E b \in Nat : /\ b + Len(lines) <= ReadTo
                         /\ \A j \in DOMAIN lines : b + j \in Fed /\ lines[j] = sent[b + j]
    /\ api = "responses" =>
          \A j \in DOMAIN lines : lines[j].n \in Fed /\ Matches(lines[j], sent[lines[j].n])
    /\ failed \/ Done => lines = <<>>
    /\ tokens = 0 => \A p \in (1 .. ReadTo) \ lost : ~Reports(sent[p])

\* The lines whose content the client is owed, given to the handler.
Owed == {p \in Fed :
    \/ PassedThrough \/ sent[p].k \in Content
    \/ /\ provider = "openai" /\ HasArguments(sent[p])
       /\ api = "messages" =>
             \E q \in Fed : q <= p /\ sent[q].k \in CallKind /\ sent[q].i = sent[p].i}

\* The positions up to r that are in A, and the positions in A of some lines.
Listed(A, r) == FlattenSeq([p \in 1 .. r |-> IF p \in A THEN <<p>> ELSE <<>>])
Rest(A, ls) == FlattenSeq([j \in DOMAIN ls |-> IF ls[j].n \in A THEN <<ls[j].n>> ELSE <<>>])

-----------------------------------------------------------------------------
(* The inductive invariant: the items of a Responses stream.                *)

Earlier(S, p, e) == {q \in 1 .. p - 1 : S[q].e = e}

\* What ItemsFollow says of the p-th event of S.
ItemEvent(S, p) ==
    LET opened == Cardinality(Earlier(S, p, "open"))
        closed == Cardinality(Earlier(S, p, "close"))
        ev == S[p]
    IN
    /\ ev.e = "open" => opened = closed /\ ev.i = closed
    /\ ev.e \in {"delta", "close"} =>
          /\ opened = closed + 1 /\ ev.i = closed
          /\ \A q \in Earlier(S, p, "open") : S[q].i = ev.i => S[q].k = ev.k
    /\ ev.e \in {"completed", "incomplete"} => opened = closed /\ ev.i = closed

\* What DeltasAddUp says of it.
Adds(S, p, leaks) ==
    \/ Gathered(S, "delta", {S[p].i}) = S[p].c
    \/ /\ \A q \in DOMAIN S : S[q].e = "delta" => S[q].i # S[p].i
       /\ \A q \in DOMAIN S[p].c : S[p].c[q] \in leaks

\* The events S agree with the closed items and the open one.
Sound(S, cur, its, leaks) ==
    /\ cur.k = "none" => cur = NoItem
    /\ Cardinality(Earlier(S, Len(S) + 1, "close")) = Len(its)
    /\ Cardinality(Earlier(S, Len(S) + 1, "open")) =
          IF cur = NoItem THEN Len(its) ELSE Len(its) + 1
    /\ Gathered(S, "delta", {Len(its)}) = cur.c
    /\ \A p \in DOMAIN S :
          /\ ItemEvent(S, p)
          /\ S[p].e = "open" =>
                S[p].i < Len(its) \/ (cur # NoItem /\ S[p].i = Len(its) /\ S[p].k = cur.k)
          /\ S[p].e = "delta" => S[p].i < Len(its) \/ (cur # NoItem /\ S[p].i = Len(its))
          /\ S[p].e = "close" => S[p].i < Len(its) /\ Adds(S, p, leaks)

Leaks == {p \in DOMAIN sent : sent[p].k = "leak"}
HasText(S) == \E p \in DOMAIN S : S[p].e = "delta" /\ S[p].k \in {"message", "text"}

\* Content is held back only before the first item; events wait only before the
\* first content; text was counted; nothing owed is missing or out of order.
Responding ==
    api = "responses" =>
        /\ out = <<>>
        /\ ~Done /\ started => pending = <<>>
        /\ ~Done /\ ~started => wire = <<>>
        /\ holding => current = NoItem /\ items = <<>>
        /\ ~holding => heldText = <<>>
        /\ \A p \in DOMAIN heldText : heldText[p] \in DOMAIN sent
        /\ ~Done /\ (heldText # <<>> \/ HasText(Said)) => accum # <<>>
        /\ ~Done => ~Has("error", Said)
        /\ ~Done /\ started =>
              \E p \in Fed : \/ sent[p].k \in {"text", "leak"} \cup Ends
                             \/ sent[p].k = "fail" /\ ~failed
        /\ Sound(Said, current, items, Leaks)
        /\ ~Done /\ ~failed =>
              Gathered(Said, "delta", Nat) \o heldText \o Rest(Owed, lines) = Listed(Owed, ReadTo)

-----------------------------------------------------------------------------
(* The inductive invariant: the blocks of a Messages stream.                *)

\* The block of the call i begins with the p-th event of S; every event of a call's
\* block comes after its beginning, and no block begins twice.
Opens(S, p, i) == S[p].e = "open" /\ S[p].k = "tool_use" /\ S[p].i = i
Started(S, i) == \E p \in DOMAIN S : Opens(S, p, i)
ToolsStart(S) ==
    /\ \A p \in DOMAIN S : S[p].k = "tool_use" /\ S[p].e # "raw" =>
          \E q \in 1 .. p : Opens(S, q, S[p].i)
    /\ \A p \in DOMAIN S : \A q \in DOMAIN S :
          Opens(S, p, S[q].i) /\ Opens(S, q, S[q].i) => p = q

\* S is one message with m deltas, not ended or ended.
Begun(S, m) ==
    /\ Len(S) >= m + 2 /\ S[1].e = "start" /\ S[2].e = "open"
    /\ \A p \in 3 .. m + 2 : S[p].e = "delta"
Finished(S, m) ==
    /\ Len(S) = m + 5 /\ S[m + 3].e = "close" /\ S[m + 4].e = "reason" /\ S[m + 5].e = "stop"
Shape(S) ==
    Len(S) = 0 \/ \E m \in Nat : Begun(S, m) /\ (Len(S) = m + 2 \/ Finished(S, m))

\* The line q was handled.
Handled(q) == q \in Fed /\ \A j \in DOMAIN lines : lines[j].n # q

Messaging ==
    api = "messages" =>
        /\ pending = <<>> /\ ~started /\ ~holding /\ heldText = <<>>
        /\ ~Done => wire = <<>>
        /\ ~Has("error", out)
        /\ ToolsStart(out)
        /\ provider # "anthropic" =>
              /\ Calls = 0 => Shape(out)
              /\ Has("stop", out) =>
                    \E q \in Fed : /\ sent[q].k \in Ends \cup {"done"}
                                   /\ \A j \in DOMAIN lines : q < lines[j].n
              /\ ~failed => \A q \in DOMAIN sent :
                    Handled(q) /\ sent[q].k \in Ends \cup {"done"} => Has("stop", out)
        /\ provider = "openai" /\ ~failed =>
              \A i \in Nat : ToolStarted(i) <=>
                  \E q \in DOMAIN sent : Handled(q) /\ sent[q].k \in CallKind /\ sent[q].i = i
        /\ ~Done /\ ~failed =>
              Gathered(out, IF PassedThrough THEN "raw" ELSE "delta", Nat) \o Rest(Owed, lines)
                 = Listed(Owed, ReadTo)

-----------------------------------------------------------------------------
(* The types are kept.                                                      *)

\* What each provider may send.
LEMMA KindsIs ==
  /\ DOMAIN Kinds = Providers
  /\ Kinds["openai"] = LineKinds
  /\ Kinds["anthropic"] = {"role"} \cup Content \cup ToolKind \cup Ends \cup {"done"}
  /\ Kinds["gemini"] = Content \cup Ends
  /\ \A p \in Providers : Kinds[p] \subseteq LineKinds
<1>1. /\ DOMAIN Kinds = Providers
      /\ Kinds["openai"] = LineKinds
      /\ Kinds["anthropic"] = {"role"} \cup Content \cup ToolKind \cup Ends \cup {"done"}
      /\ Kinds["gemini"] = Content \cup Ends
  BY DEF Kinds, Providers
<1>2. ASSUME NEW p \in Providers PROVE Kinds[p] \subseteq LineKinds
  BY <1>1 DEF Providers, LineKinds
<1> QED
  BY <1>1, <1>2

\* The lines that were sent are lines, and their calls are counted.
LEMMA SentFacts ==
  ASSUME TInv
  PROVE  /\ Len(sent) \in Nat /\ DOMAIN sent = 1 .. Len(sent)
         /\ Calls \in Nat
         /\ IsFiniteSet({p \in DOMAIN sent : sent[p].k \in CallKind})
         /\ \A p \in DOMAIN sent :
               sent[p] \in Line /\ sent[p].k \in LineKinds /\ sent[p].i \in Nat
<1>1. Len(sent) \in Nat /\ DOMAIN sent = 1 .. Len(sent)
  BY LenProperties DEF TInv
<1>2. IsFiniteSet(1 .. Len(sent))
  BY <1>1, FS_Interval
<1> DEFINE C == {p \in DOMAIN sent : sent[p].k \in CallKind}
<1>3. C \in SUBSET (1 .. Len(sent))
  BY <1>1
<1>4. IsFiniteSet(C)
  BY <1>2, <1>3, FS_Subset
<1>5. Cardinality(C) \in Nat
  BY <1>4, FS_CardinalityType
<1>6. ASSUME NEW p \in DOMAIN sent
      PROVE  sent[p] \in Line /\ sent[p].k \in LineKinds /\ sent[p].i \in Nat
  <2>1. sent[p] \in Line
    BY <1>1, ElementOfSeq DEF TInv
  <2> QED
    BY <2>1 DEF Line
<1> QED
  BY <1>1, <1>4, <1>5, <1>6 DEF Calls

\* The order a provider keeps, kind by kind.
LEMMA MayFollowIs ==
  ASSUME NEW k \in LineKinds, MayFollow(k)
  PROVE  /\ SentKinds \cap {"done", "fail"} = {}
         /\ k = "role" => sent = <<>>
         /\ k = "args" => sent # <<>> /\ Last(sent).k \in ToolKind
         /\ k \in CallKind \cup Content \cup Ends => SentKinds \cap Ends = {}
         /\ k \in CallKind => Calls < MaxCalls
         /\ k \in {"usage", "done"} => SentKinds \cap Ends # {}
BY DEF MayFollow, LineKinds, CallKind, Content, Ends, ToolKind

\* The line that arrives.
Arriving(l) ==
    /\ l \in Line /\ l.k \in Kinds[provider] /\ MayFollow(l.k) /\ l.n = Len(sent) + 1
    /\ l.i = IF l.k \in CallKind THEN Calls ELSE IF l.k = "args" THEN Last(sent).i ELSE 0

\* An arriving line is one that may follow, and touches nothing else.
LEMMA ArriveIs ==
  ASSUME TInv, Arrive
  PROVE  /\ lines = <<>> /\ ~Done /\ Len(chunk) < MaxInRead /\ Len(sent) < MaxLines
         /\ \E l \in Line : Arriving(l) /\ sent' = Append(sent, l) /\ chunk' = Append(chunk, l)
         /\ UNCHANGED <<provided, torn, lost, reading, answer, holding, heldText, lines, accum,
                        out, logs>>
<1>1. PICK k \in Kinds[provider] :
          /\ MayFollow(k)
          /\ LET i == IF k \in CallKind THEN Calls ELSE IF k = "args" THEN Last(sent).i ELSE 0
                 l == [k |-> k, i |-> i, n |-> Len(sent) + 1]
             IN sent' = Append(sent, l) /\ chunk' = Append(chunk, l)
  BY DEF Arrive
<1> DEFINE i == IF k \in CallKind THEN Calls ELSE IF k = "args" THEN Last(sent).i ELSE 0
           l == [k |-> k, i |-> i, n |-> Len(sent) + 1]
<1>2. lines = <<>> /\ ~Done /\ Len(chunk) < MaxInRead /\ Len(sent) < MaxLines
  BY DEF Arrive
<1>3. k \in LineKinds
  BY KindsIs DEF TInv
<1>4. Len(sent) + 1 \in Pos
  BY <1>2, SentFacts, BoundsAssumption DEF Pos
<1>5. i \in Nat
  <2>1. CASE k = "args"
    <3>1. sent # <<>>
      BY <1>1, <1>3, <2>1, MayFollowIs
    <3>2. sent \in Seq(Line)
      BY DEF TInv
    <3>4. Len(sent) \in DOMAIN sent
      BY <3>1, <3>2, SentFacts, EmptySeq
    <3>3. Last(sent).i \in Nat
      BY <3>4, SentFacts DEF Last
    <3> QED
      BY <3>3, SentFacts
  <2>2. CASE k # "args"
    BY <2>2, SentFacts
  <2> QED
    BY <2>1, <2>2
<1>6. sent' = Append(sent, l) /\ chunk' = Append(chunk, l)
  BY <1>1
<1>7. l.k = k /\ l.i = i /\ l.n = Len(sent) + 1
  OBVIOUS
<1>8. l \in Line
  <2> HIDE DEF i
  <2> QED
    BY <1>3, <1>4, <1>5 DEF Line
<1>9. Arriving(l)
  <2>1. i = IF l.k \in CallKind THEN Calls ELSE IF l.k = "args" THEN Last(sent).i ELSE 0
    OBVIOUS
  <2> HIDE DEF l, i
  <2> QED
    BY <1>1, <1>7, <1>8, <2>1 DEF Arriving
<1> QED
  <2> HIDE DEF l
  <2>1. UNCHANGED <<provided, torn, lost, reading, answer, holding, heldText, lines, accum,
                    out, logs>>
    BY DEF Arrive
  <2> QED
    BY <1>2, <1>6, <1>8, <1>9, <2>1

\* What is read: the chunk, or all of it but the line the read ends in.
LEMMA WholeIs ==
  ASSUME TInv, NEW cut \in BOOLEAN, cut => chunk # <<>>,
         NEW whole, whole = IF cut THEN Front(chunk) ELSE chunk
  PROVE  /\ whole \in Seq(Line) /\ Len(chunk) \in Nat /\ Len(whole) \in Nat
         /\ Len(whole) = IF cut THEN Len(chunk) - 1 ELSE Len(chunk)
         /\ DOMAIN whole = 1 .. Len(whole) /\ DOMAIN chunk = 1 .. Len(chunk)
         /\ \A q \in 1 .. Len(whole) : whole[q] = chunk[q] /\ whole[q] \in Line
         /\ cut => Last(chunk) \in Line /\ Len(chunk) \in 1 .. Len(chunk)
                   /\ Last(chunk) = chunk[Len(chunk)]
         /\ torn \o whole \in Seq(Line)
<1>1. chunk \in Seq(Line) /\ torn \in Seq(Line) /\ Len(chunk) \in Nat
      /\ DOMAIN chunk = 1 .. Len(chunk)
  BY LenProperties DEF TInv
<1>2. \A q \in 1 .. Len(chunk) : chunk[q] \in Line
  BY <1>1, ElementOfSeq
<1>3. cut => Len(chunk) \in 1 .. Len(chunk)
  BY <1>1, EmptySeq
<1>4. CASE cut
  <2> DEFINE n == Len(chunk) - 1
  <2>1. n \in Nat /\ n - 1 + 1 = n /\ \A q \in 1 .. n : q \in 1 .. Len(chunk)
    BY <1>1, <1>3, <1>4
  <2>2. whole = SubSeq(chunk, 1, n)
    BY <1>4 DEF Front
  <2> HIDE DEF n
  <2>3. /\ SubSeq(chunk, 1, n) \in Seq(Line)
        /\ Len(SubSeq(chunk, 1, n)) = IF 1 <= n THEN n - 1 + 1 ELSE 0
        /\ \A q \in 1 .. n - 1 + 1 : SubSeq(chunk, 1, n)[q] = chunk[1 + q - 1]
    BY <1>2, <2>1, SubSeqProperties
  <2>4. whole \in Seq(Line) /\ Len(whole) = n
    BY <2>1, <2>2, <2>3
  <2>5. \A q \in 1 .. n : whole[q] = chunk[q]
    <3> TAKE q \in 1 .. n
    <3>1. 1 + q - 1 = q /\ q \in 1 .. n - 1 + 1
      BY <2>1
    <3>2. SubSeq(chunk, 1, n)[q] = chunk[1 + q - 1]
      BY <2>3, <3>1
    <3> QED
      BY <2>2, <3>1, <3>2
  <2>6. torn \o whole \in Seq(Line) /\ DOMAIN whole = 1 .. Len(whole)
    BY <1>1, <2>4, ConcatProperties, LenProperties
  <2>7. Last(chunk) = chunk[Len(chunk)] /\ Last(chunk) \in Line
    BY <1>2, <1>3, <1>4 DEF Last
  <2> QED
    BY <1>1, <1>2, <1>3, <1>4, <2>1, <2>4, <2>5, <2>6, <2>7 DEF n
<1>5. CASE ~cut
  <2>1. torn \o whole \in Seq(Line)
    BY <1>1, <1>5, ConcatProperties
  <2> QED
    BY <1>1, <1>2, <1>5, <2>1
<1> QED
  BY <1>4, <1>5

\* One line as the adapter rewrites it, and several.
LEMMA RewriteType ==
  ASSUME NEW l \in Line
  PROVE  Rewrite(l) \in Seq(Line) /\ Rewrite(l) \in {<<>>, <<Rewrite(l)[1]>>}
<1> DEFINE m == [k |-> "stop", i |-> l.i, n |-> l.n]
<1>1. m \in Line
  BY DEF Line, LineKinds, Ends
<1>2. Rewrite(l) \in {<<>>, <<l>>, <<m>>}
  BY DEF Rewrite
<1> HIDE DEF m
<1>3. <<>> \in Seq(Line) /\ <<l>> \in Seq(Line) /\ <<m>> \in Seq(Line)
  BY <1>1
<1>4. <<l>>[1] = l /\ <<m>>[1] = m
  OBVIOUS
<1> QED
  BY <1>2, <1>3, <1>4

Rewrites(ls) == [p \in DOMAIN ls |-> Rewrite(ls[p])]

\* A rewritten read is the concatenation of its rewritten lines.
LEMMA RewrittenType ==
  ASSUME NEW ls \in Seq(Line)
  PROVE  /\ Rewrites(ls) \in Seq(Seq(Line)) /\ Len(Rewrites(ls)) = Len(ls)
         /\ Rewritten(ls) = FlattenSeq(Rewrites(ls))
         /\ Rewritten(ls) \in Seq(Line)
<1> DEFINE g == Rewrites(ls)
           n == Len(ls)
<1>1. n \in Nat /\ DOMAIN ls = 1..n
  BY LenProperties
<1>2. ASSUME NEW p \in 1..n PROVE Rewrite(ls[p]) \in Seq(Line)
  <2>1. ls[p] \in Line
    BY ElementOfSeq
  <2> QED
    BY <2>1, RewriteType
<1>3. g \in [1..n -> Seq(Line)]
  BY <1>1, <1>2 DEF Rewrites
<1>4. Rewritten(ls) = FlattenSeq(g)
  BY DEF Rewritten, Rewrites
<1> HIDE DEF g, n
<1>5. g \in Seq(Seq(Line)) /\ Len(g) = n
  BY <1>1, <1>3, IsSeqOf
<1>6. FlattenSeq(g) \in Seq(Line)
  BY <1>5, FlattenType
<1> QED
  BY <1>4, <1>5, <1>6 DEF g, n

\* The text counted in a read is a sequence of positions.
LEMMA CountedType ==
  ASSUME NEW ls \in Seq(Line)
  PROVE  Counted(ls) \in Seq(Pos)
<1> DEFINE g == [p \in DOMAIN ls |-> IF ls[p].k \in Content THEN <<ls[p].n>> ELSE <<>>]
           n == Len(ls)
<1>1. n \in Nat /\ DOMAIN ls = 1..n
  BY LenProperties
<1>2. ASSUME NEW p \in 1..n
      PROVE  (IF ls[p].k \in Content THEN <<ls[p].n>> ELSE <<>>) \in Seq(Pos)
  <2>1. ls[p] \in Line
    BY ElementOfSeq
  <2>2. ls[p].n \in Pos
    BY <2>1 DEF Line
  <2>3. <<ls[p].n>> \in Seq(Pos) /\ <<>> \in Seq(Pos)
    BY <2>2, EmptySeq
  <2> QED
    BY <2>3
<1>3. g \in [1..n -> Seq(Pos)]
  BY <1>1, <1>2
<1>4. PositionsOf(ls, Content) = FlattenSeq(g)
  BY DEF PositionsOf
<1> HIDE DEF g, n
<1>5. g \in Seq(Seq(Pos))
  BY <1>1, <1>3, IsSeqOf
<1>6. FlattenSeq(g) \in Seq(Pos)
  BY <1>5, FlattenType
<1>7. Counted(ls) = <<>> \/ Counted(ls) = PositionsOf(ls, Content)
  BY DEF Counted
<1> QED
  BY <1>4, <1>6, <1>7, EmptySeq

\* The count of a read is that of a line of it, and no line has the count zero.
LEMMA TokensOfIs ==
  ASSUME NEW ls \in Seq(Line)
  PROVE  /\ TokensOf(ls) \in 0 .. MaxLines
         /\ TokensOf(ls) = 0 => \A p \in DOMAIN ls : ~Reports(ls[p])
<1> DEFINE T == {p \in DOMAIN ls : Reports(ls[p])}
           n == Len(ls)
<1>1. n \in Nat /\ DOMAIN ls = 1..n /\ T \in SUBSET (1..n)
  BY LenProperties
<1>2. TokensOf(ls) = IF T = {} THEN 0 ELSE ls[Max(T)].n
  BY DEF TokensOf
<1>3. T = {} => \A p \in DOMAIN ls : ~Reports(ls[p])
  OBVIOUS
<1> HIDE DEF T, n
<1>4. CASE T # {}
  <2>1. Max(T) \in 1..n
    BY <1>1, <1>4, MaxIsMember
  <2>2. ls[Max(T)] \in Line
    BY <2>1, ElementOfSeq DEF n
  <2>3. ls[Max(T)].n \in 1 .. MaxLines
    BY <2>2 DEF Line, Pos
  <2> QED
    BY <1>2, <1>4, <2>3, BoundsAssumption
<1> QED
  BY <1>2, <1>3, <1>4, BoundsAssumption

\* emit adds the step's events to what was said or will be.
LEMMA EmitIs ==
  ASSUME TInv, NEW s \in Work, NEW now \in BOOLEAN, Emit(s, now)
  PROVE  /\ started' = now /\ current' = s.cur /\ items' = s.items
         /\ wire' \in Seq(Events) /\ pending' \in Seq(Events)
         /\ Said' = Said \o s.ev
         /\ now => pending' = <<>> /\ status' = "ok"
         /\ ~now => wire' = wire /\ status' = status
         /\ pinged' = pinged
<1>1. wire \in Seq(Events) /\ pending \in Seq(Events) /\ s.ev \in Seq(Events)
  BY WorkFields DEF TInv
<1>2. /\ started' = now /\ current' = s.cur /\ items' = s.items /\ pinged' = pinged
      /\ status' = IF now THEN "ok" ELSE status
  BY DEF Emit
<1> DEFINE e == s.ev
           a == (wire \o pending) \o e
<1>3. CASE now
  <2>1. wire' = wire \o pending \o e /\ pending' = <<>>
    BY <1>3 DEF Emit
  <2>2. (wire \o pending) \o e \in Seq(Events)
    BY <1>1, ConcatProperties
  <2>3. a \o <<>> = a
    <3> HIDE DEF a
    <3> QED
      BY <2>2, ConcatEmptySeq DEF a
  <2> QED
    BY <1>2, <1>3, <2>1, <2>2, <2>3, EmptySeq DEF Said
<1>4. CASE ~now
  <2>1. pending' = pending \o e /\ wire' = wire
    BY <1>4 DEF Emit
  <2>2. pending \o e \in Seq(Events)
    BY <1>1, ConcatProperties
  <2>3. wire \o (pending \o e) = (wire \o pending) \o e
    <3> HIDE DEF e
    <3>1. e \in Seq(Events)
      BY <1>1 DEF e
    <3> QED
      BY <1>1, <3>1, ConcatAssociative, SMTT(40)
  <2> QED
    BY <1>1, <1>2, <1>4, <2>1, <2>2, <2>3 DEF Said
<1> QED
  BY <1>3, <1>4

\* The fields of a line have their types.
LEMMA LineFields ==
  ASSUME NEW l \in Line
  PROVE  /\ l.k \in LineKinds /\ l.i \in Nat /\ l.n \in Pos
         /\ <<l.n>> \in Seq(Pos) /\ l.k \in Marks
<1>1. l.k \in LineKinds /\ l.i \in Nat /\ l.n \in Pos
  BY DEF Line
<1> QED
  BY <1>1 DEF Marks

\* Taking the first line off a read.
LEMMA HeadTail ==
  ASSUME NEW ls \in Seq(Line), ls # <<>>
  PROVE  /\ Head(ls) \in Line /\ Tail(ls) \in Seq(Line) /\ Len(Tail(ls)) = Len(ls) - 1
         /\ Len(ls) \in Nat \ {0} /\ DOMAIN ls = 1 .. Len(ls)
         /\ DOMAIN Tail(ls) = 1 .. Len(ls) - 1
         /\ Head(ls) = ls[1]
         /\ \A j \in 1 .. Len(ls) - 1 : Tail(ls)[j] = ls[j + 1]
<1>1. /\ Head(ls) \in Line /\ Tail(ls) \in Seq(Line) /\ Len(Tail(ls)) = Len(ls) - 1
      /\ \A j \in 1 .. Len(Tail(ls)) : Tail(ls)[j] = ls[j + 1]
  BY HeadTailProperties
<1>2. Len(ls) \in Nat \ {0} /\ DOMAIN ls = 1 .. Len(ls)
  BY EmptySeq, LenProperties
<1>3. DOMAIN Tail(ls) = 1 .. Len(ls) - 1
  BY <1>1, LenProperties
<1> QED
  BY <1>1, <1>2, <1>3

\* The work of OnCall: the held text first, then the call's item, then its arguments.
Flushed == IF holding THEN FlushHeld(Now) ELSE Now
CallWork(l) ==
    LET opened == CallItem(Flushed, l)
    IN IF HasArguments(l) THEN Delta(opened, <<l.n>>) ELSE opened

\* It has its type before
LEMMA FlushedType ==
  ASSUME TInv
  PROVE  Flushed \in Work
BY NowIs, FlushHeldType DEF Flushed

\* and after the call's delta,
LEMMA CallWorkType ==
  ASSUME TInv, NEW l \in Line
  PROVE  CallWork(l) \in Work
<1> DEFINE o == CallItem(Flushed, l)
           c == <<l.n>>
<1>1. o \in Work /\ c \in Seq(Pos)
  BY FlushedType, CallItemIs, LineFields
<1> HIDE DEF o, c
<1>2. Delta(o, c) \in Work
  BY <1>1, DeltaIs
<1> QED
  BY <1>1, <1>2 DEF CallWork, o, c

\* and is what OnCall emits.
LEMMA OnCallIs ==
  ASSUME TInv, NEW l \in Line, OnCall(l)
  PROVE  /\ l.k \in ToolKind /\ Emit(CallWork(l), started) /\ CallWork(l) \in Work
         /\ holding' = FALSE /\ heldText' = IF holding THEN <<>> ELSE heldText
         /\ UNCHANGED <<accum, finish>>
BY CallWorkType DEF OnCall, CallWork, Flushed

\* Text is held or emitted.
LEMMA OnTextIs ==
  ASSUME TInv, NEW l \in Line, OnText(l)
  PROVE  /\ l.k \in Content /\ accum' = Append(accum, l.n) /\ UNCHANGED <<holding, finish>>
         /\ holding => Emit(Now, TRUE) /\ heldText' = Append(heldText, l.n)
         /\ ~holding => /\ Emit(Delta(OpenMessage(Now), <<l.n>>), TRUE)
                        /\ UNCHANGED heldText
         /\ Delta(OpenMessage(Now), <<l.n>>) \in Work
<1> DEFINE o == OpenMessage(Now)
           c == <<l.n>>
<1>1. o \in Work /\ c \in Seq(Pos)
  BY NowIs, OpenMessageIs, LineFields
<1>2. Delta(o, c) \in Work
  <2> HIDE DEF o, c
  <2> QED
    BY <1>1, DeltaIs
<1> QED
  BY <1>2 DEF OnText

\* What is left of TInv when the upstream side is unchanged.
LEMMA TInvAnswer ==
  ASSUME TInv, UNCHANGED <<provided, upstream, reading>>, lines' \in Seq(Line),
         holding' \in BOOLEAN, accum' \in Seq(Pos), started' \in BOOLEAN,
         pending' \in Seq(Events), wire' \in Seq(Events), out' \in Seq(Events),
         current' \in Item, items' \in Seq(Item), heldText' \in Seq(Pos),
         finish' \in Ends \cup {""},
         logs' \in Seq([error : BOOLEAN, tokens : Nat]), Len(logs') <= 1
  PROVE  TInv'
BY DEF TInv, provided, upstream, reading

\* Every action keeps the types: a line of the Responses handler,
LEMMA TInvResponsesLine ==
  ASSUME TInv, ResponsesLine
  PROVE  TInv'
<1> DEFINE l == Head(lines)
<1>1. /\ lines \in Seq(Line) /\ lines # <<>> /\ lines' = Tail(lines)
      /\ OnCall(l) \/ OnText(l) \/ OnFinish(l) \/ OnOther(l)
      /\ UNCHANGED <<provided, upstream, reading, out, logs>>
  BY DEF ResponsesLine, TInv
<1>2. l \in Line /\ lines' \in Seq(Line)
  BY <1>1, HeadTail
<1>3. /\ out' \in Seq(Events) /\ logs' \in Seq([error : BOOLEAN, tokens : Nat])
      /\ Len(logs') <= 1
  BY <1>1 DEF TInv
<1>4. <<>> \in Seq(Pos) /\ heldText \in Seq(Pos) /\ accum \in Seq(Pos) /\ holding \in BOOLEAN
      /\ started \in BOOLEAN /\ finish \in Ends \cup {""} /\ TRUE \in BOOLEAN
  BY EmptySeq DEF TInv
<1> HIDE DEF l
<1>5. ASSUME NEW s \in Work, NEW now \in BOOLEAN, Emit(s, now)
      PROVE  /\ started' \in BOOLEAN /\ pending' \in Seq(Events) /\ wire' \in Seq(Events)
             /\ current' \in Item /\ items' \in Seq(Item)
  BY <1>5, EmitIs, WorkFields
<1>6. CASE OnCall(l)
  <2>1. /\ Emit(CallWork(l), started) /\ CallWork(l) \in Work /\ holding' = FALSE
        /\ heldText' = (IF holding THEN <<>> ELSE heldText) /\ accum' = accum /\ finish' = finish
    BY <1>2, <1>6, OnCallIs
  <2>2. /\ started' \in BOOLEAN /\ pending' \in Seq(Events) /\ wire' \in Seq(Events)
        /\ current' \in Item /\ items' \in Seq(Item)
    BY <1>4, <1>5, <2>1
  <2>3. heldText' \in Seq(Pos) /\ holding' \in BOOLEAN
    BY <1>4, <2>1
  <2> QED
    BY <1>1, <1>2, <1>3, <1>4, <2>1, <2>2, <2>3, TInvAnswer
<1>7. CASE OnText(l)
  <2> DEFINE w == Delta(OpenMessage(Now), <<l.n>>)
  <2>1. /\ accum' = Append(accum, l.n) /\ holding' = holding /\ finish' = finish
        /\ holding => Emit(Now, TRUE) /\ heldText' = Append(heldText, l.n)
        /\ ~holding => Emit(w, TRUE) /\ heldText' = heldText
        /\ w \in Work
    BY <1>2, <1>7, OnTextIs
  <2> HIDE DEF w
  <2>2. /\ started' \in BOOLEAN /\ pending' \in Seq(Events) /\ wire' \in Seq(Events)
        /\ current' \in Item /\ items' \in Seq(Item)
    BY <1>4, <1>5, <2>1, NowIs
  <2>3. l.n \in Pos
    BY <1>2, LineFields
  <2>4. Append(accum, l.n) \in Seq(Pos) /\ Append(heldText, l.n) \in Seq(Pos)
    BY <1>4, <2>3, AppendProperties
  <2>5. heldText' \in Seq(Pos) /\ accum' \in Seq(Pos) /\ holding' \in BOOLEAN
    BY <1>4, <2>1, <2>4
  <2> QED
    BY <1>1, <1>2, <1>3, <1>4, <2>1, <2>2, <2>5, TInvAnswer
<1>8. CASE OnFinish(l)
  <2>1. /\ l.k \in Ends /\ finish' = l.k /\ Emit(Now, TRUE)
        /\ holding' = holding /\ heldText' = heldText /\ accum' = accum
    BY <1>8 DEF OnFinish
  <2>2. /\ started' \in BOOLEAN /\ pending' \in Seq(Events) /\ wire' \in Seq(Events)
        /\ current' \in Item /\ items' \in Seq(Item)
    BY <1>4, <1>5, <2>1, NowIs
  <2> QED
    BY <1>1, <1>2, <1>3, <1>4, <2>1, <2>2, TInvAnswer
<1>9. CASE OnOther(l)
  <2>1. UNCHANGED <<answer, holding, heldText, accum>>
    BY <1>9 DEF OnOther
  <2>2. /\ started' \in BOOLEAN /\ pending' \in Seq(Events) /\ wire' \in Seq(Events)
        /\ current' \in Item /\ items' \in Seq(Item) /\ finish' \in Ends \cup {""}
        /\ holding' \in BOOLEAN /\ heldText' \in Seq(Pos) /\ accum' \in Seq(Pos)
    BY <2>1 DEF answer, TInv
  <2> QED
    BY <1>1, <1>2, <1>3, <2>2, TInvAnswer
<1> QED
  BY <1>1, <1>6, <1>7, <1>8, <1>9

\* a line that arrives,
LEMMA TInvArrive ==
  ASSUME TInv, Arrive
  PROVE  TInv'
<1>1. PICK l \in Line : /\ sent' = Append(sent, l) /\ chunk' = Append(chunk, l)
                        /\ Len(chunk) < MaxInRead /\ Len(sent) < MaxLines
                        /\ UNCHANGED <<provided, torn, lost, reading, answer, holding, heldText,
                                       lines, accum, out, logs>>
  BY ArriveIs
<1>2. sent \in Seq(Line) /\ chunk \in Seq(Line) /\ Len(sent) \in Nat /\ Len(chunk) \in Nat
  BY LenProperties DEF TInv
<1>3. /\ sent' \in Seq(Line) /\ Len(sent') = Len(sent) + 1
      /\ chunk' \in Seq(Line) /\ Len(chunk') = Len(chunk) + 1
  BY <1>1, <1>2, AppendProperties
<1>4. Len(sent') <= MaxLines /\ Len(chunk') <= MaxInRead
  BY <1>1, <1>2, <1>3, BoundsAssumption
<1> QED
  BY <1>1, <1>3, <1>4 DEF TInv, provided, reading, answer

\* A read, by the lines read whole.
WholeOf(cut) == IF cut THEN Front(chunk) ELSE chunk
LinesOf(whole) ==
    IF api = "responses" THEN Rewritten(IF Converts THEN whole ELSE torn \o whole)
    ELSE IF Converts THEN whole ELSE torn \o whole

\* A read, with the lines it returns by name,
LEMMA ReadIs ==
  ASSUME NEW cut \in BOOLEAN, Read(cut)
  PROVE  /\ lines = <<>> /\ ~Done /\ ~(failed /\ api = "responses")
         /\ chunk' = <<>>
         /\ torn' = IF cut THEN <<Last(chunk)>> ELSE <<>>
         /\ lost' = IF cut THEN lost \cup {Last(chunk).n} ELSE lost
         /\ failed' = (failed \/ \E p \in DOMAIN WholeOf(cut) : WholeOf(cut)[p].k = "fail")
         /\ tokens' = CountTokens(WholeOf(cut))
         /\ accum' = IF api = "messages" THEN accum \o Counted(WholeOf(cut)) ELSE accum
         /\ lines' = IF failed' THEN <<>> ELSE LinesOf(WholeOf(cut))
         /\ UNCHANGED <<provided, sent, answer, holding, heldText, out, logs>>
BY DEF Read, WholeOf, LinesOf

\* which are lines again,
LEMMA LinesOfType ==
  ASSUME NEW whole \in Seq(Line), torn \o whole \in Seq(Line)
  PROVE  LinesOf(whole) \in Seq(Line)
<1> DEFINE j == torn \o whole
<1>1. j \in Seq(Line)
  OBVIOUS
<1> HIDE DEF j
<1>2. Rewritten(whole) \in Seq(Line) /\ Rewritten(j) \in Seq(Line)
  BY <1>1, RewrittenType
<1> QED
  BY <1>1, <1>2 DEF LinesOf, j

\* keeps the types.
LEMMA TInvRead ==
  ASSUME TInv, NEW cut \in BOOLEAN, cut => chunk # <<>>, Read(cut)
  PROVE  TInv'
<1> DEFINE w == WholeOf(cut)
<1>1. /\ w \in Seq(Line) /\ (cut => Last(chunk) \in Line) /\ torn \o w \in Seq(Line)
  BY WholeIs DEF WholeOf
<1>2. /\ chunk' = <<>>
      /\ torn' = IF cut THEN <<Last(chunk)>> ELSE <<>>
      /\ lost' = IF cut THEN lost \cup {Last(chunk).n} ELSE lost
      /\ failed' = (failed \/ \E p \in DOMAIN w : w[p].k = "fail")
      /\ tokens' = CountTokens(w)
      /\ accum' = IF api = "messages" THEN accum \o Counted(w) ELSE accum
      /\ lines' = IF failed' THEN <<>> ELSE LinesOf(w)
      /\ UNCHANGED <<provided, sent, answer, holding, heldText, out, logs>>
  BY ReadIs
<1> HIDE DEF w
<1>3. chunk' \in Seq(Line) /\ Len(chunk') <= MaxInRead
  BY <1>2, EmptySeq, BoundsAssumption
<1>4. torn' \in Seq(Line) /\ Len(torn') <= 1
  <2>1. CASE cut
    <3> DEFINE x == Last(chunk)
    <3>1. x \in Line /\ torn' = <<x>>
      BY <1>1, <1>2, <2>1
    <3> HIDE DEF x
    <3> QED
      BY <3>1
  <2>2. CASE ~cut
    BY <1>2, <2>2, EmptySeq
  <2> QED
    BY <2>1, <2>2
<1>5. lost' \in SUBSET Pos
  BY <1>1, <1>2 DEF TInv, Line
<1>6. tokens' \in 0 .. MaxLines
  <2>1. TokensOf(w) \in 0 .. MaxLines /\ tokens \in 0 .. MaxLines
    BY <1>1, TokensOfIs DEF TInv
  <2> QED
    BY <1>2, <2>1 DEF CountTokens
<1>7. accum' \in Seq(Pos)
  <2>1. Counted(w) \in Seq(Pos) /\ accum \in Seq(Pos)
    BY <1>1, CountedType DEF TInv
  <2>2. accum \o Counted(w) \in Seq(Pos)
    BY <2>1, ConcatProperties
  <2> QED
    BY <1>2, <2>1, <2>2
<1>8. lines' \in Seq(Line)
  BY <1>1, <1>2, LinesOfType, EmptySeq
<1>9. failed' \in BOOLEAN
  <2>1. failed \in BOOLEAN
    BY DEF TInv
  <2> QED
    BY <1>2, <2>1
<1> QED
  BY <1>2, <1>3, <1>4, <1>5, <1>6, <1>7, <1>8, <1>9 DEF TInv, provided, answer

\* The leaked calls of a text are positions of it where a call leaked.
LEMMA LeakedInType ==
  ASSUME NEW D, NEW text \in Seq(D)
  PROVE  LeakedIn(text) \in Seq({n \in D : sent[n].k = "leak"})
<1> DEFINE L == {n \in D : sent[n].k = "leak"}
           g == [p \in DOMAIN text |-> IF sent[text[p]].k = "leak" THEN <<text[p]>> ELSE <<>>]
           n == Len(text)
<1>1. n \in Nat /\ DOMAIN text = 1..n
  BY LenProperties
<1>2. ASSUME NEW p \in 1..n
      PROVE  (IF sent[text[p]].k = "leak" THEN <<text[p]>> ELSE <<>>) \in Seq(L)
  <2> DEFINE x == text[p]
  <2>1. x \in D
    BY ElementOfSeq
  <2>2. CASE sent[x].k = "leak"
    <3>1. x \in L
      BY <2>1, <2>2
    <3> HIDE DEF x, L
    <3>2. <<x>> \in Seq(L)
      BY <3>1
    <3> QED
      BY <2>2, <3>2 DEF x
  <2>3. CASE sent[x].k # "leak"
    BY <2>3, EmptySeq
  <2> QED
    BY <2>2, <2>3
<1>3. LeakedIn(text) = FlattenSeq(g)
  BY DEF LeakedIn
<1> HIDE DEF L
<1>4. g \in [1..n -> Seq(L)]
  BY <1>1, <1>2
<1> HIDE DEF g, n
<1>5. g \in Seq(Seq(L))
  BY <1>1, <1>4, IsSeqOf
<1>6. FlattenSeq(g) \in Seq(L)
  BY <1>5, FlattenType
<1> QED
  BY <1>3, <1>6 DEF L

EndLeaks == IF holding THEN LeakedIn(heldText) ELSE <<>>

\* The end closes what is open, after the held text or the leaked calls,
LEMMA EndItemsIs ==
  ASSUME TInv
  PROVE  /\ EndLeaks \in Seq(Pos)
         /\ FoldLeft(LeakedItem, Now, EndLeaks) \in Work
         /\ EndItems = CloseItem(IF EndLeaks # <<>> THEN FoldLeft(LeakedItem, Now, EndLeaks)
                                 ELSE Flushed)
         /\ EndItems \in Work /\ EndItems.cur = NoItem
<1>1. EndLeaks \in Seq(Pos)
  <2> DEFINE L == {n \in Pos : sent[n].k = "leak"}
  <2>1. heldText \in Seq(Pos)
    BY DEF TInv
  <2>2. LeakedIn(heldText) \in Seq(L)
    BY <2>1, LeakedInType
  <2>3. L \subseteq Pos
    OBVIOUS
  <2> HIDE DEF L
  <2>4. LeakedIn(heldText) \in Seq(Pos)
    BY <2>2, <2>3, SeqMonotonic
  <2> QED
    BY <2>4, EmptySeq DEF EndLeaks
<1>2. FoldLeft(LeakedItem, Now, EndLeaks) \in Work
  <2> DEFINE d == Now
             h == EndLeaks
  <2>1. d \in Work /\ h \in Seq(Pos)
    BY <1>1, NowIs
  <2>2. \A s \in Work, x \in Pos : LeakedItem(s, x) \in Work /\ LeakedItem(s, x) \in Work
    BY LeakedItemIs
  <2> HIDE DEF d, h
  <2>3. FoldLeft(LeakedItem, d, h) \in Work
    BY <2>1, <2>2, LeakedFold
  <2> QED
    BY <2>3 DEF d, h
<1> DEFINE s == IF EndLeaks # <<>> THEN FoldLeft(LeakedItem, Now, EndLeaks) ELSE Flushed
<1>3. EndItems = CloseItem(s)
  BY DEF EndItems, EndLeaks, Flushed
<1>4. s \in Work
  BY <1>2, FlushedType
<1> HIDE DEF s
<1>5. CloseItem(s) \in Work /\ CloseItem(s).cur = NoItem
  BY <1>4, CloseItemIs
<1> QED
  BY <1>1, <1>2, <1>3, <1>5 DEF s

Status == IF finish = "length" THEN "incomplete" ELSE "completed"
Ending == Event(Status, "none", Len(EndItems.items), <<>>)
EndWork == [EndItems EXCEPT !.ev = @ \o <<Ending, Bare("done")>>]

\* and announces the end of the response.
LEMMA EndWorkIs ==
  ASSUME TInv
  PROVE  /\ EndWork \in Work /\ Ending \in Events /\ Bare("done") \in Events
         /\ Ending.e \in {"completed", "incomplete"} /\ Ending.i = Len(EndItems.items)
         /\ EndWork.ev = Append(Append(EndItems.ev, Ending), Bare("done"))
         /\ EndWork.cur = NoItem /\ EndWork.items = EndItems.items
<1>1. EndItems \in Work /\ EndItems.cur = NoItem
  BY EndItemsIs
<1>2. /\ Ending \in Events /\ Ending.e \in {"completed", "incomplete"}
      /\ Ending.i = Len(EndItems.items)
  <2>1. Len(EndItems.items) \in Nat
    BY <1>1, WorkFields
  <2> DEFINE c == <<>>
             n == Len(EndItems.items)
  <2>2. /\ c \in Seq(Pos) /\ "none" \in Marks /\ Status \in Names
        /\ Status \in {"completed", "incomplete"} /\ n \in Nat
    BY <2>1, EmptySeq DEF Marks, Names, Status
  <2>3. Ending = Event(Status, "none", n, c)
    BY DEF Ending
  <2> HIDE DEF c, n
  <2>4. Event(Status, "none", n, c) \in Events /\ Event(Status, "none", n, c).e = Status
        /\ Event(Status, "none", n, c).i = n
    BY <2>2, EventIs
  <2> QED
    BY <2>2, <2>3, <2>4 DEF n
<1>3. Bare("done") \in Events
  BY BareIs DEF Names
<1> DEFINE s == EndItems
           x == Ending
           y == Bare("done")
<1>4. EndWork = [s EXCEPT !.ev = @ \o <<x, y>>]
  BY DEF EndWork
<1>5. s \in Work /\ s.ev \in Seq(Events) /\ x \in Events /\ y \in Events
  BY <1>1, <1>2, <1>3, WorkFields
<1> HIDE DEF s, x, y
<1>6. s.ev \o <<x, y>> = Append(Append(s.ev, x), y)
  BY <1>5
<1>7. Append(Append(s.ev, x), y) \in Seq(Events)
  BY <1>5, AppendProperties
<1>8. EndWork \in Work /\ EndWork.ev = s.ev \o <<x, y>> /\ EndWork.cur = s.cur
      /\ EndWork.items = s.items
  BY <1>4, <1>5, <1>6, <1>7 DEF Work
<1> QED
  BY <1>1, <1>2, <1>3, <1>6, <1>8 DEF s, x, y

\* A row of the log,
LEMMA LogIs ==
  ASSUME TInv, ~Done, NEW error \in BOOLEAN, NEW n \in Nat, Log(error, n)
  PROVE  /\ logs' = <<[error |-> error, tokens |-> n]>>
         /\ logs' \in Seq([error : BOOLEAN, tokens : Nat]) /\ Len(logs') = 1
         /\ logs'[1].error = error /\ logs'[1].tokens = n
<1> DEFINE r == [error |-> error, tokens |-> n]
<1>1. r \in [error : BOOLEAN, tokens : Nat] /\ r.error = error /\ r.tokens = n
  OBVIOUS
<1>2. logs = <<>>
  BY DEF Done
<1>3. logs' = Append(logs, r)
  BY DEF Log
<1> HIDE DEF r
<1>4. logs' = <<r>>
  BY <1>2, <1>3
<1>5. <<r>> \in Seq([error : BOOLEAN, tokens : Nat]) /\ Len(<<r>>) = 1 /\ <<r>>[1] = r
  BY <1>1
<1> QED
  BY <1>1, <1>4, <1>5 DEF r

\* of a refusal
LEMMA RefuseIs ==
  ASSUME TInv, ~Done, Refuse
  PROVE  /\ wire' = Append(wire, Bare("error")) /\ wire' \in Seq(Events)
         /\ logs' \in Seq([error : BOOLEAN, tokens : Nat]) /\ Len(logs') = 1
         /\ logs'[1].error = TRUE
         /\ UNCHANGED <<started, pending, current, items, finish, holding, heldText, accum>>
         /\ status' = (IF status = "none" THEN "error" ELSE status) /\ pinged' = pinged
<1>1. Bare("error") \in Events
  BY BareIs DEF Names
<1>2. Append(wire, Bare("error")) \in Seq(Events)
  BY <1>1, AppendProperties DEF TInv
<1>3. Log(TRUE, 0) /\ TRUE \in BOOLEAN /\ 0 \in Nat
  BY DEF Refuse
<1> QED
  BY <1>2, <1>3, LogIs DEF Refuse

\* or of an answer.
LEMMA CompleteIs ==
  ASSUME TInv, ~Done, Complete
  PROVE  /\ Emit(EndWork, TRUE) /\ EndWork \in Work
         /\ accum' = (IF holding /\ LeakedIn(heldText) # <<>> THEN LeakedIn(heldText) ELSE accum)
         /\ accum' \in Seq(Pos)
         /\ logs' \in Seq([error : BOOLEAN, tokens : Nat]) /\ Len(logs') = 1
         /\ logs'[1].error = FALSE
         /\ logs'[1].tokens = IF tokens > 0 THEN tokens ELSE Len(accum')
         /\ heldText' = <<>> /\ holding' = FALSE /\ finish' = finish
<1>1. /\ Emit(EndWork, TRUE)
      /\ accum' = (IF holding /\ LeakedIn(heldText) # <<>> THEN LeakedIn(heldText) ELSE accum)
      /\ Log(FALSE, Charge(accum')) /\ heldText' = <<>> /\ holding' = FALSE /\ finish' = finish
  BY DEF Complete, EndWork, Ending, Status
<1>2. accum' \in Seq(Pos)
  <2>1. holding => LeakedIn(heldText) \in Seq(Pos)
    BY EndItemsIs DEF EndLeaks
  <2>2. accum \in Seq(Pos)
    BY DEF TInv
  <2> QED
    BY <1>1, <2>1, <2>2
<1>3. Charge(accum') \in Nat
  <2>1. Len(accum') \in Nat /\ tokens \in 0 .. MaxLines
    BY <1>2, LenProperties DEF TInv
  <2> QED
    BY <2>1, BoundsAssumption DEF Charge
<1>4. FALSE \in BOOLEAN
  OBVIOUS
<1> DEFINE n == Charge(accum')
<1>5. n \in Nat /\ Log(FALSE, n) /\ n = IF tokens > 0 THEN tokens ELSE Len(accum')
  BY <1>1, <1>3 DEF Charge
<1> HIDE DEF n
<1> QED
  BY <1>1, <1>2, <1>4, <1>5, LogIs, EndWorkIs

\* The Responses handler ends with one of the two
LEMMA EndResponsesIs ==
  ASSUME EndResponses
  PROVE  /\ api = "responses" /\ ~Done /\ lines = <<>> /\ (chunk = <<>> \/ failed)
         /\ failed \/ sent = <<>> => Refuse
         /\ ~(failed \/ sent = <<>>) => Complete
         /\ UNCHANGED <<provided, upstream, reading, lines, out>>
BY DEF EndResponses, Ended

\* and keeps the types.
LEMMA TInvEndResponses ==
  ASSUME TInv, EndResponses
  PROVE  TInv'
<1>1. /\ ~Done /\ (Refuse \/ Complete)
      /\ UNCHANGED <<provided, upstream, reading, lines, out>>
  BY EndResponsesIs
<1>2. lines' \in Seq(Line) /\ out' \in Seq(Events) /\ TRUE \in BOOLEAN /\ <<>> \in Seq(Pos)
  BY <1>1, EmptySeq DEF TInv
<1>3. CASE Refuse
  <2>1. /\ wire' \in Seq(Events)
        /\ logs' \in Seq([error : BOOLEAN, tokens : Nat]) /\ Len(logs') = 1
        /\ UNCHANGED <<started, pending, current, items, finish, holding, heldText, accum>>
    BY <1>1, <1>3, RefuseIs
  <2>2. /\ started' \in BOOLEAN /\ pending' \in Seq(Events) /\ current' \in Item
        /\ items' \in Seq(Item) /\ finish' \in Ends \cup {""} /\ holding' \in BOOLEAN
        /\ heldText' \in Seq(Pos) /\ accum' \in Seq(Pos) /\ Len(logs') <= 1
    <3>1. Len(logs') <= 1
      BY <2>1
    <3>2. /\ started' = started /\ pending' = pending /\ current' = current /\ items' = items
          /\ finish' = finish /\ holding' = holding /\ heldText' = heldText /\ accum' = accum
      BY <2>1
    <3> QED
      BY <3>1, <3>2 DEF TInv
  <2> QED
    BY <1>1, <1>2, <2>1, <2>2, TInvAnswer
<1>4. CASE Complete
  <2>1. /\ Emit(EndWork, TRUE) /\ EndWork \in Work /\ accum' \in Seq(Pos)
        /\ logs' \in Seq([error : BOOLEAN, tokens : Nat]) /\ Len(logs') = 1
        /\ heldText' = <<>> /\ holding' = FALSE /\ finish' = finish
    BY <1>1, <1>4, CompleteIs
  <2>2. /\ started' \in BOOLEAN /\ pending' \in Seq(Events) /\ wire' \in Seq(Events)
        /\ current' \in Item /\ items' \in Seq(Item)
    <3> DEFINE s == EndWork
    <3>1. Emit(s, TRUE) /\ s \in Work
      BY <2>1
    <3> HIDE DEF s
    <3>2. /\ started' = TRUE /\ pending' \in Seq(Events) /\ wire' \in Seq(Events)
          /\ current' = s.cur /\ items' = s.items
      BY <1>2, <3>1, EmitIs
    <3>3. current' \in Item /\ items' \in Seq(Item)
      BY <3>1, <3>2, WorkFields
    <3>4. started' \in BOOLEAN
      BY <3>2
    <3> QED
      BY <3>2, <3>3, <3>4
  <2>3. /\ finish' \in Ends \cup {""} /\ heldText' \in Seq(Pos) /\ holding' \in BOOLEAN
        /\ started' \in BOOLEAN /\ Len(logs') <= 1
    <3>1. finish \in Ends \cup {""}
      BY DEF TInv
    <3>2. Len(logs') <= 1
      BY <2>1
    <3>4. holding' \in BOOLEAN
      BY <2>1
    <3>3. heldText' \in Seq(Pos)
      BY <1>2, <2>1
    <3> QED
      BY <2>1, <2>2, <3>1, <3>2, <3>3, <3>4
  <2> QED
    BY <1>1, <1>2, <2>1, <2>2, <2>3, TInvAnswer
<1> QED
  BY <1>1, <1>3, <1>4

\* The blocks of a Messages stream.
LEMMA StartIs ==
  ASSUME NEW o \in Seq(Events)
  PROVE  /\ EnsureStarted(o) \in Seq(Events)
         /\ Has("start", o) => EnsureStarted(o) = o
         /\ ~Has("start", o) => EnsureStarted(o) =
              Append(Append(o, Bare("start")), Event("open", "text", 0, <<>>))
<1> DEFINE x == Bare("start")
           y == Event("open", "text", 0, <<>>)
<1>1. x \in Events
  BY BareIs DEF Names
<1>2. y \in Events
  <2> DEFINE c == <<>>
  <2>1. c \in Seq(Pos) /\ "text" \in Marks /\ "open" \in Names /\ 0 \in Nat
    BY EmptySeq DEF Marks, Names
  <2> HIDE DEF c
  <2>2. Event("open", "text", 0, c) \in Events
    BY <2>1, EventIs
  <2> QED
    BY <2>2 DEF c
<1>3. EnsureStarted(o) = IF Has("start", o) THEN o ELSE o \o <<x, y>>
  BY DEF EnsureStarted
<1> HIDE DEF x, y
<1>4. o \o <<x, y>> = Append(Append(o, x), y)
  BY <1>1, <1>2
<1>5. Append(Append(o, x), y) \in Seq(Events)
  BY <1>1, <1>2, AppendProperties
<1> QED
  BY <1>3, <1>4, <1>5 DEF x, y

TextEnd == Event("close", "text", 0, <<>>)

\* The end of a message is written once.
LEMMA FinishIs ==
  ASSUME NEW o \in Seq(Events)
  PROVE  /\ WriteFinish(o) \in Seq(Events)
         /\ Has("stop", o) => WriteFinish(o) = o
         /\ ~Has("stop", o) => WriteFinish(o) =
              Append(Append(Append(EnsureStarted(o), TextEnd), Bare("reason")), Bare("stop"))
         /\ TextEnd \in Events /\ TextEnd.e = "close" /\ TextEnd.k = "text"
         /\ TextEnd.i = 0 /\ TextEnd.c = <<>>
<1> DEFINE x == TextEnd
           y == Bare("reason")
           z == Bare("stop")
           s == EnsureStarted(o)
<1>1. y \in Events /\ z \in Events /\ s \in Seq(Events)
  BY BareIs, StartIs DEF Names
<1>2. x \in Events /\ x.e = "close" /\ x.k = "text" /\ x.i = 0 /\ x.c = <<>>
  <2> DEFINE c == <<>>
  <2>1. c \in Seq(Pos) /\ "text" \in Marks /\ "close" \in Names /\ 0 \in Nat
    BY EmptySeq DEF Marks, Names
  <2>2. x = Event("close", "text", 0, c)
    BY DEF TextEnd
  <2> HIDE DEF c, x
  <2>3. x \in Events /\ x.e = "close" /\ x.k = "text" /\ x.i = 0 /\ x.c = c
    BY <2>1, <2>2, EventIs
  <2> QED
    BY <2>3 DEF c
<1>3. WriteFinish(o) = IF Has("stop", o) THEN o ELSE s \o <<x, y, z>>
  BY DEF WriteFinish, TextEnd
<1> HIDE DEF x, y, z, s
<1>4. s \o <<x, y, z>> = Append(Append(Append(s, x), y), z)
  BY <1>1, <1>2
<1>5. Append(Append(Append(s, x), y), z) \in Seq(Events)
  BY <1>1, <1>2, AppendProperties
<1> QED
  BY <1>2, <1>3, <1>4, <1>5 DEF x, y, z, s

\* A call's block and its arguments.
ToolOpen(i) == Event("open", "tool_use", i, <<>>)
ToolDelta(l) == Event("delta", "tool_use", l.i, <<l.n>>)

\* The events of a tool block,
LEMMA ToolEvents ==
  ASSUME NEW l \in Line
  PROVE  /\ ToolOpen(l.i) \in Events /\ ToolOpen(l.i).e = "open" /\ ToolOpen(l.i).k = "tool_use"
         /\ ToolOpen(l.i).i = l.i /\ ToolOpen(l.i).c = <<>>
         /\ ToolDelta(l) \in Events /\ ToolDelta(l).e = "delta" /\ ToolDelta(l).k = "tool_use"
         /\ ToolDelta(l).i = l.i /\ ToolDelta(l).c = <<l.n>>
<1> DEFINE c == <<>>
           d == <<l.n>>
           i == l.i
<1>1. c \in Seq(Pos) /\ d \in Seq(Pos) /\ i \in Nat
      /\ "tool_use" \in Marks /\ "open" \in Names /\ "delta" \in Names
  BY LineFields, EmptySeq DEF Marks, Names
<1>2. /\ ToolOpen(i) = Event("open", "tool_use", i, c)
      /\ ToolDelta(l) = Event("delta", "tool_use", i, d)
  BY DEF ToolOpen, ToolDelta
<1> HIDE DEF c, d, i
<1>3. /\ ToolOpen(i) \in Events /\ ToolOpen(i).e = "open" /\ ToolOpen(i).k = "tool_use"
      /\ ToolOpen(i).i = i /\ ToolOpen(i).c = c
  BY <1>1, <1>2, EventIs
<1>4. /\ ToolDelta(l) \in Events /\ ToolDelta(l).e = "delta" /\ ToolDelta(l).k = "tool_use"
      /\ ToolDelta(l).i = i /\ ToolDelta(l).c = d
  BY <1>1, <1>2, EventIs
<1> QED
  BY <1>3, <1>4 DEF c, d, i

\* the arguments a delta brings,
LEMMA CallDeltaIs ==
  ASSUME NEW o \in Seq(Events), NEW l \in Line
  PROVE  /\ HasArguments(l) => o \o CallDelta(l) = Append(o, ToolDelta(l))
         /\ ~HasArguments(l) => o \o CallDelta(l) = o
         /\ o \o CallDelta(l) \in Seq(Events)
<1> DEFINE x == ToolDelta(l)
<1>1. x \in Events
  BY ToolEvents
<1>2. CallDelta(l) = IF HasArguments(l) THEN <<x>> ELSE <<>>
  BY DEF CallDelta, ToolDelta
<1> HIDE DEF x
<1>3. o \o <<x>> = Append(o, x) /\ o \o <<>> = o /\ Append(o, x) \in Seq(Events)
  BY <1>1, ConcatEmptySeq, AppendProperties
<1> QED
  BY <1>2, <1>3 DEF x

\* and the three cases of a call's delta.
LEMMA WriteCallIs ==
  ASSUME NEW o \in Seq(Events), NEW l \in Line
  PROVE  /\ WriteCall(o, l) \in Seq(Events)
         /\ Append(EnsureStarted(o), ToolOpen(l.i)) \in Seq(Events)
         /\ l.k \in CallKind /\ ~ToolStarted(l.i) =>
              WriteCall(o, l) = Append(EnsureStarted(o), ToolOpen(l.i)) \o CallDelta(l)
         /\ ToolStarted(l.i) => WriteCall(o, l) = o \o CallDelta(l)
         /\ l.k \notin CallKind /\ ~ToolStarted(l.i) => WriteCall(o, l) = o
<1> DEFINE s == EnsureStarted(o)
           x == ToolOpen(l.i)
<1>1. s \in Seq(Events) /\ x \in Events
  BY StartIs, ToolEvents
<1>2. WriteCall(o, l) =
        IF l.k \in CallKind /\ ~ToolStarted(l.i) THEN s \o <<x>> \o CallDelta(l)
        ELSE IF ToolStarted(l.i) THEN o \o CallDelta(l) ELSE o
  BY DEF WriteCall, ToolOpen
<1> HIDE DEF s, x
<1>3. s \o <<x>> = Append(s, x) /\ Append(s, x) \in Seq(Events)
  BY <1>1, AppendProperties
<1> DEFINE a == Append(s, x)
<1>4. a \in Seq(Events)
  BY <1>3
<1> HIDE DEF a
<1>5. a \o CallDelta(l) \in Seq(Events) /\ o \o CallDelta(l) \in Seq(Events)
  BY <1>4, CallDeltaIs
<1>6. WriteCall(o, l) =
        IF l.k \in CallKind /\ ~ToolStarted(l.i) THEN a \o CallDelta(l)
        ELSE IF ToolStarted(l.i) THEN o \o CallDelta(l) ELSE o
  BY <1>2, <1>3 DEF a
<1> QED
  BY <1>3, <1>5, <1>6 DEF a, s, x

RawOf(l) == Event("raw", l.k, l.i, <<l.n>>)
TextOf(l) == Event("delta", "text", 0, <<l.n>>)

\* The events of a line of text or of a line passed through.
LEMMA LineEvents ==
  ASSUME NEW l \in Line
  PROVE  /\ RawOf(l) \in Events /\ RawOf(l).e = "raw" /\ RawOf(l).c = <<l.n>>
         /\ RawOf(l).i \in Nat
         /\ TextOf(l) \in Events /\ TextOf(l).e = "delta" /\ TextOf(l).k = "text"
         /\ TextOf(l).i = 0 /\ TextOf(l).c = <<l.n>>
<1> DEFINE d == <<l.n>>
           i == l.i
           k == l.k
<1>1. d \in Seq(Pos) /\ i \in Nat /\ k \in Marks /\ 0 \in Nat
      /\ "text" \in Marks /\ "raw" \in Names /\ "delta" \in Names
  BY LineFields DEF Marks, Names
<1>2. RawOf(l) = Event("raw", k, i, d) /\ TextOf(l) = Event("delta", "text", 0, d)
  BY DEF RawOf, TextOf
<1> HIDE DEF d, i, k
<1>3. RawOf(l) \in Events /\ RawOf(l).e = "raw" /\ RawOf(l).c = d /\ RawOf(l).i = i
  BY <1>1, <1>2, EventIs
<1>4. /\ TextOf(l) \in Events /\ TextOf(l).e = "delta" /\ TextOf(l).k = "text"
      /\ TextOf(l).i = 0 /\ TextOf(l).c = d
  BY <1>1, <1>2, EventIs
<1> QED
  BY <1>1, <1>3, <1>4 DEF d

\* What the translation of a line writes, kind by kind.
LEMMA TranslateIs ==
  ASSUME NEW o \in Seq(Events), NEW l \in Line
  PROVE  /\ provider = "anthropic" => Translate(o, l) = Append(o, RawOf(l))
         /\ provider # "anthropic" =>
              /\ l.k \in Content => Translate(o, l) = Append(EnsureStarted(o), TextOf(l))
              /\ l.k \in Ends \cup {"done"} => Translate(o, l) = WriteFinish(o)
              /\ l.k = "usage" => Translate(o, l) = o
              /\ l.k = "role" => Translate(o, l) =
                    IF provider = "openai" THEN EnsureStarted(o) ELSE o
              /\ l.k \in ToolKind => Translate(o, l) =
                    IF provider = "openai" THEN WriteCall(o, l) ELSE o
         /\ Translate(o, l) \in Seq(Events)
<1>1. l.k \in LineKinds
  BY LineFields
<1>2. provider = "anthropic" => Translate(o, l) = Append(o, RawOf(l))
  BY DEF Translate, RawOf
<1>3. provider # "anthropic" =>
              /\ l.k \in Content => Translate(o, l) = Append(EnsureStarted(o), TextOf(l))
              /\ l.k \in Ends \cup {"done"} => Translate(o, l) = WriteFinish(o)
              /\ l.k = "usage" => Translate(o, l) = o
              /\ l.k = "role" => Translate(o, l) =
                    IF provider = "openai" THEN EnsureStarted(o) ELSE o
              /\ l.k \in ToolKind => Translate(o, l) =
                    IF provider = "openai" THEN WriteCall(o, l) ELSE o
  BY DEF Translate, TextOf, Content, Ends, ToolKind
<1> DEFINE s == EnsureStarted(o)
<1>4. s \in Seq(Events) /\ WriteFinish(o) \in Seq(Events) /\ WriteCall(o, l) \in Seq(Events)
      /\ RawOf(l) \in Events /\ TextOf(l) \in Events
  BY StartIs, FinishIs, WriteCallIs, LineEvents
<1> HIDE DEF s
<1>5. Append(o, RawOf(l)) \in Seq(Events) /\ Append(s, TextOf(l)) \in Seq(Events)
  BY <1>4, AppendProperties
<1>6. CASE provider = "anthropic"
  BY <1>2, <1>3, <1>5, <1>6
<1>7. CASE provider # "anthropic"
  <2>1. Translate(o, l) \in Seq(Events)
    BY <1>1, <1>3, <1>4, <1>5, <1>7 DEF LineKinds, s
  <2> QED
    BY <1>3, <1>7, <2>1
<1> QED
  BY <1>6, <1>7

\* A line of the Messages handler keeps the types,
LEMMA TInvMessagesLine ==
  ASSUME TInv, MessagesLine
  PROVE  TInv'
<1>1. /\ lines \in Seq(Line) /\ lines # <<>> /\ lines' = Tail(lines)
      /\ out \in Seq(Events) /\ out' = Translate(out, Head(lines))
      /\ UNCHANGED <<provided, upstream, reading, answer, holding, heldText, accum, logs>>
  BY DEF MessagesLine, TInv
<1>2. Head(lines) \in Line /\ lines' \in Seq(Line)
  BY <1>1, HeadTail
<1>3. out' \in Seq(Events)
  BY <1>1, <1>2, TranslateIs
<1> QED
  BY <1>1, <1>2, <1>3 DEF TInv, provided, upstream, reading, answer

\* The half of a line is a list of events without content;
LEMMA HalfIs ==
  ASSUME TInv
  PROVE  Half \in Seq(Events) /\ \A p \in DOMAIN Half : Half[p] = Bare("half")
<1> DEFINE x == Bare("half")
           f == [p \in 1 .. Len(torn) |-> x]
<1>1. x \in Events
  BY BareIs DEF Names
<1>2. Len(torn) \in Nat /\ DOMAIN torn = 1 .. Len(torn)
  BY LenProperties DEF TInv
<1> HIDE DEF x
<1>3. f \in Seq(Events) /\ \A p \in DOMAIN f : f[p] = x
  BY <1>1, <1>2, IsSeqOf
<1>4. Half = IF PassedThrough THEN f ELSE <<>>
  BY <1>2 DEF Half, x
<1> HIDE DEF f
<1> QED
  BY <1>3, <1>4, EmptySeq DEF x

\* the end of the Messages handler refuses or writes all that was collected
LEMMA EndMessagesIs ==
  ASSUME TInv, EndMessages
  PROVE  /\ api = "messages" /\ ~Done /\ lines = <<>> /\ chunk = <<>>
         /\ UNCHANGED <<provided, upstream, reading, lines, out>>
         /\ UNCHANGED <<started, pending, current, items, finish, holding, heldText, accum>>
         /\ wire' \in Seq(Events)
         /\ logs' \in Seq([error : BOOLEAN, tokens : Nat]) /\ Len(logs') = 1
         /\ failed \/ out \o Half = <<>> =>
              /\ wire' = Append(wire, Bare("error")) /\ logs'[1].error = TRUE
              /\ status' = (IF status = "none" THEN "error" ELSE status)
         /\ ~(failed \/ out \o Half = <<>>) =>
              /\ wire' = wire \o out \o Half /\ logs'[1].error = FALSE
              /\ status' = "ok"
              /\ logs'[1].tokens = IF tokens > 0 THEN tokens ELSE Len(accum)
         /\ pinged' = pinged
<1>1. /\ api = "messages" /\ ~Done /\ lines = <<>> /\ chunk = <<>>
      /\ UNCHANGED <<provided, upstream, reading, lines, out>>
  BY DEF EndMessages, Ended
<1>2. CASE failed \/ out \o Half = <<>>
  <2>1. Refuse
    BY <1>2 DEF EndMessages
  <2> QED
    BY <1>1, <1>2, <2>1, RefuseIs
<1>3. CASE ~(failed \/ out \o Half = <<>>)
  <2> DEFINE n == Charge(accum)
  <2>1. /\ wire' = wire \o out \o Half /\ Log(FALSE, n) /\ status' = "ok" /\ pinged' = pinged
        /\ UNCHANGED <<started, pending, current, items, finish, holding, heldText, accum>>
    BY <1>3 DEF EndMessages
  <2>2. n \in Nat /\ n = IF tokens > 0 THEN tokens ELSE Len(accum)
    <3>1. Len(accum) \in Nat /\ tokens \in 0 .. MaxLines
      BY LenProperties DEF TInv
    <3> QED
      BY <3>1, BoundsAssumption DEF Charge
  <2>3. wire \o out \o Half \in Seq(Events)
    <3>1. wire \in Seq(Events) /\ out \in Seq(Events) /\ Half \in Seq(Events)
      BY HalfIs DEF TInv
    <3> HIDE DEF Half
    <3> QED
      BY <3>1, ConcatProperties
  <2>4. FALSE \in BOOLEAN
    OBVIOUS
  <2> HIDE DEF n
  <2>5. /\ logs' \in Seq([error : BOOLEAN, tokens : Nat]) /\ Len(logs') = 1
        /\ logs'[1].error = FALSE /\ logs'[1].tokens = n
    BY <1>1, <2>1, <2>2, <2>4, LogIs
  <2> QED
    BY <1>1, <1>3, <2>1, <2>2, <2>3, <2>5
<1> QED
  BY <1>2, <1>3

\* and keeps the types.
LEMMA TInvEndMessages ==
  ASSUME TInv, EndMessages
  PROVE  TInv'
<1>1. /\ UNCHANGED <<provided, upstream, reading, lines, out>>
      /\ UNCHANGED <<started, pending, current, items, finish, holding, heldText, accum>>
      /\ wire' \in Seq(Events)
      /\ logs' \in Seq([error : BOOLEAN, tokens : Nat]) /\ Len(logs') = 1
  BY EndMessagesIs
<1>2. Len(logs') <= 1
  BY <1>1
<1>3. lines' = lines /\ out' = out /\ started' = started /\ pending' = pending
      /\ current' = current /\ items' = items
      /\ finish' = finish /\ holding' = holding /\ heldText' = heldText /\ accum' = accum
  BY <1>1
<1> QED
  BY <1>1, <1>2, <1>3 DEF TInv, provided, upstream, reading

\* All but the head of the response.
Kept == <<provided, upstream, reading, started, pending, current, items, finish, wire,
          holding, heldText, lines, accum, out, logs>>

\* A step that keeps it, variable by variable;
LEMMA KeptSame ==
  ASSUME UNCHANGED Kept
  PROVE  /\ api' = api /\ provider' = provider /\ holding' = holding /\ sent' = sent
         /\ chunk' = chunk /\ torn' = torn /\ lost' = lost /\ lines' = lines
         /\ failed' = failed /\ tokens' = tokens /\ accum' = accum /\ started' = started
         /\ pending' = pending /\ current' = current /\ items' = items
         /\ heldText' = heldText /\ finish' = finish /\ out' = out /\ wire' = wire
         /\ logs' = logs
BY DEF Kept, provided, upstream, reading

\* a keepalive comment and a step that changes nothing are such steps.
LEMMA Keeps ==
  ASSUME Ping \/ UNCHANGED vars
  PROVE  UNCHANGED Kept
BY DEF Ping, Kept, vars, answer

\* The types hold at first
LEMMA TInvInit == Init => TInv
<1> SUFFICES ASSUME Init PROVE TInv
  OBVIOUS
<1>1. Bare("created") \in Events
  BY BareIs DEF Names
<1>2. <<Bare("created")>> \in Seq(Events)
  <2> DEFINE x == Bare("created")
  <2>1. x \in Events
    BY <1>1
  <2> HIDE DEF x
  <2>2. <<x>> \in Seq(Events)
    BY <2>1
  <2> QED
    BY <2>2 DEF x
<1>3. pending \in Seq(Events)
  BY <1>2, EmptySeq DEF Init
<1>4. /\ api \in {"responses", "messages"} /\ provider \in Providers
      /\ finish \in Ends \cup {""} /\ lost \in SUBSET Pos
  BY KindsIs DEF Init
<1>5. holding \in BOOLEAN /\ failed \in BOOLEAN /\ started \in BOOLEAN
  BY DEF Init
<1>6. /\ sent = <<>> /\ chunk = <<>> /\ torn = <<>> /\ lines = <<>> /\ accum = <<>>
      /\ wire = <<>> /\ out = <<>> /\ items = <<>> /\ heldText = <<>> /\ logs = <<>>
      /\ tokens = 0 /\ current = NoItem
  BY DEF Init
<1>7. MaxLines \in Nat /\ MaxInRead \in Nat
  BY BoundsAssumption
<1>8. sent \in Seq(Line) /\ chunk \in Seq(Line) /\ torn \in Seq(Line) /\ lines \in Seq(Line)
  BY <1>6, EmptySeq
<1>9. wire \in Seq(Events) /\ out \in Seq(Events)
  BY <1>6, EmptySeq
<1>10. items \in Seq(Item) /\ current \in Item
  BY <1>6, EmptySeq, NoItemIs
<1>11. accum \in Seq(Pos) /\ heldText \in Seq(Pos)
  BY <1>6, EmptySeq
<1>12. logs \in Seq([error : BOOLEAN, tokens : Nat])
  BY <1>6, EmptySeq
<1>13. Len(sent) <= MaxLines /\ Len(chunk) <= MaxInRead /\ Len(torn) <= 1 /\ Len(logs) <= 1
  <2>1. Len(sent) = 0 /\ Len(chunk) = 0 /\ Len(torn) = 0 /\ Len(logs) = 0
    BY <1>6
  <2> QED
    BY <1>7, <2>1
<1>14. tokens \in 0 .. MaxLines
  BY <1>6, <1>7
<1> QED
  BY <1>3, <1>4, <1>5, <1>8, <1>9, <1>10, <1>11, <1>12, <1>13, <1>14 DEF TInv

\* and are kept by every step.
LEMMA TInvNext == TInv /\ [Next]_vars => TInv'
<1> SUFFICES ASSUME TInv, [Next]_vars PROVE TInv'
  OBVIOUS
<1>2. CASE Ping \/ UNCHANGED vars
  BY <1>2, Keeps, KeptSame DEF TInv
<1>1. CASE Next
  BY <1>1, TInvArrive, TInvRead, TInvResponsesLine, TInvMessagesLine, TInvEndResponses,
     TInvEndMessages, <1>2 DEF Next
<1> QED
  BY <1>1, <1>2


-----------------------------------------------------------------------------
(* Where the lines are is kept.                                             *)

\* What Reading says, with the types.
LEMMA ReadFacts ==
  ASSUME TInv, Reading
  PROVE  /\ ReadTo \in Nat /\ ReadTo <= Len(sent) /\ Len(sent) \in Nat /\ Len(chunk) \in Nat
         /\ ReadTo + Len(chunk) = Len(sent)
         /\ DOMAIN sent = 1 .. Len(sent) /\ DOMAIN chunk = 1 .. Len(chunk)
         /\ DOMAIN lines = 1 .. Len(lines) /\ Len(lines) \in Nat
         /\ \A p \in 1 .. Len(sent) : sent[p] \in Line /\ sent[p].n = p /\ sent[p].k \in LineKinds
         /\ Fed \subseteq 1 .. ReadTo
         /\ Len(torn) \in {0, 1} /\ (Len(torn) = 0 <=> torn = <<>>)
<1>1. /\ Len(sent) \in Nat /\ DOMAIN sent = 1 .. Len(sent)
      /\ \A p \in DOMAIN sent : sent[p] \in Line /\ sent[p].k \in LineKinds
  BY SentFacts
<1>2. /\ chunk \in Seq(Line) /\ lines \in Seq(Line) /\ torn \in Seq(Line) /\ Len(torn) <= 1
  BY DEF TInv
<1>3. /\ Len(chunk) \in Nat /\ DOMAIN chunk = 1 .. Len(chunk)
      /\ DOMAIN lines = 1 .. Len(lines) /\ Len(lines) \in Nat /\ Len(torn) \in Nat
  BY <1>2, LenProperties
<1>4. Len(chunk) <= Len(sent)
  BY DEF Reading
<1>5. ReadTo \in Nat /\ ReadTo <= Len(sent) /\ ReadTo + Len(chunk) = Len(sent)
  BY <1>1, <1>3, <1>4 DEF ReadTo
<1>6. \A p \in DOMAIN sent : sent[p].n = p
  BY DEF Reading, InOrder
<1>7. Len(torn) \in {0, 1}
  <2>1. Len(torn) \in Nat /\ Len(torn) <= 1
    BY <1>2, <1>3
  <2> DEFINE n == Len(torn)
  <2> HIDE DEF n
  <2>2. n \in Nat /\ n <= 1
    BY <2>1 DEF n
  <2>3. n = 0 \/ n = 1
    BY <2>2
  <2> QED
    BY <2>3 DEF n
<1>8. Len(torn) = 0 <=> torn = <<>>
  BY <1>2, EmptySeq
<1>9. Fed \subseteq 1 .. ReadTo
  <2>1. CASE Converts
    BY <2>1 DEF Fed
  <2>2. CASE ~Converts
    <3>1. \A p \in 1 .. ReadTo - Len(torn) : p \in 1 .. ReadTo
      BY <1>5, <1>7
    <3> QED
      BY <2>2, <3>1 DEF Fed
  <2> QED
    BY <2>1, <2>2
<1> QED
  BY <1>1, <1>3, <1>5, <1>6, <1>7, <1>8, <1>9

\* The next line keeps the order.
LEMMA InOrderMore ==
  ASSUME TInv, InOrder(sent), NEW l, Arriving(l)
  PROVE  InOrder(Append(sent, l))
<1> DEFINE T == Append(sent, l)
           n == Len(sent)
           C == {q \in DOMAIN sent : sent[q].k \in CallKind}
           D == {q \in DOMAIN T : T[q].k \in CallKind}
<1>1. /\ l \in Line /\ l.k \in LineKinds /\ MayFollow(l.k) /\ l.n = n + 1
      /\ l.i = IF l.k \in CallKind THEN Calls ELSE IF l.k = "args" THEN Last(sent).i ELSE 0
  BY DEF Arriving, Line
<1>2. /\ n \in Nat /\ DOMAIN sent = 1 .. n /\ Calls \in Nat /\ IsFiniteSet(C)
      /\ \A p \in DOMAIN sent : sent[p].k \in LineKinds /\ sent[p].i \in Nat
  BY SentFacts
<1>3. DOMAIN T = 1 .. n + 1 /\ T[n + 1] = l /\ \A p \in 1 .. n : T[p] = sent[p]
  <2>1. sent \in Seq(Line)
    BY DEF TInv
  <2>2. /\ T \in Seq(Line) /\ Len(T) = n + 1 /\ T[n + 1] = l
        /\ \A p \in 1 .. n : T[p] = sent[p]
    BY <1>1, <2>1, AppendProperties
  <2> QED
    BY <2>2, LenProperties
<1>4. /\ \A p \in 1 .. n : sent[p].k \notin {"done", "fail"}
      /\ l.k = "role" => sent = <<>>
      /\ l.k = "args" => sent # <<>> /\ Last(sent).k \in ToolKind
      /\ l.k \in CallKind \cup Content \cup Ends => \A p \in 1 .. n : sent[p].k \notin Ends
      /\ l.k \in {"usage", "done"} => \E p \in 1 .. n : sent[p].k \in Ends
  <2>1. /\ SentKinds \cap {"done", "fail"} = {}
        /\ l.k = "role" => sent = <<>>
        /\ l.k = "args" => sent # <<>> /\ Last(sent).k \in ToolKind
        /\ l.k \in CallKind \cup Content \cup Ends => SentKinds \cap Ends = {}
        /\ l.k \in {"usage", "done"} => SentKinds \cap Ends # {}
    BY <1>1, MayFollowIs
  <2>2. \A p \in 1 .. n : sent[p].k \in SentKinds
    BY <1>2 DEF SentKinds
  <2>3. \A k \in SentKinds : \E p \in 1 .. n : sent[p].k = k
    BY <1>2 DEF SentKinds
  <2>4. \A p \in 1 .. n : sent[p].k \notin {"done", "fail"}
    <3>1. SentKinds \cap {"done", "fail"} = {}
      BY <2>1
    <3>2. \A k \in SentKinds : k \notin {"done", "fail"}
      BY <3>1
    <3> QED
      BY <2>2, <3>2
  <2>5. SentKinds \cap Ends = {} => \A p \in 1 .. n : sent[p].k \notin Ends
    BY <2>2
  <2>6. SentKinds \cap Ends # {} => \E p \in 1 .. n : sent[p].k \in Ends
    <3> SUFFICES ASSUME SentKinds \cap Ends # {} PROVE \E p \in 1 .. n : sent[p].k \in Ends
      OBVIOUS
    <3>1. PICK k \in SentKinds : k \in Ends
      OBVIOUS
    <3> QED
      BY <2>3, <3>1
  <2> QED
    BY ONLY <2>1, <2>4, <2>5, <2>6
<1>5. /\ \A p \in DOMAIN sent : sent[p].n = p
      /\ \A p \in 1 .. n : \A q \in 1 .. n : p < q =>
          /\ sent[p].k \notin {"done", "fail"}
          /\ sent[p].k \in Ends => sent[q].k \in {"usage", "done"}
      /\ \A q \in 1 .. n : sent[q].k = "done" => (\E p \in 1 .. n : p < q /\ sent[p].k \in Ends)
      /\ \A q \in 1 .. n : sent[q].k \in ToolKind =>
          \E p \in 1 .. n : p <= q /\ sent[p].k \in CallKind /\ sent[p].i = sent[q].i
      /\ \A p \in 1 .. n : \A q \in 1 .. n :
          sent[p].k \in CallKind /\ sent[q].k \in CallKind /\ sent[p].i = sent[q].i => p = q
      /\ \A p \in 1 .. n : sent[p].k \in CallKind => sent[p].i < Calls
  BY <1>2 DEF InOrder, Calls
<1>6. l.k = "args" => /\ n \in 1 .. n /\ sent[n].k \in ToolKind /\ l.i = sent[n].i
  <2> SUFFICES ASSUME l.k = "args" PROVE n \in 1 .. n /\ sent[n].k \in ToolKind /\ l.i = sent[n].i
    OBVIOUS
  <2>1. sent # <<>> /\ Last(sent).k \in ToolKind /\ l.i = Last(sent).i
    BY <1>1, <1>4 DEF CallKind
  <2>2. n # 0
    BY <2>1, EmptySeq DEF TInv
  <2>3. Last(sent) = sent[n]
    BY DEF Last
  <2> QED
    BY <1>2, <2>1, <2>2, <2>3
<1> HIDE DEF T, n, C, D
<1>7. ASSUME NEW p \in 1 .. n, sent[p].k \in Ends PROVE l.k \in {"usage", "done"}
  <2>1. l.k \notin CallKind \cup Content \cup Ends
    BY <1>4, <1>7
  <2>2. l.k # "role"
    <3>1. sent # <<>>
      BY <1>2, <1>7 DEF n
    <3> QED
      BY <1>4, <3>1
  <2>3. l.k # "args"
    <3> SUFFICES ASSUME l.k = "args" PROVE FALSE
      OBVIOUS
    <3>1. n \in 1 .. n /\ sent[n].k \in ToolKind
      BY <1>6
    <3>2. CASE p = n
      BY <1>7, <3>1, <3>2 DEF ToolKind, Ends
    <3>3. CASE p # n
      <4>1. p < n
        BY <1>2, <3>3
      <4>2. sent[n].k \in {"usage", "done"}
        BY <1>5, <1>7, <3>1, <4>1
      <4> QED
        BY <3>1, <4>2 DEF ToolKind
    <3> QED
      BY <3>2, <3>3
  <2> QED
    BY <1>1, <2>1, <2>2, <2>3 DEF LineKinds, CallKind, Content, ToolKind, Ends
<1>8. \A p \in DOMAIN T : T[p].n = p
  BY <1>1, <1>2, <1>3, <1>5
<1>9. ASSUME NEW p \in DOMAIN T, NEW q \in DOMAIN T, p < q
      PROVE  /\ T[p].k \notin {"done", "fail"}
             /\ T[p].k \in Ends => T[q].k \in {"usage", "done"}
  <2>1. p \in 1 .. n /\ T[p] = sent[p] /\ T[p].k \notin {"done", "fail"}
    <3>1. p \in 1 .. n
      BY <1>2, <1>3, <1>9
    <3> QED
      BY <1>3, <1>4, <3>1
  <2>2. CASE q = n + 1
    <3>1. T[q] = l
      BY <1>3, <2>2
    <3> QED
      BY <1>7, <2>1, <3>1
  <2>3. CASE q # n + 1
    <3>1. q \in 1 .. n /\ T[q] = sent[q]
      BY <1>2, <1>3, <2>3
    <3> QED
      BY <1>5, <1>9, <2>1, <3>1
  <2> QED
    BY <2>2, <2>3
<1>10. ASSUME NEW q \in DOMAIN T, T[q].k = "done"
       PROVE  \E p \in DOMAIN T : p < q /\ T[p].k \in Ends
  <2>1. PICK p \in 1 .. n : p < q /\ sent[p].k \in Ends
    <3>1. CASE q = n + 1
      <4>1. l.k = "done"
        BY <1>3, <1>10, <3>1
      <4>2. PICK p \in 1 .. n : sent[p].k \in Ends
        BY <1>4, <4>1
      <4>3. p < q
        BY <1>2, <3>1
      <4> QED
        BY <4>2, <4>3
    <3>2. CASE q # n + 1
      <4>1. q \in 1 .. n /\ sent[q].k = "done"
        BY <1>2, <1>3, <1>10, <3>2
      <4> QED
        BY <1>5, <4>1
    <3> QED
      BY <3>1, <3>2
  <2>2. p \in DOMAIN T /\ T[p] = sent[p]
    BY <1>2, <1>3
  <2> QED
    BY <2>1, <2>2
<1>11. ASSUME NEW q \in DOMAIN T, T[q].k \in ToolKind
       PROVE  \E p \in DOMAIN T : p <= q /\ T[p].k \in CallKind /\ T[p].i = T[q].i
  <2>1. CASE T[q].k \in CallKind
    <3>1. q <= q
      BY <1>2, <1>3
    <3> QED
      BY <2>1, <3>1
  <2>2. CASE q \in 1 .. n
    <3>1. T[q] = sent[q]
      BY <1>3, <2>2
    <3>2. PICK p \in 1 .. n : p <= q /\ sent[p].k \in CallKind /\ sent[p].i = sent[q].i
      BY <1>5, <1>11, <2>2, <3>1
    <3>3. p \in DOMAIN T /\ T[p] = sent[p]
      BY <1>2, <1>3
    <3> QED
      BY <3>1, <3>2, <3>3
  <2>3. CASE q \notin 1 .. n /\ T[q].k \notin CallKind
    <3>1. q = n + 1 /\ T[q] = l
      BY <1>2, <1>3, <2>3
    <3>2. l.k = "args"
      BY <1>11, <2>3, <3>1 DEF ToolKind, CallKind
    <3>3. n \in 1 .. n /\ sent[n].k \in ToolKind /\ l.i = sent[n].i
      BY <1>6, <3>2
    <3>4. PICK p \in 1 .. n : p <= n /\ sent[p].k \in CallKind /\ sent[p].i = sent[n].i
      BY <1>5, <3>3
    <3>5. p \in DOMAIN T /\ T[p] = sent[p] /\ p <= q
      BY <1>2, <1>3, <3>1, <3>4
    <3> QED
      BY <3>1, <3>3, <3>4, <3>5
  <2> QED
    BY <2>1, <2>2, <2>3
<1>12. ASSUME NEW p \in DOMAIN T, NEW q \in DOMAIN T, T[p].k \in CallKind, T[q].k \in CallKind,
              T[p].i = T[q].i
       PROVE  p = q
  <2>1. \A r \in DOMAIN T : r = n + 1 \/ (r \in 1 .. n /\ T[r] = sent[r])
    BY <1>2, <1>3
  <2>2. \A r \in 1 .. n : sent[r].k \in CallKind => sent[r].i < Calls /\ sent[r].i \in Nat
    BY <1>2, <1>5
  <2>3. l.k \in CallKind => l.i = Calls
    BY <1>1
  <2>4. CASE p = n + 1 /\ q \in 1 .. n
    <3>1. T[p] = l /\ T[q] = sent[q]
      BY <1>3, <2>4
    <3>2. sent[q].i = Calls /\ sent[q].i < Calls /\ sent[q].i \in Nat
      BY <1>12, <2>2, <2>3, <2>4, <3>1
    <3> QED
      BY <1>2, <3>2
  <2>5. CASE q = n + 1 /\ p \in 1 .. n
    <3>1. T[q] = l /\ T[p] = sent[p]
      BY <1>3, <2>5
    <3>2. sent[p].i = Calls /\ sent[p].i < Calls /\ sent[p].i \in Nat
      BY <1>12, <2>2, <2>3, <2>5, <3>1
    <3> QED
      BY <1>2, <3>2
  <2>6. CASE p \in 1 .. n /\ q \in 1 .. n
    BY <1>3, <1>5, <1>12, <2>6
  <2> QED
    BY <2>1, <2>4, <2>5, <2>6
<1>13. Cardinality(D) = IF l.k \in CallKind THEN Calls + 1 ELSE Calls
  <2>1. Cardinality(C) = Calls
    BY DEF C, Calls
  <2>2. CASE l.k \in CallKind
    <3>1. D = C \cup {n + 1} /\ n + 1 \notin C
      BY <1>2, <1>3, <2>2 DEF C, D
    <3>2. Cardinality(C \cup {n + 1}) = Cardinality(C) + 1
      BY <1>2, <3>1, FS_AddElement
    <3> QED
      BY <2>1, <2>2, <3>1, <3>2
  <2>3. CASE l.k \notin CallKind
    <3>1. D = C
      BY <1>2, <1>3, <2>3 DEF C, D
    <3> QED
      BY <2>1, <2>3, <3>1
  <2> QED
    BY <2>2, <2>3
<1>14. ASSUME NEW p \in DOMAIN T, T[p].k \in CallKind
       PROVE  T[p].i < Cardinality(D)
  <2>1. CASE p = n + 1
    <3>1. T[p] = l
      BY <1>3, <2>1
    <3>2. T[p].i = Calls /\ Cardinality(D) = Calls + 1
      BY <1>1, <1>13, <1>14, <3>1
    <3> QED
      BY <1>2, <3>2
  <2>2. CASE p # n + 1
    <3>1. p \in 1 .. n /\ T[p] = sent[p]
      BY <1>2, <1>3, <2>2
    <3>2. T[p].i < Calls /\ T[p].i \in Nat
      BY <1>2, <1>5, <1>14, <3>1
    <3>3. Cardinality(D) = Calls \/ Cardinality(D) = Calls + 1
      BY <1>13
    <3> QED
      BY <1>2, <3>2, <3>3
  <2> QED
    BY <2>1, <2>2
<1> QED
  BY <1>8, <1>9, <1>10, <1>11, <1>12, <1>14 DEF InOrder, T, D

\* Nothing was read at first.
LEMMA ReadingInit == Init => Reading
<1> SUFFICES ASSUME Init PROVE Reading
  OBVIOUS
<1>1. /\ sent = <<>> /\ chunk = <<>> /\ torn = <<>> /\ lines = <<>> /\ lost = {} /\ logs = <<>>
      /\ tokens = 0
  BY DEF Init
<1>2. Len(sent) = 0 /\ Len(chunk) = 0 /\ Len(lines) = 0 /\ ReadTo = 0
      /\ DOMAIN sent = {} /\ DOMAIN chunk = {} /\ DOMAIN lines = {}
  BY <1>1 DEF ReadTo
<1>3. InOrder(sent)
  BY <1>2 DEF InOrder
<1>4. \E b \in Nat : /\ b + Len(lines) <= ReadTo
                     /\ \A j \in DOMAIN lines : b + j \in Fed /\ lines[j] = sent[b + j]
  <2>1. 0 \in Nat /\ 0 + Len(lines) <= ReadTo
    BY <1>2
  <2> QED
    BY <1>2, <2>1
<1>5. (1 .. ReadTo) \ lost = {} /\ lost \subseteq 1 .. ReadTo
  BY <1>1, <1>2
<1>6. Len(chunk) <= Len(sent)
  BY <1>2
<1> QED
  BY <1>1, <1>2, <1>3, <1>4, <1>5, <1>6 DEF Reading

\* A line that arrives is not read yet and changes nothing of what was.
LEMMA ReadingArrive ==
  ASSUME TInv, Reading, Arrive
  PROVE  /\ Reading' /\ Fed' = Fed /\ ReadTo' = ReadTo
         /\ \A p \in 1 .. Len(sent) : sent'[p] = sent[p]
         /\ Len(sent') = Len(sent) + 1 /\ DOMAIN sent' = 1 .. Len(sent) + 1
<1>1. PICK l \in Line : /\ Arriving(l) /\ sent' = Append(sent, l) /\ chunk' = Append(chunk, l)
  BY ArriveIs
<1>2. lines = <<>> /\ ~Done /\ provider' = provider /\ api' = api /\ torn' = torn /\ lost' = lost
      /\ tokens' = tokens /\ lines' = lines /\ logs' = logs /\ failed' = failed
  BY ArriveIs DEF provided, reading
<1> DEFINE n == Len(sent)
           c == Len(chunk)
           r == ReadTo
<1>3. /\ r \in Nat /\ r <= n /\ n \in Nat /\ c \in Nat /\ r + c = n
      /\ DOMAIN sent = 1 .. n /\ DOMAIN chunk = 1 .. c
      /\ \A p \in 1 .. n : sent[p] \in Line /\ sent[p].n = p
  BY ReadFacts
<1>4. sent \in Seq(Line) /\ chunk \in Seq(Line)
  BY DEF TInv
<1>5. /\ Len(sent') = n + 1 /\ DOMAIN sent' = 1 .. n + 1 /\ sent'[n + 1] = l
      /\ \A p \in 1 .. n : sent'[p] = sent[p]
  <2>1. /\ sent' \in Seq(Line) /\ Len(sent') = n + 1 /\ sent'[n + 1] = l
        /\ \A p \in 1 .. n : sent'[p] = sent[p]
    BY <1>1, <1>4, AppendProperties
  <2> QED
    BY <2>1, LenProperties
<1>6. /\ Len(chunk') = c + 1 /\ DOMAIN chunk' = 1 .. c + 1 /\ chunk'[c + 1] = l
      /\ \A p \in 1 .. c : chunk'[p] = chunk[p]
  <2>1. /\ chunk' \in Seq(Line) /\ Len(chunk') = c + 1 /\ chunk'[c + 1] = l
        /\ \A p \in 1 .. c : chunk'[p] = chunk[p]
    BY <1>1, <1>4, AppendProperties
  <2> QED
    BY <2>1, LenProperties
<1>7. ReadTo' = r
  <2>1. ReadTo' = Len(sent') - Len(chunk') /\ r = n - c
    BY DEF ReadTo
  <2> HIDE DEF n, c, r
  <2> QED
    BY <1>3, <1>5, <1>6, <2>1
<1>8. Fed' = Fed
  <2>1. Converts' = Converts
    BY <1>2 DEF Converts
  <2> QED
    BY <1>2, <1>7, <2>1 DEF Fed
<1>9. InOrder(sent')
  <2>1. InOrder(sent)
    BY DEF Reading
  <2> QED
    BY <1>1, <2>1, InOrderMore
<1> HIDE DEF n, c
<1>10. \A p \in DOMAIN sent' : sent'[p].k \in Kinds[provider']
  <2>1. l.k \in Kinds[provider]
    BY <1>1 DEF Arriving
  <2>2. \A p \in 1 .. n : sent[p].k \in Kinds[provider]
    BY <1>3 DEF Reading
  <2> QED
    BY <1>2, <1>3, <1>5, <2>1, <2>2
<1>11. Len(chunk') <= Len(sent')
  BY <1>3, <1>5, <1>6
<1>12. \A q \in DOMAIN chunk' : chunk'[q] = sent'[ReadTo' + q]
  <2>1. \A q \in 1 .. c : chunk[q] = sent[r + q]
    BY <1>3 DEF Reading
  <2> TAKE q \in DOMAIN chunk'
  <2> HIDE DEF r
  <2>2. CASE q = c + 1
    <3>1. r + q = n + 1
      BY <1>3, <2>2
    <3> QED
      BY <1>5, <1>6, <1>7, <2>2, <3>1
  <2>3. CASE q # c + 1
    <3>1. q \in 1 .. c /\ r + q \in 1 .. n
      BY <1>3, <1>6, <2>3
    <3> QED
      BY <1>5, <1>6, <1>7, <2>1, <3>1
  <2> QED
    BY <2>2, <2>3
<1>13. torn' # <<>> => ReadTo' >= 1 /\ torn'[1] = sent'[ReadTo'] /\ ReadTo' \in lost'
  <2>1. torn # <<>> => r >= 1 /\ torn[1] = sent[r] /\ r \in lost
    BY DEF Reading
  <2> HIDE DEF r
  <2>2. r >= 1 => r \in 1 .. n
    BY <1>3
  <2> QED
    BY <1>2, <1>5, <1>7, <2>1, <2>2
<1>14. lost' \subseteq 1 .. ReadTo'
  BY <1>2, <1>7 DEF Reading
<1>15. \E b \in Nat : /\ b + Len(lines') <= ReadTo'
                      /\ \A j \in DOMAIN lines' : b + j \in Fed' /\ lines'[j] = sent'[b + j]
  <2>1. Len(lines') = 0 /\ DOMAIN lines' = {}
    BY <1>2
  <2>2. 0 \in Nat /\ 0 + Len(lines') <= ReadTo'
    BY <1>3, <1>7, <2>1
  <2> QED
    BY <2>1, <2>2
<1>16. (\A j \in DOMAIN lines : lines[j].n \in Fed /\ Matches(lines[j], sent[lines[j].n]))'
  <2>1. DOMAIN lines' = {}
    BY <1>2
  <2> QED
    BY <2>1
<1>17. (tokens = 0 => \A p \in (1 .. ReadTo) \ lost : ~Reports(sent[p]))'
  <2>1. tokens = 0 => \A p \in (1 .. r) \ lost : ~Reports(sent[p])
    BY DEF Reading
  <2> HIDE DEF r
  <2>2. \A p \in 1 .. r : p \in 1 .. n
    BY <1>3
  <2>3. \A p \in 1 .. r : Reports(sent[p])' = Reports(sent[p])
    BY <1>2, <1>5, <2>2 DEF Reports
  <2> QED
    BY <1>2, <1>7, <2>1, <2>3
<1>18. (failed \/ Done => lines = <<>>)'
  BY <1>2
<1>19. Reading'
  BY <1>9, <1>10, <1>11, <1>12, <1>13, <1>14, <1>15, <1>16, <1>17, <1>18 DEF Reading
<1> QED
  BY <1>5, <1>7, <1>8, <1>19 DEF n, r

\* What a read gives the handler: the lines after From.
From == IF Converts THEN ReadTo ELSE ReadTo - Len(torn)
Given(cut) == IF Converts THEN WholeOf(cut) ELSE torn \o WholeOf(cut)

\* They are the lines after From, and all before are fed or lost.
LEMMA GivenIs ==
  ASSUME TInv, Reading, NEW cut \in BOOLEAN, cut => chunk # <<>>
  PROVE  /\ From \in Nat /\ Given(cut) \in Seq(Line) /\ Len(Given(cut)) \in Nat
         /\ From + Len(Given(cut)) = IF cut THEN Len(sent) - 1 ELSE Len(sent)
         /\ From + Len(Given(cut)) <= Len(sent)
         /\ From <= ReadTo /\ Fed \subseteq 1 .. From
         /\ \A p \in From + 1 .. ReadTo : p \notin Fed
         /\ Fed = IF Converts THEN (1 .. From) \ lost ELSE 1 .. From
         /\ \A j \in 1 .. Len(Given(cut)) : Given(cut)[j] = sent[From + j]
         /\ LinesOf(WholeOf(cut)) =
              IF api = "responses" THEN Rewritten(Given(cut)) ELSE Given(cut)
<1> DEFINE w == WholeOf(cut)
           t == Len(torn)
           r == ReadTo
           n == Len(sent)
           c == Len(chunk)
           g == Given(cut)
<1>1. /\ r \in Nat /\ r <= n /\ n \in Nat /\ c \in Nat /\ r + c = n
      /\ t \in {0, 1} /\ (t = 0 <=> torn = <<>>)
      /\ Fed \subseteq 1 .. r /\ DOMAIN chunk = 1 .. c
  BY ReadFacts
<1>2. /\ w \in Seq(Line) /\ Len(w) \in Nat /\ Len(w) = IF cut THEN c - 1 ELSE c
      /\ \A q \in 1 .. Len(w) : w[q] = chunk[q]
      /\ torn \o w \in Seq(Line)
  BY WholeIs DEF WholeOf
<1>3. \A q \in 1 .. c : chunk[q] = sent[r + q]
  BY <1>1 DEF Reading
<1>4. torn # <<>> => r >= 1 /\ torn[1] = sent[r]
  BY DEF Reading
<1>5. torn \in Seq(Line)
  BY DEF TInv
<1>6. LinesOf(w) = IF api = "responses" THEN Rewritten(g) ELSE g
  BY DEF LinesOf, Given
<1>7. cut => c \in Nat \ {0}
  BY <1>1, EmptySeq DEF TInv
<1> HIDE DEF w, t, r, n, c
<1>8. \A q \in 1 .. Len(w) : w[q] = sent[r + q]
  <2> TAKE q \in 1 .. Len(w)
  <2>1. q \in 1 .. c
    BY <1>1, <1>2
  <2> QED
    BY <1>2, <1>3, <2>1
<1>9. CASE Converts
  <2>1. From = r /\ g = w
    BY <1>9 DEF From, Given, r, w
  <2>2. Fed = (1 .. From) \ lost
    BY <1>9, <2>1 DEF Fed, r
  <2>3. From + Len(g) = IF cut THEN n - 1 ELSE n
    BY <1>1, <1>2, <2>1
  <2>4. From + Len(g) <= n
    BY <1>1, <2>3
  <2>5. \A p \in From + 1 .. r : p \notin Fed
    BY <1>1, <2>1
  <2> HIDE DEF g
  <2>6. From <= r
    BY <1>1, <2>1
  <2> QED
    BY <1>1, <1>2, <1>6, <1>8, <1>9, <2>1, <2>2, <2>3, <2>4, <2>5, <2>6 DEF g, r, w, n
<1>10. CASE ~Converts
  <2>1. From = r - t /\ g = torn \o w
    BY <1>10 DEF From, Given, r, w, t
  <2>2. From \in Nat /\ From <= r
    BY <1>1, <1>4, <2>1
  <2>3. Fed = 1 .. From
    BY <1>10, <2>1 DEF Fed, r, t
  <2>4. g \in Seq(Line) /\ Len(g) = t + Len(w)
    BY <1>2, <1>5, <2>1, ConcatProperties DEF t
  <2>5. From + Len(g) = IF cut THEN n - 1 ELSE n
    BY <1>1, <1>2, <2>1, <2>4
  <2>6. From + Len(g) <= n
    BY <1>1, <2>5
  <2>7. \A p \in From + 1 .. r : p \notin Fed
    BY <1>1, <2>2, <2>3
  <2> HIDE DEF g
  <2>8. ASSUME NEW j \in 1 .. Len(g) PROVE g[j] = sent[From + j]
    <3>1. CASE t = 0
      <4>1. torn = <<>> /\ g = w /\ From = r /\ j \in 1 .. Len(w)
        BY <1>1, <1>2, <2>1, <2>4, <3>1, ConcatEmptySeq
      <4> QED
        BY <1>8, <4>1
    <3>2. CASE t = 1
      <4>1. torn # <<>> /\ torn[1] = sent[r] /\ From + 1 = r /\ Len(torn) = 1
        BY <1>1, <1>4, <2>1, <3>2 DEF t
      <4>2. CASE j = 1
        <5>1. g[1] = torn[1]
          BY <1>2, <1>5, <2>1, <4>1, ConcatProperties
        <5> QED
          BY <4>1, <4>2, <5>1
      <4>3. CASE j # 1
        <5>1. j - 1 \in 1 .. Len(w) /\ j \in Nat /\ r + (j - 1) = From + j
              /\ j > 1 /\ j <= Len(torn) + Len(w) /\ j - Len(torn) = j - 1
          BY <1>1, <1>2, <2>2, <2>4, <3>2, <4>1, <4>3
        <5>2. g[j] = w[j - 1]
          <6>1. \A i \in 1 .. Len(torn) + Len(w) : (torn \o w)[i] =
                   IF i <= Len(torn) THEN torn[i] ELSE w[i - Len(torn)]
            BY <1>2, <1>5, ConcatProperties
          <6>2. j \in 1 .. Len(torn) + Len(w) /\ ~ (j <= Len(torn))
            BY <1>2, <4>1, <5>1
          <6> QED
            BY <2>1, <5>1, <6>1, <6>2
        <5> QED
          BY <1>8, <5>1, <5>2
      <4> QED
        BY <4>2, <4>3
    <3> QED
      BY <1>1, <3>1, <3>2
  <2>9. Len(g) \in Nat
    BY <2>4, LenProperties
  <2>10. Fed \subseteq 1 .. From
    BY <2>3
  <2> QED
    BY <1>6, <1>10, <2>2, <2>3, <2>4, <2>5, <2>6, <2>7, <2>8, <2>9, <2>10 DEF g, r, w, n
<1> QED
  BY <1>9, <1>10

\* So those lines, and no other, are given by it.
LEMMA FedMore ==
  ASSUME TInv, Reading, NEW cut \in BOOLEAN, cut => chunk # <<>>, Read(cut)
  PROVE  /\ ReadTo' = Len(sent) /\ sent' = sent
         /\ Fed' = Fed \cup (From + 1 .. From + Len(Given(cut)))
         /\ lines' = IF failed' THEN <<>>
                     ELSE IF api = "responses" THEN Rewritten(Given(cut)) ELSE Given(cut)
<1> DEFINE n == Len(sent)
           r == ReadTo
           g == Given(cut)
<1>1. /\ r \in Nat /\ r <= n /\ n \in Nat /\ Len(chunk) \in Nat /\ r + Len(chunk) = n
      /\ \A p \in 1 .. n : sent[p].n = p
  BY ReadFacts
<1>2. /\ From \in Nat /\ Len(g) \in Nat
      /\ From + Len(g) = IF cut THEN n - 1 ELSE n
      /\ From <= r
      /\ Fed = IF Converts THEN (1 .. From) \ lost ELSE 1 .. From
      /\ LinesOf(WholeOf(cut)) = IF api = "responses" THEN Rewritten(g) ELSE g
  BY GivenIs
<1>3. /\ chunk' = <<>> /\ sent' = sent /\ provider' = provider /\ api' = api
      /\ torn' = IF cut THEN <<Last(chunk)>> ELSE <<>>
      /\ lost' = IF cut THEN lost \cup {Last(chunk).n} ELSE lost
      /\ lines' = IF failed' THEN <<>> ELSE LinesOf(WholeOf(cut))
  BY ReadIs DEF provided
<1>4. cut => Last(chunk) = chunk[Len(chunk)] /\ Len(chunk) \in 1 .. Len(chunk)
             /\ DOMAIN chunk = 1 .. Len(chunk)
  BY WholeIs
<1>5. cut => n \in Nat \ {0} /\ Last(chunk).n = n
  <2> SUFFICES ASSUME cut PROVE n \in Nat \ {0} /\ Last(chunk).n = n
    OBVIOUS
  <2>1. chunk[Len(chunk)] = sent[r + Len(chunk)]
    BY <1>4 DEF Reading
  <2>2. n \in 1 .. n
    BY <1>1, <1>4
  <2> QED
    BY <1>1, <1>4, <2>1, <2>2
<1>6. Len(chunk') = 0 /\ ReadTo' = n
  <2>1. Len(chunk') = 0
    BY <1>3
  <2>2. ReadTo' = Len(sent') - Len(chunk')
    BY DEF ReadTo
  <2> QED
    BY <1>1, <1>3, <2>1, <2>2
<1>7. lost \subseteq 1 .. r
  BY DEF Reading
<1> HIDE DEF n, r, g
<1>8. Converts' = Converts
  BY <1>3 DEF Converts
<1>9. CASE Converts
  <2>0. Fed' = (1 .. n) \ lost'
    BY <1>6, <1>8, <1>9 DEF Fed
  <2>1. From = r
    BY <1>9 DEF From, r
  <2>2. ASSUME cut PROVE Fed' = Fed \cup (From + 1 .. From + Len(g))
    <3>1. lost' = lost \cup {n} /\ From + Len(g) = n - 1 /\ n \in Nat \ {0}
      BY <1>2, <1>3, <1>5, <2>2
    <3>2. ASSUME NEW p \in Nat
          PROVE  (p \in 1 .. n /\ p \notin lost /\ p # n) <=>
                 ((p \in 1 .. From /\ p \notin lost) \/ p \in From + 1 .. From + Len(g))
      BY <1>1, <1>2, <1>7, <2>1, <3>1
    <3>3. Fed = (1 .. From) \ lost
      BY <1>2, <1>9
    <3>4. ASSUME NEW p
          PROVE  p \in Fed' <=> p \in Fed \/ p \in From + 1 .. From + Len(g)
      <4>1. CASE p \in Nat
        <5>1. p \in Fed' <=> p \in 1 .. n /\ p \notin lost /\ p # n
          BY <2>0, <3>1
        <5>2. p \in Fed <=> p \in 1 .. From /\ p \notin lost
          BY <3>3
        <5> QED
          BY <3>2, <4>1, <5>1, <5>2
      <4>2. CASE p \notin Nat
        <5>1. p \notin 1 .. n /\ p \notin 1 .. From
          BY <4>2
        <5>2. p \notin From + 1 .. From + Len(g)
          BY <1>2, <4>2
        <5> QED
          BY <2>0, <3>3, <5>1, <5>2
      <4> QED
        BY <4>1, <4>2
    <3> QED
      BY <3>4
  <2>3. ASSUME ~cut PROVE Fed' = Fed \cup (From + 1 .. From + Len(g))
    <3>1. lost' = lost /\ From + Len(g) = n
      BY <1>2, <1>3, <2>3
    <3>2. ASSUME NEW p \in Nat
          PROVE  (p \in 1 .. n /\ p \notin lost) <=>
                 ((p \in 1 .. From /\ p \notin lost) \/ p \in From + 1 .. From + Len(g))
      BY <1>1, <1>2, <1>7, <2>1, <3>1
    <3>3. Fed = (1 .. From) \ lost
      BY <1>2, <1>9
    <3>4. ASSUME NEW p
          PROVE  p \in Fed' <=> p \in Fed \/ p \in From + 1 .. From + Len(g)
      <4>1. CASE p \in Nat
        <5>1. p \in Fed' <=> p \in 1 .. n /\ p \notin lost
          BY <2>0, <3>1
        <5>2. p \in Fed <=> p \in 1 .. From /\ p \notin lost
          BY <3>3
        <5> QED
          BY <3>2, <4>1, <5>1, <5>2
      <4>2. CASE p \notin Nat
        <5>1. p \notin 1 .. n /\ p \notin 1 .. From
          BY <4>2
        <5>2. p \notin From + 1 .. From + Len(g)
          BY <1>2, <4>2
        <5> QED
          BY <2>0, <3>3, <5>1, <5>2
      <4> QED
        BY <4>1, <4>2
    <3> QED
      BY <3>4
  <2>4. Fed' = Fed \cup (From + 1 .. From + Len(g))
    BY <2>2, <2>3
  <2> QED
    BY <1>2, <1>3, <1>6, <2>4 DEF n, g
<1>10. CASE ~Converts
  <2>1. Len(torn') = IF cut THEN 1 ELSE 0
    <3> DEFINE x == Last(chunk)
    <3>1. torn' = IF cut THEN <<x>> ELSE <<>>
      BY <1>3
    <3> HIDE DEF x
    <3> QED
      BY <3>1
  <2>2. Fed' = 1 .. n - Len(torn')
    BY <1>6, <1>8, <1>10 DEF Fed
  <2>3. n - Len(torn') = From + Len(g)
    BY <1>1, <1>2, <2>1
  <2>4. Fed = 1 .. From
    BY <1>2, <1>10
  <2>5. 1 .. From + Len(g) = (1 .. From) \cup (From + 1 .. From + Len(g))
    BY <1>2
  <2> QED
    BY <1>2, <1>3, <1>6, <2>2, <2>3, <2>4, <2>5 DEF n, g
<1> QED
  BY <1>9, <1>10

\* The lines an adapter has rewritten are those of the read that it kept.
LEMMA RewrittenAppend ==
  ASSUME NEW ls \in Seq(Line), NEW l \in Line
  PROVE  Rewritten(Append(ls, l)) = Rewritten(ls) \o Rewrite(l)
<1> DEFINE T == Append(ls, l)
           g == Rewrites(ls)
           h == Rewrites(T)
           c == Rewrite(l)
<1>1. T \in Seq(Line) /\ Len(T) = Len(ls) + 1 /\ T[Len(ls) + 1] = l
      /\ \A p \in 1..Len(ls) : T[p] = ls[p]
  BY AppendProperties
<1>2. g \in Seq(Seq(Line)) /\ Len(g) = Len(ls) /\ Rewritten(ls) = FlattenSeq(g)
  BY RewrittenType
<1>3. h \in Seq(Seq(Line)) /\ Len(h) = Len(T) /\ Rewritten(T) = FlattenSeq(h)
  <2> HIDE DEF T
  <2> QED
    BY <1>1, RewrittenType
<1>4. c \in Seq(Line)
  BY RewriteType
<1>5. Len(ls) \in Nat /\ DOMAIN ls = 1..Len(ls) /\ DOMAIN T = 1..(Len(ls) + 1)
  BY <1>1, LenProperties
<1>6. \A p \in 1..Len(ls) : h[p] = g[p]
  BY <1>1, <1>5 DEF Rewrites
<1>7. h[Len(ls) + 1] = c
  BY <1>1, <1>5 DEF Rewrites
<1> HIDE DEF T, g, h, c
<1>8. h = Append(g, c)
  <2>1. /\ Append(g, c) \in Seq(Seq(Line)) /\ Len(Append(g, c)) = Len(ls) + 1
        /\ \A p \in 1..Len(ls) : Append(g, c)[p] = g[p]
        /\ Append(g, c)[Len(ls) + 1] = c
    BY <1>2, <1>4, AppendProperties
  <2> DEFINE a == Append(g, c)
  <2> HIDE DEF a
  <2>2. \A p \in 1..Len(h) : h[p] = a[p]
    BY <1>1, <1>3, <1>5, <1>6, <1>7, <2>1 DEF a
  <2>3. a \in Seq(Seq(Line)) /\ Len(h) = Len(a)
    BY <1>1, <1>3, <2>1 DEF a
  <2> QED
    BY <1>3, <2>2, <2>3, SeqEqual DEF a
<1>9. FlattenSeq(h) = FlattenSeq(g) \o c
  BY <1>2, <1>4, <1>8, FlattenAppend
<1> QED
  BY <1>2, <1>3, <1>9 DEF T, c

\* Every line of a rewritten read comes from one of its lines.
LEMMA RewrittenFrom ==
  ASSUME NEW ls \in Seq(Line)
  PROVE  \A j \in DOMAIN Rewritten(ls) :
            \E q \in DOMAIN ls : Rewrite(ls[q]) = <<Rewritten(ls)[j]>>
<1> DEFINE P(s) == \A j \in DOMAIN Rewritten(s) :
                      \E q \in DOMAIN s : Rewrite(s[q]) = <<Rewritten(s)[j]>>
           T == {n \in Nat : \A s \in Seq(Line) : Len(s) = n => P(s)}
<1>1. 0 \in T
  <2> SUFFICES ASSUME NEW s \in Seq(Line), Len(s) = 0 PROVE P(s)
    OBVIOUS
  <2>1. s = <<>>
    BY EmptySeq
  <2>2. DOMAIN s = {}
    BY <2>1
  <2>3. Rewritten(s) = FlattenSeq(<<>>)
    BY <2>2 DEF Rewritten
  <2>4. Rewritten(s) = <<>>
    BY <2>3 DEF FlattenSeq
  <2> QED
    BY <2>4
<1>2. ASSUME NEW n \in Nat, n \in T PROVE n + 1 \in T
  <2> SUFFICES ASSUME NEW s \in Seq(Line), Len(s) = n + 1 PROVE P(s)
    OBVIOUS
  <2>1. s # <<>>
    BY EmptySeq
  <2>2. PICK r \in Seq(Line), l \in Line : s = Append(r, l)
    BY <2>1, SequenceEmptyOrAppend
  <2>3. /\ Len(s) = Len(r) + 1 /\ s[Len(r) + 1] = l
        /\ \A p \in 1..Len(r) : s[p] = r[p]
        /\ DOMAIN s = 1 .. Len(r) + 1 /\ DOMAIN r = 1 .. Len(r) /\ Len(r) \in Nat
    <3>1. s \in Seq(Line) /\ Len(s) = Len(r) + 1 /\ s[Len(r) + 1] = l
          /\ \A p \in 1..Len(r) : s[p] = r[p]
      BY <2>2, AppendProperties
    <3> QED
      BY <3>1, LenProperties
  <2>4. P(r)
    <3> DEFINE m == Len(r)
    <3>0. m \in Nat /\ n + 1 = m + 1
      BY <2>3
    <3> HIDE DEF m
    <3>2. m = n
      BY <3>0
    <3>1. Len(r) = n
      BY <3>2 DEF m
    <3> QED
      BY <1>2, <3>1
  <2> DEFINE a == Rewritten(r)
             b == Rewrite(l)
             R == Rewritten(s)
  <2>5. R = a \o b /\ a \in Seq(Line) /\ b \in Seq(Line)
    BY <2>2, RewrittenAppend, RewrittenType, RewriteType
  <2>6. b = <<>> \/ b = <<b[1]>>
    BY RewriteType
  <2>7. \A j \in DOMAIN a : \E q \in DOMAIN r : Rewrite(r[q]) = <<a[j]>>
    BY <2>4
  <2>8. Rewrite(s[Len(r) + 1]) = b
    BY <2>3
  <2> HIDE DEF a, b, R
  <2> SUFFICES ASSUME NEW j \in DOMAIN R PROVE \E q \in DOMAIN s : Rewrite(s[q]) = <<R[j]>>
    BY DEF R
  <2>9. /\ Len(R) = Len(a) + Len(b) /\ DOMAIN R = 1 .. Len(R) /\ DOMAIN a = 1 .. Len(a)
        /\ Len(a) \in Nat /\ Len(b) \in Nat
        /\ \A i \in 1 .. Len(R) : R[i] = IF i <= Len(a) THEN a[i] ELSE b[i - Len(a)]
    <3>1. R \in Seq(Line) /\ Len(R) = Len(a) + Len(b)
          /\ \A i \in 1 .. Len(R) : R[i] = IF i <= Len(a) THEN a[i] ELSE b[i - Len(a)]
      BY <2>5, ConcatProperties
    <3> QED
      BY <2>5, <3>1, LenProperties
  <2>10. CASE j <= Len(a)
    <3>1. j \in DOMAIN a /\ R[j] = a[j]
      BY <2>9, <2>10
    <3>2. PICK q \in DOMAIN r : Rewrite(r[q]) = <<a[j]>>
      BY <2>7, <3>1
    <3>3. q \in DOMAIN s /\ s[q] = r[q]
      BY <2>3
    <3> QED
      BY <3>1, <3>2, <3>3
  <2>11. CASE ~ (j <= Len(a))
    <3>1. Len(b) # 0
      BY <2>9, <2>11
    <3>2. b = <<b[1]>> /\ Len(b) = 1
      <4>1. b = <<b[1]>>
        BY <2>6, <3>1
      <4> DEFINE x == b[1]
      <4> HIDE DEF x
      <4>2. b = <<x>>
        BY <4>1 DEF x
      <4>3. Len(b) = 1
        BY <4>2
      <4> QED
        BY <4>1, <4>3
    <3>3. j = Len(a) + 1 /\ j - Len(a) = 1 /\ R[j] = b[1]
      <4>1. j = Len(a) + 1
        BY <2>9, <2>11, <3>2
      <4>2. j - Len(a) = 1
        BY <2>9, <4>1
      <4> QED
        BY <2>9, <2>11, <4>1, <4>2
    <3>4. Len(r) + 1 \in DOMAIN s
      BY <2>3
    <3> QED
      BY <2>8, <3>2, <3>3, <3>4
  <2> QED
    BY <2>10, <2>11
<1> HIDE DEF T
<1>3. Len(ls) \in Nat
  BY LenProperties
<1>4. Len(ls) \in T
  BY <1>1, <1>2, <1>3, Induct
<1> QED
  BY <1>4 DEF T

\* One line as the adapter leaves it.
LEMMA RewriteIs ==
  ASSUME NEW l \in Line
  PROVE  /\ provider = "openai" \/ l.k \in Content => Rewrite(l) = <<l>>
         /\ provider # "openai" /\ l.k \notin Content =>
              \/ Rewrite(l) = <<>>
              \/ l.k \in Ends /\ Rewrite(l) = <<[k |-> "stop", i |-> l.i, n |-> l.n]>>
         /\ \A m : Rewrite(l) = <<m>> => m \in Line /\ Matches(m, l)
<1> DEFINE s == [k |-> "stop", i |-> l.i, n |-> l.n]
<1>1. /\ provider = "openai" \/ l.k \in Content => Rewrite(l) = <<l>>
      /\ provider # "openai" /\ l.k \notin Content =>
            Rewrite(l) = <<>> \/ (l.k \in Ends /\ Rewrite(l) = <<s>>)
  BY DEF Rewrite, Content, Ends
<1>2. s.k = "stop" /\ s.n = l.n /\ s \in Line
  BY DEF Line, LineKinds, Ends
<1>3. ASSUME NEW m, Rewrite(l) = <<m>> PROVE m \in Line /\ Matches(m, l)
  <2> HIDE DEF s
  <2>1. \A x, y : <<x>> = <<y>> => x = y
    OBVIOUS
  <2>2. \A x : <<x>> # <<>>
    OBVIOUS
  <2>3. CASE provider = "openai" \/ l.k \in Content
    <3>1. m = l
      BY <1>1, <1>3, <2>1, <2>3
    <3> QED
      BY <2>3, <3>1 DEF Matches
  <2>4. CASE ~ (provider = "openai" \/ l.k \in Content)
    <3>1. l.k \in Ends /\ m = s
      BY <1>1, <1>3, <2>1, <2>2, <2>4
    <3> QED
      BY <1>2, <3>1 DEF Matches
  <2> QED
    BY <2>3, <2>4
<1> QED
  BY <1>1, <1>3

\* A read keeps what is known of the lines.
LEMMA ReadingRead ==
  ASSUME TInv, Reading, NEW cut \in BOOLEAN, cut => chunk # <<>>, Read(cut)
  PROVE  Reading'
<1> DEFINE n == Len(sent)
           c == Len(chunk)
           r == ReadTo
           g == Given(cut)
           w == WholeOf(cut)
<1>1. /\ r \in Nat /\ r <= n /\ n \in Nat /\ c \in Nat /\ r + c = n
      /\ DOMAIN sent = 1 .. n /\ DOMAIN chunk = 1 .. c
      /\ \A p \in 1 .. n : sent[p] \in Line /\ sent[p].n = p
  BY ReadFacts
<1>2. /\ From \in Nat /\ g \in Seq(Line) /\ Len(g) \in Nat
      /\ From + Len(g) <= n
      /\ \A j \in 1 .. Len(g) : g[j] = sent[From + j]
  BY GivenIs
<1>3. /\ ReadTo' = n /\ sent' = sent
      /\ Fed' = Fed \cup (From + 1 .. From + Len(g))
      /\ lines' = IF failed' THEN <<>> ELSE IF api = "responses" THEN Rewritten(g) ELSE g
  BY FedMore
<1>4. /\ ~Done /\ chunk' = <<>>
      /\ torn' = IF cut THEN <<Last(chunk)>> ELSE <<>>
      /\ lost' = IF cut THEN lost \cup {Last(chunk).n} ELSE lost
      /\ tokens' = CountTokens(w)
      /\ provider' = provider /\ api' = api /\ logs' = logs
  BY ReadIs DEF provided
<1>5. /\ w \in Seq(Line) /\ Len(w) \in Nat /\ Len(w) = IF cut THEN c - 1 ELSE c
      /\ \A q \in 1 .. Len(w) : w[q] = chunk[q]
      /\ DOMAIN w = 1 .. Len(w)
      /\ cut => Last(chunk) = chunk[c] /\ c \in 1 .. c
  BY WholeIs DEF WholeOf
<1>6. \A q \in 1 .. c : chunk[q] = sent[r + q]
  BY <1>1 DEF Reading
<1>7. lost \subseteq 1 .. r
  BY DEF Reading
<1>8. tokens = 0 => \A p \in (1 .. r) \ lost : ~Reports(sent[p])
  BY DEF Reading
<1>9. InOrder(sent') /\ \A p \in DOMAIN sent' : sent'[p].k \in Kinds[provider']
  BY <1>3, <1>4 DEF Reading
<1> HIDE DEF n, c, r, g, w
<1>10. cut => n >= 1 /\ n \in Nat /\ Last(chunk) = sent[n] /\ Last(chunk).n = n
  <2> SUFFICES ASSUME cut PROVE n >= 1 /\ n \in Nat /\ Last(chunk) = sent[n] /\ Last(chunk).n = n
    OBVIOUS
  <2>1. n >= 1 /\ n \in 1 .. n
    BY <1>1, <1>5
  <2>2. Last(chunk) = sent[n]
    BY <1>1, <1>5, <1>6
  <2> QED
    BY <1>1, <2>1, <2>2
<1>11. chunk' = <<>> /\ Len(chunk') = 0 /\ DOMAIN chunk' = {}
  BY <1>4
<1>12. torn' # <<>> => ReadTo' >= 1 /\ torn'[1] = sent'[ReadTo'] /\ ReadTo' \in lost'
  <2> SUFFICES ASSUME torn' # <<>>
               PROVE  ReadTo' >= 1 /\ torn'[1] = sent'[ReadTo'] /\ ReadTo' \in lost'
    OBVIOUS
  <2>1. cut
    BY <1>4
  <2>2. torn' = <<sent[n]>> /\ n \in lost' /\ n >= 1
    BY <1>4, <1>10, <2>1
  <2> DEFINE x == sent[n]
  <2> HIDE DEF x
  <2>3. torn' = <<x>>
    BY <2>2 DEF x
  <2>4. torn'[1] = x
    BY <2>3
  <2> QED
    BY <1>3, <2>2, <2>4 DEF x
<1>13. lost' \subseteq 1 .. ReadTo'
  <2>1. \A p \in 1 .. r : p \in 1 .. n
    BY <1>1
  <2>2. cut => n \in 1 .. n
    BY <1>1, <1>10
  <2> QED
    BY <1>3, <1>4, <1>7, <1>10, <2>1, <2>2
<1>14. api' = "messages" =>
          \E b \in Nat : /\ b + Len(lines') <= ReadTo'
                         /\ \A j \in DOMAIN lines' : b + j \in Fed' /\ lines'[j] = sent'[b + j]
  <2> SUFFICES ASSUME api = "messages"
               PROVE  \E b \in Nat : /\ b + Len(lines') <= n
                         /\ \A j \in DOMAIN lines' : b + j \in Fed' /\ lines'[j] = sent[b + j]
    BY <1>3, <1>4
  <2>1. CASE failed'
    <3>1. lines' = <<>>
      BY <1>3, <2>1
    <3>2. Len(lines') = 0 /\ DOMAIN lines' = {} /\ 0 \in Nat
      BY <3>1
    <3>3. 0 + Len(lines') <= n
      BY <1>1, <3>2
    <3> QED
      BY <3>2, <3>3
  <2>2. CASE ~failed'
    <3>1. lines' = g /\ DOMAIN g = 1 .. Len(g)
      BY <1>2, <1>3, <2>2, LenProperties
    <3>2. \A j \in 1 .. Len(g) : From + j \in From + 1 .. From + Len(g)
      BY <1>2
    <3>3. \A j \in 1 .. Len(g) : From + j \in Fed' /\ g[j] = sent[From + j]
      BY <1>2, <1>3, <3>2
    <3> QED
      BY <1>2, <3>1, <3>3
  <2> QED
    BY <2>1, <2>2
<1>15. (api = "responses" =>
          \A j \in DOMAIN lines : lines[j].n \in Fed /\ Matches(lines[j], sent[lines[j].n]))'
  <2> SUFFICES ASSUME api = "responses", NEW j \in DOMAIN lines'
               PROVE  lines'[j].n \in Fed' /\ Matches(lines[j], sent[lines[j].n])'
    BY <1>4
  <2>1. ~failed' /\ lines' = Rewritten(g)
    <3>1. CASE failed'
      <4>1. DOMAIN lines' = {}
        BY <1>3, <3>1
      <4> QED
        BY <4>1
    <3> QED
      BY <1>3, <3>1
  <2> DEFINE m == lines'[j]
  <2>2. PICK q \in DOMAIN g : Rewrite(g[q]) = <<m>>
    BY <1>2, <2>1, RewrittenFrom
  <2>3. q \in 1 .. Len(g) /\ g[q] = sent[From + q] /\ From + q \in 1 .. n
        /\ From + q \in From + 1 .. From + Len(g)
    <3>1. q \in 1 .. Len(g)
      BY <1>2, LenProperties
    <3>2. From + q \in 1 .. n /\ From + q \in From + 1 .. From + Len(g)
      BY <1>1, <1>2, <3>1
    <3> QED
      BY <1>2, <3>1, <3>2
  <2> DEFINE o == sent[From + q]
  <2>4. o \in Line /\ o.n = From + q
    BY <1>1, <2>3
  <2> HIDE DEF m, o
  <2>5. Rewrite(o) = <<m>>
    BY <2>2, <2>3 DEF o
  <2>6. Matches(m, o)
    BY <2>4, <2>5, RewriteIs
  <2>7. m.n = From + q
    BY <2>4, <2>6 DEF Matches
  <2>8. m.n \in Fed' /\ sent'[m.n] = o
    BY <1>3, <2>3, <2>7 DEF o
  <2>9. Matches(lines[j], sent[lines[j].n])'
    BY <1>4, <2>6, <2>8 DEF Matches, m
  <2> QED
    BY <2>8, <2>9 DEF m
<1>16. (tokens = 0 => \A p \in (1 .. ReadTo) \ lost : ~Reports(sent[p]))'
  <2> SUFFICES ASSUME tokens' = 0, NEW p \in (1 .. n) \ lost'
               PROVE  ~Reports(sent[p])'
    BY <1>3
  <2>1. Reports(sent[p])' = Reports(sent[p])
    BY <1>3, <1>4 DEF Reports
  <2>2. tokens = 0 /\ TokensOf(w) = 0
    <3>1. TokensOf(w) \in 0 .. MaxLines
      BY <1>5, TokensOfIs
    <3>2. tokens' = IF TokensOf(w) > 0 THEN TokensOf(w) ELSE tokens
      BY <1>4 DEF CountTokens
    <3> QED
      BY <3>1, <3>2, BoundsAssumption
  <2>3. CASE p \in 1 .. r
    <3>1. p \notin lost
      BY <1>4
    <3> QED
      BY <1>8, <2>1, <2>2, <2>3, <3>1
  <2>4. CASE p \notin 1 .. r
    <3> DEFINE q == p - r
    <3>1. q \in 1 .. c /\ r + q = p
      BY <1>1, <2>4
    <3>2. cut => p # n
      BY <1>4, <1>10
    <3>3. q \in 1 .. Len(w)
      BY <1>1, <1>5, <3>1, <3>2
    <3>4. w[q] = sent[p]
      BY <1>5, <1>6, <3>1, <3>3
    <3> HIDE DEF q
    <3>5. \A i \in DOMAIN w : ~Reports(w[i])
      BY <1>5, <2>2, TokensOfIs
    <3> QED
      BY <1>5, <2>1, <3>3, <3>4, <3>5
  <2> QED
    BY <2>3, <2>4
<1>17. (failed \/ Done => lines = <<>>)'
  BY <1>3, <1>4 DEF Done
<1>18. Len(chunk') <= Len(sent') /\ \A q \in DOMAIN chunk' : chunk'[q] = sent'[ReadTo' + q]
  BY <1>1, <1>3, <1>11 DEF n
<1> QED
  BY <1>9, <1>12, <1>13, <1>14, <1>15, <1>16, <1>17, <1>18 DEF Reading

\* The handler takes the first of its lines.
LEMMA ReadingTail ==
  ASSUME TInv, Reading, lines # <<>>, lines' = Tail(lines),
         UNCHANGED <<provided, upstream, reading, logs>>
  PROVE  Reading' /\ Fed' = Fed /\ ReadTo' = ReadTo /\ sent' = sent
<1>1. /\ provider' = provider /\ api' = api /\ logs' = logs /\ sent' = sent /\ chunk' = chunk
      /\ torn' = torn /\ lost' = lost /\ failed' = failed /\ tokens' = tokens
  BY DEF provided, upstream, reading
<1>2. ReadTo' = ReadTo
  BY <1>1 DEF ReadTo
<1>3. Fed' = Fed
  <2>1. Converts' = Converts
    BY <1>1 DEF Converts
  <2> QED
    BY <1>1, <1>2, <2>1 DEF Fed
<1> DEFINE n == Len(lines)
<1>4. /\ n \in Nat \ {0} /\ DOMAIN lines = 1 .. n /\ DOMAIN lines' = 1 .. n - 1
      /\ \A j \in 1 .. n - 1 : lines'[j] = lines[j + 1]
      /\ Len(lines') = n - 1
  BY HeadTail DEF TInv
<1>5. ~failed /\ ~Done
  BY DEF Reading
<1> HIDE DEF n
<1>6. api' = "messages" =>
          \E b \in Nat : /\ b + Len(lines') <= ReadTo'
                         /\ \A j \in DOMAIN lines' : b + j \in Fed' /\ lines'[j] = sent'[b + j]
  <2> SUFFICES ASSUME api = "messages"
               PROVE  \E b \in Nat : /\ b + Len(lines') <= ReadTo
                         /\ \A j \in DOMAIN lines' : b + j \in Fed /\ lines'[j] = sent[b + j]
    BY <1>1, <1>2, <1>3
  <2>1. PICK b \in Nat : /\ b + n <= ReadTo
                         /\ \A j \in 1 .. n : b + j \in Fed /\ lines[j] = sent[b + j]
    BY <1>4 DEF Reading, n
  <2>2. b + 1 \in Nat /\ (b + 1) + (n - 1) = b + n
    BY <1>4
  <2>3. ASSUME NEW j \in 1 .. n - 1
        PROVE  (b + 1) + j \in Fed /\ lines'[j] = sent[(b + 1) + j]
    <3>1. j + 1 \in 1 .. n /\ b + (j + 1) = (b + 1) + j
      BY <1>4
    <3> QED
      BY <1>4, <2>1, <3>1
  <2>4. (b + 1) + Len(lines') <= ReadTo
    BY <1>4, <2>1, <2>2
  <2> QED
    BY <1>4, <2>2, <2>3, <2>4
<1>7. (api = "responses" =>
          \A j \in DOMAIN lines : lines[j].n \in Fed /\ Matches(lines[j], sent[lines[j].n]))'
  <2> SUFFICES ASSUME api = "responses", NEW j \in 1 .. n - 1
               PROVE  lines'[j].n \in Fed /\ Matches(lines[j], sent[lines[j].n])'
    BY <1>1, <1>3, <1>4
  <2>1. j + 1 \in 1 .. n /\ lines'[j] = lines[j + 1]
    BY <1>4
  <2>2. lines[j + 1].n \in Fed /\ Matches(lines[j + 1], sent[lines[j + 1].n])
    BY <1>4, <2>1 DEF Reading
  <2> QED
    BY <1>1, <2>1, <2>2 DEF Matches
<1>8. (tokens = 0 => \A p \in (1 .. ReadTo) \ lost : ~Reports(sent[p]))'
  BY <1>1, <1>2 DEF Reading, Reports
<1>9. (failed \/ Done => lines = <<>>)'
  BY <1>1, <1>5 DEF Done
<1>10. /\ InOrder(sent')
       /\ \A p \in DOMAIN sent' : sent'[p].k \in Kinds[provider']
       /\ Len(chunk') <= Len(sent')
       /\ \A q \in DOMAIN chunk' : chunk'[q] = sent'[ReadTo' + q]
       /\ torn' # <<>> => ReadTo' >= 1 /\ torn'[1] = sent'[ReadTo'] /\ ReadTo' \in lost'
       /\ lost' \subseteq 1 .. ReadTo'
  BY <1>1, <1>2 DEF Reading
<1> QED
  BY <1>1, <1>2, <1>3, <1>6, <1>7, <1>8, <1>9, <1>10 DEF Reading

\* Nothing but the answer changes.
LEMMA ReadingSame ==
  ASSUME Reading, UNCHANGED <<provided, upstream, reading, lines>>, Done' => lines = <<>>
  PROVE  Reading' /\ Fed' = Fed /\ ReadTo' = ReadTo /\ sent' = sent
<1>1. /\ provider' = provider /\ api' = api /\ lines' = lines /\ sent' = sent /\ chunk' = chunk
      /\ torn' = torn /\ lost' = lost /\ failed' = failed /\ tokens' = tokens
  BY DEF provided, upstream, reading
<1>2. ReadTo' = ReadTo
  BY <1>1 DEF ReadTo
<1>3. Fed' = Fed
  <2>1. Converts' = Converts
    BY <1>1 DEF Converts
  <2> QED
    BY <1>1, <1>2, <2>1 DEF Fed
<1>4. (failed \/ Done => lines = <<>>)'
  BY <1>1 DEF Reading
<1> QED
  BY <1>1, <1>2, <1>3, <1>4 DEF Reading, Matches, Reports

\* So does every step.
LEMMA ReadingNext == TInv /\ Reading /\ [Next]_vars => Reading'
<1> SUFFICES ASSUME TInv, Reading, [Next]_vars PROVE Reading'
  OBVIOUS
<1>1. CASE Arrive
  BY <1>1, ReadingArrive
<1>2. ASSUME NEW cut \in BOOLEAN, cut => chunk # <<>>, Read(cut) PROVE Reading'
  BY <1>2, ReadingRead
<1>3. CASE ResponsesLine \/ MessagesLine
  BY <1>3, ReadingTail DEF ResponsesLine, MessagesLine
<1>4. CASE EndResponses \/ EndMessages
  <2>1. UNCHANGED <<provided, upstream, reading, lines>> /\ lines = <<>>
    BY <1>4 DEF EndResponses, EndMessages, Ended
  <2> QED
    BY <2>1, ReadingSame
<1>5. CASE Ping \/ UNCHANGED vars
  <2>1. UNCHANGED <<provided, upstream, reading, lines>> /\ Done' = Done
    BY <1>5, Keeps DEF Kept, Done
  <2>2. Done => lines = <<>>
    BY DEF Reading
  <2> QED
    BY <2>1, <2>2, ReadingSame
<1> QED
  BY <1>1, <1>2, <1>3, <1>4, <1>5 DEF Next

\* Once the row is written nothing happens.
LEMMA DoneStuck ==
  ASSUME TInv, Reading, Done, [Next]_vars
  PROVE  UNCHANGED vars
<1>1. lines = <<>>
  BY DEF Reading
<1> QED
  BY <1>1, ArriveIs DEF Next, Arrive, Read, ResponsesLine, MessagesLine, Ping,
     EndResponses, EndMessages, Ended

-----------------------------------------------------------------------------
(* The positions of the lines that are owed, and those still to be handled. *)

Mark(A, x) == IF x \in A THEN <<x>> ELSE <<>>
Listing(A, r) == [p \in 1 .. r |-> Mark(A, p)]
Resting(A, ls) == [j \in DOMAIN ls |-> Mark(A, ls[j].n)]

\* They list positions.
LEMMA MarkType ==
  ASSUME NEW A, NEW x \in Pos
  PROVE  Mark(A, x) \in Seq(Pos)
<1>1. <<x>> \in Seq(Pos) /\ <<>> \in Seq(Pos)
  BY EmptySeq
<1> QED
  BY <1>1 DEF Mark

\* A list of the positions below some bound
LEMMA ListedType ==
  ASSUME NEW A, NEW r \in 0 .. MaxLines
  PROVE  /\ Listing(A, r) \in Seq(Seq(Pos)) /\ Len(Listing(A, r)) = r
         /\ Listed(A, r) = FlattenSeq(Listing(A, r)) /\ Listed(A, r) \in Seq(Pos)
<1>1. r \in Nat /\ \A p \in 1 .. r : p \in Pos
  BY BoundsAssumption DEF Pos
<1> DEFINE g == Listing(A, r)
<1>2. g \in [1 .. r -> Seq(Pos)]
  BY <1>1, MarkType DEF Listing
<1>3. Listed(A, r) = FlattenSeq(g)
  BY DEF Listed, Listing, Mark
<1> HIDE DEF g
<1>4. g \in Seq(Seq(Pos)) /\ Len(g) = r
  BY <1>1, <1>2, IsSeqOf
<1>5. FlattenSeq(g) \in Seq(Pos)
  BY <1>4, FlattenType
<1> QED
  BY <1>3, <1>4, <1>5 DEF g

\* Of no position, of one more, of sets that agree so far, of positions none of which is listed.
LEMMA ListedNone == \A A : Listed(A, 0) = <<>>
<1> TAKE A
<1>1. [p \in 1 .. 0 |-> IF p \in A THEN <<p>> ELSE <<>>] = <<>>
  OBVIOUS
<1>2. Listed(A, 0) = FlattenSeq(<<>>)
  BY <1>1 DEF Listed
<1> QED
  BY <1>2 DEF FlattenSeq

\* grows by one,
LEMMA ListedMore ==
  ASSUME NEW A, NEW r \in Nat, r + 1 <= MaxLines
  PROVE  Listed(A, r + 1) = Listed(A, r) \o Mark(A, r + 1)
<1> DEFINE m == r + 1
           g == Listing(A, r)
           h == Listing(A, m)
           c == Mark(A, m)
<1>1. r \in 0 .. MaxLines /\ m \in 0 .. MaxLines /\ m \in Pos
  BY BoundsAssumption DEF Pos
<1>2. g \in Seq(Seq(Pos)) /\ Len(g) = r /\ Listed(A, r) = FlattenSeq(g)
  BY <1>1, ListedType
<1>3. h \in Seq(Seq(Pos)) /\ Len(h) = m /\ Listed(A, m) = FlattenSeq(h)
  <2> HIDE DEF m
  <2> QED
    BY <1>1, ListedType
<1>4. c \in Seq(Pos)
  BY <1>1, MarkType
<1>5. (\A p \in 1 .. r : h[p] = g[p]) /\ h[r + 1] = c
  BY <1>1 DEF Listing
<1>6. Len(h) = r + 1
  BY <1>3
<1>7. Listed(A, r + 1) = FlattenSeq(h)
  BY <1>3
<1>a. Mark(A, r + 1) = c
  OBVIOUS
<1> HIDE DEF g, h, c, m
<1>8. h = Append(g, c)
  <2> DEFINE a == Append(g, c)
  <2>1. /\ a \in Seq(Seq(Pos)) /\ Len(a) = r + 1
        /\ (\A p \in 1..r : a[p] = g[p]) /\ a[r + 1] = c
    BY <1>2, <1>4, AppendProperties
  <2> HIDE DEF a
  <2>2. \A p \in 1..Len(h) : h[p] = a[p]
    BY <1>5, <1>6, <2>1
  <2>3. a \in Seq(Seq(Pos)) /\ Len(h) = Len(a)
    BY <1>6, <2>1
  <2> QED
    BY <1>3, <2>2, <2>3, SeqEqual DEF a
<1>9. FlattenSeq(h) = FlattenSeq(g) \o c
  BY <1>2, <1>4, <1>8, FlattenAppend
<1> QED
  BY <1>2, <1>7, <1>9, <1>a

\* depends only on the positions below,
LEMMA ListedSame ==
  ASSUME NEW A, NEW B, NEW r, \A p \in 1 .. r : p \in A <=> p \in B
  PROVE  Listed(A, r) = Listed(B, r)
<1>1. [p \in 1 .. r |-> IF p \in A THEN <<p>> ELSE <<>>]
        = [p \in 1 .. r |-> IF p \in B THEN <<p>> ELSE <<>>]
  OBVIOUS
<1> QED
  BY <1>1 DEF Listed

\* and stays the same over positions that are not in the set.
LEMMA ListedUp ==
  ASSUME NEW A, NEW n \in Nat, NEW m \in Nat, n <= m, m <= MaxLines,
         \A p \in n + 1 .. m : p \notin A
  PROVE  Listed(A, m) = Listed(A, n)
<1> DEFINE T == {k \in Nat : n + k <= m => Listed(A, n + k) = Listed(A, n)}
<1>1. 0 \in T
  OBVIOUS
<1>2. ASSUME NEW k \in Nat, k \in T PROVE k + 1 \in T
  <2> SUFFICES ASSUME n + (k + 1) <= m PROVE Listed(A, n + (k + 1)) = Listed(A, n)
    OBVIOUS
  <2> DEFINE j == n + k
  <2>1. j \in Nat /\ j + 1 <= MaxLines /\ n + (k + 1) = j + 1 /\ j + 1 \in n + 1 .. m /\ j <= m
    BY BoundsAssumption
  <2>2. Listed(A, j) = Listed(A, n)
    BY <1>2, <2>1
  <2>3. Mark(A, j + 1) = <<>>
    BY <2>1 DEF Mark
  <2>4. j \in 0 .. MaxLines
    BY <2>1, BoundsAssumption
  <2> HIDE DEF j
  <2>5. Listed(A, j + 1) = Listed(A, j) \o Mark(A, j + 1)
    BY <2>1, ListedMore
  <2>6. Listed(A, j) \in Seq(Pos)
    BY <2>4, ListedType
  <2> QED
    BY <2>1, <2>2, <2>3, <2>5, <2>6, ConcatEmptySeq
<1> HIDE DEF T
<1>3. m - n \in Nat /\ n + (m - n) = m
  OBVIOUS
<1>4. m - n \in T
  BY <1>1, <1>2, <1>3, Induct
<1> QED
  BY <1>3, <1>4 DEF T

\* The positions of a set among some lines
LEMMA RestType ==
  ASSUME NEW A, NEW ls \in Seq(Line)
  PROVE  /\ Resting(A, ls) \in Seq(Seq(Pos)) /\ Len(Resting(A, ls)) = Len(ls)
         /\ Rest(A, ls) = FlattenSeq(Resting(A, ls)) /\ Rest(A, ls) \in Seq(Pos)
<1> DEFINE g == Resting(A, ls)
           n == Len(ls)
<1>1. n \in Nat /\ DOMAIN ls = 1 .. n
  BY LenProperties
<1>2. ASSUME NEW j \in 1 .. n PROVE Mark(A, ls[j].n) \in Seq(Pos)
  <2>1. ls[j] \in Line
    BY ElementOfSeq
  <2>2. ls[j].n \in Pos
    BY <2>1 DEF Line
  <2> QED
    BY <2>2, MarkType
<1>3. g \in [1 .. n -> Seq(Pos)]
  BY <1>1, <1>2 DEF Resting
<1>4. Rest(A, ls) = FlattenSeq(g)
  BY DEF Rest, Resting, Mark
<1> HIDE DEF g, n
<1>5. g \in Seq(Seq(Pos)) /\ Len(g) = n
  BY <1>1, <1>3, IsSeqOf
<1>6. FlattenSeq(g) \in Seq(Pos)
  BY <1>5, FlattenType
<1> QED
  BY <1>4, <1>5, <1>6 DEF g, n

\* are none of no lines,
LEMMA RestNone == \A A : Rest(A, <<>>) = <<>>
<1> TAKE A
<1>1. DOMAIN <<>> = {}
  OBVIOUS
<1>2. Rest(A, <<>>) = FlattenSeq(<<>>)
  BY <1>1 DEF Rest
<1> QED
  BY <1>2 DEF FlattenSeq

\* depend only on those lines,
LEMMA RestSame ==
  ASSUME NEW A, NEW B, NEW ls, \A j \in DOMAIN ls : ls[j].n \in A <=> ls[j].n \in B
  PROVE  Rest(A, ls) = Rest(B, ls)
<1>1. [j \in DOMAIN ls |-> IF ls[j].n \in A THEN <<ls[j].n>> ELSE <<>>]
        = [j \in DOMAIN ls |-> IF ls[j].n \in B THEN <<ls[j].n>> ELSE <<>>]
  OBVIOUS
<1> QED
  BY <1>1 DEF Rest

\* and grow with them.
LEMMA RestAppend ==
  ASSUME NEW A, NEW ls \in Seq(Line), NEW l \in Line
  PROVE  Rest(A, Append(ls, l)) = Rest(A, ls) \o Mark(A, l.n)
<1> DEFINE T == Append(ls, l)
           g == Resting(A, ls)
           h == Resting(A, T)
           c == Mark(A, l.n)
<1>1. T \in Seq(Line) /\ Len(T) = Len(ls) + 1 /\ T[Len(ls) + 1] = l
      /\ \A p \in 1..Len(ls) : T[p] = ls[p]
  BY AppendProperties
<1>2. g \in Seq(Seq(Pos)) /\ Len(g) = Len(ls) /\ Rest(A, ls) = FlattenSeq(g)
  BY RestType
<1>3. h \in Seq(Seq(Pos)) /\ Len(h) = Len(T) /\ Rest(A, T) = FlattenSeq(h)
  <2> HIDE DEF T
  <2> QED
    BY <1>1, RestType
<1>4. c \in Seq(Pos)
  BY MarkType, LineFields
<1>5. Len(ls) \in Nat /\ DOMAIN ls = 1..Len(ls) /\ DOMAIN T = 1..(Len(ls) + 1)
  BY <1>1, LenProperties
<1>6. \A p \in 1..Len(ls) : h[p] = g[p]
  BY <1>1, <1>5 DEF Resting
<1>7. h[Len(ls) + 1] = c
  BY <1>1, <1>5 DEF Resting
<1> HIDE DEF T, g, h, c
<1>8. h = Append(g, c)
  <2>1. /\ Append(g, c) \in Seq(Seq(Pos)) /\ Len(Append(g, c)) = Len(ls) + 1
        /\ \A p \in 1..Len(ls) : Append(g, c)[p] = g[p]
        /\ Append(g, c)[Len(ls) + 1] = c
    BY <1>2, <1>4, AppendProperties
  <2> DEFINE a == Append(g, c)
  <2> HIDE DEF a
  <2>2. \A p \in 1..Len(h) : h[p] = a[p]
    BY <1>1, <1>3, <1>5, <1>6, <1>7, <2>1 DEF a
  <2>3. a \in Seq(Seq(Pos)) /\ Len(h) = Len(a)
    BY <1>1, <1>3, <2>1 DEF a
  <2> QED
    BY <1>3, <2>2, <2>3, SeqEqual DEF a
<1>9. FlattenSeq(h) = FlattenSeq(g) \o c
  BY <1>2, <1>4, <1>8, FlattenAppend
<1> QED
  BY <1>2, <1>3, <1>9 DEF T, c

\* The first of them, and the rest.
LEMMA RestHead ==
  ASSUME NEW A, NEW ls \in Seq(Line), ls # <<>>
  PROVE  Rest(A, ls) = Mark(A, Head(ls).n) \o Rest(A, Tail(ls))
<1> DEFINE t == Tail(ls)
           n == Len(ls)
           c == Mark(A, Head(ls).n)
           g == Resting(A, ls)
           h == Resting(A, t)
<1>1. /\ Head(ls) \in Line /\ t \in Seq(Line) /\ Len(t) = n - 1 /\ n \in Nat \ {0}
      /\ DOMAIN ls = 1 .. n /\ DOMAIN t = 1 .. n - 1 /\ Head(ls) = ls[1]
      /\ \A j \in 1 .. n - 1 : t[j] = ls[j + 1]
  BY HeadTail
<1>2. c \in Seq(Pos)
  BY <1>1, MarkType, LineFields
<1>3. g \in Seq(Seq(Pos)) /\ Len(g) = n /\ Rest(A, ls) = FlattenSeq(g)
  BY RestType
<1>4. h \in Seq(Seq(Pos)) /\ Len(h) = n - 1 /\ Rest(A, t) = FlattenSeq(h)
  <2> HIDE DEF t
  <2> QED
    BY <1>1, RestType
<1>5. g[1] = c
  BY <1>1 DEF Resting
<1>6. \A j \in 1 .. n - 1 : h[j] = g[j + 1]
  <2> TAKE j \in 1 .. n - 1
  <2>1. j + 1 \in 1 .. n /\ t[j] = ls[j + 1]
    BY <1>1
  <2> QED
    BY <1>1, <2>1 DEF Resting
<1> HIDE DEF t, n, c, g, h
<1> DEFINE o == <<c>>
<1>7. o \in Seq(Seq(Pos)) /\ Len(o) = 1 /\ o[1] = c
  BY <1>2
<1>8. FlattenSeq(o) = c
  <2> DEFINE z == <<>>
  <2>1. z \in Seq(Seq(Pos)) /\ Append(z, c) = o /\ FlattenSeq(z) = <<>>
    BY <1>2, EmptySeq DEF FlattenSeq
  <2> HIDE DEF z
  <2>2. FlattenSeq(Append(z, c)) = FlattenSeq(z) \o c
    BY <1>2, <2>1, FlattenAppend
  <2> QED
    BY <1>2, <2>1, <2>2, ConcatEmptySeq
<1> HIDE DEF o
<1>9. g = o \o h
  <2> DEFINE a == o \o h
  <2>0. o \in Seq(Seq(Pos)) /\ h \in Seq(Seq(Pos))
    BY <1>4, <1>7
  <2>1. /\ a \in Seq(Seq(Pos)) /\ Len(a) = Len(o) + Len(h)
        /\ \A i \in 1 .. Len(o) + Len(h) : a[i] = IF i <= Len(o) THEN o[i] ELSE h[i - Len(o)]
    BY <2>0, ConcatProperties
  <2> HIDE DEF a
  <2>2. Len(a) = Len(g) /\ Len(o) + Len(h) = n
    BY <1>1, <1>3, <1>4, <1>7, <2>1
  <2>3. ASSUME NEW i \in 1 .. n PROVE g[i] = a[i]
    <3>1. CASE i = 1
      BY <1>1, <1>5, <1>7, <2>1, <2>2, <3>1
    <3>2. CASE i # 1
      <4>1. i - 1 \in 1 .. n - 1 /\ (i - 1) + 1 = i /\ ~ (i <= Len(o)) /\ i - Len(o) = i - 1
        BY <1>1, <1>7, <3>2
      <4>2. a[i] = h[i - 1]
        BY <2>1, <2>2, <4>1
      <4> QED
        BY <1>6, <4>1, <4>2
    <3> QED
      BY <3>1, <3>2
  <2> QED
    BY <1>3, <2>1, <2>2, <2>3, SeqEqual DEF a
<1>10. FlattenSeq(o \o h) = FlattenSeq(o) \o FlattenSeq(h)
  BY <1>4, <1>7, FlattenConcat
<1> QED
  BY <1>3, <1>4, <1>8, <1>9, <1>10 DEF t, c

\* The lines an adapter keeps are those that are owed, and some that are not.
LEMMA RestRewritten ==
  ASSUME NEW A, NEW ls \in Seq(Line),
         \A j \in DOMAIN ls : ls[j].n \in A => Rewrite(ls[j]) = <<ls[j]>>
  PROVE  Rest(A, Rewritten(ls)) = Rest(A, ls)
<1> DEFINE K(s) == \A j \in DOMAIN s : s[j].n \in A => Rewrite(s[j]) = <<s[j]>>
           P(s) == Rest(A, Rewritten(s)) = Rest(A, s)
           T == {n \in Nat : \A s \in Seq(Line) : Len(s) = n /\ K(s) => P(s)}
<1>1. 0 \in T
  <2> SUFFICES ASSUME NEW s \in Seq(Line), Len(s) = 0 PROVE P(s)
    OBVIOUS
  <2>1. s = <<>>
    BY EmptySeq
  <2>2. DOMAIN s = {}
    BY <2>1
  <2>3. Rewritten(s) = FlattenSeq(<<>>)
    BY <2>2 DEF Rewritten
  <2>4. Rewritten(s) = <<>>
    BY <2>3 DEF FlattenSeq
  <2> QED
    BY <2>1, <2>4
<1>2. ASSUME NEW n \in Nat, n \in T PROVE n + 1 \in T
  <2> SUFFICES ASSUME NEW s \in Seq(Line), Len(s) = n + 1, K(s) PROVE P(s)
    OBVIOUS
  <2>1. s # <<>>
    BY EmptySeq
  <2>2. PICK r \in Seq(Line), l \in Line : s = Append(r, l)
    BY <2>1, SequenceEmptyOrAppend, SMTT(40)
  <2>3. /\ Len(s) = Len(r) + 1 /\ s[Len(r) + 1] = l
        /\ \A p \in 1..Len(r) : s[p] = r[p]
        /\ DOMAIN s = 1 .. Len(r) + 1 /\ DOMAIN r = 1 .. Len(r) /\ Len(r) \in Nat
    <3>1. s \in Seq(Line) /\ Len(s) = Len(r) + 1 /\ s[Len(r) + 1] = l
          /\ \A p \in 1..Len(r) : s[p] = r[p]
      BY <2>2, AppendProperties
    <3> QED
      BY <3>1, LenProperties
  <2>4. P(r)
    <3> DEFINE m == Len(r)
    <3>0. m \in Nat /\ n + 1 = m + 1
      BY <2>3
    <3> HIDE DEF m
    <3>2. m = n
      BY <3>0
    <3>1. Len(r) = n
      BY <3>2 DEF m
    <3>3. K(r)
      BY <2>3
    <3> QED
      BY <1>2, <3>1, <3>3
  <2>5. l.n \in A => Rewrite(l) = <<l>>
    <3>1. Len(r) + 1 \in DOMAIN s
      BY <2>3
    <3> QED
      BY <2>3, <3>1
  <2>6. Rest(A, s) = Rest(A, r) \o Mark(A, l.n)
    BY <2>2, RestAppend
  <2> DEFINE a == Rewritten(r)
             b == Rewrite(l)
             x == b[1]
  <2>7. Rewritten(s) = a \o b /\ a \in Seq(Line)
    BY <2>2, RewrittenAppend, RewrittenType
  <2>8. b = <<>> \/ b = <<x>>
    BY RewriteType
  <2>9. b = <<x>> => x \in Line /\ x.n = l.n
    BY RewriteIs DEF Matches
  <2>10. Rest(A, a) = Rest(A, r)
    BY <2>4
  <2>11. l.n \in A => b # <<>>
    <3>1. \A u : <<u>> # <<>>
      OBVIOUS
    <3> QED
      BY <2>5, <3>1
  <2> HIDE DEF a, b, x
  <2>12. CASE b = <<x>>
    <3>1. x \in Line /\ x.n = l.n
      BY <2>9, <2>12
    <3>2. a \o b = Append(a, x)
      BY <2>7, <2>12, <3>1
    <3>3. Rest(A, Append(a, x)) = Rest(A, a) \o Mark(A, x.n)
      BY <2>7, <3>1, RestAppend
    <3> QED
      BY <2>6, <2>7, <2>10, <3>1, <3>2, <3>3
  <2>13. CASE b = <<>>
    <3>1. Mark(A, l.n) = <<>>
      BY <2>11, <2>13 DEF Mark
    <3>2. a \o b = a
      BY <2>7, <2>13, ConcatEmptySeq
    <3>3. Rest(A, r) \in Seq(Pos)
      BY RestType
    <3>4. Rest(A, r) \o <<>> = Rest(A, r)
      BY <3>3, ConcatEmptySeq
    <3> QED
      BY <2>6, <2>7, <2>10, <3>1, <3>2, <3>4
  <2> QED
    BY <2>8, <2>12, <2>13
<1> HIDE DEF T
<1>3. Len(ls) \in Nat
  BY LenProperties
<1>4. Len(ls) \in T
  BY <1>1, <1>2, <1>3, Induct
<1> QED
  BY <1>4 DEF T

\* Lines that follow b are listed after it.
LEMMA ListedRest ==
  ASSUME NEW A, NEW ls \in Seq(Line), NEW b \in Nat, b + Len(ls) <= MaxLines,
         \A j \in 1 .. Len(ls) : ls[j].n = b + j
  PROVE  Listed(A, b + Len(ls)) = Listed(A, b) \o Rest(A, ls)
<1> DEFINE K(s) == b + Len(s) <= MaxLines /\ \A j \in 1 .. Len(s) : s[j].n = b + j
           P(s) == Listed(A, b + Len(s)) = Listed(A, b) \o Rest(A, s)
           T == {n \in Nat : \A s \in Seq(Line) : Len(s) = n /\ K(s) => P(s)}
<1>0. b \in 0 .. MaxLines
  <2>1. Len(ls) \in Nat
    BY LenProperties
  <2> QED
    BY <2>1, BoundsAssumption
<1>1. 0 \in T
  <2> SUFFICES ASSUME NEW s \in Seq(Line), Len(s) = 0 PROVE P(s)
    OBVIOUS
  <2>1. s = <<>>
    BY EmptySeq
  <2>2. Rest(A, s) = <<>>
    BY <2>1, RestNone
  <2>3. Listed(A, b) \in Seq(Pos) /\ b + Len(s) = b
    BY <1>0, ListedType
  <2> QED
    BY <2>2, <2>3, ConcatEmptySeq
<1>2. ASSUME NEW n \in Nat, n \in T PROVE n + 1 \in T
  <2> HIDE DEF K, P
  <2> SUFFICES ASSUME NEW s \in Seq(Line), Len(s) = n + 1, K(s) PROVE P(s)
    OBVIOUS
  <2> USE DEF K, P
  <2>1. s # <<>>
    BY EmptySeq
  <2>2. PICK r \in Seq(Line), l \in Line : s = Append(r, l)
    BY <2>1, SequenceEmptyOrAppend
  <2>3. /\ Len(s) = Len(r) + 1 /\ s[Len(r) + 1] = l
        /\ \A p \in 1..Len(r) : s[p] = r[p]
        /\ Len(r) \in Nat
    BY <2>2, AppendProperties, LenProperties
  <2> DEFINE m == Len(r)
  <2>a. m \in Nat /\ n + 1 = m + 1
    BY <2>3
  <2> HIDE DEF m
  <2>b. m = n
    BY <2>a
  <2>c. Len(r) = n
    BY <2>b DEF m
  <2>4. P(r)
    <3>1. b + n <= MaxLines
      BY <2>c, BoundsAssumption
    <3>2. \A j \in 1 .. n : j \in 1 .. n + 1 /\ r[j].n = b + j
      BY <2>3, <2>c
    <3> QED
      BY <1>2, <2>c, <3>1, <3>2
  <2>5. l.n = b + (n + 1)
    <3>1. n + 1 \in 1 .. Len(s)
      OBVIOUS
    <3> QED
      BY <2>3, <2>c, <3>1
  <2> DEFINE k == b + n
  <2>6. k \in Nat /\ k + 1 <= MaxLines /\ b + (n + 1) = k + 1
    OBVIOUS
  <2>7. Listed(A, k) = Listed(A, b) \o Rest(A, r)
    BY <2>4, <2>c
  <2>8. l.n = k + 1 /\ b + Len(s) = k + 1
    BY <2>5, <2>6
  <2> HIDE DEF k
  <2>9. Listed(A, k + 1) = Listed(A, k) \o Mark(A, k + 1)
    BY <2>6, ListedMore
  <2>10. Rest(A, s) = Rest(A, r) \o Mark(A, l.n)
    BY <2>2, RestAppend
  <2> DEFINE x == Listed(A, b)
             y == Rest(A, r)
             z == Mark(A, l.n)
  <2>11. x \in Seq(Pos) /\ y \in Seq(Pos) /\ z \in Seq(Pos)
    BY <1>0, ListedType, RestType, MarkType, LineFields
  <2> HIDE DEF x, y, z
  <2>12. (x \o y) \o z = x \o (y \o z)
    BY ONLY <2>11, Assoc
  <2> QED
    BY <2>7, <2>8, <2>9, <2>10, <2>12 DEF x, y, z
<1> HIDE DEF T
<1>3. Len(ls) \in Nat
  BY LenProperties
<1>4. Len(ls) \in T
  BY <1>1, <1>2, <1>3, Induct
<1> QED
  BY <1>4 DEF T

-----------------------------------------------------------------------------
(* One event more, and what was said of the events before it.               *)

\* The events before are the same,
LEMMA EarlierMore ==
  ASSUME NEW S \in Seq(Events), NEW x \in Events, NEW T, T = Append(S, x)
  PROVE  /\ T \in Seq(Events) /\ Len(S) \in Nat /\ Len(T) = Len(S) + 1
         /\ DOMAIN S = 1 .. Len(S) /\ DOMAIN T = 1 .. Len(S) + 1
         /\ T[Len(S) + 1] = x /\ \A p \in 1 .. Len(S) : T[p] = S[p] /\ S[p] \in Events
         /\ \A e : \A p \in 1 .. Len(S) + 1 : Earlier(T, p, e) = Earlier(S, p, e)
<1> DEFINE n == Len(S)
<1>1. /\ T \in Seq(Events) /\ n \in Nat /\ Len(T) = n + 1
      /\ T[n + 1] = x /\ \A p \in 1 .. n : T[p] = S[p]
  BY AppendProperties, LenProperties
<1>2. DOMAIN S = 1 .. n /\ DOMAIN T = 1 .. n + 1 /\ \A p \in 1 .. n : S[p] \in Events
  BY <1>1, LenProperties, ElementOfSeq
<1> HIDE DEF n
<1>3. ASSUME NEW e, NEW p \in 1 .. n + 1 PROVE Earlier(T, p, e) = Earlier(S, p, e)
  <2>1. \A q \in 1 .. p - 1 : q \in 1 .. n
    BY <1>1
  <2>2. \A q \in 1 .. p - 1 : T[q] = S[q]
    BY <1>1, <2>1
  <2> QED
    BY <2>2 DEF Earlier
<1> QED
  BY <1>1, <1>2, <1>3 DEF n

\* their number grows by the event,
LEMMA EarlierCount ==
  ASSUME NEW S \in Seq(Events), NEW x \in Events, NEW T, T = Append(S, x), NEW e \in Names
  PROVE  /\ Cardinality(Earlier(S, Len(S) + 1, e)) \in Nat
         /\ Cardinality(Earlier(T, Len(T) + 1, e)) =
               Cardinality(Earlier(S, Len(S) + 1, e)) + (IF x.e = e THEN 1 ELSE 0)
<1> DEFINE n == Len(S)
<1>a. /\ n \in Nat /\ Len(T) = n + 1
      /\ T[n + 1] = x /\ \A p \in 1 .. n : T[p] = S[p]
  BY EarlierMore
<1> HIDE DEF n
<1> DEFINE C == Earlier(S, n + 1, e)
           D == Earlier(T, Len(T) + 1, e)
<1>1. IsFiniteSet(1 .. n)
  BY <1>a, FS_Interval
<1>2. \A q : q \in C <=> q \in 1 .. n /\ S[q].e = e
  BY <1>a DEF Earlier
<1>3. \A q : q \in D <=> q \in 1 .. n + 1 /\ T[q].e = e
  BY <1>a DEF Earlier
<1> HIDE DEF C, D, n
<1>4. IsFiniteSet(C)
  BY <1>1, <1>2, FS_Subset
<1>5. Cardinality(C) \in Nat
  BY <1>4, FS_CardinalityType
<1>6. CASE x.e = e
  <2>1. D = C \cup {n + 1} /\ n + 1 \notin C
    <3>1. ASSUME NEW q PROVE q \in D <=> q \in C \/ q = n + 1
      <4>1. CASE q = n + 1
        BY <1>a, <1>3, <1>6, <4>1
      <4>2. CASE q # n + 1
        <5>1. q \in 1 .. n + 1 <=> q \in 1 .. n
          BY <1>a, <4>2
        <5> QED
          BY <1>a, <1>2, <1>3, <4>2, <5>1
      <4> QED
        BY <4>1, <4>2
    <3>2. n + 1 \notin 1 .. n
      BY <1>a
    <3> QED
      BY <1>2, <3>1, <3>2
  <2>2. Cardinality(C \cup {n + 1}) = Cardinality(C) + 1
    BY <1>4, <2>1, FS_AddElement
  <2> QED
    BY <1>5, <1>6, <2>1, <2>2 DEF C, D, n
<1>7. CASE x.e # e
  <2>1. ASSUME NEW q PROVE q \in D <=> q \in C
    <3>1. CASE q = n + 1
      <4>1. n + 1 \notin 1 .. n
        BY <1>a
      <4> QED
        BY <1>a, <1>2, <1>3, <1>7, <3>1, <4>1
    <3>2. CASE q # n + 1
      <4>1. q \in 1 .. n + 1 <=> q \in 1 .. n
        BY <1>a, <3>2
      <4> QED
        BY <1>a, <1>2, <1>3, <4>1
    <3> QED
      BY <3>1, <3>2
  <2>2. D = C
    BY <2>1
  <2> QED
    BY <1>5, <1>7, <2>2 DEF C, D, n
<1> QED
  BY <1>6, <1>7 DEF n

\* an event that followed still follows,
LEMMA ItemEventMore ==
  ASSUME NEW S \in Seq(Events), NEW x \in Events, NEW p \in 1 .. Len(S), ItemEvent(S, p)
  PROVE  ItemEvent(Append(S, x), p)
<1> DEFINE T == Append(S, x)
<1>0. T = Append(S, x)
  OBVIOUS
<1> HIDE DEF T
<1>b. Len(S) \in Nat /\ \A q \in 1 .. Len(S) : T[q] = S[q]
  BY <1>0, EarlierMore
<1>a. ASSUME NEW e, NEW q \in 1 .. Len(S) + 1 PROVE Earlier(T, q, e) = Earlier(S, q, e)
  <2>1. \A i \in 1 .. q - 1 : i \in 1 .. Len(S)
    BY <1>b
  <2>2. \A i \in 1 .. q - 1 : T[i] = S[i]
    BY <1>b, <2>1
  <2> QED
    BY <2>2 DEF Earlier
<1>1. /\ Len(S) \in Nat /\ \A q \in 1 .. Len(S) : T[q] = S[q]
      /\ \A e : \A q \in 1 .. Len(S) + 1 : Earlier(T, q, e) = Earlier(S, q, e)
  BY <1>a, <1>b
<1>2. p \in 1 .. Len(S) + 1
  BY <1>1
<1>3. \A e : Earlier(T, p, e) = Earlier(S, p, e)
  BY <1>1, <1>2
<1>4. T[p] = S[p]
  BY <1>1
<1>5. \A q \in Earlier(S, p, "open") : T[q] = S[q]
  <2>1. \A q \in 1 .. p - 1 : q \in 1 .. Len(S)
    BY <1>1
  <2> QED
    BY <1>1, <2>1 DEF Earlier
<1>6. ItemEvent(T, p)
  BY <1>3, <1>4, <1>5 DEF ItemEvent
<1> QED
  BY <1>6 DEF T

\* and a done event adds up as before unless its item has another delta.
LEMMA AddsMore ==
  ASSUME NEW S \in Seq(Events), NEW x \in Events, NEW p \in 1 .. Len(S), NEW leaks,
         Adds(S, p, leaks), x.e = "delta" => x.i # S[p].i
  PROVE  Adds(Append(S, x), p, leaks)
<1> DEFINE T == Append(S, x)
           I == {S[p].i}
<1>1. /\ DOMAIN T = 1 .. Len(S) + 1 /\ T[Len(S) + 1] = x /\ DOMAIN S = 1 .. Len(S)
      /\ \A q \in 1 .. Len(S) : T[q] = S[q]
      /\ Len(S) \in Nat
  BY EarlierMore
<1>2. T[p] = S[p]
  BY <1>1
<1>3. Gathered(T, "delta", I) = Gathered(S, "delta", I)
  <2> DEFINE c == Gathered(S, "delta", I)
             g == Gain(x, "delta", I)
  <2>1. g = <<>>
    BY DEF Gain
  <2> HIDE DEF I
  <2>2. Gathered(T, "delta", I) = c \o g /\ c \in Seq(Pos)
    BY GatherAppend
  <2> HIDE DEF c, g
  <2>3. c \o <<>> = c
    BY <2>2, ConcatEmptySeq
  <2> QED
    BY <2>1, <2>2, <2>3 DEF c
<1>4. (\A q \in DOMAIN S : S[q].e = "delta" => S[q].i # S[p].i) =>
         \A q \in DOMAIN T : T[q].e = "delta" => T[q].i # T[p].i
  <2> SUFFICES ASSUME \A q \in DOMAIN S : S[q].e = "delta" => S[q].i # S[p].i,
                      NEW q \in DOMAIN T
               PROVE  T[q].e = "delta" => T[q].i # T[p].i
    OBVIOUS
  <2> HIDE DEF T
  <2>1. CASE q = Len(S) + 1
    BY <1>1, <1>2, <2>1
  <2>2. CASE q # Len(S) + 1
    <3>1. q \in 1 .. Len(S)
      BY <1>1, <2>2
    <3> QED
      BY <1>1, <1>2, <3>1
  <2> QED
    BY <2>1, <2>2
<1> HIDE DEF T
<1>5. Adds(T, p, leaks)
  BY <1>2, <1>3, <1>4 DEF Adds
<1> QED
  BY <1>5 DEF T

\* Events that carry nothing gather to nothing.
LEMMA GatherNothing ==
  ASSUME NEW S \in Seq(Events), NEW e, NEW I, \A p \in DOMAIN S : ~(S[p].e = e /\ S[p].i \in I)
  PROVE  Gathered(S, e, I) = <<>>
<1> DEFINE K(s) == \A p \in DOMAIN s : ~(s[p].e = e /\ s[p].i \in I)
           P(s) == Gathered(s, e, I) = <<>>
           T == {n \in Nat : \A s \in Seq(Events) : Len(s) = n /\ K(s) => P(s)}
<1>1. 0 \in T
  <2> SUFFICES ASSUME NEW s \in Seq(Events), Len(s) = 0 PROVE P(s)
    OBVIOUS
  <2>1. s = <<>>
    BY EmptySeq
  <2> QED
    BY <2>1, GatherNone
<1>2. ASSUME NEW n \in Nat, n \in T PROVE n + 1 \in T
  <2> SUFFICES ASSUME NEW s \in Seq(Events), Len(s) = n + 1, K(s) PROVE P(s)
    OBVIOUS
  <2>1. s # <<>>
    BY EmptySeq
  <2>2. PICK r \in Seq(Events), x \in Events : s = Append(r, x)
    BY <2>1, SequenceEmptyOrAppend
  <2>3. /\ Len(s) = Len(r) + 1 /\ s[Len(r) + 1] = x
        /\ \A p \in 1..Len(r) : s[p] = r[p]
        /\ DOMAIN s = 1 .. Len(r) + 1 /\ DOMAIN r = 1 .. Len(r) /\ Len(r) \in Nat
    BY <2>2, EarlierMore
  <2> DEFINE m == Len(r)
  <2>a. m \in Nat /\ n + 1 = m + 1
    BY <2>3
  <2> HIDE DEF m
  <2>b. m = n
    BY <2>a
  <2>c. Len(r) = n
    BY <2>b DEF m
  <2>4. P(r)
    <3>1. K(r)
      BY <2>3
    <3> QED
      BY <1>2, <2>c, <3>1
  <2>5. Gain(x, e, I) = <<>>
    <3>1. Len(r) + 1 \in DOMAIN s
      BY <2>3
    <3> QED
      BY <2>3, <3>1 DEF Gain
  <2>6. Gathered(s, e, I) = Gathered(r, e, I) \o Gain(x, e, I)
    BY <2>2, GatherAppend
  <2> QED
    BY <2>4, <2>5, <2>6
<1> HIDE DEF T
<1>3. Len(S) \in Nat
  BY LenProperties
<1>4. Len(S) \in T
  BY <1>1, <1>2, <1>3, Induct
<1> QED
  BY <1>4 DEF T

\* The items opened and closed so far.
Opened(S) == Cardinality(Earlier(S, Len(S) + 1, "open"))
Closed(S) == Cardinality(Earlier(S, Len(S) + 1, "close"))

\* They are numbers, and an opening or closing raises them.
LEMMA CountMore ==
  ASSUME NEW S \in Seq(Events), NEW x \in Events
  PROVE  /\ Opened(S) \in Nat /\ Closed(S) \in Nat
         /\ Opened(Append(S, x)) = Opened(S) + (IF x.e = "open" THEN 1 ELSE 0)
         /\ Closed(Append(S, x)) = Closed(S) + (IF x.e = "close" THEN 1 ELSE 0)
<1> DEFINE T == Append(S, x)
<1>1. T = Append(S, x)
  OBVIOUS
<1> HIDE DEF T
<1>2. /\ Cardinality(Earlier(S, Len(S) + 1, "open")) \in Nat
      /\ Cardinality(Earlier(T, Len(T) + 1, "open")) =
            Cardinality(Earlier(S, Len(S) + 1, "open")) + (IF x.e = "open" THEN 1 ELSE 0)
  BY <1>1, EarlierCount DEF Names
<1>3. /\ Cardinality(Earlier(S, Len(S) + 1, "close")) \in Nat
      /\ Cardinality(Earlier(T, Len(T) + 1, "close")) =
            Cardinality(Earlier(S, Len(S) + 1, "close")) + (IF x.e = "close" THEN 1 ELSE 0)
  BY <1>1, EarlierCount DEF Names
<1> QED
  BY <1>1, <1>2, <1>3 DEF Opened, Closed

\* What ItemsFollow says of the last event, by the counts before it.
LEMMA ItemEventLast ==
  ASSUME NEW S \in Seq(Events), NEW x \in Events,
         x.e = "open" => Opened(S) = Closed(S) /\ x.i = Closed(S),
         x.e \in {"delta", "close"} =>
             /\ Opened(S) = Closed(S) + 1 /\ x.i = Closed(S)
             /\ \A q \in DOMAIN S : S[q].e = "open" /\ S[q].i = x.i => S[q].k = x.k,
         x.e \in {"completed", "incomplete"} => Opened(S) = Closed(S) /\ x.i = Closed(S)
  PROVE  ItemEvent(Append(S, x), Len(S) + 1)
<1> DEFINE T == Append(S, x)
           n == Len(S) + 1
<1>0. T = Append(S, x)
  OBVIOUS
<1> HIDE DEF T
<1>1. /\ Len(S) \in Nat /\ DOMAIN S = 1 .. Len(S) /\ T[n] = x
      /\ \A q \in 1 .. Len(S) : T[q] = S[q]
  BY <1>0, EarlierMore
<1>2. ASSUME NEW e PROVE Earlier(T, n, e) = Earlier(S, n, e)
  <2>1. \A i \in 1 .. n - 1 : i \in 1 .. Len(S)
    BY <1>1
  <2>2. \A i \in 1 .. n - 1 : T[i] = S[i]
    BY <1>1, <2>1
  <2> HIDE DEF n
  <2> QED
    BY <2>2 DEF Earlier
<1>3. /\ Cardinality(Earlier(T, n, "open")) = Opened(S)
      /\ Cardinality(Earlier(T, n, "close")) = Closed(S)
  BY <1>2 DEF Opened, Closed
<1>4. ASSUME NEW q \in Earlier(T, n, "open") PROVE q \in DOMAIN S /\ S[q].e = "open" /\ T[q] = S[q]
  <2>1. q \in 1 .. n - 1 /\ T[q].e = "open"
    BY DEF Earlier
  <2>2. q \in 1 .. Len(S)
    BY <1>1, <2>1
  <2> QED
    BY <1>1, <2>1, <2>2
<1> DEFINE o == Cardinality(Earlier(T, n, "open"))
           c == Cardinality(Earlier(T, n, "close"))
<1>5. o = Opened(S) /\ c = Closed(S)
  BY <1>3
<1>6. ItemEvent(T, n) <=>
        /\ T[n].e = "open" => o = c /\ T[n].i = c
        /\ T[n].e \in {"delta", "close"} =>
              /\ o = c + 1 /\ T[n].i = c
              /\ \A q \in Earlier(T, n, "open") : T[q].i = T[n].i => T[q].k = T[n].k
        /\ T[n].e \in {"completed", "incomplete"} => o = c /\ T[n].i = c
  BY DEF ItemEvent
<1> HIDE DEF o, c, n
<1>7. ItemEvent(T, n)
  BY <1>1, <1>4, <1>5, <1>6
<1> QED
  BY <1>0, <1>7 DEF n

\* The parts of Sound.
LEMMA SoundIs ==
  ASSUME NEW S, NEW cur, NEW its, NEW leaks
  PROVE  Sound(S, cur, its, leaks) <=>
            /\ cur.k = "none" => cur = NoItem
            /\ Closed(S) = Len(its)
            /\ Opened(S) = IF cur = NoItem THEN Len(its) ELSE Len(its) + 1
            /\ Gathered(S, "delta", {Len(its)}) = cur.c
            /\ \A p \in DOMAIN S :
                  /\ ItemEvent(S, p)
                  /\ S[p].e = "open" =>
                       S[p].i < Len(its) \/ (cur # NoItem /\ S[p].i = Len(its) /\ S[p].k = cur.k)
                  /\ S[p].e = "delta" => S[p].i < Len(its) \/ (cur # NoItem /\ S[p].i = Len(its))
                  /\ S[p].e = "close" => S[p].i < Len(its) /\ Adds(S, p, leaks)
BY DEF Sound, Opened, Closed

\* An event that is not about an item.
LEMMA SoundOther ==
  ASSUME NEW S \in Seq(Events), NEW cur \in Item, NEW its \in Seq(Item), NEW leaks,
         NEW x \in Events, Sound(S, cur, its, leaks), x.e \notin {"open", "delta", "close"},
         x.e \in {"completed", "incomplete"} => cur = NoItem /\ x.i = Len(its)
  PROVE  Sound(Append(S, x), cur, its, leaks)
<1> DEFINE T == Append(S, x)
           n == Len(S)
           m == Len(its)
           I == {m}
<1>1. /\ n \in Nat /\ DOMAIN S = 1 .. n /\ DOMAIN T = 1 .. n + 1
      /\ T[n + 1] = x /\ \A p \in 1 .. n : T[p] = S[p] /\ S[p] \in Events
  BY EarlierMore
<1>2. Opened(T) = Opened(S) /\ Closed(T) = Closed(S) /\ Opened(S) \in Nat /\ Closed(S) \in Nat
  BY CountMore
<1>3. Gathered(T, "delta", I) = Gathered(S, "delta", I)
  <2> DEFINE c == Gathered(S, "delta", I)
             g == Gain(x, "delta", I)
  <2>1. g = <<>>
    BY DEF Gain
  <2> HIDE DEF I
  <2>2. Gathered(T, "delta", I) = c \o g /\ c \in Seq(Pos)
    BY GatherAppend
  <2> HIDE DEF c, g
  <2>3. c \o <<>> = c
    BY <2>2, ConcatEmptySeq
  <2> QED
    BY <2>1, <2>2, <2>3 DEF c
<1>4. /\ cur.k = "none" => cur = NoItem
      /\ Closed(S) = m
      /\ Opened(S) = IF cur = NoItem THEN m ELSE m + 1
      /\ Gathered(S, "delta", I) = cur.c
      /\ \A p \in 1 .. n :
            /\ ItemEvent(S, p)
            /\ S[p].e = "open" => S[p].i < m \/ (cur # NoItem /\ S[p].i = m /\ S[p].k = cur.k)
            /\ S[p].e = "delta" => S[p].i < m \/ (cur # NoItem /\ S[p].i = m)
            /\ S[p].e = "close" => S[p].i < m /\ Adds(S, p, leaks)
  BY <1>1, SoundIs
<1>5. ItemEvent(T, n + 1)
  <2>1. x.e \in {"completed", "incomplete"} => Opened(S) = Closed(S) /\ x.i = Closed(S)
    BY <1>4
  <2> QED
    BY <2>1, ItemEventLast
<1>6. \A p \in 1 .. n : ItemEvent(T, p)
  BY <1>4, ItemEventMore
<1>7. \A p \in 1 .. n : S[p].e = "close" => Adds(T, p, leaks)
  BY <1>4, AddsMore
<1> HIDE DEF T, n, m, I
<1>8. ASSUME NEW p \in 1 .. n + 1
      PROVE  /\ ItemEvent(T, p)
             /\ T[p].e = "open" => T[p].i < m \/ (cur # NoItem /\ T[p].i = m /\ T[p].k = cur.k)
             /\ T[p].e = "delta" => T[p].i < m \/ (cur # NoItem /\ T[p].i = m)
             /\ T[p].e = "close" => T[p].i < m /\ Adds(T, p, leaks)
  <2>1. CASE p = n + 1
    BY <1>1, <1>5, <2>1
  <2>2. CASE p # n + 1
    <3>1. p \in 1 .. n
      BY <1>1, <2>2
    <3> QED
      BY <1>1, <1>4, <1>6, <1>7, <3>1
  <2> QED
    BY <2>1, <2>2
<1>9. Closed(T) = m /\ Opened(T) = (IF cur = NoItem THEN m ELSE m + 1)
      /\ Gathered(T, "delta", I) = cur.c
  BY <1>2, <1>3, <1>4
<1>10. Sound(T, cur, its, leaks)
  BY <1>1, <1>4, <1>8, <1>9, SoundIs DEF m, I
<1> QED
  BY <1>10 DEF T

\* An item is opened when none is.
LEMMA SoundOpen ==
  ASSUME NEW S \in Seq(Events), NEW its \in Seq(Item), NEW leaks, NEW x \in Events, NEW cur,
         Sound(S, NoItem, its, leaks), x.e = "open", x.i = Len(its), cur.k = x.k, cur.k # "none",
         cur.c = <<>>
  PROVE  Sound(Append(S, x), cur, its, leaks)
<1> DEFINE T == Append(S, x)
           n == Len(S)
           m == Len(its)
           I == {m}
<1>1. /\ n \in Nat /\ DOMAIN S = 1 .. n /\ DOMAIN T = 1 .. n + 1
      /\ T[n + 1] = x /\ \A p \in 1 .. n : T[p] = S[p] /\ S[p] \in Events
  BY EarlierMore
<1>2. Opened(T) = Opened(S) + 1 /\ Closed(T) = Closed(S)
      /\ Opened(S) \in Nat /\ Closed(S) \in Nat
  BY CountMore
<1>3. Gathered(T, "delta", I) = Gathered(S, "delta", I)
  <2> DEFINE c == Gathered(S, "delta", I)
             g == Gain(x, "delta", I)
  <2>1. g = <<>>
    BY DEF Gain
  <2> HIDE DEF I
  <2>2. Gathered(T, "delta", I) = c \o g /\ c \in Seq(Pos)
    BY GatherAppend
  <2> HIDE DEF c, g
  <2>3. c \o <<>> = c
    BY <2>2, ConcatEmptySeq
  <2> QED
    BY <2>1, <2>2, <2>3 DEF c
<1>4. /\ Closed(S) = m /\ Opened(S) = m
      /\ Gathered(S, "delta", I) = <<>>
      /\ \A p \in 1 .. n :
            /\ ItemEvent(S, p)
            /\ S[p].e = "open" => S[p].i < m
            /\ S[p].e = "delta" => S[p].i < m
            /\ S[p].e = "close" => S[p].i < m /\ Adds(S, p, leaks)
  BY <1>1, SoundIs, NoItemIs
<1>5. ItemEvent(T, n + 1)
  <2>1. Opened(S) = Closed(S) /\ x.i = Closed(S)
    BY <1>4
  <2> QED
    BY <2>1, ItemEventLast
<1>6. \A p \in 1 .. n : ItemEvent(T, p)
  BY <1>4, ItemEventMore
<1>7. \A p \in 1 .. n : S[p].e = "close" => Adds(T, p, leaks)
  BY <1>4, AddsMore
<1>8. cur # NoItem
  BY NoItemIs
<1>m. m \in Nat /\ x.i = m
  BY LenProperties
<1> HIDE DEF T, n, m, I
<1>9. ASSUME NEW p \in 1 .. n + 1
      PROVE  /\ ItemEvent(T, p)
             /\ T[p].e = "open" => T[p].i < m \/ (cur # NoItem /\ T[p].i = m /\ T[p].k = cur.k)
             /\ T[p].e = "delta" => T[p].i < m \/ (cur # NoItem /\ T[p].i = m)
             /\ T[p].e = "close" => T[p].i < m /\ Adds(T, p, leaks)
  <2>1. CASE p = n + 1
    BY <1>1, <1>5, <1>8, <1>m, <2>1
  <2>2. CASE p # n + 1
    <3>1. p \in 1 .. n
      BY <1>1, <2>2
    <3> QED
      BY <1>1, <1>4, <1>6, <1>7, <3>1
  <2> QED
    BY <2>1, <2>2
<1>10. Closed(T) = m /\ Opened(T) = m + 1 /\ Gathered(T, "delta", I) = cur.c
  BY <1>2, <1>3, <1>4
<1>11. Sound(T, cur, its, leaks)
  BY <1>1, <1>8, <1>9, <1>10, SoundIs DEF m, I
<1> QED
  BY <1>11 DEF T

\* The open item gets more.
LEMMA SoundDelta ==
  ASSUME NEW S \in Seq(Events), NEW its \in Seq(Item), NEW leaks, NEW x \in Events,
         NEW old, NEW cur, old # NoItem, cur.k # "none",
         Sound(S, old, its, leaks), x.e = "delta", x.i = Len(its), x.k = old.k, cur.k = old.k,
         cur.c = old.c \o x.c
  PROVE  Sound(Append(S, x), cur, its, leaks)
<1> DEFINE T == Append(S, x)
           n == Len(S)
           m == Len(its)
           I == {m}
<1>1. /\ n \in Nat /\ DOMAIN S = 1 .. n /\ DOMAIN T = 1 .. n + 1
      /\ T[n + 1] = x /\ \A p \in 1 .. n : T[p] = S[p] /\ S[p] \in Events
  BY EarlierMore
<1>2. Opened(T) = Opened(S) /\ Closed(T) = Closed(S)
      /\ Opened(S) \in Nat /\ Closed(S) \in Nat
  BY CountMore
<1>3. Gathered(T, "delta", I) = Gathered(S, "delta", I) \o x.c
  <2> DEFINE g == Gain(x, "delta", I)
  <2>1. g = x.c
    BY DEF Gain
  <2> HIDE DEF I
  <2>2. Gathered(T, "delta", I) = Gathered(S, "delta", I) \o g
    BY GatherAppend
  <2> QED
    BY <2>1, <2>2
<1>4. /\ Closed(S) = m /\ Opened(S) = m + 1
      /\ Gathered(S, "delta", I) = old.c
      /\ \A p \in 1 .. n :
            /\ ItemEvent(S, p)
            /\ S[p].e = "open" => S[p].i < m \/ (S[p].i = m /\ S[p].k = old.k)
            /\ S[p].e = "delta" => S[p].i < m \/ S[p].i = m
            /\ S[p].e = "close" => S[p].i < m /\ Adds(S, p, leaks)
  BY <1>1, SoundIs
<1>m. m \in Nat /\ x.i = m
  BY LenProperties
<1> HIDE DEF m
<1>5. ItemEvent(T, n + 1)
  <2>1. Opened(S) = Closed(S) + 1 /\ x.i = Closed(S)
    BY <1>4, <1>m
  <2>2. \A q \in DOMAIN S : S[q].e = "open" /\ S[q].i = x.i => S[q].k = x.k
    BY <1>1, <1>4, <1>m
  <2> QED
    BY <2>1, <2>2, ItemEventLast
<1>6. \A p \in 1 .. n : ItemEvent(T, p)
  BY <1>4, ItemEventMore
<1>7. \A p \in 1 .. n : S[p].e = "close" => Adds(T, p, leaks)
  <2> SUFFICES ASSUME NEW p \in 1 .. n, S[p].e = "close" PROVE Adds(T, p, leaks)
    OBVIOUS
  <2>1. x.i # S[p].i /\ Adds(S, p, leaks)
    BY <1>4, <1>m
  <2> QED
    BY <2>1, AddsMore
<1>8. cur # NoItem
  BY NoItemIs
<1> HIDE DEF T, n, I
<1>9. ASSUME NEW p \in 1 .. n + 1
      PROVE  /\ ItemEvent(T, p)
             /\ T[p].e = "open" => T[p].i < m \/ (cur # NoItem /\ T[p].i = m /\ T[p].k = cur.k)
             /\ T[p].e = "delta" => T[p].i < m \/ (cur # NoItem /\ T[p].i = m)
             /\ T[p].e = "close" => T[p].i < m /\ Adds(T, p, leaks)
  <2>1. CASE p = n + 1
    BY <1>1, <1>5, <1>8, <1>m, <2>1
  <2>2. CASE p # n + 1
    <3>1. p \in 1 .. n
      BY <1>1, <2>2
    <3> QED
      BY <1>1, <1>4, <1>6, <1>7, <1>8, <3>1
  <2> QED
    BY <2>1, <2>2
<1>10. Closed(T) = m /\ Opened(T) = m + 1 /\ Gathered(T, "delta", I) = cur.c
  BY <1>2, <1>3, <1>4
<1>11. Sound(T, cur, its, leaks)
  BY <1>1, <1>8, <1>9, <1>10, SoundIs DEF m, I
<1> QED
  BY <1>11 DEF T

\* The open item is closed, with what it has, or it was a leaked call.
LEMMA SoundClose ==
  ASSUME NEW S \in Seq(Events), NEW its \in Seq(Item), NEW leaks, NEW x \in Events,
         NEW cur, NEW last \in Item, cur # NoItem,
         Sound(S, cur, its, leaks), x.e = "close", x.i = Len(its), x.k = cur.k,
         \/ x.c = cur.c
         \/ /\ \A p \in DOMAIN S : S[p].e = "delta" => S[p].i # Len(its)
            /\ \A q \in DOMAIN x.c : x.c[q] \in leaks
  PROVE  Sound(Append(S, x), NoItem, Append(its, last), leaks)
<1> DEFINE T == Append(S, x)
           n == Len(S)
           m == Len(its)
           I == {m}
           J == {m + 1}
           new == Append(its, last)
<1>1. /\ n \in Nat /\ DOMAIN S = 1 .. n /\ DOMAIN T = 1 .. n + 1 /\ T \in Seq(Events)
      /\ T[n + 1] = x /\ \A p \in 1 .. n : T[p] = S[p] /\ S[p] \in Events
  BY EarlierMore
<1>2. Opened(T) = Opened(S) /\ Closed(T) = Closed(S) + 1
      /\ Opened(S) \in Nat /\ Closed(S) \in Nat
  BY CountMore
<1>3. Gathered(T, "delta", I) = Gathered(S, "delta", I)
  <2> DEFINE c == Gathered(S, "delta", I)
             g == Gain(x, "delta", I)
  <2>1. g = <<>>
    BY DEF Gain
  <2> HIDE DEF I
  <2>2. Gathered(T, "delta", I) = c \o g /\ c \in Seq(Pos)
    BY GatherAppend
  <2> HIDE DEF c, g
  <2>3. c \o <<>> = c
    BY <2>2, ConcatEmptySeq
  <2> QED
    BY <2>1, <2>2, <2>3 DEF c
<1>4. /\ Closed(S) = m /\ Opened(S) = m + 1
      /\ Gathered(S, "delta", I) = cur.c
      /\ \A p \in 1 .. n :
            /\ ItemEvent(S, p)
            /\ S[p].e = "open" => S[p].i < m \/ (S[p].i = m /\ S[p].k = cur.k)
            /\ S[p].e = "delta" => S[p].i < m \/ S[p].i = m
            /\ S[p].e = "close" => S[p].i < m /\ Adds(S, p, leaks)
  BY <1>1, SoundIs
<1>m. m \in Nat /\ x.i = m /\ Len(new) = m + 1
  BY LenProperties, AppendProperties
<1> HIDE DEF m, new
<1>5. ItemEvent(T, n + 1)
  <2>1. Opened(S) = Closed(S) + 1 /\ x.i = Closed(S)
    BY <1>4, <1>m
  <2>2. \A q \in DOMAIN S : S[q].e = "open" /\ S[q].i = x.i => S[q].k = x.k
    BY <1>1, <1>4, <1>m
  <2> QED
    BY <2>1, <2>2, ItemEventLast
<1>6. \A p \in 1 .. n : ItemEvent(T, p)
  BY <1>4, ItemEventMore
<1>7. \A p \in 1 .. n : S[p].e = "close" => Adds(T, p, leaks)
  BY <1>4, AddsMore
<1>8. \A p \in 1 .. n + 1 : T[p].e = "delta" => T[p].i < m + 1 /\ T[p].i # m + 1
  <2> SUFFICES ASSUME NEW p \in 1 .. n + 1, T[p].e = "delta"
               PROVE  T[p].i < m + 1 /\ T[p].i # m + 1
    OBVIOUS
  <2> HIDE DEF T, n
  <2>1. p # n + 1
    BY <1>1
  <2>2. p \in 1 .. n
    BY <1>1, <2>1
  <2>3. S[p].i < m \/ S[p].i = m
    BY <1>1, <1>4, <2>2
  <2>4. S[p].i \in Nat
    BY <1>1, <2>2 DEF Events
  <2> QED
    BY <1>1, <1>m, <2>2, <2>3, <2>4
<1>9. Gathered(T, "delta", J) = <<>>
  <2>1. \A p \in DOMAIN T : ~(T[p].e = "delta" /\ T[p].i \in J)
    BY <1>1, <1>8
  <2> HIDE DEF T, J
  <2> QED
    BY <1>1, <2>1, GatherNothing
<1>10. Adds(T, n + 1, leaks)
  <2>1. CASE x.c = cur.c
    <3>1. Gathered(T, "delta", {T[n + 1].i}) = T[n + 1].c
      BY <1>1, <1>3, <1>4, <1>m, <2>1
    <3> QED
      BY <3>1 DEF Adds
  <2>2. CASE /\ \A p \in DOMAIN S : S[p].e = "delta" => S[p].i # m
             /\ \A q \in DOMAIN x.c : x.c[q] \in leaks
    <3> HIDE DEF T, n
    <3>1. ASSUME NEW p \in DOMAIN T, T[p].e = "delta" PROVE T[p].i # m
      <4>1. p # n + 1
        BY <1>1, <3>1
      <4>2. p \in DOMAIN S /\ T[p] = S[p]
        BY <1>1, <4>1
      <4> QED
        BY <2>2, <3>1, <4>2
    <3> QED
      BY <1>1, <1>m, <2>2, <3>1 DEF Adds
  <2> QED
    BY <2>1, <2>2 DEF m
<1> HIDE DEF T, n, I, J
<1>11. ASSUME NEW p \in 1 .. n + 1
      PROVE  /\ ItemEvent(T, p)
             /\ T[p].e = "open" => T[p].i < m + 1
             /\ T[p].e = "delta" => T[p].i < m + 1
             /\ T[p].e = "close" => T[p].i < m + 1 /\ Adds(T, p, leaks)
  <2>1. CASE p = n + 1
    BY <1>1, <1>5, <1>10, <1>m, <2>1
  <2>2. CASE p # n + 1
    <3>1. p \in 1 .. n
      BY <1>1, <2>2
    <3>2. T[p] = S[p] /\ S[p].i \in Nat
      BY <1>1, <3>1 DEF Events
    <3>3. ItemEvent(T, p) /\ (S[p].e = "close" => Adds(T, p, leaks))
      BY <1>6, <1>7, <3>1
    <3>4. S[p].e \in {"open", "delta", "close"} => S[p].i < m \/ S[p].i = m
      BY <1>4, <3>1
    <3>5. S[p].e \in {"open", "delta", "close"} => S[p].i < m + 1
      BY <1>m, <3>2, <3>4
    <3> QED
      BY <3>2, <3>3, <3>5
  <2> QED
    BY <2>1, <2>2
<1>12. Closed(T) = m + 1 /\ Opened(T) = m + 1 /\ Gathered(T, "delta", J) = NoItem.c
  BY <1>2, <1>4, <1>9, NoItemIs
<1>13. Sound(T, NoItem, new, leaks)
  <2>1. Gathered(T, "delta", {Len(new)}) = NoItem.c
    BY <1>12, <1>m DEF J
  <2> QED
    BY <1>1, <1>11, <1>12, <1>m, <2>1, SoundIs
<1> QED
  BY <1>13 DEF T, new

\* The events after one that is about no item.
LEMMA ShiftCount ==
  ASSUME NEW n \in Nat, NEW A \in SUBSET (1 .. n), NEW B, B = {q + 1 : q \in A}
  PROVE  Cardinality(B) = Cardinality(A)
<1> DEFINE f == [q \in A |-> q + 1]
<1>1. IsFiniteSet(A)
  <2>1. IsFiniteSet(1 .. n)
    BY FS_Interval
  <2> QED
    BY <2>1, FS_Subset
<1>2. f \in [A -> B] /\ \A q \in A : f[q] = q + 1
  OBVIOUS
<1> HIDE DEF f
<1>3. \A a, b \in A : f[a] = f[b] => a = b
  BY <1>2
<1>4. \A t \in B : \E s \in A : f[s] = t
  BY <1>2
<1>5. f \in Injection(A, B)
  BY <1>2, <1>3 DEF Injection, IsInjective
<1>6. f \in Surjection(A, B)
  BY <1>2, <1>4 DEF Surjection
<1>7. ExistsBijection(A, B)
  BY <1>5, <1>6 DEF ExistsBijection, Bijection
<1> QED
  BY <1>1, <1>7, FS_Bijection

\* An event that belongs to no item may also come first.
LEMMA SoundAfter ==
  ASSUME NEW S \in Seq(Events), NEW cur, NEW its \in Seq(Item), NEW leaks, NEW x \in Events,
         Sound(S, cur, its, leaks),
         x.e \notin {"open", "delta", "close", "completed", "incomplete"}
  PROVE  Sound(<<x>> \o S, cur, its, leaks)
<1> DEFINE o == <<x>>
           T == o \o S
           n == Len(S)
           m == Len(its)
<1>1. /\ n \in Nat /\ DOMAIN S = 1 .. n /\ Len(T) = n + 1 /\ DOMAIN T = 1 .. n + 1 /\ T[1] = x
      /\ \A p \in 1 .. n : T[p + 1] = S[p]
  <2>1. o \in Seq(Events) /\ Len(o) = 1 /\ o[1] = x
    OBVIOUS
  <2> HIDE DEF o
  <2>0. /\ o \o S \in Seq(Events) /\ Len(o \o S) = Len(o) + Len(S)
        /\ \A i \in 1 .. Len(o) + Len(S) :
              (o \o S)[i] = IF i <= Len(o) THEN o[i] ELSE S[i - Len(o)]
    BY ONLY <2>1, S \in Seq(Events), ConcatProperties
  <2>2. /\ T \in Seq(Events) /\ Len(T) = 1 + n
        /\ \A i \in 1 .. 1 + n : T[i] = IF i <= 1 THEN o[i] ELSE S[i - 1]
    BY <2>0, <2>1
  <2>3. n \in Nat /\ DOMAIN S = 1 .. n /\ DOMAIN T = 1 .. Len(T)
    BY <2>2, LenProperties
  <2> HIDE DEF T, n
  <2>4. T[1] = x
    BY <2>1, <2>2, <2>3
  <2>5. ASSUME NEW p \in 1 .. n PROVE T[p + 1] = S[p]
    <3>1. p + 1 \in 1 .. 1 + n /\ ~ (p + 1 <= 1) /\ (p + 1) - 1 = p
      BY <2>3
    <3> QED
      BY <2>2, <3>1
  <2>6. Len(T) = n + 1
    BY <2>2, <2>3
  <2> QED
    BY <2>3, <2>4, <2>5, <2>6
<1>2. ASSUME NEW I PROVE Gathered(T, "delta", I) = Gathered(S, "delta", I)
  <2> DEFINE a == Gathered(o, "delta", I)
             b == Gathered(S, "delta", I)
  <2>1. o \in Seq(Events)
    OBVIOUS
  <2>2. Gathered(o, "delta", I) = Gain(x, "delta", I)
    BY GatherOne
  <2>3. a = <<>>
    BY <2>2 DEF Gain
  <2>4. b \in Seq(Pos)
    BY GathersType
  <2> HIDE DEF o
  <2>5. Gathered(T, "delta", I) = a \o b
    BY <2>1, GatherConcat
  <2> HIDE DEF a, b
  <2>6. <<>> \o b = b
    BY <2>4, ConcatEmptySeq
  <2> QED
    BY <2>3, <2>5, <2>6 DEF b
<1> HIDE DEF T, n, o
<1>3. ASSUME NEW e, e # x.e, NEW p \in 1 .. n + 1
      PROVE  /\ Earlier(T, p + 1, e) = {q + 1 : q \in Earlier(S, p, e)}
             /\ Cardinality(Earlier(T, p + 1, e)) = Cardinality(Earlier(S, p, e))
  <2> DEFINE A == Earlier(S, p, e)
             B == Earlier(T, p + 1, e)
  <2>1. \A q : q \in A <=> q \in 1 .. p - 1 /\ S[q].e = e
    BY DEF Earlier
  <2>2. \A q : q \in B <=> q \in 1 .. (p + 1) - 1 /\ T[q].e = e
    BY DEF Earlier
  <2> HIDE DEF A, B
  <2>3. \A q \in 1 .. p - 1 : q \in 1 .. n /\ q + 1 \in 1 .. (p + 1) - 1
    BY <1>1
  <2>4. \A q \in A : q + 1 \in B
    <3> TAKE q \in A
    <3>1. q \in 1 .. p - 1 /\ S[q].e = e
      BY <2>1
    <3>2. q \in 1 .. n /\ q + 1 \in 1 .. (p + 1) - 1
      BY <2>3, <3>1
    <3>3. T[q + 1] = S[q]
      BY <1>1, <3>2
    <3> QED
      BY <2>2, <3>1, <3>2, <3>3
  <2>5. \A q \in B : \E r \in A : q = r + 1
    <3> TAKE q \in B
    <3>1. q \in 1 .. (p + 1) - 1 /\ T[q].e = e
      BY <2>2
    <3>2. q # 1
      BY <1>1, <1>3, <3>1
    <3>3. q - 1 \in 1 .. p - 1 /\ q = (q - 1) + 1
      BY <1>1, <3>1, <3>2
    <3>4. q - 1 \in 1 .. n
      BY <1>1, <3>3
    <3>5. S[q - 1] = T[q]
      BY <1>1, <3>3, <3>4
    <3>6. q - 1 \in A
      BY <2>1, <3>1, <3>3, <3>5
    <3> QED
      BY <3>3, <3>6
  <2>6. B = {q + 1 : q \in A}
    BY <2>4, <2>5
  <2>7. A \in SUBSET (1 .. n)
    BY <2>1, <2>3
  <2>8. Cardinality(B) = Cardinality(A)
    BY <1>1, <2>6, <2>7, ShiftCount
  <2> QED
    BY <2>6, <2>8 DEF A, B
<1>4. /\ cur.k = "none" => cur = NoItem
      /\ Closed(S) = m
      /\ Opened(S) = IF cur = NoItem THEN m ELSE m + 1
      /\ Gathered(S, "delta", {m}) = cur.c
      /\ \A p \in 1 .. n :
            /\ ItemEvent(S, p)
            /\ S[p].e = "open" => S[p].i < m \/ (cur # NoItem /\ S[p].i = m /\ S[p].k = cur.k)
            /\ S[p].e = "delta" => S[p].i < m \/ (cur # NoItem /\ S[p].i = m)
            /\ S[p].e = "close" => S[p].i < m /\ Adds(S, p, leaks)
  BY <1>1, SoundIs
<1> HIDE DEF m
<1>5. Closed(T) = Closed(S) /\ Opened(T) = Opened(S)
  <2>1. n + 1 \in 1 .. n + 1
    BY <1>1
  <2>2. Cardinality(Earlier(T, (n + 1) + 1, "open")) = Cardinality(Earlier(S, n + 1, "open"))
    BY <1>3, <2>1
  <2>3. Cardinality(Earlier(T, (n + 1) + 1, "close")) = Cardinality(Earlier(S, n + 1, "close"))
    BY <1>3, <2>1
  <2> QED
    BY <1>1, <2>2, <2>3 DEF Opened, Closed, n
<1>6. ASSUME NEW p \in 1 .. n PROVE ItemEvent(T, p + 1)
  <2>1. p \in 1 .. n + 1 /\ T[p + 1] = S[p]
    BY <1>1
  <2>2. /\ Cardinality(Earlier(T, p + 1, "open")) = Cardinality(Earlier(S, p, "open"))
        /\ Cardinality(Earlier(T, p + 1, "close")) = Cardinality(Earlier(S, p, "close"))
        /\ Earlier(T, p + 1, "open") = {q + 1 : q \in Earlier(S, p, "open")}
    BY <1>3, <2>1
  <2>3. \A q \in Earlier(S, p, "open") : T[q + 1] = S[q]
    <3>1. \A q \in 1 .. p - 1 : q \in 1 .. n
      BY <1>1
    <3> QED
      BY <1>1, <3>1 DEF Earlier
  <2>4. ItemEvent(S, p)
    BY <1>4
  <2>5. (\A q \in Earlier(S, p, "open") : S[q].i = S[p].i => S[q].k = S[p].k) =>
           \A q \in Earlier(T, p + 1, "open") : T[q].i = T[p + 1].i => T[q].k = T[p + 1].k
    BY <2>1, <2>2, <2>3
  <2> DEFINE a == Cardinality(Earlier(S, p, "open"))
             b == Cardinality(Earlier(S, p, "close"))
             c == Cardinality(Earlier(T, p + 1, "open"))
             d == Cardinality(Earlier(T, p + 1, "close"))
  <2>6. c = a /\ d = b
    BY <2>2
  <2>7. /\ S[p].e = "open" => a = b /\ S[p].i = b
        /\ S[p].e \in {"delta", "close"} =>
              /\ a = b + 1 /\ S[p].i = b
              /\ \A q \in Earlier(S, p, "open") : S[q].i = S[p].i => S[q].k = S[p].k
        /\ S[p].e \in {"completed", "incomplete"} => a = b /\ S[p].i = b
    BY <2>4 DEF ItemEvent
  <2>8. ItemEvent(T, p + 1) <=>
        /\ T[p + 1].e = "open" => c = d /\ T[p + 1].i = d
        /\ T[p + 1].e \in {"delta", "close"} =>
              /\ c = d + 1 /\ T[p + 1].i = d
              /\ \A q \in Earlier(T, p + 1, "open") : T[q].i = T[p + 1].i => T[q].k = T[p + 1].k
        /\ T[p + 1].e \in {"completed", "incomplete"} => c = d /\ T[p + 1].i = d
    BY DEF ItemEvent
  <2> HIDE DEF a, b, c, d
  <2> QED
    BY <2>1, <2>5, <2>6, <2>7, <2>8
<1>7. ASSUME NEW p \in 1 .. n, Adds(S, p, leaks) PROVE Adds(T, p + 1, leaks)
  <2>1. T[p + 1] = S[p]
    BY <1>1
  <2>2. (\A q \in DOMAIN S : S[q].e = "delta" => S[q].i # S[p].i) =>
           \A q \in DOMAIN T : T[q].e = "delta" => T[q].i # T[p + 1].i
    <3> SUFFICES ASSUME \A q \in DOMAIN S : S[q].e = "delta" => S[q].i # S[p].i,
                        NEW q \in 1 .. n + 1, T[q].e = "delta"
                 PROVE  T[q].i # S[p].i
      BY <1>1, <2>1
    <3>1. q # 1
      BY <1>1
    <3>2. q - 1 \in 1 .. n /\ (q - 1) + 1 = q
      BY <1>1, <3>1
    <3>3. T[q] = S[q - 1]
      BY <1>1, <3>2
    <3> QED
      BY <1>1, <3>2, <3>3
  <2>3. Gathered(T, "delta", {S[p].i}) = Gathered(S, "delta", {S[p].i})
    BY <1>2
  <2> QED
    BY <1>7, <2>1, <2>2, <2>3 DEF Adds
<1>8. ASSUME NEW r \in 1 .. n + 1
      PROVE  /\ ItemEvent(T, r)
             /\ T[r].e = "open" => T[r].i < m \/ (cur # NoItem /\ T[r].i = m /\ T[r].k = cur.k)
             /\ T[r].e = "delta" => T[r].i < m \/ (cur # NoItem /\ T[r].i = m)
             /\ T[r].e = "close" => T[r].i < m /\ Adds(T, r, leaks)
  <2>1. CASE r = 1
    <3>1. T[r] = x
      BY <1>1, <2>1
    <3>2. ItemEvent(T, r)
      BY <3>1 DEF ItemEvent
    <3> QED
      BY <3>1, <3>2
  <2>2. CASE r # 1
    <3> DEFINE p == r - 1
    <3>1. p \in 1 .. n /\ p + 1 = r
      BY <1>1, <2>2
    <3> HIDE DEF p
    <3>2. T[p + 1] = S[p] /\ ItemEvent(T, p + 1)
      BY <1>1, <1>6, <3>1
    <3> QED
      BY <1>4, <1>7, <3>1, <3>2
  <2> QED
    BY <2>1, <2>2
<1>9. Gathered(T, "delta", {m}) = cur.c
  BY <1>2, <1>4
<1>10. Sound(T, cur, its, leaks)
  BY <1>1, <1>4, <1>5, <1>8, <1>9, SoundIs DEF m
<1> QED
  BY <1>10 DEF T, o

\* More is known of the leaked calls.
LEMMA SoundMore ==
  ASSUME NEW S, NEW cur, NEW its, NEW leaks, NEW more, leaks \subseteq more,
         Sound(S, cur, its, leaks)
  PROVE  Sound(S, cur, its, more)
<1>1. \A p \in DOMAIN S : Adds(S, p, leaks) => Adds(S, p, more)
  BY DEF Adds
<1> QED
  BY <1>1 DEF Sound
-----------------------------------------------------------------------------
(* The work of a step on the items, event by event.                         *)

\* What one more event changes in what was said.
Gave(x) == IF x.e = "delta" THEN x.c ELSE <<>>
IsText(x) == x.e = "delta" /\ x.k \in {"message", "text"}

\* What one more event changes.
LEMMA SaidMore ==
  ASSUME NEW S \in Seq(Events), NEW x \in Events
  PROVE  /\ Append(S, x) \in Seq(Events)
         /\ \A e : Has(e, Append(S, x)) <=> Has(e, S) \/ x.e = e
         /\ HasText(Append(S, x)) <=> HasText(S) \/ IsText(x)
         /\ Gathered(Append(S, x), "delta", Nat) = Gathered(S, "delta", Nat) \o Gave(x)
         /\ Gathered(S, "delta", Nat) \in Seq(Pos) /\ Gave(x) \in Seq(Pos)
<1> DEFINE T == Append(S, x)
           n == Len(S)
           I == Nat
<1>1. /\ n \in Nat /\ DOMAIN S = 1 .. n /\ DOMAIN T = 1 .. n + 1 /\ T \in Seq(Events)
      /\ T[n + 1] = x /\ \A p \in 1 .. n : T[p] = S[p]
  BY EarlierMore
<1>2. Gain(x, "delta", I) = Gave(x)
  BY DEF Gain, Gave, Events
<1>3. Gain(x, "delta", I) \in Seq(Pos)
  BY GainType
<1> HIDE DEF I
<1>4. Gathered(T, "delta", I) = Gathered(S, "delta", I) \o Gain(x, "delta", I)
      /\ Gathered(S, "delta", I) \in Seq(Pos)
  BY GatherAppend
<1> HIDE DEF T, n
<1>5. \A e : Has(e, T) <=> Has(e, S) \/ x.e = e
  <2> TAKE e
  <2>1. Has(e, T) <=> \E p \in 1 .. n + 1 : T[p].e = e
    BY <1>1 DEF Has
  <2>2. Has(e, S) <=> \E p \in 1 .. n : S[p].e = e
    BY <1>1 DEF Has
  <2>3. n + 1 \in 1 .. n + 1 /\ \A p \in 1 .. n + 1 : p = n + 1 \/ p \in 1 .. n
    BY <1>1
  <2>4. \A p \in 1 .. n : p \in 1 .. n + 1
    BY <1>1
  <2> QED
    BY <1>1, <2>1, <2>2, <2>3, <2>4
<1>6. HasText(T) <=> HasText(S) \/ IsText(x)
  <2>1. HasText(T) <=> \E p \in 1 .. n + 1 : IsText(T[p])
    BY <1>1 DEF HasText, IsText
  <2>2. HasText(S) <=> \E p \in 1 .. n : IsText(S[p])
    BY <1>1 DEF HasText, IsText
  <2>3. n + 1 \in 1 .. n + 1 /\ \A p \in 1 .. n + 1 : p = n + 1 \/ p \in 1 .. n
    BY <1>1
  <2>4. \A p \in 1 .. n : p \in 1 .. n + 1
    BY <1>1
  <2> QED
    BY <1>1, <2>1, <2>2, <2>3, <2>4
<1> QED
  BY <1>1, <1>2, <1>3, <1>4, <1>5, <1>6 DEF T, I

\* An event appended to the second part is appended to the whole.
LEMMA ConcatMore ==
  ASSUME NEW a \in Seq(Events), NEW b \in Seq(Events), NEW x \in Events
  PROVE  a \o Append(b, x) = Append(a \o b, x) /\ a \o b \in Seq(Events)
<1> DEFINE u == <<x>>
<1>0. u \in Seq(Events)
  OBVIOUS
<1>1. Append(b, x) = b \o u
  BY AppendIsConcat
<1>2. a \o b \in Seq(Events)
  BY ConcatProperties
<1>3. Append(a \o b, x) = (a \o b) \o u
  BY <1>2, AppendIsConcat
<1> HIDE DEF u
<1>4. (a \o b) \o u = a \o (b \o u)
  BY ONLY a \in Seq(Events), b \in Seq(Events), <1>0, Assoc
<1> QED
  BY <1>0, <1>1, <1>2, <1>3, <1>4

\* The step's work s, after the events S: what was said is sound, it is c and no
\* error, and holds text only if text says so.
Holds(S, s, leaks, c, text) ==
    /\ Sound(S \o s.ev, s.cur, s.items, leaks)
    /\ ~Has("error", S \o s.ev)
    /\ Gathered(S \o s.ev, "delta", Nat) = c
    /\ HasText(S \o s.ev) => text

\* One more event that keeps the items sound adds what it gave.
LEMMA HoldsMore ==
  ASSUME NEW S \in Seq(Events), NEW s \in Work, NEW t \in Work, NEW x \in Events,
         NEW leaks, NEW c, NEW text,
         Holds(S, s, leaks, c, text), t.ev = Append(s.ev, x),
         Sound(Append(S \o s.ev, x), t.cur, t.items, leaks),
         x.e # "error", IsText(x) => text
  PROVE  Holds(S, t, leaks, c \o Gave(x), text)
<1> DEFINE V == S \o s.ev
<1>1. s.ev \in Seq(Events)
  BY WorkFields
<1>2. S \o t.ev = Append(V, x) /\ V \in Seq(Events)
  BY <1>1, ConcatMore
<1>3. Sound(V, s.cur, s.items, leaks) /\ ~Has("error", V)
      /\ Gathered(V, "delta", Nat) = c /\ (HasText(V) => text)
      /\ Sound(Append(V, x), t.cur, t.items, leaks)
  BY DEF Holds
<1> HIDE DEF V
<1>4. /\ ~Has("error", Append(V, x))
      /\ HasText(Append(V, x)) => text
      /\ Gathered(Append(V, x), "delta", Nat) = c \o Gave(x)
  BY <1>2, <1>3, SaidMore
<1> QED
  BY <1>2, <1>3, <1>4 DEF Holds

\* An event that gives nothing.
LEMMA HoldsSilent ==
  ASSUME NEW S \in Seq(Events), NEW s \in Work, NEW t \in Work, NEW x \in Events,
         NEW leaks, NEW c \in Seq(Pos), NEW text,
         Holds(S, s, leaks, c, text), t.ev = Append(s.ev, x),
         Sound(Append(S \o s.ev, x), t.cur, t.items, leaks),
         x.e \notin {"error", "delta"}
  PROVE  Holds(S, t, leaks, c, text)
<1> DEFINE g == Gave(x)
<1>1. g = <<>> /\ ~IsText(x)
  BY DEF Gave, IsText
<1> HIDE DEF g
<1>2. Holds(S, t, leaks, c \o g, text)
  BY <1>1, HoldsMore DEF g
<1>3. c \o <<>> = c
  BY ConcatEmptySeq
<1> QED
  BY <1>1, <1>2, <1>3

\* Closing an item gives nothing,
LEMMA HoldsClose ==
  ASSUME NEW S \in Seq(Events), NEW s \in Work, NEW leaks, NEW c \in Seq(Pos), NEW text,
         Holds(S, s, leaks, c, text)
  PROVE  Holds(S, CloseItem(s), leaks, c, text)
<1>1. CASE s.cur = NoItem
  BY <1>1, CloseItemIs
<1>2. CASE s.cur # NoItem
  <2> DEFINE t == CloseItem(s)
             x == Event("close", s.cur.k, Len(s.items), s.cur.c)
             V == S \o s.ev
  <2>1. t \in Work /\ t.ev = Append(s.ev, x) /\ t.cur = NoItem /\ t.items = Append(s.items, s.cur)
    BY <1>2, CloseItemIs
  <2>2. /\ s.ev \in Seq(Events) /\ s.cur \in Item /\ s.items \in Seq(Item) /\ s.cur.k \in Marks
        /\ s.cur.c \in Seq(Pos) /\ Len(s.items) \in Nat
    BY WorkFields
  <2>3. x \in Events /\ x.e = "close" /\ x.k = s.cur.k /\ x.i = Len(s.items) /\ x.c = s.cur.c
    BY <2>2, EventIs, SMTT(40) DEF Names
  <2>4. V \in Seq(Events)
    BY <2>2, ConcatProperties
  <2>5. Sound(V, s.cur, s.items, leaks)
    BY DEF Holds
  <2> HIDE DEF t, x, V
  <2>6. Sound(Append(V, x), NoItem, Append(s.items, s.cur), leaks)
    BY <1>2, <2>2, <2>3, <2>4, <2>5, SoundClose
  <2>7. Sound(Append(S \o s.ev, x), t.cur, t.items, leaks)
    BY <2>1, <2>6 DEF V
  <2>8. Holds(S, t, leaks, c, text)
    BY <2>1, <2>3, <2>7, HoldsSilent
  <2> QED
    BY <2>8 DEF t
<1> QED
  BY <1>1, <1>2

\* nor does opening one,
LEMMA HoldsOpen ==
  ASSUME NEW S \in Seq(Events), NEW s \in Work, NEW leaks, NEW c \in Seq(Pos), NEW text,
         NEW k \in {"message", "function_call"}, NEW call \in Nat,
         Holds(S, s, leaks, c, text), s.cur = NoItem
  PROVE  Holds(S, OpenItem(s, k, call), leaks, c, text)
<1> DEFINE t == OpenItem(s, k, call)
           e == <<>>
           x == Event("open", k, Len(s.items), e)
           V == S \o s.ev
<1> DEFINE r == [k |-> k, call |-> call, c |-> <<>>]
<1>0. r.k = k /\ r.c = <<>>
  OBVIOUS
<1> HIDE DEF r
<1>1. /\ t \in Work /\ t.ev = Append(s.ev, x) /\ t.cur.k = k /\ t.cur.c = <<>>
      /\ t.items = s.items
  <2>1. /\ t \in Work /\ t.ev = Append(s.ev, x) /\ t.cur = r
        /\ t.items = s.items
    BY OpenItemIs DEF r
  <2> HIDE DEF t
  <2> QED
    BY <1>0, <2>1
<1>2. s.ev \in Seq(Events) /\ s.items \in Seq(Item) /\ Len(s.items) \in Nat
  BY WorkFields
<1>3. e \in Seq(Pos) /\ k \in Marks
  BY EmptySeq DEF Marks
<1> HIDE DEF e
<1>4. x \in Events /\ x.e = "open" /\ x.k = k /\ x.i = Len(s.items)
  BY <1>2, <1>3, EventIs DEF Names
<1>5. V \in Seq(Events)
  BY <1>2, ConcatProperties
<1>6. Sound(V, NoItem, s.items, leaks)
  BY DEF Holds
<1> HIDE DEF t, x, V
<1> DEFINE cur == t.cur
<1>7. cur.k = x.k /\ cur.k # "none" /\ cur.c = <<>>
  BY <1>1, <1>4
<1> HIDE DEF cur
<1>8. Sound(Append(V, x), cur, s.items, leaks)
  BY <1>2, <1>4, <1>5, <1>6, <1>7, SoundOpen
<1>9. Sound(Append(S \o s.ev, x), t.cur, t.items, leaks)
  BY <1>1, <1>8 DEF V, cur
<1>10. Holds(S, t, leaks, c, text)
  BY <1>1, <1>4, <1>9, HoldsSilent
<1> QED
  BY <1>10 DEF t

\* a message
LEMMA HoldsMessage ==
  ASSUME NEW S \in Seq(Events), NEW s \in Work, NEW leaks, NEW c \in Seq(Pos), NEW text,
         Holds(S, s, leaks, c, text)
  PROVE  Holds(S, OpenMessage(s), leaks, c, text)
<1> DEFINE t == CloseItem(s)
<1>1. t \in Work /\ t.cur = NoItem
  BY CloseItemIs
<1>2. Holds(S, t, leaks, c, text)
  BY HoldsClose
<1>3. OpenMessage(s) = IF s.cur.k = "message" THEN s ELSE OpenItem(t, "message", 0)
  BY DEF OpenMessage
<1> HIDE DEF t
<1>4. Holds(S, OpenItem(t, "message", 0), leaks, c, text)
  BY <1>1, <1>2, HoldsOpen
<1> QED
  BY <1>3, <1>4

\* or a call;
LEMMA HoldsCall ==
  ASSUME NEW S \in Seq(Events), NEW s \in Work, NEW leaks, NEW c \in Seq(Pos), NEW text,
         NEW l \in Line, Holds(S, s, leaks, c, text)
  PROVE  Holds(S, CallItem(s, l), leaks, c, text)
<1> DEFINE t == CloseItem(s)
<1>1. t \in Work /\ t.cur = NoItem
  BY CloseItemIs
<1>2. Holds(S, t, leaks, c, text)
  BY HoldsClose
<1>3. CallItem(s, l) = IF s.cur.k = "function_call" /\ s.cur.call = l.i THEN s
                       ELSE OpenItem(t, "function_call", l.i)
  BY DEF CallItem
<1> HIDE DEF t
<1>4. l.i \in Nat
  BY LineFields
<1>5. Holds(S, OpenItem(t, "function_call", l.i), leaks, c, text)
  BY <1>1, <1>2, <1>4, HoldsOpen
<1> QED
  BY <1>3, <1>5

\* a delta gives its content.
LEMMA HoldsDelta ==
  ASSUME NEW S \in Seq(Events), NEW s \in Work, NEW leaks, NEW c \in Seq(Pos), NEW text,
         NEW d \in Seq(Pos), Holds(S, s, leaks, c, text), s.cur.k # "none",
         s.cur.k = "message" => text
  PROVE  Holds(S, Delta(s, d), leaks, c \o d, text)
<1> DEFINE t == Delta(s, d)
           x == Event("delta", s.cur.k, Len(s.items), d)
           V == S \o s.ev
<1> DEFINE r == [k |-> s.cur.k, call |-> s.cur.call, c |-> s.cur.c \o d]
<1>0. r.k = s.cur.k /\ r.c = s.cur.c \o d
  OBVIOUS
<1> HIDE DEF r
<1>1. /\ t \in Work /\ t.ev = Append(s.ev, x) /\ t.cur.k = s.cur.k /\ t.cur.c = s.cur.c \o d
      /\ t.items = s.items
  <2>1. /\ t \in Work /\ t.ev = Append(s.ev, x) /\ t.cur = r
        /\ t.items = s.items
    BY DeltaIs DEF r
  <2> HIDE DEF t
  <2> QED
    BY <1>0, <2>1
<1>2. /\ s.ev \in Seq(Events) /\ s.items \in Seq(Item) /\ Len(s.items) \in Nat
      /\ s.cur.k \in Marks /\ s.cur.k \in {"none", "message", "function_call"}
  BY WorkFields
<1>4. x \in Events /\ x.e = "delta" /\ x.k = s.cur.k /\ x.i = Len(s.items) /\ x.c = d
  BY <1>2, EventIs, SMTT(40) DEF Names
<1>5. V \in Seq(Events)
  BY <1>2, ConcatProperties
<1>6. Sound(V, s.cur, s.items, leaks) /\ s.cur # NoItem
  BY NoItemIs DEF Holds
<1> HIDE DEF t, x, V
<1> DEFINE cur == t.cur
           old == s.cur
<1>7. cur.k = old.k /\ cur.k # "none" /\ cur.c = old.c \o x.c /\ old # NoItem
      /\ Sound(V, old, s.items, leaks) /\ x.k = old.k
  BY <1>1, <1>4, <1>6
<1> HIDE DEF cur, old
<1>8. Sound(Append(V, x), cur, s.items, leaks)
  BY <1>2, <1>4, <1>5, <1>7, SoundDelta
<1>9. Sound(Append(S \o s.ev, x), t.cur, t.items, leaks)
  BY <1>1, <1>8 DEF V, cur
<1>10. IsText(x) => text
  BY <1>2, <1>4 DEF IsText
<1>11. Holds(S, t, leaks, c \o Gave(x), text)
  BY <1>1, <1>4, <1>9, <1>10, HoldsMore
<1> QED
  BY <1>4, <1>11 DEF t, Gave

\* The text held back is shown in a message.
LEMMA HoldsFlush ==
  ASSUME TInv, NEW S \in Seq(Events), NEW s \in Work, NEW leaks, NEW c \in Seq(Pos), NEW text,
         Holds(S, s, leaks, c, text), heldText # <<>> => text
  PROVE  Holds(S, FlushHeld(s), leaks, c \o heldText, text)
<1>0. heldText \in Seq(Pos)
  BY DEF TInv
<1>1. CASE heldText = <<>>
  <2> DEFINE h == heldText
  <2>1. FlushHeld(s) = s /\ h = <<>>
    BY <1>1 DEF FlushHeld
  <2> HIDE DEF h
  <2>2. c \o <<>> = c
    BY ConcatEmptySeq
  <2>3. c \o h = c
    BY <2>1, <2>2
  <2> QED
    BY <2>1, <2>3 DEF h
<1>2. CASE heldText # <<>>
  <2> DEFINE t == OpenMessage(s)
  <2>1. t \in Work /\ t.cur.k = "message"
    BY OpenMessageIs
  <2>2. Holds(S, t, leaks, c, text)
    BY HoldsMessage
  <2>3. FlushHeld(s) = Delta(t, heldText)
    BY <1>2 DEF FlushHeld
  <2> HIDE DEF t
  <2>4. Holds(S, Delta(t, heldText), leaks, c \o heldText, text)
    BY <1>0, <1>2, <2>1, <2>2, HoldsDelta
  <2> QED
    BY <2>3, <2>4
<1> QED
  BY <1>1, <1>2

\* A leaked call is shown as an item without deltas.
LeakClose(x, leaks) ==
    x.e = "close" /\ x.k = "function_call" /\ \E q \in DOMAIN x.c : x.c[q] \in leaks
LeakShown(S, leaks) == \E p \in DOMAIN S : LeakClose(S[p], leaks)

\* It stays so.
LEMMA LeakMore ==
  ASSUME NEW S \in Seq(Events), NEW x \in Events, NEW leaks,
         LeakShown(S, leaks) \/ LeakClose(x, leaks)
  PROVE  LeakShown(Append(S, x), leaks)
<1> DEFINE T == Append(S, x)
           n == Len(S)
<1>1. /\ n \in Nat /\ DOMAIN S = 1 .. n /\ DOMAIN T = 1 .. n + 1
      /\ T[n + 1] = x /\ \A p \in 1 .. n : T[p] = S[p]
  BY EarlierMore
<1> HIDE DEF T, n
<1>2. n + 1 \in 1 .. n + 1 /\ \A p \in 1 .. n : p \in 1 .. n + 1
  BY <1>1
<1>3. LeakShown(T, leaks)
  BY <1>1, <1>2 DEF LeakShown
<1> QED
  BY <1>3 DEF T

\* A leaked call is soundly opened and closed,
LEMMA HoldsLeak ==
  ASSUME NEW S \in Seq(Events), NEW s \in Work, NEW leaks, NEW c \in Seq(Pos), NEW text,
         NEW n \in Pos, n \in leaks, Holds(S, s, leaks, c, text), s.cur = NoItem
  PROVE  /\ Holds(S, LeakedItem(s, n), leaks, c, text)
         /\ LeakedItem(s, n) \in Work /\ LeakedItem(s, n).cur = NoItem
         /\ LeakShown(S \o LeakedItem(s, n).ev, leaks)
<1> DEFINE t == LeakedItem(s, n)
           u == OpenItem(s, "function_call", 0)
           e == <<>>
           w == <<n>>
           y == Event("open", "function_call", Len(s.items), e)
           x == Event("close", "function_call", Len(s.items), w)
           last == [k |-> "function_call", call |-> 0, c |-> w]
           r == [k |-> "function_call", call |-> 0, c |-> e]
           V == S \o s.ev
           W == S \o u.ev
<1>1. /\ u \in Work /\ u.ev = Append(s.ev, y) /\ u.cur = r /\ u.items = s.items
  BY OpenItemIs
<1>2. t \in Work /\ t.ev = Append(Append(s.ev, y), x) /\ t.cur = s.cur
      /\ t.items = Append(s.items, last)
  BY LeakedItemIs
<1>3. Holds(S, u, leaks, c, text)
  BY HoldsOpen
<1>4. s.ev \in Seq(Events) /\ s.items \in Seq(Item) /\ Len(s.items) \in Nat
  BY WorkFields
<1>5. w \in Seq(Pos) /\ e \in Seq(Pos) /\ DOMAIN w = {1} /\ w[1] = n
  BY EmptySeq
<1> HIDE DEF w, e
<1>6. last \in Item /\ r.k = "function_call" /\ r.c = e
  BY <1>5 DEF Item
<1>7. /\ x \in Events /\ x.e = "close" /\ x.k = "function_call" /\ x.i = Len(s.items) /\ x.c = w
      /\ y \in Events /\ y.e = "open"
  BY <1>4, <1>5, EventIs, SMTT(40) DEF Names, Marks
<1>8. V \in Seq(Events) /\ u.ev \in Seq(Events) /\ W \in Seq(Events)
  BY <1>1, <1>4, WorkFields, ConcatProperties
<1>9. W = Append(V, y)
  BY <1>1, <1>4, <1>7, ConcatMore
<1>10. Sound(V, NoItem, s.items, leaks) /\ Sound(W, u.cur, u.items, leaks)
  BY <1>3 DEF Holds
<1> DEFINE m == Len(s.items)
           k == Len(V)
<1> HIDE DEF t, u, y, x, last, r, V, W, m
<1>11. k \in Nat /\ DOMAIN V = 1 .. k /\ DOMAIN W = 1 .. k + 1 /\ W[k + 1] = y
       /\ \A p \in 1 .. k : W[p] = V[p] /\ V[p] \in Events
  BY <1>7, <1>8, <1>9, EarlierMore
<1> HIDE DEF k
<1>12. ASSUME NEW p \in DOMAIN W, W[p].e = "delta" PROVE W[p].i # m
  <2>1. p # k + 1
    BY <1>7, <1>11, <1>12
  <2>2. p \in 1 .. k /\ W[p] = V[p]
    BY <1>11, <2>1
  <2>3. V[p].i < m
    BY <1>10, <1>11, <1>12, <2>2 DEF Sound, m
  <2>4. V[p].i \in Nat /\ m \in Nat
    BY <1>4, <1>11, <2>2 DEF Events, m
  <2> QED
    BY <2>2, <2>3, <2>4
<1>13. \A q \in DOMAIN x.c : x.c[q] \in leaks
  BY <1>5, <1>7
<1>14. u.cur # NoItem /\ x.k = u.cur.k /\ u.items = s.items /\ x.i = Len(u.items)
  BY <1>1, <1>6, <1>7, NoItemIs
<1> DEFINE cur == u.cur
           its == u.items
<1>15. cur # NoItem /\ x.k = cur.k /\ x.i = Len(its) /\ its \in Seq(Item) /\ m = Len(its)
       /\ Sound(W, cur, its, leaks)
  BY <1>4, <1>10, <1>14 DEF m
<1> HIDE DEF cur, its
<1>16. Sound(Append(W, x), NoItem, Append(its, last), leaks)
  BY <1>6, <1>7, <1>8, <1>12, <1>13, <1>15, SoundClose
<1>17. Sound(Append(S \o u.ev, x), t.cur, t.items, leaks)
  BY <1>2, <1>14, <1>16 DEF W, its
<1>18. t.ev = Append(u.ev, x)
  BY <1>1, <1>2
<1>19. Holds(S, t, leaks, c, text)
  BY <1>1, <1>2, <1>3, <1>7, <1>17, <1>18, HoldsSilent
<1>20. S \o t.ev = Append(W, x)
  BY <1>7, <1>8, <1>18, ConcatMore DEF W
<1>21. LeakClose(x, leaks)
  BY <1>5, <1>7 DEF LeakClose
<1>22. LeakShown(S \o t.ev, leaks)
  BY <1>7, <1>8, <1>20, <1>21, LeakMore
<1> QED
  BY <1>2, <1>19, <1>22 DEF t

\* and so are all of them in turn.
LEMMA HoldsLeaks ==
  ASSUME NEW S \in Seq(Events), NEW s \in Work, NEW leaks, NEW c \in Seq(Pos), NEW text,
         NEW h \in Seq({n \in Pos : n \in leaks}), Holds(S, s, leaks, c, text), s.cur = NoItem
  PROVE  /\ Holds(S, FoldLeft(LeakedItem, s, h), leaks, c, text)
         /\ FoldLeft(LeakedItem, s, h).cur = NoItem
         /\ h # <<>> => LeakShown(S \o FoldLeft(LeakedItem, s, h).ev, leaks)
<1> DEFINE P == {w \in Work : w.cur = NoItem /\ Holds(S, w, leaks, c, text)}
           Q == {w \in Work : LeakShown(S \o w.ev, leaks)}
           X == {n \in Pos : n \in leaks}
<1>1. s \in P
  OBVIOUS
<1>2. ASSUME NEW w \in P, NEW n \in X
      PROVE  LeakedItem(w, n) \in P /\ LeakedItem(w, n) \in Q
  <2>1. w \in Work /\ w.cur = NoItem /\ Holds(S, w, leaks, c, text) /\ n \in Pos /\ n \in leaks
    OBVIOUS
  <2>2. /\ Holds(S, LeakedItem(w, n), leaks, c, text)
        /\ LeakedItem(w, n) \in Work /\ LeakedItem(w, n).cur = NoItem
        /\ LeakShown(S \o LeakedItem(w, n).ev, leaks)
    BY <2>1, HoldsLeak
  <2> QED
    BY <2>2
<1>3. \A w \in P : w.cur = NoItem /\ Holds(S, w, leaks, c, text)
  OBVIOUS
<1>4. h \in Seq(X)
  OBVIOUS
<1>8. \A w \in Q : LeakShown(S \o w.ev, leaks)
  OBVIOUS
<1> HIDE DEF P, Q, X
<1>5. \A w \in P, n \in X : LeakedItem(w, n) \in P /\ LeakedItem(w, n) \in Q
  BY <1>2
<1>6. FoldLeft(LeakedItem, s, h) \in P
  BY ONLY <1>1, <1>4, <1>5, LeakedFold
<1>7. Len(h) # 0 => FoldLeft(LeakedItem, s, h) \in Q
  BY ONLY <1>1, <1>4, <1>5, LeakedFold
<1> QED
  BY <1>3, <1>6, <1>7, <1>8, EmptySeq

\* What a step of the Responses handler starts from, and what its work adds.
Shown0 == Gathered(Said, "delta", Nat)
Texted == accum # <<>>

\* A step of the Responses handler begins soundly,
LEMMA HoldsNow ==
  ASSUME TInv, Responding, api = "responses", ~Done
  PROVE  /\ Said \in Seq(Events) /\ Shown0 \in Seq(Pos)
         /\ Now \in Work /\ Now.cur = current
         /\ Holds(Said, Now, Leaks, Shown0, Texted)
<1>1. Now \in Work /\ Now.ev = <<>> /\ Now.cur = current /\ Now.items = items
  BY NowIs
<1>2. Said \in Seq(Events)
  <2>1. wire \in Seq(Events) /\ pending \in Seq(Events)
    BY DEF TInv
  <2> QED
    BY <2>1, ConcatProperties DEF Said
<1> DEFINE S == Said
           e == <<>>
<1>3. S \o e = S
  BY <1>2, ConcatEmptySeq
<1> HIDE DEF S, e
<1>4. S \o Now.ev = S
  BY <1>1, <1>3 DEF e
<1>5. Sound(Said, current, items, Leaks) /\ ~Has("error", Said) /\ (HasText(Said) => Texted)
  BY DEF Responding, Texted
<1>6. Shown0 \in Seq(Pos)
  BY <1>2, GathersType DEF Shown0
<1>7. Holds(S, Now, Leaks, Shown0, Texted)
  BY <1>1, <1>4, <1>5 DEF Holds, Shown0, S
<1> QED
  BY <1>1, <1>2, <1>6, <1>7 DEF S

\* and so it is when the held text is shown.
LEMMA HoldsFlushed ==
  ASSUME TInv, Responding, api = "responses", ~Done
  PROVE  /\ heldText \in Seq(Pos) /\ Shown0 \o heldText \in Seq(Pos)
         /\ Flushed \in Work
         /\ Holds(Said, Flushed, Leaks, Shown0 \o heldText, Texted)
         /\ holding => Now.cur = NoItem
<1>0. heldText \in Seq(Pos) /\ Flushed \in Work
  BY FlushedType DEF TInv
<1>1. /\ Said \in Seq(Events) /\ Shown0 \in Seq(Pos) /\ Now \in Work /\ Now.cur = current
      /\ Holds(Said, Now, Leaks, Shown0, Texted)
  BY HoldsNow
<1>2. Shown0 \o heldText \in Seq(Pos)
  BY <1>0, <1>1, ConcatProperties
<1>3. /\ holding => current = NoItem
      /\ ~holding => heldText = <<>>
      /\ heldText # <<>> => Texted
  BY DEF Responding, Texted
<1>4. CASE holding
  <2> DEFINE S == Said
             w == Now
             t == Texted
             c == Shown0
             a == Leaks
  <2>1. S \in Seq(Events) /\ w \in Work /\ c \in Seq(Pos) /\ Holds(S, w, a, c, t)
        /\ (heldText # <<>> => t)
    BY <1>1, <1>3
  <2> HIDE DEF S, w, t, c, a
  <2>2. Holds(S, FlushHeld(w), a, c \o heldText, t)
    BY <2>1, HoldsFlush
  <2>3. Flushed = FlushHeld(w)
    BY <1>4 DEF Flushed, w
  <2>4. Holds(S, Flushed, a, c \o heldText, t)
    BY <2>2, <2>3
  <2> QED
    BY <1>0, <1>1, <1>2, <1>3, <2>4 DEF S, t, c, a
<1>5. CASE ~holding
  <2> DEFINE c == Shown0
             h == heldText
  <2>1. h = <<>> /\ Flushed = Now
    BY <1>3, <1>5 DEF Flushed
  <2>2. c \o <<>> = c
    BY <1>1, ConcatEmptySeq
  <2> HIDE DEF h, c
  <2>3. c \o h = c
    BY <2>1, <2>2
  <2> QED
    BY <1>0, <1>1, <1>2, <1>3, <1>5, <2>1, <2>3 DEF h, c
<1> QED
  BY <1>4, <1>5

\* A call's delta.
Arguments(l) == IF HasArguments(l) THEN <<l.n>> ELSE <<>>

\* A call gives its arguments after the held text,
LEMMA HoldsOnCall ==
  ASSUME TInv, Responding, api = "responses", ~Done, NEW l \in Line
  PROVE  /\ Holds(Said, CallWork(l), Leaks, (Shown0 \o heldText) \o Arguments(l), Texted)
         /\ Arguments(l) \in Seq(Pos)
<1> DEFINE S == Said
           c == Shown0 \o heldText
           w == Flushed
           a == Leaks
           t == Texted
           u == CallItem(w, l)
           d == <<l.n>>
<1>1. S \in Seq(Events) /\ c \in Seq(Pos) /\ w \in Work /\ Holds(S, w, a, c, t)
  BY HoldsNow, HoldsFlushed
<1>2. d \in Seq(Pos)
  BY LineFields
<1>3. CallWork(l) = IF HasArguments(l) THEN Delta(u, d) ELSE u
  BY DEF CallWork
<1>4. Arguments(l) = IF HasArguments(l) THEN d ELSE <<>>
  BY DEF Arguments
<1> HIDE DEF S, c, w, a, t, d
<1>5. Holds(S, u, a, c, t) /\ u \in Work /\ u.cur.k = "function_call"
  BY <1>1, HoldsCall, CallItemIs
<1> HIDE DEF u
<1>6. Holds(S, Delta(u, d), a, c \o d, t)
  BY <1>1, <1>2, <1>5, HoldsDelta
<1>7. c \o <<>> = c
  BY <1>1, ConcatEmptySeq
<1>8. Holds(S, CallWork(l), a, c \o Arguments(l), t)
  BY <1>3, <1>4, <1>5, <1>6, <1>7
<1>9. Arguments(l) \in Seq(Pos)
  BY <1>2, <1>4, EmptySeq
<1> QED
  BY <1>8, <1>9 DEF S, c, a, t

\* and text is given at once if it is not held.
LEMMA HoldsOnText ==
  ASSUME TInv, Responding, api = "responses", ~Done, NEW l \in Line
  PROVE  Holds(Said, Delta(OpenMessage(Now), <<l.n>>), Leaks, Shown0 \o <<l.n>>, TRUE)
<1> DEFINE S == Said
           c == Shown0
           w == Now
           a == Leaks
           u == OpenMessage(w)
           d == <<l.n>>
           t == TRUE
<1>1. S \in Seq(Events) /\ c \in Seq(Pos) /\ w \in Work /\ Holds(S, w, a, c, t)
  BY HoldsNow DEF Holds
<1>2. d \in Seq(Pos)
  BY LineFields
<1>3. t
  OBVIOUS
<1> HIDE DEF S, c, w, a, d, t
<1>4. Holds(S, u, a, c, t) /\ u \in Work /\ u.cur.k = "message"
  BY <1>1, HoldsMessage, OpenMessageIs
<1> HIDE DEF u
<1>5. Holds(S, Delta(u, d), a, c \o d, t)
  BY <1>1, <1>2, <1>3, <1>4, HoldsDelta
<1> QED
  BY <1>5 DEF S, c, w, a, u, d, t

\* The end.
LEMMA HoldsEnd ==
  ASSUME TInv, Responding, api = "responses", ~Done
  PROVE  /\ Holds(Said, EndWork, Leaks,
                  IF EndLeaks = <<>> THEN Shown0 \o heldText ELSE Shown0, Texted)
         /\ EndLeaks # <<>> => LeakShown(Said \o EndWork.ev, Leaks)
<1> DEFINE S == Said
           c == IF EndLeaks = <<>> THEN Shown0 \o heldText ELSE Shown0
           a == Leaks
           t == Texted
           f == FoldLeft(LeakedItem, Now, EndLeaks)
           w == IF EndLeaks # <<>> THEN f ELSE Flushed
           x == EndItems
           o == Bare("done")
<1>1. S \in Seq(Events) /\ c \in Seq(Pos)
  BY HoldsNow, HoldsFlushed
<1>2. EndLeaks # <<>> => EndLeaks \in Seq({n \in Pos : n \in a})
  <2> SUFFICES ASSUME EndLeaks # <<>> PROVE EndLeaks \in Seq({n \in Pos : n \in a})
    OBVIOUS
  <2> DEFINE D == {n \in Pos : n \in DOMAIN sent}
             G == {n \in D : sent[n].k = "leak"}
             B == {n \in Pos : n \in a}
  <2>1. EndLeaks = LeakedIn(heldText)
    BY DEF EndLeaks
  <2>2. heldText \in Seq(Pos) /\ \A p \in DOMAIN heldText : heldText[p] \in DOMAIN sent
    BY DEF TInv, Responding
  <2>3. heldText \in Seq(D)
    <3>1. Len(heldText) \in Nat /\ heldText \in [1 .. Len(heldText) -> Pos]
          /\ DOMAIN heldText = 1 .. Len(heldText)
      BY <2>2, LenProperties
    <3>2. heldText \in [1 .. Len(heldText) -> D]
      BY <2>2, <3>1
    <3> HIDE DEF D
    <3> QED
      BY <3>1, <3>2, IsSeqOf
  <2>4. G \subseteq B
    BY DEF Leaks
  <2>5. LeakedIn(heldText) \in Seq(G)
    <3> HIDE DEF D
    <3> QED
      BY <2>3, LeakedInType
  <2> HIDE DEF G, B
  <2>6. LeakedIn(heldText) \in Seq(B)
    BY <2>4, <2>5, SeqMonotonic
  <2> QED
    BY <2>1, <2>6 DEF B
<1>3. w \in Work /\ x \in Work /\ x = CloseItem(w) /\ x.cur = NoItem
  BY EndItemsIs, FlushedType
<1>4. Holds(S, w, a, c, t) /\ (EndLeaks # <<>> => LeakShown(S \o w.ev, a) /\ w.cur = NoItem)
  <2>1. CASE EndLeaks = <<>>
    BY <2>1, HoldsFlushed
  <2>2. CASE EndLeaks # <<>>
    <3> DEFINE s == Now
               h == EndLeaks
               g == Shown0
    <3>1. holding
      BY <2>2 DEF EndLeaks
    <3>2. s \in Work /\ s.cur = NoItem /\ g \in Seq(Pos) /\ Holds(S, s, a, g, t)
      BY <3>1, HoldsNow, HoldsFlushed
    <3>3. h \in Seq({n \in Pos : n \in a}) /\ h # <<>>
      BY <1>2, <2>2
    <3>4. w = FoldLeft(LeakedItem, s, h) /\ c = g
      BY <2>2
    <3> HIDE DEF S, a, t, s, h, g
    <3>5. /\ Holds(S, FoldLeft(LeakedItem, s, h), a, g, t)
          /\ FoldLeft(LeakedItem, s, h).cur = NoItem
          /\ LeakShown(S \o FoldLeft(LeakedItem, s, h).ev, a)
      BY <1>1, <3>2, <3>3, HoldsLeaks
    <3> HIDE DEF w, c
    <3> QED
      BY <3>4, <3>5
  <2> QED
    BY <2>1, <2>2
<1>5. /\ EndWork \in Work /\ Ending \in Events /\ o \in Events
      /\ Ending.e \in {"completed", "incomplete"} /\ Ending.i = Len(x.items)
      /\ EndWork.ev = Append(Append(x.ev, Ending), o)
      /\ EndWork.cur = NoItem /\ EndWork.items = x.items
      /\ o.e = "done"
  BY EndWorkIs, BareIs DEF Names
<1> HIDE DEF S, a, t, f, w, c, x, o
<1>6. Holds(S, x, a, c, t) /\ (EndLeaks # <<>> => LeakShown(S \o x.ev, a))
  <2>1. Holds(S, CloseItem(w), a, c, t)
    BY <1>1, <1>3, <1>4, HoldsClose
  <2>2. w.cur = NoItem => x = w
    BY <1>3, CloseItemIs
  <2> QED
    BY <1>3, <1>4, <2>1, <2>2
<1> DEFINE y == [ev |-> Append(x.ev, Ending), cur |-> NoItem, items |-> x.items]
<1>7. x.ev \in Seq(Events) /\ x.items \in Seq(Item) /\ S \o x.ev \in Seq(Events)
      /\ Append(x.ev, Ending) \in Seq(Events)
  BY <1>1, <1>3, <1>5, WorkFields, ConcatProperties, AppendProperties
<1>8. y \in Work /\ y.ev = Append(x.ev, Ending) /\ y.cur = NoItem /\ y.items = x.items
  <2> DEFINE ev == Append(x.ev, Ending)
             cur == NoItem
  <2>1. ev \in Seq(Events) /\ cur \in Item /\ y = [ev |-> ev, cur |-> cur, items |-> x.items]
    BY <1>7, NoItemIs
  <2> HIDE DEF ev, cur, y
  <2>2. y \in Work /\ y.ev = ev /\ y.cur = cur /\ y.items = x.items
    BY <1>7, <2>1, WorkIs
  <2> QED
    BY <2>2 DEF ev, cur
<1> HIDE DEF y
<1>9. Holds(S, y, a, c, t) /\ (EndLeaks # <<>> => LeakShown(S \o y.ev, a))
  <2> DEFINE V == S \o x.ev
             cur == NoItem
             its == x.items
  <2>1. V \in Seq(Events) /\ cur \in Item /\ its \in Seq(Item) /\ Sound(V, cur, its, a)
        /\ Ending.i = Len(its)
    BY <1>3, <1>5, <1>6, <1>7, NoItemIs DEF Holds
  <2>2. Ending.e \notin {"open", "delta", "close", "error"}
    BY <1>5
  <2> HIDE DEF V, cur, its
  <2>3. Ending.e \in {"completed", "incomplete"} => cur = NoItem /\ Ending.i = Len(its)
    BY <2>1 DEF cur
  <2>4. Sound(Append(V, Ending), cur, its, a)
    BY <1>5, <2>1, <2>2, <2>3, SoundOther
  <2>5. Sound(Append(S \o x.ev, Ending), y.cur, y.items, a)
    BY <1>8, <2>4 DEF V, cur, its
  <2>6. Holds(S, y, a, c, t)
    BY <1>1, <1>3, <1>5, <1>6, <1>8, <2>2, <2>5, HoldsSilent
  <2>7. S \o y.ev = Append(V, Ending)
    BY <1>1, <1>5, <1>7, <1>8, ConcatMore, SMTT(40) DEF V
  <2>8. EndLeaks # <<>> => LeakShown(V, a)
    BY <1>6 DEF V
  <2>9. EndLeaks # <<>> => LeakShown(Append(V, Ending), a)
    BY <1>5, <2>1, <2>8, LeakMore
  <2> QED
    BY <2>6, <2>7, <2>9
<1>10. Holds(S, EndWork, a, c, t) /\ (EndLeaks # <<>> => LeakShown(S \o EndWork.ev, a))
  <2> DEFINE V == S \o y.ev
             cur == y.cur
             its == y.items
             z == EndWork
  <2>0. y.ev \in Seq(Events) /\ z.ev = Append(y.ev, o) /\ z.cur = y.cur /\ z.items = y.items
        /\ z \in Work
    BY <1>5, <1>8, WorkFields
  <2>1. V \in Seq(Events) /\ cur \in Item /\ its \in Seq(Item) /\ Sound(V, cur, its, a)
    BY <1>1, <1>8, <1>9, <2>0, WorkFields, ConcatProperties DEF Holds
  <2> HIDE DEF V, cur, its, z
  <2>4. Sound(Append(V, o), cur, its, a)
    BY <1>5, <2>1, SoundOther
  <2>5. Sound(Append(S \o y.ev, o), z.cur, z.items, a)
    BY <2>0, <2>4 DEF V, cur, its
  <2>6. Holds(S, z, a, c, t)
    BY <1>1, <1>5, <1>8, <1>9, <2>0, <2>5, HoldsSilent
  <2>7. S \o z.ev = Append(V, o)
    BY <1>1, <1>5, <2>0, ConcatMore DEF V
  <2>8. EndLeaks # <<>> => LeakShown(V, a)
    BY <1>9 DEF V
  <2>9. EndLeaks # <<>> => LeakShown(Append(V, o), a)
    BY <1>5, <2>1, <2>8, LeakMore
  <2> QED
    BY <2>6, <2>7, <2>9 DEF z
<1> QED
  BY <1>10 DEF S, a, t, c

\* What was emitted is said, and the work's items are kept.
LEMMA EmitHolds ==
  ASSUME TInv, NEW s \in Work, NEW now \in BOOLEAN, Emit(s, now), NEW leaks, NEW c, NEW text,
         Holds(Said, s, leaks, c, text)
  PROVE  /\ Sound(Said', current', items', leaks) /\ ~Has("error", Said')
         /\ Gathered(Said', "delta", Nat) = c /\ (HasText(Said') => text)
<1>1. Said' = Said \o s.ev /\ current' = s.cur /\ items' = s.items
  BY EmitIs
<1> QED
  BY <1>1 DEF Holds
-----------------------------------------------------------------------------
(* What is owed, as lines arrive, are read and are handled.                 *)

\* The lines that are owed to the client,
LEMMA OwedIs ==
  /\ Owed \subseteq Fed
  /\ \A p \in Fed : p \in Owed <=>
        \/ PassedThrough \/ sent[p].k \in Content
        \/ /\ provider = "openai" /\ HasArguments(sent[p])
           /\ api = "messages" =>
                 \E q \in Fed : q <= p /\ sent[q].k \in CallKind /\ sent[q].i = sent[p].i
BY DEF Owed

\* which depend on the lines that were fed alone.
LEMMA OwedSame ==
  ASSUME UNCHANGED provided, Fed' = Fed, \A p \in Fed : sent'[p] = sent[p]
  PROVE  Owed' = Owed
<1>1. api' = api /\ provider' = provider /\ PassedThrough' = PassedThrough
  BY DEF provided, PassedThrough
<1>2. Owed' = {p \in Fed :
    \/ PassedThrough \/ sent'[p].k \in Content
    \/ /\ provider = "openai" /\ HasArguments(sent'[p])
       /\ api = "messages" =>
             \E q \in Fed : q <= p /\ sent'[q].k \in CallKind /\ sent'[q].i = sent'[p].i}
  BY <1>1 DEF Owed
<1>3. \A p \in Fed : p \in Owed' <=> p \in Owed
  BY <1>2, OwedIs
<1> QED
  BY <1>2, <1>3, OwedIs

\* What a read adds to what is owed is what the lines it leaves carry.
LEMMA FlowRead ==
  ASSUME TInv, Reading, NEW cut \in BOOLEAN, cut => chunk # <<>>, Read(cut), ~failed'
  PROVE  Listed(Owed', ReadTo') = Listed(Owed, ReadTo) \o Rest(Owed', lines')
<1> DEFINE G == Given(cut)
           n == From
           m == Len(sent)
           A == Owed'
           B == Owed
<1>1. /\ n \in Nat /\ G \in Seq(Line) /\ Len(G) \in Nat /\ n + Len(G) <= m /\ n <= ReadTo
      /\ \A p \in n + 1 .. ReadTo : p \notin Fed
      /\ Fed \subseteq 1 .. n /\ \A j \in 1 .. Len(G) : G[j] = sent[n + j]
      /\ DOMAIN G = 1 .. Len(G)
  BY GivenIs, LenProperties
<1>2. /\ ReadTo' = m /\ sent' = sent /\ Fed' = Fed \cup (n + 1 .. n + Len(G))
      /\ lines' = IF api = "responses" THEN Rewritten(G) ELSE G
  BY FedMore
<1>3. /\ m \in Nat /\ m <= MaxLines /\ MaxLines \in Nat /\ ReadTo \in Nat /\ ReadTo <= m
      /\ \A p \in 1 .. m : sent[p].n = p
  BY ReadFacts, BoundsAssumption DEF TInv
<1>4. api' = api /\ provider' = provider /\ PassedThrough' = PassedThrough
  BY ReadIs DEF provided, PassedThrough
<1>5. A = {p \in Fed' :
    \/ PassedThrough \/ sent[p].k \in Content
    \/ /\ provider = "openai" /\ HasArguments(sent[p])
       /\ api = "messages" =>
             \E q \in Fed' : q <= p /\ sent[q].k \in CallKind /\ sent[q].i = sent[p].i}
  BY <1>2, <1>4 DEF Owed
<1> HIDE DEF G, n, m, A
<1>6. \A p \in 1 .. n : p \in Fed' <=> p \in Fed
  BY <1>1, <1>2
<1>7. \A p \in 1 .. n : p \in A <=> p \in B
  <2> TAKE p \in 1 .. n
  <2>1. \A q \in Fed' : q <= p => q \in Fed
    <3> TAKE q \in Fed'
    <3>1. q \in Fed \/ q \in n + 1 .. n + Len(G)
      BY <1>2
    <3> QED
      BY <1>1, <3>1
  <2>2. \A q \in Fed : q \in Fed'
    BY <1>2
  <2> QED
    BY <1>5, <1>6, <2>1, <2>2, OwedIs
<1> HIDE DEF B
<1>8. Listed(A, n) = Listed(B, n)
  BY <1>7, ListedSame
<1>9. Listed(B, ReadTo) = Listed(B, n)
  <2>1. \A p \in n + 1 .. ReadTo : p \notin B
    BY <1>1, OwedIs DEF B
  <2>2. ReadTo <= MaxLines
    BY <1>3
  <2> QED
    BY <1>1, <1>3, <2>1, <2>2, ListedUp
<1> DEFINE r == n + Len(G)
<1>10. Listed(A, m) = Listed(A, r)
  <2>1. \A p \in r + 1 .. m : p \notin A
    <3> TAKE p \in r + 1 .. m
    <3>1. p \notin 1 .. n /\ p \notin n + 1 .. n + Len(G)
      BY <1>1, <1>3
    <3> QED
      BY <1>1, <1>2, <1>5, <3>1
  <2>2. r \in Nat /\ r <= m
    BY <1>1
  <2> HIDE DEF r
  <2> QED
    BY <1>3, <2>1, <2>2, ListedUp
<1>11. Listed(A, n + Len(G)) = Listed(A, n) \o Rest(A, G)
  <2>1. \A j \in 1 .. Len(G) : n + j \in 1 .. m
    BY <1>1, <1>3
  <2>2. \A j \in 1 .. Len(G) : G[j].n = n + j
    BY <1>1, <1>3, <2>1
  <2>3. n + Len(G) <= MaxLines
    BY <1>1, <1>3
  <2> QED
    BY <1>1, <2>2, <2>3, ListedRest
<1>12. Rest(A, lines') = Rest(A, G)
  <2>1. CASE api = "responses"
    <3>1. ASSUME NEW j \in DOMAIN G, G[j].n \in A PROVE Rewrite(G[j]) = <<G[j]>>
      <4>1. G[j] = sent[n + j] /\ n + j \in 1 .. m
        BY <1>1, <1>3
      <4>2. G[j].n = n + j
        BY <1>3, <4>1
      <4>3. sent[n + j].k \in Content \/ provider = "openai"
        BY <1>5, <2>1, <3>1, <4>2 DEF PassedThrough
      <4>4. G[j] \in Line
        BY <1>1, ElementOfSeq
      <4> QED
        BY <4>1, <4>3, <4>4, RewriteIs
    <3>2. Rest(A, Rewritten(G)) = Rest(A, G)
      BY <1>1, <3>1, RestRewritten
    <3> QED
      BY <1>2, <2>1, <3>2
  <2>2. CASE api # "responses"
    BY <1>2, <2>2
  <2> QED
    BY <2>1, <2>2
<1>13. Listed(A, m) = Listed(B, ReadTo) \o Rest(A, lines')
  BY <1>8, <1>9, <1>10, <1>11, <1>12
<1> QED
  BY <1>2, <1>13 DEF A, B

\* A line that is handled is the next that is owed, if it is.
LEMMA FlowTail ==
  ASSUME TInv, Reading, lines # <<>>, lines' = Tail(lines),
         UNCHANGED <<provided, upstream, reading, logs>>
  PROVE  /\ Owed' = Owed /\ Listed(Owed', ReadTo') = Listed(Owed, ReadTo)
         /\ Rest(Owed, lines) = Mark(Owed, Head(lines).n) \o Rest(Owed', lines')
<1>1. Fed' = Fed /\ ReadTo' = ReadTo /\ sent' = sent
  BY ReadingTail
<1>2. UNCHANGED provided
  OBVIOUS
<1>3. Owed' = Owed
  BY <1>1, <1>2, OwedSame
<1>4. lines \in Seq(Line)
  BY DEF TInv
<1> DEFINE A == Owed
<1> HIDE DEF A
<1>5. Rest(A, lines) = Mark(A, Head(lines).n) \o Rest(A, Tail(lines))
  BY <1>4, RestHead
<1> QED
  BY <1>1, <1>3, <1>5 DEF A

\* A line of the Responses handler is owed when it has text or arguments.
LEMMA HeadOwed ==
  ASSUME TInv, Reading, api = "responses", lines # <<>>
  PROVE  /\ Head(lines) \in Line /\ Head(lines).n \in Fed
         /\ Matches(Head(lines), sent[Head(lines).n])
         /\ Head(lines).n \in Owed <=> Head(lines).k \in Content \/ HasArguments(Head(lines))
<1> DEFINE l == Head(lines)
           o == sent[l.n]
<1>1. l \in Line /\ 1 \in DOMAIN lines /\ l = lines[1]
  <2>1. lines \in Seq(Line)
    BY DEF TInv
  <2> QED
    BY <2>1, HeadTail
<1>2. l.n \in Fed /\ Matches(l, o)
  BY <1>1 DEF Reading
<1> HIDE DEF l
<1>3. o \in Line
  BY <1>2, ReadFacts
<1>4. ~PassedThrough
  BY DEF PassedThrough
<1>5. l.n \in Owed <=> o.k \in Content \/ (provider = "openai" /\ HasArguments(o))
  BY <1>2, <1>4, OwedIs
<1> HIDE DEF o
<1>6. l.n \in Owed <=> l.k \in Content \/ HasArguments(l)
  <2>1. CASE provider = "openai" /\ l = o
    BY <1>5, <2>1
  <2>2. CASE l.k \in Content /\ l.k = o.k
    BY <1>5, <2>2
  <2>3. CASE l.k = "stop" /\ o.k \in Ends
    BY <1>5, <2>3 DEF Content, HasArguments, Ends
  <2> QED
    BY <1>2, <2>1, <2>2, <2>3 DEF Matches
<1> QED
  BY <1>1, <1>2, <1>6 DEF l, o

\* A refusal.
LEMMA RefuseSound ==
  ASSUME TInv, Responding, api = "responses", ~Done, Refuse
  PROVE  Sound(Said', current, items, Leaks)
<1> DEFINE x == Bare("error")
<1>1. wire' = Append(wire, x) /\ pending' = pending
  BY RefuseIs
<1>2. x \in Events /\ x.e = "error"
  BY BareIs DEF Names
<1>3. wire \in Seq(Events) /\ pending \in Seq(Events) /\ current \in Item /\ items \in Seq(Item)
  BY DEF TInv
<1>4. /\ started => pending = <<>>
      /\ ~started => wire = <<>>
      /\ Sound(Said, current, items, Leaks)
  BY DEF Responding
<1> DEFINE w == wire
           q == pending
           S == Said
           a == Leaks
           c == current
           its == items
<1>5. w \in Seq(Events) /\ q \in Seq(Events) /\ c \in Item /\ its \in Seq(Item)
      /\ S = w \o q /\ Said' = Append(w, x) \o q /\ Sound(S, c, its, a)
  BY <1>1, <1>3, <1>4 DEF Said
<1>6. (q = <<>>) \/ (w = <<>>)
  BY <1>4
<1> HIDE DEF x, w, q, S, a, c, its
<1>7. CASE q = <<>>
  <2> DEFINE T == Append(w, x)
  <2>1. T \in Seq(Events)
    BY <1>2, <1>5, AppendProperties
  <2> HIDE DEF T
  <2>2. T \o <<>> = T /\ w \o <<>> = w
    BY <1>5, <2>1, ConcatEmptySeq
  <2>3. Said' = T /\ S = w
    BY <1>5, <1>7, <2>2 DEF T
  <2>4. Sound(Append(w, x), c, its, a)
    BY <1>2, <1>5, <2>3, SoundOther
  <2> QED
    BY <2>3, <2>4 DEF T, c, its, a
<1>8. CASE w = <<>>
  <2> DEFINE T == <<x>>
  <2>1. Append(w, x) = T
    BY <1>8
  <2>2. <<>> \o q = q
    BY <1>5, ConcatEmptySeq
  <2>3. S = q
    BY <1>5, <1>8, <2>2
  <2>4. Sound(<<x>> \o S, c, its, a)
    BY <1>2, <1>5, <2>3, SoundAfter
  <2>5. Said' = <<x>> \o S
    BY <1>5, <2>1, <2>3
  <2> QED
    BY <2>4, <2>5 DEF c, its, a
<1> QED
  BY <1>6, <1>7, <1>8
-----------------------------------------------------------------------------
(* The items and the flow of a Responses stream are kept by every step.     *)

\* No events are sound.
LEMMA SoundNone == \A leaks : Sound(<<>>, NoItem, <<>>, leaks)
<1> DEFINE e == <<>>
<1>1. Len(e) = 0 /\ DOMAIN e = {}
  BY EmptySeq
<1>2. ASSUME NEW n PROVE Earlier(e, Len(e) + 1, n) = {}
  <2>1. 1 .. (Len(e) + 1) - 1 = {}
    BY <1>1
  <2> QED
    BY <2>1 DEF Earlier
<1>3. Cardinality({}) = 0
  BY FS_EmptySet
<1>4. Cardinality(Earlier(e, Len(e) + 1, "close")) = 0
      /\ Cardinality(Earlier(e, Len(e) + 1, "open")) = 0
  BY <1>2, <1>3
<1>5. Gathered(e, "delta", {Len(e)}) = NoItem.c
  BY GatherNone, NoItemIs
<1> HIDE DEF e
<1>6. \A leaks : Sound(e, NoItem, e, leaks)
  BY <1>1, <1>4, <1>5, NoItemIs DEF Sound
<1> QED
  BY <1>6 DEF e

\* The first event is the response's announcement.
LEMMA RespondingInit == Init => Responding
<1> SUFFICES ASSUME Init, api = "responses" PROVE Responding
  BY DEF Responding
<1> DEFINE e == <<>>
           x == Bare("created")
           S == <<x>>
<1>1. /\ wire = e /\ pending = S /\ out = <<>> /\ current = NoItem /\ items = e
      /\ heldText = e /\ sent = <<>> /\ chunk = <<>> /\ lines = <<>> /\ logs = <<>>
      /\ started = FALSE
  BY DEF Init
<1>2. x \in Events /\ x.e = "created"
  BY BareIs DEF Names
<1>3. e \in Seq(Events) /\ e \in Seq(Item) /\ e \in Seq(Pos) /\ S \in Seq(Events)
      /\ Append(e, x) = S /\ DOMAIN e = {} /\ DOMAIN S = {1} /\ S[1] = x
  BY <1>2, EmptySeq
<1>4. Sound(e, NoItem, e, Leaks)
  BY SoundNone
<1>5. Gathered(e, "delta", Nat) = e
  BY GatherNone
<1>6. ReadTo = 0
  BY <1>1, EmptySeq DEF ReadTo
<1>7. Rest(Owed, lines) = <<>> /\ Listed(Owed, ReadTo) = <<>>
  BY <1>1, <1>6, RestNone, ListedNone
<1>8. e \o S = S
  BY <1>3, ConcatEmptySeq
<1>9. e \o e = e
  BY <1>3, ConcatEmptySeq
<1>10. ~Has("error", S)
  BY <1>2, <1>3 DEF Has
<1>11. ~HasText(S)
  BY <1>2, <1>3 DEF HasText
<1>12. Gathered(S, "delta", Nat) = e
  <2> DEFINE I == Nat
  <2>1. \A p \in DOMAIN S : ~(S[p].e = "delta" /\ S[p].i \in I)
    BY <1>2, <1>3
  <2> HIDE DEF S, I
  <2>2. Gathered(S, "delta", I) = <<>>
    BY <1>3, <2>1, GatherNothing
  <2> QED
    BY <2>2 DEF I
<1>13. Rest(Owed, lines) = e /\ Listed(Owed, ReadTo) = e
  BY <1>7
<1>14. e = <<>>
  OBVIOUS
<1> HIDE DEF e, x, S
<1>15. Sound(Append(e, x), NoItem, e, Leaks)
  BY <1>2, <1>3, <1>4, NoItemIs, SoundOther
<1>16. Said = S
  BY <1>1, <1>8 DEF Said
<1>17. Gathered(Said, "delta", Nat) \o heldText \o Rest(Owed, lines) = Listed(Owed, ReadTo)
  BY <1>1, <1>9, <1>12, <1>13, <1>16
<1> QED
  BY <1>1, <1>3, <1>10, <1>11, <1>14, <1>15, <1>16, <1>17 DEF Responding, Done

\* A line that is handled: what the step has to show.
LEMMA RespondingLine ==
  ASSUME TInv, Reading, Responding, api = "responses", lines # <<>>, lines' = Tail(lines),
         UNCHANGED <<provided, upstream, reading, out, logs>>,
         started' => pending' = <<>>, ~started' => wire' = <<>>,
         holding' => current' = NoItem /\ items' = <<>>,
         ~holding' => heldText' = <<>>,
         \A p \in DOMAIN heldText' : heldText'[p] \in DOMAIN sent,
         heldText' # <<>> \/ HasText(Said') => accum' # <<>>,
         ~Has("error", Said'),
         started' => started \/ sent[Head(lines).n].k \in {"text", "leak", "fail"} \cup Ends,
         Sound(Said', current', items', Leaks),
         Gathered(Said', "delta", Nat) \o heldText' =
            (Shown0 \o heldText) \o Mark(Owed, Head(lines).n)
  PROVE  Responding'
<1>1. ~failed /\ ~Done
  BY DEF Reading
<1>2. Fed' = Fed /\ ReadTo' = ReadTo /\ sent' = sent /\ Owed' = Owed
      /\ Listed(Owed', ReadTo') = Listed(Owed, ReadTo)
      /\ Rest(Owed, lines) = Mark(Owed, Head(lines).n) \o Rest(Owed', lines')
  BY ReadingTail, FlowTail
<1>3. api' = api /\ failed' = failed /\ logs' = logs /\ out' = out
  BY DEF provided, reading
<1>4. Leaks' = Leaks /\ Done' = Done
  BY <1>2, <1>3 DEF Leaks, Done
<1>5. Head(lines) \in Line /\ Head(lines).n \in Fed /\ Head(lines).n \in Pos
      /\ Tail(lines) \in Seq(Line)
  <2>1. lines \in Seq(Line)
    BY DEF TInv
  <2> QED
    BY <2>1, HeadOwed, HeadTail, LineFields
<1>6. started' =>
         \E p \in Fed : \/ sent[p].k \in {"text", "leak"} \cup Ends
                        \/ sent[p].k = "fail" /\ ~failed
  BY <1>1, <1>5 DEF Responding
<1>7. (Gathered(Said', "delta", Nat) \o heldText') \o Rest(Owed', lines')
         = Listed(Owed, ReadTo)
  <2> DEFINE a == Shown0 \o heldText
             b == Mark(Owed, Head(lines).n)
             c == Rest(Owed', lines')
             A == Owed'
  <2>1. a \in Seq(Pos)
    BY <1>1, HoldsFlushed
  <2>2. b \in Seq(Pos)
    BY <1>5, MarkType
  <2>3. c \in Seq(Pos)
    <3> HIDE DEF A
    <3>1. Rest(A, Tail(lines)) \in Seq(Pos)
      BY <1>5, RestType
    <3> QED
      BY <3>1 DEF A
  <2>4. a \o (b \o c) = Listed(Owed, ReadTo)
    <3>1. Gathered(Said, "delta", Nat) \o heldText \o Rest(Owed, lines) = Listed(Owed, ReadTo)
      BY <1>1 DEF Responding
    <3> QED
      BY <1>2, <3>1 DEF Shown0
  <2>5. Gathered(Said', "delta", Nat) \o heldText' = a \o b
    OBVIOUS
  <2> HIDE DEF a, b, c, A
  <2>6. (a \o b) \o c = a \o (b \o c)
    BY ONLY <2>1, <2>2, <2>3, Assoc
  <2> QED
    BY <2>4, <2>5, <2>6 DEF c
<1>8. out = <<>>
  BY DEF Responding
<1> QED
  BY <1>1, <1>2, <1>3, <1>4, <1>6, <1>7, <1>8 DEF Responding

\* A call's delta.
LEMMA RespondingOnCall ==
  ASSUME TInv, Reading, Responding, api = "responses", lines # <<>>, lines' = Tail(lines),
         UNCHANGED <<provided, upstream, reading, out, logs>>, OnCall(Head(lines))
  PROVE  Responding'
<1> DEFINE l == Head(lines)
           d == Arguments(l)
           a == Shown0 \o heldText
           c == a \o d
           t == Texted
<1>1. ~failed /\ ~Done
  BY DEF Reading
<1>2. l \in Line /\ l.n \in Fed
      /\ (l.n \in Owed <=> l.k \in Content \/ HasArguments(l))
  BY HeadOwed
<1>3. /\ l.k \in ToolKind /\ Emit(CallWork(l), started) /\ CallWork(l) \in Work
      /\ holding' = FALSE /\ heldText' = (IF holding THEN <<>> ELSE heldText)
      /\ accum' = accum
  <2> HIDE DEF l
  <2>1. OnCall(l)
    BY DEF l
  <2> QED
    BY <1>2, <2>1, OnCallIs
<1>4. /\ Holds(Said, CallWork(l), Leaks, c, t) /\ d \in Seq(Pos)
  <2> HIDE DEF l
  <2>1. Holds(Said, CallWork(l), Leaks, (Shown0 \o heldText) \o Arguments(l), Texted)
        /\ Arguments(l) \in Seq(Pos)
    BY <1>1, <1>2, HoldsOnCall
  <2> QED
    BY <2>1
<1>5. a \in Seq(Pos)
  BY <1>1, HoldsFlushed
<1>6. Mark(Owed, l.n) = d
  BY <1>2, <1>3 DEF Mark, Arguments, ToolKind, Content
<1> DEFINE w == CallWork(l)
<1>7. w \in Work /\ Emit(w, started) /\ Holds(Said, w, Leaks, c, t)
  BY <1>3, <1>4
<1> HIDE DEF w, c, t
<1>8. started \in BOOLEAN
  BY DEF TInv
<1>9. /\ Sound(Said', current', items', Leaks) /\ ~Has("error", Said')
      /\ Gathered(Said', "delta", Nat) = c /\ (HasText(Said') => t)
      /\ started' = started /\ (started => pending' = <<>>) /\ (~started => wire' = wire)
  BY <1>7, <1>8, EmitHolds, EmitIs
<1>10. ~started => wire = <<>>
  BY <1>1 DEF Responding
<1>11. ~holding => heldText = <<>>
  BY DEF Responding
<1>12. heldText' = <<>>
  BY <1>3, <1>11
<1>13. c \o <<>> = c
  <2>1. c \in Seq(Pos)
    BY <1>4, <1>5, ConcatProperties DEF c
  <2> QED
    BY <2>1, ConcatEmptySeq
<1> DEFINE e == <<>>
<1>14. e = <<>> /\ DOMAIN e = {}
  BY EmptySeq
<1> HIDE DEF e
<1>15. \A p \in DOMAIN heldText' : heldText'[p] \in DOMAIN sent
  BY <1>12, <1>14
<1>16. Gathered(Said', "delta", Nat) \o heldText'
          = (Shown0 \o heldText) \o Mark(Owed, Head(lines).n)
  BY <1>6, <1>9, <1>12, <1>13 DEF c
<1>17. heldText' # <<>> \/ HasText(Said') => accum' # <<>>
  BY <1>3, <1>9, <1>12 DEF t, Texted
<1>18. ~holding'
  BY <1>3
<1> QED
  BY <1>9, <1>10, <1>12, <1>15, <1>16, <1>17, <1>18, RespondingLine

\* Content.
LEMMA RespondingOnText ==
  ASSUME TInv, Reading, Responding, api = "responses", lines # <<>>, lines' = Tail(lines),
         UNCHANGED <<provided, upstream, reading, out, logs>>, OnText(Head(lines))
  PROVE  Responding'
<1> DEFINE l == Head(lines)
           d == <<l.n>>
           g == Shown0
           h == heldText
<1>1. ~failed /\ ~Done
  BY DEF Reading
<1>2. l \in Line /\ l.n \in Fed /\ Matches(l, sent[l.n])
      /\ (l.n \in Owed <=> l.k \in Content \/ HasArguments(l))
  BY HeadOwed
<1>3. /\ l.k \in Content /\ accum' = Append(accum, l.n) /\ holding' = holding
      /\ holding => Emit(Now, TRUE) /\ heldText' = Append(heldText, l.n)
      /\ ~holding => /\ Emit(Delta(OpenMessage(Now), d), TRUE)
                     /\ heldText' = heldText
      /\ Delta(OpenMessage(Now), d) \in Work
  <2> HIDE DEF l
  <2>1. OnText(l)
    BY DEF l
  <2> QED
    BY <1>2, <2>1, OnTextIs
<1>4. Mark(Owed, l.n) = d
  BY <1>2, <1>3 DEF Mark
<1>5. /\ g \in Seq(Pos) /\ Now \in Work /\ Now.cur = current /\ h \in Seq(Pos)
      /\ Holds(Said, Now, Leaks, g, Texted)
  BY <1>1, HoldsNow, HoldsFlushed
<1>6. sent[l.n].k \in {"text", "leak", "fail"} \cup Ends
  <2>1. l.k \in {"text", "leak", "fail"}
    BY <1>3 DEF Content
  <2> HIDE DEF l
  <2> QED
    BY <1>2, <2>1 DEF Matches, Ends
<1>7. accum' # <<>>
  <2>1. accum \in Seq(Pos) /\ l.n \in Pos
    BY <1>2, LineFields DEF TInv
  <2> DEFINE b == Append(accum, l.n)
  <2>2. Len(b) = Len(accum) + 1 /\ Len(accum) \in Nat
    BY <2>1, AppendProperties, LenProperties
  <2> HIDE DEF b
  <2>3. b # <<>>
    BY <2>2, EmptySeq
  <2> QED
    BY <1>3, <2>3 DEF b
<1>8. \A p \in DOMAIN heldText : heldText[p] \in DOMAIN sent
  BY DEF Responding
<1>9. l.n \in DOMAIN sent /\ d \in Seq(Pos)
  BY <1>2, ReadFacts, LineFields
<1>10. TRUE \in BOOLEAN
  OBVIOUS
<1>11. CASE holding
  <2> DEFINE w == Now
             c == g
             t == Texted
  <2>1. w \in Work /\ Emit(w, TRUE) /\ Holds(Said, w, Leaks, c, t)
    BY <1>3, <1>5, <1>11
  <2> HIDE DEF w, c, t
  <2>2. /\ Sound(Said', current', items', Leaks) /\ ~Has("error", Said')
        /\ Gathered(Said', "delta", Nat) = c
        /\ started' = TRUE /\ pending' = <<>> /\ current' = w.cur /\ items' = w.items
    BY <1>10, <2>1, EmitHolds, EmitIs
  <2>3. current' = NoItem /\ items' = <<>>
    BY <1>11, <2>2, NowIs DEF w, Responding
  <2>4. heldText' = Append(h, l.n)
    BY <1>3, <1>11
  <2>5. heldText' = h \o d
    BY <1>2, <1>5, <2>4, LineFields, AppendIsConcat
  <2>6. g \o (h \o d) = (g \o h) \o d
    <3> HIDE DEF g, h, d
    <3> QED
      BY ONLY <1>5, <1>9, Assoc, SMTT(40)
  <2>7. Gathered(Said', "delta", Nat) \o heldText' = (Shown0 \o heldText) \o Mark(Owed, l.n)
    BY <1>4, <2>2, <2>5, <2>6 DEF c
  <2>8. \A p \in DOMAIN heldText' : heldText'[p] \in DOMAIN sent
    <3> DEFINE f == Append(h, l.n)
               D == DOMAIN sent
               y == l.n
    <3>1. Len(h) \in Nat /\ DOMAIN h = 1 .. Len(h) /\ DOMAIN f = 1 .. Len(h) + 1
          /\ f[Len(h) + 1] = y /\ \A p \in 1 .. Len(h) : f[p] = h[p]
      BY <1>2, <1>5, LineFields, LenProperties, AppendProperties
    <3> HIDE DEF f, D, y
    <3>2. ASSUME NEW p \in 1 .. Len(h) + 1 PROVE f[p] \in D
      <4>1. CASE p = Len(h) + 1
        BY <1>9, <3>1, <4>1 DEF D, y
      <4>2. CASE p # Len(h) + 1
        <5>1. p \in 1 .. Len(h)
          BY <3>1, <4>2
        <5> QED
          BY <1>8, <3>1, <5>1 DEF D
      <4> QED
        BY <4>1, <4>2
    <3> QED
      BY <2>4, <3>1, <3>2 DEF f, D
  <2>9. holding'
    BY <1>3, <1>11
  <2> QED
    BY <1>6, <1>7, <2>2, <2>3, <2>7, <2>8, <2>9, RespondingLine
<1>12. CASE ~holding
  <2> DEFINE w == Delta(OpenMessage(Now), d)
             c == g \o d
             t == TRUE
  <2>1. w \in Work /\ Emit(w, TRUE)
    BY <1>3, <1>12
  <2>2. Holds(Said, w, Leaks, c, t)
    <3> HIDE DEF l
    <3> QED
      BY <1>1, <1>2, HoldsOnText
  <2> HIDE DEF w, c, t
  <2>3. /\ Sound(Said', current', items', Leaks) /\ ~Has("error", Said')
        /\ Gathered(Said', "delta", Nat) = c
        /\ started' = TRUE /\ pending' = <<>>
    BY <1>10, <2>1, <2>2, EmitHolds, EmitIs
  <2>4. h = <<>> /\ heldText' = h
    BY <1>3, <1>12 DEF Responding
  <2> DEFINE e == <<>>
  <2>5. g \o e = g /\ c \o e = c /\ h = e
    <3>1. c \in Seq(Pos)
      BY <1>5, <1>9, ConcatProperties DEF c
    <3> QED
      BY <1>5, <2>4, <3>1, ConcatEmptySeq
  <2> HIDE DEF e
  <2>6. Gathered(Said', "delta", Nat) \o heldText' = (Shown0 \o heldText) \o Mark(Owed, l.n)
    BY <1>4, <2>3, <2>4, <2>5 DEF c
  <2>7. ~holding' /\ heldText' = <<>>
    BY <1>3, <1>12, <2>4
  <2>8. \A p \in DOMAIN heldText' : heldText'[p] \in DOMAIN sent
    BY <1>8, <2>4
  <2> QED
    BY <1>6, <1>7, <2>3, <2>6, <2>7, <2>8, RespondingLine
<1> QED
  BY <1>11, <1>12

\* The end of the answer, and the lines that carry nothing.
LEMMA RespondingOnSilent ==
  ASSUME TInv, Reading, Responding, api = "responses", lines # <<>>, lines' = Tail(lines),
         UNCHANGED <<provided, upstream, reading, out, logs>>,
         OnFinish(Head(lines)) \/ OnOther(Head(lines))
  PROVE  Responding'
<1> DEFINE l == Head(lines)
           m == l.n
           d == Mark(Owed, m)
           h == heldText
           g == Shown0 \o h
<1>1. ~failed /\ ~Done
  BY DEF Reading
<1>2. l \in Line /\ l.n \in Fed /\ Matches(l, sent[l.n])
      /\ (l.n \in Owed <=> l.k \in Content \/ HasArguments(l))
  BY HeadOwed
<1>3. l.k \in Ends \cup {"role", "usage", "done"}
  BY DEF OnFinish, OnOther
<1>4. l.n \notin Owed
  BY <1>2, <1>3 DEF Content, HasArguments, Ends
<1>5. d = <<>>
  BY <1>4 DEF Mark
<1>6. /\ holding' = holding /\ heldText' = heldText /\ accum' = accum
      /\ Said' = Said /\ current' = current /\ items' = items
      /\ started' => pending' = <<>>
      /\ ~started' => wire' = <<>>
      /\ started' => started \/ l.k \in Ends
  <2>1. CASE OnFinish(l)
    <3> DEFINE w == Now
               S == Said
               e == <<>>
    <3>1. w \in Work /\ w.ev = e /\ w.cur = current /\ w.items = items /\ Emit(w, TRUE)
      BY <2>1, NowIs DEF OnFinish
    <3>2. S \in Seq(Events)
      BY <1>1, HoldsNow
    <3>3. S \o e = S
      BY <3>2, ConcatEmptySeq
    <3>4. TRUE \in BOOLEAN
      OBVIOUS
    <3> HIDE DEF w, S, e
    <3>5. Said' = S \o w.ev /\ current' = w.cur /\ items' = w.items /\ started' = TRUE
          /\ pending' = <<>>
      BY <3>1, <3>4, EmitIs DEF S
    <3> QED
      BY <2>1, <3>1, <3>3, <3>5 DEF OnFinish, S
  <2>2. CASE OnOther(l)
    <3>1. UNCHANGED <<answer, holding, heldText, accum>>
      BY <2>2 DEF OnOther
    <3>2. /\ holding' = holding /\ heldText' = heldText /\ accum' = accum
          /\ wire' = wire /\ pending' = pending /\ started' = started
          /\ current' = current /\ items' = items
      BY <3>1 DEF answer
    <3> QED
      BY <1>1, <3>2 DEF Said, Responding
  <2> QED
    BY <2>1, <2>2
<1>7. g \in Seq(Pos)
  BY <1>1, HoldsFlushed
<1>8. Gathered(Said', "delta", Nat) \o heldText' = (Shown0 \o heldText) \o Mark(Owed, l.n)
  <2>1. Gathered(Said', "delta", Nat) \o heldText' = g
    BY <1>6 DEF Shown0
  <2> DEFINE e == <<>>
  <2>2. g \o e = g /\ d = e
    BY <1>5, <1>7, ConcatEmptySeq
  <2> HIDE DEF e, g, d
  <2>3. g \o d = g
    BY <2>2
  <2> QED
    BY <2>1, <2>3 DEF g, d
<1>9. /\ Sound(Said', current', items', Leaks) /\ ~Has("error", Said')
      /\ holding' => current' = NoItem /\ items' = <<>>
      /\ ~holding' => heldText' = <<>>
      /\ \A p \in DOMAIN heldText' : heldText'[p] \in DOMAIN sent
      /\ heldText' # <<>> \/ HasText(Said') => accum' # <<>>
  BY <1>1, <1>6 DEF Responding
<1>10. l.k \in Ends => sent[l.n].k \in {"text", "leak", "fail"} \cup Ends
  <2> HIDE DEF l
  <2> QED
    BY <1>2 DEF Matches, Ends, Content
<1> QED
  BY <1>6, <1>8, <1>9, <1>10, RespondingLine

\* The handler's variables other than the lines are left alone.
Answering == <<answer, holding, heldText, out, logs>>

\* Then all that was said is the same.
LEMMA AnsweringSame ==
  ASSUME UNCHANGED Answering
  PROVE  /\ started' = started /\ pending' = pending /\ current' = current /\ items' = items
         /\ finish' = finish /\ wire' = wire /\ holding' = holding /\ heldText' = heldText
         /\ out' = out /\ logs' = logs /\ Said' = Said /\ Done' = Done
BY DEF Answering, answer, Said, Done

\* A line that arrives is nothing to the Responses handler yet.
LEMMA RespondingArrive ==
  ASSUME TInv, Reading, Responding, Arrive
  PROVE  Responding'
<1> SUFFICES ASSUME api' = "responses" PROVE Responding'
  BY DEF Responding
<1>1. /\ UNCHANGED Answering /\ UNCHANGED provided /\ failed' = failed /\ lines' = lines
      /\ accum' = accum
  BY ArriveIs DEF Answering, reading
<1>2. api' = api
  BY <1>1 DEF provided
<1>3. Fed' = Fed /\ ReadTo' = ReadTo /\ \A p \in 1 .. Len(sent) : sent'[p] = sent[p]
  BY ReadingArrive
<1>4. DOMAIN sent \subseteq DOMAIN sent' /\ DOMAIN sent = 1 .. Len(sent)
      /\ Fed \subseteq 1 .. Len(sent)
  BY ReadingArrive, ReadFacts
<1>5. \A p \in Fed : sent'[p] = sent[p]
  BY <1>3, <1>4
<1>6. Owed' = Owed
  BY <1>1, <1>3, <1>5, OwedSame
<1>7. Leaks \subseteq Leaks'
  BY <1>3, <1>4 DEF Leaks
<1>8. /\ started' = started /\ pending' = pending /\ current' = current /\ items' = items
      /\ wire' = wire /\ holding' = holding /\ heldText' = heldText
      /\ out' = out /\ Said' = Said /\ Done' = Done
  BY <1>1, AnsweringSame
<1>9. Sound(Said', current', items', Leaks')
  <2> DEFINE S == Said
             c == current
             its == items
             a == Leaks
             b == Leaks'
  <2>1. Sound(S, c, its, a) /\ a \subseteq b
    BY <1>2, <1>7 DEF Responding
  <2> HIDE DEF S, c, its, a, b
  <2>2. Sound(S, c, its, b)
    BY <2>1, SoundMore
  <2> QED
    BY <1>8, <2>2 DEF S, c, its, b
<1>10. ~Done /\ started =>
          \E p \in Fed : \/ sent'[p].k \in {"text", "leak"} \cup Ends
                         \/ sent'[p].k = "fail" /\ ~failed
  BY <1>2, <1>5 DEF Responding
<1>11. \A p \in DOMAIN heldText : heldText[p] \in DOMAIN sent'
  BY <1>2, <1>4 DEF Responding
<1>12. /\ out = <<>>
       /\ ~Done /\ started => pending = <<>>
       /\ ~Done /\ ~started => wire = <<>>
       /\ holding => current = NoItem /\ items = <<>>
       /\ ~holding => heldText = <<>>
       /\ ~Done /\ (heldText # <<>> \/ HasText(Said)) => accum # <<>>
       /\ ~Done => ~Has("error", Said)
       /\ ~Done /\ ~failed =>
             Gathered(Said, "delta", Nat) \o heldText \o Rest(Owed, lines) = Listed(Owed, ReadTo)
  BY <1>2 DEF Responding
<1> QED
  BY <1>1, <1>3, <1>6, <1>8, <1>9, <1>10, <1>11, <1>12 DEF Responding

\* A line that a read gives the handler comes after those given before.
LEMMA FailsLast ==
  ASSUME TInv, Reading, NEW p \in Fed, NEW q \in DOMAIN chunk
  PROVE  sent[p].k # "fail"
<1>1. /\ ReadTo \in Nat /\ ReadTo + Len(chunk) = Len(sent) /\ Fed \subseteq 1 .. ReadTo
      /\ DOMAIN sent = 1 .. Len(sent) /\ DOMAIN chunk = 1 .. Len(chunk)
      /\ Len(chunk) \in Nat /\ Len(sent) \in Nat
  BY ReadFacts
<1>2. p \in DOMAIN sent /\ ReadTo + q \in DOMAIN sent /\ p < ReadTo + q
  BY <1>1
<1> QED
  BY <1>2 DEF Reading, InOrder

\* A read gives it the next lines that are owed.
LEMMA RespondingRead ==
  ASSUME TInv, Reading, Responding, NEW cut \in BOOLEAN, cut => chunk # <<>>, Read(cut)
  PROVE  Responding'
<1> SUFFICES ASSUME api' = "responses" PROVE Responding'
  BY DEF Responding
<1>1. /\ UNCHANGED Answering /\ UNCHANGED provided /\ sent' = sent /\ lines = <<>> /\ ~Done
      /\ ~(failed /\ api = "responses")
      /\ failed' = (failed \/ \E p \in DOMAIN WholeOf(cut) : WholeOf(cut)[p].k = "fail")
      /\ accum' = IF api = "messages" THEN accum \o Counted(WholeOf(cut)) ELSE accum
  BY ReadIs DEF Answering
<1>2. api' = api /\ api = "responses" /\ ~failed /\ accum' = accum
  BY <1>1 DEF provided
<1>3. /\ started' = started /\ pending' = pending /\ current' = current /\ items' = items
      /\ wire' = wire /\ holding' = holding /\ heldText' = heldText
      /\ out' = out /\ Said' = Said /\ Done' = Done
  BY <1>1, AnsweringSame
<1>4. Fed \subseteq Fed'
  BY FedMore
<1>5. Leaks' = Leaks
  BY <1>1 DEF Leaks
<1>6. started => \E p \in Fed' : \/ sent'[p].k \in {"text", "leak"} \cup Ends
                                 \/ sent'[p].k = "fail" /\ ~failed'
  <2> SUFFICES ASSUME started
               PROVE  \E p \in Fed' : \/ sent'[p].k \in {"text", "leak"} \cup Ends
                                      \/ sent'[p].k = "fail" /\ ~failed'
    OBVIOUS
  <2>1. PICK p \in Fed : \/ sent[p].k \in {"text", "leak"} \cup Ends
                         \/ sent[p].k = "fail" /\ ~failed
    BY <1>1, <1>2 DEF Responding
  <2>2. sent[p].k = "fail" => ~failed'
    <3> SUFFICES ASSUME sent[p].k = "fail", failed' PROVE FALSE
      OBVIOUS
    <3>1. PICK q \in DOMAIN WholeOf(cut) : WholeOf(cut)[q].k = "fail"
      BY <1>1, <1>2
    <3> DEFINE w == WholeOf(cut)
    <3>2. w = IF cut THEN Front(chunk) ELSE chunk
      BY DEF WholeOf
    <3>0. q \in DOMAIN w
      BY <3>1
    <3> HIDE DEF w
    <3>3. DOMAIN w = 1 .. Len(w) /\ DOMAIN chunk = 1 .. Len(chunk) /\ Len(chunk) \in Nat
          /\ Len(w) \in Nat
          /\ Len(w) = IF cut THEN Len(chunk) - 1 ELSE Len(chunk)
      BY <3>2, WholeIs
    <3>4. q \in DOMAIN chunk
      <4>1. q \in 1 .. Len(w)
        BY <3>0, <3>3
      <4>2. Len(w) = Len(chunk) \/ Len(w) = Len(chunk) - 1
        BY <3>3
      <4> DEFINE n == Len(w)
                 k == Len(chunk)
      <4>0. n \in Nat /\ k \in Nat /\ q \in 1 .. n /\ (n = k \/ n = k - 1)
        BY <3>3, <4>1, <4>2
      <4> HIDE DEF n, k
      <4>4. q \in 1 .. k
        BY ONLY <4>0
      <4>3. q \in 1 .. Len(chunk)
        BY <4>4 DEF k
      <4> QED
        BY <3>3, <4>3
    <3> QED
      BY <3>4, FailsLast
  <2> QED
    BY <1>1, <1>4, <2>1, <2>2
<1>7. ~failed' => Gathered(Said, "delta", Nat) \o heldText \o Rest(Owed', lines')
                     = Listed(Owed', ReadTo')
  <2> SUFFICES ASSUME ~failed'
               PROVE  Gathered(Said, "delta", Nat) \o heldText \o Rest(Owed', lines')
                         = Listed(Owed', ReadTo')
    OBVIOUS
  <2> DEFINE c == Shown0 \o heldText
             L == Listed(Owed, ReadTo)
             e == <<>>
  <2>1. c \o Rest(Owed, lines) = L
    BY <1>1, <1>2 DEF Responding, Shown0
  <2>2. Rest(Owed, lines) = e
    BY <1>1, RestNone
  <2>3. c \in Seq(Pos)
    BY <1>1, <1>2, HoldsFlushed
  <2>4. c \o e = c
    BY <2>3, ConcatEmptySeq
  <2>5. Listed(Owed', ReadTo') = L \o Rest(Owed', lines')
    BY FlowRead
  <2> HIDE DEF c, L, e
  <2>6. c = L
    BY <2>1, <2>2, <2>4
  <2>7. c \o Rest(Owed', lines') = Listed(Owed', ReadTo')
    BY <2>5, <2>6
  <2> QED
    BY <2>7 DEF c, Shown0
<1>8. /\ out = <<>>
      /\ started => pending = <<>>
      /\ ~started => wire = <<>>
      /\ holding => current = NoItem /\ items = <<>>
      /\ ~holding => heldText = <<>>
      /\ \A p \in DOMAIN heldText : heldText[p] \in DOMAIN sent
      /\ (heldText # <<>> \/ HasText(Said)) => accum # <<>>
      /\ ~Has("error", Said)
      /\ Sound(Said, current, items, Leaks)
  BY <1>1, <1>2 DEF Responding
<1> QED
  BY <1>1, <1>2, <1>3, <1>5, <1>6, <1>7, <1>8 DEF Responding

\* At the end the items are still sound.
LEMMA RespondingEnd ==
  ASSUME TInv, Reading, Responding, EndResponses
  PROVE  Responding' /\ Done'
<1>1. /\ api = "responses" /\ ~Done /\ UNCHANGED <<provided, upstream, reading, lines, out>>
      /\ (Refuse \/ Complete)
  BY EndResponsesIs
<1>2. api' = api /\ sent' = sent /\ out' = out /\ Leaks' = Leaks
  BY <1>1 DEF provided, upstream, Leaks
<1>3. out = <<>> /\ (~holding => heldText = <<>>)
      /\ (holding => current = NoItem /\ items = <<>>)
      /\ \A p \in DOMAIN heldText : heldText[p] \in DOMAIN sent
  BY <1>1 DEF Responding
<1> DEFINE e == <<>>
<1>4. e = <<>> /\ DOMAIN e = {} /\ Len(e) = 0
  BY EmptySeq
<1> HIDE DEF e
<1>5. Len(logs') = 1 => Done'
  BY <1>4 DEF Done
<1>6. CASE Refuse
  <2>1. /\ current' = current /\ items' = items /\ holding' = holding /\ heldText' = heldText
        /\ Len(logs') = 1
    BY <1>1, <1>6, RefuseIs
  <2>2. Sound(Said', current, items, Leaks)
    BY <1>1, <1>6, RefuseSound
  <2> QED
    BY <1>2, <1>3, <1>5, <2>1, <2>2 DEF Responding
<1>7. CASE Complete
  <2> DEFINE w == EndWork
             c == IF EndLeaks = <<>> THEN Shown0 \o heldText ELSE Shown0
             t == Texted
  <2>1. /\ Emit(w, TRUE) /\ w \in Work /\ Len(logs') = 1
        /\ heldText' = <<>> /\ holding' = FALSE
    BY <1>1, <1>7, CompleteIs
  <2>2. Holds(Said, w, Leaks, c, t)
    BY <1>1, HoldsEnd
  <2>3. TRUE \in BOOLEAN
    OBVIOUS
  <2> HIDE DEF w, c, t
  <2>4. Sound(Said', current', items', Leaks)
    BY <2>1, <2>2, <2>3, EmitHolds
  <2> QED
    BY <1>2, <1>3, <1>4, <1>5, <2>1, <2>4 DEF Responding
<1> QED
  BY <1>1, <1>6, <1>7

\* What keeps all but the head changes nothing that is known of the handler.
LEMMA RespondingSame ==
  ASSUME Responding, UNCHANGED Kept
  PROVE  Responding'
<1>1. /\ api' = api /\ provider' = provider /\ holding' = holding /\ sent' = sent
      /\ chunk' = chunk /\ torn' = torn /\ lost' = lost /\ lines' = lines
      /\ failed' = failed /\ tokens' = tokens /\ accum' = accum /\ started' = started
      /\ pending' = pending /\ current' = current /\ items' = items
      /\ heldText' = heldText /\ finish' = finish /\ out' = out /\ wire' = wire
      /\ logs' = logs
  BY KeptSame
<1>2. /\ Said' = Said /\ Done' = Done /\ Leaks' = Leaks /\ ReadTo' = ReadTo
      /\ Converts' = Converts
  BY <1>1 DEF Said, Done, Leaks, ReadTo, Converts
<1>3. Fed' = Fed
  BY <1>1, <1>2 DEF Fed
<1>4. Owed' = Owed
  BY <1>1, <1>3, OwedSame DEF provided
<1> QED
  BY <1>1, <1>2, <1>3, <1>4 DEF Responding

\* Every step keeps what is known of the Responses handler.
LEMMA RespondingNext == TInv /\ Reading /\ Responding /\ [Next]_vars => Responding'
<1> SUFFICES ASSUME TInv, Reading, Responding, [Next]_vars PROVE Responding'
  OBVIOUS
<1>1. CASE Arrive
  BY <1>1, RespondingArrive
<1>2. CASE \E cut \in BOOLEAN : (cut => chunk # <<>>) /\ Read(cut)
  BY <1>2, RespondingRead
<1>3. CASE ResponsesLine
  <2>1. /\ api = "responses" /\ lines # <<>> /\ lines' = Tail(lines)
        /\ UNCHANGED <<provided, upstream, reading, out, logs>>
        /\ \/ OnCall(Head(lines)) \/ OnText(Head(lines))
           \/ OnFinish(Head(lines)) \/ OnOther(Head(lines))
    BY <1>3 DEF ResponsesLine
  <2> QED
    BY <2>1, RespondingOnCall, RespondingOnText, RespondingOnSilent
<1>4. CASE MessagesLine \/ EndMessages
  <2>1. api = "messages" /\ api' = api
    BY <1>4 DEF MessagesLine, EndMessages, provided
  <2> QED
    BY <2>1 DEF Responding
<1>5. CASE EndResponses
  BY <1>5, RespondingEnd
<1>6. CASE Ping \/ UNCHANGED vars
  BY <1>6, Keeps, RespondingSame
<1> QED
  BY <1>1, <1>2, <1>3, <1>4, <1>5, <1>6 DEF Next
-----------------------------------------------------------------------------
(* The blocks of a Messages stream, event by event.                         *)

\* One more event.
IsToolOpen(x, i) == x.e = "open" /\ x.k = "tool_use" /\ x.i = i

\* A block is begun by its opening,
LEMMA StartedMore ==
  ASSUME NEW S \in Seq(Events), NEW x \in Events
  PROVE  \A i : Started(Append(S, x), i) <=> Started(S, i) \/ IsToolOpen(x, i)
<1> DEFINE T == Append(S, x)
           n == Len(S)
<1>1. /\ n \in Nat /\ DOMAIN S = 1 .. n /\ DOMAIN T = 1 .. n + 1
      /\ T[n + 1] = x /\ \A p \in 1 .. n : T[p] = S[p]
  BY EarlierMore
<1> HIDE DEF T, n
<1>2. n + 1 \in 1 .. n + 1 /\ (\A p \in 1 .. n + 1 : p = n + 1 \/ p \in 1 .. n)
      /\ \A p \in 1 .. n : p \in 1 .. n + 1
  BY <1>1
<1>3. \A i : Started(T, i) <=> Started(S, i) \/ IsToolOpen(x, i)
  <2> TAKE i
  <2>1. Started(T, i) <=> \E p \in 1 .. n + 1 : IsToolOpen(T[p], i)
    BY <1>1 DEF Started, Opens, IsToolOpen
  <2>2. Started(S, i) <=> \E p \in 1 .. n : IsToolOpen(S[p], i)
    BY <1>1 DEF Started, Opens, IsToolOpen
  <2> QED
    BY <1>1, <1>2, <2>1, <2>2
<1> QED
  BY <1>3 DEF T

\* and stays the only one of its index if no second one is opened.
LEMMA ToolsStartMore ==
  ASSUME NEW S \in Seq(Events), NEW x \in Events, ToolsStart(S),
         x.k = "tool_use" /\ x.e # "raw" => (x.e = "open" <=> ~Started(S, x.i))
  PROVE  ToolsStart(Append(S, x))
<1> DEFINE T == Append(S, x)
           n == Len(S)
<1>1. /\ n \in Nat /\ DOMAIN S = 1 .. n /\ DOMAIN T = 1 .. n + 1
      /\ T[n + 1] = x /\ \A p \in 1 .. n : T[p] = S[p]
  BY EarlierMore
<1> HIDE DEF T, n
<1>2. /\ n + 1 \in 1 .. n + 1 /\ \A p \in 1 .. n + 1 : p = n + 1 \/ p \in 1 .. n
      /\ \A p \in 1 .. n : p \in 1 .. n + 1
  BY <1>1
<1>3. \A p \in 1 .. n : \A i : Opens(T, p, i) <=> Opens(S, p, i)
  BY <1>1 DEF Opens
<1>4. \A i : Opens(T, n + 1, i) <=> IsToolOpen(x, i)
  BY <1>1 DEF Opens, IsToolOpen
<1>5. ASSUME NEW p \in 1 .. n + 1, T[p].k = "tool_use", T[p].e # "raw"
      PROVE  \E q \in 1 .. p : Opens(T, q, T[p].i)
  <2>1. CASE p = n + 1
    <3>1. CASE x.e = "open"
      <4>1. Opens(T, p, T[p].i)
        BY <1>1, <1>5, <2>1, <3>1 DEF Opens
      <4>2. p \in 1 .. p
        BY <1>1, <2>1
      <4> QED
        BY <4>1, <4>2
    <3>2. CASE x.e # "open"
      <4>1. Started(S, x.i)
        BY <1>1, <1>5, <2>1, <3>2
      <4>2. PICK q \in 1 .. n : Opens(S, q, x.i)
        BY <1>1, <4>1 DEF Started
      <4>3. Opens(T, q, T[p].i) /\ q \in 1 .. p
        BY <1>1, <1>3, <2>1, <4>2
      <4> QED
        BY <4>3
    <3> QED
      BY <3>1, <3>2
  <2>2. CASE p # n + 1
    <3>1. p \in 1 .. n
      BY <1>2, <2>2
    <3>2. T[p] = S[p]
      BY <1>1, <3>1
    <3>3. PICK q \in 1 .. p : Opens(S, q, S[p].i)
      BY <1>1, <1>5, <3>1, <3>2 DEF ToolsStart
    <3>4. q \in 1 .. n
      BY <1>1, <3>1
    <3> QED
      BY <1>3, <3>2, <3>3, <3>4
  <2> QED
    BY <2>1, <2>2
<1>6. ASSUME NEW p \in 1 .. n + 1, NEW q \in 1 .. n + 1,
             Opens(T, p, T[q].i), Opens(T, q, T[q].i)
      PROVE  p = q
  <2>1. CASE p = n + 1 /\ q = n + 1
    BY <2>1
  <2>2. CASE p # n + 1 /\ q # n + 1
    <3>1. p \in 1 .. n /\ q \in 1 .. n
      BY <1>2, <2>2
    <3>2. Opens(S, p, S[q].i) /\ Opens(S, q, S[q].i)
      BY <1>1, <1>3, <1>6, <3>1
    <3> QED
      BY <1>1, <3>1, <3>2 DEF ToolsStart
  <2>3. CASE p = n + 1 /\ q # n + 1
    <3>1. q \in 1 .. n
      BY <1>2, <2>3
    <3>2. Opens(S, q, S[q].i) /\ IsToolOpen(x, S[q].i)
      BY <1>1, <1>3, <1>4, <1>6, <2>3, <3>1
    <3>3. Started(S, x.i)
      BY <1>1, <3>1, <3>2 DEF Started, IsToolOpen
    <3> QED
      BY <3>2, <3>3 DEF IsToolOpen
  <2>4. CASE p # n + 1 /\ q = n + 1
    <3>1. p \in 1 .. n
      BY <1>2, <2>4
    <3>2. Opens(S, p, x.i) /\ IsToolOpen(x, x.i)
      BY <1>1, <1>3, <1>4, <1>6, <2>4, <3>1
    <3>3. Started(S, x.i)
      BY <1>1, <3>1, <3>2 DEF Started
    <3> QED
      BY <3>2, <3>3 DEF IsToolOpen
  <2> QED
    BY <2>1, <2>2, <2>3, <2>4
<1>7. ToolsStart(T)
  BY <1>1, <1>5, <1>6 DEF ToolsStart
<1> QED
  BY <1>7 DEF T

\* The events S are in order: they ended if stop, give c, and began the blocks N.
Writes(S, stop, c, N) ==
    /\ S \in Seq(Events) /\ ToolsStart(S) /\ ~Has("error", S)
    /\ Has("stop", S) <=> stop = TRUE
    /\ Gathered(S, "delta", Nat) = c
    /\ \A i : Started(S, i) <=> i \in N

\* One more event.
LEMMA WritesMore ==
  ASSUME NEW S, NEW stop \in BOOLEAN, NEW c, NEW N, NEW x \in Events, Writes(S, stop, c, N),
         x.e # "error", x.k = "tool_use" /\ x.e # "raw" => (x.e = "open" <=> x.i \notin N),
         NEW M, \A i : i \in M <=> i \in N \/ IsToolOpen(x, i),
         NEW ended \in BOOLEAN, ended = TRUE <=> stop = TRUE \/ x.e = "stop"
  PROVE  Writes(Append(S, x), ended, c \o Gave(x), M)
<1>1. S \in Seq(Events) /\ ToolsStart(S) /\ ~Has("error", S) /\ (Has("stop", S) <=> stop = TRUE)
      /\ Gathered(S, "delta", Nat) = c /\ \A i : Started(S, i) <=> i \in N
  BY DEF Writes
<1> DEFINE T == Append(S, x)
<1>2. ToolsStart(T)
  BY <1>1, ToolsStartMore
<1>3. \A i : Started(T, i) <=> Started(S, i) \/ IsToolOpen(x, i)
  BY <1>1, StartedMore
<1>4. /\ T \in Seq(Events) /\ \A e : Has(e, T) <=> Has(e, S) \/ x.e = e
      /\ Gathered(T, "delta", Nat) = Gathered(S, "delta", Nat) \o Gave(x)
  BY <1>1, SaidMore
<1> HIDE DEF T
<1>5. Writes(T, ended, c \o Gave(x), M)
  BY <1>1, <1>2, <1>3, <1>4 DEF Writes
<1> QED
  BY <1>5 DEF T

\* An event that is neither a delta nor about a tool_use block nor the last.
LEMMA WritesSilent ==
  ASSUME NEW S, NEW stop \in BOOLEAN, NEW c \in Seq(Pos), NEW N, NEW x \in Events,
         Writes(S, stop, c, N), x.e \notin {"error", "delta", "stop"}, x.k # "tool_use"
  PROVE  Writes(Append(S, x), stop, c, N)
<1> DEFINE g == Gave(x)
<1>1. g = <<>> /\ \A i : ~IsToolOpen(x, i)
  BY DEF Gave, IsToolOpen
<1> HIDE DEF g
<1>2. c \o <<>> = c
  BY ConcatEmptySeq
<1>3. Writes(Append(S, x), stop, c \o g, N)
  <2>1. \A i : i \in N <=> i \in N \/ IsToolOpen(x, i)
    BY <1>1
  <2> QED
    BY <2>1, WritesMore DEF g
<1> QED
  BY <1>1, <1>2, <1>3

\* The beginning of the message adds no content and no tool block,
LEMMA WritesStart ==
  ASSUME NEW S, NEW stop \in BOOLEAN, NEW c \in Seq(Pos), NEW N, Writes(S, stop, c, N)
  PROVE  Writes(EnsureStarted(S), stop, c, N)
<1> DEFINE x == Bare("start")
           e == <<>>
           y == Event("open", "text", 0, e)
           T == Append(S, x)
<1>1. /\ Has("start", S) => EnsureStarted(S) = S
      /\ ~Has("start", S) => EnsureStarted(S) = Append(T, y)
  BY StartIs DEF Writes
<1>2. x \in Events /\ x.e = "start" /\ x.k = "none"
  BY BareIs DEF Names
<1>3. e \in Seq(Pos)
  BY EmptySeq
<1> HIDE DEF e
<1>4. y \in Events /\ y.e = "open" /\ y.k = "text"
  BY <1>3, EventIs DEF Names, Marks
<1> HIDE DEF x, y
<1>5. Writes(T, stop, c, N)
  BY <1>2, WritesSilent
<1> HIDE DEF T
<1>6. Writes(Append(T, y), stop, c, N)
  BY <1>4, <1>5, WritesSilent
<1> QED
  BY <1>1, <1>6

\* and its end only says that it has stopped.
LEMMA WritesFinish ==
  ASSUME NEW S, NEW stop \in BOOLEAN, NEW c \in Seq(Pos), NEW N, Writes(S, stop, c, N)
  PROVE  Writes(WriteFinish(S), TRUE, c, N)
<1> DEFINE U == EnsureStarted(S)
           x == Bare("reason")
           z == Bare("stop")
           A == Append(U, TextEnd)
           B == Append(A, x)
<1>1. /\ Has("stop", S) => WriteFinish(S) = S
      /\ ~Has("stop", S) => WriteFinish(S) = Append(B, z)
      /\ TextEnd \in Events /\ TextEnd.e = "close" /\ TextEnd.k = "text"
  BY FinishIs DEF Writes
<1>2. /\ x \in Events /\ x.e = "reason" /\ x.k = "none"
      /\ z \in Events /\ z.e = "stop" /\ z.k = "none"
  BY BareIs DEF Names
<1>3. Writes(U, stop, c, N)
  BY WritesStart
<1> HIDE DEF U, x, z
<1>4. Writes(A, stop, c, N)
  BY <1>1, <1>3, WritesSilent
<1> HIDE DEF A
<1>5. Writes(B, stop, c, N)
  BY <1>2, <1>4, WritesSilent
<1> HIDE DEF B
<1> DEFINE g == Gave(z)
           t == TRUE
<1>6. g = <<>> /\ (\A i : ~IsToolOpen(z, i)) /\ t \in BOOLEAN /\ t = TRUE
  BY <1>2 DEF Gave, IsToolOpen
<1> HIDE DEF g, t
<1>7. Writes(Append(B, z), t, c \o g, N)
  <2>1. \A i : i \in N <=> i \in N \/ IsToolOpen(z, i)
    BY <1>6
  <2> QED
    BY <1>2, <1>5, <1>6, <2>1, WritesMore DEF g
<1>8. c \o <<>> = c
  BY ConcatEmptySeq
<1>9. Has("stop", S) => stop = TRUE
  BY DEF Writes
<1> QED
  BY <1>1, <1>6, <1>7, <1>8, <1>9

\* A delta of the text block, or of a block that began.
LEMMA WritesDelta ==
  ASSUME NEW S, NEW stop \in BOOLEAN, NEW c \in Seq(Pos), NEW N, NEW x \in Events,
         Writes(S, stop, c, N), x.e = "delta", x.k = "tool_use" => x.i \in N
  PROVE  Writes(Append(S, x), stop, c \o x.c, N)
<1> DEFINE g == Gave(x)
<1>1. g = x.c /\ \A i : ~IsToolOpen(x, i)
  BY DEF Gave, IsToolOpen
<1> HIDE DEF g
<1>2. Writes(Append(S, x), stop, c \o g, N)
  <2>1. \A i : i \in N <=> i \in N \/ IsToolOpen(x, i)
    BY <1>1
  <2> QED
    BY <2>1, WritesMore DEF g
<1> QED
  BY <1>1, <1>2

\* A block begins.
LEMMA WritesOpen ==
  ASSUME NEW S, NEW stop \in BOOLEAN, NEW c \in Seq(Pos), NEW N, NEW x \in Events,
         Writes(S, stop, c, N), x.e = "open", x.k = "tool_use", x.i \notin N
  PROVE  Writes(Append(S, x), stop, c, N \cup {x.i})
<1> DEFINE g == Gave(x)
           M == N \cup {x.i}
<1>1. g = <<>> /\ \A i : i \in M <=> i \in N \/ IsToolOpen(x, i)
  BY DEF Gave, IsToolOpen
<1> HIDE DEF g, M
<1>2. c \o <<>> = c
  BY ConcatEmptySeq
<1>3. Writes(Append(S, x), stop, c \o g, M)
  BY <1>1, WritesMore DEF g
<1> QED
  BY <1>1, <1>2, <1>3 DEF M

\* What the Messages handler has written so far.
Stopped == IF Has("stop", out) THEN TRUE ELSE FALSE
Given0 == Gathered(out, "delta", Nat)
Tools == {i \in Nat : ToolStarted(i)}

\* They are what the stream so far amounts to.
LEMMA OutWrites ==
  ASSUME TInv, Messaging, api = "messages"
  PROVE  Writes(out, Stopped, Given0, Tools) /\ Stopped \in BOOLEAN /\ Given0 \in Seq(Pos)
<1>1. out \in Seq(Events) /\ ToolsStart(out) /\ ~Has("error", out)
  BY DEF TInv, Messaging
<1>2. ASSUME NEW i PROVE Started(out, i) <=> i \in Tools
  <2>1. ASSUME Started(out, i) PROVE i \in Nat
    <3>1. PICK p \in DOMAIN out : out[p].i = i
      BY <2>1 DEF Started, Opens
    <3>2. out[p] \in Events
      BY <1>1, ElementOfSeq
    <3> QED
      BY <3>1, <3>2 DEF Events
  <2> QED
    BY <2>1 DEF Tools, ToolStarted, Started, Opens
<1>3. Given0 \in Seq(Pos)
  BY <1>1, GathersType DEF Given0
<1>4. Stopped \in BOOLEAN /\ (Has("stop", out) <=> Stopped = TRUE)
  BY DEF Stopped
<1> QED
  BY <1>1, <1>2, <1>3, <1>4 DEF Writes, Given0

\* What a line gives a translated stream, and the block it begins.
Piece(l) ==
    IF \/ l.k \in Content
       \/ provider = "openai" /\ HasArguments(l) /\ (l.k = "callargs" \/ l.i \in Tools)
    THEN <<l.n>> ELSE <<>>
Begins(l) == IF provider = "openai" /\ l.k \in CallKind THEN {l.i} ELSE {}
EndsIt(l) == IF l.k \in Ends \cup {"done"} THEN TRUE ELSE Stopped

\* The translation of a line adds its piece and its block, and stops when it ends.
LEMMA TranslateWrites ==
  ASSUME TInv, Messaging, api = "messages", provider # "anthropic", NEW l \in Line,
         l.k \in CallKind => l.i \notin Tools
  PROVE  /\ Writes(Translate(out, l), EndsIt(l), Given0 \o Piece(l), Tools \cup Begins(l))
         /\ Piece(l) \in Seq(Pos)
<1> DEFINE S == out
           stop == Stopped
           c == Given0
           N == Tools
           d == <<l.n>>
           U == EnsureStarted(S)
           x == TextOf(l)
           T == Translate(S, l)
           e == <<>>
<1>1. Writes(S, stop, c, N) /\ stop \in BOOLEAN /\ c \in Seq(Pos) /\ S \in Seq(Events)
  BY OutWrites DEF TInv
<1>2. d \in Seq(Pos) /\ e \in Seq(Pos) /\ l.k \in LineKinds /\ l.i \in Nat
  BY LineFields, EmptySeq
<1>3. x \in Events /\ x.e = "delta" /\ x.k = "text" /\ x.c = d
  BY LineEvents
<1>4. /\ l.k \in Content => T = Append(U, x)
      /\ l.k \in Ends \cup {"done"} => T = WriteFinish(S)
      /\ l.k = "usage" => T = S
      /\ l.k = "role" => T = IF provider = "openai" THEN U ELSE S
      /\ l.k \in ToolKind => T = IF provider = "openai" THEN WriteCall(S, l) ELSE S
  BY <1>1, TranslateIs
<1>5. Writes(U, stop, c, N)
  BY <1>1, WritesStart
<1>6. Writes(WriteFinish(S), TRUE, c, N)
  BY <1>1, WritesFinish
<1>7. c \o e = c
  BY <1>1, ConcatEmptySeq
<1>8. N \cup {} = N
  OBVIOUS
<1>9. Piece(l) \in {d, e}
  BY DEF Piece
<1>10. ASSUME l.k \notin ToolKind
       PROVE  /\ Begins(l) = {} /\ Piece(l) = (IF l.k \in Content THEN d ELSE e)
              /\ EndsIt(l) = (IF l.k \in Ends \cup {"done"} THEN TRUE ELSE stop)
  BY <1>10 DEF Begins, Piece, EndsIt, ToolKind, CallKind, HasArguments
<1>11. ASSUME l.k \in ToolKind
       PROVE  EndsIt(l) = stop /\ l.k \notin Content
  BY <1>11 DEF EndsIt, ToolKind, Ends, Content
<1> HIDE DEF e
<1>12. CASE l.k \in Content
  <2> HIDE DEF U, x, d, S, stop, c, N, T
  <2>1. Writes(Append(U, x), stop, c \o d, N)
    BY <1>1, <1>3, <1>5, WritesDelta
  <2>2. l.k \notin ToolKind /\ l.k \notin Ends \cup {"done"}
    BY <1>12 DEF Content, ToolKind, Ends
  <2>3. Writes(T, EndsIt(l), c \o Piece(l), N \cup Begins(l))
    BY <1>4, <1>8, <1>10, <1>12, <2>1, <2>2
  <2> QED
    BY <1>2, <1>9, <2>3 DEF T, S, c, N
<1>13. CASE l.k \in Ends \cup {"done"}
  <2>2. l.k \notin ToolKind /\ l.k \notin Content
    BY <1>13 DEF Content, ToolKind, Ends
  <2> HIDE DEF U, x, d, S, stop, c, N, T
  <2>3. Writes(T, EndsIt(l), c \o Piece(l), N \cup Begins(l))
    BY <1>4, <1>6, <1>7, <1>8, <1>10, <1>13, <2>2
  <2> QED
    BY <1>2, <1>9, <2>3 DEF T, S, c, N
<1>14. CASE l.k \in {"usage", "role"}
  <2>2. l.k \notin ToolKind /\ l.k \notin Content /\ l.k \notin Ends \cup {"done"}
    BY <1>14 DEF Content, ToolKind, Ends
  <2> HIDE DEF U, x, d, S, stop, c, N, T
  <2>3. T = S \/ T = U
    BY <1>4, <1>14
  <2>4. Writes(T, stop, c, N)
    BY <1>1, <1>5, <2>3
  <2>5. Writes(T, EndsIt(l), c \o Piece(l), N \cup Begins(l))
    BY <1>7, <1>8, <1>10, <2>2, <2>4
  <2> QED
    BY <1>2, <1>9, <2>5 DEF T, S, c, N
<1>15. CASE l.k \in ToolKind /\ provider # "openai"
  <2>1. Begins(l) = {} /\ Piece(l) = e
    BY <1>11, <1>15 DEF Begins, Piece, e
  <2> HIDE DEF U, x, d, S, stop, c, N, T
  <2>2. T = S
    BY <1>4, <1>15
  <2>3. Writes(T, EndsIt(l), c \o Piece(l), N \cup Begins(l))
    BY <1>1, <1>7, <1>8, <1>11, <1>15, <2>1, <2>2
  <2> QED
    BY <1>2, <1>9, <2>3 DEF T, S, c, N
<1>16. CASE l.k \in ToolKind /\ provider = "openai"
  <2> DEFINE o == ToolOpen(l.i)
             t == ToolDelta(l)
             A == Append(U, o)
  <2>1. /\ o \in Events /\ o.e = "open" /\ o.k = "tool_use" /\ o.i = l.i
        /\ t \in Events /\ t.e = "delta" /\ t.k = "tool_use" /\ t.i = l.i /\ t.c = d
    BY ToolEvents
  <2>2. l.i \in N <=> ToolStarted(l.i)
    BY <1>2 DEF Tools
  <2>3. /\ T = WriteCall(S, l) /\ A \in Seq(Events)
        /\ l.k \in CallKind /\ l.i \notin N => T = A \o CallDelta(l)
        /\ l.i \in N => T = S \o CallDelta(l)
        /\ l.k \notin CallKind /\ l.i \notin N => T = S
    BY <1>1, <1>4, <1>16, <2>2, WriteCallIs
  <2>4. /\ Begins(l) = (IF l.k \in CallKind THEN {l.i} ELSE {})
        /\ Piece(l) = IF HasArguments(l) /\ (l.k = "callargs" \/ l.i \in N) THEN d ELSE e
    BY <1>11, <1>16 DEF Begins, Piece, e
  <2>5. EndsIt(l) = stop
    BY <1>11, <1>16
  <2> HIDE DEF U, x, d, S, stop, c, N, T, o, t
  <2>6. Writes(A, stop, c, N \cup {l.i}) \/ l.i \in N
    BY <1>1, <1>5, <2>1, WritesOpen
  <2> HIDE DEF A
  <2>7. CASE l.k \in CallKind
    <3>1. l.i \notin N
      BY <2>7 DEF N
    <3> DEFINE M == N \cup {l.i}
    <3>2. Writes(A, stop, c, M) /\ T = A \o CallDelta(l) /\ Begins(l) = {l.i} /\ l.i \in M
      BY <2>3, <2>4, <2>6, <2>7, <3>1
    <3> HIDE DEF M
    <3>3. CASE HasArguments(l)
      <4>1. T = Append(A, t)
        BY <2>3, <3>2, <3>3, CallDeltaIs DEF t
      <4>2. Writes(Append(A, t), stop, c \o d, M)
        BY <1>1, <2>1, <3>2, WritesDelta
      <4>3. l.k = "callargs"
        BY <2>7, <3>3 DEF HasArguments, CallKind
      <4>4. Piece(l) = d
        BY <2>4, <3>3, <4>3
      <4>5. Writes(T, EndsIt(l), c \o Piece(l), N \cup Begins(l))
        BY <2>5, <3>2, <4>1, <4>2, <4>4 DEF M
      <4> QED
        BY <1>2, <1>9, <4>5 DEF T, S, c, N
    <3>4. CASE ~HasArguments(l)
      <4>1. T = A
        BY <2>3, <3>2, <3>4, CallDeltaIs
      <4>2. Piece(l) = e
        BY <2>4, <3>4
      <4>3. Writes(T, EndsIt(l), c \o Piece(l), N \cup Begins(l))
        BY <1>7, <2>5, <3>2, <4>1, <4>2 DEF M
      <4> QED
        BY <1>2, <1>9, <4>3 DEF T, S, c, N
    <3> QED
      BY <3>3, <3>4
  <2>8. CASE l.k \notin CallKind
    <3>1. Begins(l) = {} /\ HasArguments(l) /\ l.k # "callargs"
      BY <1>16, <2>4, <2>8 DEF HasArguments, CallKind, ToolKind
    <3>2. CASE l.i \in N
      <4>1. T = Append(S, t)
        BY <1>1, <2>3, <3>1, <3>2, CallDeltaIs DEF t
      <4>2. Writes(Append(S, t), stop, c \o d, N)
        BY <1>1, <2>1, <3>2, WritesDelta
      <4>3. Piece(l) = d
        BY <2>4, <3>1, <3>2
      <4>4. Writes(T, EndsIt(l), c \o Piece(l), N \cup Begins(l))
        BY <1>8, <2>5, <3>1, <4>1, <4>2, <4>3
      <4> QED
        BY <1>2, <1>9, <4>4 DEF T, S, c, N
    <3>3. CASE l.i \notin N
      <4>1. T = S /\ Piece(l) = e
        BY <2>3, <2>4, <2>8, <3>1, <3>3
      <4>2. Writes(T, EndsIt(l), c \o Piece(l), N \cup Begins(l))
        BY <1>1, <1>7, <1>8, <2>5, <3>1, <4>1
      <4> QED
        BY <1>2, <1>9, <4>2 DEF T, S, c, N
    <3> QED
      BY <3>2, <3>3
  <2> QED
    BY <2>7, <2>8
<1>17. l.k \in Content \cup Ends \cup {"done", "usage", "role"} \cup ToolKind
  BY <1>2 DEF LineKinds
<1> QED
  BY <1>12, <1>13, <1>14, <1>15, <1>16, <1>17

\* The shape of a stream without calls.
LEMMA ShapeStops ==
  ASSUME NEW S \in Seq(Events), Shape(S), ~Has("stop", S)
  PROVE  Len(S) = 0 \/ \E m \in Nat : Begun(S, m) /\ Len(S) = m + 2
<1> SUFFICES ASSUME NEW m \in Nat, Begun(S, m), Finished(S, m) PROVE FALSE
  BY DEF Shape
<1>1. DOMAIN S = 1 .. Len(S) /\ Len(S) = m + 5 /\ S[m + 5].e = "stop"
  BY LenProperties DEF Finished
<1>2. m + 5 \in DOMAIN S
  BY <1>1
<1> QED
  BY <1>1, <1>2 DEF Has

\* A delta makes the block longer by one,
LEMMA ShapeDelta ==
  ASSUME NEW S \in Seq(Events), NEW m \in Nat, Begun(S, m), Len(S) = m + 2,
         NEW x \in Events, x.e = "delta"
  PROVE  Begun(Append(S, x), m + 1) /\ Len(Append(S, x)) = (m + 1) + 2
<1> DEFINE T == Append(S, x)
           n == m + 2
<1>1. /\ DOMAIN S = 1 .. n /\ Len(T) = n + 1 /\ T[n + 1] = x /\ \A p \in 1 .. n : T[p] = S[p]
  BY EarlierMore
<1>2. /\ S[1].e = "start" /\ S[2].e = "open" /\ \A p \in 3 .. n : S[p].e = "delta"
  BY DEF Begun
<1> HIDE DEF T
<1>3. /\ T[1] = S[1] /\ T[2] = S[2] /\ T[n + 1] = x
  BY <1>1
<1>4. ASSUME NEW p \in 3 .. n + 1 PROVE T[p].e = "delta"
  <2>1. CASE p = n + 1
    BY <1>3, <2>1
  <2>2. CASE p # n + 1
    <3>1. p \in 3 .. n /\ p \in 1 .. n
      BY <2>2
    <3> QED
      BY <1>1, <1>2, <3>1
  <2> QED
    BY <2>1, <2>2
<1>5. (m + 1) + 2 = n + 1 /\ Len(T) = (m + 1) + 2 /\ Len(T) >= (m + 1) + 2
  BY <1>1
<1>6. Begun(T, m + 1)
  <2>1. \A p \in 3 .. (m + 1) + 2 : T[p].e = "delta"
    BY <1>4, <1>5
  <2> QED
    BY <1>2, <1>3, <1>5, <2>1 DEF Begun
<1> QED
  BY <1>5, <1>6 DEF T

\* the beginning is written once,
LEMMA ShapeBegin ==
  ASSUME NEW S \in Seq(Events), Shape(S)
  PROVE  /\ EnsureStarted(S) \in Seq(Events)
         /\ ~Has("stop", S) =>
               \E m \in Nat : Begun(EnsureStarted(S), m) /\ Len(EnsureStarted(S)) = m + 2
         /\ Shape(EnsureStarted(S))
<1> DEFINE x == Bare("start")
           y == Event("open", "text", 0, <<>>)
           A == Append(S, x)
           B == Append(A, y)
           U == EnsureStarted(S)
<1>1. /\ Has("start", S) => U = S
      /\ ~Has("start", S) => U = B
      /\ U \in Seq(Events)
  BY StartIs
<1>2. x \in Events /\ x.e = "start"
  BY BareIs DEF Names
<1>3. y \in Events /\ y.e = "open"
  <2> DEFINE c == <<>>
  <2>1. c \in Seq(Pos)
    BY EmptySeq
  <2> HIDE DEF c
  <2>2. Event("open", "text", 0, c) \in Events /\ Event("open", "text", 0, c).e = "open"
    BY <2>1, EventIs DEF Names, Marks
  <2> QED
    BY <2>2 DEF c
<1> HIDE DEF x, y, U
<1>4. ASSUME NEW m \in Nat, Begun(S, m) PROVE Has("start", S)
  <2>1. 1 \in DOMAIN S /\ S[1].e = "start"
    BY <1>4, LenProperties DEF Begun
  <2> QED
    BY <2>1 DEF Has
<1>5. CASE Len(S) = 0
  <2>1. ~Has("start", S)
    <3>1. DOMAIN S = 1 .. 0
      BY <1>5, LenProperties
    <3> QED
      BY <3>1 DEF Has
  <2>2. A \in Seq(Events) /\ Len(A) = 1 /\ A[1] = x
    BY <1>2, <1>5, EarlierMore
  <2> HIDE DEF A
  <2>3. Len(B) = 2 /\ B[2] = y /\ B[1] = A[1]
    <3>0. B = Append(A, y) /\ A \in Seq(Events) /\ y \in Events
      BY <1>3, <2>2
    <3> HIDE DEF B
    <3>1. Len(B) = Len(A) + 1 /\ B[Len(A) + 1] = y /\ \A p \in 1 .. Len(A) : B[p] = A[p]
      BY ONLY <3>0, EarlierMore
    <3>2. Len(B) = 1 + 1 /\ B[1 + 1] = y /\ \A p \in 1 .. 1 : B[p] = A[p]
      BY <2>2, <3>1
    <3> QED
      BY <3>2
  <2> HIDE DEF B
  <2>4. Begun(B, 0) /\ Len(B) = 0 + 2
    BY <1>2, <1>3, <2>2, <2>3 DEF Begun
  <2>5. \E m \in Nat : Begun(B, m) /\ Len(B) = m + 2
    BY <2>4
  <2> QED
    BY <1>1, <2>1, <2>5 DEF Shape, U
<1>6. CASE Len(S) # 0
  <2>1. U = S
    BY <1>1, <1>4, <1>6 DEF Shape
  <2>2. ~Has("stop", S) => \E m \in Nat : Begun(S, m) /\ Len(S) = m + 2
    BY <1>6, ShapeStops
  <2> QED
    BY <1>1, <2>1, <2>2 DEF U
<1> QED
  BY <1>5, <1>6

\* so is the end,
LEMMA ShapeFinish ==
  ASSUME NEW S \in Seq(Events), Shape(S)
  PROVE  Shape(WriteFinish(S))
<1> DEFINE U == EnsureStarted(S)
           x == Bare("reason")
           z == Bare("stop")
           A == Append(U, TextEnd)
           B == Append(A, x)
           C == Append(B, z)
<1>1. /\ Has("stop", S) => WriteFinish(S) = S
      /\ ~Has("stop", S) => WriteFinish(S) = C
      /\ TextEnd \in Events /\ TextEnd.e = "close"
  BY FinishIs
<1>2. x \in Events /\ x.e = "reason" /\ z \in Events /\ z.e = "stop"
  BY BareIs DEF Names
<1>3. U \in Seq(Events) /\ (~Has("stop", S) => \E m \in Nat : Begun(U, m) /\ Len(U) = m + 2)
  BY ShapeBegin
<1> HIDE DEF U, x, z
<1>4. CASE ~Has("stop", S)
  <2>1. PICK m \in Nat : Begun(U, m) /\ Len(U) = m + 2
    BY <1>3, <1>4
  <2>2. A \in Seq(Events) /\ Len(A) = m + 3 /\ A[m + 3] = TextEnd
        /\ \A p \in 1 .. m + 2 : A[p] = U[p]
    BY <1>1, <1>3, <2>1, EarlierMore
  <2> HIDE DEF A
  <2>3. B \in Seq(Events) /\ Len(B) = m + 4 /\ B[m + 4] = x
        /\ \A p \in 1 .. m + 3 : B[p] = A[p]
    BY <1>2, <2>2, EarlierMore
  <2> HIDE DEF B
  <2>4. C \in Seq(Events) /\ Len(C) = m + 5 /\ C[m + 5] = z
        /\ \A p \in 1 .. m + 4 : C[p] = B[p]
    BY <1>2, <2>3, EarlierMore
  <2> HIDE DEF C
  <2>5. ASSUME NEW p \in 1 .. m + 2 PROVE C[p] = U[p]
    <3>1. p \in 1 .. m + 3 /\ p \in 1 .. m + 4
      OBVIOUS
    <3> QED
      BY <2>2, <2>3, <2>4, <3>1
  <2>6. C[m + 3] = TextEnd /\ C[m + 4] = x /\ C[m + 5] = z
    <3>1. m + 3 \in 1 .. m + 3 /\ m + 3 \in 1 .. m + 4 /\ m + 4 \in 1 .. m + 4
      OBVIOUS
    <3> QED
      BY <2>2, <2>3, <2>4, <3>1
  <2>7. Begun(C, m)
    <3>1. 1 \in 1 .. m + 2 /\ 2 \in 1 .. m + 2 /\ \A p \in 3 .. m + 2 : p \in 1 .. m + 2
      OBVIOUS
    <3>2. U[1].e = "start" /\ U[2].e = "open" /\ \A p \in 3 .. m + 2 : U[p].e = "delta"
      BY <2>1 DEF Begun
    <3>3. Len(C) >= m + 2
      BY <2>4
    <3> QED
      BY <2>5, <3>1, <3>2, <3>3 DEF Begun
  <2>8. Finished(C, m)
    BY <1>1, <1>2, <2>4, <2>6 DEF Finished
  <2>9. Shape(C)
    BY <2>7, <2>8 DEF Shape
  <2> QED
    BY <1>1, <1>4, <2>9 DEF C
<1> QED
  BY <1>1, <1>4

\* and every line without a tool call keeps the shape.
LEMMA ShapeTranslate ==
  ASSUME NEW S \in Seq(Events), NEW l \in Line, Shape(S), provider # "anthropic",
         l.k \notin ToolKind, l.k \in Content => ~Has("stop", S)
  PROVE  Shape(Translate(S, l))
<1> DEFINE U == EnsureStarted(S)
           x == TextOf(l)
           T == Translate(S, l)
<1>1. x \in Events /\ x.e = "delta"
  BY LineEvents
<1>2. /\ l.k \in Content => T = Append(U, x)
      /\ l.k \in Ends \cup {"done"} => T = WriteFinish(S)
      /\ l.k = "usage" => T = S
      /\ l.k = "role" => T = IF provider = "openai" THEN U ELSE S
  BY TranslateIs
<1>3. l.k \in Content \cup Ends \cup {"done", "usage", "role"}
  BY LineFields DEF LineKinds
<1>4. /\ U \in Seq(Events) /\ Shape(U) /\ Shape(WriteFinish(S))
      /\ ~Has("stop", S) => \E m \in Nat : Begun(U, m) /\ Len(U) = m + 2
  BY ShapeBegin, ShapeFinish
<1> HIDE DEF U, x
<1>5. CASE l.k \in Content
  <2>1. PICK m \in Nat : Begun(U, m) /\ Len(U) = m + 2
    BY <1>4, <1>5
  <2>2. Begun(Append(U, x), m + 1) /\ Len(Append(U, x)) = (m + 1) + 2
    BY <1>1, <1>4, <2>1, ShapeDelta
  <2>3. m + 1 \in Nat
    OBVIOUS
  <2> DEFINE k == m + 1
             V == Append(U, x)
  <2>4. k \in Nat /\ Begun(V, k) /\ Len(V) = k + 2
    BY <2>2, <2>3
  <2> HIDE DEF k, V
  <2>5. Shape(V)
    BY <2>4 DEF Shape
  <2> QED
    BY <1>2, <1>5, <2>5 DEF V
<1>6. CASE l.k \notin Content
  <2> HIDE DEF T
  <2>1. T = WriteFinish(S) \/ T = S \/ T = U
    BY <1>2, <1>3, <1>6
  <2>2. Shape(T)
    BY <1>4, <2>1
  <2> QED
    BY <2>2 DEF T
<1> QED
  BY <1>5, <1>6
-----------------------------------------------------------------------------
(* The blocks and the flow of a Messages stream are kept by every step.     *)

\* The line that is handled next.
LEMMA HeadSent ==
  ASSUME TInv, Reading, api = "messages", lines # <<>>
  PROVE  /\ Head(lines) \in Line /\ Head(lines).n \in Fed
         /\ Head(lines).n \in DOMAIN sent /\ Head(lines) = sent[Head(lines).n]
         /\ ~failed /\ ~Done /\ Head(lines).k \in Kinds[provider]
         /\ \A j \in DOMAIN lines : lines[j].n >= Head(lines).n
         /\ \A j \in DOMAIN Tail(lines) : Tail(lines)[j].n > Head(lines).n
         /\ \A q : (\A j \in DOMAIN Tail(lines) : Tail(lines)[j].n # q) <=>
                      (\A j \in DOMAIN lines : lines[j].n # q) \/ q = Head(lines).n
<1>1. lines \in Seq(Line)
  BY DEF TInv
<1> DEFINE l == Head(lines)
           t == Tail(lines)
           k == Len(lines)
<1>2. /\ l \in Line /\ k \in Nat /\ k >= 1 /\ DOMAIN lines = 1 .. k /\ DOMAIN t = 1 .. k - 1
      /\ l = lines[1] /\ \A j \in 1 .. k - 1 : t[j] = lines[j + 1]
  BY <1>1, HeadTail
<1>3. PICK b \in Nat : /\ b + k <= ReadTo
                       /\ \A j \in DOMAIN lines : b + j \in Fed /\ lines[j] = sent[b + j]
  BY DEF Reading
<1>4. /\ DOMAIN sent = 1 .. Len(sent) /\ Fed \subseteq 1 .. ReadTo /\ ReadTo \in Nat
      /\ ReadTo <= Len(sent) /\ Len(sent) \in Nat /\ \A p \in 1 .. Len(sent) : sent[p].n = p
  BY ReadFacts
<1>5. /\ ~failed /\ ~Done /\ \A p \in DOMAIN sent : sent[p].k \in Kinds[provider]
  BY DEF Reading
<1> HIDE DEF l, t, k
<1>6. \A j \in 1 .. k : b + j \in 1 .. Len(sent) /\ lines[j].n = b + j
  BY <1>2, <1>3, <1>4
<1>7. l.n = b + 1 /\ l = sent[b + 1] /\ b + 1 \in Fed /\ b + 1 \in DOMAIN sent
  BY <1>2, <1>3, <1>4, <1>6
<1>8. \A j \in 1 .. k : lines[j].n >= l.n
  BY <1>6, <1>7
<1>9. \A j \in 1 .. k - 1 : j + 1 \in 1 .. k /\ t[j].n = b + (j + 1) /\ t[j].n > l.n
  BY <1>2, <1>6, <1>7, SMTT(40)
<1>10. ASSUME NEW q
       PROVE  (\A j \in 1 .. k - 1 : t[j].n # q) <=> (\A j \in 1 .. k : lines[j].n # q) \/ q = l.n
  <2>1. ASSUME q = l.n PROVE \A j \in 1 .. k - 1 : t[j].n # q
    BY <1>7, <1>9, <2>1
  <2>2. ASSUME \A j \in 1 .. k : lines[j].n # q PROVE \A j \in 1 .. k - 1 : t[j].n # q
    BY <1>2, <1>9, <2>2
  <2>3. ASSUME \A j \in 1 .. k - 1 : t[j].n # q, q # l.n, NEW j \in 1 .. k
        PROVE  lines[j].n # q
    <3>1. CASE j = 1
      BY <1>2, <2>3, <3>1
    <3>2. CASE j # 1
      <4>1. j - 1 \in 1 .. k - 1 /\ (j - 1) + 1 = j
        BY <1>2, <3>2
      <4>2. t[j - 1] = lines[j]
        BY <1>2, <4>1
      <4> QED
        BY <2>3, <4>1, <4>2
    <3> QED
      BY <3>1, <3>2
  <2> QED
    BY <2>1, <2>2, <2>3
<1> QED
  BY <1>2, <1>5, <1>7, <1>8, <1>9, <1>10 DEF l, t

\* Handled lines, when one more is.
LEMMA HandledMore ==
  ASSUME TInv, Reading, api = "messages", lines # <<>>, lines' = Tail(lines),
         UNCHANGED <<provided, upstream, reading, logs>>
  PROVE  /\ \A q : Handled(q)' <=> Handled(q) \/ q = Head(lines).n
         /\ ~Handled(Head(lines).n)
         /\ \A q \in Fed : q < Head(lines).n => Handled(q)
<1>1. Fed' = Fed
  BY ReadingTail
<1>2. /\ Head(lines).n \in Fed /\ Head(lines).n \in DOMAIN sent
      /\ \A j \in DOMAIN lines : lines[j].n >= Head(lines).n
      /\ \A q : (\A j \in DOMAIN Tail(lines) : Tail(lines)[j].n # q) <=>
                   (\A j \in DOMAIN lines : lines[j].n # q) \/ q = Head(lines).n
  BY HeadSent
<1>3. lines \in Seq(Line) /\ 1 \in DOMAIN lines /\ Head(lines) = lines[1]
  <2>1. lines \in Seq(Line)
    BY DEF TInv
  <2> QED
    BY <2>1, HeadTail
<1>4. ASSUME NEW q PROVE Handled(q)' <=> Handled(q) \/ q = Head(lines).n
  <2>1. Handled(q)' <=> q \in Fed /\ \A j \in DOMAIN Tail(lines) : Tail(lines)[j].n # q
    BY <1>1 DEF Handled
  <2> QED
    BY <1>2, <2>1 DEF Handled
<1>5. ~Handled(Head(lines).n)
  BY <1>3 DEF Handled
<1>6. ASSUME NEW q \in Fed, q < Head(lines).n PROVE Handled(q)
  <2> SUFFICES ASSUME NEW j \in DOMAIN lines, lines[j].n = q PROVE FALSE
    BY DEF Handled
  <2>1. q \in Nat /\ Head(lines).n \in Nat
    BY <1>2, ReadFacts
  <2>2. q >= Head(lines).n
    BY <1>2
  <2> QED
    BY <1>6, <2>1, <2>2
<1> QED
  BY <1>4, <1>5, <1>6

\* What a line is owed is what the translation makes of it.
LEMMA HeadPiece ==
  ASSUME TInv, Reading, Messaging, api = "messages", lines # <<>>, lines' = Tail(lines),
         UNCHANGED <<provided, upstream, reading, logs>>, provider # "anthropic"
  PROVE  /\ Mark(Owed, Head(lines).n) = Piece(Head(lines))
         /\ Head(lines).k \in CallKind => provider = "openai" /\ Head(lines).i \notin Tools
<1> DEFINE l == Head(lines)
           n == l.n
<1>1. /\ l \in Line /\ n \in Fed /\ n \in DOMAIN sent /\ l = sent[n] /\ ~failed
      /\ l.k \in Kinds[provider] /\ l.i \in Nat
  BY HeadSent, LineFields
<1>2. ~Handled(n) /\ \A q \in Fed : q < n => Handled(q)
  BY HandledMore
<1>3. provider = "openai" => \A i \in Nat : i \in Tools <=>
         \E q \in DOMAIN sent : Handled(q) /\ sent[q].k \in CallKind /\ sent[q].i = i
  BY <1>1 DEF Messaging, Tools
<1>4. Fed \subseteq 1 .. ReadTo /\ ReadTo \in Nat /\ DOMAIN sent = 1 .. Len(sent)
      /\ ReadTo <= Len(sent) /\ Len(sent) \in Nat
  BY ReadFacts
<1>5. /\ \A q \in DOMAIN sent : sent[q].k \in ToolKind =>
            \E p \in DOMAIN sent : p <= q /\ sent[p].k \in CallKind /\ sent[p].i = sent[q].i
      /\ \A p \in DOMAIN sent : \A q \in DOMAIN sent :
            sent[p].k \in CallKind /\ sent[q].k \in CallKind /\ sent[p].i = sent[q].i => p = q
  BY DEF Reading, InOrder
<1> HIDE DEF l, n
<1>6. ASSUME l.k \in CallKind PROVE provider = "openai" /\ l.i \notin Tools
  <2>1. provider = "openai"
    <3>1. provider \in Providers
      BY DEF TInv
    <3>2. provider = "gemini" => Kinds[provider] = Content \cup Ends
      BY KindsIs
    <3> QED
      BY <1>1, <1>6, <3>1, <3>2 DEF Providers, Content, Ends, CallKind
  <2>2. ASSUME l.i \in Tools PROVE FALSE
    <3>1. PICK q \in DOMAIN sent : Handled(q) /\ sent[q].k \in CallKind /\ sent[q].i = l.i
      BY <1>1, <1>3, <2>1, <2>2
    <3>2. q = n
      BY <1>1, <1>5, <1>6, <3>1
    <3> QED
      BY <1>2, <3>1, <3>2
  <2> QED
    BY <2>1, <2>2
<1>7. ASSUME l.k = "args", provider = "openai"
      PROVE  l.i \in Tools <=>
                \E q \in Fed : q <= n /\ sent[q].k \in CallKind /\ sent[q].i = sent[n].i
  <2>1. ASSUME l.i \in Tools
        PROVE  \E q \in Fed : q <= n /\ sent[q].k \in CallKind /\ sent[q].i = sent[n].i
    <3>1. PICK q \in DOMAIN sent : Handled(q) /\ sent[q].k \in CallKind /\ sent[q].i = l.i
      BY <1>1, <1>3, <1>7, <2>1
    <3>2. l.k \in ToolKind
      BY <1>7 DEF ToolKind
    <3>3. PICK p \in DOMAIN sent : p <= n /\ sent[p].k \in CallKind /\ sent[p].i = sent[n].i
      BY <1>1, <1>5, <3>2
    <3>4. p = q
      BY <1>1, <1>5, <3>1, <3>3
    <3>5. q \in Fed
      BY <3>1 DEF Handled
    <3> QED
      BY <3>3, <3>4, <3>5
  <2>2. ASSUME NEW q \in Fed, q <= n, sent[q].k \in CallKind, sent[q].i = sent[n].i
        PROVE  l.i \in Tools
    <3>1. q # n
      BY <1>1, <1>7, <2>2 DEF CallKind
    <3>2. q \in DOMAIN sent /\ q \in Nat /\ n \in Nat
      BY <1>1, <1>4
    <3>3. q < n
      BY <2>2, <3>1, <3>2
    <3>4. Handled(q)
      BY <1>2, <3>3
    <3> QED
      BY <1>1, <1>3, <1>7, <2>2, <3>2, <3>4
  <2> QED
    BY <2>1, <2>2
<1>8. n \in Owed <=> \/ l.k \in Content
                     \/ /\ provider = "openai" /\ HasArguments(l)
                        /\ l.k = "callargs" \/ l.i \in Tools
  <2>1. n \in Owed <=>
           \/ l.k \in Content
           \/ /\ provider = "openai" /\ HasArguments(l)
              /\ \E q \in Fed : q <= n /\ sent[q].k \in CallKind /\ sent[q].i = sent[n].i
    BY <1>1, OwedIs DEF PassedThrough
  <2>2. l.k = "callargs" =>
           \E q \in Fed : q <= n /\ sent[q].k \in CallKind /\ sent[q].i = sent[n].i
    <3>1. n <= n
      BY <1>1, <1>4
    <3> QED
      BY <1>1, <3>1 DEF CallKind
  <2>3. HasArguments(l) => l.k = "callargs" \/ l.k = "args"
    BY DEF HasArguments
  <2> QED
    BY <1>7, <2>1, <2>2, <2>3
<1>9. Mark(Owed, n) = Piece(l)
  BY <1>8 DEF Mark, Piece, n
<1> QED
  BY <1>6, <1>9 DEF l, n

\* What handling a line of the Messages API leaves alone.
LEMMA MessagesLineIs ==
  ASSUME MessagesLine
  PROVE  /\ api = "messages" /\ lines # <<>> /\ lines' = Tail(lines)
         /\ out' = Translate(out, Head(lines))
         /\ UNCHANGED <<provided, upstream, reading, logs>>
         /\ api' = api /\ provider' = provider /\ sent' = sent /\ failed' = failed
         /\ started' = started /\ pending' = pending /\ wire' = wire /\ holding' = holding
         /\ heldText' = heldText /\ logs' = logs
BY DEF MessagesLine, provided, upstream, reading, answer

\* Once the end was written, no content is left.
LEMMA NoneAfterStop ==
  ASSUME TInv, Reading, Messaging, api = "messages", lines # <<>>, provider # "anthropic",
         Head(lines).k \in Content
  PROVE  ~Has("stop", out)
<1> SUFFICES ASSUME Has("stop", out) PROVE FALSE
  OBVIOUS
<1> DEFINE n == Head(lines).n
<1>1. n \in DOMAIN sent /\ n \in Fed /\ Head(lines) = sent[n]
  BY HeadSent
<1>2. PICK q \in Fed : /\ sent[q].k \in Ends \cup {"done"}
                       /\ \A j \in DOMAIN lines : q < lines[j].n
  BY DEF Messaging
<1>3. 1 \in DOMAIN lines /\ Head(lines) = lines[1]
  <2>1. lines \in Seq(Line)
    BY DEF TInv
  <2> QED
    BY <2>1, HeadTail
<1>4. q < n /\ q \in DOMAIN sent
  <2>1. Fed \subseteq 1 .. ReadTo /\ ReadTo \in Nat /\ ReadTo <= Len(sent) /\ Len(sent) \in Nat
        /\ DOMAIN sent = 1 .. Len(sent)
    BY ReadFacts
  <2> QED
    BY <1>2, <1>3, <2>1
<1>5. /\ sent[q].k \notin {"done", "fail"}
      /\ sent[q].k \in Ends => sent[n].k \in {"usage", "done"}
  BY <1>1, <1>4 DEF Reading, InOrder
<1> QED
  BY <1>1, <1>2, <1>5 DEF Content

\* Without a call's first delta there is no other.
LEMMA NoCalls ==
  ASSUME TInv, Reading, Calls = 0, NEW p \in DOMAIN sent
  PROVE  sent[p].k \notin ToolKind
<1> SUFFICES ASSUME sent[p].k \in ToolKind PROVE FALSE
  OBVIOUS
<1> DEFINE C == {q \in DOMAIN sent : sent[q].k \in CallKind}
<1>1. IsFiniteSet(C)
  BY SentFacts
<1>2. C # {}
  BY DEF Reading, InOrder
<1>3. Cardinality(C) = 0
  BY DEF Calls
<1> HIDE DEF C
<1> QED
  BY <1>1, <1>2, <1>3, FS_EmptySet

\* A translated line keeps what is known of the Messages handler.
LEMMA MessagingTranslated ==
  ASSUME TInv, Reading, Messaging, MessagesLine, provider # "anthropic"
  PROVE  Messaging'
<1> DEFINE l == Head(lines)
           n == l.n
<1>1. /\ api = "messages" /\ lines # <<>> /\ lines' = Tail(lines) /\ out' = Translate(out, l)
      /\ UNCHANGED <<provided, upstream, reading, logs>>
      /\ api' = api /\ provider' = provider /\ sent' = sent /\ failed' = failed
      /\ started' = started /\ pending' = pending /\ wire' = wire /\ holding' = holding
      /\ heldText' = heldText /\ logs' = logs
  BY MessagesLineIs
<1>2. /\ l \in Line /\ n \in Fed /\ n \in DOMAIN sent /\ l = sent[n]
      /\ ~failed /\ ~Done /\ l.k \in Kinds[provider]
      /\ \A j \in DOMAIN Tail(lines) : Tail(lines)[j].n > n
  BY <1>1, HeadSent
<1>3. Mark(Owed, n) = Piece(l) /\ (l.k \in CallKind => provider = "openai" /\ l.i \notin Tools)
  BY <1>1, HeadPiece
<1>4. /\ \A q : Handled(q)' <=> Handled(q) \/ q = n
      /\ Fed' = Fed
  BY <1>1, HandledMore, ReadingTail
<1>5. Writes(out, Stopped, Given0, Tools) /\ Stopped \in BOOLEAN /\ Given0 \in Seq(Pos)
  BY <1>1, OutWrites
<1>6. /\ Writes(Translate(out, l), EndsIt(l), Given0 \o Piece(l), Tools \cup Begins(l))
      /\ Piece(l) \in Seq(Pos)
  BY <1>1, <1>2, <1>3, TranslateWrites
<1>7. Fed \subseteq 1 .. ReadTo /\ ReadTo \in Nat /\ ReadTo <= Len(sent) /\ Len(sent) \in Nat
      /\ DOMAIN sent = 1 .. Len(sent)
  BY ReadFacts
<1>8. /\ Owed' = Owed /\ Listed(Owed', ReadTo') = Listed(Owed, ReadTo)
      /\ Rest(Owed, lines) = Mark(Owed, n) \o Rest(Owed', lines')
  BY <1>1, FlowTail
<1> HIDE DEF l, n
<1>9. /\ ToolsStart(out') /\ ~Has("error", out') /\ (Has("stop", out') <=> EndsIt(l) = TRUE)
      /\ Gathered(out', "delta", Nat) = Given0 \o Piece(l)
      /\ \A i : Started(out', i) <=> i \in Tools \cup Begins(l)
  BY <1>1, <1>6 DEF Writes
<1>10. EndsIt(l) = TRUE <=> l.k \in Ends \cup {"done"} \/ Has("stop", out)
  BY DEF EndsIt, Stopped
<1>11. Calls' = 0 => Shape(out')
  <2> SUFFICES ASSUME Calls' = 0 PROVE Shape(out')
    OBVIOUS
  <2>1. Calls = 0
    BY <1>1 DEF Calls
  <2>2. l.k \notin ToolKind
    BY <1>2, <2>1, NoCalls
  <2>3. Shape(out) /\ out \in Seq(Events)
    BY <1>1, <2>1 DEF Messaging, TInv
  <2>4. l.k \in Content => ~Has("stop", out)
    BY <1>1, NoneAfterStop DEF l
  <2> QED
    BY <1>1, <1>2, <2>2, <2>3, <2>4, ShapeTranslate
<1>12. Has("stop", out') =>
          \E q \in Fed' : /\ sent'[q].k \in Ends \cup {"done"}
                          /\ \A j \in DOMAIN lines' : q < lines'[j].n
  <2>1. CASE l.k \in Ends \cup {"done"}
    BY <1>1, <1>2, <1>4, <2>1
  <2>2. ASSUME Has("stop", out)
        PROVE  \E q \in Fed' : /\ sent'[q].k \in Ends \cup {"done"}
                               /\ \A j \in DOMAIN lines' : q < lines'[j].n
    <3>1. PICK q \in Fed : /\ sent[q].k \in Ends \cup {"done"}
                           /\ \A j \in DOMAIN lines : q < lines[j].n
      BY <1>1, <2>2 DEF Messaging
    <3>2. \A j \in DOMAIN Tail(lines) : q < Tail(lines)[j].n
      <4>1. lines \in Seq(Line)
        BY DEF TInv
      <4>2. DOMAIN lines = 1 .. Len(lines) /\ Len(lines) \in Nat
            /\ DOMAIN Tail(lines) = 1 .. Len(lines) - 1
            /\ \A j \in 1 .. Len(lines) - 1 : Tail(lines)[j] = lines[j + 1]
        BY <1>1, <4>1, HeadTail
      <4> QED
        BY <3>1, <4>2
    <3> QED
      BY <1>1, <1>4, <3>1, <3>2
  <2> QED
    BY <1>9, <1>10, <2>1, <2>2
<1>13. \A q \in DOMAIN sent' :
          Handled(q)' /\ sent'[q].k \in Ends \cup {"done"} => Has("stop", out')
  <2> SUFFICES ASSUME NEW q \in DOMAIN sent, Handled(q) \/ q = n,
                      sent[q].k \in Ends \cup {"done"}
               PROVE  Has("stop", out')
    BY <1>1, <1>4
  <2>1. CASE q = n
    BY <1>2, <1>9, <1>10, <2>1
  <2>2. CASE Handled(q)
    <3>1. Has("stop", out)
      BY <1>1, <1>2, <2>2 DEF Messaging
    <3> QED
      BY <1>9, <1>10, <3>1
  <2> QED
    BY <2>1, <2>2
<1>14. provider = "openai" => \A i \in Nat : ToolStarted(i)' <=>
          \E q \in DOMAIN sent' : Handled(q)' /\ sent'[q].k \in CallKind /\ sent'[q].i = i
  <2> SUFFICES ASSUME provider = "openai", NEW i \in Nat
               PROVE  Started(out', i) <=>
                         \E q \in DOMAIN sent : /\ Handled(q) \/ q = n
                                                /\ sent[q].k \in CallKind /\ sent[q].i = i
    BY <1>1, <1>4 DEF ToolStarted, Started, Opens
  <2>1. i \in Tools <=>
           \E q \in DOMAIN sent : Handled(q) /\ sent[q].k \in CallKind /\ sent[q].i = i
    BY <1>1, <1>2 DEF Messaging, Tools
  <2>2. i \in Begins(l) <=> l.k \in CallKind /\ l.i = i
    BY DEF Begins
  <2> QED
    BY <1>2, <1>9, <2>1, <2>2
<1>15. Gathered(out', "delta", Nat) \o Rest(Owed', lines') = Listed(Owed', ReadTo')
  <2> DEFINE a == Given0
             b == Piece(l)
             c == Rest(Owed', lines')
  <2>1. a \o Rest(Owed, lines) = Listed(Owed, ReadTo)
    BY <1>1, <1>2 DEF Messaging, PassedThrough, Given0
  <2>2. c \in Seq(Pos)
    <3>1. lines' \in Seq(Line)
      <4>1. lines \in Seq(Line)
        BY DEF TInv
      <4> QED
        BY <1>1, <4>1, HeadTail
    <3> QED
      BY <3>1, RestType
  <2>3. a \in Seq(Pos) /\ b \in Seq(Pos)
    BY <1>5, <1>6
  <2>4. Rest(Owed, lines) = b \o c
    BY <1>3, <1>8
  <2>5. Gathered(out', "delta", Nat) = a \o b
    BY <1>9
  <2> HIDE DEF a, b, c
  <2>6. (a \o b) \o c = a \o (b \o c)
    BY ONLY <2>2, <2>3, Assoc
  <2> QED
    BY <1>8, <2>1, <2>4, <2>5, <2>6 DEF c
<1>16. /\ pending = <<>> /\ ~started /\ ~holding /\ heldText = <<>> /\ wire = <<>>
  BY <1>1, <1>2 DEF Messaging
<1>17. PassedThrough' = FALSE
  BY <1>1 DEF PassedThrough
<1> QED
  BY <1>1, <1>2, <1>9, <1>11, <1>12, <1>13, <1>14, <1>15, <1>16, <1>17 DEF Messaging

\* Anthropic's own events are passed through, each with its line.
LEMMA MessagingPassed ==
  ASSUME TInv, Reading, Messaging, MessagesLine, provider = "anthropic"
  PROVE  Messaging'
<1> DEFINE l == Head(lines)
           n == l.n
           x == RawOf(l)
<1>1. /\ api = "messages" /\ lines # <<>> /\ lines' = Tail(lines) /\ out' = Translate(out, l)
      /\ UNCHANGED <<provided, upstream, reading, logs>>
      /\ api' = api /\ provider' = provider /\ sent' = sent /\ failed' = failed
      /\ started' = started /\ pending' = pending /\ wire' = wire /\ holding' = holding
      /\ heldText' = heldText /\ logs' = logs
  BY MessagesLineIs
<1>2. l \in Line /\ n \in Fed /\ ~failed /\ ~Done
  BY <1>1, HeadSent
<1>3. out \in Seq(Events) /\ lines \in Seq(Line)
  BY DEF TInv
<1>4. out' = Append(out, x)
  BY <1>1, <1>2, <1>3, TranslateIs
<1>5. x \in Events /\ x.e = "raw" /\ x.c = <<n>> /\ x.i \in Nat
  BY <1>2, LineEvents
<1>6. /\ Owed' = Owed /\ Listed(Owed', ReadTo') = Listed(Owed, ReadTo)
      /\ Rest(Owed, lines) = Mark(Owed, n) \o Rest(Owed', lines')
  BY <1>1, FlowTail
<1>7. Rest(Owed', lines') \in Seq(Pos)
  <2>1. lines' \in Seq(Line)
    BY <1>1, <1>3, HeadTail
  <2> QED
    BY <2>1, RestType
<1>8. PassedThrough /\ PassedThrough' = TRUE
  BY <1>1 DEF PassedThrough
<1>9. Mark(Owed, n) = <<n>>
  BY <1>2, <1>8, OwedIs DEF Mark
<1>10. <<n>> \in Seq(Pos)
  BY <1>2, LineFields
<1> HIDE DEF l, n, x
<1>11. ToolsStart(out')
  <2>1. ToolsStart(out)
    BY <1>1 DEF Messaging
  <2> QED
    BY <1>3, <1>4, <1>5, <2>1, ToolsStartMore
<1>12. ~Has("error", out')
  <2>1. ~Has("error", out)
    BY <1>1 DEF Messaging
  <2> QED
    BY <1>3, <1>4, <1>5, <2>1, SaidMore
<1>13. Gathered(out', "raw", Nat) \o Rest(Owed', lines') = Listed(Owed', ReadTo')
  <2> DEFINE a == Gathered(out, "raw", Nat)
             b == <<n>>
             c == Rest(Owed', lines')
  <2>1. Gathered(out', "raw", Nat) = a \o Gain(x, "raw", Nat) /\ a \in Seq(Pos)
    BY <1>3, <1>4, <1>5, GatherAppend
  <2>2. Gain(x, "raw", Nat) = b
    BY <1>5 DEF Gain
  <2>3. a \o Rest(Owed, lines) = Listed(Owed, ReadTo)
    BY <1>1, <1>2, <1>8 DEF Messaging
  <2>4. Rest(Owed, lines) = b \o c
    BY <1>6, <1>9
  <2>5. b \in Seq(Pos) /\ c \in Seq(Pos)
    BY <1>7, <1>10
  <2> HIDE DEF a, b, c
  <2>6. (a \o b) \o c = a \o (b \o c)
    BY ONLY <2>1, <2>5, Assoc
  <2> QED
    BY <1>6, <2>1, <2>2, <2>3, <2>4, <2>6 DEF c
<1>14. /\ pending = <<>> /\ ~started /\ ~holding /\ heldText = <<>> /\ wire = <<>>
  BY <1>1, <1>2 DEF Messaging
<1> QED
  BY <1>1, <1>8, <1>11, <1>12, <1>13, <1>14 DEF Messaging

\* At first nothing was written.
LEMMA MessagingInit == Init => Messaging
<1> SUFFICES ASSUME Init PROVE Messaging
  OBVIOUS
<1> DEFINE e == <<>>
<1>1. e = <<>> /\ DOMAIN e = {} /\ Len(e) = 0 /\ e \in Seq(Pos)
  BY EmptySeq
<1> HIDE DEF e
<1>2. /\ sent = e /\ lines = e /\ out = e /\ wire = e /\ heldText = e /\ chunk = e
      /\ ~started /\ (api = "messages" => pending = e /\ ~holding)
  BY <1>1 DEF Init
<1>3. ~Has("error", out) /\ ~Has("stop", out) /\ ToolsStart(out) /\ Shape(out)
  BY <1>1, <1>2 DEF Has, ToolsStart, Shape
<1>4. \A i : ~ToolStarted(i)
  BY <1>1, <1>2 DEF ToolStarted
<1>5. ReadTo = 0
  BY <1>1, <1>2 DEF ReadTo
<1>6. /\ \A f : Gathered(out, f, Nat) = e
      /\ Rest(Owed, lines) = e
      /\ Listed(Owed, ReadTo) = e
  BY <1>1, <1>2, <1>5, GatherNone, RestNone, ListedNone
<1>7. e \o e = e
  BY <1>1, ConcatEmptySeq
<1> QED
  BY <1>1, <1>2, <1>3, <1>4, <1>6, <1>7 DEF Messaging

\* No call was sent before if none was after.
LEMMA CallsBefore ==
  ASSUME TInv, TInv', Calls' = 0, DOMAIN sent \subseteq DOMAIN sent',
         \A p \in DOMAIN sent : sent'[p] = sent[p]
  PROVE  Calls = 0
<1> DEFINE C == {p \in DOMAIN sent : sent[p].k \in CallKind}
           D == {p \in DOMAIN sent' : sent'[p].k \in CallKind}
<1>1. IsFiniteSet(C)
  BY SentFacts
<1>2. TInv => IsFiniteSet({p \in DOMAIN sent : sent[p].k \in CallKind})
  BY SentFacts
<1>3. (TInv => IsFiniteSet({p \in DOMAIN sent : sent[p].k \in CallKind}))'
  BY SentFacts, PTL
<1>4. IsFiniteSet(D)
  BY <1>3
<1>5. Cardinality(D) = 0
  BY DEF Calls
<1>6. C \subseteq D
  OBVIOUS
<1>7. Calls = Cardinality(C)
  BY DEF Calls
<1> HIDE DEF C, D
<1>8. D = {}
  BY <1>4, <1>5, FS_EmptySet
<1>9. C = {}
  BY <1>6, <1>8
<1> QED
  BY <1>7, <1>9, FS_EmptySet

\* A line that arrives is not handled yet.
LEMMA MessagingArrive ==
  ASSUME TInv, Reading, Messaging, Arrive
  PROVE  Messaging'
<1> SUFFICES ASSUME api' = "messages" PROVE Messaging'
  BY DEF Messaging
<1>1. /\ UNCHANGED Answering /\ UNCHANGED provided /\ failed' = failed /\ lines' = lines /\ ~Done
  BY ArriveIs DEF Answering, reading
<1>2. api' = api /\ provider' = provider
  BY <1>1 DEF provided
<1>3. Fed' = Fed /\ ReadTo' = ReadTo /\ \A p \in 1 .. Len(sent) : sent'[p] = sent[p]
  BY ReadingArrive
<1>4. /\ DOMAIN sent \subseteq DOMAIN sent' /\ DOMAIN sent = 1 .. Len(sent)
      /\ Fed \subseteq 1 .. Len(sent)
  BY ReadingArrive, ReadFacts
<1>5. \A p \in Fed : sent'[p] = sent[p]
  BY <1>3, <1>4
<1>6. Owed' = Owed
  BY <1>1, <1>3, <1>5, OwedSame
<1>7. /\ started' = started /\ pending' = pending /\ wire' = wire /\ holding' = holding
      /\ heldText' = heldText /\ out' = out /\ Done' = Done
  BY <1>1, AnsweringSame
<1>8. \A q : Handled(q)' <=> Handled(q)
  BY <1>1, <1>3 DEF Handled
<1>9. \A q : Handled(q) => q \in DOMAIN sent /\ q \in DOMAIN sent' /\ sent'[q] = sent[q]
  BY <1>3, <1>4 DEF Handled
<1>10. \A i : ToolStarted(i)' <=> ToolStarted(i)
  BY <1>7 DEF ToolStarted
<1>11. Calls' = 0 => Calls = 0
  <2>1. TInv'
    BY TInvArrive
  <2>2. \A p \in DOMAIN sent : sent'[p] = sent[p]
    BY <1>3, <1>4
  <2> QED
    BY <1>4, <2>1, <2>2, CallsBefore
<1>12. PassedThrough' = PassedThrough
  BY <1>2 DEF PassedThrough
<1>13. /\ pending = <<>> /\ ~started /\ ~holding /\ heldText = <<>> /\ wire = <<>>
       /\ ~Has("error", out) /\ ToolsStart(out)
  BY <1>1, <1>2 DEF Messaging
<1>14. provider # "anthropic" =>
         /\ Calls' = 0 => Shape(out)
         /\ Has("stop", out) =>
               \E q \in Fed : /\ sent'[q].k \in Ends \cup {"done"}
                              /\ \A j \in DOMAIN lines : q < lines[j].n
         /\ ~failed => \A q \in DOMAIN sent' :
               Handled(q) /\ sent'[q].k \in Ends \cup {"done"} => Has("stop", out)
  <2> SUFFICES ASSUME provider # "anthropic"
               PROVE  /\ Calls' = 0 => Shape(out)
                      /\ Has("stop", out) =>
                            \E q \in Fed : /\ sent'[q].k \in Ends \cup {"done"}
                                           /\ \A j \in DOMAIN lines : q < lines[j].n
                      /\ ~failed => \A q \in DOMAIN sent' :
                            Handled(q) /\ sent'[q].k \in Ends \cup {"done"} => Has("stop", out)
    OBVIOUS
  <2>1. /\ Calls = 0 => Shape(out)
        /\ Has("stop", out) =>
              \E q \in Fed : /\ sent[q].k \in Ends \cup {"done"}
                             /\ \A j \in DOMAIN lines : q < lines[j].n
        /\ ~failed => \A q \in DOMAIN sent :
              Handled(q) /\ sent[q].k \in Ends \cup {"done"} => Has("stop", out)
    BY <1>2 DEF Messaging
  <2> QED
    BY <1>5, <1>9, <1>11, <2>1
<1>15. provider = "openai" /\ ~failed =>
         \A i \in Nat : ToolStarted(i) <=>
             \E q \in DOMAIN sent' : Handled(q) /\ sent'[q].k \in CallKind /\ sent'[q].i = i
  <2>1. provider = "openai" /\ ~failed =>
          \A i \in Nat : ToolStarted(i) <=>
              \E q \in DOMAIN sent : Handled(q) /\ sent[q].k \in CallKind /\ sent[q].i = i
    BY <1>2 DEF Messaging
  <2> QED
    BY <1>9, <2>1
<1>16. ~failed => Gathered(out, IF PassedThrough THEN "raw" ELSE "delta", Nat) \o Rest(Owed, lines)
                     = Listed(Owed, ReadTo)
  BY <1>1, <1>2 DEF Messaging
<1> QED
  BY <1>1, <1>2, <1>3, <1>6, <1>7, <1>8, <1>10, <1>12, <1>13, <1>14, <1>15, <1>16 DEF Messaging

\* A read handles no line, and gives the next that are owed.
LEMMA MessagingRead ==
  ASSUME TInv, Reading, Messaging, NEW cut \in BOOLEAN, cut => chunk # <<>>, Read(cut)
  PROVE  Messaging'
<1> SUFFICES ASSUME api' = "messages" PROVE Messaging'
  BY DEF Messaging
<1>1. /\ UNCHANGED Answering /\ UNCHANGED provided /\ sent' = sent /\ lines = <<>> /\ ~Done
      /\ failed' = (failed \/ \E p \in DOMAIN WholeOf(cut) : WholeOf(cut)[p].k = "fail")
  BY ReadIs DEF Answering
<1>2. api' = api /\ provider' = provider
  BY <1>1 DEF provided
<1>3. /\ started' = started /\ pending' = pending /\ wire' = wire /\ holding' = holding
      /\ heldText' = heldText /\ out' = out /\ Done' = Done
  BY <1>1, AnsweringSame
<1>4. /\ Fed' = Fed \cup (From + 1 .. From + Len(Given(cut)))
      /\ lines' = IF failed' THEN <<>> ELSE Given(cut)
  BY <1>2, FedMore
<1>5. /\ From \in Nat /\ Given(cut) \in Seq(Line) /\ Len(Given(cut)) \in Nat
      /\ From + Len(Given(cut)) <= Len(sent) /\ Fed \subseteq 1 .. From
      /\ \A j \in 1 .. Len(Given(cut)) : Given(cut)[j] = sent[From + j]
  BY GivenIs
<1>6. /\ DOMAIN sent = 1 .. Len(sent) /\ Len(sent) \in Nat
      /\ \A p \in 1 .. Len(sent) : sent[p].n = p
  BY ReadFacts
<1>7. DOMAIN Given(cut) = 1 .. Len(Given(cut))
  BY <1>5, LenProperties
<1> DEFINE b == From
           g == Given(cut)
           k == Len(g)
<1>8. /\ b \in Nat /\ k \in Nat /\ b + k <= Len(sent) /\ Fed \subseteq 1 .. b
      /\ Fed' = Fed \cup (b + 1 .. b + k) /\ DOMAIN g = 1 .. k
      /\ \A j \in 1 .. k : g[j] = sent[b + j]
      /\ lines' = IF failed' THEN <<>> ELSE g
  BY <1>4, <1>5, <1>7
<1> HIDE DEF b, g, k
<1>9. \A j \in 1 .. k : g[j].n = b + j
  BY <1>6, <1>8
<1>10. DOMAIN lines = {}
  BY <1>1, EmptySeq
<1>11. ASSUME ~failed', NEW q PROVE Handled(q)' <=> Handled(q)
  <2>1. Handled(q) <=> q \in Fed
    BY <1>10 DEF Handled
  <2>2. Handled(q)' <=> q \in Fed' /\ \A j \in 1 .. k : g[j].n # q
    BY <1>8, <1>11 DEF Handled
  <2>3. q \in Fed => \A j \in 1 .. k : g[j].n # q
    BY <1>8, <1>9
  <2>4. q \in b + 1 .. b + k => \E j \in 1 .. k : g[j].n = q
    <3> SUFFICES ASSUME q \in b + 1 .. b + k PROVE \E j \in 1 .. k : g[j].n = q
      OBVIOUS
    <3>1. q - b \in 1 .. k /\ b + (q - b) = q
      BY <1>8
    <3> QED
      BY <1>9, <3>1
  <2> QED
    BY <1>8, <2>1, <2>2, <2>3, <2>4
<1>12. /\ pending = <<>> /\ ~started /\ ~holding /\ heldText = <<>> /\ wire = <<>>
       /\ ~Has("error", out) /\ ToolsStart(out)
  BY <1>1, <1>2 DEF Messaging
<1>13. Calls' = Calls /\ PassedThrough' = PassedThrough
       /\ \A i : ToolStarted(i)' <=> ToolStarted(i)
  BY <1>1, <1>2, <1>3 DEF Calls, PassedThrough, ToolStarted
<1>14. ~failed' => ~failed
  BY <1>1
<1>15. ASSUME provider # "anthropic", Has("stop", out)
       PROVE  \E q \in Fed' : /\ sent[q].k \in Ends \cup {"done"}
                              /\ \A j \in DOMAIN lines' : q < lines'[j].n
  <2>1. PICK q \in Fed : sent[q].k \in Ends \cup {"done"}
    BY <1>2, <1>15 DEF Messaging
  <2>2. q \in Fed' /\ q \in Nat /\ q <= b
    BY <1>8, <2>1
  <2>3. \A j \in DOMAIN lines' : q < lines'[j].n
    <3>1. CASE failed'
      <4>1. DOMAIN lines' = {}
        BY <1>8, <3>1, EmptySeq
      <4> QED
        BY <4>1
    <3>2. CASE ~failed'
      BY <1>8, <1>9, <2>2, <3>2
    <3> QED
      BY <3>1, <3>2
  <2> QED
    BY <2>1, <2>2, <2>3
<1>16. provider # "anthropic" =>
         /\ Calls' = 0 => Shape(out)
         /\ ~failed' => \A q \in DOMAIN sent :
               Handled(q) /\ sent[q].k \in Ends \cup {"done"} => Has("stop", out)
  BY <1>2, <1>13, <1>14 DEF Messaging
<1>17. provider = "openai" /\ ~failed' =>
         \A i \in Nat : ToolStarted(i) <=>
             \E q \in DOMAIN sent : Handled(q) /\ sent[q].k \in CallKind /\ sent[q].i = i
  BY <1>2, <1>14 DEF Messaging
<1>18. ASSUME ~failed'
       PROVE  Gathered(out, IF PassedThrough THEN "raw" ELSE "delta", Nat) \o Rest(Owed', lines')
                 = Listed(Owed', ReadTo')
  <2> DEFINE c == Gathered(out, IF PassedThrough THEN "raw" ELSE "delta", Nat)
             L == Listed(Owed, ReadTo)
             e == <<>>
  <2>1. c \o Rest(Owed, lines) = L
    BY <1>1, <1>2, <1>14, <1>18 DEF Messaging
  <2>2. Rest(Owed, lines) = e
    BY <1>1, RestNone
  <2>3. c \in Seq(Pos)
    <3>1. out \in Seq(Events)
      BY DEF TInv
    <3> QED
      BY <3>1, GathersType
  <2>4. c \o e = c
    BY <2>3, ConcatEmptySeq
  <2>5. Listed(Owed', ReadTo') = L \o Rest(Owed', lines')
    BY <1>18, FlowRead
  <2> HIDE DEF c, L, e
  <2>6. c \o Rest(Owed', lines') = Listed(Owed', ReadTo')
    BY <2>1, <2>2, <2>4, <2>5
  <2> QED
    BY <2>6 DEF c
<1> QED
  BY <1>1, <1>2, <1>3, <1>11, <1>12, <1>13, <1>15, <1>16, <1>17, <1>18 DEF Messaging

\* A step that leaves the translated stream and the lines alone.
LEMMA MessagingKept ==
  ASSUME Reading, Messaging, api = "messages",
         UNCHANGED <<provided, upstream, reading, lines, out>>,
         UNCHANGED <<started, pending, holding, heldText>>,
         ~Done' => ~Done /\ wire' = wire, Done' => lines = <<>>
  PROVE  Messaging'
<1>1. Fed' = Fed /\ ReadTo' = ReadTo /\ sent' = sent
  BY ReadingSame
<1>2. /\ api' = api /\ provider' = provider /\ failed' = failed /\ lines' = lines /\ out' = out
      /\ started' = started /\ pending' = pending /\ holding' = holding
      /\ heldText' = heldText /\ UNCHANGED provided
  BY DEF provided, reading
<1>3. Owed' = Owed
  BY <1>1, <1>2, OwedSame
<1>4. /\ Calls' = Calls /\ PassedThrough' = PassedThrough
      /\ \A i : ToolStarted(i)' <=> ToolStarted(i)
      /\ \A q : Handled(q)' <=> Handled(q)
  BY <1>1, <1>2 DEF Calls, PassedThrough, ToolStarted, Handled
<1>5. /\ pending = <<>> /\ ~started /\ ~holding /\ heldText = <<>> /\ (~Done => wire = <<>>)
      /\ ~Has("error", out) /\ ToolsStart(out)
  BY DEF Messaging
<1>6. provider # "anthropic" =>
         /\ Calls = 0 => Shape(out)
         /\ Has("stop", out) =>
               \E q \in Fed : /\ sent[q].k \in Ends \cup {"done"}
                              /\ \A j \in DOMAIN lines : q < lines[j].n
         /\ ~failed => \A q \in DOMAIN sent :
               Handled(q) /\ sent[q].k \in Ends \cup {"done"} => Has("stop", out)
  BY DEF Messaging
<1>7. provider = "openai" /\ ~failed =>
         \A i \in Nat : ToolStarted(i) <=>
             \E q \in DOMAIN sent : Handled(q) /\ sent[q].k \in CallKind /\ sent[q].i = i
  BY DEF Messaging
<1>8. ~Done' /\ ~failed =>
         Gathered(out, IF PassedThrough THEN "raw" ELSE "delta", Nat) \o Rest(Owed, lines)
            = Listed(Owed, ReadTo)
  BY DEF Messaging
<1> QED
  BY <1>1, <1>2, <1>3, <1>4, <1>5, <1>6, <1>7, <1>8 DEF Messaging

\* The end of the handler is such a step,
LEMMA MessagingEnd ==
  ASSUME TInv, Reading, Messaging, EndMessages
  PROVE  Messaging' /\ Done'
<1>1. /\ api = "messages" /\ lines = <<>> /\ UNCHANGED <<provided, upstream, reading, lines, out>>
      /\ UNCHANGED <<started, pending, current, items, finish, holding, heldText, accum>>
      /\ Len(logs') = 1
  BY EndMessagesIs
<1>2. Done'
  BY <1>1, EmptySeq DEF Done
<1>3. UNCHANGED <<started, pending, holding, heldText>>
  BY <1>1
<1> QED
  BY <1>1, <1>2, <1>3, MessagingKept

\* and so is one that changes nothing.
LEMMA MessagingSame ==
  ASSUME Reading, Messaging, UNCHANGED Kept
  PROVE  Messaging'
<1>1. /\ api' = api /\ provider' = provider /\ holding' = holding /\ sent' = sent
      /\ chunk' = chunk /\ torn' = torn /\ lost' = lost /\ lines' = lines
      /\ failed' = failed /\ tokens' = tokens /\ started' = started
      /\ pending' = pending /\ heldText' = heldText /\ out' = out /\ wire' = wire
      /\ logs' = logs
  BY KeptSame
<1>2. CASE api # "messages"
  BY <1>1, <1>2 DEF Messaging
<1>3. CASE api = "messages"
  <2>1. UNCHANGED <<provided, upstream, reading, lines, out>>
    BY <1>1 DEF provided, upstream, reading
  <2>2. UNCHANGED <<started, pending, holding, heldText>>
    BY <1>1
  <2>3. Done' = Done /\ (Done => lines = <<>>)
    BY <1>1 DEF Done, Reading
  <2> QED
    BY <1>1, <1>3, <2>1, <2>2, <2>3, MessagingKept
<1> QED
  BY <1>2, <1>3

\* Every step keeps what is known of the Messages handler.
LEMMA MessagingNext == TInv /\ Reading /\ Messaging /\ [Next]_vars => Messaging'
<1> SUFFICES ASSUME TInv, Reading, Messaging, [Next]_vars PROVE Messaging'
  OBVIOUS
<1>1. CASE Arrive
  BY <1>1, MessagingArrive
<1>2. CASE \E cut \in BOOLEAN : (cut => chunk # <<>>) /\ Read(cut)
  BY <1>2, MessagingRead
<1>3. CASE ResponsesLine \/ EndResponses
  <2>1. api = "responses" /\ api' = api
    BY <1>3 DEF ResponsesLine, EndResponses, provided
  <2> QED
    BY <2>1 DEF Messaging
<1>4. CASE MessagesLine
  BY <1>4, MessagingTranslated, MessagingPassed
<1>5. CASE EndMessages
  BY <1>5, MessagingEnd
<1>6. CASE Ping \/ UNCHANGED vars
  BY <1>6, Keeps, MessagingSame
<1> QED
  BY <1>1, <1>2, <1>3, <1>4, <1>5, <1>6 DEF Next

-----------------------------------------------------------------------------
(* What is true of an answer when it is logged.                             *)

\* A line was given to an adapter exactly when it was read in one piece or joined.
LEMMA ReceivedIs ==
  ASSUME TInv, Reading
  PROVE  /\ \A p \in Fed : Received(p) /\ p \in DOMAIN sent
         /\ chunk = <<>> => \A p \in DOMAIN sent : Received(p) <=> p \in Fed
<1>1. /\ ReadTo \in Nat /\ ReadTo <= Len(sent) /\ ReadTo + Len(chunk) = Len(sent)
      /\ Len(sent) \in Nat /\ DOMAIN sent = 1 .. Len(sent)
      /\ \A p \in 1 .. Len(sent) : sent[p].n = p
      /\ Len(torn) \in {0, 1} /\ (Len(torn) = 0 <=> torn = <<>>)
      /\ Fed \subseteq 1 .. ReadTo
  BY ReadFacts
<1>2. torn \in Seq(Line)
  BY DEF TInv
<1>3. DOMAIN torn = 1 .. Len(torn)
  BY <1>2, LenProperties
<1>4. ASSUME NEW p \in 1 .. ReadTo PROVE Received(p) <=> p \in Fed
  <2>1. CASE Converts
    BY <1>4, <2>1 DEF Received, Fed
  <2>2. CASE ~Converts /\ Len(torn) = 0
    <3>1. DOMAIN torn = {}
      BY <1>3, <2>2
    <3>2. p \in 1 .. ReadTo - Len(torn)
      BY <1>1, <1>4, <2>2
    <3> QED
      BY <2>2, <3>1, <3>2 DEF Received, Fed
  <2>3. CASE ~Converts /\ Len(torn) = 1
    <3>1. DOMAIN torn = {1}
      BY <1>3, <2>3
    <3>2. torn # <<>>
      BY <1>1, <2>3
    <3>3. torn[1] = sent[ReadTo] /\ ReadTo >= 1
      BY <3>2 DEF Reading
    <3>4. torn[1].n = ReadTo
      BY <1>1, <3>3
    <3>5. p \in 1 .. ReadTo - Len(torn) <=> ReadTo # p
      BY <1>1, <1>4, <2>3
    <3> QED
      BY <2>3, <3>1, <3>4, <3>5 DEF Received, Fed
  <2> QED
    BY <1>1, <2>1, <2>2, <2>3
<1>5. chunk = <<>> => ReadTo = Len(sent)
  BY <1>1, EmptySeq
<1> QED
  BY <1>1, <1>4, <1>5

\* When everything was read, the lines that are owed are those shown.
LEMMA ShownIs ==
  ASSUME TInv, Reading, chunk = <<>>
  PROVE  Shown = Listed(Owed, ReadTo)
<1>1. /\ ReadTo \in Nat /\ ReadTo + Len(chunk) = Len(sent) /\ Len(sent) \in Nat
      /\ DOMAIN sent = 1 .. Len(sent) /\ Len(chunk) \in Nat
      /\ Fed \subseteq 1 .. ReadTo
  BY ReadFacts
<1>2. ReadTo = Len(sent)
  BY <1>1, EmptySeq
<1>3. \A p \in DOMAIN sent : Received(p) <=> p \in Fed
  BY ReceivedIs
<1>4. /\ \A q \in DOMAIN sent : sent[q].k \in ToolKind =>
            \E p \in DOMAIN sent : p <= q /\ sent[p].k \in CallKind /\ sent[p].i = sent[q].i
      /\ \A p \in DOMAIN sent : \A q \in DOMAIN sent :
            sent[p].k \in CallKind /\ sent[q].k \in CallKind /\ sent[p].i = sent[q].i => p = q
  BY DEF Reading, InOrder
<1>5. ASSUME NEW p \in Fed PROVE Carries(p) <=> p \in Owed
  <2>1. p \in DOMAIN sent
    BY <1>5, ReceivedIs
  <2>2. ASSUME HasArguments(sent[p])
        PROVE  (\E q \in DOMAIN sent :
                    Received(q) /\ sent[q].k \in CallKind /\ sent[q].i = sent[p].i)
               <=> \E q \in Fed : q <= p /\ sent[q].k \in CallKind /\ sent[q].i = sent[p].i
    <3>1. sent[p].k \in ToolKind
      BY <2>2 DEF HasArguments, ToolKind
    <3>2. PICK b \in DOMAIN sent : b <= p /\ sent[b].k \in CallKind /\ sent[b].i = sent[p].i
      BY <1>4, <2>1, <3>1
    <3>3. \A q \in DOMAIN sent : sent[q].k \in CallKind /\ sent[q].i = sent[p].i => q = b
      BY <1>4, <3>2
    <3>4. \A q \in Fed : q \in DOMAIN sent /\ Received(q)
      BY ReceivedIs
    <3> QED
      BY <1>3, <3>2, <3>3, <3>4
  <2>3. p \in Owed <=>
          \/ PassedThrough \/ sent[p].k \in Content
          \/ /\ provider = "openai" /\ HasArguments(sent[p])
             /\ api = "messages" =>
                   \E q \in Fed : q <= p /\ sent[q].k \in CallKind /\ sent[q].i = sent[p].i
    BY <1>5, OwedIs
  <2> QED
    BY <2>2, <2>3 DEF Carries
<1> DEFINE A == {p \in DOMAIN sent : Received(p) /\ Carries(p)}
<1>6. \A p \in 1 .. ReadTo : p \in A <=> p \in Owed
  BY <1>1, <1>2, <1>3, <1>5, OwedIs
<1>7. \A p \in 1 .. ReadTo : p \in A <=> Received(p) /\ Carries(p)
  BY <1>1, <1>2
<1> HIDE DEF A
<1>8. Listed(A, ReadTo) = Listed(Owed, ReadTo)
  <2> DEFINE B == Owed
             r == ReadTo
  <2>1. \A p \in 1 .. r : p \in A <=> p \in B
    BY <1>6
  <2> HIDE DEF B, r
  <2>2. Listed(A, r) = Listed(B, r)
    BY <2>1, ListedSame
  <2> QED
    BY <2>2 DEF B, r
<1>9. [p \in DOMAIN sent |-> IF Received(p) /\ Carries(p) THEN <<p>> ELSE <<>>]
        = [p \in 1 .. ReadTo |-> IF p \in A THEN <<p>> ELSE <<>>]
  BY <1>1, <1>2, <1>7
<1>10. Shown = Listed(A, ReadTo)
  BY <1>9 DEF Shown, Listed
<1> QED
  BY <1>8, <1>10

\* A step that leaves the provider's side alone leaves these alone.
LEMMA ShownSame ==
  ASSUME UNCHANGED <<provided, upstream>>
  PROVE  /\ sent' = sent /\ Shown' = Shown /\ (\A p : Received(p)' <=> Received(p))
         /\ (\A l : Reports(l)' <=> Reports(l)) /\ lost' = lost /\ api' = api
         /\ provider' = provider /\ PassedThrough' = PassedThrough /\ Calls' = Calls
<1>1. /\ api' = api /\ provider' = provider /\ sent' = sent /\ torn' = torn /\ lost' = lost
  BY DEF provided, upstream
<1>2. \A p : Received(p)' <=> Received(p)
  BY <1>1 DEF Received, Converts
<1>3. PassedThrough' = PassedThrough /\ Calls' = Calls
  BY <1>1 DEF PassedThrough, Calls
<1>4. \A p : Carries(p)' <=> Carries(p)
  BY <1>1, <1>2, <1>3 DEF Carries
<1>5. Shown' = Shown
  <2>1. [p \in DOMAIN sent' |-> IF Received(p)' /\ Carries(p)' THEN <<p>> ELSE <<>>]
          = [p \in DOMAIN sent |-> IF Received(p) /\ Carries(p) THEN <<p>> ELSE <<>>]
    BY <1>1, <1>2, <1>4
  <2> QED
    BY <2>1 DEF Shown
<1>6. \A l : Reports(l)' <=> Reports(l)
  BY <1>1 DEF Reports
<1> QED
  BY <1>1, <1>2, <1>3, <1>5, <1>6

\* The status of the response before it ends: 200 with the first byte.
Heading ==
    /\ status \in {"none", "ok", "error"} /\ pinged \in BOOLEAN
    /\ ~Done => status = IF started \/ pinged THEN "ok" ELSE "none"

Settled ==
    Done =>
        /\ ~logs[1].error => ~failed /\ chunk = <<>>
        /\ RefusedClean
        /\ Charged
        /\ AllDelivered

IInv == TInv /\ Reading /\ Responding /\ Messaging /\ Heading /\ Settled

\* It stays so.
LEMMA SettledSame ==
  ASSUME Settled, UNCHANGED vars
  PROVE  Settled'
<1>1. /\ api' = api /\ sent' = sent /\ chunk' = chunk /\ lost' = lost /\ failed' = failed
      /\ wire' = wire /\ logs' = logs /\ status' = status /\ pinged' = pinged
  BY KeptSame DEF vars, answer, Kept
<1>2. /\ Shown' = Shown /\ (\A p : Received(p)' <=> Received(p))
      /\ (\A l : Reports(l)' <=> Reports(l)) /\ PassedThrough' = PassedThrough
  BY ShownSame DEF vars
<1>3. Done' = Done
  BY <1>1 DEF Done
<1>4. RefusedClean => RefusedClean'
  BY <1>1, <1>2, <1>3 DEF RefusedClean
<1>5. Charged => Charged'
  BY <1>1, <1>2, <1>3 DEF Charged
<1>6. AllDelivered => AllDelivered'
  BY <1>1, <1>2, <1>3 DEF AllDelivered
<1> QED
  BY <1>1, <1>3, <1>4, <1>5, <1>6 DEF Settled

\* The row of a refusal.
LEMMA SettledError ==
  ASSUME logs'[1].error = TRUE, Len(logs') = 1, Has("error", wire'),
         Last(wire') = Bare("error"),
         \/ wire' = <<Bare("error")>> /\ (status' = "error" \/ pinged')
         \/
            (/\ api' = "responses" /\ status' = "ok"
             /\ \E p \in DOMAIN sent' : Received(p)' /\ sent'[p].k \in {"text", "leak"} \cup Ends)
  PROVE  Settled'
<1>1. RefusedClean'
  BY DEF RefusedClean
<1>2. Charged'
  BY DEF Charged
<1>3. AllDelivered'
  BY DEF AllDelivered
<1> QED
  BY <1>1, <1>2, <1>3 DEF Settled

\* The row of an answer.
LEMMA SettledAnswer ==
  ASSUME logs'[1].error = FALSE, Len(logs') = 1, ~Has("error", wire'),
         UNCHANGED <<provided, upstream, reading>>, ~failed, chunk = <<>>,
         HasText(wire') /\ (api = "responses" \/
            \E p \in DOMAIN sent : Reports(sent[p]) /\ p \notin lost) => logs'[1].tokens > 0,
         LeakShown(wire', Leaks) \/
            Gathered(wire', IF PassedThrough THEN "raw" ELSE "delta", Nat) = Shown
  PROVE  Settled'
<1>1. /\ sent' = sent /\ Shown' = Shown
      /\ (\A l : Reports(l)' <=> Reports(l)) /\ lost' = lost /\ api' = api
      /\ PassedThrough' = PassedThrough
  BY ShownSame
<1>2. RefusedClean'
  BY DEF RefusedClean
<1>3. Charged'
  BY <1>1 DEF Charged, HasText
<1>4. AllDelivered'
  <2>1. LeakShown(wire', Leaks) =>
          \E p \in DOMAIN wire' : wire'[p].e = "close" /\ wire'[p].k = "function_call"
                                   /\ \E q \in DOMAIN wire'[p].c : sent[wire'[p].c[q]].k = "leak"
    BY DEF LeakShown, LeakClose, Leaks
  <2> QED
    BY <1>1, <2>1 DEF AllDelivered
<1>5. failed' = failed /\ chunk' = chunk
  BY DEF reading, upstream
<1> QED
  BY <1>2, <1>3, <1>4, <1>5 DEF Settled

\* The error event ends what was written.
LEMMA WireError ==
  ASSUME NEW w \in Seq(Events)
  PROVE  /\ Has("error", Append(w, Bare("error")))
         /\ Last(Append(w, Bare("error"))) = Bare("error")
         /\ w = <<>> => Append(w, Bare("error")) = <<Bare("error")>>
<1> DEFINE x == Bare("error")
<1>1. x \in Events /\ x.e = "error"
  BY BareIs DEF Names
<1> HIDE DEF x
<1>2. Has("error", Append(w, x))
  BY <1>1, SaidMore
<1>3. Last(Append(w, x)) = x
  BY <1>1, AppendProperties DEF Last
<1>4. w = <<>> => Append(w, x) = <<x>>
  OBVIOUS
<1> QED
  BY <1>2, <1>3, <1>4 DEF x

\* The refusal of the Responses handler is clean,
LEMMA SettledRefusal ==
  ASSUME TInv, Reading, Responding, Heading, EndResponses, Refuse
  PROVE  Settled'
<1>1. /\ api = "responses" /\ ~Done /\ UNCHANGED <<provided, upstream, reading, lines, out>>
      /\ ~(failed \/ sent = <<>>) => Complete
  BY EndResponsesIs
<1>2. /\ wire' = Append(wire, Bare("error")) /\ logs'[1].error = TRUE /\ Len(logs') = 1
      /\ status' = (IF status = "none" THEN "error" ELSE status) /\ pinged' = pinged
  BY <1>1, RefuseIs
<1>3. wire \in Seq(Events)
  BY DEF TInv
<1>4. /\ Has("error", wire') /\ Last(wire') = Bare("error")
      /\ wire = <<>> => wire' = <<Bare("error")>>
  BY <1>2, <1>3, WireError
<1>5. failed \/ sent = <<>>
  <2> SUFFICES ASSUME ~(failed \/ sent = <<>>) PROVE FALSE
    OBVIOUS
  <2>1. Complete
    BY <1>1
  <2>2. logs'[1].error = FALSE
    BY <1>1, <2>1, CompleteIs
  <2> QED
    BY <1>2, <2>2
<1>6. /\ sent' = sent /\ api' = api /\ \A p : Received(p)' <=> Received(p)
  BY <1>1, ShownSame
<1>7. ASSUME started
      PROVE  \E p \in DOMAIN sent' : Received(p)' /\ sent'[p].k \in {"text", "leak"} \cup Ends
  <2>1. PICK p \in Fed : \/ sent[p].k \in {"text", "leak"} \cup Ends
                         \/ sent[p].k = "fail" /\ ~failed
    BY <1>1, <1>7 DEF Responding
  <2>2. p \in DOMAIN sent /\ Received(p)
    BY ReceivedIs
  <2>3. sent # <<>>
    BY <2>2
  <2> QED
    BY <1>5, <1>6, <2>1, <2>2, <2>3
<1>8. ~started => wire = <<>>
  BY <1>1 DEF Responding
<1>9. started => status' = "ok"
  BY <1>1, <1>2 DEF Heading
<1>10. ~started => status' = "error" \/ pinged'
  BY <1>1, <1>2 DEF Heading
<1> QED
  BY <1>1, <1>2, <1>4, <1>6, <1>7, <1>8, <1>9, <1>10, SettledError

\* its answer gives all that is owed and is charged,
LEMMA SettledComplete ==
  ASSUME TInv, Reading, Responding, EndResponses, Complete
  PROVE  Settled'
<1>1. /\ api = "responses" /\ ~Done /\ lines = <<>> /\ (chunk = <<>> \/ failed)
      /\ UNCHANGED <<provided, upstream, reading, lines, out>>
      /\ failed \/ sent = <<>> => Refuse
  BY EndResponsesIs
<1>2. /\ Emit(EndWork, TRUE) /\ EndWork \in Work
      /\ accum' = (IF holding /\ LeakedIn(heldText) # <<>> THEN LeakedIn(heldText) ELSE accum)
      /\ accum' \in Seq(Pos)
      /\ Len(logs') = 1 /\ logs'[1].error = FALSE
      /\ logs'[1].tokens = IF tokens > 0 THEN tokens ELSE Len(accum')
  BY <1>1, CompleteIs
<1>3. ~failed /\ chunk = <<>>
  <2>1. ASSUME Refuse PROVE FALSE
    <3>1. logs'[1].error = TRUE
      BY <1>1, <2>1, RefuseIs
    <3> QED
      BY <1>2, <3>1
  <2> QED
    BY <1>1, <2>1
<1> DEFINE w == EndWork
           c == IF EndLeaks = <<>> THEN Shown0 \o heldText ELSE Shown0
           t == Texted
<1>4. /\ Holds(Said, w, Leaks, c, t)
      /\ EndLeaks # <<>> => LeakShown(Said \o w.ev, Leaks)
  BY <1>1, HoldsEnd
<1>5. TRUE \in BOOLEAN
  OBVIOUS
<1>6. w \in Work /\ Emit(w, TRUE)
  BY <1>2
<1>7. /\ EndLeaks = <<>> => c = Shown0 \o heldText
      /\ t => accum # <<>>
  BY DEF Texted
<1> HIDE DEF w, c, t
<1>8. ~Has("error", Said') /\ Gathered(Said', "delta", Nat) = c
  BY <1>4, <1>5, <1>6, EmitHolds
<1>17. HasText(Said \o w.ev) => accum # <<>>
  BY <1>4, <1>7 DEF Holds
<1>9. wire' \in Seq(Events) /\ Said' = Said \o w.ev /\ pending' = <<>>
  BY <1>5, <1>6, EmitIs
<1>10. Said' = wire'
  <2>1. Said' = wire' \o pending'
    BY DEF Said
  <2> QED
    BY <1>9, <2>1, ConcatEmptySeq
<1>11. HasText(wire') => logs'[1].tokens > 0
  <2> SUFFICES ASSUME HasText(wire') PROVE logs'[1].tokens > 0
    OBVIOUS
  <2>1. accum # <<>>
    BY <1>9, <1>10, <1>17
  <2>2. accum' # <<>>
    BY <1>2, <2>1
  <2>3. Len(accum') \in Nat \ {0}
    BY <1>2, <2>2, EmptySeq
  <2> QED
    BY <1>2, <2>3
<1>12. EndLeaks = <<>> => Gathered(wire', "delta", Nat) = Shown
  <2> SUFFICES ASSUME EndLeaks = <<>> PROVE Gathered(wire', "delta", Nat) = Shown
    OBVIOUS
  <2> DEFINE d == Shown0 \o heldText
             L == Listed(Owed, ReadTo)
             e == <<>>
  <2>1. d \o Rest(Owed, lines) = L
    BY <1>1, <1>3 DEF Responding, Shown0
  <2>2. Rest(Owed, lines) = e
    BY <1>1, RestNone
  <2>3. d \in Seq(Pos)
    BY <1>1, HoldsFlushed
  <2>4. d \o e = d
    BY <2>3, ConcatEmptySeq
  <2>5. Shown = L
    BY <1>3, ShownIs
  <2>6. c = d
    BY <1>7
  <2> HIDE DEF d, L, e
  <2> QED
    BY <1>8, <1>10, <2>1, <2>2, <2>4, <2>5, <2>6
<1>13. ~PassedThrough
  BY <1>1 DEF PassedThrough
<1>14. UNCHANGED <<provided, upstream, reading>>
  BY <1>1
<1>15. LeakShown(wire', Leaks) \/
         Gathered(wire', IF PassedThrough THEN "raw" ELSE "delta", Nat) = Shown
  BY <1>4, <1>9, <1>10, <1>12, <1>13
<1>16. ~Has("error", wire')
  BY <1>8, <1>10
<1> QED
  BY <1>2, <1>3, <1>11, <1>14, <1>15, <1>16, SettledAnswer

\* and both are so of the Messages handler.
LEMMA SettledMessages ==
  ASSUME TInv, Reading, Messaging, Heading, EndMessages
  PROVE  Settled'
<1>1. /\ api = "messages" /\ ~Done /\ lines = <<>> /\ chunk = <<>>
      /\ UNCHANGED <<provided, upstream, reading, lines, out>>
      /\ wire' \in Seq(Events) /\ Len(logs') = 1
      /\ failed \/ out \o Half = <<>> =>
           /\ wire' = Append(wire, Bare("error")) /\ logs'[1].error = TRUE
           /\ status' = (IF status = "none" THEN "error" ELSE status)
      /\ ~(failed \/ out \o Half = <<>>) =>
           /\ wire' = wire \o out \o Half /\ logs'[1].error = FALSE
           /\ logs'[1].tokens = IF tokens > 0 THEN tokens ELSE Len(accum)
      /\ pinged' = pinged
  BY EndMessagesIs
<1>2. wire = <<>>
  BY <1>1 DEF Messaging
<1>3. wire \in Seq(Events) /\ out \in Seq(Events) /\ tokens \in Nat
  <2>1. wire \in Seq(Events) /\ out \in Seq(Events) /\ tokens \in 0 .. MaxLines
    BY DEF TInv
  <2> QED
    BY <2>1, BoundsAssumption
<1>9. Half \in Seq(Events) /\ \A p \in DOMAIN Half : Half[p] = Bare("half")
  BY HalfIs
<1>4. CASE failed \/ out \o Half = <<>>
  <2>1. /\ Has("error", wire') /\ wire' = <<Bare("error")>> /\ Last(wire') = Bare("error")
    BY <1>1, <1>2, <1>3, <1>4, WireError
  <2>2. ~started
    BY <1>1 DEF Messaging
  <2>3. status' = "error" \/ pinged'
    BY <1>1, <1>4, <2>2 DEF Heading
  <2> QED
    BY <1>1, <1>4, <2>1, <2>3, SettledError
<1>5. CASE ~(failed \/ out \o Half = <<>>)
  <2> DEFINE h == Half
             w == out \o h
             x == Bare("half")
  <2>0. h \in Seq(Events) /\ (\A p \in DOMAIN h : h[p] = x) /\ x \in Events /\ x.e = "half"
    BY <1>9, BareIs DEF Names
  <2>11. wire' = wire \o out \o h
    BY <1>1, <1>5
  <2> HIDE DEF h, x
  <2>1. wire' = w /\ w \in Seq(Events)
    BY <1>2, <1>3, <2>0, <2>11, ConcatEmptySeq, ConcatProperties
  <2>12. ~Has("error", out)
    BY <1>1 DEF Messaging
  <2>2. ~Has("error", w)
    <3> SUFFICES ASSUME NEW p \in DOMAIN w, w[p].e = "error" PROVE FALSE
      BY DEF Has
    <3>1. /\ Len(w) = Len(out) + Len(h) /\ DOMAIN w = 1 .. Len(w)
          /\ Len(out) \in Nat /\ Len(h) \in Nat
          /\ DOMAIN out = 1 .. Len(out) /\ DOMAIN h = 1 .. Len(h)
          /\ w[p] = IF p <= Len(out) THEN out[p] ELSE h[p - Len(out)]
      BY <1>3, <2>0, <2>1, ConcatProperties, LenProperties
    <3>2. CASE p <= Len(out)
      <4>1. p \in DOMAIN out /\ w[p] = out[p]
        BY <3>1, <3>2
      <4> QED
        BY <2>12, <4>1 DEF Has
    <3>3. CASE ~(p <= Len(out))
      <4>1. p - Len(out) \in DOMAIN h /\ w[p] = h[p - Len(out)]
        BY <3>1, <3>3
      <4> QED
        BY <2>0, <4>1
    <3> QED
      BY <3>2, <3>3
  <2>9. Gathered(w, IF PassedThrough THEN "raw" ELSE "delta", Nat)
           = Gathered(out, IF PassedThrough THEN "raw" ELSE "delta", Nat)
    <3> DEFINE e == IF PassedThrough THEN "raw" ELSE "delta"
               I == Nat
               none == <<>>
               g == Gathered(out, e, I)
    <3>1. e # "half"
      OBVIOUS
    <3> HIDE DEF e, I
    <3>2. Gathered(h, e, I) = none
      BY <2>0, <3>1, GatherNothing
    <3>3. Gathered(w, e, I) = g \o Gathered(h, e, I)
      BY <1>3, <2>0, GatherConcat
    <3>4. g \in Seq(Pos)
      BY <1>3, GathersType
    <3> HIDE DEF none, g, w
    <3>5. g \o none = g
      BY <3>4, ConcatEmptySeq DEF none
    <3>6. Gathered(w, e, I) = g
      BY <3>2, <3>3, <3>5
    <3> QED
      BY <3>6 DEF e, I, g
  <2>3. ReadTo = Len(sent) /\ DOMAIN sent = 1 .. Len(sent)
    <3>1. ReadTo \in Nat /\ ReadTo + Len(chunk) = Len(sent) /\ Len(sent) \in Nat
          /\ DOMAIN sent = 1 .. Len(sent)
      BY ReadFacts
    <3> QED
      BY <1>1, <3>1, EmptySeq
  <2>4. (\E p \in DOMAIN sent : Reports(sent[p]) /\ p \notin lost) => tokens > 0
    <3>1. tokens = 0 => \A p \in (1 .. ReadTo) \ lost : ~Reports(sent[p])
      BY DEF Reading
    <3> QED
      BY <1>3, <2>3, <3>1
  <2>5. (\E p \in DOMAIN sent : Reports(sent[p]) /\ p \notin lost) => logs'[1].tokens > 0
    BY <1>1, <1>5, <2>4
  <2>6. Gathered(out, IF PassedThrough THEN "raw" ELSE "delta", Nat) = Shown
    <3> DEFINE d == Gathered(out, IF PassedThrough THEN "raw" ELSE "delta", Nat)
               L == Listed(Owed, ReadTo)
               e == <<>>
    <3>1. d \o Rest(Owed, lines) = L
      BY <1>1, <1>5 DEF Messaging
    <3>2. Rest(Owed, lines) = e
      BY <1>1, RestNone
    <3>3. d \in Seq(Pos)
      BY <1>3, GathersType
    <3>4. d \o e = d
      BY <3>3, ConcatEmptySeq
    <3>5. Shown = L
      BY <1>1, ShownIs
    <3> HIDE DEF d, L, e
    <3>6. d = Shown
      BY <3>1, <3>2, <3>4, <3>5
    <3> QED
      BY <3>6 DEF d
  <2>7. UNCHANGED <<provided, upstream, reading>>
    BY <1>1
  <2>8. api # "responses"
    BY <1>1
  <2> HIDE DEF w
  <2>10. /\ ~Has("error", wire')
         /\ Gathered(wire', IF PassedThrough THEN "raw" ELSE "delta", Nat) = Shown
    BY <2>1, <2>2, <2>6, <2>9
  <2> QED
    BY <1>1, <1>5, <2>5, <2>7, <2>8, <2>10, SettledAnswer
<1> QED
  BY <1>4, <1>5

\* A row is written with the last step.
LEMMA LoggedIs == Len(logs') = 1 => Done'
BY EmptySeq DEF Done

\* The status follows the first byte.
LEMMA HeadingNext == TInv /\ Reading /\ Heading /\ [Next]_vars => Heading'
<1> SUFFICES ASSUME TInv, Reading, Heading, [Next]_vars PROVE Heading'
  OBVIOUS
<1> USE DEF Heading
<1>0. CASE UNCHANGED vars
  BY <1>0 DEF vars, answer, Done
<1>1. CASE Arrive \/ MessagesLine \/ \E cut \in BOOLEAN : Read(cut)
  <2>1. UNCHANGED <<answer, logs>>
    BY <1>1 DEF Arrive, MessagesLine, Read
  <2> QED
    BY <2>1 DEF answer, Done
<1>2. CASE ResponsesLine
  <2> DEFINE l == Head(lines)
  <2>1. /\ OnCall(l) \/ OnText(l) \/ OnFinish(l) \/ OnOther(l)
        /\ logs' = logs /\ lines # <<>>
    BY <1>2 DEF ResponsesLine
  <2>2. l \in Line /\ started \in BOOLEAN
    BY <2>1, HeadTail DEF TInv
  <2>3. ~Done /\ Done' = Done
    BY <2>1 DEF Reading, Done
  <2> HIDE DEF l
  <2>4. ASSUME NEW s \in Work, NEW now \in BOOLEAN, Emit(s, now), now \/ now = started
        PROVE  Heading'
    BY <2>3, <2>4, EmitIs
  <2>5. CASE OnCall(l)
    BY <2>2, <2>4, <2>5, OnCallIs
  <2>6. CASE OnText(l)
    BY <2>2, <2>4, <2>6, OnTextIs, NowIs
  <2>7. CASE OnFinish(l)
    BY <2>4, <2>7, NowIs DEF OnFinish
  <2>8. CASE OnOther(l)
    BY <2>3, <2>8 DEF OnOther, answer
  <2> QED
    BY <2>1, <2>5, <2>6, <2>7, <2>8
<1>3. CASE Ping
  BY <1>3 DEF Ping, Done
<1>4. CASE EndResponses
  <2>1. ~Done /\ (Refuse \/ Complete)
    BY <1>4, EndResponsesIs
  <2>2. CASE Refuse
    <3>1. Len(logs') = 1 /\ pinged' = pinged
          /\ status' = (IF status = "none" THEN "error" ELSE status)
      BY <2>1, <2>2, RefuseIs
    <3>2. Done'
      BY <3>1, LoggedIs
    <3> QED
      BY <3>1, <3>2
  <2>3. CASE Complete
    <3>1. Len(logs') = 1 /\ Emit(EndWork, TRUE) /\ EndWork \in Work
      BY <2>1, <2>3, CompleteIs
    <3>2. Done'
      BY <3>1, LoggedIs
    <3> HIDE DEF EndWork
    <3>3. status' = "ok" /\ pinged' = pinged
      BY <3>1, EmitIs
    <3> QED
      BY <3>2, <3>3
  <2> QED
    BY <2>1, <2>2, <2>3
<1>5. CASE EndMessages
  <2>1. /\ Len(logs') = 1 /\ pinged' = pinged
        /\ status' \in {"ok", (IF status = "none" THEN "error" ELSE status)}
    BY <1>5, EndMessagesIs
  <2>2. Done'
    BY <2>1, LoggedIs
  <2> QED
    BY <2>1, <2>2
<1> QED
  BY <1>0, <1>1, <1>2, <1>3, <1>4, <1>5 DEF Next

\* Only the two ends write a row.
LEMMA SettledNext == IInv /\ [Next]_vars => Settled'
<1> SUFFICES ASSUME IInv, [Next]_vars PROVE Settled'
  OBVIOUS
<1>1. TInv /\ Reading /\ Responding /\ Messaging /\ Heading /\ Settled
  BY DEF IInv
<1>2. CASE logs' = logs
  <2>1. Done' = Done
    BY <1>2 DEF Done
  <2>2. CASE Done
    BY <1>1, <2>2, DoneStuck, SettledSame
  <2>3. CASE ~Done
    BY <2>1, <2>3 DEF Settled
  <2> QED
    BY <2>2, <2>3
<1>3. CASE Arrive \/ ResponsesLine \/ MessagesLine \/ Ping \/ UNCHANGED vars
  <2>1. logs' = logs
    BY <1>3 DEF Arrive, ResponsesLine, MessagesLine, Ping, vars
  <2> QED
    BY <1>2, <2>1
<1>4. CASE \E cut \in BOOLEAN : (cut => chunk # <<>>) /\ Read(cut)
  <2>1. logs' = logs
    BY <1>4 DEF Read
  <2> QED
    BY <1>2, <2>1
<1>5. CASE EndResponses
  <2>1. Refuse \/ Complete
    BY <1>5, EndResponsesIs
  <2> QED
    BY <1>1, <1>5, <2>1, SettledRefusal, SettledComplete
<1>6. CASE EndMessages
  BY <1>1, <1>6, SettledMessages
<1> QED
  BY <1>3, <1>4, <1>5, <1>6 DEF Next

\* The invariant holds at first
LEMMA IInvInit == Init => IInv
<1> SUFFICES ASSUME Init PROVE IInv
  OBVIOUS
<1>1. ~Done
  BY DEF Init, Done
<1>2. Heading
  BY DEF Init, Heading
<1> QED
  BY <1>1, <1>2, TInvInit, ReadingInit, RespondingInit, MessagingInit DEF IInv, Settled

\* and is kept by every step.
LEMMA IInvNext == IInv /\ [Next]_vars => IInv'
<1> SUFFICES ASSUME IInv, [Next]_vars PROVE IInv'
  OBVIOUS
<1>1. TInv /\ Reading /\ Responding /\ Messaging /\ Heading
  BY DEF IInv
<1>2. Settled'
  BY SettledNext
<1> QED
  BY <1>1, <1>2, TInvNext, ReadingNext, RespondingNext, MessagingNext, HeadingNext DEF IInv

\* The invariant of every behaviour.
LEMMA Invariant == Spec => []IInv
BY IInvInit, IInvNext, PTL DEF Spec

-----------------------------------------------------------------------------
(* The properties of the runs.                                              *)

\* It gives the types,
LEMMA InvTypeOK == TInv /\ Heading => TypeOK
<1> SUFFICES ASSUME TInv, Heading PROVE TypeOK
  OBVIOUS
<1>1. /\ api \in {"responses", "messages"} /\ provider \in Providers
      /\ Len(sent) <= MaxLines /\ Len(chunk) <= MaxInRead /\ Len(torn) <= 1
      /\ lost \in SUBSET Pos /\ failed \in BOOLEAN /\ tokens \in 0 .. MaxLines
      /\ started \in BOOLEAN /\ holding \in BOOLEAN /\ finish \in Ends \cup {""}
      /\ Len(logs) <= 1
  BY DEF TInv
<1>2. pending \in Seq(Events) /\ out \in Seq(Events) /\ wire \in Seq(Events)
  BY DEF TInv
<1>3. ASSUME NEW s \in Seq(Events), NEW p \in DOMAIN s PROVE s[p] \in Events
  BY ElementOfSeq, LenProperties
<1>4. \A evs \in {pending, out, wire} : \A p \in DOMAIN evs : evs[p] \in Events
  BY <1>2, <1>3
<1>5. provider \in DOMAIN Kinds /\ lost \subseteq 1 .. MaxLines
  BY <1>1, KindsIs DEF Pos
<1>6. status \in {"none", "ok", "error"} /\ pinged \in BOOLEAN
  BY DEF Heading
<1> QED
  BY <1>1, <1>4, <1>5, <1>6 DEF TypeOK

\* the order of the items
LEMMA InvItemsFollow == TInv /\ Responding /\ Heading => ItemsFollow
<1> SUFFICES ASSUME TInv, Responding, Heading PROVE ItemsFollow
  OBVIOUS
<1>1. TypeOK
  BY InvTypeOK
<1>2. ASSUME api = "responses", NEW p \in DOMAIN Said PROVE ItemEvent(Said, p)
  <2>1. Sound(Said, current, items, Leaks)
    BY <1>2 DEF Responding
  <2> QED
    BY <2>1 DEF Sound
<1>3. \A p, e : Before(p, e) = Earlier(Said, p, e)
  BY DEF Before, Earlier
<1> QED
  BY <1>1, <1>2, <1>3 DEF ItemsFollow, ItemEvent

\* and the sums of their deltas.
LEMMA InvDeltasAddUp == Responding => DeltasAddUp
<1> SUFFICES ASSUME Responding, api = "responses", NEW p \in DOMAIN Said, Said[p].e = "close"
             PROVE  \/ Gathered(Said, "delta", {Said[p].i}) = Said[p].c
                    \/ /\ \A q \in DOMAIN Said : Said[q].e = "delta" => Said[q].i # Said[p].i
                       /\ \A q \in DOMAIN Said[p].c : sent[Said[p].c[q]].k = "leak"
  BY DEF DeltasAddUp
<1>1. Sound(Said, current, items, Leaks)
  BY DEF Responding
<1>2. Adds(Said, p, Leaks)
  BY <1>1 DEF Sound
<1> QED
  BY <1>2 DEF Adds, Leaks

\* A block has one beginning, before anything of it.
LEMMA InvToolBlocks == TInv /\ Responding /\ Messaging => ToolBlocksStart
<1> DEFINE Starts(p) == {q \in 1 .. p : out[q].e = "open" /\ out[q].k = "tool_use"
                                         /\ out[q].i = out[p].i}
<1> SUFFICES ASSUME TInv, Responding, Messaging, NEW p \in DOMAIN out,
                    out[p].k = "tool_use", out[p].e # "raw"
             PROVE  \E q \in Starts(p) : Starts(p) = {q}
  BY Zenon DEF ToolBlocksStart
<1>1. api = "messages"
  <2>1. api = "responses" => DOMAIN out = {}
    BY EmptySeq DEF Responding
  <2> QED
    BY <2>1 DEF TInv
<1>2. ToolsStart(out)
  BY <1>1 DEF Messaging
<1>3. PICK q \in 1 .. p : Opens(out, q, out[p].i)
  BY <1>2 DEF ToolsStart
<1>4. 1 .. p \subseteq DOMAIN out
  <2>1. out \in Seq(Events)
    BY DEF TInv
  <2>2. DOMAIN out = 1 .. Len(out) /\ Len(out) \in Nat
    BY <2>1, LenProperties
  <2> QED
    BY <2>2
<1>5. q \in Starts(p)
  BY <1>3 DEF Opens
<1>6. ASSUME NEW r \in Starts(p) PROVE r = q
  <2>1. r \in DOMAIN out /\ q \in DOMAIN out /\ out[r].i = out[p].i /\ out[q].i = out[p].i
    BY <1>3, <1>4 DEF Opens
  <2>2. Opens(out, r, out[r].i) /\ Opens(out, q, out[r].i)
    BY <1>3, <2>1 DEF Opens
  <2> QED
    BY <1>2, <2>1, <2>2 DEF ToolsStart
<1> QED
  BY <1>5, <1>6

\* The names of the events of one message.
LEMMA BlockIs ==
  ASSUME NEW n \in Nat
  PROVE  /\ Block(n) \in Seq(Names) /\ Len(Block(n)) = n + 2
         /\ Block(n)[1] = "start" /\ Block(n)[2] = "open"
         /\ \A p \in 3 .. n + 2 : Block(n)[p] = "delta"
<1> DEFINE a == <<"start", "open">>
           b == [p \in 1 .. n |-> "delta"]
<1>1. a \in Seq(Names) /\ Len(a) = 2 /\ a[1] = "start" /\ a[2] = "open"
  BY DEF Names
<1>2. b \in [1 .. n -> Names] /\ \A p \in 1 .. n : b[p] = "delta"
  BY DEF Names
<1> HIDE DEF b
<1>3. b \in Seq(Names) /\ Len(b) = n
  BY <1>2, IsSeqOf
<1> HIDE DEF a
<1> DEFINE c == a \o b
<1>4. c \in Seq(Names) /\ Len(c) = 2 + n
      /\ \A i \in 1 .. 2 + n : c[i] = IF i <= 2 THEN a[i] ELSE b[i - 2]
  <2>1. c \in Seq(Names) /\ Len(c) = Len(a) + Len(b)
        /\ \A i \in 1 .. Len(a) + Len(b) : c[i] = IF i <= Len(a) THEN a[i] ELSE b[i - Len(a)]
    BY <1>1, <1>3, ConcatProperties
  <2> HIDE DEF c
  <2> QED
    BY <1>1, <1>3, <2>1
<1> HIDE DEF c
<1>5. c[1] = "start" /\ c[2] = "open"
  BY <1>1, <1>4
<1>6. ASSUME NEW p \in 3 .. n + 2 PROVE c[p] = "delta"
  <2>1. p \in 1 .. 2 + n /\ ~(p <= 2) /\ p - 2 \in 1 .. n
    OBVIOUS
  <2> QED
    BY <1>2, <1>4, <2>1
<1>7. Block(n) = c
  BY DEF Block, a, b, c
<1> QED
  BY <1>4, <1>5, <1>6, <1>7

\* A stream of that shape has these names.
LEMMA ShapeEvents ==
  ASSUME NEW S \in Seq(Events), Shape(S), NEW events, events = [p \in DOMAIN S |-> S[p].e]
  PROVE  events = <<>> \/ \E n \in 0 .. Len(S) :
             events \in {Block(n), Block(n) \o <<"close", "reason", "stop">>}
<1>1. Len(S) \in Nat /\ DOMAIN S = 1 .. Len(S)
  BY LenProperties
<1>2. \A p \in DOMAIN S : S[p] \in Events /\ S[p].e \in Names
  <2>1. \A p \in DOMAIN S : S[p] \in Events
    BY <1>1, ElementOfSeq
  <2> QED
    BY <2>1 DEF Events, Names
<1>3. events \in [1 .. Len(S) -> Names]
  BY <1>1, <1>2
<1>4. events \in Seq(Names) /\ Len(events) = Len(S)
  BY <1>1, <1>3, IsSeqOf
<1>5. CASE Len(S) = 0
  BY <1>4, <1>5, EmptySeq
<1>6. ASSUME NEW m \in Nat, Begun(S, m), Len(S) = m + 2 PROVE events = Block(m)
  <2> DEFINE T == Block(m)
  <2>1. /\ T \in Seq(Names) /\ Len(T) = m + 2
        /\ T[1] = "start" /\ T[2] = "open" /\ \A p \in 3 .. m + 2 : T[p] = "delta"
    BY BlockIs
  <2> HIDE DEF T
  <2>2. ASSUME NEW p \in 1 .. m + 2 PROVE events[p] = T[p]
    <3>1. events[p] = S[p].e
      BY <1>1, <1>6
    <3>2. S[1].e = "start" /\ S[2].e = "open" /\ \A q \in 3 .. m + 2 : S[q].e = "delta"
      BY <1>6 DEF Begun
    <3>3. p = 1 \/ p = 2 \/ p \in 3 .. m + 2
      OBVIOUS
    <3> QED
      BY <2>1, <3>1, <3>2, <3>3
  <2>3. events = T
    BY <1>4, <1>6, <2>1, <2>2, SeqEqual
  <2> QED
    BY <2>3 DEF T
<1>7. ASSUME NEW m \in Nat, Begun(S, m), Finished(S, m)
      PROVE  events = Block(m) \o <<"close", "reason", "stop">>
  <2> DEFINE T == Block(m)
             z == <<"close", "reason", "stop">>
             U == T \o z
  <2>1. /\ T \in Seq(Names) /\ Len(T) = m + 2
        /\ T[1] = "start" /\ T[2] = "open" /\ \A p \in 3 .. m + 2 : T[p] = "delta"
    BY BlockIs
  <2>2. z \in Seq(Names) /\ Len(z) = 3 /\ z[1] = "close" /\ z[2] = "reason" /\ z[3] = "stop"
    BY DEF Names
  <2> HIDE DEF T, z
  <2>3. /\ U \in Seq(Names) /\ Len(U) = (m + 2) + 3
        /\ \A p \in 1 .. (m + 2) + 3 : U[p] = IF p <= m + 2 THEN T[p] ELSE z[p - (m + 2)]
    <3>1. U \in Seq(Names) /\ Len(U) = Len(T) + Len(z)
          /\ \A p \in 1 .. Len(T) + Len(z) : U[p] = IF p <= Len(T) THEN T[p] ELSE z[p - Len(T)]
      BY <2>1, <2>2, ConcatProperties
    <3> HIDE DEF U
    <3> QED
      BY <2>1, <2>2, <3>1
  <2> HIDE DEF U
  <2>4. Len(S) = m + 5
    BY <1>7 DEF Finished
  <2>5. ASSUME NEW p \in 1 .. m + 5 PROVE events[p] = U[p]
    <3>1. events[p] = S[p].e
      BY <1>1, <2>4
    <3>2. S[1].e = "start" /\ S[2].e = "open" /\ \A q \in 3 .. m + 2 : S[q].e = "delta"
      BY <1>7 DEF Begun
    <3>3. S[m + 3].e = "close" /\ S[m + 4].e = "reason" /\ S[m + 5].e = "stop"
      BY <1>7 DEF Finished
    <3>4. CASE p <= m + 2
      <4>1. U[p] = T[p]
        BY <2>3, <3>4
      <4>2. p = 1 \/ p = 2 \/ p \in 3 .. m + 2
        BY <3>4
      <4> QED
        BY <2>1, <3>1, <3>2, <4>1, <4>2
    <3>5. CASE ~(p <= m + 2)
      <4>1. U[p] = z[p - (m + 2)]
        BY <2>3, <3>5
      <4>2. p = m + 3 \/ p = m + 4 \/ p = m + 5
        BY <3>5
      <4>3. CASE p = m + 3
        <5>1. p - (m + 2) = 1
          BY <4>3
        <5> QED
          BY <2>2, <3>1, <3>3, <4>1, <4>3, <5>1
      <4>4. CASE p = m + 4
        <5>1. p - (m + 2) = 2
          BY <4>4
        <5> QED
          BY <2>2, <3>1, <3>3, <4>1, <4>4, <5>1
      <4>5. CASE p = m + 5
        <5>1. p - (m + 2) = 3
          BY <4>5
        <5> QED
          BY <2>2, <3>1, <3>3, <4>1, <4>5, <5>1
      <4> QED
        BY <4>2, <4>3, <4>4, <4>5
    <3> QED
      BY <3>4, <3>5
  <2>6. Len(events) = Len(U) /\ Len(events) = m + 5
    BY <1>4, <2>3, <2>4
  <2>7. events = U
    BY <1>4, <2>3, <2>5, <2>6, SeqEqual
  <2> QED
    BY <2>7 DEF T, U, z
<1>8. ASSUME NEW m \in Nat, Begun(S, m), Len(S) = m + 2 \/ Finished(S, m)
      PROVE  \E n \in 0 .. Len(S) :
                events \in {Block(n), Block(n) \o <<"close", "reason", "stop">>}
  <2>1. m \in 0 .. Len(S)
    BY <1>1, <1>8 DEF Begun
  <2> QED
    BY <1>6, <1>7, <1>8, <2>1
<1> QED
  BY <1>5, <1>8 DEF Shape

\* So the messages have the shape that is promised.
LEMMA InvMessageShape == IInv => MessageShape
<1> SUFFICES ASSUME IInv PROVE MessageShape
  OBVIOUS
<1>1. TInv /\ Reading /\ Responding /\ Messaging /\ Heading /\ Settled
  BY DEF IInv
<1>2. ToolBlocksStart
  BY <1>1, InvToolBlocks
<1> SUFFICES ASSUME api = "messages", provider # "anthropic", Calls = 0,
                    NEW events, events = [p \in DOMAIN out |-> out[p].e],
                    NEW ended,
                    ended = \E p \in DOMAIN sent : Received(p) /\ sent[p].k \in Ends \cup {"done"}
             PROVE  /\ events = <<>> \/ \E n \in 0 .. Len(out) :
                          events \in {Block(n), Block(n) \o <<"close", "reason", "stop">>}
                    /\ Done /\ ~logs[1].error => (Has("stop", out) <=> ended)
  BY <1>2 DEF MessageShape
<1>3. events = <<>> \/ \E n \in 0 .. Len(out) :
          events \in {Block(n), Block(n) \o <<"close", "reason", "stop">>}
  <2>1. Shape(out) /\ out \in Seq(Events)
    BY <1>1 DEF Messaging, TInv
  <2> QED
    BY <2>1, ShapeEvents
<1>4. ASSUME Done, ~logs[1].error PROVE Has("stop", out) <=> ended
  <2>1. ~failed /\ chunk = <<>> /\ lines = <<>>
    BY <1>1, <1>4 DEF Settled, Reading
  <2>2. \A p \in DOMAIN sent : Received(p) <=> p \in Fed
    BY <1>1, <2>1, ReceivedIs
  <2>3. Has("stop", out) =>
          \E q \in DOMAIN sent : Received(q) /\ sent[q].k \in Ends \cup {"done"}
    <3>1. Has("stop", out) => \E q \in Fed : sent[q].k \in Ends \cup {"done"}
      BY <1>1 DEF Messaging
    <3> QED
      BY <1>1, <3>1, ReceivedIs
  <2>4. \A q : Handled(q) <=> q \in Fed
    BY <2>1, EmptySeq DEF Handled
  <2>5. \A q \in DOMAIN sent :
          Handled(q) /\ sent[q].k \in Ends \cup {"done"} => Has("stop", out)
    BY <1>1, <2>1 DEF Messaging
  <2> QED
    BY <2>2, <2>3, <2>4, <2>5
<1> QED
  BY <1>3, <1>4

\* The variables have their types, and the items of a Responses stream follow
\* one another: each is opened with the next output_index when none is open, and
\* its deltas and its done event bear that index and kind (closeItem, openMessage,
\* openFunctionCall, flushHeld and the leaked calls work on one counter).
THEOREM ItemsFollowAlways == Spec => []ItemsFollow
<1>1. IInv => ItemsFollow
  BY InvItemsFollow DEF IInv
<1> QED
  BY <1>1, Invariant, PTL

\* The full text or arguments of an item's done event are what its deltas add up
\* to; an item without deltas is a call that was leaked in the text.
THEOREM DeltasAddUpAlways == Spec => []DeltasAddUp
<1>1. IInv => DeltasAddUp
  BY InvDeltasAddUp DEF IInv
<1> QED
  BY <1>1, Invariant, PTL

\* A Messages stream starts each tool block once and before its arguments, and
\* one without calls is the message Anthropic documents, ended exactly when the
\* provider ended it.
THEOREM MessageShapeAlways == Spec => []MessageShape
<1>1. IInv => MessageShape
  BY InvMessageShape
<1> QED
  BY <1>1, Invariant, PTL

\* An error before any content is the only event that is written, under its own
\* status or under the 200 of a keepalive comment.
THEOREM RefusedCleanAlways == Spec => []RefusedClean
<1>1. IInv => RefusedClean
  BY DEF IInv, Settled, RefusedClean
<1> QED
  BY <1>1, Invariant, PTL

\* The one row of the usage log is an error exactly when the client was given
\* one, and text is never logged without tokens that were reported in a line read
\* whole, or that the Responses handler counted.
THEOREM ChargedAlways == Spec => []Charged
<1>1. IInv => Charged
  BY DEF IInv, Settled, Charged
<1> QED
  BY <1>1, Invariant, PTL

\* An answer that was not refused gave the client every piece of text and of
\* arguments that reached an adapter, once and in order, whatever the reads.
THEOREM AllDeliveredAlways == Spec => []AllDelivered
<1>1. IInv => AllDelivered
  BY DEF IInv, Settled, AllDelivered
<1> QED
  BY <1>1, Invariant, PTL
=============================================================================
