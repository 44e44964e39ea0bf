-------------------------- MODULE StreamRelayProofs --------------------------
(***************************************************************************)
(* The streamed answer, proved for every body and every cut of it into     *)
(* chunks: nothing is lost on the way through the handler's stores, no     *)
(* keepalive comment splits a line, synthesized tool calls stand alone,    *)
(* the log says what the client saw, and a success ends with "[DONE]".     *)
(*                                                                         *)
(* The argument looks at a token's way to the client as one sequence:      *)
(* written, pending, in the head, held back.  A step moves tokens along    *)
(* it, appends the chunk read at its end or to the Responses buffer, or    *)
(* inserts a comment where a line ends.  The model's folds (FlattenSeq     *)
(* and FoldLeft) are unfolded once, by induction over natural numbers.     *)
(***************************************************************************)
EXTENDS StreamRelay, SequenceTheorems, WellFoundedInduction, TLAPS

-----------------------------------------------------------------------------
(* Induction over numbers, and the folds the model is built from.           *)

\* A set of natural numbers has a least element.
LEMMA Least ==
  ASSUME NEW T \in SUBSET Nat, T # {}
  PROVE  \E n \in T : \A m \in T : n <= m
<1> DEFINE R == OpToRel(<, Nat)
<1>1. IsWellFoundedOn(R, Nat)
  BY NatLessThanWellFounded
<1>2. \A m, n \in Nat : <<m, n>> \in R <=> m < n
  BY DEF OpToRel
<1> HIDE DEF R
<1>3. PICK n \in T : \A y \in T : ~ (<<y, n>> \in R)
  BY <1>1, WFMin
<1>4. ASSUME NEW m \in T PROVE n <= m
  <2>1. m \in Nat /\ n \in Nat
    OBVIOUS
  <2>2. ~ (m < n)
    BY <1>2, <1>3, <2>1
  <2> QED
    BY <2>1, <2>2
<1> QED
  BY <1>4

\* So a set that holds 0 and, with a number, the next one holds them all.
LEMMA Induct ==
  ASSUME NEW T, 0 \in T, \A n \in Nat : n \in T => n + 1 \in T
  PROVE  Nat \subseteq T
<1> DEFINE B == Nat \ T
<1> SUFFICES ASSUME B # {} PROVE FALSE
  OBVIOUS
<1>1. PICK n \in B : \A m \in B : n <= m
  BY Least
<1>2. n # 0 /\ n - 1 \in Nat
  BY <1>1
<1>3. n - 1 \notin B
  BY <1>1, <1>2
<1> QED
  BY <1>1, <1>2, <1>3

\* The partial concatenations g of the sequences in p, the recursion behind FlattenSeq.
FlatTo(p, n, g) ==
    \A i \in 1..n : g[i] = IF i = 1 THEN p[i] ELSE g[i - 1] \o p[i]

\* They extend by one,
LEMMA FlatToMore ==
  ASSUME NEW S, NEW p \in Seq(Seq(S)), NEW n \in Nat, n + 1 <= Len(p),
         NEW g \in [1..n -> Seq(S)], FlatTo(p, n, g)
  PROVE  \E h \in [1..(n + 1) -> Seq(S)] : FlatTo(p, n + 1, h)
<1>0. /\ Len(p) \in Nat
      /\ \A i \in 1..Len(p) : p[i] \in Seq(S)
  BY LenProperties, ElementOfSeq
<1> DEFINE x == IF n = 0 THEN p[1] ELSE g[n] \o p[n + 1]
           h == [i \in 1..(n + 1) |-> IF i = n + 1 THEN x ELSE g[i]]
<1>1. x \in Seq(S)
  <2>1. CASE n = 0
    BY <1>0, <2>1
  <2>2. CASE n # 0
    <3>1. g[n] \in Seq(S) /\ p[n + 1] \in Seq(S)
      BY <1>0, <2>2
    <3> QED
      BY <2>2, <3>1, ConcatProperties
  <2> QED
    BY <2>1, <2>2
<1>2. x = IF n = 0 THEN p[1] ELSE g[n] \o p[n + 1]
  OBVIOUS
<1> HIDE DEF x
<1>3. h \in [1..(n + 1) -> Seq(S)]
  BY <1>1
<1>4. ASSUME NEW i \in 1..(n + 1)
      PROVE  h[i] = IF i = 1 THEN p[i] ELSE h[i - 1] \o p[i]
  <2>1. CASE i = n + 1 /\ n = 0
    BY <1>2, <2>1
  <2>2. CASE i = n + 1 /\ n # 0
    <3>1. h[i] = x /\ h[i - 1] = g[n] /\ i # 1
      BY <2>2
    <3> QED
      BY <1>2, <2>2, <3>1
  <2>3. CASE i # n + 1
    <3>1. i \in 1..n /\ h[i] = g[i]
      BY <2>3
    <3>2. i # 1 => h[i - 1] = g[i - 1]
      BY <3>1
    <3> QED
      BY <3>1, <3>2 DEF FlatTo
  <2> QED
    BY <2>1, <2>2, <2>3
<1>5. FlatTo(p, n + 1, h)
  BY <1>4 DEF FlatTo
<1> QED
  BY <1>3, <1>5

\* so they exist up to any length,
LEMMA FlatToExists ==
  ASSUME NEW S, NEW p \in Seq(Seq(S))
  PROVE  \E g \in [1..Len(p) -> Seq(S)] : FlatTo(p, Len(p), g)
<1> DEFINE T == {n \in Nat : n <= Len(p) => \E g \in [1..n -> Seq(S)] : FlatTo(p, n, g)}
<1>0. Len(p) \in Nat
  BY LenProperties
<1>1. 0 \in T
  <2>1. \A g : FlatTo(p, 0, g)
    BY DEF FlatTo
  <2>2. [i \in 1..0 |-> <<>>] \in [1..0 -> Seq(S)]
    OBVIOUS
  <2> QED
    BY <2>1, <2>2
<1>2. ASSUME NEW n \in Nat, n \in T PROVE n + 1 \in T
  <2>1. CASE ~ (n + 1 <= Len(p))
    BY <2>1
  <2>2. CASE n + 1 <= Len(p)
    <3>1. PICK g \in [1..n -> Seq(S)] : FlatTo(p, n, g)
      BY <1>0, <1>2, <2>2
    <3> QED
      BY <2>2, <3>1, FlatToMore
  <2> QED
    BY <2>1, <2>2
<1> HIDE DEF T
<1>3. Len(p) \in T
  BY <1>0, <1>1, <1>2, Induct
<1> QED
  BY <1>0, <1>3 DEF T

\* and FlattenSeq, which chooses them, ends with the last one.
LEMMA FlattenIs ==
  ASSUME NEW S, NEW p \in Seq(Seq(S)), p # <<>>
  PROVE  \E g \in [1..Len(p) -> Seq(S)] : FlatTo(p, Len(p), g) /\ FlattenSeq(p) = g[Len(p)]
<1> DEFINE F(g) == g = [i \in 1..Len(p) |-> IF i = 1 THEN p[i] ELSE g[i - 1] \o p[i]]
           f == CHOOSE g : F(g)
<1>1. PICK g0 \in [1..Len(p) -> Seq(S)] : FlatTo(p, Len(p), g0)
  BY FlatToExists
<1>2. F(g0)
  BY <1>1 DEF FlatTo
<1>3. F(f)
  BY <1>2
<1>4. Len(p) # 0 /\ Len(p) \in Nat
  BY EmptySeq, LenProperties
<1>5. FlattenSeq(p) = f[Len(p)]
  BY <1>4 DEF FlattenSeq
<1> HIDE DEF f
<1>6. DOMAIN f = 1..Len(p) /\ FlatTo(p, Len(p), f)
  BY <1>3 DEF FlatTo
<1> DEFINE T == {n \in Nat : n \in 1..Len(p) => f[n] = g0[n]}
<1>7. \A n \in Nat : n \in T
  <2>1. 0 \in T
    OBVIOUS
  <2>2. ASSUME NEW n \in Nat, n \in T PROVE n + 1 \in T
    <3> SUFFICES ASSUME n + 1 \in 1..Len(p) PROVE f[n + 1] = g0[n + 1]
      OBVIOUS
    <3>1. CASE n = 0
      <4>1. 1 \in 1..Len(p) /\ n + 1 = 1
        BY <3>1
      <4>2. f[1] = p[1] /\ g0[1] = p[1]
        BY <1>1, <1>6, <4>1 DEF FlatTo
      <4> QED
        BY <4>1, <4>2
    <3>2. CASE n # 0
      <4>1. n \in 1..Len(p) /\ (n + 1) - 1 = n /\ n + 1 # 1
        BY <1>4, <3>2
      <4>2. f[n + 1] = f[n] \o p[n + 1] /\ g0[n + 1] = g0[n] \o p[n + 1]
        BY <1>1, <1>6, <4>1 DEF FlatTo
      <4> QED
        BY <2>2, <4>1, <4>2
    <3> QED
      BY <3>1, <3>2
  <2> HIDE DEF T
  <2> QED
    BY <2>1, <2>2, Induct
<1>8. f[Len(p)] = g0[Len(p)]
  BY <1>4, <1>7
<1> QED
  BY <1>1, <1>5, <1>8

\* A concatenation of sequences of S is one.
LEMMA FlattenType ==
  ASSUME NEW S, NEW p \in Seq(Seq(S))
  PROVE  FlattenSeq(p) \in Seq(S)
<1>1. CASE p = <<>>
  BY <1>1, EmptySeq DEF FlattenSeq
<1>2. CASE p # <<>>
  <2>1. PICK g \in [1..Len(p) -> Seq(S)] : FlattenSeq(p) = g[Len(p)]
    BY <1>2, FlattenIs
  <2>2. Len(p) \in 1..Len(p)
    BY <1>2, EmptySeq
  <2> QED
    BY <2>1, <2>2
<1> QED
  BY <1>1, <1>2

\* FlattenSeq of one sequence more.
LEMMA FlattenAppend ==
  ASSUME NEW S, NEW p \in Seq(Seq(S)), NEW c \in Seq(S)
  PROVE  FlattenSeq(Append(p, c)) = FlattenSeq(p) \o c
<1> DEFINE q == Append(p, c)
           n == Len(p)
<1>1. /\ q \in Seq(Seq(S)) /\ q # <<>> /\ Len(q) = n + 1 /\ n \in Nat
      /\ \A i \in 1..n : q[i] = p[i]
      /\ q[n + 1] = c
  BY AppendProperties, LenProperties
<1> HIDE DEF q, n
<1>2. PICK h \in [1..(n + 1) -> Seq(S)] : FlatTo(q, n + 1, h) /\ FlattenSeq(q) = h[n + 1]
  BY <1>1, FlattenIs
<1>3. CASE p = <<>>
  <2>1. n = 0 /\ FlattenSeq(p) = <<>>
    BY <1>3 DEF FlattenSeq, n
  <2>2. 1 \in 1..1 /\ h[1] = q[1] /\ q[1] = c
    BY <1>1, <1>2, <2>1 DEF FlatTo
  <2> QED
    BY <1>1, <1>2, <2>1, <2>2, ConcatEmptySeq DEF q
<1>4. CASE p # <<>>
  <2>1. n # 0
    BY <1>4, EmptySeq DEF n
  <2>2. PICK g \in [1..n -> Seq(S)] : FlatTo(p, n, g) /\ FlattenSeq(p) = g[n]
    BY <1>4, FlattenIs DEF n
  <2> DEFINE T == {m \in Nat : m \in 1..n => h[m] = g[m]}
  <2>3. 0 \in T
    OBVIOUS
  <2>4. ASSUME NEW m \in Nat, m \in T PROVE m + 1 \in T
    <3> SUFFICES ASSUME m + 1 \in 1..n PROVE h[m + 1] = g[m + 1]
      OBVIOUS
    <3>1. CASE m = 0
      <4>1. 1 \in 1..n /\ 1 \in 1..(n + 1) /\ m + 1 = 1
        BY <1>1, <3>1
      <4>2. h[1] = q[1] /\ g[1] = p[1] /\ q[1] = p[1]
        BY <1>1, <1>2, <2>2, <4>1 DEF FlatTo
      <4> QED
        BY <4>1, <4>2
    <3>2. CASE m # 0
      <4>1. /\ m \in 1..n /\ (m + 1) - 1 = m /\ m + 1 # 1
            /\ m + 1 \in 1..(n + 1)
        BY <1>1, <3>2
      <4>2. h[m + 1] = h[m] \o q[m + 1] /\ g[m + 1] = g[m] \o p[m + 1] /\ q[m + 1] = p[m + 1]
        BY <1>1, <1>2, <2>2, <4>1 DEF FlatTo
      <4> QED
        BY <2>4, <4>1, <4>2
    <3> QED
      BY <3>1, <3>2
  <2> HIDE DEF T
  <2>5. n \in T
    BY <1>1, <2>3, <2>4, Induct
  <2>6. h[n] = g[n]
    BY <1>1, <2>1, <2>5 DEF T
  <2>7. n + 1 \in 1..(n + 1) /\ n + 1 # 1 /\ (n + 1) - 1 = n
    BY <1>1, <2>1
  <2>8. h[n + 1] = h[n] \o q[n + 1]
    BY <1>2, <2>7 DEF FlatTo
  <2> QED
    BY <1>1, <1>2, <2>2, <2>6, <2>8 DEF q
<1> QED
  BY <1>3, <1>4

\* Concatenation is associative.
LEMMA Assoc ==
  ASSUME NEW S, NEW a \in Seq(S), NEW b \in Seq(S), NEW c \in Seq(S)
  PROVE  (a \o b) \o c = a \o (b \o c)
BY ConcatAssociative

\* FlattenSeq of two lists of sequences.
LEMMA FlattenConcat ==
  ASSUME NEW S, NEW p \in Seq(Seq(S)), NEW q \in Seq(Seq(S))
  PROVE  FlattenSeq(p \o q) = FlattenSeq(p) \o FlattenSeq(q)
<1> DEFINE T == {n \in Nat : \A r \in Seq(Seq(S)) :
                    Len(r) = n => FlattenSeq(p \o r) = FlattenSeq(p) \o FlattenSeq(r)}
<1>1. 0 \in T
  <2> SUFFICES ASSUME NEW r \in Seq(Seq(S)), Len(r) = 0
               PROVE  FlattenSeq(p \o r) = FlattenSeq(p) \o FlattenSeq(r)
    OBVIOUS
  <2>1. r = <<>> /\ FlattenSeq(r) = <<>>
    BY EmptySeq DEF FlattenSeq
  <2> QED
    BY <2>1, ConcatEmptySeq, FlattenType
<1>2. ASSUME NEW n \in Nat, n \in T PROVE n + 1 \in T
  <2> SUFFICES ASSUME NEW r \in Seq(Seq(S)), Len(r) = n + 1
               PROVE  FlattenSeq(p \o r) = FlattenSeq(p) \o FlattenSeq(r)
    OBVIOUS
  <2>1. r # <<>>
    BY EmptySeq
  <2>2. PICK s \in Seq(Seq(S)), c \in Seq(S) : r = Append(s, c)
    BY <2>1, SequenceEmptyOrAppend
  <2>3. Len(s) = n
    BY <2>2, AppendProperties, LenProperties
  <2>4. FlattenSeq(p \o s) = FlattenSeq(p) \o FlattenSeq(s)
    BY <1>2, <2>3
  <2>5. p \o r = Append(p \o s, c)
    <3>1. p \o Append(s, c) = Append(p \o s, c)
      BY SMTT(40)
    <3> QED
      BY <2>2, <3>1
  <2>6. /\ FlattenSeq(r) = FlattenSeq(s) \o c
        /\ FlattenSeq(p \o r) = FlattenSeq(p \o s) \o c
    BY <2>2, <2>5, FlattenAppend, ConcatProperties
  <2>7. FlattenSeq(p) \in Seq(S) /\ FlattenSeq(s) \in Seq(S)
    BY FlattenType
  <2>8. (FlattenSeq(p) \o FlattenSeq(s)) \o c = FlattenSeq(p) \o (FlattenSeq(s) \o c)
    <3> DEFINE a == FlattenSeq(p)
               b == FlattenSeq(s)
    <3>1. a \in Seq(S) /\ b \in Seq(S) /\ c \in Seq(S)
      BY <2>7
    <3> HIDE DEF a, b
    <3>2. (a \o b) \o c = a \o (b \o c)
      BY <3>1, Assoc, SMTT(40)
    <3> QED
      BY <3>2 DEF a, b
  <2> QED
    BY <2>4, <2>6, <2>8
<1> HIDE DEF T
<1>3. Len(q) \in Nat
  BY LenProperties
<1>4. Len(q) \in T
  BY <1>1, <1>2, <1>3, Induct
<1> QED
  BY <1>4 DEF T

\* The maximum FoldLeft picks its next index by.
LEMMA MaxIsMember ==
  ASSUME NEW n \in Nat, NEW S \in SUBSET (1..n), S # {}
  PROVE  Max(S) \in S /\ \A m \in S : m <= Max(S)
<1> DEFINE T == {n - m : m \in S}
<1>0. ASSUME NEW m \in S PROVE m \in Nat /\ n - m \in Nat
  <2>1. m \in 1..n
    OBVIOUS
  <2> QED
    BY <2>1
<1>1. T \in SUBSET Nat /\ T # {}
  BY <1>0
<1>2. PICK k \in T : \A j \in T : k <= j
  BY <1>1, Least
<1>3. PICK x \in S : k = n - x
  OBVIOUS
<1>4. ASSUME NEW y \in S PROVE x >= y
  <2>1. n - y \in T
    OBVIOUS
  <2>2. n - x <= n - y
    BY <1>2, <1>3, <2>1
  <2> QED
    BY <1>0, <2>2
<1>5. \E z \in S : \A y \in S : z >= y
  BY <1>4
<1>6. Max(S) \in S /\ \A y \in S : Max(S) >= y
  BY <1>5 DEF Max
<1> QED
  BY <1>6

\* It is the only upper bound inside the set.
LEMMA MaxIs ==
  ASSUME NEW n \in Nat, NEW S \in SUBSET (1..n), NEW x \in S, \A m \in S : m <= x
  PROVE  Max(S) = x
<1>1. Max(S) \in S /\ \A m \in S : m <= Max(S)
  BY MaxIsMember
<1>2. Max(S) \in 1..n /\ x \in 1..n
  BY <1>1
<1>3. x <= Max(S) /\ Max(S) <= x
  BY <1>1
<1> QED
  BY <1>2, <1>3

\* One buffered chunk in bufferedChunks' loop, and the table f of the fold over all of them.
HeldStep(t, c) == [Emit(t, c.data, c.opens) EXCEPT !.ended = t.ended \/ c.ends]

HeldFold(s, h, n, f) ==
    \A S \in SUBSET (1..n) :
        f[S] = IF S = {} THEN s ELSE HeldStep(f[S \ {Max(S)}], h[Max(S)])

\* A table of n chunks extends to n + 1,
LEMMA HeldFoldMore ==
  ASSUME NEW s, NEW h, NEW n \in Nat, NEW f, HeldFold(s, h, n, f)
  PROVE  \E g : g = [S \in SUBSET (1..(n + 1)) |-> g[S]] /\ HeldFold(s, h, n + 1, g)
<1> DEFINE g == [S \in SUBSET (1..(n + 1)) |->
                   IF n + 1 \in S THEN HeldStep(f[S \ {n + 1}], h[n + 1]) ELSE f[S]]
<1>1. ASSUME NEW S \in SUBSET (1..(n + 1))
      PROVE  g[S] = IF S = {} THEN s ELSE HeldStep(g[S \ {Max(S)}], h[Max(S)])
  <2>1. CASE n + 1 \in S
    <3>1. Max(S) = n + 1
      BY <2>1, MaxIs
    <3>2. S \ {n + 1} \in SUBSET (1..(n + 1)) /\ n + 1 \notin S \ {n + 1} /\ S # {}
      BY <2>1
    <3>3. g[S \ {n + 1}] = f[S \ {n + 1}]
      BY <3>2
    <3>4. g[S] = HeldStep(f[S \ {n + 1}], h[n + 1])
      BY <2>1
    <3> QED
      BY <3>1, <3>2, <3>3, <3>4
  <2>2. CASE n + 1 \notin S
    <3>1. S \in SUBSET (1..n)
      <4>1. ASSUME NEW m \in S PROVE m \in 1..n
        BY <2>2
      <4> QED
        BY <4>1
    <3>2. /\ S \ {Max(S)} \in SUBSET (1..(n + 1))
          /\ n + 1 \notin S \ {Max(S)}
      BY <2>2
    <3>3. g[S] = f[S] /\ g[S \ {Max(S)}] = f[S \ {Max(S)}]
      BY <2>2, <3>2
    <3> QED
      BY <3>1, <3>3 DEF HeldFold
  <2> QED
    BY <2>1, <2>2
<1>2. HeldFold(s, h, n + 1, g)
  BY <1>1 DEF HeldFold
<1>3. g = [S \in SUBSET (1..(n + 1)) |-> g[S]]
  OBVIOUS
<1> QED
  BY <1>2, <1>3

\* so there is one of any size,
LEMMA HeldFoldExists ==
  ASSUME NEW s, NEW h, NEW n \in Nat
  PROVE  \E g : g = [S \in SUBSET (1..n) |-> g[S]] /\ HeldFold(s, h, n, g)
<1> DEFINE P(k) == \E g : g = [S \in SUBSET (1..k) |-> g[S]] /\ HeldFold(s, h, k, g)
           T == {k \in Nat : P(k)}
<1>1. 0 \in T
  <2> DEFINE g == [S \in SUBSET (1..0) |-> s]
  <2>1. SUBSET (1..0) = {{}}
    BY SMT
  <2>2. HeldFold(s, h, 0, g)
    BY <2>1 DEF HeldFold
  <2>3. g = [S \in SUBSET (1..0) |-> g[S]]
    OBVIOUS
  <2>4. P(0)
    BY <2>2, <2>3
  <2> QED
    BY <2>4
<1>2. ASSUME NEW k \in Nat, k \in T PROVE k + 1 \in T
  <2>1. P(k)
    BY <1>2
  <2>2. PICK g : HeldFold(s, h, k, g)
    BY <2>1
  <2>3. P(k + 1)
    BY <2>2, HeldFoldMore
  <2> QED
    BY <2>3
<1> HIDE DEF T
<1>3. n \in T
  BY <1>1, <1>2, Induct
<1> QED
  BY <1>3 DEF T

\* and EmitHeld, which chooses one, is its entry of all the indices.
LEMMA EmitHeldIs ==
  ASSUME NEW s, NEW S, NEW h \in Seq(S)
  PROVE  \E f : HeldFold(s, h, Len(h), f) /\ EmitHeld(s, h) = f[1..Len(h)]
<1>0. DOMAIN h = 1..Len(h) /\ Len(h) \in Nat
  BY LenProperties
<1> DEFINE F(g) == g = [X \in SUBSET (1..Len(h)) |->
                          IF X = {} THEN s ELSE HeldStep(g[X \ {Max(X)}], h[Max(X)])]
           f == CHOOSE g : F(g)
<1>1. PICK g : g = [X \in SUBSET (1..Len(h)) |-> g[X]] /\ HeldFold(s, h, Len(h), g)
  BY <1>0, HeldFoldExists
<1>2. F(g)
  BY <1>1 DEF HeldFold
<1>3. F(f)
  BY <1>2
<1>4. EmitHeld(s, h) = f[1..Len(h)]
  BY <1>0 DEF EmitHeld, FoldLeft, MapThenFoldSet, HeldStep
<1> HIDE DEF f
<1>5. HeldFold(s, h, Len(h), f)
  BY <1>3 DEF HeldFold
<1> QED
  BY <1>4, <1>5

\* Nothing held: nothing is emitted.
LEMMA EmitNoneHeld ==
  ASSUME NEW s
  PROVE  EmitHeld(s, <<>>) = s
<1>1. <<>> \in Seq({}) /\ Len(<<>>) = 0
  BY EmptySeq
<1>2. PICK f : HeldFold(s, <<>>, 0, f) /\ EmitHeld(s, <<>>) = f[1..0]
  BY <1>1, EmitHeldIs
<1>3. 1..0 = {}
  OBVIOUS
<1> QED
  BY <1>2, <1>3 DEF HeldFold

\* The last of the held chunks is emitted after the others.
LEMMA EmitOneMore ==
  ASSUME NEW s, NEW S, NEW h \in Seq(S), NEW c \in S
  PROVE  EmitHeld(s, Append(h, c)) = HeldStep(EmitHeld(s, h), c)
<1> DEFINE q == Append(h, c)
           n == Len(h)
<1>1. /\ q \in Seq(S) /\ Len(q) = n + 1 /\ n \in Nat
      /\ \A i \in 1..n : q[i] = h[i]
      /\ q[n + 1] = c
  BY AppendProperties, LenProperties
<1>2. PICK f : HeldFold(s, h, n, f) /\ EmitHeld(s, h) = f[1..n]
  BY EmitHeldIs
<1>3. PICK g : HeldFold(s, q, n + 1, g) /\ EmitHeld(s, q) = g[1..(n + 1)]
  BY <1>1, EmitHeldIs
<1> HIDE DEF q, n
<1> DEFINE T == {k \in Nat : k \in 0..n => g[1..k] = f[1..k]}
<1>4. \A k \in Nat : /\ Max(1..(k + 1)) = k + 1
                     /\ (1..(k + 1)) \ {k + 1} = 1..k
                     /\ 1..(k + 1) # {}
  <2> TAKE k \in Nat
  <2>1. k + 1 \in 1..(k + 1) /\ \A m \in 1..(k + 1) : m <= k + 1
    OBVIOUS
  <2>2. Max(1..(k + 1)) = k + 1
    <3> DEFINE n1 == k + 1
               S1 == 1..n1
    <3>1. n1 \in Nat /\ S1 \in SUBSET (1..n1) /\ n1 \in S1 /\ \A m \in S1 : m <= n1
      BY <2>1
    <3> HIDE DEF n1, S1
    <3>2. Max(S1) = n1
      BY <3>1, MaxIs
    <3> QED
      BY <3>2 DEF n1, S1
  <2>3. (1..(k + 1)) \ {k + 1} = 1..k
    OBVIOUS
  <2> QED
    BY <2>1, <2>2, <2>3
<1>5. 0 \in T
  <2>1. 1..0 = {}
    OBVIOUS
  <2> QED
    BY <1>2, <1>3, <2>1 DEF HeldFold
<1>6. ASSUME NEW k \in Nat, k \in T PROVE k + 1 \in T
  <2> SUFFICES ASSUME k + 1 \in 0..n PROVE g[1..(k + 1)] = f[1..(k + 1)]
    OBVIOUS
  <2>1. /\ g[1..k] = f[1..k] /\ k + 1 \in 1..n
        /\ 1..(k + 1) \in SUBSET (1..n) /\ 1..(k + 1) \in SUBSET (1..(n + 1))
    BY <1>1, <1>6
  <2>2. f[1..(k + 1)] = HeldStep(f[1..k], h[k + 1])
    BY <1>2, <1>4, <2>1, ZenonT(40) DEF HeldFold
  <2>3. g[1..(k + 1)] = HeldStep(g[1..k], q[k + 1])
    BY <1>3, <1>4, <2>1, ZenonT(40) DEF HeldFold
  <2> QED
    BY <1>1, <2>1, <2>2, <2>3
<1> HIDE DEF T
<1>7. n \in T
  BY <1>1, <1>5, <1>6, Induct
<1>8. g[1..n] = f[1..n]
  BY <1>1, <1>7 DEF T
<1>9. g[1..(n + 1)] = HeldStep(g[1..n], q[n + 1])
  BY <1>1, <1>3, <1>4, ZenonT(40) DEF HeldFold
<1> QED
  BY <1>1, <1>2, <1>3, <1>8, <1>9 DEF q

-----------------------------------------------------------------------------
(* The handler's output.                                                    *)

\* The handler's output as a record, the chunks held back, the tokens they stand for.
SinkRecords == [head : Seq(Token), open : BOOLEAN, pend : Seq(Seq(Token)), ended : BOOLEAN]
Sinks  == {s \in SinkRecords : s.open \/ s.head = <<>>}
Chunks == [data : Seq(Token), opens : BOOLEAN, ends : BOOLEAN]
Line(s) == FlattenSeq(s.pend) \o s.head
Carried(h) == FlattenSeq([k \in DOMAIN h |-> h[k].data])

\* Records of the right fields are sinks,
LEMMA SinkType ==
  ASSUME NEW h \in Seq(Token), NEW o \in BOOLEAN, NEW p \in Seq(Seq(Token)), NEW e \in BOOLEAN,
         o \/ h = <<>>
  PROVE  [head |-> h, open |-> o, pend |-> p, ended |-> e] \in Sinks
BY DEF Sinks, SinkRecords

\* and sinks have the right fields.
LEMMA SinkFields ==
  ASSUME NEW s \in Sinks
  PROVE  /\ s.head \in Seq(Token) /\ s.open \in BOOLEAN /\ s.pend \in Seq(Seq(Token))
         /\ s.ended \in BOOLEAN
         /\ s = [head |-> s.head, open |-> s.open, pend |-> s.pend, ended |-> s.ended]
         /\ s.open \/ s.head = <<>>
         /\ Line(s) \in Seq(Token)
<1>1. /\ s.head \in Seq(Token) /\ s.open \in BOOLEAN /\ s.pend \in Seq(Seq(Token))
      /\ s.ended \in BOOLEAN
      /\ s = [head |-> s.head, open |-> s.open, pend |-> s.pend, ended |-> s.ended]
      /\ s.open \/ s.head = <<>>
  BY DEF Sinks, SinkRecords
<1>2. Line(s) \in Seq(Token)
  BY <1>1, FlattenType, ConcatProperties DEF Line
<1> QED
  BY <1>1, <1>2

\* Flushing the head moves it behind the pending chunks.
LEMMA FlushHeadFacts ==
  ASSUME NEW s \in Sinks
  PROVE  LET r == FlushHead(s)
         IN  /\ r \in Sinks /\ ~r.open /\ r.head = <<>>
             /\ Line(r) = Line(s) /\ r.ended = s.ended
<1> DEFINE r == FlushHead(s)
           p == Append(s.pend, s.head)
<1>1. /\ s.head \in Seq(Token) /\ s.open \in BOOLEAN /\ s.pend \in Seq(Seq(Token))
      /\ s.ended \in BOOLEAN
      /\ s = [head |-> s.head, open |-> s.open, pend |-> s.pend, ended |-> s.ended]
      /\ s.open \/ s.head = <<>>
  BY SinkFields
<1>2. CASE ~s.open
  BY <1>1, <1>2 DEF FlushHead
<1>3. CASE s.open
  <2>1. r = [head |-> <<>>, open |-> FALSE, pend |-> p, ended |-> s.ended]
    BY <1>1, <1>3 DEF FlushHead
  <2>2. p \in Seq(Seq(Token)) /\ <<>> \in Seq(Token)
    BY <1>1, AppendProperties, EmptySeq
  <2>3. r \in Sinks
    BY <1>1, <2>1, <2>2, SinkType
  <2>4. /\ FlattenSeq(p) = FlattenSeq(s.pend) \o s.head
        /\ FlattenSeq(p) \in Seq(Token)
    BY <1>1, <2>2, FlattenAppend, FlattenType
  <2>5. Line(r) = FlattenSeq(p) \o <<>>
    BY <2>1 DEF Line
  <2>6. Line(r) = Line(s)
    BY <2>4, <2>5, ConcatEmptySeq DEF Line
  <2> QED
    BY <2>1, <2>3, <2>6
<1> QED
  BY <1>2, <1>3

\* A chunk emitted goes to the end of the line, whether the head is open or not.
LEMMA EmitFacts ==
  ASSUME NEW s \in Sinks, NEW d \in Seq(Token), NEW o \in BOOLEAN
  PROVE  LET r == Emit(s, d, o)
         IN  /\ r \in Sinks /\ r.ended = s.ended
             /\ r.open <=> s.open /\ ~o
             /\ Line(r) = Line(s) \o d
             /\ r.open => r.pend = s.pend
<1> DEFINE f == IF o THEN FlushHead(s) ELSE s
           r == Emit(s, d, o)
           h == f.head \o d
           p == Append(f.pend, d)
<1>1. f \in Sinks /\ f.ended = s.ended /\ Line(f) = Line(s) /\ (f.open => f = s)
  BY FlushHeadFacts
<1>2. f.open <=> s.open /\ ~o
  BY FlushHeadFacts
<1>3. r = IF f.open THEN [f EXCEPT !.head = h] ELSE [f EXCEPT !.pend = p]
  BY DEF Emit
<1>q. s.open \in BOOLEAN /\ s.pend \in Seq(Seq(Token))
  BY SinkFields
<1> HIDE DEF f, r
<1>4. /\ f.head \in Seq(Token) /\ f.open \in BOOLEAN /\ f.pend \in Seq(Seq(Token))
      /\ f.ended \in BOOLEAN
      /\ f = [head |-> f.head, open |-> f.open, pend |-> f.pend, ended |-> f.ended]
      /\ f.open \/ f.head = <<>>
      /\ FlattenSeq(f.pend) \in Seq(Token)
  BY <1>1, SinkFields, FlattenType
<1>5. /\ h \in Seq(Token) /\ p \in Seq(Seq(Token))
      /\ FlattenSeq(p) = FlattenSeq(f.pend) \o d
  BY <1>4, ConcatProperties, AppendProperties, FlattenAppend
<1>6. ASSUME f.open
      PROVE  /\ r \in Sinks /\ r.ended = s.ended
             /\ r.open <=> s.open /\ ~o
             /\ Line(r) = Line(s) \o d
             /\ r.open => r.pend = s.pend
  <2>1. r = [head |-> h, open |-> f.open, pend |-> f.pend, ended |-> f.ended]
    BY <1>3, <1>4, <1>6
  <2>2. r \in Sinks
    BY <1>4, <1>5, <1>6, <2>1, SinkType
  <2>3. Line(r) = Line(f) \o d
    BY <1>4, <2>1, ConcatAssociative, SMTT(40) DEF Line
  <2> QED
    BY <1>1, <1>2, <1>4, <1>6, <2>1, <2>2, <2>3
<1>7. ASSUME ~f.open
      PROVE  /\ r \in Sinks /\ r.ended = s.ended
             /\ r.open <=> s.open /\ ~o
             /\ Line(r) = Line(s) \o d
             /\ r.open => r.pend = s.pend
  <2>1. r = [head |-> f.head, open |-> f.open, pend |-> p, ended |-> f.ended]
    BY <1>3, <1>4, <1>7
  <2>2. r \in Sinks
    BY <1>4, <1>5, <1>7, <2>1, SinkType
  <2>3. f.head = <<>>
    BY <1>4, <1>7
  <2>4. FlattenSeq(p) \in Seq(Token)
    BY <1>5, FlattenType
  <2>5. Line(r) = FlattenSeq(p) /\ Line(f) = FlattenSeq(f.pend)
    BY <1>4, <2>1, <2>3, <2>4, ConcatEmptySeq DEF Line
  <2> QED
    BY <1>1, <1>2, <1>4, <1>5, <1>7, <2>1, <2>2, <2>5
<1>8. /\ r \in Sinks /\ r.ended = s.ended
      /\ r.open <=> s.open /\ ~o
      /\ Line(r) = Line(s) \o d
      /\ r.open => r.pend = s.pend
  BY <1>6, <1>7
<1> QED
  BY <1>8 DEF r

\* What the held chunks carry grows with each.
LEMMA CarriedFacts ==
  ASSUME NEW h \in Seq(Chunks)
  PROVE  /\ Carried(h) \in Seq(Token)
         /\ Carried(<<>>) = <<>>
         /\ \A c \in Chunks : Carried(Append(h, c)) = Carried(h) \o c.data
<1> DEFINE m == [k \in DOMAIN h |-> h[k].data]
<1>1. /\ Len(h) \in Nat /\ DOMAIN h = 1..Len(h)
      /\ \A k \in 1..Len(h) : h[k] \in Chunks
  BY LenProperties, ElementOfSeq
<1>2. \A c \in Chunks : c.data \in Seq(Token)
  BY DEF Chunks
<1>3. m \in Seq(Seq(Token)) /\ Len(m) = Len(h)
  BY <1>1, <1>2
<1>4. Carried(h) \in Seq(Token)
  BY <1>3, FlattenType DEF Carried
<1>5. Carried(<<>>) = <<>>
  <2>1. [k \in DOMAIN <<>> |-> <<>>[k].data] = <<>>
    OBVIOUS
  <2> QED
    BY <2>1 DEF Carried, FlattenSeq
<1>6. ASSUME NEW c \in Chunks PROVE Carried(Append(h, c)) = Carried(h) \o c.data
  <2> DEFINE q == Append(h, c)
             w == [k \in DOMAIN q |-> q[k].data]
  <2>1. /\ DOMAIN q = 1..(Len(h) + 1) /\ q[Len(h) + 1] = c
        /\ \A k \in 1..Len(h) : q[k] = h[k]
    BY AppendProperties, LenProperties
  <2>2. w = Append(m, c.data)
    <3>1. /\ Append(m, c.data) \in Seq(Seq(Token))
          /\ Len(Append(m, c.data)) = Len(h) + 1
          /\ \A k \in 1..Len(h) : Append(m, c.data)[k] = m[k]
          /\ Append(m, c.data)[Len(h) + 1] = c.data
      BY <1>2, <1>3, AppendProperties
    <3>2. DOMAIN Append(m, c.data) = 1..(Len(h) + 1)
      BY <3>1, LenProperties
    <3>3. ASSUME NEW k \in 1..(Len(h) + 1) PROVE w[k] = Append(m, c.data)[k]
      BY <1>1, <2>1, <3>1
    <3> QED
      BY <2>1, <3>1, <3>2, <3>3
  <2> QED
    BY <1>2, <1>3, <2>2, FlattenAppend DEF Carried
<1> QED
  BY <1>4, <1>5, <1>6

\* r is the sink s after the chunks h went through it.
Emptied(s, h, r) ==
    /\ r \in Sinks
    /\ r.ended <=> s.ended \/ \E k \in DOMAIN h : h[k].ends
    /\ r.open <=> s.open /\ \A k \in DOMAIN h : ~h[k].opens
    /\ Line(r) = Line(s) \o Carried(h)
    /\ r.open => r.pend = s.pend

\* One held chunk.
LEMMA HeldStepFacts ==
  ASSUME NEW s \in Sinks, NEW c \in Chunks
  PROVE  LET r == HeldStep(s, c)
         IN  /\ r \in Sinks
             /\ r.ended <=> s.ended \/ c.ends
             /\ r.open <=> s.open /\ ~c.opens
             /\ Line(r) = Line(s) \o c.data
             /\ r.open => r.pend = s.pend
<1> DEFINE t == Emit(s, c.data, c.opens)
           r == HeldStep(s, c)
<1>1. c.data \in Seq(Token) /\ c.opens \in BOOLEAN /\ c.ends \in BOOLEAN
  BY DEF Chunks
<1>2. /\ t \in Sinks /\ t.ended = s.ended
      /\ t.open <=> s.open /\ ~c.opens
      /\ Line(t) = Line(s) \o c.data
      /\ t.open => t.pend = s.pend
  BY <1>1, EmitFacts
<1>3. r = [t EXCEPT !.ended = s.ended \/ c.ends]
  BY DEF HeldStep
<1> HIDE DEF t, r
<1>4. /\ t.head \in Seq(Token) /\ t.open \in BOOLEAN /\ t.pend \in Seq(Seq(Token))
      /\ t = [head |-> t.head, open |-> t.open, pend |-> t.pend, ended |-> t.ended]
      /\ t.open \/ t.head = <<>>
      /\ s.ended \in BOOLEAN
  BY <1>2, SinkFields
<1>5. r = [head |-> t.head, open |-> t.open, pend |-> t.pend, ended |-> s.ended \/ c.ends]
  BY <1>3, <1>4
<1>6. r \in Sinks
  BY <1>1, <1>4, <1>5, SinkType
<1>7. Line(r) = Line(t)
  BY <1>5 DEF Line
<1> QED
  BY <1>1, <1>2, <1>4, <1>5, <1>6, <1>7 DEF r

\* All of them, by induction over their number.
LEMMA EmitHeldFacts ==
  ASSUME NEW s \in Sinks, NEW h \in Seq(Chunks)
  PROVE  Emptied(s, h, EmitHeld(s, h))
<1> DEFINE T == {n \in Nat : \A g \in Seq(Chunks) : Len(g) = n => Emptied(s, g, EmitHeld(s, g))}
<1>1. 0 \in T
  <2> SUFFICES ASSUME NEW g \in Seq(Chunks), Len(g) = 0
               PROVE  Emptied(s, g, EmitHeld(s, g))
    OBVIOUS
  <2>1. g = <<>> /\ Carried(g) = <<>> /\ EmitHeld(s, g) = s
    BY EmptySeq, CarriedFacts, EmitNoneHeld
  <2>2. Line(s) \o <<>> = Line(s) /\ s.ended \in BOOLEAN /\ s.open \in BOOLEAN
    BY SinkFields, ConcatEmptySeq
  <2>3. DOMAIN g = {}
    BY <2>1
  <2> QED
    BY <2>1, <2>2, <2>3 DEF Emptied
<1>2. ASSUME NEW n \in Nat, n \in T PROVE n + 1 \in T
  <2> SUFFICES ASSUME NEW g \in Seq(Chunks), Len(g) = n + 1
               PROVE  Emptied(s, g, EmitHeld(s, g))
    OBVIOUS
  <2>1. PICK f \in Seq(Chunks), c \in Chunks : g = Append(f, c)
    <3>1. g # <<>>
      BY EmptySeq
    <3> QED
      BY <3>1, SequenceEmptyOrAppend
  <2>2. /\ Len(f) = n /\ DOMAIN f = 1..n /\ DOMAIN g = 1..(n + 1)
        /\ \A k \in 1..n : g[k] = f[k]
        /\ g[n + 1] = c
    BY <2>1, AppendProperties, LenProperties
  <2> DEFINE t == EmitHeld(s, f)
             r == EmitHeld(s, g)
  <2>3. Emptied(s, f, t)
    BY <1>2, <2>2
  <2>4. r = HeldStep(t, c)
    BY <2>1, EmitOneMore
  <2>5. Carried(g) = Carried(f) \o c.data /\ Carried(f) \in Seq(Token)
    BY <2>1, CarriedFacts
  <2> HIDE DEF t, r
  <2>6. t \in Sinks
    BY <2>3 DEF Emptied
  <2>7. /\ r \in Sinks
        /\ r.ended <=> t.ended \/ c.ends
        /\ r.open <=> t.open /\ ~c.opens
        /\ Line(r) = Line(t) \o c.data
        /\ r.open => r.pend = t.pend
    BY <2>4, <2>6, HeldStepFacts
  <2>8. Line(r) = Line(s) \o Carried(g)
    <3>1. Line(s) \in Seq(Token) /\ c.data \in Seq(Token)
      BY SinkFields DEF Chunks
    <3>2. ASSUME NEW a \in Seq(Token), NEW b \in Seq(Token), NEW d \in Seq(Token)
          PROVE  (a \o b) \o d = a \o (b \o d)
      BY ConcatAssociative
    <3>3. (Line(s) \o Carried(f)) \o c.data = Line(s) \o (Carried(f) \o c.data)
      BY <2>5, <3>1, <3>2
    <3> QED
      BY <2>3, <2>5, <2>7, <3>3 DEF Emptied
  <2>9. r.ended <=> s.ended \/ \E k \in DOMAIN g : g[k].ends
    <3>1. (\E k \in DOMAIN g : g[k].ends) <=> (\E k \in DOMAIN f : f[k].ends) \/ c.ends
      BY <2>2
    <3> QED
      BY <2>3, <2>7, <3>1 DEF Emptied
  <2>10. r.open <=> s.open /\ \A k \in DOMAIN g : ~g[k].opens
    <3>1. (\A k \in DOMAIN g : ~g[k].opens) <=> (\A k \in DOMAIN f : ~f[k].opens) /\ ~c.opens
      BY <2>2
    <3> QED
      BY <2>3, <2>7, <3>1 DEF Emptied
  <2>11. r.open => r.pend = s.pend
    BY <2>3, <2>7 DEF Emptied
  <2>12. Emptied(s, g, r)
    BY <2>7, <2>8, <2>9, <2>10, <2>11 DEF Emptied
  <2> QED
    BY <2>12 DEF r
<1> HIDE DEF T
<1>3. Len(h) \in T
  BY <1>1, <1>2, LenProperties, Induct
<1> QED
  BY <1>3 DEF T

-----------------------------------------------------------------------------
(* Runs of halves, and the tokens of sequences.                             *)

\* The halves a to b, one token each.
LEMMA RunFacts ==
  ASSUME NEW a \in Nat \ {0}, NEW b \in Nat, a <= b + 1
  PROVE  /\ Run(a, b) \in Seq(Token) /\ Len(Run(a, b)) = b - a + 1
         /\ \A k \in 1..(b - a + 1) : Run(a, b)[k] = <<"data", a + k - 1>>
<1>1. b - a + 1 \in Nat
  OBVIOUS
<1>2. ASSUME NEW k \in 1..(b - a + 1) PROVE <<"data", a + k - 1>> \in Token
  BY <1>1 DEF Token
<1>3. Run(a, b) \in [1..(b - a + 1) -> Token]
  BY <1>2 DEF Run
<1>4. Run(a, b) \in Seq(Token)
  BY <1>1, <1>3
<1>5. Len(Run(a, b)) = b - a + 1
  BY <1>1 DEF Run
<1> QED
  BY <1>4, <1>5 DEF Run

\* Two runs that meet are one.
LEMMA RunMore ==
  ASSUME NEW m \in Nat, NEW b \in Nat, m < b
  PROVE  Run(1, m) \o Run(m + 1, b) = Run(1, b)
<1> DEFINE s == Run(1, m)
           t == Run(m + 1, b)
           r == Run(1, b)
<1>1. /\ s \in Seq(Token) /\ Len(s) = m /\ \A k \in 1..m : s[k] = <<"data", k>>
  BY RunFacts
<1>2. /\ t \in Seq(Token) /\ Len(t) = b - m
      /\ \A k \in 1..(b - m) : t[k] = <<"data", m + k>>
  <2> DEFINE a == m + 1
  <2>0. a \in Nat \ {0} /\ a <= b + 1 /\ b - a + 1 = b - m /\ \A k \in Nat : a + k - 1 = m + k
    OBVIOUS
  <2> HIDE DEF a
  <2>1. /\ Run(a, b) \in Seq(Token) /\ Len(Run(a, b)) = b - m
        /\ \A k \in 1..(b - m) : Run(a, b)[k] = <<"data", a + k - 1>>
    BY <2>0, RunFacts
  <2> QED
    BY <2>0, <2>1 DEF a
<1>3. /\ r \in Seq(Token) /\ Len(r) = b /\ \A k \in 1..b : r[k] = <<"data", k>>
  BY RunFacts
<1> HIDE DEF s, t, r
<1>4. /\ s \o t \in Seq(Token) /\ Len(s \o t) = b
      /\ \A i \in 1..b : (s \o t)[i] = IF i <= m THEN s[i] ELSE t[i - m]
  <2>1. /\ s \o t \in Seq(Token) /\ Len(s \o t) = Len(s) + Len(t)
        /\ \A i \in 1..(Len(s) + Len(t)) :
              (s \o t)[i] = IF i <= Len(s) THEN s[i] ELSE t[i - Len(s)]
    BY <1>1, <1>2, ConcatProperties
  <2>2. Len(s) = m /\ Len(t) = b - m /\ m + (b - m) = b
    BY <1>1, <1>2
  <2> QED
    BY <2>1, <2>2
<1>5. ASSUME NEW i \in 1..b PROVE (s \o t)[i] = r[i]
  <2>1. CASE i <= m
    <3>1. i \in 1..m /\ (s \o t)[i] = s[i]
      BY <1>4, <2>1
    <3>2. s[i] = <<"data", i>>
      BY <1>1, <3>1
    <3> QED
      BY <1>3, <3>1, <3>2
  <2>2. CASE ~ (i <= m)
    <3>1. i - m \in 1..(b - m) /\ m + (i - m) = i
      BY <2>2
    <3>2. t[i - m] = <<"data", i>>
      BY <1>2, <3>1
    <3> QED
      BY <1>3, <1>4, <2>2, <3>2
  <2> QED
    BY <2>1, <2>2
<1>6. s \o t = r
  BY <1>3, <1>4, <1>5, SeqEqual
<1> QED
  BY <1>6 DEF s, t, r

\* The upstream's events have kinds.
LEMMA BodyFacts ==
  ASSUME body \in Streams
  PROVE  /\ body \in Seq(Kinds) /\ Len(body) \in Nat /\ Events = 1..Len(body)
         /\ \A i \in Events : body[i] \in Kinds
BY StreamsAssumption, LenProperties, ElementOfSeq DEF Events

\* The tokens of two sequences.
LEMMA ToSetConcat ==
  ASSUME NEW S, NEW s \in Seq(S), NEW t \in Seq(S)
  PROVE  ToSet(s \o t) = ToSet(s) \cup ToSet(t)
<1> DEFINE r == s \o t
<1>1. /\ r \in Seq(S) /\ Len(r) = Len(s) + Len(t)
      /\ \A i \in 1..(Len(s) + Len(t)) : r[i] = IF i <= Len(s) THEN s[i] ELSE t[i - Len(s)]
  BY ConcatProperties
<1> HIDE DEF r
<1>2. /\ Len(s) \in Nat /\ Len(t) \in Nat
      /\ DOMAIN s = 1..Len(s) /\ DOMAIN t = 1..Len(t) /\ DOMAIN r = 1..(Len(s) + Len(t))
  BY <1>1, LenProperties
<1>3. ASSUME NEW i \in DOMAIN r PROVE r[i] \in ToSet(s) \cup ToSet(t)
  <2>1. CASE i <= Len(s)
    BY <1>1, <1>2, <2>1 DEF ToSet
  <2>2. CASE ~ (i <= Len(s))
    <3>1. i - Len(s) \in DOMAIN t
      BY <1>2, <2>2
    <3> QED
      BY <1>1, <1>2, <2>2, <3>1 DEF ToSet
  <2> QED
    BY <2>1, <2>2
<1>4. ASSUME NEW i \in DOMAIN s PROVE s[i] \in ToSet(r)
  <2>1. i \in DOMAIN r /\ r[i] = s[i]
    BY <1>1, <1>2
  <2> QED
    BY <2>1 DEF ToSet
<1>5. ASSUME NEW i \in DOMAIN t PROVE t[i] \in ToSet(r)
  <2>1. i + Len(s) \in DOMAIN r /\ ~ (i + Len(s) <= Len(s)) /\ (i + Len(s)) - Len(s) = i
    BY <1>2
  <2>2. r[i + Len(s)] = t[i]
    BY <1>1, <1>2, <2>1
  <2> QED
    BY <2>1, <2>2 DEF ToSet
<1>6. ToSet(r) = ToSet(s) \cup ToSet(t)
  BY <1>3, <1>4, <1>5 DEF ToSet
<1> QED
  BY <1>6 DEF r

\* The tokens of a chunk of one, and of none.
LEMMA ToSetOne ==
  ASSUME NEW x
  PROVE  ToSet(<<x>>) = {x} /\ ToSet(<<>>) = {}
BY DEF ToSet

\* The tokens of a sequence of S are in S.
LEMMA ToSetType ==
  ASSUME NEW S, NEW s \in Seq(S)
  PROVE  ToSet(s) \subseteq S
BY LenProperties, ElementOfSeq DEF ToSet

\* The tokens of a concatenation are those of its parts.
LEMMA ToSetFlatten ==
  ASSUME NEW S, NEW p \in Seq(Seq(S))
  PROVE  ToSet(FlattenSeq(p)) = UNION {ToSet(c) : c \in ToSet(p)}
<1> DEFINE All(q) == UNION {ToSet(c) : c \in ToSet(q)}
           T == {n \in Nat : \A q \in Seq(Seq(S)) :
                    Len(q) = n => ToSet(FlattenSeq(q)) = All(q)}
<1>1. 0 \in T
  <2> SUFFICES ASSUME NEW q \in Seq(Seq(S)), Len(q) = 0
               PROVE  ToSet(FlattenSeq(q)) = All(q)
    OBVIOUS
  <2>1. q = <<>> /\ FlattenSeq(q) = <<>> /\ ToSet(<<>>) = {}
    BY EmptySeq, ToSetOne DEF FlattenSeq
  <2>2. ToSet(q) = {} /\ ToSet(FlattenSeq(q)) = {}
    BY <2>1
  <2>3. All(q) = {}
    BY <2>2
  <2> QED
    BY <2>2, <2>3
<1>2. ASSUME NEW n \in Nat, n \in T PROVE n + 1 \in T
  <2> SUFFICES ASSUME NEW q \in Seq(Seq(S)), Len(q) = n + 1
               PROVE  ToSet(FlattenSeq(q)) = All(q)
    OBVIOUS
  <2>1. PICK f \in Seq(Seq(S)), c \in Seq(S) : q = Append(f, c)
    <3>1. q # <<>>
      BY EmptySeq
    <3> QED
      BY <3>1, SequenceEmptyOrAppend
  <2>2. Len(f) = n
    BY <2>1, AppendProperties, LenProperties
  <2>3. ToSet(FlattenSeq(f)) = All(f)
    BY <1>2, <2>2
  <2>4. FlattenSeq(q) = FlattenSeq(f) \o c /\ FlattenSeq(f) \in Seq(S)
    BY <2>1, FlattenAppend, FlattenType
  <2>5. ToSet(FlattenSeq(q)) = ToSet(FlattenSeq(f)) \cup ToSet(c)
    BY <2>4, ToSetConcat
  <2>6. ToSet(q) = ToSet(f) \cup {c}
    <3>1. q = f \o <<c>> /\ <<c>> \in Seq(Seq(S)) /\ ToSet(<<c>>) = {c}
      BY <2>1, AppendIsConcat, ToSetOne
    <3> DEFINE e == <<c>>
    <3>2. e \in Seq(Seq(S))
      BY <3>1
    <3> HIDE DEF e
    <3>3. ToSet(f \o e) = ToSet(f) \cup ToSet(e)
      BY <3>2, ToSetConcat
    <3> QED
      BY <3>1, <3>3 DEF e
  <2>7. All(q) = All(f) \cup ToSet(c)
    BY <2>6
  <2> QED
    BY <2>3, <2>5, <2>7
<1> HIDE DEF T
<1>3. Len(p) \in T
  BY <1>1, <1>2, LenProperties, Induct
<1> QED
  BY <1>3 DEF T

-----------------------------------------------------------------------------
(* Types.                                                                   *)

\* What was written or is pending, and what is held back.
W == out \o FlattenSeq(pend)
H == Carried(held)

\* Which stores are empty when; with TypeOK, an invariant by itself.
Frame ==
    /\ headOpen \/ head = <<>>
    /\ adapter = "none" => held = <<>> /\ head = <<>>
    /\ pc = "first" => fed = 0 /\ pend = <<>> /\ out = <<>> /\ head = <<>> /\ held = <<>>
                       /\ buf = <<>> /\ pinger = "none"
    /\ pc \in {"failing", "direct", "gone"} => pend = <<>>
    /\ pinger = "writing" => pings < MaxPings

TInv == TypeOK /\ Frame

\* The tokens the handler makes are tokens.
LEMMA TokenKinds ==
  /\ \A n \in Nat : /\ <<"data", n>> \in Token /\ <<"conv", n>> \in Token
  /\ \A k \in {"blank", "ping", "fix", "done", "event", "body"} : <<k, 0>> \in Token
BY DEF Token

\* The state as sequences of tokens and as a sink.
LEMMA TypedState ==
  ASSUME TInv
  PROVE  /\ W \in Seq(Token) /\ H \in Seq(Token) /\ held \in Seq(Chunks)
         /\ FlattenSeq(pend) \in Seq(Token)
         /\ Sink \in Sinks
         /\ Line(Sink) = FlattenSeq(pend) \o head
<1>1. /\ out \in Seq(Token) /\ pend \in Seq(Seq(Token)) /\ held \in Seq(Chunks)
      /\ head \in Seq(Token) /\ headOpen \in BOOLEAN /\ sentDone \in BOOLEAN
      /\ headOpen \/ head = <<>>
  BY DEF TInv, TypeOK, Chunks, Frame
<1>2. FlattenSeq(pend) \in Seq(Token) /\ W \in Seq(Token)
  BY <1>1, FlattenType, ConcatProperties DEF W
<1>3. H \in Seq(Token)
  BY <1>1, CarriedFacts DEF H
<1>4. Sink \in Sinks /\ Line(Sink) = FlattenSeq(pend) \o head
  BY <1>1, SinkType DEF Sink, Line
<1> QED
  BY <1>1, <1>2, <1>3, <1>4

\* A converting adapter makes tokens of its own, one for each event with text or a role.
LEMMA ConvertedType ==
  ASSUME body \in Streams, NEW a \in Nat, NEW b \in Nat
  PROVE  /\ Converted(a, b) \in Seq(Token)
         /\ \A tok \in ToSet(Converted(a, b)) : tok[1] \in {"conv", "blank"}
         /\ \A i \in Whole(a, b) : body[i] \in {"head", "text", "leak"} =>
              <<"conv", i>> \in ToSet(Converted(a, b))
<1> DEFINE said == Are({"head", "text", "leak"}, Whole(a, b))
           p == [k \in Events |-> IF k \in said THEN <<<<"conv", k>>>> ELSE <<>>]
<1>0. /\ Len(body) \in Nat /\ Events = 1..Len(body)
  BY BodyFacts
<1>1. CASE said = {}
  <2>1. Converted(a, b) = <<<<"blank", 0>>>>
    BY <1>1 DEF Converted
  <2>2. <<"blank", 0>> \in Token
    BY TokenKinds
  <2>3. ToSet(Converted(a, b)) = {<<"blank", 0>>}
    BY <2>1, ToSetOne
  <2>4. \A i \in Whole(a, b) : body[i] \notin {"head", "text", "leak"}
    BY <1>1 DEF Are
  <2> QED
    BY <2>1, <2>2, <2>3, <2>4
<1>2. CASE said # {}
  <2>1. Converted(a, b) = FlattenSeq(p)
    BY <1>2 DEF Converted
  <2> DEFINE C == {<<"conv", n>> : n \in Nat}
  <2>2. ASSUME NEW k \in Events PROVE p[k] \in Seq(C)
    <3>1. <<"conv", k>> \in C
      BY <1>0
    <3> HIDE DEF C
    <3>2. <<<<"conv", k>>>> \in Seq(C) /\ <<>> \in Seq(C)
      BY <3>1
    <3> QED
      BY <3>2
  <2> HIDE DEF C
  <2>3. p \in Seq(Seq(C))
    BY <1>0, <2>2
  <2>4. FlattenSeq(p) \in Seq(C)
    BY <2>3, FlattenType
  <2>5. C \subseteq Token /\ \A tok \in C : tok[1] = "conv"
    BY DEF C, Token
  <2>6. FlattenSeq(p) \in Seq(Token)
    BY <2>4, <2>5, SeqMonotonic
  <2>7. ToSet(FlattenSeq(p)) \subseteq C
    BY <2>4, ToSetType
  <2>8. ASSUME NEW i \in Whole(a, b), body[i] \in {"head", "text", "leak"}
        PROVE  <<"conv", i>> \in ToSet(FlattenSeq(p))
    <3>1. i \in Events /\ i \in said
      BY <2>8 DEF Whole, Are
    <3>2. p[i] = <<<<"conv", i>>>> /\ i \in DOMAIN p
      BY <3>1
    <3>3. <<"conv", i>> \in ToSet(p[i]) /\ p[i] \in ToSet(p)
      BY <3>2, ToSetOne DEF ToSet
    <3>4. ToSet(FlattenSeq(p)) = UNION {ToSet(c) : c \in ToSet(p)}
      BY <2>3, ToSetFlatten
    <3> HIDE DEF p
    <3> QED
      BY <3>3, <3>4
  <2> QED
    BY <2>1, <2>5, <2>6, <2>7, <2>8
<1> QED
  BY <1>1, <1>2

\* The parsed chunk is a sequence of tokens.
LEMMA ParsedType ==
  ASSUME body \in Streams, NEW a \in Nat \ {0}, NEW b \in Nat, a <= b
  PROVE  Parsed(a, b) \in Seq(Token)
BY ConvertedType, RunFacts DEF Parsed

\* A telltale text is in the chunk or is not.
LEMMA SaysType ==
  ASSUME NEW kind, NEW a, NEW b, NEW shown
  PROVE  Says(kind, shown) \in BOOLEAN /\ Opens(a, b) \subseteq BOOLEAN
BY DEF Says, Opens

\* The initial states are typed.
LEMMA TInvInit == Init => TInv
<1> SUFFICES ASSUME Init PROVE TInv
  OBVIOUS
<1>1. body \in Streams
  BY DEF Init
<1>2. Len(body) \in Nat
  BY <1>1, BodyFacts
<1>3. \A S : <<>> \in Seq(S)
  BY EmptySeq
<1>4. MaxPings \in Nat
  BY StreamsAssumption
<1>5. TypeOK
  <2>1. /\ out \in Seq(Token) /\ head \in Seq(Token) /\ buf \in Seq(Token)
        /\ pend \in Seq(Seq(Token))
        /\ held \in Seq([data : Seq(Token), opens : BOOLEAN, ends : BOOLEAN])
    BY <1>3 DEF Init
  <2>2. fed \in 0..(2 * Len(body)) /\ pings \in 0..MaxPings
    BY <1>2, <1>4 DEF Init
  <2>3. (buf # <<>> => active) /\ (held # <<>> => toolGate)
    BY DEF Init
  <2> QED
    BY <1>1, <2>1, <2>2, <2>3 DEF Init, TypeOK
<1>6. Frame
  BY DEF Init, Frame
<1> QED
  BY <1>5, <1>6 DEF TInv

\* What Forward makes of a sink: held chunks, perhaps the head, and the new chunk, in line.
LEMMA ForwardFacts ==
  ASSUME NEW s0 \in Sinks, NEW h \in Seq(Chunks), NEW d \in Seq(Token), NEW c \in BOOLEAN
  PROVE  LET s == EmitHeld(s0, h)
             t == IF h # <<>> /\ s.ended THEN FlushHead(s) ELSE s
             r == Emit(t, d, t.ended \/ c)
         IN  /\ r \in Sinks
             /\ Line(r) = (Line(s0) \o Carried(h)) \o d
             /\ r.ended <=> s0.ended \/ \E k \in DOMAIN h : h[k].ends
             /\ r.open => s0.open /\ r.pend = s0.pend
             /\ ~r.open => ~s0.open \/ (\E k \in DOMAIN h : h[k].opens) \/ r.ended \/ c
<1> DEFINE s == EmitHeld(s0, h)
           t == IF h # <<>> /\ s.ended THEN FlushHead(s) ELSE s
           r == Emit(t, d, t.ended \/ c)
<1>1. Emptied(s0, h, s)
  BY EmitHeldFacts
<1> HIDE DEF s
<1>2. s \in Sinks /\ Line(s) = Line(s0) \o Carried(h) /\ (s.open => s.pend = s0.pend)
  BY <1>1 DEF Emptied
<1>3. /\ t \in Sinks /\ Line(t) = Line(s) /\ t.ended = s.ended
      /\ t.open => s.open /\ t.pend = s.pend
      /\ ~t.open => ~s.open \/ s.ended
  BY <1>2, FlushHeadFacts
<1> HIDE DEF t
<1>4. t.ended \in BOOLEAN
  BY <1>3, SinkFields
<1>5. /\ r \in Sinks /\ r.ended = t.ended
      /\ r.open <=> t.open /\ ~(t.ended \/ c)
      /\ Line(r) = Line(t) \o d
      /\ r.open => r.pend = t.pend
  BY <1>3, <1>4, EmitFacts
<1> HIDE DEF r
<1>6. /\ Line(r) = (Line(s0) \o Carried(h)) \o d
      /\ r.ended <=> s0.ended \/ \E k \in DOMAIN h : h[k].ends
  BY <1>1, <1>2, <1>3, <1>5 DEF Emptied
<1>7. s.open <=> s0.open /\ \A k \in DOMAIN h : ~h[k].opens
  BY <1>1 DEF Emptied
<1>8. r.open => s0.open /\ r.pend = s0.pend
  BY <1>2, <1>3, <1>5, <1>7
<1>9. ~r.open => ~s0.open \/ (\E k \in DOMAIN h : h[k].opens) \/ r.ended \/ c
  BY <1>3, <1>5, <1>7
<1> QED
  BY <1>5, <1>6, <1>8, <1>9 DEF r, t, s

\* The variables of the handler's output, after Put(r).
PutFacts(r) ==
    /\ pend' \in Seq(Seq(Token)) /\ head' \in Seq(Token)
    /\ headOpen' \in BOOLEAN /\ sentDone' \in BOOLEAN
    /\ headOpen' \/ head' = <<>>
    /\ Line(r) = FlattenSeq(pend') \o head'

\* They have their types if r is a sink.
LEMMA PutType ==
  ASSUME NEW r \in Sinks, Put(r)
  PROVE  PutFacts(r)
<1>1. /\ r.head \in Seq(Token) /\ r.open \in BOOLEAN /\ r.pend \in Seq(Seq(Token))
      /\ r.ended \in BOOLEAN
      /\ r.open \/ r.head = <<>>
  BY SinkFields
<1> QED
  BY <1>1 DEF Put, PutFacts, Line

\* What a Read is.
ReadOf(b, shown) ==
    /\ pc \in {"first", "read"} /\ pend = <<>>
    /\ b \in Nat /\ fed < b /\ b <= 2 * Len(body) /\ fed \in Nat /\ fed + 1 \in Nat \ {0}
    /\ fed' = b
    /\ shown \in SUBSET Events /\ Whole(fed + 1, b) \subseteq shown
    /\ \A i \in shown : \E n \in {FrontOf(i), BackOf(i)} : n \in (fed + 1)..b
    /\ pinger' = (IF pc = "first" THEN "idle" ELSE pinger)
    /\ log' = (IF pc' = "failing" THEN "error" ELSE log)
    /\ UNCHANGED <<body, adapter, loud, toolGate, client, pings>>

\* A Read is one, and one of its three outcomes follows.
LEMMA ReadIs ==
  ASSUME TInv, NEW b \in 1..(2 * Len(body)), Read(b)
  PROVE  \E shown : /\ ReadOf(b, shown)
                    /\ \/ RelayRaw(fed + 1, b, shown)
                       \/ UpstreamFails(fed + 1, b, shown)
                       \/ RelayChat(fed + 1, b, shown)
<1>1. /\ Len(body) \in Nat /\ Events = 1..Len(body)
      /\ fed \in 0..(2 * Len(body))
  BY BodyFacts DEF TInv, TypeOK
<1> DEFINE a == fed + 1
<1>2. PICK seen \in SUBSET Torn(a, b) :
        LET shown == Whole(a, b) \cup seen
        IN  RelayRaw(a, b, shown) \/ UpstreamFails(a, b, shown) \/ RelayChat(a, b, shown)
  BY DEF Read
<1> DEFINE shown == Whole(a, b) \cup seen
<1>3. b \in Nat /\ fed \in Nat /\ a \in Nat \ {0} /\ fed < b /\ b <= 2 * Len(body)
  BY <1>1 DEF Read
<1>4. shown \in SUBSET Events
  BY DEF Torn, Whole
<1>5. ASSUME NEW i \in shown PROVE \E n \in {FrontOf(i), BackOf(i)} : n \in a..b
  <2>1. CASE i \in Whole(a, b)
    <3>1. i \in Nat /\ a <= 2 * i - 1 /\ 2 * i <= b
      BY <1>1, <2>1 DEF Whole, FrontOf, BackOf
    <3>2. BackOf(i) \in a..b
      BY <1>3, <3>1 DEF BackOf
    <3> QED
      BY <3>2
  <2>2. CASE i \in seen
    BY <2>2 DEF Torn
  <2> QED
    BY <2>1, <2>2
<1>6. /\ pc \in {"first", "read"} /\ pend = <<>> /\ fed' = b
      /\ pinger' = (IF pc = "first" THEN "idle" ELSE pinger)
      /\ log' = (IF pc' = "failing" THEN "error" ELSE log)
      /\ UNCHANGED <<body, adapter, loud, toolGate, client, pings>>
  BY DEF Read, StartSSE
<1>7. Whole(a, b) \subseteq shown
  OBVIOUS
<1> HIDE DEF shown
<1>8. ReadOf(b, shown)
  BY <1>3, <1>4, <1>5, <1>6, <1>7 DEF ReadOf
<1> QED
  BY <1>2, <1>8 DEF shown

\* A chunk that is relayed keeps the loop going.
LEMMA Unfailing ==
  ASSUME NEW a, NEW b, NEW shown
  PROVE  /\ RelayRaw(a, b, shown) => pc' = "read"
         /\ RelayChat(a, b, shown) => pc' = "read"
BY DEF RelayRaw, RelayChat

\* What the three outcomes of a Read without a failure do to the stores.
Buffers(b) ==
    /\ pc' = "read" /\ active' /\ buf' = buf \o Run(fed + 1, b)
    /\ UNCHANGED <<pend, head, headOpen, held>>
Holds(b, shown, ended) ==
    /\ pc' = "read" /\ ~active' /\ buf' = buf /\ adapter # "none"
    /\ toolGate /\ ~toolCalls' /\ Hold(fed + 1, b, shown, ended)
Forwards(b, shown, ended) ==
    /\ pc' = "read" /\ ~active' /\ buf' = buf /\ adapter # "none"
    /\ (~toolGate \/ toolCalls') /\ Forward(fed + 1, b, ended)
Relays(b) ==
    /\ pc' = "read" /\ ~active' /\ buf' = buf /\ adapter = "none"
    /\ pend' = Append(pend, Run(fed + 1, b))
    /\ UNCHANGED <<head, headOpen, held, sentDone, toolCalls>>

\* The raw handler buffers the chunk or relays it.
LEMMA RawIs ==
  ASSUME NEW b, NEW shown, RelayRaw(fed + 1, b, shown)
  PROVE  /\ adapter = "none"
         /\ Buffers(b) \/ Relays(b)
         /\ active' = (active \/ Are(Responses, shown) # {})
         /\ UNCHANGED <<sentDone, toolCalls, text>>
BY DEF RelayRaw, Observe, Buffers, Relays

\* The chat handler buffers it, holds it back or forwards it.
LEMMA ChatIs ==
  ASSUME NEW b, NEW shown, RelayChat(fed + 1, b, shown)
  PROVE  LET ended == sentDone \/ Are({"done"}, shown) # {}
         IN  /\ adapter # "none"
             /\ \/ Buffers(b) /\ sentDone' = ended
                \/ Holds(b, shown, ended)
                \/ Forwards(b, shown, ended)
             /\ active' = (active \/ Are(Responses, shown) # {})
             /\ toolCalls' = (toolCalls \/ (~active' /\ Says("tool", shown)))
             /\ text' = Heard(fed + 1, b, shown)
<1> DEFINE ended == sentDone \/ Are({"done"}, shown) # {}
<1>1. /\ adapter # "none" /\ pc' = "read"
      /\ active' = (active \/ Are(Responses, shown) # {})
      /\ buf' = IF active' THEN buf \o Run(fed + 1, b) ELSE buf
      /\ toolCalls' = (toolCalls \/ (~active' /\ Says("tool", shown)))
      /\ text' = Heard(fed + 1, b, shown)
  BY DEF RelayChat, Observe
<1>2. \/ active' /\ sentDone' = ended /\ UNCHANGED <<pend, head, headOpen, held>>
      \/ ~active' /\ toolGate /\ ~toolCalls' /\ Hold(fed + 1, b, shown, ended)
      \/ ~active' /\ (~toolGate \/ toolCalls') /\ Forward(fed + 1, b, ended)
  BY DEF RelayChat
<1>3. CASE active' /\ sentDone' = ended /\ UNCHANGED <<pend, head, headOpen, held>>
  BY <1>1, <1>3 DEF Buffers
<1>4. CASE ~active' /\ toolGate /\ ~toolCalls' /\ Hold(fed + 1, b, shown, ended)
  BY <1>1, <1>4 DEF Holds
<1>5. CASE ~active' /\ (~toolGate \/ toolCalls') /\ Forward(fed + 1, b, ended)
  BY <1>1, <1>5 DEF Forwards
<1> QED
  BY <1>1, <1>2, <1>3, <1>4, <1>5

\* The chunk as it is held back.
LEMMA HeldChunkType ==
  ASSUME TInv, NEW b, NEW shown, ReadOf(b, shown), NEW opens \in Opens(fed + 1, b)
  PROVE  [data  |-> Parsed(fed + 1, b),
          opens |-> opens \/ Says("done", shown),
          ends  |-> Says("done", shown)] \in Chunks
<1>1. Parsed(fed + 1, b) \in Seq(Token)
  <2>1. body \in Streams /\ fed + 1 \in Nat \ {0} /\ b \in Nat /\ fed + 1 <= b
    BY DEF TInv, TypeOK, ReadOf
  <2> QED
    BY <2>1, ParsedType
<1> QED
  BY <1>1, SaysType DEF Chunks

\* Everything that a Forward does.
LEMMA ForwardIs ==
  ASSUME TInv, NEW b, NEW shown, ReadOf(b, shown),
         NEW ended \in BOOLEAN, Forward(fed + 1, b, ended)
  PROVE  \E r \in Sinks :
            /\ Put(r) /\ held' = <<>>
            /\ Line(r) = (head \o H) \o Parsed(fed + 1, b)
            /\ r.ended <=> ended \/ \E k \in DOMAIN held : held[k].ends
            /\ r.open => headOpen /\ r.pend = <<>>
            /\ ~r.open => \/ ~headOpen \/ (\E k \in DOMAIN held : held[k].opens)
                          \/ r.ended \/ TRUE \in Opens(fed + 1, b)
<1>c. PICK c \in Opens(fed + 1, b) :
            LET s == EmitHeld([Sink EXCEPT !.ended = ended], held)
                t == IF held # <<>> /\ s.ended THEN FlushHead(s) ELSE s
            IN  Put(Emit(t, Parsed(fed + 1, b), t.ended \/ c)) /\ held' = <<>>
  BY DEF Forward
<1> DEFINE s0 == [Sink EXCEPT !.ended = ended]
           s == EmitHeld(s0, held)
           t == IF held # <<>> /\ s.ended THEN FlushHead(s) ELSE s
           d == Parsed(fed + 1, b)
           r == Emit(t, d, t.ended \/ c)
<1>1. s0 = [head |-> head, open |-> headOpen, pend |-> pend, ended |-> ended]
  BY DEF Sink
<1>2. /\ head \in Seq(Token) /\ headOpen \in BOOLEAN /\ pend \in Seq(Seq(Token))
      /\ headOpen \/ head = <<>>
  BY DEF TInv, TypeOK, Frame
<1>h. held \in Seq(Chunks) /\ pend = <<>>
  BY DEF TInv, TypeOK, ReadOf, Chunks
<1>3. s0 \in Sinks
  BY <1>1, <1>2, SinkType
<1>4. Line(s0) = head
  <2>1. FlattenSeq(pend) = <<>>
    BY <1>h DEF FlattenSeq
  <2> QED
    BY <1>1, <1>2, <2>1, ConcatEmptySeq DEF Line
<1>5. d \in Seq(Token) /\ c \in BOOLEAN
  <2>1. body \in Streams /\ fed + 1 \in Nat \ {0} /\ b \in Nat /\ fed + 1 <= b
    BY DEF TInv, TypeOK, ReadOf
  <2> QED
    BY <2>1, ParsedType, SaysType
<1>6. Put(r) /\ held' = <<>>
  BY <1>c
<1> HIDE DEF s0, d
<1>7. /\ r \in Sinks
      /\ Line(r) = (Line(s0) \o Carried(held)) \o d
      /\ r.ended <=> s0.ended \/ \E k \in DOMAIN held : held[k].ends
      /\ r.open => s0.open /\ r.pend = s0.pend
      /\ ~r.open => ~s0.open \/ (\E k \in DOMAIN held : held[k].opens) \/ r.ended \/ c
  BY <1>h, <1>3, <1>5, ForwardFacts
<1> HIDE DEF r
<1>8. s0.open = headOpen /\ s0.pend = <<>> /\ s0.ended = ended
  BY <1>1, <1>h
<1>9. /\ Put(r) /\ held' = <<>>
      /\ Line(r) = (head \o H) \o Parsed(fed + 1, b)
      /\ r.ended <=> ended \/ \E k \in DOMAIN held : held[k].ends
      /\ r.open => headOpen /\ r.pend = <<>>
      /\ ~r.open => \/ ~headOpen \/ (\E k \in DOMAIN held : held[k].opens)
                    \/ r.ended \/ TRUE \in Opens(fed + 1, b)
  BY <1>4, <1>5, <1>6, <1>7, <1>8 DEF H, d
<1> QED
  BY <1>7, <1>9

\* The parts of the invariant, so that a step proves those it touches.
Fixed == body \in Streams /\ adapter \in Adapters /\ loud \subseteq Events /\ toolGate \in BOOLEAN
Stores ==
    /\ head \in Seq(Token) /\ headOpen \in BOOLEAN /\ (headOpen \/ head = <<>>)
    /\ held \in Seq(Chunks) /\ (held # <<>> => toolGate)
    /\ adapter = "none" => held = <<>> /\ head = <<>>
    /\ sentDone \in BOOLEAN
Buffer == buf \in Seq(Token) /\ active \in BOOLEAN /\ (buf # <<>> => active)
Notes  == text \subseteq Events /\ toolCalls \in BOOLEAN /\ fed \in 0..(2 * Len(body))
Written == out \in Seq(Token) /\ pend \in Seq(Seq(Token)) /\ written \in BOOLEAN
           /\ code \in {200, 502, 503} /\ lineStart \in BOOLEAN
Ticks  == /\ pinger \in {"none", "idle", "writing", "gone"} /\ pings \in 0..MaxPings
          /\ pinger = "writing" => pings < MaxPings
Phase  == /\ pc \in {"first", "read", "closing", "failing", "direct", "gone"}
          /\ log \in {"none", "ok", "error"}
          /\ pc = "first" => fed = 0 /\ pend = <<>> /\ out = <<>> /\ head = <<>> /\ held = <<>>
                             /\ buf = <<>> /\ pinger = "none"
          /\ pc \in {"failing", "direct", "gone"} => pend = <<>>

\* The typed invariant is its parts, in a state
LEMMA TInvIs ==
  TInv <=> Fixed /\ Stores /\ Buffer /\ Notes /\ Written /\ Ticks /\ Phase
BY DEF TInv, TypeOK, Frame, Fixed, Stores, Buffer, Notes, Written, Ticks, Phase, Chunks

\* and in the next one.
LEMMA TInvIsNext ==
  TInv' <=> Fixed' /\ Stores' /\ Buffer' /\ Notes' /\ Written' /\ Ticks' /\ Phase'
BY DEF TInv, TypeOK, Frame, Fixed, Stores, Buffer, Notes, Written, Ticks, Phase, Chunks, Events

\* One-token chunks.
LEMMA SomeToken == \A k \in {"blank", "ping", "fix", "done", "event", "body"} :
                      /\ <<<<k, 0>>>> \in Seq(Token)
                      /\ \A s \in Seq(Token) : Append(s, <<k, 0>>) \in Seq(Token)
<1> SUFFICES ASSUME NEW k \in {"blank", "ping", "fix", "done", "event", "body"}
             PROVE  /\ <<<<k, 0>>>> \in Seq(Token)
                    /\ \A s \in Seq(Token) : Append(s, <<k, 0>>) \in Seq(Token)
  OBVIOUS
<1> DEFINE x == <<k, 0>>
<1>1. x \in Token
  BY TokenKinds
<1> HIDE DEF x
<1>2. <<x>> \in Seq(Token) /\ \A s \in Seq(Token) : Append(s, x) \in Seq(Token)
  BY <1>1, AppendProperties
<1> QED
  BY <1>2 DEF x

\* A Read keeps the types.
LEMMA TInvRead ==
  ASSUME TInv, NEW b \in 1..(2 * Len(body)), Read(b)
  PROVE  TInv'
<1>1. PICK shown : /\ ReadOf(b, shown)
                   /\ \/ RelayRaw(fed + 1, b, shown)
                      \/ UpstreamFails(fed + 1, b, shown)
                      \/ RelayChat(fed + 1, b, shown)
  BY ReadIs
<1>2. Fixed /\ Stores /\ Buffer /\ Notes /\ Written /\ Ticks /\ Phase
  BY TInvIs
<1>3. /\ Fixed' /\ Ticks' /\ log' \in {"none", "ok", "error"}
      /\ fed' \in 0..(2 * Len(body')) /\ Events' = Events
      /\ Len(body) \in Nat
  BY <1>1, <1>2, BodyFacts DEF Fixed, Ticks, Phase, ReadOf, Events
<1>4. /\ Run(fed + 1, b) \in Seq(Token) /\ Parsed(fed + 1, b) \in Seq(Token)
  <2>1. body \in Streams /\ fed + 1 \in Nat \ {0} /\ b \in Nat /\ fed + 1 <= b /\ fed + 1 <= b + 1
    BY <1>1, <1>2 DEF Fixed, ReadOf
  <2> QED
    BY <2>1, ParsedType, RunFacts
<1>5. buf \o Run(fed + 1, b) \in Seq(Token)
  BY <1>2, <1>4, ConcatProperties DEF Buffer
<1>6. Heard(fed + 1, b, shown) \subseteq Events
  BY <1>2 DEF Heard, Are, Notes, Whole
<1>7. CASE RelayRaw(fed + 1, b, shown)
  <2>1. /\ adapter = "none"
        /\ Buffers(b) \/ Relays(b)
        /\ active' = (active \/ Are(Responses, shown) # {})
        /\ UNCHANGED <<sentDone, toolCalls, text>>
    BY <1>7, RawIs
  <2>2. Append(pend, Run(fed + 1, b)) \in Seq(Seq(Token))
    BY <1>2, <1>4, AppendProperties DEF Written
  <2>3. UNCHANGED <<head, headOpen, held, sentDone>> /\ pc' = "read"
    BY <2>1 DEF Buffers, Relays
  <2>4. Stores'
    BY <1>1, <1>2, <2>3 DEF Stores, ReadOf
  <2>5. Buffer'
    BY <1>2, <1>5, <2>1 DEF Buffer, Buffers, Relays
  <2>6. Written'
    BY <1>1, <1>2, <2>1, <2>2, ZenonT(40) DEF Written, Buffers, Relays, ReadOf, client
  <2>7. Phase'
    BY <1>3, <2>3 DEF Phase
  <2>8. Notes'
    BY <1>2, <1>3, <2>1 DEF Notes
  <2> QED
    BY <1>3, <2>4, <2>5, <2>6, <2>7, <2>8, TInvIsNext
<1>8. CASE UpstreamFails(fed + 1, b, shown)
  <2>1. /\ UNCHANGED <<pend, head, headOpen, held, toolCalls, active, buf>>
        /\ sentDone' \in BOOLEAN /\ text' = Heard(fed + 1, b, shown) /\ pc' = "failing"
    BY <1>2, <1>8 DEF UpstreamFails, Stores
  <2>2. Stores'
    BY <1>1, <1>2, <2>1 DEF Stores, ReadOf
  <2>3. Buffer' /\ Notes'
    BY <1>2, <1>3, <1>6, <2>1 DEF Buffer, Notes
  <2>4. Written' /\ Phase'
    BY <1>1, <1>2, <1>3, <2>1 DEF Written, Phase, ReadOf, client
  <2> QED
    BY <1>3, <2>2, <2>3, <2>4, TInvIsNext
<1>9. CASE RelayChat(fed + 1, b, shown)
  <2> DEFINE ended == sentDone \/ Are({"done"}, shown) # {}
  <2>0. ended \in BOOLEAN
    OBVIOUS
  <2>1. /\ adapter # "none"
        /\ \/ Buffers(b) /\ sentDone' = ended
           \/ Holds(b, shown, ended)
           \/ Forwards(b, shown, ended)
        /\ active' = (active \/ Are(Responses, shown) # {})
        /\ toolCalls' = (toolCalls \/ (~active' /\ Says("tool", shown)))
        /\ text' = Heard(fed + 1, b, shown)
    BY <1>9, ChatIs
  <2> HIDE DEF ended
  <2>2. pc' = "read"
    BY <2>1 DEF Buffers, Holds, Forwards
  <2>3. Notes' /\ Phase'
    <3>1. toolCalls' \in BOOLEAN
      BY <1>2, <2>1 DEF Notes
    <3> QED
      BY <1>3, <1>6, <2>1, <2>2, <3>1 DEF Notes, Phase
  <2>4. Buffer'
    BY <1>2, <1>5, <2>1 DEF Buffer, Buffers, Holds, Forwards
  <2>5. Stores' /\ pend' \in Seq(Seq(Token))
    <3>1. CASE Buffers(b) /\ sentDone' = ended
      BY <1>1, <1>2, <2>0, <3>1 DEF Stores, Buffers, Written, ReadOf
    <3>2. CASE Holds(b, shown, ended)
      <4>0. PICK opens \in Opens(fed + 1, b) :
                 held' = Append(held, [data  |-> Parsed(fed + 1, b),
                                       opens |-> opens \/ Says("done", shown),
                                       ends  |-> Says("done", shown)])
        BY <3>2 DEF Holds, Hold
      <4> DEFINE c == [data  |-> Parsed(fed + 1, b),
                       opens |-> opens \/ Says("done", shown),
                       ends  |-> Says("done", shown)]
      <4>1. c \in Chunks
        BY <1>1, HeldChunkType
      <4>2. /\ held' = Append(held, c) /\ sentDone' = ended /\ toolGate
            /\ UNCHANGED <<pend, head, headOpen>>
        BY <3>2, <4>0 DEF Holds, Hold
      <4> HIDE DEF c
      <4>3. held' \in Seq(Chunks)
        BY <1>2, <4>1, <4>2, AppendProperties DEF Stores
      <4> QED
        BY <1>1, <1>2, <2>0, <2>1, <4>2, <4>3 DEF Stores, Written, ReadOf
    <3>3. CASE Forwards(b, shown, ended)
      <4>1. Forward(fed + 1, b, ended)
        BY <3>3 DEF Forwards
      <4>2. PICK r \in Sinks : Put(r) /\ held' = <<>>
        BY <1>1, <2>0, <4>1, ForwardIs
      <4>3. PutFacts(r)
        BY <4>2, PutType
      <4>4. <<>> \in Seq(Chunks)
        BY EmptySeq
      <4> QED
        BY <1>1, <1>2, <2>1, <4>2, <4>3, <4>4 DEF Stores, PutFacts, ReadOf
    <3> QED
      BY <2>1, <3>1, <3>2, <3>3
  <2>6. Written'
    BY <1>1, <1>2, <2>5 DEF Written, ReadOf, client
  <2> QED
    BY <1>3, <2>3, <2>4, <2>5, <2>6, TInvIsNext
<1> QED
  BY <1>1, <1>7, <1>8, <1>9

\* The end of the body without failure or leak.
LEMMA EndPlainIs ==
  ASSUME TInv, EndPlain, pc = "read", pend = <<>>,
         UNCHANGED <<reading, toolCalls, text, active, buf, client, keepalive>>
  PROVE  /\ pc' = "closing" /\ held' = <<>> /\ head' = <<>> /\ headOpen' \in BOOLEAN
         /\ log' = log
         /\ pend' \in Seq(Seq(Token))
         /\ sentDone' = (sentDone \/ \E k \in DOMAIN held : held[k].ends)
         /\ \/ FlattenSeq(pend') = (head \o H) \o buf
               /\ (adapter = "none" \/ sentDone')
            \/ FlattenSeq(pend') = ((head \o H) \o buf) \o <<<<"done", 0>>>>
<1> DEFINE e == EmitHeld(Sink, held)
           s == IF adapter = "none" THEN Sink ELSE FlushHead(e)
           p == IF active THEN Append(s.pend, buf) ELSE s.pend
           d == <<<<"done", 0>>>>
           q == IF adapter = "none" \/ s.ended THEN p ELSE Append(p, d)
<1>1. /\ Put([s EXCEPT !.pend = q]) /\ held' = <<>> /\ pc' = "closing" /\ log' = log
  BY DEF EndPlain
<1>2. Fixed /\ Stores /\ Buffer /\ Notes /\ Written /\ Ticks /\ Phase
  BY TInvIs
<1>3. Sink \in Sinks /\ held \in Seq(Chunks) /\ H \in Seq(Token)
  BY TypedState
<1>4. Line(Sink) = head
  <2>1. FlattenSeq(pend) = <<>> /\ head \in Seq(Token)
    BY <1>2 DEF FlattenSeq, Stores
  <2> QED
    BY <2>1, TypedState, ConcatEmptySeq
<1>5. Emptied(Sink, held, e)
  BY <1>3, EmitHeldFacts
<1>6. /\ e \in Sinks /\ Line(e) = head \o H
      /\ e.ended = (sentDone \/ \E k \in DOMAIN held : held[k].ends)
  <2>1. Sink.ended = sentDone
    BY DEF Sink
  <2>2. e.ended \in BOOLEAN
    BY <1>5, SinkFields DEF Emptied
  <2> QED
    BY <1>4, <1>5, <2>1, <2>2 DEF Emptied, H
<1> HIDE DEF e
<1>7. /\ s \in Sinks /\ s.head = <<>> /\ Line(s) = head \o H
      /\ s.ended = (sentDone \/ \E k \in DOMAIN held : held[k].ends)
  <2>1. CASE adapter = "none"
    <3>1. held = <<>> /\ head = <<>> /\ sentDone \in BOOLEAN
      BY <1>2, <2>1 DEF Stores
    <3>2. H = <<>>
      BY <1>3, <3>1, CarriedFacts DEF H
    <3>3. head \o H = head
      BY <3>1, <3>2
    <3>4. s = Sink /\ Sink.head = head /\ Sink.ended = sentDone
      BY <2>1 DEF Sink
    <3> QED
      BY <1>3, <1>4, <3>1, <3>3, <3>4
  <2>2. CASE adapter # "none"
    BY <1>6, <2>2, FlushHeadFacts
  <2> QED
    BY <2>1, <2>2
<1> HIDE DEF s
<1>8. /\ s.pend \in Seq(Seq(Token)) /\ s.open \in BOOLEAN /\ s.ended \in BOOLEAN
      /\ s = [head |-> s.head, open |-> s.open, pend |-> s.pend, ended |-> s.ended]
  BY <1>7, SinkFields
<1>9. FlattenSeq(s.pend) = head \o H
  <2>1. FlattenSeq(s.pend) \in Seq(Token)
    BY <1>8, FlattenType
  <2> QED
    BY <1>7, <2>1, ConcatEmptySeq DEF Line
<1>10. p \in Seq(Seq(Token)) /\ FlattenSeq(p) = (head \o H) \o buf
  <2>1. CASE active
    <3>1. p = Append(s.pend, buf) /\ buf \in Seq(Token)
      BY <1>2, <2>1 DEF Buffer
    <3>2. \A u \in Seq(Seq(Token)) : /\ Append(u, buf) \in Seq(Seq(Token))
                                   /\ FlattenSeq(Append(u, buf)) = FlattenSeq(u) \o buf
      BY <3>1, AppendProperties, FlattenAppend
    <3> HIDE DEF p
    <3> QED
      BY <1>8, <1>9, <3>1, <3>2
  <2>2. CASE ~active
    <3>1. buf = <<>> /\ p = s.pend /\ head \o H \in Seq(Token)
      BY <1>2, <1>3, <2>2, ConcatProperties DEF Buffer, Stores
    <3> QED
      BY <1>8, <1>9, <3>1, ConcatEmptySeq
  <2> QED
    BY <2>1, <2>2
<1> HIDE DEF p
<1>11. d \in Seq(Token)
  BY SomeToken
<1>12. /\ q \in Seq(Seq(Token))
       /\ \/ q = p /\ (adapter = "none" \/ s.ended)
          \/ FlattenSeq(q) = FlattenSeq(p) \o d
  BY <1>10, <1>11, AppendProperties, FlattenAppend
<1> HIDE DEF q
<1>13. [s EXCEPT !.pend = q] = [head |-> s.head, open |-> s.open, pend |-> q, ended |-> s.ended]
  BY <1>8
<1>14. pend' = q /\ head' = s.head /\ headOpen' = s.open /\ sentDone' = s.ended
  BY <1>1, <1>13 DEF Put
<1> QED
  BY <1>1, <1>7, <1>8, <1>10, <1>12, <1>14

\* So does the end of the body.
LEMMA TInvEndOfBody ==
  ASSUME TInv, EndOfBody
  PROVE  TInv'
<1>1. /\ pc = "read" /\ pend = <<>>
      /\ EndFailed \/ EndLeaked \/ EndPlain
      /\ UNCHANGED <<reading, toolCalls, text, active, buf, client, keepalive>>
  BY DEF EndOfBody
<1>2. Fixed /\ Stores /\ Buffer /\ Notes /\ Written /\ Ticks /\ Phase
  BY TInvIs
<1>3. Fixed' /\ Buffer' /\ Notes' /\ Ticks'
  BY <1>1, <1>2 DEF Fixed, Buffer, Notes, Ticks, Events, reading, client, keepalive
<1>4. Stores' /\ pend' \in Seq(Seq(Token))
  <2>1. CASE EndFailed
    <3> DEFINE x == <<<<"event", 0>>>>
    <3>1. x \in Seq(Token)
      BY SomeToken
    <3>2. UNCHANGED <<head, headOpen, held, sentDone>> /\ (pend' = <<x>> \/ pend' = pend)
      BY <2>1 DEF EndFailed
    <3> HIDE DEF x
    <3>3. <<x>> \in Seq(Seq(Token)) /\ pend \in Seq(Seq(Token))
      BY <1>2, <3>1 DEF Written
    <3>4. UNCHANGED <<reading, head, headOpen, held, sentDone>>
      BY <1>1, <3>2
    <3>5. pend' \in Seq(Seq(Token))
      <4>1. CASE pend' = <<x>>
        BY <3>3, <4>1
      <4>2. CASE pend' = pend
        BY <3>3, <4>2
      <4> QED
        BY <3>2, <4>1, <4>2
    <3>6. Stores'
      BY <1>2, <3>4 DEF Stores, reading
    <3> QED
      BY <3>5, <3>6
  <2>2. CASE EndLeaked
    <3> DEFINE x == <<<<"fix", 0>>>>
               y == <<<<"done", 0>>>>
    <3>1. x \in Seq(Token) /\ y \in Seq(Token)
      BY SomeToken
    <3>2. UNCHANGED <<head, headOpen, held, sentDone>> /\ pend' = <<x, y>>
      BY <2>2 DEF EndLeaked
    <3> HIDE DEF x, y
    <3>3. <<x, y>> \in Seq(Seq(Token))
      BY <3>1
    <3>4. UNCHANGED <<reading, head, headOpen, held, sentDone>>
      BY <1>1, <3>2
    <3> QED
      BY <1>2, <3>2, <3>3, <3>4 DEF Stores, reading
  <2>3. CASE EndPlain
    <3>1. /\ held' = <<>> /\ head' = <<>> /\ headOpen' \in BOOLEAN
          /\ pend' \in Seq(Seq(Token))
          /\ sentDone' = (sentDone \/ \E k \in DOMAIN held : held[k].ends)
      <4>1. /\ pc = "read" /\ pend = <<>>
            /\ UNCHANGED <<reading, toolCalls, text, active, buf, client, keepalive>>
        BY <1>1
      <4> QED
        BY <2>3, <4>1, EndPlainIs
    <3>2. <<>> \in Seq(Chunks) /\ <<>> \in Seq(Token)
      BY EmptySeq
    <3> QED
      BY <1>2, <3>1, <3>2 DEF Stores
  <2> QED
    BY <1>1, <2>1, <2>2, <2>3
<1>5. Written'
  BY <1>1, <1>2, <1>4 DEF Written, client
<1>6. Phase'
  BY <1>1, <1>2 DEF Phase, EndFailed, EndLeaked, EndPlain
<1> QED
  BY <1>3, <1>4, <1>5, <1>6, TInvIsNext

\* A Write moves the first pending chunk to the client, and no token out of place.
LEMMA WriteIs ==
  ASSUME TInv, Write
  PROVE  /\ Head(pend) \in Seq(Token) /\ pend' \in Seq(Seq(Token)) /\ out' \in Seq(Token)
         /\ out' = out \o Head(pend)
         /\ FlattenSeq(pend) = Head(pend) \o FlattenSeq(pend')
         /\ W' = W
<1>1. /\ pend # <<>> /\ pend' = Tail(pend) /\ out' = out \o Head(pend)
      /\ pend \in Seq(Seq(Token)) /\ out \in Seq(Token)
  BY DEF Write, TInv, TypeOK
<1> DEFINE h == Head(pend)
           t == Tail(pend)
<1>2. h \in Seq(Token) /\ t \in Seq(Seq(Token)) /\ pend = <<h>> \o t
  <2>1. h \in Seq(Token) /\ t \in Seq(Seq(Token))
    BY <1>1, HeadTailProperties
  <2>2. pend = <<h>> \o t
    BY <1>1
  <2> QED
    BY <2>1, <2>2
<1> HIDE DEF h, t
<1>3. FlattenSeq(<<h>>) = h
  <2>1. <<>> \in Seq(Seq(Token)) /\ FlattenSeq(<<>>) = <<>> /\ <<h>> = Append(<<>>, h)
    BY EmptySeq DEF FlattenSeq
  <2>2. FlattenSeq(Append(<<>>, h)) = FlattenSeq(<<>>) \o h
    BY <1>2, <2>1, FlattenAppend
  <2> QED
    BY <1>2, <2>1, <2>2, ConcatEmptySeq
<1>4. FlattenSeq(pend) = h \o FlattenSeq(t)
  <2> DEFINE e == <<h>>
  <2>1. e \in Seq(Seq(Token))
    BY <1>2
  <2> HIDE DEF e
  <2>2. FlattenSeq(e \o t) = FlattenSeq(e) \o FlattenSeq(t)
    BY <1>2, <2>1, FlattenConcat
  <2> QED
    BY <1>2, <1>3, <2>2 DEF e
<1>5. FlattenSeq(t) \in Seq(Token)
  BY <1>2, FlattenType
<1>6. (out \o h) \o FlattenSeq(t) = out \o (h \o FlattenSeq(t))
  BY <1>1, <1>2, <1>5, Assoc
<1>7. out' \in Seq(Token)
  BY <1>1, <1>2, ConcatProperties DEF h
<1>8. pend' = t /\ out' = out \o h
  BY <1>1 DEF h, t
<1>9. W' = (out \o h) \o FlattenSeq(t)
  BY <1>8 DEF W
<1>10. W' = W
  BY <1>4, <1>6, <1>9 DEF W
<1> QED
  BY <1>2, <1>4, <1>7, <1>8, <1>10 DEF h

\* It keeps the types.
LEMMA TInvWrite ==
  ASSUME TInv, Write
  PROVE  TInv'
<1>1. Fixed /\ Stores /\ Buffer /\ Notes /\ Written /\ Ticks /\ Phase
  BY TInvIs
<1>2. /\ UNCHANGED <<reading, pc, head, headOpen, held, sentDone, toolCalls, text, active, buf,
                     code, keepalive, log>>
      /\ pend # <<>> /\ written' = TRUE
      /\ lineStart' = IF Head(pend) = <<>> THEN lineStart ELSE EndsLine(Last(Head(pend)))
  BY DEF Write
<1>3. Fixed' /\ Stores' /\ Buffer' /\ Notes' /\ Ticks'
  BY <1>1, <1>2 DEF Fixed, Stores, Buffer, Notes, Ticks, Events, reading, keepalive
<1>4. Written'
  <2>1. pend' \in Seq(Seq(Token)) /\ out' \in Seq(Token)
    BY WriteIs
  <2>2. lineStart' \in BOOLEAN
    BY <1>1, <1>2 DEF Written, EndsLine
  <2> QED
    BY <1>1, <1>2, <2>1, <2>2 DEF Written
<1>5. Phase'
  BY <1>1, <1>2 DEF Phase
<1> QED
  BY <1>3, <1>4, <1>5, TInvIsNext

\* Every step does.
LEMMA TInvNext == TInv /\ [Next]_vars => TInv'
<1> SUFFICES ASSUME TInv, [Next]_vars PROVE TInv'
  OBVIOUS
<1>1. Fixed /\ Stores /\ Buffer /\ Notes /\ Written /\ Ticks /\ Phase
  BY TInvIs
<1>2. /\ Append(out, <<"body", 0>>) \in Seq(Token) /\ Append(out, <<"ping", 0>>) \in Seq(Token)
  BY <1>1, SomeToken DEF Written
<1>3. MaxPings \in Nat
  BY StreamsAssumption
<1>4. CASE EmptyBody
  <2>1. Fixed' /\ Stores' /\ Buffer' /\ Notes' /\ Ticks' /\ Phase'
    BY <1>1, <1>4 DEF EmptyBody, Fixed, Stores, Buffer, Notes, Ticks, Phase, Events, reading,
       sorting, keepalive
  <2>2. Written'
    BY <1>1, <1>2, <1>4 DEF EmptyBody, Written, sorting
  <2> QED
    BY <2>1, <2>2, TInvIsNext
<1>5. CASE Write
  BY <1>5, TInvWrite
<1>6. CASE EndOfBody
  BY <1>6, TInvEndOfBody
<1>7. CASE DirectBegin
  <2>1. Fixed' /\ Stores' /\ Buffer' /\ Notes' /\ Ticks' /\ Phase' /\ Written'
    BY <1>1, <1>7 DEF DirectBegin, Fixed, Stores, Buffer, Notes, Ticks, Phase, Events, reading,
       sorting, keepalive, Written
  <2> QED
    BY <2>1, TInvIsNext
<1>8. CASE DirectEnd
  <2>1. Fixed' /\ Stores' /\ Buffer' /\ Notes' /\ Ticks' /\ Phase'
    BY <1>1, <1>8 DEF DirectEnd, Fixed, Stores, Buffer, Notes, Ticks, Phase, Events, reading,
       sorting, keepalive
  <2>2. Written'
    BY <1>1, <1>2, <1>8 DEF DirectEnd, Written, sorting
  <2> QED
    BY <2>1, <2>2, TInvIsNext
<1>9. CASE Return
  <2>1. Fixed' /\ Stores' /\ Buffer' /\ Notes' /\ Ticks' /\ Phase' /\ Written'
    BY <1>1, <1>9 DEF Return, Fixed, Stores, Buffer, Notes, Ticks, Phase, Events, reading,
       sorting, keepalive, Written, client
  <2> QED
    BY <2>1, TInvIsNext
<1>10. ASSUME NEW b \in 1..(2 * Len(body)), Read(b) PROVE TInv'
  BY <1>10, TInvRead
<1>11. CASE PingBegin \/ PingerExit
  <2>0. /\ pc # "first" /\ UNCHANGED <<reading, pc, sorting, client, pings, log>>
        /\ pinger' \in {"writing", "gone"} /\ (pinger' = "writing" => pings < MaxPings)
    BY <1>1, <1>11 DEF PingBegin, PingerExit, Phase
  <2>1. Fixed' /\ Stores' /\ Buffer' /\ Notes' /\ Ticks' /\ Phase' /\ Written'
    BY <1>1, <2>0 DEF Fixed, Stores, Buffer, Notes, Ticks, Phase, Events,
       reading, sorting, client, Written
  <2> QED
    BY <2>1, TInvIsNext
<1>12. CASE PingEnd
  <2>0. pc # "first"
    BY <1>1, <1>12 DEF PingEnd, Phase
  <2>1. Fixed' /\ Stores' /\ Buffer' /\ Notes' /\ Phase'
    BY <1>1, <1>12, <2>0 DEF PingEnd, Fixed, Stores, Buffer, Notes, Phase, Events, reading, sorting
  <2>2. Ticks' /\ Written'
    BY <1>1, <1>2, <1>3, <1>12 DEF PingEnd, Ticks, Written, sorting
  <2> QED
    BY <2>1, <2>2, TInvIsNext
<1>13. CASE Over \/ UNCHANGED vars
  <2>1. UNCHANGED vars
    BY <1>13 DEF Over
  <2>2. Fixed' /\ Stores' /\ Buffer' /\ Notes' /\ Ticks' /\ Phase' /\ Written'
    BY <1>1, <2>1 DEF vars, Fixed, Stores, Buffer, Notes, Ticks, Phase, Events, reading, sorting,
       client, keepalive, Written
  <2> QED
    BY <2>2, TInvIsNext
<1> QED
  BY <1>4, <1>5, <1>6, <1>7, <1>8, <1>9, <1>10, <1>11, <1>12, <1>13 DEF Next, Handler, Pinger

-----------------------------------------------------------------------------
(* Contents.                                                                *)

\* Tokens of the stream; a sequence of them only, with one that forces the header out, or with
\* a "[DONE]"; a kind of token that was written or is pending.
Streamed == {"data", "conv", "blank"}
Pure(s)    == \A tok \in ToSet(s) : tok[1] \in Streamed
Forced(s)  == \E tok \in ToSet(s) : Forcing(tok)
HasDone(s) == \E tok \in ToSet(s) : \/ tok[1] = "done"
                                    \/ tok[1] = "data" /\ Kind(tok[2]) = "done"
Shown(k)   == \E tok \in ToSet(W) : tok[1] = k

\* Both halves of an event have its kind.
LEMMA KindOfHalf ==
  ASSUME NEW i \in Nat \ {0}, NEW n \in {FrontOf(i), BackOf(i)}
  PROVE  Kind(n) = body[i] /\ (n + 1) \div 2 = i
<1>1. CASE n = 2 * i - 1
  <2>1. (n + 1) \div 2 = i
    BY <1>1
  <2> QED
    BY <2>1 DEF Kind
<1>2. CASE n = 2 * i
  <2>1. (n + 1) \div 2 = i
    BY <1>2
  <2> QED
    BY <2>1 DEF Kind
<1> QED
  BY <1>1, <1>2 DEF FrontOf, BackOf

\* A run holds data, all of its halves.
LEMMA RunTokens ==
  ASSUME NEW a \in Nat \ {0}, NEW b \in Nat, a <= b
  PROVE  /\ Pure(Run(a, b))
         /\ \A n \in a..b : <<"data", n>> \in ToSet(Run(a, b))
<1> DEFINE r == Run(a, b)
<1>1. /\ r \in Seq(Token) /\ Len(r) = b - a + 1
      /\ \A k \in 1..(b - a + 1) : r[k] = <<"data", a + k - 1>>
  <2>1. a <= b + 1
    OBVIOUS
  <2> QED
    BY <2>1, RunFacts
<1> HIDE DEF r
<1>2. DOMAIN r = 1..(b - a + 1)
  BY <1>1, LenProperties
<1>3. Pure(r)
  BY <1>1, <1>2 DEF Pure, ToSet, Streamed
<1>4. ASSUME NEW n \in a..b PROVE <<"data", n>> \in ToSet(r)
  <2>1. n - a + 1 \in 1..(b - a + 1) /\ a + (n - a + 1) - 1 = n
    OBVIOUS
  <2>2. r[n - a + 1] = <<"data", n>>
    BY <1>1, <2>1
  <2> QED
    BY <1>2, <2>1, <2>2 DEF ToSet
<1> QED
  BY <1>3, <1>4 DEF r

\* The chunk as forwarded has the tokens its flags speak of.
LEMMA ParsedTokens ==
  ASSUME TInv, NEW b, NEW shown, ReadOf(b, shown)
  PROVE  /\ Pure(Parsed(fed + 1, b)) /\ Pure(Run(fed + 1, b))
         /\ adapter # "none" /\ TRUE \in Opens(fed + 1, b) => Forced(Parsed(fed + 1, b))
         /\ adapter # "none" /\ Says("done", shown) => Forced(Parsed(fed + 1, b))
         /\ adapter = "none" => Forced(Run(fed + 1, b))
         /\ adapter = "openai" /\ Are({"done"}, shown) # {} =>
              /\ HasDone(Parsed(fed + 1, b))
              /\ HasDone(Run(fed + 1, b))
         /\ adapter = "openai" /\ Says("done", shown) => HasDone(Parsed(fed + 1, b))
         /\ Says("tool", shown) => Are({"tool"}, Events) # {}
         /\ Are(Responses, shown) # {} => Are(Responses, Events) # {}
<1> DEFINE a == fed + 1
<1>1. /\ body \in Streams /\ a \in Nat \ {0} /\ b \in Nat /\ a <= b
      /\ shown \in SUBSET Events /\ Whole(a, b) \subseteq shown
      /\ \A i \in shown : \E n \in {FrontOf(i), BackOf(i)} : n \in a..b
      /\ adapter \in {"openai", "converting", "none"}
  BY StreamsAssumption DEF TInv, TypeOK, ReadOf
<1>2. Events = 1..Len(body) /\ Len(body) \in Nat
  BY <1>1, BodyFacts
<1> HIDE DEF a
<1>3. /\ Pure(Run(a, b))
      /\ \A n \in a..b : <<"data", n>> \in ToSet(Run(a, b))
  BY <1>1, RunTokens
<1>4. /\ \A tok \in ToSet(Converted(a, b)) : tok[1] \in {"conv", "blank"}
      /\ \A i \in Whole(a, b) : body[i] \in {"head", "text", "leak"} =>
              <<"conv", i>> \in ToSet(Converted(a, b))
  BY <1>1, ConvertedType
<1>5. Pure(Parsed(a, b))
  BY <1>3, <1>4 DEF Parsed, Pure, Streamed
<1>6. ASSUME NEW K, NEW i \in Are(K, shown)
      PROVE  \E tok \in ToSet(Run(a, b)) : tok[1] = "data" /\ Kind(tok[2]) \in K
  <2>1. i \in Nat \ {0} /\ i \in shown /\ body[i] \in K
    BY <1>1, <1>2 DEF Are
  <2>2. PICK n \in {FrontOf(i), BackOf(i)} : n \in a..b
    BY <1>1, <2>1
  <2>3. Kind(n) \in K
    BY <2>1, KindOfHalf
  <2>4. <<"data", n>> \in ToSet(Run(a, b)) /\ <<"data", n>>[1] = "data" /\ <<"data", n>>[2] = n
    BY <1>3, <2>2
  <2> QED
    BY <2>3, <2>4
<1>7. ASSUME adapter # "none", TRUE \in Opens(a, b)
      PROVE  Forced(Parsed(a, b))
  <2>1. CASE adapter = "converting"
    <3>1. PICK i \in loud : i \in Whole(a, b) /\ body[i] \in {"head", "text", "leak"}
      BY <1>7, <2>1 DEF Opens, Are
    <3>2. <<"conv", i>> \in ToSet(Parsed(a, b))
      BY <1>4, <2>1, <3>1 DEF Parsed
    <3>3. Forcing(<<"conv", i>>)
      BY <3>1 DEF Forcing
    <3> QED
      BY <3>2, <3>3 DEF Forced
  <2>2. CASE adapter = "openai"
    <3>1. PICK seen \in SUBSET Torn(a, b) : loud \cap (Whole(a, b) \cup seen) # {}
      BY <1>7, <2>2 DEF Opens
    <3>2. PICK i \in loud : i \in Whole(a, b) \/ i \in Torn(a, b)
      BY <3>1
    <3>3. i \in Nat \ {0}
      BY <1>2, <3>2 DEF Whole, Torn
    <3>4. PICK n \in {FrontOf(i), BackOf(i)} : n \in a..b
      BY <1>1, <3>2 DEF Torn
    <3>5. (n + 1) \div 2 = i
      BY <3>3, KindOfHalf
    <3>6. <<"data", n>> \in ToSet(Run(a, b)) /\ Parsed(a, b) = Run(a, b)
      BY <1>3, <2>2, <3>4 DEF Parsed
    <3>7. Forcing(<<"data", n>>)
      BY <3>2, <3>5 DEF Forcing
    <3> QED
      BY <3>6, <3>7 DEF Forced
  <2> QED
    BY <1>1, <1>7, <2>1, <2>2
<1>7a. ASSUME adapter # "none", Says("done", shown)
       PROVE  Forced(Parsed(a, b))
  <2>1. adapter = "openai" /\ Are({"done"}, shown) # {}
    BY <1>1, <1>7a DEF Says
  <2>2. PICK tok \in ToSet(Run(a, b)) : tok[1] = "data" /\ Kind(tok[2]) \in {"done"}
    BY <1>6, <2>1
  <2>3. Forcing(tok) /\ Parsed(a, b) = Run(a, b)
    BY <2>1, <2>2 DEF Forcing, Parsed
  <2> QED
    BY <2>2, <2>3 DEF Forced
<1>8. ASSUME adapter = "none" PROVE Forced(Run(a, b))
  <2>1. a \in a..b
    BY <1>1
  <2>2. <<"data", a>> \in ToSet(Run(a, b))
    BY <1>3, <2>1
  <2>3. Forcing(<<"data", a>>)
    BY <1>8 DEF Forcing
  <2> QED
    BY <2>2, <2>3 DEF Forced
<1>9. ASSUME adapter = "openai", Are({"done"}, shown) # {}
      PROVE  HasDone(Parsed(a, b)) /\ HasDone(Run(a, b))
  <2>1. PICK tok \in ToSet(Run(a, b)) : tok[1] = "data" /\ Kind(tok[2]) \in {"done"}
    BY <1>6, <1>9
  <2>2. Parsed(a, b) = Run(a, b)
    BY <1>9 DEF Parsed
  <2> QED
    BY <2>1, <2>2 DEF HasDone
<1>10. adapter = "openai" /\ Says("done", shown) => Are({"done"}, shown) # {}
  BY DEF Says
<1>11. Says("tool", shown) => Are({"tool"}, Events) # {}
  BY <1>1 DEF Says, Are
<1>12. Are(Responses, shown) # {} => Are(Responses, Events) # {}
  BY <1>1 DEF Are
<1> QED
  BY <1>3, <1>5, <1>7, <1>7a, <1>8, <1>9, <1>10, <1>11, <1>12 DEF a

\* The predicates on a concatenation
LEMMA SetsOf ==
  ASSUME NEW s \in Seq(Token), NEW t \in Seq(Token)
  PROVE  /\ Pure(s \o t) <=> Pure(s) /\ Pure(t)
         /\ Forced(s \o t) <=> Forced(s) \/ Forced(t)
         /\ HasDone(s \o t) <=> HasDone(s) \/ HasDone(t)
<1>1. ToSet(s \o t) = ToSet(s) \cup ToSet(t)
  BY ToSetConcat
<1> QED
  BY <1>1 DEF Pure, Forced, HasDone

\* and on the empty sequence.
LEMMA SetsOfNone == Pure(<<>>) /\ ~Forced(<<>>) /\ ~HasDone(<<>>)
BY ToSetOne DEF Pure, Forced, HasDone

\* A chunk among the held ones lies in what they carry.
LEMMA CarriedTokens ==
  ASSUME NEW h \in Seq(Chunks), NEW k \in DOMAIN h
  PROVE  ToSet(h[k].data) \subseteq ToSet(Carried(h))
<1> DEFINE m == [j \in DOMAIN h |-> h[j].data]
<1>1. DOMAIN h = 1..Len(h) /\ Len(h) \in Nat /\ \A j \in 1..Len(h) : h[j] \in Chunks
  BY LenProperties, ElementOfSeq
<1>2. m \in Seq(Seq(Token))
  BY <1>1 DEF Chunks
<1>3. ToSet(FlattenSeq(m)) = UNION {ToSet(c) : c \in ToSet(m)}
  BY <1>2, ToSetFlatten
<1>4. h[k].data \in ToSet(m)
  <2>1. m[k] = h[k].data /\ k \in DOMAIN m
    OBVIOUS
  <2> HIDE DEF m
  <2> QED
    BY <2>1 DEF ToSet
<1> HIDE DEF m
<1>5. ToSet(h[k].data) \subseteq ToSet(FlattenSeq(m))
  BY <1>3, <1>4
<1> QED
  BY <1>5 DEF Carried, m

\* The four ways in which a chunk joins the stores.
LEMMA HoldsIs ==
  ASSUME TInv, NEW b, NEW shown, ReadOf(b, shown), NEW ended, Holds(b, shown, ended)
  PROVE  /\ H' = H \o Parsed(fed + 1, b) /\ W' = W
         /\ \E opens \in Opens(fed + 1, b) :
               held' = Append(held, [data  |-> Parsed(fed + 1, b),
                                     opens |-> opens \/ Says("done", shown),
                                     ends  |-> Says("done", shown)])
         /\ UNCHANGED <<pend, head, headOpen>> /\ sentDone' = ended
<1>0. PICK opens \in Opens(fed + 1, b) :
           held' = Append(held, [data  |-> Parsed(fed + 1, b),
                                 opens |-> opens \/ Says("done", shown),
                                 ends  |-> Says("done", shown)])
  BY DEF Holds, Hold
<1> DEFINE c == [data  |-> Parsed(fed + 1, b),
                 opens |-> opens \/ Says("done", shown),
                 ends  |-> Says("done", shown)]
<1>1. c \in Chunks /\ c.data = Parsed(fed + 1, b)
  BY HeldChunkType
<1>2. held' = Append(held, c) /\ UNCHANGED <<pend, head, headOpen>> /\ sentDone' = ended
  BY <1>0 DEF Holds, Hold
<1> HIDE DEF c
<1>3. held \in Seq(Chunks)
  BY TypedState
<1>4. Carried(Append(held, c)) = Carried(held) \o c.data
  BY <1>1, <1>3, CarriedFacts
<1>5. H' = H \o Parsed(fed + 1, b)
  BY <1>1, <1>2, <1>4 DEF H
<1>6. W' = W
  BY <1>2 DEF W, ReadOf, client
<1> QED
  BY <1>2, <1>5, <1>6 DEF c

\* Forwarded: it ends the line, behind all that was held.
LEMMA ForwardsIs ==
  ASSUME TInv, NEW b, NEW shown, ReadOf(b, shown), NEW ended \in BOOLEAN,
         Forwards(b, shown, ended)
  PROVE  /\ W' \in Seq(Token) /\ head' \in Seq(Token)
         /\ W' \o head' = ((W \o head) \o H) \o Parsed(fed + 1, b)
         /\ held' = <<>> /\ H' = <<>>
         /\ sentDone' = (ended \/ \E k \in DOMAIN held : held[k].ends)
         /\ headOpen' => headOpen /\ W' = W /\ pend' = <<>>
         /\ ~headOpen' => /\ head' = <<>>
                          /\ \/ ~headOpen \/ (\E k \in DOMAIN held : held[k].opens)
                             \/ sentDone' \/ TRUE \in Opens(fed + 1, b)
<1>0. Forward(fed + 1, b, ended)
  BY DEF Forwards
<1>1. PICK r \in Sinks :
            /\ Put(r) /\ held' = <<>>
            /\ Line(r) = (head \o H) \o Parsed(fed + 1, b)
            /\ r.ended <=> ended \/ \E k \in DOMAIN held : held[k].ends
            /\ r.open => headOpen /\ r.pend = <<>>
            /\ ~r.open => \/ ~headOpen \/ (\E k \in DOMAIN held : held[k].opens)
                          \/ r.ended \/ TRUE \in Opens(fed + 1, b)
  BY <1>0, ForwardIs
<1>2. PutFacts(r) /\ r.ended \in BOOLEAN /\ r.open \in BOOLEAN
  BY <1>1, PutType, SinkFields
<1>3. headOpen' = r.open /\ sentDone' = r.ended /\ pend' = r.pend
  BY <1>1 DEF Put
<1>4. /\ W \in Seq(Token) /\ H \in Seq(Token) /\ head \in Seq(Token) /\ out \in Seq(Token)
      /\ W = out /\ out' = out
  <2>1. FlattenSeq(pend) = <<>> /\ out' = out
    BY DEF ReadOf, FlattenSeq, client
  <2>2. /\ W \in Seq(Token) /\ H \in Seq(Token) /\ head \in Seq(Token) /\ out \in Seq(Token)
    BY TypedState DEF TInv, TypeOK
  <2> QED
    BY <2>1, <2>2, ConcatEmptySeq DEF W
<1>5. Parsed(fed + 1, b) \in Seq(Token)
  <2>1. body \in Streams /\ fed + 1 \in Nat \ {0} /\ b \in Nat /\ fed + 1 <= b
    BY DEF TInv, TypeOK, ReadOf
  <2> QED
    BY <2>1, ParsedType
<1>6. /\ FlattenSeq(pend') \in Seq(Token) /\ head' \in Seq(Token)
      /\ FlattenSeq(pend') \o head' = (head \o H) \o Parsed(fed + 1, b)
  BY <1>1, <1>2, FlattenType DEF PutFacts
<1>7. W' = out \o FlattenSeq(pend')
  BY <1>4 DEF W
<1>8. W' \in Seq(Token)
  BY <1>4, <1>6, <1>7, ConcatProperties
<1>9. W' \o head' = ((W \o head) \o H) \o Parsed(fed + 1, b)
  <2> DEFINE p == Parsed(fed + 1, b)
             f == FlattenSeq(pend')
  <2>1. p \in Seq(Token) /\ f \in Seq(Token) /\ f \o head' = (head \o H) \o p /\ W' = out \o f
    BY <1>5, <1>6, <1>7
  <2> HIDE DEF p, f
  <2>0. \A x, y, z \in Seq(Token) : (x \o y) \o z = x \o (y \o z)
    BY Assoc
  <2>2. (out \o f) \o head' = out \o (f \o head')
    BY <1>4, <1>6, <2>0, <2>1
  <2>3. head \o H \in Seq(Token)
    BY <1>4, ConcatProperties
  <2>4. out \o ((head \o H) \o p) = (out \o (head \o H)) \o p
    BY <1>4, <2>0, <2>1, <2>3, SMTT(40)
  <2>5. out \o (head \o H) = (out \o head) \o H
    BY <1>4, Assoc
  <2>6. W' \o head' = ((W \o head) \o H) \o p
    BY <1>4, <2>1, <2>2, <2>4, <2>5
  <2> QED
    BY <2>6 DEF p
<1>10. H' = <<>>
  BY <1>1, CarriedFacts, EmptySeq DEF H
<1>11. headOpen' => W' = W
  <2>1. FlattenSeq(<<>>) = <<>>
    BY DEF FlattenSeq
  <2> QED
    BY <1>1, <1>3, <1>4, <1>7, <2>1, ConcatEmptySeq
<1>12. ~headOpen' => head' = <<>>
  BY <1>2 DEF PutFacts
<1> QED
  BY <1>1, <1>2, <1>3, <1>6, <1>8, <1>9, <1>10, <1>11, <1>12

\* Relayed: it is pending.
LEMMA RelaysIs ==
  ASSUME TInv, NEW b, NEW shown, ReadOf(b, shown), Relays(b)
  PROVE  W' = W \o Run(fed + 1, b) /\ H' = H
<1>1. /\ pend = <<>> /\ out' = out /\ pend' = Append(pend, Run(fed + 1, b)) /\ held' = held
      /\ out \in Seq(Token) /\ pend \in Seq(Seq(Token))
  BY DEF ReadOf, Relays, client, TInv, TypeOK
<1>2. Run(fed + 1, b) \in Seq(Token)
  <2>1. fed + 1 \in Nat \ {0} /\ b \in Nat /\ fed + 1 <= b + 1
    BY DEF ReadOf
  <2> QED
    BY <2>1, RunFacts
<1>3. /\ FlattenSeq(pend') = FlattenSeq(pend) \o Run(fed + 1, b)
      /\ FlattenSeq(pend) = <<>>
  <2>1. FlattenSeq(Append(pend, Run(fed + 1, b))) = FlattenSeq(pend) \o Run(fed + 1, b)
    BY <1>1, <1>2, FlattenAppend
  <2>2. FlattenSeq(<<>>) = <<>>
    BY DEF FlattenSeq
  <2> QED
    BY <1>1, <2>1, <2>2
<1>4. FlattenSeq(pend') = Run(fed + 1, b) /\ W = out
  BY <1>1, <1>2, <1>3, ConcatEmptySeq DEF W
<1> QED
  BY <1>1, <1>4 DEF W, H

\* Buffered: nothing else changes.
LEMMA BuffersIs ==
  ASSUME NEW b, NEW shown, ReadOf(b, shown), Buffers(b)
  PROVE  W' = W /\ H' = H /\ head' = head
BY DEF Buffers, ReadOf, client, W, H

\* The stores hold tokens of the stream.
Kept == Pure(head) /\ Pure(H) /\ Pure(buf)

\* All that was written or is pending is of these kinds.
Only(S) == \A tok \in ToSet(W) : tok[1] \in S

\* What was sent so far, the log and the status agree with where the handler is.
Stage ==
    /\ pc \in {"first", "read", "failing", "direct"} => Only(Streamed \cup {"ping"})
    /\ pc \in {"first", "read"} => log = "none"
    /\ pc \in {"failing", "direct"} => log = "error"
    /\ pc \in {"first", "read", "closing", "failing"} => code = 200
    /\ pc = "closing" => /\ log \in {"none", "error"} /\ (log = "error" <=> Shown("event"))
                         /\ ~Shown("body")
    /\ pc = "gone" => /\ log = "error" <=> Shown("body") \/ Shown("event")
                      /\ log # "none"

\* Before a tool call was seen nothing but comments is sent to a client that gave tools, and the
\* synthesized calls are sent only then.
Unleaked ==
    /\ active => Are(Responses, Events) # {}
    /\ toolCalls => Are({"tool"}, Events) # {}
    /\ pc \in {"first", "read"} /\ adapter # "none" /\ toolGate /\ ~toolCalls => Only({"ping"})
    /\ Shown("fix") => /\ pc \in {"closing", "gone"}
                       /\ ~Mixed => \A k \in Streamed : ~Shown(k)

\* The flags of a held chunk are true of its data.
HeldOpens == \A k \in DOMAIN held : held[k].opens => Forced(held[k].data)
HeldEnds  == \A k \in DOMAIN held : held[k].ends => HasDone(held[k].data)

\* The header went out for a reason the client sees.
Opened ==
    /\ HeldOpens
    /\ \/ pc \in {"first", "read", "failing"} /\ (written \/ ~headOpen \/ pend # <<>>)
       \/ pc = "direct" /\ code = 200
       \/ Shown("body") /\ code = 200
       => sentDone \/ Forced(W)

\* A "[DONE]" that was seen is in one of the stores, and at the end is sent.
Finished ==
    adapter = "openai" =>
      /\ HeldEnds
      /\ pc \in {"first", "read"} /\ sentDone =>
            HasDone(W) \/ HasDone(head) \/ HasDone(H) \/ HasDone(buf)
      /\ pc \in {"closing", "gone"} /\ log # "error" => HasDone(W)

\* The content of the stores: an invariant, given the types.
CInv == Kept /\ Stage /\ Unleaked /\ Opened /\ Finished

\* The operators on tokens read the body and the adapter, which never change.
LEMMA SameTokens ==
  ASSUME UNCHANGED <<body, adapter, loud>>
  PROVE  /\ \A tok : Forcing(tok)' <=> Forcing(tok)
         /\ \A n : Kind(n)' = Kind(n)
         /\ Mixed' <=> Mixed
         /\ Are(Responses, Events)' = Are(Responses, Events)
         /\ Are({"tool"}, Events)' = Are({"tool"}, Events)
BY DEF Forcing, Kind, Mixed, Events, Are

\* So neither do the predicates, across a step.
LEMMA SameSets ==
  ASSUME UNCHANGED <<body, adapter, loud>>
  PROVE  /\ Forced(W)' <=> Forced(W')
         /\ HasDone(W)' <=> HasDone(W')
         /\ HasDone(head)' <=> HasDone(head')
         /\ HasDone(H)' <=> HasDone(H')
         /\ HasDone(buf)' <=> HasDone(buf')
         /\ UNCHANGED held /\ HeldOpens => HeldOpens'
         /\ UNCHANGED held /\ HeldEnds => HeldEnds'
BY SameTokens DEF Forced, HasDone, HeldOpens, HeldEnds

\* What each action appends to the tokens sent or to be sent.
LEMMA Appended ==
  ASSUME TInv
  PROVE  /\ EmptyBody \/ DirectEnd => ToSet(W') = ToSet(W) \cup {<<"body", 0>>}
         /\ PingEnd => ToSet(W') = ToSet(W) \cup {<<"ping", 0>>}
         /\ Write => W' = W
         /\ DirectBegin \/ Return \/ PingBegin \/ PingerExit \/ UNCHANGED vars => W' = W
<1>1. /\ out \in Seq(Token) /\ pend \in Seq(Seq(Token)) /\ FlattenSeq(pend) \in Seq(Token)
  BY TypedState DEF TInv, TypeOK
<1>2. ASSUME NEW x \in {<<"body", 0>>, <<"ping", 0>>}, out' = Append(out, x), pend' = pend
      PROVE  ToSet(W') = ToSet(W) \cup {x}
  <2>1. x \in Token
    BY TokenKinds
  <2> DEFINE f == FlattenSeq(pend)
             y == <<x>>
  <2>2. Append(out, x) = out \o y /\ y \in Seq(Token) /\ f \in Seq(Token) /\ ToSet(y) = {x}
    BY <1>1, <2>1, AppendIsConcat, ToSetOne
  <2>3. W = out \o f /\ W' = (out \o y) \o f
    BY <1>2, <2>2 DEF W
  <2> HIDE DEF f, y
  <2>4. /\ ToSet(out \o f) = ToSet(out) \cup ToSet(f)
        /\ ToSet(out \o y) = ToSet(out) \cup ToSet(y)
        /\ out \o y \in Seq(Token)
    BY <1>1, <2>2, ToSetConcat, ConcatProperties
  <2>5. ToSet((out \o y) \o f) = ToSet(out \o y) \cup ToSet(f)
    <3> DEFINE z == out \o y
    <3>1. z \in Seq(Token)
      BY <2>4
    <3> HIDE DEF z
    <3>2. ToSet(z \o f) = ToSet(z) \cup ToSet(f)
      BY <2>2, <3>1, ToSetConcat
    <3> QED
      BY <3>2 DEF z
  <2> QED
    BY <2>2, <2>3, <2>4, <2>5
<1>3. EmptyBody \/ DirectEnd => ToSet(W') = ToSet(W) \cup {<<"body", 0>>}
  BY <1>2 DEF EmptyBody, DirectEnd, sorting
<1>4. PingEnd => ToSet(W') = ToSet(W) \cup {<<"ping", 0>>}
  BY <1>2 DEF PingEnd, sorting
<1>5. DirectBegin \/ Return \/ PingBegin \/ PingerExit \/ UNCHANGED vars => W' = W
  BY DEF DirectBegin, Return, PingBegin, PingerExit, vars, sorting, client, W
<1> QED
  BY <1>3, <1>4, <1>5, WriteIs

\* The initial states satisfy it.
LEMMA CInvInit == Init => CInv
<1> SUFFICES ASSUME Init PROVE CInv
  OBVIOUS
<1>1. /\ out = <<>> /\ pend = <<>> /\ held = <<>> /\ head = <<>> /\ buf = <<>>
  BY DEF Init
<1>2. W = <<>> /\ H = <<>>
  <2>1. FlattenSeq(<<>>) = <<>>
    BY DEF FlattenSeq
  <2>2. <<>> \in Seq(Chunks) /\ <<>> \in Seq(Token)
    BY EmptySeq
  <2> QED
    BY <1>1, <2>1, <2>2, CarriedFacts, ConcatEmptySeq DEF W, H
<1>3. ToSet(W) = {} /\ DOMAIN held = {}
  <2>1. ToSet(<<>>) = {} /\ DOMAIN <<>> = {}
    BY DEF ToSet
  <2> QED
    BY <1>1, <1>2, <2>1
<1>4. Kept
  BY <1>1, <1>2, SetsOfNone DEF Kept
<1>5. Stage /\ Unleaked
  BY <1>3 DEF Init, Stage, Unleaked, Only, Shown
<1>6. Opened /\ Finished
  BY <1>3 DEF Init, Opened, Finished, Shown, HeldOpens, HeldEnds
<1> QED
  BY <1>4, <1>5, <1>6 DEF CInv

\* Actions that move no token between the stores.
LEMMA CInvSimple ==
  ASSUME TInv, CInv,
         EmptyBody \/ Write \/ DirectBegin \/ DirectEnd \/ Return \/ PingBegin \/ PingEnd
         \/ PingerExit \/ UNCHANGED vars
  PROVE  CInv'
<1>0. /\ UNCHANGED <<body, adapter, loud, toolGate, head, headOpen, held, buf, active, toolCalls,
                      sentDone>>
  BY DEF EmptyBody, Write, DirectBegin, DirectEnd, Return, PingBegin, PingEnd, PingerExit, vars,
     reading, sorting
<1>1. H' = H
  BY <1>0 DEF H
<1>2. Kept'
  BY <1>0, <1>1 DEF CInv, Kept, Pure
<1>3. /\ Forced(W)' <=> Forced(W')
      /\ HasDone(W)' <=> HasDone(W')
      /\ HasDone(head)' <=> HasDone(head)
      /\ HasDone(H)' <=> HasDone(H)
      /\ HasDone(buf)' <=> HasDone(buf)
  BY <1>0, <1>1, SameSets
<1>4. /\ Mixed' <=> Mixed
      /\ Are(Responses, Events)' = Are(Responses, Events)
      /\ Are({"tool"}, Events)' = Are({"tool"}, Events)
  BY <1>0, SameTokens
<1>5. HeldOpens' /\ (adapter' = "openai" => HeldEnds')
  BY <1>0, SameSets DEF CInv, Opened, Finished
<1>6. ToSet(W) \subseteq ToSet(W')
  BY Appended
<1>7. (Forced(W) => Forced(W)') /\ (HasDone(W) => HasDone(W)')
  BY <1>3, <1>6 DEF Forced, HasDone
<1>8. (pc = "first" => ToSet(W) = {}) /\ (pc \in {"failing", "direct", "gone"} => pend = <<>>)
  <2>1. pc = "first" => out = <<>> /\ pend = <<>>
    BY DEF TInv, Frame
  <2>2. pc = "first" => W = <<>>
    <3>1. FlattenSeq(<<>>) = <<>>
      BY DEF FlattenSeq
    <3> QED
      BY <2>1, <3>1 DEF W
  <2> QED
    BY <2>2, ToSetOne DEF TInv, Frame
<1>9. CASE EmptyBody
  <2>1. ToSet(W') = {<<"body", 0>>} /\ pc = "first" /\ pc' = "gone" /\ log' = "error" /\ code' = 502
    BY <1>8, <1>9, Appended DEF EmptyBody
  <2>2. Stage'
    BY <2>1 DEF Stage, Shown
  <2>3. Unleaked'
    BY <1>0, <1>4, <2>1 DEF CInv, Unleaked, Shown, Streamed
  <2>4. Opened' /\ Finished'
    BY <1>5, <2>1 DEF Opened, Finished
  <2> QED
    BY <1>2, <2>2, <2>3, <2>4 DEF CInv
<1>10. CASE DirectEnd
  <2>1. /\ ToSet(W') = ToSet(W) \cup {<<"body", 0>>} /\ pc = "direct" /\ pc' = "gone"
        /\ UNCHANGED <<log, code>>
    BY <1>10, Appended DEF DirectEnd
  <2>a. <<"body", 0>> \in ToSet(W') /\ <<"body", 0>>[1] = "body"
    BY <2>1
  <2>b. Shown("body")'
    BY <2>a DEF Shown
  <2>2. Stage'
    BY <2>1, <2>b DEF CInv, Stage
  <2>3. Unleaked'
    BY <1>0, <1>4, <2>1 DEF CInv, Unleaked, Shown, Streamed, Stage
  <2>4. Opened'
    BY <1>0, <1>5, <1>7, <2>1 DEF CInv, Opened
  <2>5. Finished'
    BY <1>5, <2>1 DEF Finished, CInv, Stage
  <2> QED
    BY <1>2, <2>2, <2>3, <2>4, <2>5 DEF CInv
<1>11. CASE PingEnd
  <2>1. /\ ToSet(W') = ToSet(W) \cup {<<"ping", 0>>} /\ UNCHANGED <<log, code, pc, pend>>
    BY <1>11, Appended DEF PingEnd, sorting
  <2>2. Only(Streamed \cup {"ping"}) => Only(Streamed \cup {"ping"})'
    BY <2>1 DEF Only
  <2>3. \A k \in {"body", "event", "fix", "data", "conv", "blank"} : Shown(k)' <=> Shown(k)
    BY <2>1 DEF Shown
  <2>4. Only({"ping"}) => Only({"ping"})'
    BY <2>1 DEF Only
  <2>5. Stage'
    BY <2>1, <2>2, <2>3 DEF CInv, Stage
  <2>6. Unleaked'
    BY <1>0, <1>4, <2>1, <2>3, <2>4 DEF CInv, Unleaked, Streamed
  <2>7. Forced(W)'
    <3>1. <<"ping", 0>> \in ToSet(W') /\ <<"ping", 0>>[1] = "ping"
      BY <2>1
    <3> QED
      BY <1>3, <3>1 DEF Forced, Forcing
  <2>8. Opened'
    BY <1>5, <2>7 DEF Opened
  <2>9. Finished'
    BY <1>0, <1>3, <1>5, <1>7, <2>1 DEF CInv, Finished
  <2> QED
    BY <1>2, <2>5, <2>6, <2>8, <2>9 DEF CInv
<1>12. CASE ~(EmptyBody \/ DirectEnd \/ PingEnd)
  <2>1. W' = W
    BY <1>12, Appended
  <2>2. /\ \A k : Shown(k)' <=> Shown(k)
        /\ \A S : Only(S)' <=> Only(S)
    BY <2>1 DEF Shown, Only
  <2>3. /\ log' = log \/ pc' = "gone"
        /\ pc' = pc \/ (pc = "failing" /\ pc' = "direct") \/ (pc = "closing" /\ pc' = "gone")
    BY <1>12 DEF Write, DirectBegin, Return, PingBegin, PingerExit, vars, client
  <2>4. CASE DirectBegin
    <3>1. /\ pc = "failing" /\ pc' = "direct" /\ code' = (IF written THEN code ELSE 503)
          /\ log' = log
      BY <2>4 DEF DirectBegin
    <3>2. Stage'
      BY <2>2, <3>1 DEF CInv, Stage
    <3>3. Unleaked'
      BY <1>0, <1>4, <2>2, <3>1 DEF CInv, Unleaked
    <3>4. Opened'
      <4>1. code' = 200 => written
        BY <3>1
      <4>2. ~Shown("body")'
        BY <2>2, <3>1 DEF CInv, Stage, Only, Shown, Streamed
      <4> QED
        BY <1>0, <1>5, <1>7, <3>1, <4>1, <4>2 DEF CInv, Opened
    <3>5. Finished'
      BY <1>5, <3>1 DEF Finished
    <3> QED
      BY <1>2, <3>2, <3>3, <3>4, <3>5 DEF CInv
  <2>5. CASE Return
    <3>1. /\ pc = "closing" /\ pc' = "gone" /\ log' = (IF log = "none" THEN "ok" ELSE log)
          /\ UNCHANGED <<code>>
      BY <2>5 DEF Return, client
    <3>2. Stage'
      BY <2>2, <3>1 DEF CInv, Stage
    <3>3. Unleaked'
      BY <1>0, <1>4, <2>2, <3>1 DEF CInv, Unleaked
    <3>4. Opened'
      BY <1>0, <1>5, <1>7, <2>2, <3>1 DEF CInv, Opened, Stage
    <3>5. Finished'
      BY <1>0, <1>5, <1>7, <3>1 DEF CInv, Finished, Stage
    <3> QED
      BY <1>2, <3>2, <3>3, <3>4, <3>5 DEF CInv
  <2>6. CASE Write \/ PingBegin \/ PingerExit \/ UNCHANGED vars
    <3>1. UNCHANGED <<pc, log, code>>
      BY <2>6 DEF Write, PingBegin, PingerExit, vars, client
    <3>2. Stage'
      BY <2>2, <3>1 DEF CInv, Stage
    <3>3. Unleaked'
      BY <1>0, <1>4, <2>2, <3>1 DEF CInv, Unleaked
    <3>4. Opened'
      <4>1. written' \/ pend' # <<>> => written \/ pend # <<>>
        BY <2>6 DEF Write, PingBegin, PingerExit, vars, client, sorting
      <4> QED
        BY <1>0, <1>5, <1>7, <2>2, <3>1, <4>1 DEF CInv, Opened
    <3>5. Finished'
      BY <1>0, <1>3, <1>5, <1>7, <3>1 DEF CInv, Finished
    <3> QED
      BY <1>2, <3>2, <3>3, <3>4, <3>5 DEF CInv
  <2> QED
    BY <1>12, <2>4, <2>5, <2>6
<1> QED
  BY <1>9, <1>10, <1>11, <1>12

\* The tokens after a Forward are those before it and the chunk's.
LEMMA ForwardsSets ==
  ASSUME TInv, NEW b, NEW shown, ReadOf(b, shown), NEW ended \in BOOLEAN,
         Forwards(b, shown, ended)
  PROVE  /\ ToSet(W') \cup ToSet(head') =
              ToSet(W) \cup ToSet(head) \cup ToSet(H) \cup ToSet(Parsed(fed + 1, b))
         /\ ~headOpen' => ToSet(W') =
              ToSet(W) \cup ToSet(head) \cup ToSet(H) \cup ToSet(Parsed(fed + 1, b))
         /\ headOpen' => ToSet(W') = ToSet(W)
<1> DEFINE p == Parsed(fed + 1, b)
           v == W'
           g == head'
<1>1. /\ v \in Seq(Token) /\ g \in Seq(Token)
      /\ v \o g = ((W \o head) \o H) \o p
      /\ headOpen' => v = W
      /\ ~headOpen' => g = <<>>
  BY ForwardsIs
<1>2. W \in Seq(Token) /\ head \in Seq(Token) /\ H \in Seq(Token)
  BY TypedState DEF TInv, TypeOK
<1>3. p \in Seq(Token)
  <2>1. body \in Streams /\ fed + 1 \in Nat \ {0} /\ b \in Nat /\ fed + 1 <= b
    BY DEF TInv, TypeOK, ReadOf
  <2> QED
    BY <2>1, ParsedType
<1> HIDE DEF p, v, g
<1>4. \A x, y \in Seq(Token) : x \o y \in Seq(Token) /\ ToSet(x \o y) = ToSet(x) \cup ToSet(y)
  BY ConcatProperties, ToSetConcat
<1>5. W \o head \in Seq(Token) /\ (W \o head) \o H \in Seq(Token)
  BY <1>2, <1>4
<1>6. /\ ToSet(v \o g) = ToSet(v) \cup ToSet(g)
      /\ ToSet(W \o head) = ToSet(W) \cup ToSet(head)
      /\ ToSet((W \o head) \o H) = ToSet(W \o head) \cup ToSet(H)
      /\ ToSet(((W \o head) \o H) \o p) = ToSet((W \o head) \o H) \cup ToSet(p)
  BY <1>1, <1>2, <1>3, <1>4, <1>5
<1>7. ~headOpen' => ToSet(g) = {}
  <2>1. ToSet(<<>>) = {}
    BY DEF ToSet
  <2> QED
    BY <1>1, <2>1
<1>8. ToSet(v) \cup ToSet(g) = ToSet(W) \cup ToSet(head) \cup ToSet(H) \cup ToSet(p)
  BY <1>1, <1>6
<1> QED
  BY <1>1, <1>7, <1>8 DEF p, v, g

\* What the head holds after a Forward came from the stores.
LEMMA ForwardsHead ==
  ASSUME TInv, NEW b, NEW shown, ReadOf(b, shown), NEW ended \in BOOLEAN,
         Forwards(b, shown, ended)
  PROVE  ToSet(head') \subseteq ToSet(head) \cup ToSet(H) \cup ToSet(Parsed(fed + 1, b))
<1> DEFINE p == Parsed(fed + 1, b)
<1>1. PICK r \in Sinks : Put(r) /\ Line(r) = (head \o H) \o p
  BY ForwardIs DEF Forwards
<1>2. /\ pend' \in Seq(Seq(Token)) /\ head' \in Seq(Token)
      /\ Line(r) = FlattenSeq(pend') \o head'
  BY <1>1, PutType DEF PutFacts
<1>3. FlattenSeq(pend') \in Seq(Token)
  BY <1>2, FlattenType
<1>4. p \in Seq(Token)
  <2>1. body \in Streams /\ fed + 1 \in Nat \ {0} /\ b \in Nat /\ fed + 1 <= b
    BY DEF TInv, TypeOK, ReadOf
  <2> QED
    BY <2>1, ParsedType
<1>5. head \in Seq(Token) /\ H \in Seq(Token)
  BY TypedState DEF TInv, TypeOK
<1> DEFINE q == FlattenSeq(pend')
           g == head'
<1> HIDE DEF p, q, g
<1>6. \A x, y \in Seq(Token) : x \o y \in Seq(Token) /\ ToSet(x \o y) = ToSet(x) \cup ToSet(y)
  BY ConcatProperties, ToSetConcat
<1>7. q \o g = (head \o H) \o p /\ q \in Seq(Token) /\ g \in Seq(Token)
  BY <1>1, <1>2, <1>3 DEF q, g
<1>8. /\ ToSet(q \o g) = ToSet(q) \cup ToSet(g)
      /\ head \o H \in Seq(Token)
      /\ ToSet(head \o H) = ToSet(head) \cup ToSet(H)
      /\ ToSet((head \o H) \o p) = ToSet(head \o H) \cup ToSet(p)
  BY <1>4, <1>5, <1>6, <1>7
<1> QED
  BY <1>7, <1>8 DEF p, g

\* A Read keeps the content in order, whichever way the chunk goes.
LEMMA CInvRead ==
  ASSUME TInv, CInv, NEW b \in 1..(2 * Len(body)), Read(b)
  PROVE  CInv'
<1>1. PICK shown : /\ ReadOf(b, shown)
                   /\ \/ RelayRaw(fed + 1, b, shown)
                      \/ UpstreamFails(fed + 1, b, shown)
                      \/ RelayChat(fed + 1, b, shown)
  BY ReadIs
<1> DEFINE p == Parsed(fed + 1, b)
           r == Run(fed + 1, b)
<1>2. /\ pc \in {"first", "read"} /\ pend = <<>>
      /\ UNCHANGED <<body, adapter, loud, toolGate, code, written>>
      /\ log' = (IF pc' = "failing" THEN "error" ELSE log)
  BY <1>1 DEF ReadOf, client
<1>3. /\ Forced(W)' <=> Forced(W')
      /\ HasDone(W)' <=> HasDone(W')
      /\ HasDone(head)' <=> HasDone(head')
      /\ HasDone(H)' <=> HasDone(H')
      /\ HasDone(buf)' <=> HasDone(buf')
      /\ UNCHANGED held /\ HeldOpens => HeldOpens'
      /\ UNCHANGED held /\ HeldEnds => HeldEnds'
  BY <1>2, SameSets
<1>4. /\ \A tok : Forcing(tok)' <=> Forcing(tok)
      /\ \A n : Kind(n)' = Kind(n)
      /\ Mixed' <=> Mixed
      /\ Are(Responses, Events)' = Are(Responses, Events)
      /\ Are({"tool"}, Events)' = Are({"tool"}, Events)
  BY <1>2, SameTokens
<1>5. /\ Pure(p) /\ Pure(r)
      /\ adapter # "none" /\ TRUE \in Opens(fed + 1, b) => Forced(p)
      /\ adapter # "none" /\ Says("done", shown) => Forced(p)
      /\ adapter = "none" => Forced(r)
      /\ adapter = "openai" /\ Are({"done"}, shown) # {} => HasDone(p) /\ HasDone(r)
      /\ adapter = "openai" /\ Says("done", shown) => HasDone(p)
      /\ Says("tool", shown) => Are({"tool"}, Events) # {}
      /\ Are(Responses, shown) # {} => Are(Responses, Events) # {}
  BY <1>1, ParsedTokens
<1>6. /\ p \in Seq(Token) /\ r \in Seq(Token)
      /\ W \in Seq(Token) /\ head \in Seq(Token) /\ H \in Seq(Token) /\ buf \in Seq(Token)
      /\ held \in Seq(Chunks)
  <2>1. body \in Streams /\ fed + 1 \in Nat \ {0} /\ b \in Nat /\ fed + 1 <= b /\ fed + 1 <= b + 1
    BY <1>1 DEF TInv, TypeOK, ReadOf
  <2> QED
    BY <2>1, ParsedType, RunFacts, TypedState DEF TInv, TypeOK
<1> HIDE DEF p, r
<1>7. \A x, y \in Seq(Token) : /\ Pure(x \o y) <=> Pure(x) /\ Pure(y)
                               /\ Forced(x \o y) <=> Forced(x) \/ Forced(y)
                               /\ HasDone(x \o y) <=> HasDone(x) \/ HasDone(y)
  BY SetsOf
<1>8. /\ log = "none" /\ code = 200
      /\ \A tok \in ToSet(W) : tok[1] \in Streamed \cup {"ping"}
  BY <1>2 DEF CInv, Stage, Only
<1>9. ~Shown("fix") /\ ~Shown("body")
  BY <1>8 DEF Shown, Streamed
<1>10. CASE UpstreamFails(fed + 1, b, shown)
  <2>1. /\ UNCHANGED <<pend, head, headOpen, held, toolCalls, active, buf>>
        /\ sentDone' = (sentDone \/ Are({"done"}, shown) # {}) /\ pc' = "failing"
    BY <1>10 DEF UpstreamFails
  <2>2. W' = W /\ H' = H
    BY <1>1, <2>1 DEF W, H, ReadOf, client
  <2>3. Kept'
    BY <2>1, <2>2 DEF CInv, Kept, Pure
  <2>4. Stage' /\ Unleaked'
    BY <1>2, <1>4, <1>8, <1>9, <2>1, <2>2 DEF CInv, Stage, Unleaked, Only, Shown
  <2>5. Opened'
    <3>1. ~Shown("body")'
      BY <1>9, <2>2 DEF Shown
    <3> QED
      BY <1>2, <1>3, <2>1, <2>2, <3>1 DEF CInv, Opened
  <2>6. Finished'
    BY <1>2, <1>3, <2>1 DEF CInv, Finished
  <2> QED
    BY <2>3, <2>4, <2>5, <2>6 DEF CInv
\* A chunk is buffered.
<1>11. ASSUME Buffers(b), active' = (active \/ Are(Responses, shown) # {}),
              toolCalls' = (toolCalls \/ (~active' /\ Says("tool", shown))),
              sentDone' = sentDone \/ sentDone' = (sentDone \/ Are({"done"}, shown) # {}),
              adapter = "none" => sentDone' = sentDone
       PROVE  CInv'
  <2>1. /\ W' = W /\ H' = H /\ head' = head
        /\ pc' = "read" /\ active' /\ buf' = buf \o r /\ UNCHANGED <<pend, headOpen, held>>
    BY <1>1, <1>11, BuffersIs DEF Buffers, r
  <2>2. toolCalls' = toolCalls
    BY <1>11, <2>1 DEF TInv, TypeOK
  <2>3. Kept'
    <3>1. Pure(buf \o r)
      BY <1>5, <1>6, <1>7 DEF CInv, Kept
    <3> QED
      BY <2>1, <3>1 DEF CInv, Kept, Pure
  <2>4. Stage'
    BY <1>2, <1>8, <2>1 DEF Stage, Only
  <2>5. Unleaked'
    BY <1>2, <1>4, <1>5, <1>9, <1>11, <2>1, <2>2 DEF CInv, Unleaked, Only, Shown
  <2>6. Opened'
    <3>1. ~Shown("body")'
      BY <1>9, <2>1 DEF Shown
    <3>2. sentDone => sentDone'
      BY <1>11
    <3> QED
      BY <1>2, <1>3, <2>1, <3>1, <3>2 DEF CInv, Opened
  <2>7. Finished'
    <3>1. ASSUME adapter = "openai", sentDone'
          PROVE  HasDone(W') \/ HasDone(head') \/ HasDone(H') \/ HasDone(buf')
      <4>1. HasDone(buf') <=> HasDone(buf) \/ HasDone(r)
        BY <1>6, <1>7, <2>1
      <4>2. sentDone \/ Are({"done"}, shown) # {}
        BY <1>11, <3>1
      <4> QED
        BY <1>2, <1>5, <2>1, <3>1, <4>1, <4>2 DEF CInv, Finished
    <3> QED
      BY <1>2, <1>3, <2>1, <3>1 DEF CInv, Finished
  <2> QED
    BY <2>3, <2>4, <2>5, <2>6, <2>7 DEF CInv
<1>12. CASE RelayRaw(fed + 1, b, shown)
  <2>1. /\ adapter = "none"
        /\ Buffers(b) \/ Relays(b)
        /\ active' = (active \/ Are(Responses, shown) # {})
        /\ UNCHANGED <<sentDone, toolCalls, text>>
    BY <1>12, RawIs
  <2>2. CASE Buffers(b)
    <3>1. active' /\ toolCalls \in BOOLEAN
      BY <2>2 DEF Buffers, TInv, TypeOK
    <3>2. toolCalls' = (toolCalls \/ (~active' /\ Says("tool", shown)))
      BY <2>1, <3>1
    <3> QED
      BY <1>11, <2>1, <2>2, <3>2
  <2>3. CASE Relays(b)
    <3>1. /\ W' = W \o r /\ H' = H /\ pc' = "read" /\ ~active' /\ buf' = buf
          /\ UNCHANGED <<head, headOpen, held, sentDone, toolCalls>>
      BY <1>1, <2>3, RelaysIs DEF Relays, r
    <3>2. Kept'
      BY <3>1 DEF CInv, Kept, Pure
    <3>3. ToSet(W') = ToSet(W) \cup ToSet(r)
      BY <1>6, <3>1, ToSetConcat
    <3>4. \A tok \in ToSet(W') : tok[1] \in Streamed \cup {"ping"}
      BY <1>5, <1>8, <3>3 DEF Pure
    <3>5. Stage'
      BY <1>2, <1>8, <3>1, <3>4 DEF Stage, Only
    <3>6. ~Shown("fix")' /\ ~Shown("body")'
      BY <3>4 DEF Shown, Streamed
    <3>7. Unleaked'
      BY <1>2, <1>4, <1>5, <2>1, <3>1, <3>6 DEF CInv, Unleaked
    <3>8. Opened'
      <4>1. Forced(W')
        BY <1>5, <1>6, <1>7, <2>1, <3>1
      <4> QED
        BY <1>3, <3>1, <4>1 DEF CInv, Opened
    <3>9. Finished'
      BY <1>2, <2>1 DEF Finished
    <3> QED
      BY <3>2, <3>5, <3>7, <3>8, <3>9 DEF CInv
  <2> QED
    BY <2>1, <2>2, <2>3
<1>13. CASE RelayChat(fed + 1, b, shown)
  <2> DEFINE ended == sentDone \/ Are({"done"}, shown) # {}
  <2>1. /\ adapter # "none"
        /\ \/ Buffers(b) /\ sentDone' = ended
           \/ Holds(b, shown, ended)
           \/ Forwards(b, shown, ended)
        /\ active' = (active \/ Are(Responses, shown) # {})
        /\ toolCalls' = (toolCalls \/ (~active' /\ Says("tool", shown)))
    BY <1>13, ChatIs
  <2>2. CASE Buffers(b) /\ sentDone' = ended
    BY <1>11, <2>1, <2>2
  <2>0. ended \in BOOLEAN /\ (ended <=> sentDone \/ Are({"done"}, shown) # {})
    OBVIOUS
  <2> HIDE DEF ended
  <2>3. /\ active' => Are(Responses, Events)' # {}
        /\ toolCalls' => Are({"tool"}, Events)' # {}
    BY <1>4, <1>5, <2>1 DEF CInv, Unleaked
  <2>4. CASE Holds(b, shown, ended)
    <3>0. PICK opens \in Opens(fed + 1, b) :
               held' = Append(held, [data |-> p, opens |-> opens \/ Says("done", shown),
                                     ends |-> Says("done", shown)])
      BY <1>1, <2>4, HoldsIs DEF p
    <3> DEFINE c == [data |-> p, opens |-> opens \/ Says("done", shown),
                     ends |-> Says("done", shown)]
    <3>1. /\ W' = W /\ H' = H \o p /\ held' = Append(held, c)
          /\ UNCHANGED <<pend, head, headOpen>> /\ sentDone' = ended
      BY <1>1, <2>4, <3>0, HoldsIs DEF p
    <3>2. /\ pc' = "read" /\ ~active' /\ buf' = buf /\ toolGate /\ ~toolCalls'
      BY <2>4 DEF Holds
    <3>3. /\ c.data = p
          /\ c.opens => Forced(p)
          /\ c.ends /\ adapter = "openai" => HasDone(p)
          /\ c \in Chunks
      BY <1>1, <1>5, <2>1, HeldChunkType DEF p
    <3> HIDE DEF c
    <3>4. /\ DOMAIN held' = DOMAIN held \cup {Len(held) + 1}
          /\ \A k \in DOMAIN held : held'[k] = held[k]
          /\ held'[Len(held) + 1] = c
      BY <1>6, <3>1, <3>3, AppendProperties, LenProperties
    <3>5. Kept'
      <4>1. Pure(H \o p)
        BY <1>5, <1>6, <1>7 DEF CInv, Kept
      <4> QED
        BY <3>1, <3>2, <4>1 DEF CInv, Kept, Pure
    <3>6. Stage'
      BY <1>2, <1>8, <3>1, <3>2 DEF Stage, Only
    <3>7. Unleaked'
      <4>2. ~toolCalls
        BY <2>1, <3>2
      <4>3. ~Shown("fix")'
        BY <1>9, <3>1 DEF Shown
      <4>4. Only({"ping"})'
        BY <1>2, <2>1, <3>1, <3>2, <4>2 DEF CInv, Unleaked, Only
      <4> QED
        BY <2>3, <4>3, <4>4 DEF Unleaked
    <3>8. HeldOpens'
      <4>1. ASSUME NEW k \in DOMAIN held', held'[k].opens
            PROVE  \E tok \in ToSet(held'[k].data) : Forcing(tok)
        <5>1. CASE k \in DOMAIN held
          BY <3>4, <4>1, <5>1 DEF CInv, Opened, HeldOpens, Forced
        <5>2. CASE k = Len(held) + 1
          BY <3>3, <3>4, <4>1, <5>2 DEF Forced
        <5> QED
          BY <3>4, <5>1, <5>2
      <4> QED
        BY <1>4, <4>1 DEF HeldOpens, Forced
    <3>9. Opened'
      <4>1. ~Shown("body")'
        BY <1>9, <3>1 DEF Shown
      <4> QED
        BY <1>2, <1>3, <2>0, <3>1, <3>2, <3>8, <4>1 DEF CInv, Opened
    <3>10. adapter = "openai" => HeldEnds'
      <4>1. ASSUME adapter = "openai", NEW k \in DOMAIN held', held'[k].ends
            PROVE  HasDone(held'[k].data)
        <5>1. CASE k \in DOMAIN held
          BY <3>4, <4>1, <5>1 DEF CInv, Finished, HeldEnds
        <5>2. CASE k = Len(held) + 1
          BY <3>3, <3>4, <4>1, <5>2
        <5> QED
          BY <3>4, <5>1, <5>2
      <4> QED
        BY <1>4, <4>1 DEF HeldEnds, HasDone
    <3>11. Finished'
      <4>1. ASSUME adapter = "openai", ended
            PROVE  HasDone(W') \/ HasDone(head') \/ HasDone(H') \/ HasDone(buf')
        <5>1. HasDone(H') <=> HasDone(H) \/ HasDone(p)
          BY <1>6, <1>7, <3>1
        <5> QED
          BY <1>2, <1>5, <2>0, <3>1, <3>2, <4>1, <5>1 DEF CInv, Finished
      <4> QED
        BY <1>2, <1>3, <3>1, <3>2, <3>10, <4>1 DEF Finished
    <3> QED
      BY <3>5, <3>6, <3>7, <3>9, <3>11 DEF CInv
  <2>5. CASE Forwards(b, shown, ended)
    <3>1. /\ held' = <<>> /\ H' = <<>>
          /\ sentDone' = (ended \/ \E k \in DOMAIN held : held[k].ends)
          /\ headOpen' => headOpen /\ W' = W /\ pend' = <<>>
          /\ ~headOpen' => \/ ~headOpen \/ (\E k \in DOMAIN held : held[k].opens)
                           \/ sentDone' \/ TRUE \in Opens(fed + 1, b)
      BY <1>1, <2>0, <2>5, ForwardsIs
    <3>2. /\ ToSet(W') \cup ToSet(head') = ToSet(W) \cup ToSet(head) \cup ToSet(H) \cup ToSet(p)
          /\ ~headOpen' => ToSet(W') = ToSet(W) \cup ToSet(head) \cup ToSet(H) \cup ToSet(p)
          /\ headOpen' => ToSet(W') = ToSet(W)
      BY <1>1, <2>0, <2>5, ForwardsSets DEF p
    <3>3. pc' = "read" /\ ~active' /\ buf' = buf /\ (~toolGate \/ toolCalls')
      BY <2>5 DEF Forwards
    <3>4. \A k \in DOMAIN held : ToSet(held[k].data) \subseteq ToSet(H)
      BY <1>6, CarriedTokens DEF H
    <3>5. Kept'
      <4>1. ToSet(head') \subseteq ToSet(head) \cup ToSet(H) \cup ToSet(p)
        BY <1>1, <2>0, <2>5, ForwardsHead DEF p
      <4>2. Pure(head')
        BY <1>5, <4>1 DEF CInv, Kept, Pure
      <4>3. Pure(<<>>)
        BY SetsOfNone
      <4> QED
        BY <3>1, <3>3, <4>2, <4>3 DEF CInv, Kept, Pure
    <3>6. \A tok \in ToSet(W') : tok[1] \in Streamed \cup {"ping"}
      BY <1>5, <1>8, <3>2 DEF CInv, Kept, Pure
    <3>7. Stage'
      BY <1>2, <1>8, <3>3, <3>6 DEF Stage, Only
    <3>8. ~Shown("fix")' /\ ~Shown("body")'
      BY <3>6 DEF Shown, Streamed
    <3>9. Unleaked'
      BY <1>2, <2>3, <3>3, <3>8 DEF Unleaked
    <3>10. HeldOpens' /\ HeldEnds'
      BY <3>1 DEF HeldOpens, HeldEnds
    <3>11. Opened'
      <4>1. ASSUME written' \/ ~headOpen' \/ pend' # <<>> PROVE sentDone' \/ Forced(W')
        <5>1. CASE headOpen'
          <6>1. written /\ W' = W
            BY <1>2, <3>1, <4>1, <5>1
          <6> QED
            BY <1>2, <2>0, <3>1, <6>1 DEF CInv, Opened
        <5>2. CASE ~headOpen'
          <6>1. CASE ~headOpen
            BY <1>2, <2>0, <3>1, <3>2, <5>2, <6>1 DEF CInv, Opened, Forced
          <6>2. ASSUME NEW k \in DOMAIN held, held[k].opens PROVE Forced(W')
            BY <3>2, <3>4, <5>2, <6>2 DEF CInv, Opened, HeldOpens, Forced
          <6>3. CASE TRUE \in Opens(fed + 1, b)
            BY <1>5, <2>1, <3>2, <5>2, <6>3 DEF Forced
          <6> QED
            BY <3>1, <5>2, <6>1, <6>2, <6>3
        <5> QED
          BY <5>1, <5>2
      <4> QED
        BY <1>3, <3>3, <3>8, <3>10, <4>1 DEF Opened
    <3>12. Finished'
      <4>1. ASSUME adapter = "openai", sentDone'
            PROVE  HasDone(W') \/ HasDone(head') \/ HasDone(H') \/ HasDone(buf')
        <5>1. HasDone(W) \/ HasDone(head) \/ HasDone(H) \/ HasDone(p) \/ HasDone(buf)
          <6>1. CASE sentDone
            BY <1>2, <4>1, <6>1 DEF CInv, Finished
          <6>2. CASE Are({"done"}, shown) # {}
            BY <1>5, <4>1, <6>2
          <6>3. ASSUME NEW k \in DOMAIN held, held[k].ends PROVE HasDone(H)
            BY <3>4, <4>1, <6>3 DEF CInv, Finished, HeldEnds, HasDone
          <6> QED
            BY <2>0, <3>1, <4>1, <6>1, <6>2, <6>3
        <5>2. CASE HasDone(buf)
          BY <3>3, <5>2
        <5>3. CASE HasDone(W) \/ HasDone(head) \/ HasDone(H) \/ HasDone(p)
          BY <3>2, <5>3 DEF HasDone
        <5> QED
          BY <5>1, <5>2, <5>3
      <4> QED
        BY <1>2, <1>3, <3>3, <3>10, <4>1 DEF Finished
    <3> QED
      BY <3>5, <3>7, <3>9, <3>11, <3>12 DEF CInv
  <2> QED
    BY <2>1, <2>2, <2>4, <2>5 DEF ended
<1> QED
  BY <1>1, <1>10, <1>12, <1>13

\* The tokens sent or to be sent once a body has ended.
LEMMA EndTokens ==
  ASSUME TInv, pend = <<>>, out' = out, NEW x \in Seq(Token), FlattenSeq(pend') = x
  PROVE  ToSet(W') = ToSet(W) \cup ToSet(x)
<1>1. W = out /\ out \in Seq(Token)
  <2>1. FlattenSeq(<<>>) = <<>>
    BY DEF FlattenSeq
  <2> QED
    BY <2>1, ConcatEmptySeq DEF W, TInv, TypeOK
<1>2. W' = out \o x
  BY DEF W
<1> QED
  BY <1>1, <1>2, ToSetConcat

\* The chunks the end of the body makes.
LEMMA EndChunks ==
  /\ ToSet(FlattenSeq(<<<<<<"event", 0>>>>>>)) = {<<"event", 0>>}
  /\ FlattenSeq(<<<<<<"event", 0>>>>>>) \in Seq(Token)
  /\ ToSet(FlattenSeq(<<<<<<"fix", 0>>>>, <<<<"done", 0>>>>>>)) = {<<"fix", 0>>, <<"done", 0>>}
  /\ FlattenSeq(<<<<<<"fix", 0>>>>, <<<<"done", 0>>>>>>) \in Seq(Token)
<1> DEFINE e == <<"event", 0>>
           f == <<"fix", 0>>
           d == <<"done", 0>>
<1>1. e \in Token /\ f \in Token /\ d \in Token
  BY TokenKinds
<1> HIDE DEF e, f, d
<1>2. <<e>> \in Seq(Token) /\ <<f>> \in Seq(Token) /\ <<d>> \in Seq(Token)
  BY <1>1
<1>3. ToSet(<<e>>) = {e} /\ ToSet(<<f>>) = {f} /\ ToSet(<<d>>) = {d}
  BY ToSetOne
<1> DEFINE p == <<<<e>>>>
           q == <<<<f>>, <<d>>>>
<1>4. p \in Seq(Seq(Token)) /\ q \in Seq(Seq(Token))
  BY <1>2
<1>5. ToSet(p) = {<<e>>}
  BY ToSetOne
<1>6. ToSet(q) = {<<f>>, <<d>>}
  BY DEF ToSet
<1> HIDE DEF p, q
<1>7. /\ FlattenSeq(p) \in Seq(Token) /\ FlattenSeq(q) \in Seq(Token)
      /\ ToSet(FlattenSeq(p)) = UNION {ToSet(c) : c \in ToSet(p)}
      /\ ToSet(FlattenSeq(q)) = UNION {ToSet(c) : c \in ToSet(q)}
  BY <1>4, FlattenType, ToSetFlatten
<1>8. UNION {ToSet(c) : c \in {<<e>>}} = {e}
  BY <1>3
<1>9. UNION {ToSet(c) : c \in {<<f>>, <<d>>}} = {f, d}
  BY <1>3
<1>10. /\ ToSet(FlattenSeq(p)) = {e} /\ FlattenSeq(p) \in Seq(Token)
       /\ ToSet(FlattenSeq(q)) = {f, d} /\ FlattenSeq(q) \in Seq(Token)
  BY <1>5, <1>6, <1>7, <1>8, <1>9
<1> QED
  BY <1>10 DEF p, q, e, f, d

\* What EndPlain writes: all that the stores hold, and perhaps a "[DONE]".
LEMMA EndPlainTokens ==
  ASSUME TInv, EndOfBody, EndPlain
  PROVE  /\ ToSet(W') \subseteq ToSet(W) \cup ToSet(head) \cup ToSet(H) \cup ToSet(buf)
                                \cup {<<"done", 0>>}
         /\ ToSet(W) \cup ToSet(head) \cup ToSet(H) \cup ToSet(buf) \subseteq ToSet(W')
         /\ <<"done", 0>> \in ToSet(W') \/ adapter = "none" \/ sentDone'
<1> DEFINE a == (head \o H) \o buf
           d == <<<<"done", 0>>>>
<1>1. /\ \/ FlattenSeq(pend') = a /\ (adapter = "none" \/ sentDone')
         \/ FlattenSeq(pend') = a \o d
      /\ pend = <<>> /\ out' = out
  BY EndPlainIs DEF EndOfBody, client
<1>2. \A x, y \in Seq(Token) : x \o y \in Seq(Token) /\ ToSet(x \o y) = ToSet(x) \cup ToSet(y)
  BY ConcatProperties, ToSetConcat
<1>3. head \in Seq(Token) /\ H \in Seq(Token) /\ buf \in Seq(Token) /\ d \in Seq(Token)
  BY TypedState, SomeToken DEF TInv, TypeOK
<1>4. ToSet(d) = {<<"done", 0>>}
  BY ToSetOne
<1>5. head \o H \in Seq(Token) /\ ToSet(head \o H) = ToSet(head) \cup ToSet(H)
  BY <1>2, <1>3
<1>6. a \in Seq(Token) /\ ToSet(a) = ToSet(head) \cup ToSet(H) \cup ToSet(buf)
  BY <1>2, <1>3, <1>5
<1> HIDE DEF a, d
<1>7. a \o d \in Seq(Token) /\ ToSet(a \o d) = ToSet(a) \cup {<<"done", 0>>}
  BY <1>2, <1>3, <1>4, <1>6
<1>8. CASE FlattenSeq(pend') = a /\ (adapter = "none" \/ sentDone')
  <2>1. ToSet(W') = ToSet(W) \cup ToSet(a)
    BY <1>1, <1>6, <1>8, EndTokens
  <2> QED
    BY <1>6, <1>8, <2>1
<1>9. CASE FlattenSeq(pend') = a \o d
  <2>1. ToSet(W') = ToSet(W) \cup ToSet(a \o d)
    BY <1>1, <1>7, <1>9, EndTokens
  <2> QED
    BY <1>6, <1>7, <2>1
<1> QED
  BY <1>1, <1>8, <1>9

\* The end of the body does too: failure, synthesized calls or flush.
LEMMA CInvEndOfBody ==
  ASSUME TInv, CInv, EndOfBody
  PROVE  CInv'
<1>1. /\ pc = "read" /\ pend = <<>>
      /\ UNCHANGED <<body, adapter, loud, toolGate, fed, toolCalls, text, active, buf, out, written,
                      code>>
  BY DEF EndOfBody, reading, client
<1>2. /\ log = "none" /\ code = 200
      /\ \A tok \in ToSet(W) : tok[1] \in Streamed \cup {"ping"}
  BY <1>1 DEF CInv, Stage, Only
<1>3. /\ Forced(W)' <=> Forced(W')
      /\ HasDone(W)' <=> HasDone(W')
      /\ UNCHANGED held /\ HeldOpens => HeldOpens'
      /\ UNCHANGED held /\ HeldEnds => HeldEnds'
  BY <1>1, SameSets
<1>4. /\ Mixed' <=> Mixed
      /\ Are(Responses, Events)' = Are(Responses, Events)
      /\ Are({"tool"}, Events)' = Are({"tool"}, Events)
  BY <1>1, SameTokens
<1>5. CASE EndFailed
  <2>1. UNCHANGED <<head, held, headOpen, sentDone>> /\ log' = "error"
    BY <1>5 DEF EndFailed
  <2>2. H' = H
    BY <2>1 DEF H
  <2>3. Kept'
    BY <1>1, <2>1, <2>2 DEF CInv, Kept, Pure
  <2>4. HeldOpens' /\ (adapter = "openai" => HeldEnds')
    BY <1>3, <2>1 DEF CInv, Opened, Finished
  <2>5. CASE written
    <3>1. pend' = <<<<<<"event", 0>>>>>> /\ pc' = "closing"
      BY <1>5, <2>5 DEF EndFailed
    <3>2. ToSet(W') = ToSet(W) \cup {<<"event", 0>>}
      BY <1>1, <3>1, EndTokens, EndChunks
    <3>3. \A tok \in ToSet(W') : tok[1] \in Streamed \cup {"ping", "event"}
      BY <1>2, <3>2
    <3>4. Shown("event")' /\ ~Shown("body")' /\ ~Shown("fix")'
      <4>1. <<"event", 0>> \in ToSet(W')
        BY <3>2
      <4>2. Shown("event")'
        BY <4>1 DEF Shown
      <4>3. ~Shown("body")' /\ ~Shown("fix")'
        BY <3>3 DEF Shown, Streamed
      <4> QED
        BY <4>2, <4>3
    <3>5. Stage' /\ Unleaked'
      BY <1>1, <1>2, <1>4, <2>1, <3>1, <3>4 DEF CInv, Stage, Unleaked
    <3>6. Opened' /\ Finished'
      BY <1>1, <2>1, <2>4, <3>1, <3>4 DEF Opened, Finished
    <3> QED
      BY <2>3, <3>5, <3>6 DEF CInv
  <2>6. CASE ~written
    <3>1. pend' = pend /\ pc' = "failing"
      BY <1>5, <2>6 DEF EndFailed
    <3>2. W' = W
      BY <1>1, <3>1 DEF W
    <3>3. ~Shown("body")' /\ ~Shown("fix")'
      BY <1>2, <3>2 DEF Shown, Streamed
    <3>4. Stage' /\ Unleaked'
      BY <1>1, <1>2, <1>4, <2>1, <3>1, <3>2, <3>3 DEF CInv, Stage, Unleaked, Only
    <3>5. Opened'
      BY <1>1, <1>3, <2>1, <2>4, <3>1, <3>2, <3>3 DEF CInv, Opened
    <3>6. Finished'
      BY <1>1, <2>1, <2>4, <3>1 DEF Finished
    <3> QED
      BY <2>3, <3>4, <3>5, <3>6 DEF CInv
  <2> QED
    BY <2>5, <2>6
<1>6. CASE EndLeaked
  <2>1. /\ UNCHANGED <<head, held, headOpen, sentDone, log>> /\ pc' = "closing"
        /\ pend' = <<<<<<"fix", 0>>>>, <<<<"done", 0>>>>>>
        /\ ResponsesLeaked \/ ChatLeaked
    BY <1>6 DEF EndLeaked
  <2>2. H' = H
    BY <2>1 DEF H
  <2>3. Kept'
    BY <1>1, <2>1, <2>2 DEF CInv, Kept, Pure
  <2>4. HeldOpens' /\ (adapter = "openai" => HeldEnds')
    BY <1>3, <2>1 DEF CInv, Opened, Finished
  <2>5. ToSet(W') = ToSet(W) \cup {<<"fix", 0>>, <<"done", 0>>}
    BY <1>1, <2>1, EndTokens, EndChunks
  <2>6. ASSUME ~Mixed
        PROVE  \A tok \in ToSet(W) : tok[1] = "ping"
    <3>1. ~toolCalls
      <4>1. CASE ChatLeaked
        BY <4>1 DEF ChatLeaked
      <4>2. CASE ResponsesLeaked
        <5>1. PICK j \in Events : body[j] \in Responses
          BY <4>2 DEF ResponsesLeaked, CInv, Unleaked, Are
        <5>2. ASSUME NEW i \in Events, body[i] = "tool" PROVE FALSE
          BY <2>6, <5>1, <5>2 DEF Mixed
        <5> QED
          BY <5>2 DEF CInv, Unleaked, Are
      <4> QED
        BY <2>1, <4>1, <4>2
    <3>2. adapter # "none" /\ toolGate
      BY <2>1 DEF ResponsesLeaked, ChatLeaked
    <3> QED
      BY <1>1, <3>1, <3>2 DEF CInv, Unleaked, Only
  <2>7. \A tok \in ToSet(W') : tok[1] \in Streamed \cup {"ping", "fix", "done"}
    BY <1>2, <2>5
  <2>8. ~Shown("body")' /\ ~Shown("event")'
    BY <2>7 DEF Shown, Streamed
  <2>9. Stage'
    BY <1>1, <1>2, <2>1, <2>8 DEF Stage
  <2>10. Unleaked'
    <3>1. ASSUME ~Mixed, NEW k \in Streamed PROVE ~Shown(k)'
      BY <2>5, <2>6, <3>1 DEF Shown, Streamed
    <3> QED
      BY <1>1, <1>4, <2>1, <3>1 DEF CInv, Unleaked
  <2>11. Opened'
    BY <2>1, <2>4, <2>8 DEF Opened
  <2>12. Finished'
    <3>1. HasDone(W')
      <4>1. <<"done", 0>> \in ToSet(W')
        BY <2>5
      <4> QED
        BY <4>1 DEF HasDone
    <3> QED
      BY <1>1, <1>3, <2>1, <2>4, <3>1 DEF Finished
  <2> QED
    BY <2>3, <2>9, <2>10, <2>11, <2>12 DEF CInv
<1>7. CASE EndPlain
  <2>1. /\ pc' = "closing" /\ held' = <<>> /\ head' = <<>> /\ log' = log
        /\ sentDone' = (sentDone \/ \E k \in DOMAIN held : held[k].ends)
    BY <1>7, EndPlainIs DEF EndOfBody
  <2>2. /\ ToSet(W') \subseteq ToSet(W) \cup ToSet(head) \cup ToSet(H) \cup ToSet(buf)
                               \cup {<<"done", 0>>}
        /\ ToSet(W) \cup ToSet(head) \cup ToSet(H) \cup ToSet(buf) \subseteq ToSet(W')
        /\ <<"done", 0>> \in ToSet(W') \/ adapter = "none" \/ sentDone'
    BY <1>7, EndPlainTokens
  <2>3. H' = <<>>
    <3>1. Carried(<<>>) = <<>>
      BY CarriedFacts, TypedState
    <3> QED
      BY <2>1, <3>1 DEF H
  <2>4. Kept'
    BY <1>1, <2>1, <2>3, SetsOfNone DEF CInv, Kept, Pure
  <2>5. \A tok \in ToSet(W') : tok[1] \in Streamed \cup {"ping", "done"}
    BY <1>2, <2>2 DEF CInv, Kept, Pure
  <2>6. ~Shown("body")' /\ ~Shown("event")' /\ ~Shown("fix")'
    BY <2>5 DEF Shown, Streamed
  <2>7. Stage'
    BY <1>1, <1>2, <2>1, <2>6 DEF Stage
  <2>8. Unleaked'
    BY <1>1, <1>4, <2>1, <2>6 DEF CInv, Unleaked
  <2>9. HeldOpens' /\ HeldEnds'
    BY <2>1 DEF HeldOpens, HeldEnds
  <2>10. Opened'
    BY <2>1, <2>6, <2>9 DEF Opened
  <2>11. Finished'
    <3>1. ASSUME adapter = "openai" PROVE HasDone(W')
      <4>1. CASE <<"done", 0>> \in ToSet(W')
        BY <4>1 DEF HasDone
      <4>2. CASE sentDone
        <5>1. HasDone(W) \/ HasDone(head) \/ HasDone(H) \/ HasDone(buf)
          BY <1>1, <3>1, <4>2 DEF CInv, Finished
        <5> QED
          BY <2>2, <5>1 DEF HasDone
      <4>3. ASSUME NEW k \in DOMAIN held, held[k].ends PROVE HasDone(W')
        <5>1. ToSet(held[k].data) \subseteq ToSet(H)
          BY CarriedTokens, TypedState DEF H
        <5> QED
          BY <2>2, <3>1, <4>3, <5>1 DEF CInv, Finished, HeldEnds, HasDone
      <4> QED
        BY <2>1, <2>2, <3>1, <4>1, <4>2, <4>3
    <3> QED
      BY <1>1, <1>3, <2>1, <2>9, <3>1 DEF Finished
  <2> QED
    BY <2>4, <2>7, <2>8, <2>10, <2>11 DEF CInv
<1> QED
  BY <1>5, <1>6, <1>7 DEF EndOfBody

\* And so does every step.
LEMMA CInvNext == TInv /\ CInv /\ [Next]_vars => CInv'
<1> SUFFICES ASSUME TInv, CInv, [Next]_vars
             PROVE  CInv'
  OBVIOUS
<1>1. CASE \E b \in 1..(2 * Len(body)) : Read(b)
  BY <1>1, CInvRead
<1>2. CASE EndOfBody
  BY <1>2, CInvEndOfBody
<1>3. CASE \/ EmptyBody \/ Write \/ DirectBegin \/ DirectEnd \/ Return \/ PingBegin \/ PingEnd
           \/ PingerExit \/ UNCHANGED vars
  BY <1>3, CInvSimple
<1> QED
  BY <1>1, <1>2, <1>3 DEF Next, Handler, Pinger, Over

-----------------------------------------------------------------------------
(* Data.                                                                    *)

\* The data among the tokens of a sequence.
Sift(tok) == IF tok[1] = "data" THEN <<tok>> ELSE <<>>
Sifted(s) == [k \in DOMAIN s |-> IF s[k][1] = "data" THEN <<s[k]>> ELSE <<>>]

\* Sifting keeps the types.
LEMMA SiftedType ==
  ASSUME NEW s \in Seq(Token)
  PROVE  /\ Sifted(s) \in Seq(Seq(Token)) /\ Len(Sifted(s)) = Len(s)
         /\ \A k \in 1..Len(s) : Sifted(s)[k] = Sift(s[k])
         /\ Data(s) = FlattenSeq(Sifted(s)) /\ Data(s) \in Seq(Token)
<1>1. \A tok \in Token : Sift(tok) \in Seq(Token)
  BY DEF Sift
<1>2. DOMAIN s = 1..Len(s) /\ Len(s) \in Nat /\ \A k \in 1..Len(s) : s[k] \in Token
  BY LenProperties, ElementOfSeq
<1>3. Sifted(s) = [k \in 1..Len(s) |-> Sift(s[k])]
  BY <1>2 DEF Sifted, Sift
<1>4. Sifted(s) \in [1..Len(s) -> Seq(Token)]
  BY <1>1, <1>2, <1>3
<1>5. Sifted(s) \in Seq(Seq(Token)) /\ Len(Sifted(s)) = Len(s)
  BY <1>2, <1>4, IsASeq, LenProperties
<1>6. Data(s) = FlattenSeq(Sifted(s))
  BY DEF Data, Sifted
<1>7. Data(s) \in Seq(Token)
  BY <1>5, <1>6, FlattenType
<1> QED
  BY <1>3, <1>5, <1>6, <1>7

\* The data of a concatenation.
LEMMA DataConcat ==
  ASSUME NEW s \in Seq(Token), NEW t \in Seq(Token)
  PROVE  Data(s \o t) = Data(s) \o Data(t)
<1> DEFINE m == Len(s)
           n == Len(t)
           x == Sifted(s \o t)
           y == Sifted(s)
           z == Sifted(t)
<1>1. m \in Nat /\ n \in Nat
  BY LenProperties
<1>2. /\ s \o t \in Seq(Token) /\ Len(s \o t) = m + n
      /\ \A k \in 1..(m + n) : (s \o t)[k] = IF k <= m THEN s[k] ELSE t[k - m]
  BY ConcatProperties
<1>3. /\ x \in Seq(Seq(Token)) /\ y \in Seq(Seq(Token)) /\ z \in Seq(Seq(Token))
      /\ Len(x) = m + n /\ Len(y) = m /\ Len(z) = n
      /\ \A k \in 1..(m + n) : x[k] = Sift((s \o t)[k])
      /\ \A k \in 1..m : y[k] = Sift(s[k])
      /\ \A k \in 1..n : z[k] = Sift(t[k])
      /\ Data(s \o t) = FlattenSeq(x) /\ Data(s) = FlattenSeq(y) /\ Data(t) = FlattenSeq(z)
  <2>1. Len(Sifted(s \o t)) = m + n
    BY <1>2, SiftedType
  <2> QED
    BY <1>2, <2>1, SiftedType
<1> HIDE DEF x, y, z, m, n
<1>4. /\ y \o z \in Seq(Seq(Token)) /\ Len(y \o z) = m + n
      /\ \A k \in 1..(m + n) : (y \o z)[k] = IF k <= m THEN y[k] ELSE z[k - m]
  BY <1>3, ConcatProperties
<1>5. ASSUME NEW k \in 1..(m + n)
      PROVE  x[k] = (y \o z)[k]
  <2>1. CASE k <= m
    <3>1. k \in 1..m
      BY <1>1, <2>1
    <3> QED
      BY <1>2, <1>3, <1>4, <2>1, <3>1, ZenonT(40)
  <2>2. CASE ~(k <= m)
    <3>1. k - m \in 1..n
      BY <1>1, <2>2
    <3> QED
      BY <1>2, <1>3, <1>4, <2>2, <3>1
  <2> QED
    BY <2>1, <2>2
<1>6. x = y \o z
  BY <1>3, <1>4, <1>5, SeqEqual
<1>7. FlattenSeq(y \o z) = FlattenSeq(y) \o FlattenSeq(z)
  BY <1>3, FlattenConcat
<1>8. Data(s \o t) = FlattenSeq(x) /\ Data(s) = FlattenSeq(y) /\ Data(t) = FlattenSeq(z)
  BY <1>3
<1> QED
  BY <1>6, <1>7, <1>8

\* The data of one token
LEMMA DataOne ==
  ASSUME NEW tok \in Token
  PROVE  Data(<<tok>>) = Sift(tok)
<1>1. <<tok>> \in Seq(Token) /\ Len(<<tok>>) = 1 /\ <<tok>>[1] = tok
  OBVIOUS
<1> DEFINE x == Sifted(<<tok>>)
           u == <<tok>>
<1>2. /\ x \in Seq(Seq(Token)) /\ Len(x) = 1 /\ x[1] = Sift(tok)
      /\ Data(<<tok>>) = FlattenSeq(x)
  <2>1. u \in Seq(Token) /\ Len(u) = 1 /\ u[1] = tok
    BY <1>1
  <2> HIDE DEF u
  <2>2. /\ Sifted(u) \in Seq(Seq(Token)) /\ Len(Sifted(u)) = 1 /\ Sifted(u)[1] = Sift(tok)
        /\ Data(u) = FlattenSeq(Sifted(u))
    BY <2>1, SiftedType
  <2> QED
    BY <2>2 DEF u
<1> HIDE DEF x
<1>3. PICK g \in [1..Len(x) -> Seq(Token)] : FlatTo(x, Len(x), g) /\ FlattenSeq(x) = g[Len(x)]
  <2>1. x # <<>>
    <3>1. Len(x) = 1
      BY <1>2
    <3> QED
      BY <3>1
  <2> QED
    BY <1>2, <2>1, FlattenIs
<1> QED
  BY <1>2, <1>3 DEF FlatTo

\* and of none.
LEMMA DataNone == Data(<<>>) = <<>>
<1>1. Sifted(<<>>) = <<>>
  <2>1. <<>> \in Seq(Token) /\ Len(<<>>) = 0
    BY EmptySeq
  <2>2. Sifted(<<>>) \in Seq(Seq(Token)) /\ Len(Sifted(<<>>)) = 0
    BY <2>1, SiftedType
  <2> QED
    BY <2>2, EmptySeq
<1> QED
  BY <1>1 DEF Data, Sifted, FlattenSeq

\* Where all is data, nothing is sifted out.
LEMMA DataAll ==
  ASSUME NEW s \in Seq(Token), \A tok \in ToSet(s) : tok[1] = "data"
  PROVE  Data(s) = s
<1> DEFINE T == {n \in Nat : \A x \in Seq(Token) :
                    Len(x) = n /\ (\A k \in 1..n : x[k][1] = "data") => Data(x) = x}
<1>1. 0 \in T
  <2>1. \A x \in Seq(Token) : Len(x) = 0 => x = <<>>
    BY EmptySeq
  <2> QED
    BY <2>1, DataNone
<1>2. ASSUME NEW n \in Nat, n \in T PROVE n + 1 \in T
  <2>1. ASSUME NEW x \in Seq(Token), Len(x) = n + 1, \A k \in 1..(n + 1) : x[k][1] = "data"
        PROVE  Data(x) = x
    <3> DEFINE y == SubSeq(x, 1, n)
               l == x[n + 1]
    <3>1. /\ y \in Seq(Token) /\ Len(y) = n /\ l \in Token /\ l[1] = "data"
          /\ \A k \in 1..n : y[k] = x[k]
      BY <2>1
    <3>2. x = y \o <<l>>
      BY <2>1
    <3> HIDE DEF y, l
    <3>3. Data(y) = y
      BY <1>2, <2>1, <3>1
    <3>4. Data(<<l>>) = <<l>>
      BY <3>1, DataOne DEF Sift
    <3>5. <<l>> \in Seq(Token)
      BY <3>1
    <3>6. Data(y \o <<l>>) = Data(y) \o Data(<<l>>)
      BY <3>1, <3>5, DataConcat
    <3> QED
      BY <3>2, <3>3, <3>4, <3>6
  <2> QED
    BY <2>1
<1> HIDE DEF T
<1>3. Nat \subseteq T
  BY <1>1, <1>2, Induct
<1>4. Len(s) \in T
  BY <1>3, LenProperties
<1>5. \A k \in 1..Len(s) : s[k][1] = "data"
  BY LenProperties DEF ToSet
<1> QED
  BY <1>4, <1>5 DEF T

\* A run is all data.
LEMMA DataRun ==
  ASSUME NEW a \in Nat \ {0}, NEW b \in Nat, a <= b + 1
  PROVE  /\ \A tok \in ToSet(Run(a, b)) : tok[1] = "data"
         /\ Data(Run(a, b)) = Run(a, b)
<1>1. /\ Run(a, b) \in Seq(Token) /\ DOMAIN Run(a, b) = 1..(b - a + 1)
      /\ \A k \in 1..(b - a + 1) : Run(a, b)[k] = <<"data", a + k - 1>>
  BY RunFacts, LenProperties
<1>2. \A tok \in ToSet(Run(a, b)) : tok[1] = "data"
  BY <1>1 DEF ToSet
<1> QED
  BY <1>1, <1>2, DataAll

-----------------------------------------------------------------------------
(* Lines.                                                                   *)

\* No keepalive comment.
Unpinged(s) == \A tok \in ToSet(s) : tok[1] # "ping"

\* Where comments and line ends are: PingSplitsNoLine, strengthened to an invariant.
Lines ==
    /\ Unpinged(FlattenSeq(pend))
    /\ lineStart /\ out # <<>> => EndsLine(Last(out))
    /\ pinger = "writing" => lineStart
    /\ PingSplitsNoLine

\* What a turn of the loop or the end of the body queues for the client is of the stream
\* or synthesized.
LEMMA PendTokens ==
  ASSUME TInv, CInv, EndOfBody \/ \E b \in 1..(2 * Len(body)) : Read(b)
  PROVE  Unpinged(FlattenSeq(pend'))
<1>1. \A x, y \in Seq(Token) : x \o y \in Seq(Token) /\ ToSet(x \o y) = ToSet(x) \cup ToSet(y)
  BY ConcatProperties, ToSetConcat
<1>2. /\ head \in Seq(Token) /\ H \in Seq(Token) /\ buf \in Seq(Token)
      /\ Pure(head) /\ Pure(H) /\ Pure(buf)
  BY TypedState DEF TInv, TypeOK, CInv, Kept
<1>3. \A s : Pure(s) => Unpinged(s)
  BY DEF Pure, Unpinged, Streamed
<1>4. FlattenSeq(<<>>) = <<>> /\ Unpinged(<<>>)
  <2>1. FlattenSeq(<<>>) = <<>>
    BY DEF FlattenSeq
  <2> QED
    BY <1>3, <2>1, SetsOfNone
<1>5. ASSUME NEW b \in 1..(2 * Len(body)), Read(b)
      PROVE  Unpinged(FlattenSeq(pend'))
  <2>1. PICK shown : /\ ReadOf(b, shown)
                     /\ \/ RelayRaw(fed + 1, b, shown)
                        \/ UpstreamFails(fed + 1, b, shown)
                        \/ RelayChat(fed + 1, b, shown)
    BY <1>5, ReadIs
  <2>2. pend = <<>>
    BY <2>1 DEF ReadOf
  <2> DEFINE p == Parsed(fed + 1, b)
             r == Run(fed + 1, b)
  <2>3. p \in Seq(Token) /\ r \in Seq(Token) /\ Pure(p) /\ Pure(r)
    <3>1. /\ body \in Streams /\ fed + 1 \in Nat \ {0} /\ b \in Nat
          /\ fed + 1 <= b /\ fed + 1 <= b + 1
      BY <2>1 DEF TInv, TypeOK, ReadOf
    <3> QED
      BY <2>1, <3>1, ParsedType, RunFacts, ParsedTokens
  <2>4. CASE pend' = pend
    BY <1>4, <2>2, <2>4
  <2>5. CASE Relays(b)
    <3>1. pend' = Append(pend, r)
      BY <2>5 DEF Relays
    <3> HIDE DEF r
    <3>2. FlattenSeq(pend') = FlattenSeq(pend) \o r
      BY <2>3, <3>1, FlattenAppend DEF TInv, TypeOK
    <3>3. FlattenSeq(pend') = r
      BY <1>4, <2>2, <2>3, <3>2, ConcatEmptySeq
    <3> QED
      BY <1>3, <2>3, <3>3
  <2>6. ASSUME NEW ended \in BOOLEAN, Forwards(b, shown, ended)
        PROVE  Unpinged(FlattenSeq(pend'))
    <3>1. PICK s \in Sinks : Put(s) /\ Line(s) = (head \o H) \o p
      BY <2>1, <2>6, ForwardIs DEF Forwards
    <3> DEFINE q == FlattenSeq(pend')
               g == head'
    <3>2. q \in Seq(Token) /\ g \in Seq(Token) /\ q \o g = (head \o H) \o p
      BY <3>1, PutType, FlattenType DEF PutFacts
    <3> HIDE DEF p, q, g
    <3>3. head \o H \in Seq(Token) /\ Pure(head \o H)
      BY <1>2, SetsOf, ConcatProperties
    <3>4. Pure((head \o H) \o p)
      BY <2>3, <3>3, SetsOf
    <3>5. Pure(q)
      BY <3>2, <3>4, SetsOf
    <3> QED
      BY <1>3, <3>5 DEF q
  <2>7. CASE RelayRaw(fed + 1, b, shown)
    <3>1. Buffers(b) \/ Relays(b)
      BY <2>7, RawIs
    <3> QED
      BY <2>4, <2>5, <3>1 DEF Buffers
  <2>8. CASE UpstreamFails(fed + 1, b, shown)
    BY <2>4, <2>8 DEF UpstreamFails
  <2>9. CASE RelayChat(fed + 1, b, shown)
    <3> DEFINE ended == sentDone \/ Are({"done"}, shown) # {}
    <3>1. Buffers(b) \/ Holds(b, shown, ended) \/ Forwards(b, shown, ended)
      BY <2>9, ChatIs
    <3>2. ended \in BOOLEAN
      OBVIOUS
    <3> HIDE DEF ended
    <3> QED
      BY <2>4, <2>6, <3>1, <3>2 DEF Buffers, Holds, Hold
  <2> QED
    BY <2>1, <2>7, <2>8, <2>9
<1>6. CASE EndOfBody
  <2>1. pend = <<>>
    BY <1>6 DEF EndOfBody
  <2>2. CASE EndFailed
    <3>1. pend' = pend \/ pend' = <<<<<<"event", 0>>>>>>
      BY <2>2 DEF EndFailed
    <3>2. CASE pend' = pend
      BY <1>4, <2>1, <3>2
    <3>3. CASE pend' = <<<<<<"event", 0>>>>>>
      BY <3>3, EndChunks DEF Unpinged
    <3> QED
      BY <3>1, <3>2, <3>3
  <2>3. CASE EndLeaked
    <3>1. pend' = <<<<<<"fix", 0>>>>, <<<<"done", 0>>>>>>
      BY <2>3 DEF EndLeaked
    <3> QED
      BY <3>1, EndChunks DEF Unpinged
  <2>4. CASE EndPlain
    <3> DEFINE a == (head \o H) \o buf
               d == <<<<"done", 0>>>>
    <3>1. FlattenSeq(pend') = a \/ FlattenSeq(pend') = a \o d
      BY <1>6, <2>4, EndPlainIs DEF EndOfBody
    <3>2. head \o H \in Seq(Token) /\ Pure(head \o H)
      BY <1>2, SetsOf, ConcatProperties
    <3>3. a \in Seq(Token) /\ Pure(a)
      BY <1>2, <3>2, SetsOf, ConcatProperties
    <3>4. d \in Seq(Token) /\ ToSet(d) = {<<"done", 0>>}
      BY SomeToken, ToSetOne
    <3> HIDE DEF a, d
    <3>5. ToSet(a \o d) = ToSet(a) \cup {<<"done", 0>>}
      BY <1>1, <3>3, <3>4
    <3>6. Unpinged(a) /\ Unpinged(a \o d)
      BY <1>3, <3>3, <3>5 DEF Unpinged
    <3> QED
      BY <3>1, <3>6
  <2> QED
    BY <1>6, <2>2, <2>3, <2>4 DEF EndOfBody
<1> QED
  BY <1>5, <1>6

\* A token is appended outside streamWriter.
LEMMA LinesAppend ==
  ASSUME out \in Seq(Token), PingSplitsNoLine, NEW tok \in Token, out' = Append(out, tok),
         tok[1] = "ping" /\ out # <<>> => EndsLine(Last(out))
  PROVE  PingSplitsNoLine' /\ out' # <<>> /\ Last(out') = tok
<1>1. /\ Len(out) \in Nat /\ Len(out') = Len(out) + 1 /\ out' \in Seq(Token)
      /\ \A k \in 1..Len(out) : out'[k] = out[k]
      /\ out'[Len(out) + 1] = tok
  BY AppendProperties, LenProperties
<1>2. out' # <<>> /\ Last(out') = tok
  BY <1>1, EmptySeq DEF Last
<1>3. ASSUME NEW k \in 2..Len(out'), out'[k][1] = "ping"
      PROVE  EndsLine(out'[k - 1])
  <2>1. CASE k <= Len(out)
    <3>1. k \in 2..Len(out) /\ k \in 1..Len(out) /\ k - 1 \in 1..Len(out)
      BY <1>1, <2>1
    <3> QED
      BY <1>1, <1>3, <3>1 DEF PingSplitsNoLine
  <2>2. CASE k = Len(out) + 1
    <3>1. Len(out) \in 1..Len(out) /\ k - 1 = Len(out) /\ out # <<>>
      BY <1>1, <2>2, EmptySeq
    <3>2. tok[1] = "ping"
      BY <1>1, <1>3, <2>2
    <3> QED
      BY <1>1, <3>1, <3>2 DEF Last
  <2> QED
    BY <1>1, <2>1, <2>2
<1> QED
  BY <1>2, <1>3 DEF PingSplitsNoLine

\* A chunk is written through it.
LEMMA LinesWrite ==
  ASSUME TInv, Lines, Write
  PROVE  Lines'
<1> DEFINE c == Head(pend)
           m == Len(out)
           n == Len(c)
<1>1. /\ c \in Seq(Token) /\ pend' \in Seq(Seq(Token)) /\ out' \in Seq(Token)
      /\ out' = out \o c
      /\ FlattenSeq(pend) = c \o FlattenSeq(pend')
  BY WriteIs
<1>2. /\ lineStart' = (IF c = <<>> THEN lineStart ELSE EndsLine(Last(c)))
      /\ pinger # "writing" /\ pinger' = pinger
  BY DEF Write, keepalive
<1> HIDE DEF c
<1>3. out \in Seq(Token) /\ FlattenSeq(pend') \in Seq(Token)
  BY <1>1, FlattenType DEF TInv, TypeOK
<1>4. ToSet(FlattenSeq(pend)) = ToSet(c) \cup ToSet(FlattenSeq(pend'))
  BY <1>1, <1>3, ToSetConcat
<1>5. Unpinged(FlattenSeq(pend')) /\ Unpinged(c)
  BY <1>4 DEF Lines, Unpinged
<1>6. m \in Nat /\ n \in Nat
  BY <1>1, <1>3, LenProperties
<1>7. /\ Len(out') = m + n
      /\ \A k \in 1..(m + n) : out'[k] = IF k <= m THEN out[k] ELSE c[k - m]
  BY <1>1, <1>3, ConcatProperties
<1>8. \A k \in 1..n : c[k] \in ToSet(c)
  BY <1>1, LenProperties DEF ToSet
<1> HIDE DEF m, n
<1>9. ASSUME NEW k \in 2..Len(out'), out'[k][1] = "ping"
      PROVE  EndsLine(out'[k - 1])
  <2>1. CASE k <= m
    <3>1. k \in 2..m /\ k \in 1..(m + n) /\ k - 1 \in 1..(m + n) /\ k - 1 <= m
      BY <1>6, <1>7, <2>1
    <3>2. out'[k] = out[k] /\ out'[k - 1] = out[k - 1]
      BY <1>7, <2>1, <3>1
    <3> QED
      BY <1>9, <3>1, <3>2 DEF Lines, PingSplitsNoLine, m
  <2>2. CASE ~(k <= m)
    <3>1. k \in 1..(m + n) /\ k - m \in 1..n
      BY <1>6, <1>7, <2>2
    <3>2. out'[k] \in ToSet(c)
      BY <1>7, <1>8, <2>2, <3>1
    <3> QED
      BY <1>5, <1>9, <3>2 DEF Unpinged
  <2> QED
    BY <2>1, <2>2
<1>10. ASSUME lineStart', out' # <<>>
       PROVE  EndsLine(Last(out'))
  <2>1. CASE c = <<>>
    <3>1. out' = out /\ lineStart' = lineStart
      BY <1>1, <1>2, <1>3, <2>1, ConcatEmptySeq
    <3> QED
      BY <1>10, <3>1 DEF Lines
  <2>2. CASE c # <<>>
    <3>1. n # 0
      BY <1>1, <2>2, EmptySeq DEF n
    <3> DEFINE j == m + n
    <3>2. j \in 1..(m + n) /\ ~(j <= m) /\ j - m = n /\ Len(out') = j
      BY <1>6, <1>7, <3>1
    <3> HIDE DEF j
    <3>3. out'[j] = c[j - m]
      BY <1>7, <3>2
    <3>4. Last(out') = c[n] /\ Last(c) = c[n]
      BY <3>2, <3>3 DEF Last, n
    <3> QED
      BY <1>2, <1>10, <2>2, <3>4
  <2> QED
    BY <2>1, <2>2
<1> QED
  BY <1>2, <1>5, <1>9, <1>10 DEF Lines, PingSplitsNoLine

\* Every step keeps it.
LEMMA LinesNext == TInv /\ CInv /\ Lines /\ [Next]_vars => Lines'
<1> SUFFICES ASSUME TInv, CInv, Lines, [Next]_vars
             PROVE  Lines'
  OBVIOUS
<1>1. out \in Seq(Token)
  BY DEF TInv, TypeOK
<1>2. CASE (\E b \in 1..(2 * Len(body)) : Read(b)) \/ EndOfBody
  <2>1. Unpinged(FlattenSeq(pend'))
    BY <1>2, PendTokens
  <2>2. UNCHANGED <<out, lineStart>>
    BY <1>2 DEF Read, EndOfBody, client
  <2>3. pinger' # "writing" \/ pinger' = pinger
    BY <1>2 DEF Read, StartSSE, EndOfBody, keepalive
  <2> QED
    BY <2>1, <2>2, <2>3 DEF Lines, PingSplitsNoLine
<1>3. CASE Write
  BY <1>3, LinesWrite
<1>4. CASE EmptyBody \/ DirectEnd
  <2>1. out' = Append(out, <<"body", 0>>) /\ UNCHANGED <<pend, lineStart, pinger>>
    BY <1>4 DEF EmptyBody, DirectEnd, sorting, keepalive
  <2> DEFINE t == <<"body", 0>>
  <2>2. t \in Token /\ t[1] # "ping" /\ EndsLine(t)
    BY TokenKinds DEF EndsLine
  <2>0. out' = Append(out, t)
    BY <2>1
  <2> HIDE DEF t
  <2>3. PingSplitsNoLine' /\ Last(out') = t
    BY <1>1, <2>0, <2>2, LinesAppend DEF Lines
  <2> QED
    BY <2>1, <2>2, <2>3 DEF Lines
<1>5. CASE PingEnd
  <2>1. out' = Append(out, <<"ping", 0>>) /\ UNCHANGED <<pend, lineStart>> /\ pinger' = "idle"
        /\ pinger = "writing"
    BY <1>5 DEF PingEnd, sorting
  <2> DEFINE t == <<"ping", 0>>
  <2>2. t \in Token /\ EndsLine(t)
    BY TokenKinds DEF EndsLine
  <2>0. out' = Append(out, t)
    BY <2>1
  <2> HIDE DEF t
  <2>3. out # <<>> => EndsLine(Last(out))
    BY <2>1 DEF Lines
  <2>4. PingSplitsNoLine' /\ Last(out') = t
    BY <1>1, <2>0, <2>2, <2>3, LinesAppend DEF Lines
  <2> QED
    BY <2>1, <2>2, <2>4 DEF Lines
<1>6. CASE PingBegin
  <2>1. UNCHANGED <<out, pend, lineStart>> /\ lineStart
    BY <1>6 DEF PingBegin, sorting, client
  <2> QED
    BY <2>1 DEF Lines, PingSplitsNoLine
<1>7. CASE DirectBegin \/ Return \/ PingerExit \/ UNCHANGED vars
  <2>1. UNCHANGED <<out, pend, lineStart>> /\ (pinger' = pinger \/ pinger' = "gone")
    BY <1>7 DEF DirectBegin, Return, PingerExit, vars, sorting, client, keepalive
  <2> QED
    BY <2>1 DEF Lines, PingSplitsNoLine
<1> QED
  BY <1>2, <1>3, <1>4, <1>5, <1>6, <1>7 DEF Next, Handler, Pinger, Over

\* It holds at first.
LEMMA LinesInit == Init => Lines
<1> SUFFICES ASSUME Init PROVE Lines
  OBVIOUS
<1>1. pend = <<>> /\ out = <<>> /\ pinger = "none"
  BY DEF Init
<1>2. FlattenSeq(<<>>) = <<>>
  BY DEF FlattenSeq
<1>3. Unpinged(<<>>)
  BY ToSetOne DEF Unpinged
<1> QED
  BY <1>1, <1>2, <1>3 DEF Lines, PingSplitsNoLine

-----------------------------------------------------------------------------
(* Where the data is.                                                       *)

\* The way of a token to the client: written, pending, in the head, held back.
Path == (W \o head) \o H

\* Data is on the path or in the Responses buffer, in the order it was read.
Whereabouts ==
    adapter # "converting" =>
      /\ pc \in {"first", "read"} => Data(Path) \o buf = Run(1, fed)
      /\ pc \in {"closing", "gone"} /\ log # "error" /\ ~Shown("fix") => Data(Path) = Run(1, fed)

\* The path is a sequence of tokens.
LEMMA PathType ==
  ASSUME TInv
  PROVE  /\ Path \in Seq(Token) /\ buf \in Seq(Token) /\ W \in Seq(Token)
         /\ head \in Seq(Token) /\ H \in Seq(Token)
         /\ Data(Path) \in Seq(Token)
<1>1. W \in Seq(Token) /\ head \in Seq(Token) /\ H \in Seq(Token) /\ buf \in Seq(Token)
  BY TypedState DEF TInv, TypeOK
<1>2. Path \in Seq(Token)
  BY <1>1, ConcatProperties DEF Path
<1> QED
  BY <1>1, <1>2, SiftedType

\* A turn of the loop that goes on appends the bytes read to the path or to the buffer.
LEMMA PathRead ==
  ASSUME TInv, NEW b \in 1..(2 * Len(body)), Read(b), pc' = "read", adapter # "converting"
  PROVE  /\ fed \in Nat /\ b \in Nat /\ fed < b /\ fed' = b
         /\ \/ Path' = Path /\ buf' = buf \o Run(fed + 1, b)
            \/ Path' = Path \o Run(fed + 1, b) /\ buf = <<>> /\ buf' = <<>>
<1>1. PICK shown : /\ ReadOf(b, shown)
                   /\ \/ RelayRaw(fed + 1, b, shown)
                      \/ UpstreamFails(fed + 1, b, shown)
                      \/ RelayChat(fed + 1, b, shown)
  BY ReadIs
<1> DEFINE r == Run(fed + 1, b)
<1>2. Parsed(fed + 1, b) = r
  BY DEF Parsed
<1>3. r \in Seq(Token)
  <2>1. fed + 1 \in Nat \ {0} /\ b \in Nat /\ fed + 1 <= b + 1
    BY <1>1 DEF ReadOf
  <2> QED
    BY <2>1, RunFacts
<1>4. /\ W \in Seq(Token) /\ head \in Seq(Token) /\ H \in Seq(Token)
      /\ W \o head \in Seq(Token)
  BY PathType, ConcatProperties
<1>5. ASSUME active' = (active \/ Are(Responses, shown) # {}), ~active' PROVE buf = <<>>
  BY <1>5 DEF TInv, TypeOK
<1>6. CASE Buffers(b)
  <2>1. Path' = Path
    BY <1>1, <1>6, BuffersIs DEF Path
  <2> QED
    BY <1>1, <1>6, <2>1 DEF Buffers, ReadOf
<1>7. CASE RelayRaw(fed + 1, b, shown)
  <2>1. /\ adapter = "none"
        /\ Buffers(b) \/ Relays(b)
        /\ active' = (active \/ Are(Responses, shown) # {})
    BY <1>7, RawIs
  <2>2. CASE Relays(b)
    <3>1. W' = W \o r /\ H' = H /\ head' = head /\ buf' = buf /\ ~active'
      BY <1>1, <2>2, RelaysIs DEF Relays
    <3>2. head = <<>> /\ H = <<>>
      <4>1. head = <<>> /\ held = <<>>
        BY <2>1 DEF TInv, Frame
      <4>2. Carried(<<>>) = <<>>
        BY CarriedFacts, TypedState
      <4> QED
        BY <4>1, <4>2 DEF H
    <3> HIDE DEF r
    <3>3. W \o r \in Seq(Token)
      BY <1>3, <1>4, ConcatProperties
    <3>4. \A x \in Seq(Token) : (x \o <<>>) \o <<>> = x
      BY ConcatEmptySeq
    <3>5. Path = W /\ Path' = W \o r
      BY <1>4, <3>1, <3>2, <3>3, <3>4 DEF Path
    <3> QED
      BY <1>1, <1>5, <2>1, <3>1, <3>5 DEF ReadOf, r
  <2> QED
    BY <1>6, <2>1, <2>2
<1>8. CASE RelayChat(fed + 1, b, shown)
  <2> DEFINE ended == sentDone \/ Are({"done"}, shown) # {}
  <2>1. /\ Buffers(b) \/ Holds(b, shown, ended) \/ Forwards(b, shown, ended)
        /\ active' = (active \/ Are(Responses, shown) # {})
    BY <1>8, ChatIs
  <2>0. ended \in BOOLEAN
    OBVIOUS
  <2> HIDE DEF ended
  <2>2. CASE Holds(b, shown, ended)
    <3>1. W' = W /\ head' = head /\ H' = H \o r
      BY <1>1, <1>2, <2>2, HoldsIs
    <3>2. buf' = buf /\ ~active'
      BY <2>2 DEF Holds
    <3> HIDE DEF r
    <3>3. \A x, y, z \in Seq(Token) : x \o (y \o z) = (x \o y) \o z
      BY Assoc, SMTT(40)
    <3>4. (W \o head) \o (H \o r) = ((W \o head) \o H) \o r
      BY <1>3, <1>4, <3>3
    <3>5. Path' = Path \o r
      BY <3>1, <3>4 DEF Path
    <3> QED
      BY <1>1, <1>5, <2>1, <3>2, <3>5 DEF ReadOf, r
  <2>3. CASE Forwards(b, shown, ended)
    <3>0. /\ W' \in Seq(Token) /\ head' \in Seq(Token) /\ H' = <<>>
          /\ W' \o head' = ((W \o head) \o H) \o Parsed(fed + 1, b)
      <4>1. TInv /\ ReadOf(b, shown)
        BY <1>1
      <4> QED
        BY <2>0, <2>3, <4>1, ForwardsIs
    <3>1. /\ W' \in Seq(Token) /\ head' \in Seq(Token) /\ H' = <<>>
          /\ W' \o head' = ((W \o head) \o H) \o r
      BY <1>2, <3>0
    <3>2. buf' = buf /\ ~active'
      BY <2>3 DEF Forwards
    <3>3. W' \o head' \in Seq(Token)
      BY <3>1, ConcatProperties
    <3>4. (W' \o head') \o <<>> = W' \o head'
      BY <3>3, ConcatEmptySeq
    <3>5. Path' = Path \o r
      BY <3>1, <3>4 DEF Path
    <3> QED
      BY <1>1, <1>5, <2>1, <3>2, <3>5 DEF ReadOf
  <2> QED
    BY <1>6, <2>1, <2>2, <2>3
<1>9. CASE UpstreamFails(fed + 1, b, shown)
  BY <1>9 DEF UpstreamFails
<1> QED
  BY <1>1, <1>7, <1>8, <1>9

\* The end of the body empties the head, the held chunks and the buffer.
LEMMA PathEnd ==
  ASSUME TInv, EndOfBody, EndPlain
  PROVE  Path' = Path \o buf \/ Path' = (Path \o buf) \o <<<<"done", 0>>>>
<1> DEFINE d == <<<<"done", 0>>>>
<1>1. /\ held' = <<>> /\ head' = <<>> /\ pend = <<>> /\ out' = out
      /\ FlattenSeq(pend') = (head \o H) \o buf \/ FlattenSeq(pend') = ((head \o H) \o buf) \o d
  BY EndPlainIs DEF EndOfBody, client
<1>2. /\ out \in Seq(Token) /\ head \in Seq(Token) /\ H \in Seq(Token) /\ buf \in Seq(Token)
      /\ d \in Seq(Token)
  BY PathType, SomeToken DEF TInv, TypeOK
<1>3. W = out
  <2>1. FlattenSeq(<<>>) = <<>>
    BY DEF FlattenSeq
  <2> QED
    BY <1>1, <1>2, <2>1, ConcatEmptySeq DEF W
<1>4. H' = <<>>
  <2>1. Carried(<<>>) = <<>>
    BY CarriedFacts, TypedState
  <2> QED
    BY <1>1, <2>1 DEF H
<1> HIDE DEF d
<1>5. \A x, y \in Seq(Token) : x \o y \in Seq(Token) /\ x \o <<>> = x
  BY ConcatProperties, ConcatEmptySeq
<1>6. \A x, y, z \in Seq(Token) : x \o (y \o z) = (x \o y) \o z
  BY Assoc
<1>7. /\ head \o H \in Seq(Token) /\ (head \o H) \o buf \in Seq(Token)
      /\ out \o head \in Seq(Token) /\ (out \o head) \o H \in Seq(Token)
      /\ ((out \o head) \o H) \o buf \in Seq(Token)
  BY <1>2, <1>5
<1>8. out \o ((head \o H) \o buf) = ((out \o head) \o H) \o buf
  <2>1. out \o (head \o H) = (out \o head) \o H
    BY <1>2, <1>6
  <2> QED
    BY <1>2, <1>6, <1>7, <2>1, SMTT(40)
<1>9. out \o (((head \o H) \o buf) \o d) = (((out \o head) \o H) \o buf) \o d
  BY <1>2, <1>6, <1>7, <1>8, SMTT(40)
<1> DEFINE a == (head \o H) \o buf
<1>10. CASE FlattenSeq(pend') = a
  <2>1. W' = ((out \o head) \o H) \o buf
    BY <1>1, <1>8, <1>10 DEF W
  <2>2. Path' = ((out \o head) \o H) \o buf
    BY <1>1, <1>4, <1>5, <1>7, <2>1 DEF Path
  <2> QED
    BY <1>3, <2>2 DEF Path
<1>11. CASE FlattenSeq(pend') = a \o d
  <2>1. W' = (((out \o head) \o H) \o buf) \o d
    BY <1>1, <1>9, <1>11 DEF W
  <2>2. (((out \o head) \o H) \o buf) \o d \in Seq(Token)
    BY <1>2, <1>5, <1>7
  <2>3. Path' = (((out \o head) \o H) \o buf) \o d
    BY <1>1, <1>4, <1>5, <2>1, <2>2 DEF Path
  <2> QED
    BY <1>3, <2>3 DEF Path, d
<1> QED
  BY <1>1, <1>10, <1>11

\* A comment, or a token that is no data, adds no data to the path.
LEMMA PathPing ==
  ASSUME TInv, PingEnd
  PROVE  Data(Path') = Data(Path)
<1> DEFINE t == <<<<"ping", 0>>>>
           q == FlattenSeq(pend)
<1>1. out' = out \o t /\ UNCHANGED <<pend, head, held>>
  <2> DEFINE x == <<"ping", 0>>
  <2>1. out \in Seq(Token) /\ x \in Token
    BY TokenKinds DEF TInv, TypeOK
  <2>2. out' = Append(out, x) /\ UNCHANGED <<pend, head, held>>
    BY DEF PingEnd, sorting
  <2> HIDE DEF x
  <2>3. Append(out, x) = out \o <<x>>
    BY <2>1, AppendIsConcat
  <2> QED
    BY <2>2, <2>3 DEF x
<1>2. /\ out \in Seq(Token) /\ head \in Seq(Token) /\ H \in Seq(Token) /\ q \in Seq(Token)
      /\ t \in Seq(Token)
  BY PathType, TypedState, SomeToken DEF TInv, TypeOK
<1>3. Data(t) = <<>>
  <2>1. <<"ping", 0>> \in Token
    BY TokenKinds
  <2> QED
    BY <2>1, DataOne DEF Sift
<1>4. W' = (out \o t) \o q /\ W = out \o q /\ H' = H /\ head' = head
  BY <1>1 DEF W, H
<1> HIDE DEF t, q
<1>5. \A x, y \in Seq(Token) : /\ x \o y \in Seq(Token) /\ x \o <<>> = x
                               /\ Data(x) \in Seq(Token)
                               /\ Data(x \o y) = Data(x) \o Data(y)
  BY ConcatProperties, ConcatEmptySeq, DataConcat, SiftedType
<1>6. out \o t \in Seq(Token) /\ Data(out \o t) = Data(out)
  <2>1. out \o t \in Seq(Token) /\ Data(out \o t) = Data(out) \o Data(t)
    BY <1>2, <1>5
  <2>2. Data(out) \o <<>> = Data(out)
    BY <1>2, <1>5
  <2> QED
    BY <1>3, <2>1, <2>2
<1>7. /\ W \in Seq(Token) /\ W' \in Seq(Token)
      /\ Data(W') = Data(W)
  <2>1. out \o q \in Seq(Token) /\ (out \o t) \o q \in Seq(Token)
    BY <1>2, <1>5, <1>6
  <2>2. Data(out \o q) = Data(out) \o Data(q)
    BY <1>2, <1>5
  <2>3. Data((out \o t) \o q) = Data(out \o t) \o Data(q)
    BY <1>2, <1>5, <1>6
  <2> QED
    BY <1>4, <1>6, <2>1, <2>2, <2>3
<1> DEFINE v == W'
<1>8. v \in Seq(Token) /\ Data(v) = Data(W)
  BY <1>7
<1>9. Path' = (v \o head) \o H
  BY <1>4 DEF Path
<1> HIDE DEF v
<1>10. /\ v \o head \in Seq(Token) /\ W \o head \in Seq(Token)
       /\ Data(v \o head) = Data(v) \o Data(head) /\ Data(W \o head) = Data(W) \o Data(head)
  BY <1>2, <1>5, <1>7, <1>8
<1>11. /\ Data((v \o head) \o H) = Data(v \o head) \o Data(H)
       /\ Data((W \o head) \o H) = Data(W \o head) \o Data(H)
  BY <1>2, <1>5, <1>10
<1> QED
  BY <1>8, <1>9, <1>10, <1>11 DEF Path

\* A Read keeps it so
LEMMA WhereaboutsRead ==
  ASSUME TInv, Whereabouts, NEW b \in 1..(2 * Len(body)), Read(b)
  PROVE  Whereabouts'
<1>1. PICK shown : /\ ReadOf(b, shown)
                   /\ \/ RelayRaw(fed + 1, b, shown)
                      \/ UpstreamFails(fed + 1, b, shown)
                      \/ RelayChat(fed + 1, b, shown)
  BY ReadIs
<1>2. pc \in {"first", "read"} /\ UNCHANGED adapter
  BY <1>1 DEF ReadOf
<1>3. pc' \in {"read", "failing"}
  BY <1>1, Unfailing DEF UpstreamFails
<1>4. ASSUME pc' = "read", adapter # "converting"
      PROVE  Data(Path') \o buf' = Run(1, fed')
  <2> DEFINE r == Run(fed + 1, b)
  <2>1. /\ fed \in Nat /\ b \in Nat /\ fed < b /\ fed' = b
        /\ \/ Path' = Path /\ buf' = buf \o r
           \/ Path' = Path \o r /\ buf = <<>> /\ buf' = <<>>
    BY <1>4, PathRead
  <2>2. Data(Path) \o buf = Run(1, fed)
    BY <1>2, <1>4 DEF Whereabouts
  <2>3. Run(1, fed) \o r = Run(1, b)
    BY <2>1, RunMore
  <2>4. r \in Seq(Token) /\ Data(r) = r
    <3>1. fed + 1 \in Nat \ {0} /\ fed + 1 <= b + 1
      BY <2>1
    <3> QED
      BY <2>1, <3>1, RunFacts, DataRun
  <2>5. Path \in Seq(Token) /\ buf \in Seq(Token) /\ Data(Path) \in Seq(Token)
    BY PathType
  <2> HIDE DEF r
  <2>6. CASE Path' = Path /\ buf' = buf \o r
    <3>1. Data(Path) \o (buf \o r) = (Data(Path) \o buf) \o r
      BY <2>4, <2>5, Assoc, SMTT(40)
    <3> QED
      BY <2>1, <2>2, <2>3, <2>6, <3>1
  <2>7. CASE Path' = Path \o r /\ buf = <<>> /\ buf' = <<>>
    <3>1. Data(Path \o r) = Data(Path) \o r
      BY <2>4, <2>5, DataConcat, ZenonT(40)
    <3>2. Data(Path) \o <<>> = Data(Path)
      BY <2>5, ConcatEmptySeq
    <3>3. Data(Path') \o buf' = (Data(Path) \o r) \o <<>>
      BY <2>7, <3>1
    <3>4. Data(Path) \o r \in Seq(Token)
      BY <2>4, <2>5, ConcatProperties
    <3>5. (Data(Path) \o r) \o <<>> = Data(Path) \o r
      BY <3>4, ConcatEmptySeq
    <3> QED
      BY <2>1, <2>2, <2>3, <2>7, <3>2, <3>3, <3>5
  <2> QED
    BY <2>1, <2>6, <2>7
<1> QED
  BY <1>2, <1>3, <1>4 DEF Whereabouts

\* and so does the end of the body,
LEMMA WhereaboutsEnd ==
  ASSUME TInv, CInv, Whereabouts, EndOfBody
  PROVE  Whereabouts'
<1>1. pc = "read" /\ UNCHANGED <<adapter, fed>>
  BY DEF EndOfBody, reading
<1>2. CASE EndFailed
  <2>1. log' = "error" /\ pc' \in {"closing", "failing"}
    BY <1>2 DEF EndFailed
  <2> QED
    BY <2>1 DEF Whereabouts
<1>3. CASE EndLeaked
  <2>1. pc' = "closing" /\ pend' = <<<<<<"fix", 0>>>>, <<<<"done", 0>>>>>>
        /\ pend = <<>> /\ out' = out
    BY <1>3 DEF EndLeaked, EndOfBody, client
  <2>2. ToSet(W') = ToSet(W) \cup {<<"fix", 0>>, <<"done", 0>>}
    BY <2>1, EndTokens, EndChunks
  <2>3. <<"fix", 0>> \in ToSet(W')
    BY <2>2
  <2>4. Shown("fix")'
    BY <2>3 DEF Shown
  <2> QED
    BY <2>1, <2>4 DEF Whereabouts
<1>4. CASE EndPlain
  <2>1. pc' = "closing"
    BY <1>4, EndPlainIs DEF EndOfBody
  <2>2. ASSUME adapter # "converting"
        PROVE  Data(Path') = Run(1, fed)
    <3> DEFINE d == <<<<"done", 0>>>>
               r == Run(1, fed)
    <3>1. Data(Path) \o buf = r
      BY <1>1, <2>2 DEF Whereabouts
    <3>2. Path \in Seq(Token) /\ buf \in Seq(Token) /\ Data(Path) \in Seq(Token)
      BY PathType
    <3>3. d \in Seq(Token) /\ Data(d) = <<>>
      <4>1. <<"done", 0>> \in Token
        BY TokenKinds
      <4> QED
        BY <4>1, DataOne, SomeToken DEF Sift
    <3>4. r \in Seq(Token) /\ \A tok \in ToSet(r) : tok[1] = "data"
      <4>1. fed \in Nat /\ 1 \in Nat \ {0} /\ 1 <= fed + 1
        BY DEF TInv, TypeOK
      <4> QED
        BY <4>1, RunFacts, DataRun
    <3> HIDE DEF d, r
    <3>5. \A tok \in ToSet(buf) : tok[1] = "data"
      <4>1. ToSet(Data(Path) \o buf) = ToSet(Data(Path)) \cup ToSet(buf)
        BY <3>2, ToSetConcat
      <4> QED
        BY <3>1, <3>4, <4>1
    <3>6. Data(buf) = buf
      BY <3>2, <3>5, DataAll
    <3>7. Path \o buf \in Seq(Token) /\ Data(Path \o buf) = Data(Path) \o buf
      BY <3>2, <3>6, DataConcat, ConcatProperties, ZenonT(40)
    <3>8. Data((Path \o buf) \o d) = Data(Path \o buf) \o <<>>
      BY <3>3, <3>7, DataConcat
    <3>9. r \o <<>> = r
      BY <3>4, ConcatEmptySeq
    <3>10. Path' = Path \o buf \/ Path' = (Path \o buf) \o d
      BY <1>4, PathEnd DEF d
    <3>11. Data(Path') = r
      BY <3>1, <3>7, <3>8, <3>9, <3>10
    <3> QED
      BY <3>11 DEF r
  <2> QED
    BY <1>1, <2>1, <2>2 DEF Whereabouts
<1> QED
  BY <1>2, <1>3, <1>4 DEF EndOfBody

\* and every step.
LEMMA WhereaboutsNext == TInv /\ CInv /\ Whereabouts /\ [Next]_vars => Whereabouts'
<1> SUFFICES ASSUME TInv, CInv, Whereabouts, [Next]_vars
             PROVE  Whereabouts'
  OBVIOUS
<1>1. CASE \E b \in 1..(2 * Len(body)) : Read(b)
  BY <1>1, WhereaboutsRead
<1>2. CASE EndOfBody
  BY <1>2, WhereaboutsEnd
<1>3. CASE Write \/ DirectBegin \/ Return \/ PingBegin \/ PingerExit \/ UNCHANGED vars
  <2>1. W' = W
    BY <1>3, Appended
  <2>2. UNCHANGED <<adapter, fed, head, held, buf>>
    BY <1>3 DEF Write, DirectBegin, Return, PingBegin, PingerExit, vars, reading, sorting
  <2>3. Path' = Path /\ (Shown("fix")' <=> Shown("fix"))
    BY <2>1, <2>2 DEF Path, H, Shown
  <2>4. CASE UNCHANGED <<pc, log>>
    BY <2>2, <2>3, <2>4 DEF Whereabouts
  <2>5. CASE DirectBegin
    <3>1. pc' = "direct"
      BY <2>5 DEF DirectBegin
    <3> QED
      BY <3>1 DEF Whereabouts
  <2>6. CASE Return
    <3>1. pc = "closing" /\ pc' = "gone" /\ (log' # "error" => log # "error")
      BY <2>6 DEF Return
    <3> QED
      BY <2>2, <2>3, <3>1 DEF Whereabouts
  <2> QED
    BY <1>3, <2>4, <2>5, <2>6 DEF Write, PingBegin, PingerExit, vars
<1>4. CASE EmptyBody \/ DirectEnd
  <2>1. log' = "error" /\ pc' = "gone"
    BY <1>4 DEF EmptyBody, DirectEnd, CInv, Stage
  <2> QED
    BY <2>1 DEF Whereabouts
<1>5. CASE PingEnd
  <2>1. UNCHANGED <<adapter, fed, pc, buf, log>>
    BY <1>5 DEF PingEnd, reading, sorting
  <2>2. Data(Path') = Data(Path)
    BY <1>5, PathPing
  <2>3. ToSet(W') = ToSet(W) \cup {<<"ping", 0>>}
    BY <1>5, Appended
  <2>4. Shown("fix") => Shown("fix")'
    BY <2>3 DEF Shown
  <2> QED
    BY <2>1, <2>2, <2>4 DEF Whereabouts
<1> QED
  BY <1>1, <1>2, <1>3, <1>4, <1>5 DEF Next, Handler, Pinger, Over

\* Nothing is lost at first.
LEMMA WhereaboutsInit == Init => Whereabouts
<1> SUFFICES ASSUME Init PROVE Whereabouts
  OBVIOUS
<1>1. /\ pc = "first" /\ fed = 0 /\ pend = <<>> /\ out = <<>> /\ head = <<>> /\ held = <<>>
      /\ buf = <<>>
  BY DEF Init
<1>2. FlattenSeq(<<>>) = <<>>
  BY DEF FlattenSeq
<1>3. Carried(<<>>) = <<>>
  <2>1. <<>> \in Seq(Chunks)
    BY EmptySeq
  <2> QED
    BY <2>1, CarriedFacts
<1>4. <<>> \o <<>> = <<>>
  BY ConcatEmptySeq, EmptySeq
<1>5. Path = <<>>
  BY <1>1, <1>2, <1>3, <1>4 DEF Path, W, H
<1>6. Run(1, 0) = <<>>
  <2>1. Run(1, 0) \in Seq(Token) /\ Len(Run(1, 0)) = 0
    BY RunFacts
  <2> QED
    BY <2>1, EmptySeq
<1> QED
  BY <1>1, <1>4, <1>5, <1>6, DataNone DEF Whereabouts

-----------------------------------------------------------------------------
(* The theorems.                                                            *)

\* The inductive invariant.
RInv == TInv /\ CInv /\ Lines /\ Whereabouts

\* Every reachable state satisfies it.
LEMMA RInvAlways == Spec => []RInv
<1>1. Init => RInv
  BY TInvInit, CInvInit, LinesInit, WhereaboutsInit DEF RInv
<1>2. RInv /\ [Next]_vars => RInv'
  BY TInvNext, CInvNext, LinesNext, WhereaboutsNext DEF RInv
<1> QED
  BY <1>1, <1>2, PTL DEF Spec

\* What is shown was sent, once the handler is gone.
LEMMA ShownIsSent ==
  ASSUME TInv
  PROVE  /\ ToSet(out) \subseteq ToSet(W)
         /\ pend = <<>> => W = out
         /\ pc = "gone" => W = out
<1>1. out \in Seq(Token) /\ FlattenSeq(pend) \in Seq(Token)
  BY TypedState DEF TInv, TypeOK
<1>2. ToSet(W) = ToSet(out) \cup ToSet(FlattenSeq(pend))
  BY <1>1, ToSetConcat DEF W
<1>3. ASSUME pend = <<>> PROVE W = out
  <2>1. FlattenSeq(<<>>) = <<>>
    BY DEF FlattenSeq
  <2> QED
    BY <1>1, <1>3, <2>1, ConcatEmptySeq DEF W
<1>4. pc = "gone" => pend = <<>>
  BY DEF TInv, Frame
<1> QED
  BY <1>2, <1>3, <1>4

\* Of any body, cut into any chunks, no byte is lost, repeated or reordered on its way through head,
\* bufferedChunks, the Responses buffer and the pending writes.
THEOREM NothingIsLost == Spec => []NothingLost
<1>1. RInv => NothingLost
  <2> SUFFICES ASSUME RInv PROVE NothingLost
    OBVIOUS
  <2>1. TInv /\ TypeOK
    BY DEF RInv, TInv
  <2>2. ASSUME adapter # "converting", log # "error", pc # "failing", ~Replaced
        PROVE  Data(out \o Stored) \o (IF pc \in {"first", "read"} THEN buf ELSE <<>>)
                 = Run(1, fed)
    <3> DEFINE q == FlattenSeq(pend)
    <3>1. /\ out \in Seq(Token) /\ q \in Seq(Token) /\ head \in Seq(Token) /\ H \in Seq(Token)
      BY <2>1, PathType, TypedState DEF TypeOK
    <3>2. Stored = (q \o head) \o H /\ Path = ((out \o q) \o head) \o H
      BY DEF Stored, Path, W, H, Carried
    <3> HIDE DEF q
    <3>3. out \o Stored = Path
      <4>1. \A x, y, z \in Seq(Token) : x \o (y \o z) = (x \o y) \o z
        BY Assoc
      <4>2. q \o head \in Seq(Token)
        BY <3>1, ConcatProperties
      <4>3. out \o ((q \o head) \o H) = (out \o (q \o head)) \o H
        BY <3>1, <4>1, <4>2, SMTT(40)
      <4>4. out \o (q \o head) = (out \o q) \o head
        BY <3>1, <4>1
      <4> QED
        BY <3>2, <4>3, <4>4
    <3>4. ~Shown("fix")
      BY <2>2 DEF Replaced, Shown, W
    <3>5. pc \in {"first", "read", "closing", "gone"}
      BY <2>1, <2>2 DEF RInv, CInv, Stage, TypeOK
    <3>6. CASE pc \in {"first", "read"}
      BY <2>2, <3>3, <3>6 DEF RInv, Whereabouts
    <3>7. CASE pc \in {"closing", "gone"}
      <4>1. Data(Path) = Run(1, fed)
        BY <2>2, <3>4, <3>7 DEF RInv, Whereabouts
      <4>2. Data(Path) \o <<>> = Data(Path)
        BY <2>1, PathType, ConcatEmptySeq
      <4> QED
        BY <3>3, <3>7, <4>1, <4>2
    <3> QED
      BY <3>5, <3>6, <3>7
  <2> QED
    BY <2>1, <2>2 DEF NothingLost
<1> QED
  BY <1>1, RInvAlways, PTL

\* A keepalive comment never lands inside a line, whatever the chunks and whenever the ticks.
THEOREM NoLineIsSplit == Spec => []PingSplitsNoLine
<1>1. RInv => PingSplitsNoLine
  BY DEF RInv, Lines
<1> QED
  BY <1>1, RInvAlways, PTL

\* Synthesized tool calls stand alone: no token of the stream they replace was sent.
THEOREM LeaksAreReplaced == Spec => []LeakReplaced
<1>1. RInv => LeakReplaced
  <2> SUFFICES ASSUME RInv, Sent("fix"), ~Mixed,
                      NEW tok \in ToSet(out), tok[1] \in {"data", "conv", "blank"}
               PROVE  FALSE
    BY DEF LeakReplaced
  <2>1. ToSet(out) \subseteq ToSet(W)
    BY ShownIsSent DEF RInv
  <2>2. Shown("fix") /\ Shown(tok[1])
    BY <2>1 DEF Sent, Shown
  <2> QED
    BY <2>2 DEF RInv, CInv, Unleaked, Streamed
<1> QED
  BY <1>1, RInvAlways, PTL

\* The usage log says error exactly for the clients that saw one, and an error body goes out under
\* 200 only after something that forced the header out: a line with "content" or "finish_reason",
\* a "[DONE]" or a keepalive comment.
THEOREM LogsMatch == Spec => []LoggedAsSeen
<1>1. RInv => LoggedAsSeen
  <2> SUFFICES ASSUME RInv PROVE LoggedAsSeen
    OBVIOUS
  <2>1. /\ ToSet(out) \subseteq ToSet(W)
        /\ pc = "gone" => W = out
    BY ShownIsSent DEF RInv
  <2>2. ASSUME pc = "gone" PROVE log = "error" <=> Sent("body") \/ Sent("event")
    BY <2>1, <2>2 DEF RInv, CInv, Stage, Sent, Shown
  <2>3. ASSUME Sent("body"), code = 200
        PROVE  sentDone \/ \E tok \in ToSet(out) : Forcing(tok)
    <3>1. Shown("body")
      BY <2>1, <2>3 DEF Sent, Shown
    <3>2. pc = "gone"
      <4>1. \/ pc \in {"first", "read", "failing", "direct"}
            \/ pc = "closing" \/ pc = "gone"
        BY DEF RInv, TInv, TypeOK
      <4>2. ~(pc \in {"first", "read", "failing", "direct"})
        BY <3>1 DEF RInv, CInv, Stage, Only, Shown, Streamed
      <4>3. pc # "closing"
        BY <3>1 DEF RInv, CInv, Stage
      <4> QED
        BY <4>1, <4>2, <4>3
    <3>3. sentDone \/ Forced(W)
      BY <2>3, <3>1 DEF RInv, CInv, Opened
    <3> QED
      BY <2>1, <3>2, <3>3 DEF Forced
  <2> QED
    BY <2>2, <2>3 DEF LoggedAsSeen
<1> QED
  BY <1>1, RInvAlways, PTL

\* A chat stream logged as a success ended with a "[DONE]".
THEOREM SuccessesTerminate == Spec => []Terminated
<1>1. RInv => Terminated
  <2> SUFFICES ASSUME RInv, pc = "gone", log = "ok", adapter = "openai"
               PROVE  \E tok \in ToSet(out) : \/ tok[1] = "done"
                                              \/ tok[1] = "data" /\ Kind(tok[2]) = "done"
    BY DEF Terminated
  <2>1. W = out
    BY ShownIsSent DEF RInv
  <2>2. HasDone(W)
    BY DEF RInv, CInv, Finished
  <2> QED
    BY <2>1, <2>2 DEF HasDone
<1> QED
  BY <1>1, RInvAlways, PTL

=============================================================================
