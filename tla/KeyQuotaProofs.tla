--------------------------- MODULE KeyQuotaProofs ---------------------------
(***************************************************************************)
(* Proofs about KeyQuota, for any number of requests and any limits: how   *)
(* far concurrent requests can overshoot the limit per minute, and that no *)
(* total a request is judged by exceeds what was logged.                   *)
(***************************************************************************)
EXTENDS KeyQuota, FiniteSetTheorems, WellFoundedInduction, TLAPS

(* The logs of the last minute say nothing of the requests still on their   *)
(* way to the log. Counting both is inductive: a request is only admitted   *)
(* while fewer than RateLimitRPM logs are in the minute, and its own log    *)
(* then takes the place of the request.                                     *)

QInv ==
    /\ age \in [Requests -> Int]
    /\ pc \in [Requests -> {"arrive", "rate", "token", "sum", "store", "serve",
                            "invalidate", "done"}]
    /\ peak \in Nat
    /\ Cardinality(InFlight) <= peak
    /\ RateLimitRPM > 0
         => Cardinality(LastMinute) + Cardinality(InFlight) <= RateLimitRPM - 1 + peak

LEMMA Counts ==
    /\ IsFiniteSet(InFlight) /\ Cardinality(InFlight) \in Nat
    /\ IsFiniteSet(LastMinute) /\ Cardinality(LastMinute) \in Nat
<1>1. InFlight \subseteq Requests /\ LastMinute \subseteq Requests
  BY DEF InFlight, LastMinute
<1>2. IsFiniteSet(Requests)
  BY KeyQuotaAssumption
<1> QED
  BY <1>1, <1>2, FS_Subset, FS_CardinalityType

\* Neither set grows, and the peak stays.
LEMMA QKept ==
    ASSUME QInv, age' \in [Requests -> Int],
           pc' \in [Requests -> {"arrive", "rate", "token", "sum", "store", "serve",
                                 "invalidate", "done"}],
           InFlight' \subseteq InFlight, LastMinute' \subseteq LastMinute, peak' = peak
    PROVE  QInv'
<1>1. /\ Cardinality(InFlight') \in Nat /\ Cardinality(InFlight') <= Cardinality(InFlight)
      /\ Cardinality(LastMinute') \in Nat
      /\ Cardinality(LastMinute') <= Cardinality(LastMinute)
  BY Counts, FS_Subset, FS_CardinalityType
<1>2. RateLimitRPM \in Nat
  BY KeyQuotaAssumption
<1> QED
  BY <1>1, <1>2, Counts DEF QInv

\* A request passes the rate check.
LEMMA QAdmit ==
    ASSUME QInv, NEW r \in Requests, pc[r] = "rate", Admit(r), UNCHANGED age,
           RateLimitRPM > 0 => Cardinality(LastMinute) < RateLimitRPM
    PROVE  QInv'
<1>1. pc' \in [Requests -> {"arrive", "rate", "token", "sum", "store", "serve",
                            "invalidate", "done"}]
  BY DEF Admit, QInv
<1>2. InFlight' = InFlight \cup {r} /\ r \notin InFlight /\ LastMinute' = LastMinute
  BY DEF Admit, QInv, InFlight, LastMinute
<1>3. Cardinality(InFlight') = Cardinality(InFlight) + 1
  BY <1>2, Counts, FS_AddElement
<1>4. peak' = Max({peak, Cardinality(InFlight) + 1})
  BY DEF Admit
<1>5. peak' \in Nat /\ peak' >= peak /\ peak' >= Cardinality(InFlight) + 1
  BY <1>4, Counts DEF Max, QInv
<1>6. RateLimitRPM \in Nat
  BY KeyQuotaAssumption
<1> QED
  BY <1>1, <1>2, <1>3, <1>5, <1>6, Counts DEF QInv

\* A request leaves a log.
LEMMA QInsert ==
    ASSUME QInv, NEW r \in Requests, pc[r] = "serve",
           age' = [age EXCEPT ![r] = 0], pc' = [pc EXCEPT ![r] = "invalidate"],
           UNCHANGED peak
    PROVE  QInv'
<1>1. InFlight' = InFlight \ {r} /\ r \in InFlight /\ LastMinute' \subseteq LastMinute \cup {r}
  BY DEF QInv, InFlight, LastMinute
<1>2. Cardinality(InFlight') = Cardinality(InFlight) - 1
  BY <1>1, Counts, FS_RemoveElement
<1>3. /\ IsFiniteSet(LastMinute \cup {r})
      /\ Cardinality(LastMinute \cup {r}) <= Cardinality(LastMinute) + 1
  <2>1. CASE r \in LastMinute
    <3>1. LastMinute \cup {r} = LastMinute
      BY <2>1
    <3> QED
      BY <3>1, Counts
  <2>2. CASE r \notin LastMinute
    <3>1. Cardinality(LastMinute \cup {r}) = Cardinality(LastMinute) + 1
      BY <2>2, Counts, FS_AddElement
    <3> QED
      BY <3>1, Counts, FS_AddElement
  <2> QED
    BY <2>1, <2>2
<1>4. Cardinality(LastMinute') \in Nat /\ Cardinality(LastMinute') <= Cardinality(LastMinute) + 1
  BY <1>1, <1>3, Counts, FS_Subset, FS_CardinalityType
<1>5. RateLimitRPM \in Nat
  BY KeyQuotaAssumption
<1>6. age' \in [Requests -> Int] /\ peak' \in Nat
      /\ pc' \in [Requests -> {"arrive", "rate", "token", "sum", "store", "serve",
                               "invalidate", "done"}]
  BY DEF QInv
<1>7. Cardinality(InFlight') <= peak'
  BY <1>2, Counts DEF QInv
<1> QED
  BY <1>2, <1>4, <1>5, <1>6, <1>7, Counts DEF QInv

LEMMA QNext == QInv /\ [Next]_vars => QInv'
<1> SUFFICES ASSUME QInv, [Next]_vars PROVE QInv'
  OBVIOUS
<1> USE DEF QInv, InFlight, LastMinute
<1>1. ASSUME NEW r \in Requests, ReadKey(r) PROVE QInv'
  BY <1>1, QKept DEF ReadKey, Refuse
<1>2. ASSUME NEW r \in Requests, CheckRate(r) PROVE QInv'
  <2>1. CASE Refuse(r, "ratelimited") /\ UNCHANGED <<age, peak>>
    BY <1>2, <2>1, QKept DEF CheckRate, Refuse
  <2>2. CASE Refuse(r, "invalid") /\ UNCHANGED <<age, peak>>
    BY <1>2, <2>2, QKept DEF CheckRate, Refuse
  <2> QED
    BY <1>2, <2>1, <2>2, QAdmit DEF CheckRate
<1>3. ASSUME NEW r \in Requests, LoadCache(r) PROVE QInv'
  BY <1>3, QKept DEF LoadCache, Judge, Refuse
<1>4. ASSUME NEW r \in Requests, SumTokens(r) PROVE QInv'
  BY <1>4, QKept DEF SumTokens
<1>5. ASSUME NEW r \in Requests, StoreCache(r) PROVE QInv'
  BY <1>5, QKept DEF StoreCache, Judge, Refuse
<1>6. ASSUME NEW r \in Requests, InsertLog(r) PROVE QInv'
  <2>1. CASE pc' = [pc EXCEPT ![r] = "done"] /\ UNCHANGED <<age, peak>>
    BY <1>6, <2>1, QKept DEF InsertLog
  <2> QED
    BY <1>6, <2>1, QInsert DEF InsertLog
<1>7. ASSUME NEW r \in Requests, Invalidate(r) PROVE QInv'
  BY <1>7, QKept DEF Invalidate
<1>8. CASE Delete
  BY <1>8, QKept DEF Delete
<1>9. CASE Tick
  <2>1. age' \in [Requests -> Int] /\ LastMinute' \subseteq LastMinute
    BY <1>9 DEF Tick, Minute
  <2> QED
    BY <1>9, <2>1, QKept DEF Tick
<1>10. CASE UNCHANGED vars
  BY <1>10, QKept DEF vars
<1> QED
  BY <1>1, <1>2, <1>3, <1>4, <1>5, <1>6, <1>7, <1>8, <1>9, <1>10 DEF Next, RequestStep

\* OvershootBounded: the logs of a minute exceed the limit by no more than the
\* requests that were in progress together, less one.
THEOREM OvershootIsBounded == Spec => []OvershootBounded
<1>1. Init => QInv
  <2> SUFFICES ASSUME Init PROVE QInv
    OBVIOUS
  <2>1. InFlight = {} /\ LastMinute = {}
    BY DEF Init, InFlight, LastMinute
  <2>2. Cardinality(InFlight) = 0 /\ Cardinality(LastMinute) = 0
    BY <2>1, FS_EmptySet
  <2> QED
    BY <2>2, KeyQuotaAssumption DEF Init, QInv
<1>2. QInv /\ [Next]_vars => QInv'
  BY QNext
<1>3. QInv => OvershootBounded
  BY Counts, KeyQuotaAssumption DEF QInv, OvershootBounded
<1> QED
  BY <1>1, <1>2, <1>3, PTL DEF Spec
-----------------------------------------------------------------------------
(* The sum of tokens. Tokens is a fold over a set, a function that is       *)
(* chosen by the equation it satisfies; induction on the size of the set    *)
(* shows that there is one, and what it adds up to.                         *)

\* A set of natural numbers has a least element.
LEMMA Least ==
  ASSUME NEW T \in SUBSET Nat, T # {}
  PROVE  \E n \in T : \A m \in T : n <= m
<1> DEFINE R == OpToRel(<, Nat)
<1>1. IsWellFoundedOn(R, Nat)
  BY NatLessThanWellFounded
<1>2. \A m, n \in Nat : <<m, n>> \in R <=> m < n
  BY DEF OpToRel
<1> HIDE DEF R
<1>3. PICK n \in T : \A y \in T : ~ (<<y, n>> \in R)
  BY <1>1, WFMin
<1>4. ASSUME NEW m \in T PROVE n <= m
  <2>1. m \in Nat /\ n \in Nat
    OBVIOUS
  <2>2. ~ (m < n)
    BY <1>2, <1>3, <2>1
  <2> QED
    BY <2>1, <2>2
<1> QED
  BY <1>4

\* So a set that holds 0 and, with a number, the next one holds them all.
LEMMA Induct ==
  ASSUME NEW T, 0 \in T, \A n \in Nat : n \in T => n + 1 \in T
  PROVE  Nat \subseteq T
<1> DEFINE B == Nat \ T
<1> SUFFICES ASSUME B # {} PROVE FALSE
  OBVIOUS
<1>1. PICK n \in B : \A m \in B : n <= m
  BY Least
<1>2. n # 0 /\ n - 1 \in Nat
  BY <1>1
<1>3. n - 1 \notin B
  BY <1>1, <1>2
<1> QED
  BY <1>1, <1>2, <1>3

SumOf(t, R) == MapThenSumSet(LAMBDA r : t[r], R)

\* g is the table of sums behind SumOf, right for the sets of up to n elements.
SumTable(t, R, n, g) ==
    \A S \in SUBSET R :
        Cardinality(S) <= n =>
            g[S] = IF S = {} THEN 0
                   ELSE t[CHOOSE x \in S : TRUE] + g[S \ {CHOOSE x \in S : TRUE}]

\* A set that is not empty has one element less without the one chosen.
LEMMA OneLess ==
    ASSUME NEW R, IsFiniteSet(R), NEW S \in SUBSET R
    PROVE  /\ Cardinality(S) \in Nat
           /\ S # {} => /\ (CHOOSE x \in S : TRUE) \in S
                        /\ S \ {CHOOSE x \in S : TRUE} \in SUBSET R
                        /\ Cardinality(S \ {CHOOSE x \in S : TRUE}) = Cardinality(S) - 1
<1> DEFINE x == CHOOSE x \in S : TRUE
<1>1. IsFiniteSet(S) /\ Cardinality(S) \in Nat
  BY FS_Subset, FS_CardinalityType
<1>2. ASSUME S # {} PROVE x \in S
  BY <1>2
<1> HIDE DEF x
<1>3. ASSUME S # {} PROVE Cardinality(S \ {x}) = Cardinality(S) - 1
  BY <1>1, <1>2, <1>3, FS_RemoveElement
<1> QED
  BY <1>1, <1>2, <1>3 DEF x

\* There is a table for sets of any size,
LEMMA SumTableExists ==
    ASSUME NEW t, NEW R, IsFiniteSet(R), NEW n \in Nat
    PROVE  \E g : g = [S \in SUBSET R |-> g[S]] /\ SumTable(t, R, n, g)
<1> DEFINE P(k) == \E g : g = [S \in SUBSET R |-> g[S]] /\ SumTable(t, R, k, g)
           T == {k \in Nat : P(k)}
<1>1. 0 \in T
  <2> DEFINE g == [S \in SUBSET R |-> 0]
  <2>1. ASSUME NEW S \in SUBSET R, Cardinality(S) <= 0 PROVE S = {}
    <3>1. Cardinality(S) \in Nat /\ IsFiniteSet(S)
      BY OneLess, FS_Subset
    <3>2. Cardinality(S) = 0
      BY <2>1, <3>1
    <3> QED
      BY <3>1, <3>2, FS_EmptySet
  <2>2. SumTable(t, R, 0, g)
    BY <2>1 DEF SumTable
  <2>3. g = [S \in SUBSET R |-> g[S]]
    OBVIOUS
  <2>4. P(0)
    BY <2>2, <2>3
  <2> QED
    BY <2>4
<1>2. ASSUME NEW k \in Nat, k \in T PROVE k + 1 \in T
  <2>1. PICK g : SumTable(t, R, k, g)
    BY <1>2
  <2> DEFINE h == [S \in SUBSET R |->
                     IF S = {} THEN 0
                     ELSE t[CHOOSE x \in S : TRUE] + g[S \ {CHOOSE x \in S : TRUE}]]
  <2>2. \A S \in SUBSET R : Cardinality(S) <= k => h[S] = g[S]
    BY <2>1 DEF SumTable
  <2>3. ASSUME NEW S \in SUBSET R, Cardinality(S) <= k + 1
        PROVE  h[S] = IF S = {} THEN 0
                      ELSE t[CHOOSE x \in S : TRUE] + h[S \ {CHOOSE x \in S : TRUE}]
    <3>1. CASE S = {}
      BY <3>1
    <3>2. CASE S # {}
      <4> DEFINE Q == S \ {CHOOSE x \in S : TRUE}
      <4>1. Q \in SUBSET R /\ Cardinality(Q) <= k
        BY <2>3, <3>2, OneLess
      <4>2. h[Q] = g[Q]
        BY <4>1, <2>2
      <4> QED
        BY <3>2, <4>2
    <3> QED
      BY <3>1, <3>2
  <2>4. SumTable(t, R, k + 1, h)
    BY <2>3 DEF SumTable
  <2>5. h = [S \in SUBSET R |-> h[S]]
    OBVIOUS
  <2> HIDE DEF h
  <2>6. P(k + 1)
    BY <2>4, <2>5
  <2> QED
    BY <2>6
<1> HIDE DEF T
<1>3. n \in T
  BY <1>1, <1>2, Induct
<1> QED
  BY <1>3 DEF T

\* and SumOf, which chooses one, is its entry of the whole set.
LEMMA SumOfIs ==
    ASSUME NEW t, NEW R, IsFiniteSet(R)
    PROVE  \E g : SumTable(t, R, Cardinality(R), g) /\ SumOf(t, R) = g[R]
<1> DEFINE F(g) == g = [S \in SUBSET R |->
                          IF S = {} THEN 0
                          ELSE t[CHOOSE x \in S : TRUE] + g[S \ {CHOOSE x \in S : TRUE}]]
           f == CHOOSE g : F(g)
<1>0. \A S \in SUBSET R : Cardinality(S) <= Cardinality(R)
  BY FS_Subset
<1>1. PICK g : g = [S \in SUBSET R |-> g[S]] /\ SumTable(t, R, Cardinality(R), g)
  BY SumTableExists, FS_CardinalityType
<1>2. F(g)
  BY <1>0, <1>1 DEF SumTable
<1>3. F(f)
  BY <1>2
<1>4. SumOf(t, R) = f[R]
  BY DEF SumOf, MapThenSumSet, MapThenFoldSet
<1> HIDE DEF f
<1>5. SumTable(t, R, Cardinality(R), f)
  BY <1>3 DEF SumTable
<1> QED
  BY <1>4, <1>5

\* A sum of natural numbers is one, and it grows with them.
LEMMA SumGrows ==
    ASSUME NEW R, IsFiniteSet(R), NEW t, NEW u,
           \A r \in R : t[r] \in Nat /\ u[r] \in Nat /\ t[r] <= u[r]
    PROVE  SumOf(t, R) \in Nat /\ SumOf(u, R) \in Nat /\ SumOf(t, R) <= SumOf(u, R)
<1> DEFINE m == Cardinality(R)
<1>0. m \in Nat
  BY FS_CardinalityType
<1>1. PICK g : SumTable(t, R, m, g) /\ SumOf(t, R) = g[R]
  BY SumOfIs
<1>2. PICK h : SumTable(u, R, m, h) /\ SumOf(u, R) = h[R]
  BY SumOfIs
<1> DEFINE P(n) == \A S \in SUBSET R :
                      Cardinality(S) <= n /\ n <= m =>
                          g[S] \in Nat /\ h[S] \in Nat /\ g[S] <= h[S]
           T == {n \in Nat : P(n)}
<1> HIDE DEF m
<1>3. ASSUME NEW S \in SUBSET R, S = {}
      PROVE  g[S] = 0 /\ h[S] = 0
  <2>1. Cardinality(S) = 0
    BY <1>3, FS_EmptySet
  <2>2. Cardinality(S) <= m
    BY <1>0, <2>1
  <2>3. g[S] = 0
    BY <1>1, <1>3, <2>2 DEF SumTable
  <2>4. h[S] = 0
    BY <1>2, <1>3, <2>2 DEF SumTable
  <2> QED
    BY <2>3, <2>4
<1>4. 0 \in T
  <2>1. ASSUME NEW S \in SUBSET R, Cardinality(S) <= 0 PROVE S = {}
    <3>1. Cardinality(S) \in Nat /\ IsFiniteSet(S)
      BY OneLess, FS_Subset
    <3>2. Cardinality(S) = 0
      BY <2>1, <3>1
    <3> QED
      BY <3>1, <3>2, FS_EmptySet
  <2>2. P(0)
    BY <1>3, <2>1
  <2> QED
    BY <2>2
<1>5. ASSUME NEW n \in Nat, n \in T PROVE n + 1 \in T
  <2>0. P(n)
    BY <1>5
  <2>1. ASSUME NEW S \in SUBSET R, Cardinality(S) <= n + 1, n + 1 <= m
        PROVE  g[S] \in Nat /\ h[S] \in Nat /\ g[S] <= h[S]
    <3>1. CASE S = {}
      BY <1>3, <3>1
    <3>2. CASE S # {}
      <4> DEFINE x == CHOOSE x \in S : TRUE
                 Q == S \ {x}
      <4>1. x \in S /\ Q \in SUBSET R /\ Cardinality(Q) = Cardinality(S) - 1
            /\ Cardinality(S) \in Nat
        BY <3>2, OneLess
      <4>2. g[S] = t[x] + g[Q] /\ h[S] = u[x] + h[Q]
        <5>1. Cardinality(S) <= m
          BY <1>0, <2>1, <4>1
        <5> QED
          BY <5>1, <1>1, <1>2, <3>2 DEF SumTable
      <4> HIDE DEF x, Q
      <4>3. Cardinality(Q) <= n /\ n <= m
        BY <1>0, <2>1, <4>1
      <4>4. g[Q] \in Nat /\ h[Q] \in Nat /\ g[Q] <= h[Q]
        BY <2>0, <4>1, <4>3
      <4>5. t[x] \in Nat /\ u[x] \in Nat /\ t[x] <= u[x]
        BY <4>1
      <4> QED
        BY <4>2, <4>4, <4>5
    <3> QED
      BY <3>1, <3>2
  <2>2. P(n + 1)
    BY <2>1
  <2> QED
    BY <2>2
<1> HIDE DEF T
<1>6. m \in T
  BY <1>0, <1>4, <1>5, Induct
<1>7. P(m)
  BY <1>6 DEF T
<1> QED
  BY <1>0, <1>1, <1>2, <1>7 DEF m

-----------------------------------------------------------------------------
(* What was spent never shrinks: a request that is not in the log yet       *)
(* weighs 0. So a total read at any earlier time, cached or not, is covered. *)

Unlogged ==
    \A r \in Requests : pc[r] \notin {"invalidate", "done"} => tokens[r] = 0

OInv == NeverOvercharged /\ Unlogged

\* What was spent is a number.
LEMMA SpentType ==
    ASSUME TypeOK, NEW Q \in SUBSET Requests
    PROVE  Tokens(Q) \in Nat /\ Spent \in Nat
<1>1. IsFiniteSet(Requests) /\ IsFiniteSet(Q)
  BY KeyQuotaAssumption, FS_Subset
<1>2. \A r \in Requests : tokens[r] \in Nat /\ tokens[r] <= tokens[r]
  BY DEF TypeOK
<1>3. SumOf(tokens, Q) \in Nat /\ SumOf(tokens, Requests) \in Nat
  BY <1>1, <1>2, SumGrows
<1>4. Tokens(Q) = SumOf(tokens, Q) /\ Spent = SumOf(tokens, Requests)
  BY DEF Spent, Tokens, SumOf
<1> QED
  BY <1>3, <1>4

\* Spent is such a sum, in every state.
LEMMA SpentIs == Spent = SumOf(tokens, Requests)
  BY DEF Spent, Tokens, SumOf

\* What was spent does not shrink when no log loses tokens.
LEMMA SpentGrows ==
    ASSUME TypeOK, tokens' \in [Requests -> Nat],
           \A r \in Requests : tokens[r] <= tokens'[r]
    PROVE  Spent \in Nat /\ Spent' \in Nat /\ Spent <= Spent'
<1> DEFINE u == tokens'
<1>1. /\ IsFiniteSet(Requests)
      /\ \A r \in Requests : tokens[r] \in Nat /\ u[r] \in Nat /\ tokens[r] <= u[r]
  BY KeyQuotaAssumption DEF TypeOK
<1>2. Spent = SumOf(tokens, Requests) /\ Spent' = SumOf(u, Requests)
  <2>1. (Spent = SumOf(tokens, Requests))'
    BY SpentIs, PTL
  <2> QED
    BY <2>1, SpentIs
<1> HIDE DEF u
<1> QED
  BY <1>1, <1>2, SumGrows

\* There is room in peak for a request that is about to be admitted.
LEMMA PeakType ==
    ASSUME TypeOK, NEW r \in Requests, pc[r] = "rate"
    PROVE  Max({peak, Cardinality(InFlight) + 1}) \in 0 .. Cardinality(Requests)
<1>1. InFlight \subseteq Requests \ {r} /\ IsFiniteSet(Requests)
  BY KeyQuotaAssumption DEF InFlight
<1>2. /\ IsFiniteSet(Requests \ {r}) /\ Cardinality(Requests) \in Nat
      /\ Cardinality(Requests \ {r}) = Cardinality(Requests) - 1
  BY <1>1, FS_RemoveElement, FS_CardinalityType
<1>3. Cardinality(InFlight) \in Nat /\ Cardinality(InFlight) <= Cardinality(Requests \ {r})
  BY <1>1, <1>2, FS_Subset, FS_CardinalityType
<1>4. peak \in 0 .. Cardinality(Requests)
  BY DEF TypeOK
<1> QED
  BY <1>2, <1>3, <1>4 DEF Max

\* A step that leaves the tokens alone keeps the totals covered that come from
\* a total that was.
LEMMA OKept ==
    ASSUME OInv, TypeOK', UNCHANGED tokens,
           \A r \in Requests : total'[r] <= Spent,
           Fresh(cached') => cached'.total <= Spent,
           \A r \in Requests : pc[r] \in {"invalidate", "done"}
                                 => pc'[r] \in {"invalidate", "done"}
    PROVE  OInv'
<1>1. Spent' = Spent
  <2>1. (Spent = SumOf(tokens, Requests))'
    BY SpentIs, PTL
  <2> QED
    BY <2>1, SpentIs
<1>2. Unlogged'
  BY DEF OInv, Unlogged
<1> QED
  BY <1>1, <1>2 DEF OInv, NeverOvercharged

\* The type invariant is inductive.
LEMMA TypeNext == TypeOK /\ [Next]_vars => TypeOK'
<1> SUFFICES ASSUME TypeOK, [Next]_vars PROVE TypeOK'
  OBVIOUS
<1> USE DEF TypeOK
<1>1. ASSUME NEW r \in Requests, ReadKey(r) PROVE TypeOK'
  <2>1. Tokens({q \in Requests : pc[q] = "done"}) \in Nat
    BY SpentType
  <2> QED
    BY <1>1, <2>1 DEF ReadKey, Refuse
<1>2. ASSUME NEW r \in Requests, CheckRate(r) PROVE TypeOK'
  <2>1. Max({peak, Cardinality(InFlight) + 1}) \in 0 .. Cardinality(Requests)
    BY <1>2, PeakType DEF CheckRate
  <2> QED
    BY <1>2, <2>1 DEF CheckRate, Admit, Refuse
<1>3. ASSUME NEW r \in Requests, LoadCache(r) PROVE TypeOK'
  BY <1>3 DEF LoadCache, Judge, Refuse
<1>4. ASSUME NEW r \in Requests, SumTokens(r) PROVE TypeOK'
  <2>1. Spent \in Nat
    BY SpentType
  <2> QED
    BY <1>4, <2>1 DEF SumTokens
<1>5. ASSUME NEW r \in Requests, StoreCache(r) PROVE TypeOK'
  BY <1>5 DEF StoreCache, Judge, Refuse, TTL
<1>6. ASSUME NEW r \in Requests, InsertLog(r) PROVE TypeOK'
  BY <1>6, KeyQuotaAssumption DEF InsertLog, Old, Minute
<1>7. ASSUME NEW r \in Requests, Invalidate(r) PROVE TypeOK'
  BY <1>7 DEF Invalidate, NoCache, TTL
<1>8. CASE Delete
  BY <1>8 DEF Delete
<1>9. CASE Tick
  BY <1>9 DEF Tick, NoCache, TTL, Old, Minute
<1>10. CASE UNCHANGED vars
  BY <1>10 DEF vars
<1> QED
  BY <1>1, <1>2, <1>3, <1>4, <1>5, <1>6, <1>7, <1>8, <1>9, <1>10 DEF Next, RequestStep

LEMMA ONext == OInv /\ [Next]_vars => OInv'
<1> SUFFICES ASSUME OInv, [Next]_vars PROVE OInv'
  OBVIOUS
<1>0. /\ TypeOK /\ TypeOK' /\ Spent \in Nat
      /\ \A r \in Requests : total[r] <= Spent
      /\ Fresh(cached) => cached.total <= Spent
  BY TypeNext, SpentType DEF OInv, NeverOvercharged
<1>1. ASSUME NEW r \in Requests, ReadKey(r) PROVE OInv'
  BY <1>0, <1>1, OKept DEF ReadKey, Refuse, TypeOK
<1>2. ASSUME NEW r \in Requests, CheckRate(r) PROVE OInv'
  BY <1>0, <1>2, OKept DEF CheckRate, Admit, Refuse, TypeOK
<1>3. ASSUME NEW r \in Requests, LoadCache(r) PROVE OInv'
  BY <1>0, <1>3, OKept DEF LoadCache, Judge, Refuse, TypeOK
<1>4. ASSUME NEW r \in Requests, SumTokens(r) PROVE OInv'
  BY <1>0, <1>4, OKept DEF SumTokens, TypeOK
<1>5. ASSUME NEW r \in Requests, StoreCache(r) PROVE OInv'
  BY <1>0, <1>5, OKept DEF StoreCache, Judge, Refuse, TypeOK, Fresh
<1>6. ASSUME NEW r \in Requests, InsertLog(r) PROVE OInv'
  <2>1. CASE UNCHANGED tokens /\ pc' = [pc EXCEPT ![r] = "done"]
    BY <1>0, <1>6, <2>1, OKept DEF InsertLog, TypeOK
  <2>2. ASSUME NEW n \in Amounts, tokens' = [tokens EXCEPT ![r] = n],
               pc' = [pc EXCEPT ![r] = "invalidate"]
        PROVE  OInv'
    <3>1. tokens[r] = 0 /\ n \in Nat
      BY <1>6, <2>2, KeyQuotaAssumption DEF InsertLog, OInv, Unlogged
    <3>2. tokens' \in [Requests -> Nat] /\ \A q \in Requests : tokens[q] <= tokens'[q]
      BY <1>0, <2>2, <3>1 DEF TypeOK
    <3>3. Spent' \in Nat /\ Spent <= Spent'
      BY <1>0, <3>2, SpentGrows
    <3>4. Unlogged'
      BY <1>0, <2>2 DEF OInv, Unlogged, TypeOK
    <3>5. \A q \in Requests : total'[q] \in Nat /\ total'[q] <= Spent'
      BY <1>0, <1>6, <3>3 DEF InsertLog, TypeOK
    <3>6. Fresh(cached') => cached'.total <= Spent'
      BY <1>0, <1>6, <3>3 DEF InsertLog, TypeOK
    <3> QED
      BY <1>0, <3>4, <3>5, <3>6 DEF OInv, NeverOvercharged
  <2> QED
    BY <1>6, <2>1, <2>2 DEF InsertLog
<1>7. ASSUME NEW r \in Requests, Invalidate(r) PROVE OInv'
  BY <1>0, <1>7, OKept DEF Invalidate, NoCache, Fresh, TypeOK
<1>8. CASE Delete
  BY <1>0, <1>8, OKept DEF Delete
<1>9. CASE Tick
  BY <1>0, <1>9, OKept DEF Tick, NoCache, Fresh, TypeOK, TTL
<1>10. CASE UNCHANGED vars
  BY <1>0, <1>10, OKept DEF vars
<1> QED
  BY <1>1, <1>2, <1>3, <1>4, <1>5, <1>6, <1>7, <1>8, <1>9, <1>10 DEF Next, RequestStep

\* NeverOvercharged: a total that Validate works with, read long ago or taken
\* from the cache, never exceeds what the log now adds up to.
THEOREM NobodyIsOvercharged == Spec => []NeverOvercharged
<1>1. Init => OInv
  <2> SUFFICES ASSUME Init PROVE OInv
    OBVIOUS
  <2>1. TypeOK
    BY KeyQuotaAssumption, FS_CardinalityType DEF Init, TypeOK, NoCache, TTL, Old, Minute
  <2>2. Spent \in Nat
    BY <2>1, SpentType
  <2> QED
    BY <2>1, <2>2 DEF Init, OInv, Unlogged, NeverOvercharged, NoCache, Fresh
<1>2. OInv /\ [Next]_vars => OInv'
  BY ONext
<1>3. OInv => NeverOvercharged
  BY DEF OInv
<1> QED
  BY <1>1, <1>2, <1>3, PTL DEF Spec
=============================================================================
