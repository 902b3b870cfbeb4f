---------------------------- MODULE KernelLemmas ----------------------------
(***************************************************************************)
(* Facts about naturals, finite sets and lists that the proofs about the   *)
(* kernel's allocators, queues and codec cite by name, and about what a    *)
(* function defined by recursion over 0 .. n is.                           *)
(***************************************************************************)
EXTENDS Integers, FiniteSets, FiniteSetsExt, FiniteSetTheorems, SequenceTheorems,
        WellFoundedInduction, TLAPS

\* A nonempty set of naturals has a least element and Min names it: what the
\* ascending scans of pmm_alloc_frame and pmm_alloc_contiguous find first.
LEMMA MinOfNaturals ==
  ASSUME NEW S \in SUBSET Nat, S # {}
  PROVE  Min(S) \in S /\ \A y \in S : Min(S) <= y
<1> DEFINE Upto(x) == S \cap 0 .. x
           T == {Upto(x) : x \in S}
<1>1. T \subseteq FiniteSubsetsOf(S)
  <2>1. ASSUME NEW x \in S PROVE IsFiniteSet(Upto(x))
    <3>1. IsFiniteSet(0 .. x)
      BY FS_Interval
    <3>2. Upto(x) \in SUBSET (0 .. x)
      OBVIOUS
    <3> QED BY ONLY <3>1, <3>2, FS_Subset
  <2> QED BY <2>1 DEF FiniteSubsetsOf
<1>2. \E U \in T : \A V \in T : ~(<<V, U>> \in StrictSubsetOrdering(S))
  <2>1. T # {}
    OBVIOUS
  <2> QED
    BY ONLY <1>1, <2>1, FS_StrictSubsetOrderingWellFounded, WFMin
<1>3. PICK x \in S : \A y \in S : ~(<<Upto(y), Upto(x)>> \in StrictSubsetOrdering(S))
  BY <1>2
<1>4. ASSUME NEW y \in S, y < x PROVE FALSE
  <2>1. Upto(y) \subseteq Upto(x) /\ x \in Upto(x) /\ x \notin Upto(y)
    BY <1>4
  <2> QED BY <1>3, <2>1 DEF StrictSubsetOrdering
<1>5. \A y \in S : x <= y
  BY <1>4
<1> QED
  BY <1>5 DEF Min

\* The word of a lower frame is never a later word: div is monotone.
LEMMA DivMonotone ==
  ASSUME NEW W \in Nat \ {0}, NEW a \in Nat, NEW b \in Nat, a <= b
  PROVE  a \div W <= b \div W
<1> DEFINE qa == a \div W
           qb == b \div W
           ra == a % W
           rb == b % W
<1>1. /\ qa \in Nat /\ ra \in Nat /\ ra < W /\ a = W * qa + ra
      /\ qb \in Nat /\ rb \in Nat /\ rb < W /\ b = W * qb + rb
  OBVIOUS
<1>2. SUFFICES ASSUME qb + 1 <= qa PROVE FALSE
  BY <1>1
<1> HIDE DEF qa, qb, ra, rb
<1>3. W * (qb + 1) <= W * qa
  <2>1. PICK d \in Nat : qa = (qb + 1) + d
    BY <1>1, <1>2
  <2>2. W * qa = W * (qb + 1) + W * d
    BY <2>1, <1>1
  <2>3. W * d \in Nat
    OBVIOUS
  <2> QED BY <2>2, <2>3, <1>1
<1>4. W * (qb + 1) = W * qb + W
  BY <1>1
<1>5. W * qa \in Nat /\ W * qb \in Nat
  BY <1>1
<1> QED
  BY <1>1, <1>3, <1>4, <1>5

\* An index that has left a ring on either side by less than its size is folded
\* back by one addition: sched_yield's scan, the ring of the keyboard driver.
LEMMA ModWrapsOnce ==
  ASSUME NEW m \in Nat \ {0}, NEW a \in -m .. 2 * m - 1
  PROVE  a % m = IF a < 0 THEN a + m ELSE IF a < m THEN a ELSE a - m
<1> DEFINE q == a \div m
           r == a % m
<1>1. /\ m \in Nat /\ a \in Int /\ q \in Int /\ r \in Nat
      /\ r < m /\ a = m * q + r
  OBVIOUS
<1> HIDE DEF q, r
<1>2. q \in {-1, 0, 1}
  <2>1. ASSUME 2 <= q PROVE FALSE
    <3>1. PICK d \in Nat : q = 2 + d
      BY <1>1, <2>1
    <3>2. m * q = 2 * m + m * d /\ m * d \in Nat
      BY <1>1, <3>1
    <3> QED BY <1>1, <3>2
  <2>2. ASSUME q <= -2 PROVE FALSE
    <3>1. PICK d \in Nat : q = -2 - d
      BY <1>1, <2>2
    <3>2. m * q = -2 * m - m * d /\ m * d \in Nat
      BY <1>1, <3>1
    <3> QED BY <1>1, <3>2
  <2> QED BY <1>1, <2>1, <2>2
<1>3. CASE q = 0
  BY <1>1, <1>3 DEF r
<1>4. CASE q = 1
  BY <1>1, <1>4 DEF r
<1>5. CASE q = -1
  BY <1>1, <1>5 DEF r
<1> QED
  BY <1>2, <1>3, <1>4, <1>5
\* A product grows with its factor.
LEMMA MulMonotone ==
  ASSUME NEW a \in Nat, NEW b \in Nat, NEW c \in Nat, a <= b
  PROVE  a * c \in Nat /\ b * c \in Nat /\ a * c <= b * c
<1>1. PICK d \in Nat : b = a + d
  <2>1. b - a \in Nat /\ b = a + (b - a)
    OBVIOUS
  <2> QED BY <2>1
<1>2. b * c = a * c + d * c /\ a * c \in Nat /\ b * c \in Nat /\ d * c \in Nat
  BY <1>1
<1> QED
  BY <1>2

\* As many blocks as div says fit, and at least one where a block fits.
LEMMA WholeBlocks ==
  ASSUME NEW c \in Nat \ {0}, NEW a \in Nat
  PROVE  /\ a \div c \in Nat /\ (a \div c) * c \in Nat /\ (a \div c) * c <= a
         /\ c <= a => a \div c # 0
<1> DEFINE n == a \div c
           r == a % c
<1>1. n \in Nat /\ r \in Nat /\ r < c /\ a = c * n + r
  OBVIOUS
<1> HIDE DEF n, r
<1>2. n * c = c * n /\ c * n \in Nat
  BY <1>1
<1>3. n = 0 => c * n = 0
  OBVIOUS
<1> QED
  BY <1>1, <1>2, <1>3 DEF n

\* The page of an address: div undoes a multiplication and an offset in the page.
LEMMA BlockIndex ==
  ASSUME NEW P \in Nat \ {0}, NEW f \in Nat, NEW r \in 0 .. P - 1
  PROVE  (f * P + r) \div P = f
<1> DEFINE a == f * P + r
           q == a \div P
           m == a % P
<1>1. a \in Nat /\ q \in Nat /\ m \in Nat /\ m < P /\ a = P * q + m
  OBVIOUS
<1> HIDE DEF q, m
<1>2. ASSUME q + 1 <= f PROVE FALSE
  <2>1. (q + 1) * P <= f * P
    BY <1>1, <1>2, MulMonotone
  <2>2. (q + 1) * P = P * q + P /\ P * q \in Nat /\ f * P \in Nat
    BY <1>1
  <2> QED BY <1>1, <2>1, <2>2
<1>3. ASSUME f + 1 <= q PROVE FALSE
  <2>1. (f + 1) * P <= q * P
    BY <1>1, <1>3, MulMonotone
  <2>2. (f + 1) * P = f * P + P /\ P * q \in Nat /\ f * P \in Nat /\ q * P = P * q
    BY <1>1
  <2> QED BY <1>1, <2>1, <2>2
<1> QED
  BY <1>1, <1>2, <1>3 DEF q

\* A free list without repetitions loses its head and nothing else,
LEMMA ListPop ==
  ASSUME NEW s \in Seq(Nat), s # << >>, IsInjective(s)
  PROVE  /\ Tail(s) \in Seq(Nat) /\ IsInjective(Tail(s))
         /\ Head(s) \in Nat /\ Head(s) \notin Range(Tail(s))
         /\ Range(s) = {Head(s)} \cup Range(Tail(s))
<1> DEFINE t == Tail(s)
<1>1. /\ Len(s) \in Nat \ {0} /\ DOMAIN s = 1 .. Len(s)
      /\ t \in Seq(Nat) /\ Len(t) = Len(s) - 1 /\ DOMAIN t = 1 .. Len(t)
      /\ \A i \in 1 .. Len(t) : t[i] = s[i + 1]
      /\ Head(s) = s[1] /\ Head(s) \in Nat
  BY EmptySeq, LenProperties, HeadTailProperties
<1> HIDE DEF t
<1>2. IsInjective(t) /\ s[1] \notin Range(t)
  <2>1. \A i, j \in DOMAIN s : s[i] = s[j] => i = j
    BY DEF IsInjective
  <2>2. ASSUME NEW i \in DOMAIN t PROVE i + 1 \in DOMAIN s /\ t[i] = s[i + 1] /\ i + 1 # 1
    BY <1>1
  <2>3. ASSUME NEW i \in DOMAIN t, NEW j \in DOMAIN t, t[i] = t[j] PROVE i = j
    <3>1. i + 1 = j + 1
      BY <2>1, <2>2, <2>3
    <3> QED BY <1>1, <3>1
  <2>4. ASSUME NEW i \in DOMAIN t PROVE t[i] # s[1]
    <3>1. 1 \in DOMAIN s
      BY <1>1
    <3> QED BY <2>1, <2>2, <3>1
  <2> QED BY <2>3, <2>4 DEF IsInjective, Range
<1>3. Range(s) = {s[1]} \cup Range(t)
  <2>1. ASSUME NEW i \in DOMAIN s PROVE s[i] \in {s[1]} \cup Range(t)
    <3>1. CASE i = 1
      BY <3>1
    <3>2. CASE i # 1
      <4>1. i - 1 \in 1 .. Len(t) /\ (i - 1) + 1 = i
        BY <1>1, <3>2
      <4>2. t[i - 1] = s[i]
        BY <1>1, <4>1
      <4> QED BY <1>1, <4>1, <4>2 DEF Range
    <3> QED BY <3>1, <3>2
  <2>2. ASSUME NEW i \in DOMAIN t PROVE t[i] \in Range(s)
    <3>1. i + 1 \in DOMAIN s /\ t[i] = s[i + 1]
      BY <1>1
    <3> QED BY <3>1 DEF Range
  <2>3. s[1] \in Range(s)
    <3>1. 1 \in DOMAIN s
      BY ONLY <1>1
    <3> QED BY ONLY <3>1 DEF Range
  <2>4. Range(s) \subseteq {s[1]} \cup Range(t)
    BY ONLY <2>1 DEF Range
  <2>5. Range(t) \subseteq Range(s)
    BY ONLY <2>2 DEF Range
  <2> QED BY ONLY <2>3, <2>4, <2>5
<1> QED
  BY <1>1, <1>2, <1>3 DEF t

\* gains the element that is pushed,
LEMMA ListPush ==
  ASSUME NEW s \in Seq(Nat), IsInjective(s), NEW p \in Nat, p \notin Range(s)
  PROVE  /\ <<p>> \o s \in Seq(Nat) /\ IsInjective(<<p>> \o s)
         /\ Range(<<p>> \o s) = {p} \cup Range(s)
<1> DEFINE t == <<p>> \o s
<1>1. <<p>> \in Seq(Nat) /\ Len(<<p>>) = 1 /\ <<p>>[1] = p
  OBVIOUS
<1>2. /\ t \in Seq(Nat) /\ Len(t) = 1 + Len(s) /\ Len(s) \in Nat
      /\ DOMAIN t = 1 .. 1 + Len(s) /\ DOMAIN s = 1 .. Len(s)
      /\ \A i \in 1 .. 1 + Len(s) : t[i] = IF i <= 1 THEN p ELSE s[i - 1]
  BY <1>1, ConcatProperties, LenProperties
<1> HIDE DEF t
<1>3. IsInjective(t)
  <2>1. SUFFICES ASSUME NEW i \in DOMAIN t, NEW j \in DOMAIN t, t[i] = t[j] PROVE i = j
    BY DEF IsInjective
  <2>2. ASSUME NEW k \in DOMAIN t, k # 1
        PROVE  k - 1 \in DOMAIN s /\ t[k] = s[k - 1] /\ t[k] # p
    <3>1. k \in 1 .. 1 + Len(s) /\ ~(k <= 1)
      BY <1>2, <2>2
    <3>2. k - 1 \in DOMAIN s
      BY <1>2, <3>1
    <3>3. t[k] = s[k - 1]
      BY <1>2, <3>1
    <3> QED BY <3>2, <3>3 DEF Range
  <2>3. t[1] = p
    BY <1>2
  <2>4. CASE i = 1 \/ j = 1
    BY <2>1, <2>2, <2>3, <2>4
  <2>5. CASE i # 1 /\ j # 1
    BY <1>2, <2>1, <2>2, <2>5 DEF IsInjective
  <2> QED BY <2>4, <2>5
<1>4. Range(t) = {p} \cup Range(s)
  <2>1. ASSUME NEW i \in DOMAIN t PROVE t[i] \in {p} \cup Range(s)
    <3>1. CASE i <= 1
      BY <1>2, <3>1
    <3>2. CASE ~(i <= 1)
      <4>1. i - 1 \in DOMAIN s
        BY <1>2, <3>2
      <4>2. t[i] = s[i - 1]
        BY <1>2, <3>2
      <4> QED BY <4>1, <4>2 DEF Range
    <3> QED BY <3>1, <3>2
  <2>2. ASSUME NEW i \in DOMAIN s PROVE s[i] \in Range(t)
    <3>1. i + 1 \in DOMAIN t /\ t[i + 1] = s[i]
      BY <1>2
    <3> QED BY <3>1 DEF Range
  <2>3. p \in Range(t)
    BY <1>2 DEF Range
  <2> QED BY <2>1, <2>2, <2>3 DEF Range
<1> QED
  BY <1>2, <1>3, <1>4 DEF t

\* and is as long as its elements are many.
LEMMA ListLength ==
  ASSUME NEW s \in Seq(Nat), IsInjective(s)
  PROVE  IsFiniteSet(Range(s)) /\ Cardinality(Range(s)) = Len(s)
<1>1. Len(s) \in Nat /\ DOMAIN s = 1 .. Len(s) /\ s \in [1 .. Len(s) -> Range(s)]
  BY LenProperties DEF Range
<1>2. s \in Injection(1 .. Len(s), Range(s)) /\ s \in Surjection(1 .. Len(s), Range(s))
  BY <1>1 DEF Injection, Surjection, Range
<1>3. ExistsBijection(1 .. Len(s), Range(s))
  BY <1>2 DEF ExistsBijection, Bijection
<1>4. IsFiniteSet(1 .. Len(s)) /\ Cardinality(1 .. Len(s)) = Len(s)
  BY <1>1, FS_Interval
<1> QED
  BY <1>3, <1>4, FS_Bijection

\* The values of a loop: it begins with a and takes x to F[i][x] in its i-th round.
Rounds(n, S) == [1 .. n -> [S -> S]]
Iteration(g, S, a, n, F) ==
  g \in [0 .. n -> S] /\ g[0] = a /\ \A i \in 1 .. n : g[i] = F[i][g[i - 1]]

\* Such a loop has values: the function that a definition by recursion over 0 .. n
\* names exists.
LEMMA Iterates ==
  ASSUME NEW S, NEW a \in S, NEW n \in Nat, NEW F \in Rounds(n, S)
  PROVE  \E g : Iteration(g, S, a, n, F)
<1> DEFINE A == {m \in 0 .. n : ~ \E g : Iteration(g, S, a, m, F)}
<1>1. ASSUME NEW m \in A, \A k \in A : m <= k PROVE FALSE
  <2>1. CASE m = 0
    <3>1. PICK g : g = [i \in 0 .. 0 |-> a]
      OBVIOUS
    <3>2. Iteration(g, S, a, 0, F)
      BY <3>1 DEF Iteration
    <3> QED BY <2>1, <3>2
  <2>2. CASE m # 0
    <3>1. m - 1 \in 0 .. n /\ m - 1 \notin A /\ m \in 1 .. n
      BY <1>1, <2>2
    <3>2. PICK g : Iteration(g, S, a, m - 1, F)
      BY <3>1
    <3>3. /\ g \in [0 .. m - 1 -> S] /\ g[0] = a
          /\ \A i \in 1 .. m - 1 : g[i] = F[i][g[i - 1]]
      BY ONLY <3>2 DEF Iteration
    <3>4. g[m - 1] \in S
      BY <3>1, <3>3
    <3>5. PICK b \in S : b = F[m][g[m - 1]]
      BY <3>1, <3>4 DEF Rounds
    <3>6. PICK h : h = [i \in 0 .. m |-> IF i = m THEN b ELSE g[i]]
      OBVIOUS
    <3>7. h \in [0 .. m -> S]
      BY <3>1, <3>3, <3>6
    <3>8. ASSUME NEW i \in 1 .. m PROVE h[i] = F[i][h[i - 1]]
      <4>1. h[i - 1] = g[i - 1]
        BY <3>6
      <4>2. CASE i = m
        <5>1. h[m] = b
          BY ONLY <3>1, <3>6
        <5> QED BY ONLY <3>5, <4>1, <4>2, <5>1
      <4>3. CASE i # m
        <5>1. i \in 1 .. m - 1 /\ h[i] = g[i]
          BY <3>6, <4>3
        <5> QED BY ONLY <3>3, <4>1, <5>1
      <4> QED BY <4>2, <4>3
    <3>9. h[0] = a
      BY <2>2, <3>1, <3>3, <3>6
    <3>10. Iteration(h, S, a, m, F)
      BY ONLY <3>7, <3>8, <3>9 DEF Iteration
    <3> QED BY ONLY <3>10, m \in A
  <2> QED BY <2>1, <2>2
<1>2. A \in SUBSET Nat
  OBVIOUS
<1>3. A = {}
  BY <1>1, <1>2, MinOfNaturals
<1>4. n \in 0 .. n
  OBVIOUS
<1> QED
  BY ONLY <1>3, <1>4

\* And no two functions do what the definition says.
Follows(h, S, a, n, F) ==
  h[0] = a /\ \A i \in 1 .. n : h[i - 1] \in S => h[i] = F[i][h[i - 1]]

LEMMA IterationUnique ==
  ASSUME NEW S, NEW a, NEW n \in Nat, NEW F, NEW g, Iteration(g, S, a, n, F),
         NEW h, Follows(h, S, a, n, F)
  PROVE  \A i \in 0 .. n : h[i] = g[i]
<1> DEFINE A == {i \in 0 .. n : h[i] # g[i]}
<1>1. /\ g \in [0 .. n -> S] /\ g[0] = a
      /\ \A i \in 1 .. n : g[i] = F[i][g[i - 1]]
      /\ h[0] = a /\ \A i \in 1 .. n : h[i - 1] \in S => h[i] = F[i][h[i - 1]]
  BY DEF Iteration, Follows
<1>2. ASSUME NEW m \in A, \A k \in A : m <= k PROVE FALSE
  <2>1. m # 0
    BY <1>1
  <2>2. m - 1 \in 0 .. n /\ m - 1 \notin A /\ m \in 1 .. n
    BY <1>2, <2>1
  <2>3. h[m - 1] = g[m - 1] /\ g[m - 1] \in S
    BY <1>1, <2>2
  <2> QED BY <1>1, <2>2, <2>3
<1>3. A \in SUBSET Nat
  OBVIOUS
<1>4. A = {}
  BY <1>2, <1>3, MinOfNaturals
<1> QED
  BY <1>4

\* A sum that is taken term by term.
Sums(g, a, n, w) ==
  g \in [0 .. n -> Nat] /\ g[0] = a /\ \A i \in 1 .. n : g[i] = g[i - 1] + w[i]

LEMMA RunningSum ==
  ASSUME NEW n \in Nat, NEW a \in Nat, NEW w \in [1 .. n -> Nat]
  PROVE  \E g : /\ Sums(g, a, n, w)
                /\ \A h : h[0] = a /\ (\A i \in 1 .. n : h[i] = h[i - 1] + w[i])
                          => \A i \in 0 .. n : h[i] = g[i]
<1>1. PICK F : F = [i \in 1 .. n |-> [x \in Nat |-> x + w[i]]]
  OBVIOUS
<1>2. F \in Rounds(n, Nat)
  BY <1>1 DEF Rounds
<1>3. PICK g : Iteration(g, Nat, a, n, F)
  BY ONLY <1>2, n \in Nat, a \in Nat, Iterates
<1>4. /\ g \in [0 .. n -> Nat] /\ g[0] = a
      /\ \A i \in 1 .. n : g[i] = F[i][g[i - 1]]
  BY ONLY <1>3 DEF Iteration
<1>5. ASSUME NEW i \in 1 .. n PROVE g[i] = g[i - 1] + w[i]
  <2>1. g[i - 1] \in Nat
    BY <1>4
  <2> QED BY ONLY <1>1, <1>4, <2>1, i \in 1 .. n
<1>6. ASSUME NEW h, h[0] = a, \A i \in 1 .. n : h[i] = h[i - 1] + w[i]
      PROVE  \A i \in 0 .. n : h[i] = g[i]
  <2>1. Follows(h, Nat, a, n, F)
    BY ONLY <1>1, <1>6 DEF Follows
  <2> QED BY ONLY <1>3, <2>1, n \in Nat, IterationUnique
<1> QED
  BY <1>4, <1>5, <1>6 DEF Sums
=============================================================================
