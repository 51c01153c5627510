----------------------------- MODULE NaturalSets -----------------------------
(***************************************************************************)
(* Facts that the proofs of several modules need: about sets of naturals   *)
(* (least and greatest elements, the end of a run of consecutive members,  *)
(* the size of sets of positions of a sequence, induction), about loops,   *)
(* and about the numbers of SerialNumbers.                                 *)
(***************************************************************************)
EXTENDS Integers, Sequences, SerialNumbers, FiniteSetsExt, FiniteSetTheorems, TLAPS

\* A set of naturals has a least element: of the intervals that its elements
\* end, one contains none of the others.
LEMMA LeastNatural ==
    ASSUME NEW S \in SUBSET Nat, S # {}
    PROVE  \E n \in S : \A k \in S : n <= k
<1> DEFINE Upto == {0 .. n : n \in S}
           R == StrictSubsetOrdering(Nat)
           F == FiniteSubsetsOf(Nat)
<1>1. Upto \subseteq F /\ Upto # {}
  <2>1. \A n \in S : 0 .. n \in SUBSET Nat /\ IsFiniteSet(0 .. n)
    BY FS_Interval
  <2> QED BY <2>1 DEF FiniteSubsetsOf
<1>2. PICK x \in Upto : \A y \in Upto : <<y, x>> \notin R
  <2> HIDE DEF Upto, R, F
  <2>1. IsWellFoundedOn(R, F)
    BY FS_StrictSubsetOrderingWellFounded DEF R, F
  <2> QED BY <1>1, <2>1, WFMin
<1>3. PICK n \in S : x = 0 .. n
    BY <1>2
<1>4. ASSUME NEW k \in S, k < n PROVE FALSE
  <2>1. <<0 .. k, 0 .. n>> \in R
    <3>1. n \in 0 .. n /\ n \notin 0 .. k
      BY <1>4
    <3>2. 0 .. k \subseteq 0 .. n /\ 0 .. k # 0 .. n /\ 0 .. n \subseteq Nat
      BY <1>4, <3>1
    <3> QED BY <3>2 DEF StrictSubsetOrdering
  <2> QED BY <1>2, <1>3, <2>1
<1> QED BY <1>4

\* The least and the greatest are the community module's Min and Max.
LEMMA MinOfNaturals ==
    ASSUME NEW S \in SUBSET Nat, S # {}
    PROVE  Min(S) \in S /\ \A k \in S : Min(S) <= k
<1>1. \E n \in S : \A k \in S : n <= k
  BY LeastNatural
<1> QED BY <1>1 DEF Min

LEMMA MaxOfNaturals ==
    ASSUME NEW S \in SUBSET Nat, S # {}, NEW n \in Nat, \A k \in S : k <= n
    PROVE  Max(S) \in S /\ \A k \in S : Max(S) >= k
<1> DEFINE Below == {n - k : k \in S}
<1>1. Below \in SUBSET Nat /\ Below # {}
  <2>1. \A k \in S : n - k \in Nat
    OBVIOUS
  <2> QED BY <2>1
<1>2. PICK d \in Below : \A e \in Below : d <= e
  BY <1>1, LeastNatural
<1>3. PICK x \in S : d = n - x
  BY <1>2
<1>4. \A y \in S : x >= y
  <2> SUFFICES ASSUME NEW y \in S PROVE x >= y
    OBVIOUS
  <2>1. n - x <= n - y
    BY <1>2, <1>3
  <2> QED BY <2>1
<1> QED BY <1>4 DEF Max

\* From p on, S has a run of consecutive members that ends before n + 1.
LEMMA RunOfNaturals ==
    ASSUME NEW p \in Nat, NEW n \in Nat, p <= n, NEW S \in SUBSET Nat, n + 1 \notin S
    PROVE  \E i \in p .. n : (p + 1) .. i \subseteq S /\ i + 1 \notin S
<1> DEFINE Stops == {k \in Nat : k >= p /\ k + 1 \notin S}
<1>1. n \in Stops
  OBVIOUS
<1>2. PICK i \in Stops : \A k \in Stops : i <= k
  <2>1. Stops \in SUBSET Nat /\ Stops # {}
    BY <1>1
  <2> QED BY <2>1, LeastNatural
<1>3. \A j \in (p + 1) .. i : j \in S
  <2> SUFFICES ASSUME NEW j \in (p + 1) .. i, j \notin S PROVE FALSE
    OBVIOUS
  <2>1. j - 1 \in Stops
    OBVIOUS
  <2> QED BY <1>2, <2>1
<1> QED BY <1>1, <1>2, <1>3

\* Shifting a finite set of naturals leaves its size.
LEMMA ShiftedSize ==
    ASSUME NEW k \in Nat, NEW S \in SUBSET Nat, IsFiniteSet(S), NEW T,
           T = {i + k : i \in S}
    PROVE  IsFiniteSet(T) /\ Cardinality(T) = Cardinality(S)
<1> DEFINE f == [i \in S |-> i + k]
<1>1. f \in Bijection(S, T)
  <2>1. f \in [S -> T]
    OBVIOUS
  <2>2. \A a, b \in S : f[a] = f[b] => a = b
    OBVIOUS
  <2>3. \A t \in T : \E s \in S : f[s] = t
    <3> SUFFICES ASSUME NEW t \in T PROVE \E s \in S : f[s] = t
      OBVIOUS
    <3>1. PICK s \in S : t = s + k
      OBVIOUS
    <3> QED BY <3>1
  <2> HIDE DEF f
  <2> QED BY <2>1, <2>2, <2>3 DEF Bijection, Injection, Surjection, IsInjective
<1>2. ExistsBijection(S, T)
  BY <1>1 DEF ExistsBijection
<1> QED BY <1>2, FS_Bijection

\* The size of a set that is two sets with nothing in common.
LEMMA SplitSize ==
    ASSUME NEW S, NEW T, IsFiniteSet(S), IsFiniteSet(T), S \cap T = {}
    PROVE  /\ IsFiniteSet(S \cup T)
           /\ Cardinality(S \cup T) = Cardinality(S) + Cardinality(T)
           /\ Cardinality(S) \in Nat /\ Cardinality(T) \in Nat
<1>1. IsFiniteSet(S \cup T)
      /\ Cardinality(S \cup T) = Cardinality(S) + Cardinality(T) - 0
  <2>1. Cardinality({}) = 0
    BY FS_EmptySet
  <2> QED BY <2>1, FS_Union
<1>2. Cardinality(S) \in Nat /\ Cardinality(T) \in Nat
  BY FS_CardinalityType
<1> QED BY <1>1, <1>2

\* Induction, for a set of naturals instead of a predicate.
LEMMA SetInduction ==
    ASSUME NEW S, 0 \in S, \A n \in Nat : n \in S => n + 1 \in S
    PROVE  Nat \subseteq S
<1> DEFINE Out == {n \in Nat : n \notin S}
<1> SUFFICES ASSUME Out # {} PROVE FALSE
  OBVIOUS
<1>1. PICK n \in Out : \A k \in Out : n <= k
  BY LeastNatural
<1>2. n # 0 /\ n - 1 \in Nat
  OBVIOUS
<1>3. n - 1 \notin Out
  BY <1>1, <1>2
<1>4. n - 1 \in S
  BY <1>2, <1>3
<1> QED BY <1>2, <1>4

\* A loop of n turns is a function: k turns lead to f[k].
IsLoop(f, A, a0, n, step) ==
    f \in [0 .. n -> A] /\ f[0] = a0 /\ \A k \in 1 .. n : f[k] = step[<<k, f[k - 1]>>]

LEMMA LoopExists ==
    ASSUME NEW A, NEW a0 \in A, NEW n \in Nat, NEW step \in [(1 .. n) \X A -> A]
    PROVE  \E f : IsLoop(f, A, a0, n, step)
<1> DEFINE Is(f, m) == f = [k \in 0 .. m |-> IF k = 0 THEN a0 ELSE step[<<k, f[k - 1]>>]]
           S == {m \in Nat : m <= n => \E f \in [0 .. m -> A] : Is(f, m)}
<1>1. 0 \in S
  <2> DEFINE f == [k \in 0 .. 0 |-> a0]
  <2>1. f \in [0 .. 0 -> A] /\ Is(f, 0)
    OBVIOUS
  <2> QED BY <2>1
<1>2. ASSUME NEW m \in Nat, m \in S PROVE m + 1 \in S
  <2> SUFFICES ASSUME m + 1 <= n PROVE \E f \in [0 .. (m + 1) -> A] : Is(f, m + 1)
    OBVIOUS
  <2>1. PICK f \in [0 .. m -> A] : Is(f, m)
    BY <1>2
  <2> DEFINE g == [k \in 0 .. (m + 1) |-> IF k = m + 1 THEN step[<<m + 1, f[m]>>] ELSE f[k]]
  <2>2. g \in [0 .. (m + 1) -> A]
    <3>1. <<m + 1, f[m]>> \in (1 .. n) \X A
      BY <2>1
    <3>2. step[<<m + 1, f[m]>>] \in A
      BY <3>1
    <3> QED BY <2>1, <3>2
  <2>3. ASSUME NEW k \in 0 .. (m + 1)
        PROVE  g[k] = IF k = 0 THEN a0 ELSE step[<<k, g[k - 1]>>]
    <3>1. CASE k = m + 1
      <4>1. g[m + 1] = step[<<m + 1, f[m]>>] /\ g[m] = f[m] /\ m + 1 # 0 /\ m + 1 - 1 = m
        BY ONLY m \in Nat
      <4> HIDE DEF g
      <4>2. k # 0 /\ k - 1 = m /\ g[k] = step[<<k, f[k - 1]>>] /\ g[k - 1] = f[k - 1]
        BY ONLY <3>1, <4>1
      <4> QED BY ONLY <4>2
    <3>2. CASE k # m + 1
      <4>1. k \in 0 .. m /\ (k # 0 => k - 1 \in 0 .. m /\ k - 1 # m + 1)
        BY <3>2
      <4>2. f[k] = IF k = 0 THEN a0 ELSE step[<<k, f[k - 1]>>]
        <5> DEFINE h == [i \in 0 .. m |-> IF i = 0 THEN a0 ELSE step[<<i, f[i - 1]>>]]
        <5>1. h[k] = IF k = 0 THEN a0 ELSE step[<<k, f[k - 1]>>]
          BY <4>1
        <5>2. f = h
          BY <2>1
        <5> QED BY ONLY <5>1, <5>2, Zenon
      <4>3. g[k] = f[k] /\ (k # 0 => g[k - 1] = f[k - 1])
        BY ONLY <3>2, <4>1, m \in Nat
      <4> QED BY ONLY <4>2, <4>3
    <3> QED BY <3>1, <3>2
  <2>4. Is(g, m + 1)
    BY <2>3
  <2> HIDE DEF g, Is
  <2> QED BY <2>2, <2>4
<1>3. Nat \subseteq S
  <2> HIDE DEF S
  <2> QED BY <1>1, <1>2, SetInduction
<1>4. PICK f \in [0 .. n -> A] : Is(f, n)
  BY <1>3
<1>5. ASSUME NEW k \in 0 .. n PROVE f[k] = IF k = 0 THEN a0 ELSE step[<<k, f[k - 1]>>]
  <2> DEFINE h == [i \in 0 .. n |-> IF i = 0 THEN a0 ELSE step[<<i, f[i - 1]>>]]
  <2>1. h[k] = IF k = 0 THEN a0 ELSE step[<<k, f[k - 1]>>]
    OBVIOUS
  <2>2. f = h
    BY <1>4
  <2> QED BY ONLY <2>1, <2>2, Zenon
<1>6. f[0] = a0 /\ \A k \in 1 .. n : f[k] = step[<<k, f[k - 1]>>]
  <2>1. 0 \in 0 .. n
    OBVIOUS
  <2>2. \A k \in 1 .. n : k \in 0 .. n /\ k # 0
    OBVIOUS
  <2> QED BY <1>5, <2>1, <2>2, Zenon
<1> QED BY <1>6 DEF IsLoop

-----------------------------------------------------------------------------
(* Serial numbers.                                                         *)

\* A positive multiple of m is at least m.
LEMMA MultipleFact ==
    ASSUME NEW m \in Nat \ {0}, NEW k \in Nat, k >= 1
    PROVE  m * k >= m
<1>1. m * k = m + m * (k - 1) /\ m * (k - 1) >= 0
    BY SMT
<1> QED BY <1>1

\* Two numbers that differ by less than half, counted without end, are in the
\* same circle or the later one is in the next.
LEMMA CircleFact ==
    ASSUME NEW half \in Nat \ {0}, NEW a \in Nat, NEW b \in Nat, a <= b, b - a < half
    PROVE  \/ (b % (2 * half)) - (a % (2 * half)) = b - a
           \/ (b % (2 * half)) - (a % (2 * half)) = b - a - 2 * half
<1> DEFINE m == 2 * half
           k == b \div m - a \div m
<1>1. m \in Nat \ {0} /\ k \in Int
    OBVIOUS
<1>2. /\ a = m * (a \div m) + (a % m) /\ a % m \in 0 .. (m - 1)
      /\ b = m * (b \div m) + (b % m) /\ b % m \in 0 .. (m - 1)
    BY <1>1
<1> HIDE DEF m
<1>3. b - a = m * k + ((b % m) - (a % m))
  <2>1. m * (b \div m) - m * (a \div m) = m * k
    BY <1>1
  <2> QED BY <1>1, <1>2, <2>1
<1>4. ~(k >= 2)
  <2> SUFFICES ASSUME k >= 2 PROVE FALSE
    OBVIOUS
  <2>1. m * k = m + m * (k - 1) /\ m * (k - 1) >= m
    BY <1>1, MultipleFact
  <2> QED BY <1>1, <1>2, <1>3, <2>1 DEF m
<1>5. ~(k <= -1)
  <2> SUFFICES ASSUME k <= -1 PROVE FALSE
    OBVIOUS
  <2>1. m * k = -(m * (-k)) /\ m * (-k) >= m
    BY <1>1, MultipleFact
  <2> QED BY <1>1, <1>2, <1>3, <2>1
<1>6. k = 0 \/ k = 1
    BY <1>1, <1>4, <1>5
<1> HIDE DEF k
<1>7. (b % m) - (a % m) = b - a \/ (b % m) - (a % m) = b - a - m
  <2>1. CASE k = 0
    BY <1>1, <1>2, <1>3, <2>1
  <2>2. CASE k = 1
    BY <1>1, <1>2, <1>3, <2>2
  <2> QED BY <1>6, <2>1, <2>2
<1> QED BY <1>7 DEF m

\* The comparisons of wrapped numbers agree with the order of the numbers
\* counted without end while these are less than half a circle apart: why
\* a model may count TSNs with integers when fewer than 2^31 are under way.
THEOREM SernoIsOrder ==
    ASSUME NEW half \in Nat \ {0}, NEW a \in Nat, NEW b \in Nat,
           a - b < half, b - a < half
    PROVE  /\ SernoLt(a % (2 * half), b % (2 * half), half) <=> a < b
           /\ SernoLte(a % (2 * half), b % (2 * half), half) <=> a <= b
           /\ SernoGt(a % (2 * half), b % (2 * half), half) <=> a > b
<1> DEFINE m == 2 * half
<1>1. /\ m \in Nat \ {0}
      /\ a % m \in 0 .. (m - 1)
      /\ b % m \in 0 .. (m - 1)
    OBVIOUS
<1> HIDE DEF m
<1>2. CASE a <= b
  <2>1. (b % m) - (a % m) = b - a \/ (b % m) - (a % m) = b - a - 2 * half
    BY <1>2, CircleFact DEF m
  <2> QED BY <1>1, <1>2, <2>1 DEF m, SernoLt, SernoLte, SernoGt
<1>3. CASE b <= a
  <2>1. (a % m) - (b % m) = a - b \/ (a % m) - (b % m) = a - b - 2 * half
    BY <1>3, CircleFact DEF m
  <2> QED BY <1>1, <1>3, <2>1 DEF m, SernoLt, SernoLte, SernoGt
<1> QED BY <1>2, <1>3
=============================================================================
