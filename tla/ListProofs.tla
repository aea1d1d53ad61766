----------------------------- MODULE ListProofs -----------------------------
(***************************************************************************)
(* What the proofs about the components keep needing.  Of a plan: that the *)
(* strides of n workers partition it, and that advancing by n from a       *)
(* position reaches the next one of the same stride.  Of numbers: counting *)
(* and induction, from the least member of a set.  Of lists: what a fold   *)
(* goes through from one end to the other, what a filter leaves, and what  *)
(* is where in lists that are put together.                                *)
(***************************************************************************)
EXTENDS StridePlan, Lists, SequencesExt, Integers, FiniteSetTheorems, SequenceTheorems, TLAPS

-----------------------------------------------------------------------------
(***************************************************************************)
(* Arithmetic of `i += workers`.                                           *)
(***************************************************************************)
LEMMA Euclid ==
    ASSUME NEW i \in Nat, NEW n \in Nat \ {0}
    PROVE  i \div n \in Nat /\ i % n \in 0 .. n - 1 /\ i = n * (i \div n) + (i % n)
<1>1. i = n * (i \div n) + (i % n)
  BY Z3T(60)
<1>2. i \div n \in Int /\ i % n \in 0 .. n - 1
  BY SMT
<1>3. CASE i \div n <= -1
  <2>1. n * (i \div n) <= 0 - n
    BY <1>2, <1>3, SMTT(30)
  <2> QED BY <1>1, <1>2, <2>1
<1> QED BY <1>1, <1>2, <1>3

\* The only multiple of n between -n and n is 0.
LEMMA OnlyMultipleInside ==
    ASSUME NEW k \in Int, NEW n \in Nat \ {0}, 0 - n < n * k, n * k < n
    PROVE  k = 0
<1>1. CASE k >= 1
  <2>1. n * k >= n
    BY <1>1, SMTT(30)
  <2> QED BY <2>1
<1>2. CASE k <= -1
  <2>1. n * k <= 0 - n
    BY <1>2, SMTT(30)
  <2> QED BY <2>1
<1> QED BY <1>1, <1>2

\* `i += n` stays in the stride.
LEMMA StrideStep ==
    ASSUME NEW i \in Nat, NEW n \in Nat \ {0} PROVE (i + n) % n = i % n
<1> DEFINE q == i \div n   r == i % n   p == (i + n) \div n   s == (i + n) % n
<1>1. i = n * q + r /\ q \in Nat /\ r \in 0 .. n - 1
  BY Euclid
<1>2. i + n = n * p + s /\ p \in Nat /\ s \in 0 .. n - 1
  <2>1. i + n \in Nat
    OBVIOUS
  <2> QED BY <2>1, Euclid
<1> HIDE DEF q, r, p, s
<1>3. n * (p - q - 1) = r - s
  BY <1>1, <1>2, SMTT(30)
<1>4. p - q - 1 = 0
  <2>1. p - q - 1 \in Int
    BY <1>1, <1>2
  <2> QED BY <1>1, <1>2, <1>3, <2>1, OnlyMultipleInside, SMTT(30)
<1>5. r = s
  BY <1>1, <1>2, <1>3, <1>4
<1> QED BY <1>5 DEF r, s

\* A remainder is at most the number it is taken of.
LEMMA RemainderBound ==
    ASSUME NEW i \in Nat, NEW n \in Nat \ {0} PROVE i % n <= i
<1> DEFINE q == i \div n   r == i % n
<1>1. i = n * q + r /\ q \in Nat /\ r \in 0 .. n - 1
  BY Euclid
<1> HIDE DEF q, r
<1>2. n * q >= 0
  BY <1>1, SMTT(30)
<1>3. r <= i
  <2> DEFINE m == n * q
  <2>1. i = m + r /\ m \in Int /\ m >= 0
    BY <1>1, <1>2
  <2> HIDE DEF m
  <2> QED BY <2>1, <1>1
<1> QED BY <1>3 DEF r

\* It skips no position of the stride.
LEMMA StrideGap ==
    ASSUME NEW i \in Nat, NEW j \in Nat, NEW n \in Nat \ {0}, i % n = j % n, i < j
    PROVE  i + n <= j
<1> DEFINE q == i \div n   r == i % n   p == j \div n
<1>1. i = n * q + r /\ q \in Nat /\ r \in 0 .. n - 1
  BY Euclid
<1>2. j = n * p + r /\ p \in Nat
  BY Euclid
<1> HIDE DEF q, r, p
<1>3. n * (p - q) = j - i
  BY <1>1, <1>2, SMTT(30)
<1>4. CASE p - q >= 1
  <2>1. n * (p - q) >= n
    BY <1>1, <1>2, <1>4, SMTT(30)
  <2> QED BY <1>3, <2>1
<1>5. CASE p - q <= 0
  <2>1. n * (p - q) <= 0
    BY <1>1, <1>2, <1>5, SMTT(30)
  <2> QED BY <1>3, <2>1
<1> QED BY <1>1, <1>2, <1>4, <1>5

\* Worker w starts in its own stride.
LEMMA StrideStart ==
    ASSUME NEW n \in Nat \ {0}, NEW w \in 0 .. n - 1 PROVE w % n = w
BY SMT

-----------------------------------------------------------------------------
(***************************************************************************)
(* Positions in a plan of CUs 1..m.                                        *)
(***************************************************************************)
LEMMA BelowFinite ==
    ASSUME NEW m \in Nat, NEW plan \in SUBSET (1 .. m), NEW u
    PROVE  IsFiniteSet(plan) /\ IsFiniteSet({v \in plan : v < u})
<1>1. IsFiniteSet(1 .. m)
  BY FS_Interval
<1>2. IsFiniteSet(plan)
  BY <1>1, FS_Subset
<1> QED BY <1>2, FS_Subset

\* A CU's position is a natural number,
LEMMA PositionType ==
    ASSUME NEW m \in Nat, NEW plan \in SUBSET (1 .. m), NEW u
    PROVE  Position(u, plan) \in Nat /\ Cardinality(plan) \in Nat
BY BelowFinite, FS_CardinalityType DEF Position

\* ... and grows with the CU.
LEMMA PositionMonotone ==
    ASSUME NEW m \in Nat, NEW plan \in SUBSET (1 .. m), NEW u \in plan, NEW v \in 1 .. m, u < v
    PROVE  Position(u, plan) < Position(v, plan)
<1> DEFINE U == {x \in plan : x < u}   V == {x \in plan : x < v}
<1>1. U \subseteq V /\ U # V
  <2>1. u \in V /\ u \notin U
    OBVIOUS
  <2>2. U \subseteq V
    <3> SUFFICES ASSUME NEW x \in plan, x < u PROVE x < v
      OBVIOUS
    <3>1. x \in Int /\ u \in Int /\ v \in Int
      OBVIOUS
    <3> QED BY <3>1
  <2> HIDE DEF U, V
  <2> QED BY <2>1, <2>2
<1>2. IsFiniteSet(U) /\ IsFiniteSet(V)
  BY BelowFinite
<1>3. Cardinality(U) <= Cardinality(V) /\ Cardinality(V) # Cardinality(U)
  BY <1>1, <1>2, FS_Subset
<1>4. Cardinality(U) \in Nat /\ Cardinality(V) \in Nat
  BY <1>2, FS_CardinalityType
<1>5. Cardinality(U) < Cardinality(V)
  BY <1>3, <1>4
<1> QED BY <1>5 DEF Position

\* No two CUs of a plan have the same position.
LEMMA PositionInjective ==
    ASSUME NEW m \in Nat, NEW plan \in SUBSET (1 .. m), NEW u \in plan, NEW v \in plan,
           Position(u, plan) = Position(v, plan)
    PROVE  u = v
<1>1. u \in 1 .. m /\ v \in 1 .. m /\ Position(u, plan) \in Nat
  BY PositionType
<1>2. ~(u < v)
  <2>1. u < v => Position(u, plan) < Position(v, plan)
    BY <1>1, PositionMonotone
  <2> QED BY <1>1, <2>1
<1>3. ~(v < u)
  <2>1. v < u => Position(v, plan) < Position(u, plan)
    BY <1>1, PositionMonotone
  <2> QED BY <1>1, <2>1
<1> QED BY <1>1, <1>2, <1>3

\* A CU of the plan has a position in the plan.
LEMMA PositionBound ==
    ASSUME NEW m \in Nat, NEW plan \in SUBSET (1 .. m), NEW u \in plan
    PROVE  Position(u, plan) < Cardinality(plan)
<1> DEFINE U == {x \in plan : x < u}
<1>1. U \subseteq plan /\ U # plan
  <2>1. u \in plan /\ u \notin U
    OBVIOUS
  <2> QED BY <2>1
<1>2. IsFiniteSet(U) /\ IsFiniteSet(plan)
  BY BelowFinite
<1>3. Cardinality(U) <= Cardinality(plan) /\ Cardinality(plan) # Cardinality(U)
  BY <1>1, <1>2, FS_Subset
<1> QED BY <1>2, <1>3, FS_CardinalityType DEF Position

-----------------------------------------------------------------------------
(***************************************************************************)
(* Counting.                                                               *)
(***************************************************************************)

\* The numbers up to n are n.
LEMMA UpTo ==
    ASSUME NEW n \in Nat
    PROVE  IsFiniteSet(1 .. n) /\ Cardinality(1 .. n) = n
<1>1. IsFiniteSet(1 .. n) /\ Cardinality(1 .. n) = IF 1 > n THEN 0 ELSE n - 1 + 1
  BY FS_Interval, SMTT(60)
<1>2. QED
  BY <1>1

\* A set of numbers that is not empty has a least one.
LEMMA LeastNatural ==
    ASSUME NEW T, T \subseteq Nat, T # {}
    PROVE  \E n \in T : \A m \in T : n <= m
<1> DEFINE R == OpToRel(<, Nat)
<1>1. IsWellFoundedOn(R, Nat)
  BY NatLessThanWellFounded
<1>2. \A x, y \in Nat : <<y, x>> \in R <=> y < x
  BY DEF OpToRel
<1> HIDE DEF R
<1>3. PICK n \in T : \A m \in T : <<m, n>> \notin R
  BY <1>1, WFMin
<1>4. ASSUME NEW m \in T PROVE n <= m
  <2>1. m \in Nat /\ n \in Nat
    OBVIOUS
  <2>2. ~(m < n)
    BY <1>2, <1>3, <2>1
  <2>3. QED
    BY <2>1, <2>2
<1>5. QED
  BY <1>4

\* An injection between finite sets of the same size hits everything.
LEMMA InjectionOnto ==
    ASSUME NEW n \in Nat, NEW S, IsFiniteSet(S), Cardinality(S) = n,
           NEW f \in [1 .. n -> S], \A i, j \in 1 .. n : f[i] = f[j] => i = j
    PROVE  \A x \in S : \E i \in 1 .. n : f[i] = x
<1>1. f \in Injection(1 .. n, S)
  BY DEF Injection, IsInjective
<1>2. Cardinality(1 .. n) = n
  BY UpTo
<1>3. f \in Surjection(1 .. n, S)
  BY <1>1, <1>2, FS_Injection
<1>4. QED
  BY <1>3 DEF Surjection

\* A renumbering hits every number.
LEMMA RenumberingOnto ==
    ASSUME NEW n \in Nat, NEW f \in [1 .. n -> 1 .. n],
           \A i, j \in 1 .. n : f[i] = f[j] => i = j
    PROVE  \A k \in 1 .. n : \E i \in 1 .. n : f[i] = k
<1>1. IsFiniteSet(1 .. n) /\ Cardinality(1 .. n) = n
  BY UpTo
<1>2. f \in Injection(1 .. n, 1 .. n)
  BY DEF Injection, IsInjective
<1>3. f \in Surjection(1 .. n, 1 .. n)
  BY <1>1, <1>2, FS_Injection
<1>4. QED
  BY <1>3 DEF Surjection

\* SetToSeq lists a finite set, each member once.
LEMMA SetToSeqLists ==
    ASSUME NEW S, IsFiniteSet(S)
    PROVE  /\ Cardinality(S) \in Nat
           /\ SetToSeq(S) \in [1 .. Cardinality(S) -> S]
           /\ \A x \in S : \E i \in 1 .. Cardinality(S) : SetToSeq(S)[i] = x
<1> DEFINE n == Cardinality(S)
<1>0. n \in Nat
  BY FS_CardinalityType
<1>1. ExistsBijection(1..n, S)
  BY FS_CardinalityType
<1>2. PICK f \in Bijection(1..n, S) : TRUE
  BY <1>1 DEF ExistsBijection
<1>3. f \in [1..n -> S] /\ IsInjective(f)
  BY <1>2 DEF Bijection, Injection, IsInjective
<1>4. SetToSeq(S) \in [1..n -> S] /\ IsInjective(SetToSeq(S))
  BY <1>3 DEF SetToSeq
<1>5. \A i, j \in 1 .. n : SetToSeq(S)[i] = SetToSeq(S)[j] => i = j
  BY <1>4 DEF IsInjective
<1>6. \A x \in S : \E i \in 1 .. n : SetToSeq(S)[i] = x
  BY <1>0, <1>4, <1>5, InjectionOnto
<1>7. QED
  BY <1>0, <1>4, <1>6

\* A list without repetitions is as long as its set is large.
LEMMA OnceCounts ==
    ASSUME NEW S, NEW a \in Seq(S), \A i, j \in 1 .. Len(a) : a[i] = a[j] => i = j
    PROVE  Cardinality(ToSet(a)) = Len(a)
<1>1. Len(a) \in Nat /\ a \in [1 .. Len(a) -> ToSet(a)] /\ ToSet(a) = {a[i] : i \in 1 .. Len(a)}
  BY DEF ToSet
<1>2. IsFiniteSet(1 .. Len(a)) /\ Cardinality(1 .. Len(a)) = Len(a)
  BY <1>1, UpTo
<1>3. a \in Bijection(1 .. Len(a), ToSet(a))
  BY <1>1 DEF Bijection, Injection, Surjection, IsInjective
<1>4. ExistsBijection(1 .. Len(a), ToSet(a))
  BY <1>3 DEF ExistsBijection
<1> QED BY <1>2, <1>4, FS_Bijection

-----------------------------------------------------------------------------
(***************************************************************************)
(* Induction over the numbers up to n, as a statement about sets.          *)
(***************************************************************************)

\* Induction: a set that has 0, and the successor of each of its numbers below
\* n, has the numbers up to n.
LEMMA InductionUp ==
    ASSUME NEW n \in Nat, NEW S, 0 \in S, \A k \in 0 .. n : k < n /\ k \in S => k + 1 \in S
    PROVE  \A k \in 0 .. n : k \in S
<1> DEFINE T == {k \in 0 .. n : k \notin S}
<1> SUFFICES ASSUME T # {} PROVE FALSE
  OBVIOUS
<1>1. PICK k \in T : \A m \in T : k <= m
  <2>1. T \subseteq Nat
    OBVIOUS
  <2> HIDE DEF T
  <2> QED BY <2>1, LeastNatural
<1>2. k \in 0 .. n /\ k \notin S /\ k # 0
  OBVIOUS
<1>3. k - 1 \in 0 .. n /\ k - 1 < n /\ ~(k <= k - 1)
  BY <1>2
<1>4. k - 1 \in S
  BY <1>1, <1>3
<1>5. (k - 1) + 1 = k
  BY <1>2
<1> QED BY <1>2, <1>3, <1>4, <1>5

\* The same from n down.
LEMMA InductionDown ==
    ASSUME NEW n \in Nat, NEW S, n \in S, \A k \in 0 .. n : k > 0 /\ k \in S => k - 1 \in S
    PROVE  \A k \in 0 .. n : k \in S
<1> DEFINE T == {j \in 0 .. n : n - j \in S}
<1>1. 0 \in T
  OBVIOUS
<1>2. \A j \in 0 .. n : j < n /\ j \in T => j + 1 \in T
  <2> SUFFICES ASSUME NEW j \in 0 .. n, j < n, j \in T PROVE j + 1 \in T
    OBVIOUS
  <2>1. n - j \in 0 .. n /\ n - j > 0 /\ (n - j) - 1 = n - (j + 1) /\ j + 1 \in 0 .. n
    OBVIOUS
  <2> QED BY <2>1
<1> HIDE DEF T
<1>3. \A j \in 0 .. n : j \in T
  BY <1>1, <1>2, InductionUp
<1> QED
  <2> TAKE k \in 0 .. n
  <2>1. n - k \in 0 .. n /\ n - (n - k) = k
    OBVIOUS
  <2> QED BY <2>1, <1>3 DEF T

\* The largest and the smallest member of a set of numbers up to n.
LEMMA MaxIs ==
    ASSUME NEW n \in Nat, NEW s \in SUBSET (1 .. n), s # {}
    PROVE  Max(s) \in s /\ \A i \in s : Max(s) >= i
<1>1. PICK m \in {n - i : i \in s} : \A k \in {n - i : i \in s} : m <= k
  <2>1. \A i \in s : n - i \in Nat
    OBVIOUS
  <2>2. {n - i : i \in s} \subseteq Nat
    BY <2>1
  <2>3. {n - i : i \in s} # {}
    OBVIOUS
  <2> QED BY <2>2, <2>3, LeastNatural
<1>2. PICK x \in s : m = n - x
  BY <1>1
<1>3. ASSUME NEW y \in s PROVE x >= y
  <2>1. n - x <= n - y
    BY <1>1, <1>2
  <2> QED BY <2>1
<1> QED BY <1>3 DEF Max

LEMMA MinIs ==
    ASSUME NEW n \in Nat, NEW s \in SUBSET (1 .. n), s # {}
    PROVE  Min(s) \in s /\ \A i \in s : Min(s) <= i
<1>1. \E x \in s : \A y \in s : x <= y
  <2>1. s \subseteq Nat
    OBVIOUS
  <2> QED BY <2>1, LeastNatural
<1> QED BY <1>1 DEF Min

\* What FoldLeft and FoldRight compute: a function on sets of places that takes
\* the last one off, or the first one.
IsLeftFold(f, n, A, base, step) ==
    /\ f \in [SUBSET (1 .. n) -> A] /\ f[{}] = base
    /\ \A s \in SUBSET (1 .. n) : s # {} => f[s] = step[<<f[s \ {Max(s)}], Max(s)>>]

IsRightFold(f, n, A, base, step) ==
    /\ f \in [SUBSET (1 .. n) -> A] /\ f[{}] = base
    /\ \A s \in SUBSET (1 .. n) : s # {} => f[s] = step[<<f[s \ {Min(s)}], Min(s)>>]

Steps(n, A) == [A \X (1 .. n) -> A]

\* There is such a function.
LEMMA FoldsFromLeft ==
    ASSUME NEW n \in Nat, NEW A, NEW base \in A, NEW step \in Steps(n, A)
    PROVE  \E f : IsLeftFold(f, n, A, base, step)
<1> DEFINE Runs(k, f) == f \in [SUBSET (1 .. k) -> A] /\
               f = [s \in SUBSET (1 .. k) |-> IF s = {} THEN base ELSE step[<<f[s \ {Max(s)}], Max(s)>>]]
           T == {k \in 0 .. n : \E f : Runs(k, f)}
<1>0. step \in [A \X (1 .. n) -> A]
  BY DEF Steps
<1>1. 0 \in T
  <2> DEFINE f == [s \in SUBSET (1 .. 0) |-> base]
  <2>1. SUBSET (1 .. 0) = {{}}
    OBVIOUS
  <2>2. Runs(0, f)
    BY <2>1
  <2> HIDE DEF Runs
  <2> QED BY <2>2
<1>2. ASSUME NEW k \in 0 .. n, k < n, k \in T PROVE k + 1 \in T
  <2>1. PICK f : Runs(k, f)
    BY <1>2
  <2> DEFINE g == [s \in SUBSET (1 .. k + 1) |->
                       IF k + 1 \in s THEN step[<<f[s \ {k + 1}], k + 1>>] ELSE f[s]]
  <2>2. \A s \in SUBSET (1 .. k + 1) :
           /\ k + 1 \in s => s \ {k + 1} \in SUBSET (1 .. k) /\ s # {} /\ Max(s) = k + 1
           /\ k + 1 \notin s => s \in SUBSET (1 .. k)
    <3> TAKE s \in SUBSET (1 .. k + 1)
    <3>1. ASSUME k + 1 \in s PROVE Max(s) = k + 1
      <4>1. Max(s) \in s /\ Max(s) >= k + 1
        <5>1. k + 1 \in Nat /\ s # {}
          BY <3>1
        <5>2. Max(s) \in s /\ \A i \in s : Max(s) >= i
          BY <5>1, MaxIs
        <5> QED BY <3>1, <5>2
      <4>2. Max(s) \in 1 .. k + 1
        BY <4>1
      <4> QED BY <4>1, <4>2
    <3>2. \A i \in 1 .. k + 1 : i # k + 1 => i \in 1 .. k
      OBVIOUS
    <3> QED BY <3>1, <3>2
  <2>3. g \in [SUBSET (1 .. k + 1) -> A]
    <3> SUFFICES ASSUME NEW s \in SUBSET (1 .. k + 1) PROVE g[s] \in A
      OBVIOUS
    <3>1. k + 1 \in 1 .. n
      BY <1>2
    <3> QED BY <1>0, <2>1, <2>2, <3>1
  <2>4. ASSUME NEW s \in SUBSET (1 .. k + 1)
        PROVE  g[s] = IF s = {} THEN base ELSE step[<<g[s \ {Max(s)}], Max(s)>>]
    <3>1. CASE k + 1 \in s
      <4>1. g[s \ {k + 1}] = f[s \ {k + 1}]
        BY <3>1, <2>2
      <4> QED BY <3>1, <2>2, <4>1
    <3>2. CASE k + 1 \notin s /\ s # {}
      <4>1. g[s] = f[s] /\ s \in SUBSET (1 .. k)
        BY <3>2, <2>2
      <4>2. f[s] = step[<<f[s \ {Max(s)}], Max(s)>>]
        BY <2>1, <4>1, <3>2
      <4>3. g[s \ {Max(s)}] = f[s \ {Max(s)}]
        BY <3>2, <4>1
      <4> QED BY <3>2, <4>1, <4>2, <4>3
    <3>3. CASE s = {}
      <4>1. g[s] = f[{}]
        BY <3>3
      <4> QED BY <3>3, <4>1, <2>1
    <3> QED BY <3>1, <3>2, <3>3
  <2>5. Runs(k + 1, g)
    BY <2>3, <2>4
  <2>6. k + 1 \in 0 .. n
    BY <1>2
  <2> HIDE DEF Runs, g
  <2> QED BY <2>5, <2>6
<1> HIDE DEF T
<1>3. n \in T
  BY <1>1, <1>2, InductionUp
<1>4. PICK f : Runs(n, f)
  BY <1>3 DEF T
<1> QED BY <1>4 DEF IsLeftFold

LEMMA FoldsFromRight ==
    ASSUME NEW n \in Nat, NEW A, NEW base \in A, NEW step \in Steps(n, A)
    PROVE  \E f : IsRightFold(f, n, A, base, step)
<1> DEFINE Runs(k, f) == f \in [SUBSET (k + 1 .. n) -> A] /\
               f = [s \in SUBSET (k + 1 .. n) |-> IF s = {} THEN base ELSE step[<<f[s \ {Min(s)}], Min(s)>>]]
           T == {k \in 0 .. n : \E f : Runs(k, f)}
<1>0. step \in [A \X (1 .. n) -> A]
  BY DEF Steps
<1>1. n \in T
  <2> DEFINE f == [s \in SUBSET (n + 1 .. n) |-> base]
  <2>1. SUBSET (n + 1 .. n) = {{}}
    OBVIOUS
  <2>2. Runs(n, f)
    BY <2>1
  <2> HIDE DEF Runs
  <2> QED BY <2>2
<1>2. ASSUME NEW k \in 0 .. n, k > 0, k \in T PROVE k - 1 \in T
  <2>1. PICK f : Runs(k, f)
    BY <1>2
  <2>0. k \in 1 .. n /\ (k - 1) + 1 = k
    BY <1>2
  <2> DEFINE g == [s \in SUBSET (k .. n) |-> IF k \in s THEN step[<<f[s \ {k}], k>>] ELSE f[s]]
  <2>2. \A s \in SUBSET (k .. n) :
           /\ k \in s => s \ {k} \in SUBSET (k + 1 .. n) /\ s # {} /\ Min(s) = k
           /\ k \notin s => s \in SUBSET (k + 1 .. n)
    <3> TAKE s \in SUBSET (k .. n)
    <3>1. ASSUME k \in s PROVE Min(s) = k
      <4>1. s \in SUBSET (1 .. n) /\ s # {}
        BY <2>0, <3>1
      <4>2. Min(s) \in s /\ \A i \in s : Min(s) <= i
        BY <4>1, MinIs
      <4>3. Min(s) \in k .. n /\ Min(s) <= k
        BY <3>1, <4>2
      <4> QED BY <2>0, <4>3
    <3>2. \A i \in k .. n : i # k => i \in k + 1 .. n
      BY <2>0
    <3> QED BY <3>1, <3>2
  <2>3. g \in [SUBSET (k .. n) -> A]
    <3> SUFFICES ASSUME NEW s \in SUBSET (k .. n) PROVE g[s] \in A
      OBVIOUS
    <3>1. CASE k \in s
      <4>1. f[s \ {k}] \in A
        BY <2>1, <2>2, <3>1
      <4> QED BY <1>0, <2>0, <3>1, <4>1
    <3>2. CASE k \notin s
      BY <2>1, <2>2, <3>2
    <3> QED BY <3>1, <3>2
  <2>4. ASSUME NEW s \in SUBSET (k .. n)
        PROVE  g[s] = IF s = {} THEN base ELSE step[<<g[s \ {Min(s)}], Min(s)>>]
    <3>1. CASE k \in s
      <4>1. g[s \ {k}] = f[s \ {k}]
        BY <3>1, <2>2
      <4> QED BY <3>1, <2>2, <4>1
    <3>2. CASE k \notin s /\ s # {}
      <4>1. g[s] = f[s] /\ s \in SUBSET (k + 1 .. n)
        BY <3>2, <2>2
      <4>2. f[s] = step[<<f[s \ {Min(s)}], Min(s)>>]
        BY <2>1, <4>1, <3>2
      <4>3. g[s \ {Min(s)}] = f[s \ {Min(s)}]
        BY <3>2, <4>1
      <4> QED BY <3>2, <4>1, <4>2, <4>3
    <3>3. CASE s = {}
      <4>1. g[s] = f[{}]
        BY <3>3
      <4> QED BY <3>3, <4>1, <2>1
    <3> QED BY <3>1, <3>2, <3>3
  <2>5. Runs(k - 1, g)
    BY <2>0, <2>3, <2>4
  <2>6. k - 1 \in 0 .. n
    BY <1>2
  <2> HIDE DEF Runs, g
  <2> QED BY <2>5, <2>6
<1> HIDE DEF T
<1>3. 0 \in T
  <2>1. 0 \in 0 .. n
    OBVIOUS
  <2> QED BY <1>1, <1>2, <2>1, InductionDown
<1>4. PICK f : Runs(0, f)
  BY <1>3 DEF T
<1>5. 0 + 1 = 1
  OBVIOUS
<1> QED BY <1>4, <1>5 DEF IsRightFold

\* The last place up to k is k, and the first one from k on is k.
LEMMA EndsOf ==
    ASSUME NEW n \in Nat, NEW k \in 1 .. n
    PROVE  /\ Max(1 .. k) = k /\ (1 .. k) \ {k} = 1 .. k - 1
           /\ Min(k .. n) = k /\ (k .. n) \ {k} = k + 1 .. n
<1>1. 1 .. k \in SUBSET (1 .. n) /\ k .. n \in SUBSET (1 .. n) /\ k \in 1 .. k /\ k \in k .. n
  OBVIOUS
<1>2. Max(1 .. k) \in 1 .. k /\ Max(1 .. k) >= k
  BY <1>1, MaxIs
<1>3. Min(k .. n) \in k .. n /\ Min(k .. n) <= k
  BY <1>1, MinIs
<1> QED BY <1>2, <1>3

-----------------------------------------------------------------------------
(***************************************************************************)
(* Numbers of a set in their order, and lists that are filtered.           *)
(***************************************************************************)

\* Nth and Position number the members of a set.
LEMMA NthIs ==
    ASSUME NEW n \in Nat, NEW at \in SUBSET (1 .. n)
    PROVE  /\ IsFiniteSet(at) /\ Cardinality(at) \in Nat
           /\ \A k \in 1 .. Cardinality(at) : Nth(at, k) \in at /\ Position(Nth(at, k), at) + 1 = k
           /\ \A i \in at : /\ Position(i, at) + 1 \in 1 .. Cardinality(at)
                            /\ Nth(at, Position(i, at) + 1) = i
<1> DEFINE m == Cardinality(at)
           f == [i \in at |-> Position(i, at) + 1]
<1>1. IsFiniteSet(at) /\ m \in Nat
  <2>1. IsFiniteSet(1 .. n)
    BY UpTo
  <2> QED BY <2>1, FS_Subset, FS_CardinalityType
<1>2. \A i \in at : Position(i, at) \in Nat /\ Position(i, at) < m
  BY PositionType, PositionBound
<1> HIDE DEF m
<1>3. f \in [at -> 1 .. m]
  <2>1. \A i \in at : Position(i, at) + 1 \in 1 .. m
    BY <1>1, <1>2
  <2> QED BY <2>1
<1>4. \A i, j \in at : f[i] = f[j] => i = j
  <2> SUFFICES ASSUME NEW i \in at, NEW j \in at, Position(i, at) + 1 = Position(j, at) + 1 PROVE i = j
    OBVIOUS
  <2>1. Position(i, at) = Position(j, at)
    BY <1>2
  <2> QED BY <2>1, PositionInjective
<1>5. \A k \in 1 .. m : \E i \in at : f[i] = k
  <2>1. f \in Injection(at, 1 .. m)
    BY <1>3, <1>4 DEF Injection, IsInjective
  <2>2. IsFiniteSet(1 .. m) /\ Cardinality(1 .. m) = m
    BY <1>1, UpTo
  <2>3. f \in Surjection(at, 1 .. m)
    BY <1>1, <2>1, <2>2, FS_Injection DEF m
  <2> QED BY <2>3 DEF Surjection
<1>6. ASSUME NEW k \in 1 .. m PROVE Nth(at, k) \in at /\ Position(Nth(at, k), at) + 1 = k
  <2>1. PICK i \in at : Position(i, at) + 1 = k
    BY <1>5
  <2>2. Cardinality({j \in at : j < i}) = k - 1
    BY <1>1, <1>2, <2>1 DEF Position
  <2>3. Nth(at, k) \in at /\ Position(Nth(at, k), at) = k - 1
    BY <2>2 DEF Position, Nth
  <2>4. (k - 1) + 1 = k
    BY <1>1
  <2> QED BY <2>3, <2>4
<1>7. ASSUME NEW i \in at PROVE Position(i, at) + 1 \in 1 .. m /\ Nth(at, Position(i, at) + 1) = i
  <2>1. Position(i, at) + 1 \in 1 .. m
    BY <1>3
  <2> DEFINE j == Nth(at, Position(i, at) + 1)
  <2>2. j \in at /\ f[j] = f[i]
    BY <1>6, <2>1
  <2> HIDE DEF j, f
  <2>3. j = i
    BY <1>4, <2>2
  <2> QED BY <2>1, <2>3 DEF j
<1> QED BY <1>1, <1>6, <1>7 DEF m

\* What is filtered is what the list has in the set.
LEMMA FilteredIs ==
    ASSUME NEW S, NEW s \in Seq(S), NEW set
    PROVE  /\ Filtered(s, set) \in Seq(S)
           /\ Range(Filtered(s, set)) = Range(s) \cap set
<1> DEFINE n == Len(s)
           at == {i \in 1 .. n : s[i] \in set}
           m == Cardinality(at)
<1>1. n \in Nat /\ at \in SUBSET (1 .. n) /\ \A i \in 1 .. n : s[i] \in S
  OBVIOUS
<1>2. Filtered(s, set) = [k \in 1 .. m |-> s[Nth(at, k)]]
  BY DEF Filtered
<1>3. Range(s) = {s[i] : i \in 1 .. n}
  BY DEF Range
<1>4. Range(s) \cap set = {s[i] : i \in at}
  BY <1>3
<1> HIDE DEF n, at, m
<1>5. /\ m \in Nat
      /\ \A k \in 1 .. m : Nth(at, k) \in at
      /\ \A i \in at : \E k \in 1 .. m : Nth(at, k) = i
  BY <1>1, NthIs DEF m
<1>6. Filtered(s, set) \in Seq(S)
  <2>1. \A k \in 1 .. m : s[Nth(at, k)] \in S
    BY <1>1, <1>5
  <2>2. Filtered(s, set) \in [1 .. m -> S]
    BY <1>2, <2>1
  <2> QED BY <1>5, <2>2
<1>7. Range(Filtered(s, set)) = {s[i] : i \in at}
  <2>1. Range(Filtered(s, set)) = {s[Nth(at, k)] : k \in 1 .. m}
    BY <1>2 DEF Range
  <2>2. \A x : (\E k \in 1 .. m : x = s[Nth(at, k)]) <=> \E i \in at : x = s[i]
    BY <1>5
  <2> QED BY <2>1, <2>2
<1> QED BY <1>4, <1>6, <1>7

-----------------------------------------------------------------------------
(***************************************************************************)
(* Pieces of a list, and lists that are put together.                      *)
(***************************************************************************)

\* What is in a list.
LEMMA ElementsOf ==
    ASSUME NEW S, NEW s \in Seq(S)
    PROVE  Len(s) \in Nat /\ DOMAIN s = 1 .. Len(s) /\ \A k \in 1 .. Len(s) : s[k] \in S
  OBVIOUS

\* A piece of a list has the characters of the text from a place to another.
LEMMA PieceIs ==
    ASSUME NEW S, NEW t \in Seq(S), NEW a \in 1 .. Len(t) + 1, NEW b \in 0 .. Len(t)
    PROVE  /\ SubSeq(t, a, b) \in Seq(S)
           /\ a <= b => Len(SubSeq(t, a, b)) = b - a + 1
           /\ \A k \in 1 .. Len(SubSeq(t, a, b)) : a + k - 1 \in a .. b /\ SubSeq(t, a, b)[k] = t[a + k - 1]
           /\ \A i \in a .. b : /\ i - a + 1 \in 1 .. Len(SubSeq(t, a, b))
                                /\ SubSeq(t, a, b)[i - a + 1] = t[i]
           /\ SubSeq(t, a, b) = <<>> <=> a > b
<1>1. Len(t) \in Nat
  OBVIOUS
<1> QED BY <1>1

\* A list without its last element.
LEMMA FrontTyped ==
    ASSUME NEW S, NEW s \in Seq(S), s # <<>>
    PROVE  /\ Front(s) \in Seq(S) /\ Len(s) \in Nat /\ Len(s) >= 1 /\ Len(Front(s)) = Len(s) - 1
           /\ \A i \in 1 .. Len(s) - 1 : Front(s)[i] = s[i]
           /\ Last(s) = s[Len(s)]
<1>1. Len(s) \in Nat /\ Len(s) # 0
  BY EmptySeq
<1>2. 1 \in 1 .. Len(s) + 1 /\ Len(s) - 1 \in 0 .. Len(s)
  BY <1>1
<1> DEFINE b == Len(s) - 1   p == SubSeq(s, 1, b)
<1>3. p \in Seq(S) /\ (1 <= b => Len(p) = b - 1 + 1)
      /\ (p = <<>> <=> 1 > b)
      /\ \A k \in 1 .. Len(p) : p[k] = s[1 + k - 1]
  <2>1. b \in 0 .. Len(s)
    BY <1>2
  <2> HIDE DEF b
  <2> QED BY <1>2, <2>1, PieceIs
<1> HIDE DEF p
<1>4. Len(p) = Len(s) - 1
  BY <1>1, <1>3, EmptySeq
<1>5. \A i \in 1 .. Len(s) - 1 : p[i] = s[i]
  <2> TAKE i \in 1 .. Len(s) - 1
  <2>1. i \in 1 .. Len(p) /\ 1 + i - 1 = i
    BY <1>1, <1>4
  <2> QED BY <1>3, <2>1
<1> QED BY <1>1, <1>3, <1>4, <1>5 DEF Front, Last, p

\* A list with one element more.
LEMMA AppendIs ==
    ASSUME NEW S, NEW s \in Seq(S), NEW e \in S
    PROVE  /\ Append(s, e) \in Seq(S) /\ Len(s) \in Nat /\ Len(Append(s, e)) = Len(s) + 1
           /\ \A i \in 1 .. Len(s) : Append(s, e)[i] = s[i]
           /\ Append(s, e)[Len(s) + 1] = e
OBVIOUS

\* Texts, by their numbers.
Pieces(n, W) == [1 .. n -> Seq(W)]

\* Pieces that are put together one after the other.
Chain(e, s, n, W) ==
    /\ e[0] = <<>>
    /\ \A k \in 0 .. n : e[k] \in Seq(W)
    /\ \A k \in 1 .. n : e[k] = e[k - 1] \o s[k]

\* Two lists, one behind the other.
Joins(a, b, W) ==
    /\ a \o b \in Seq(W) /\ Len(a \o b) = Len(a) + Len(b)
    /\ Len(a) \in Nat /\ Len(b) \in Nat
    /\ \A i \in 1 .. Len(a) : (a \o b)[i] = a[i]
    /\ \A i \in 1 .. Len(b) : (a \o b)[Len(a) + i] = b[i]

LEMMA Joining ==
    ASSUME NEW W, NEW a \in Seq(W), NEW b \in Seq(W)
    PROVE  Joins(a, b, W)
BY DEF Joins

\* A list that is flattened is put together from its pieces.
LEMMA FlattenIs ==
    ASSUME NEW W, NEW n \in Nat, NEW s \in Pieces(n, W)
    PROVE  \E e : Chain(e, s, n, W) /\ FlattenSeq(s) = e[n]
<1>1. s \in Seq(Seq(W)) /\ Len(s) = n /\ \A k \in 1 .. n : s[k] \in Seq(W)
  BY DEF Pieces
<1>2. CASE n = 0
  <2>1. s = <<>> /\ FlattenSeq(s) = s
    BY <1>1, <1>2 DEF FlattenSeq
  <2> DEFINE e == [k \in 0 .. n |-> <<>>]
  <2>2. Chain(e, s, n, W) /\ e[n] = <<>>
    BY <1>2 DEF Chain
  <2> HIDE DEF e
  <2> QED BY <2>1, <2>2
<1>3. CASE n # 0
  <2> DEFINE Run(h) == h = [i \in 1 .. Len(s) |-> IF i = 1 THEN s[i] ELSE h[i - 1] \o s[i]]
             h == CHOOSE f : Run(f)
             step == [p \in Seq(W) \X (1 .. n) |-> p[1] \o s[p[2]]]
  <2>1. step \in Steps(n, Seq(W))
    BY <1>1 DEF Steps
  <2>2. PICK f : IsLeftFold(f, n, Seq(W), <<>>, step)
    <3>1. <<>> \in Seq(W)
      OBVIOUS
    <3> HIDE DEF step
    <3> QED BY <2>1, <3>1, FoldsFromLeft
  <2>3. \A k \in 1 .. n : f[1 .. k] = f[1 .. k - 1] \o s[k]
    <3> TAKE k \in 1 .. n
    <3>1. 1 .. k \in SUBSET (1 .. n) /\ 1 .. k # {} /\ Max(1 .. k) = k /\ (1 .. k) \ {k} = 1 .. k - 1
      <4>1. Max(1 .. k) = k /\ (1 .. k) \ {k} = 1 .. k - 1
        BY EndsOf
      <4> QED BY <4>1
    <3>2. 1 .. k - 1 \in SUBSET (1 .. n)
      OBVIOUS
    <3>3. f[1 .. k - 1] \in Seq(W)
      BY <2>2, <3>2 DEF IsLeftFold
    <3>4. f[1 .. k] = step[<<f[1 .. k - 1], k>>]
      BY <2>2, <3>1 DEF IsLeftFold
    <3> QED BY <3>3, <3>4
  <2>4. f[1 .. 0] = <<>>
    <3>1. 1 .. 0 = {}
      OBVIOUS
    <3> QED BY <2>2, <3>1 DEF IsLeftFold
  <2> HIDE DEF step
  <2>5. Run([i \in 1 .. n |-> f[1 .. i]])
    <3> DEFINE g == [i \in 1 .. n |-> f[1 .. i]]
    <3>1. \A i \in 1 .. n : g[i] = IF i = 1 THEN s[i] ELSE g[i - 1] \o s[i]
      <4> TAKE i \in 1 .. n
      <4>1. CASE i = 1
        <5>1. i - 1 = 0 /\ s[i] \in Seq(W)
          BY <1>1, <4>1
        <5>2. f[1 .. i] = <<>> \o s[i]
          BY <2>3, <2>4, <5>1
        <5> QED BY <4>1, <5>1, <5>2
      <4>2. CASE i # 1
        <5>1. i - 1 \in 1 .. n
          BY <4>2
        <5> QED BY <2>3, <4>2, <5>1
      <4> QED BY <4>1, <4>2
    <3> QED BY <1>1, <3>1
  <2>6. Run(h)
    <3> HIDE DEF Run
    <3> QED BY <2>5
  <2>7. FlattenSeq(s) = h[n]
    BY <1>1, <1>3 DEF FlattenSeq
  <2> DEFINE e == [k \in 0 .. n |-> IF k = 0 THEN <<>> ELSE h[k]]
  <2> HIDE DEF h
  <2>8. \A k \in 1 .. n : e[k] = e[k - 1] \o s[k]
    <3> TAKE k \in 1 .. n
    <3>1. h[k] = IF k = 1 THEN s[k] ELSE h[k - 1] \o s[k]
      BY <1>1, <2>6
    <3>2. k - 1 \in 0 .. n /\ k \in 0 .. n /\ s[k] \in Seq(W) /\ (k - 1 = 0 <=> k = 1) /\ k # 0
      BY <1>1
    <3>3. <<>> \o s[k] = s[k]
      BY <3>2
    <3> QED BY <3>1, <3>2, <3>3
  <2> DEFINE T == {k \in 0 .. n : e[k] \in Seq(W)}
  <2>9. \A k \in 0 .. n : k \in T
    <3>1. 0 \in T
      OBVIOUS
    <3>2. \A k \in 0 .. n : k < n /\ k \in T => k + 1 \in T
      <4> SUFFICES ASSUME NEW k \in 0 .. n, k < n, k \in T PROVE k + 1 \in T
        OBVIOUS
      <4>1. k + 1 \in 1 .. n /\ (k + 1) - 1 = k /\ k + 1 \in 0 .. n
        OBVIOUS
      <4>2. e[k + 1] = e[k] \o s[k + 1]
        BY <2>8, <4>1
      <4> HIDE DEF e
      <4>3. s[k + 1] \in Seq(W) /\ e[k] \in Seq(W)
        BY <1>1, <4>1
      <4>4. e[k] \o s[k + 1] \in Seq(W)
        BY <4>3, Joining DEF Joins
      <4> QED BY <4>1, <4>2, <4>4
    <3> HIDE DEF T
    <3> QED BY <3>1, <3>2, InductionUp
  <2>10. e[0] = <<>> /\ e[n] = h[n]
    BY <1>3
  <2> HIDE DEF e
  <2>11. Chain(e, s, n, W)
    BY <2>8, <2>9, <2>10 DEF Chain
  <2> QED BY <2>7, <2>10, <2>11
<1> QED BY <1>2, <1>3

\* What begins with a list goes on to do so.
Begins(b, a) == Len(a) <= Len(b) /\ \A i \in 1 .. Len(a) : b[i] = a[i]

LEMMA BeginsStill ==
    ASSUME NEW W, NEW a \in Seq(W), NEW b \in Seq(W), NEW c \in Seq(W), Begins(b, a)
    PROVE  Begins(b \o c, a)
<1>1. /\ Len(b \o c) = Len(b) + Len(c) /\ Len(b) \in Nat /\ Len(c) \in Nat /\ Len(a) \in Nat
      /\ \A i \in 1 .. Len(b) : (b \o c)[i] = b[i]
  <2>1. Joins(b, c, W) /\ Joins(a, b, W)
    BY Joining
  <2> QED BY <2>1 DEF Joins
<1> QED BY <1>1 DEF Begins

\* A piece stands in the whole where it was put.
Stands(e, s, n, k) ==
    /\ Len(e[k]) = Len(e[k - 1]) + Len(s[k]) /\ Len(e[k - 1]) \in Nat /\ Len(s[k]) \in Nat
    /\ Len(e[k]) <= Len(e[n])
    /\ \A j \in 1 .. Len(s[k]) : e[n][Len(e[k - 1]) + j] = s[k][j]

LEMMA PieceStands ==
    ASSUME NEW W, NEW n \in Nat, NEW s \in Pieces(n, W), NEW e, Chain(e, s, n, W), NEW k \in 1 .. n
    PROVE  Stands(e, s, n, k)
<1> DEFINE T == {m \in 0 .. n : m >= k => Begins(e[m], e[k])}
<1>0. \A m \in 0 .. n : e[m] \in Seq(W)
  BY DEF Chain
<1>1. 0 \in T
  OBVIOUS
<1>2. \A m \in 0 .. n : m < n /\ m \in T => m + 1 \in T
  <2> SUFFICES ASSUME NEW m \in 0 .. n, m < n, m \in T, m + 1 >= k PROVE Begins(e[m + 1], e[k])
    OBVIOUS
  <2>1. CASE m + 1 = k
    <3>1. Len(e[k]) \in Nat
      BY <1>0
    <3> QED BY <2>1, <3>1 DEF Begins
  <2>2. CASE m >= k
    <3>1. m + 1 \in 1 .. n /\ (m + 1) - 1 = m
      OBVIOUS
    <3>2. e[m + 1] = e[m] \o s[m + 1] /\ s[m + 1] \in Seq(W)
      BY <3>1 DEF Chain, Pieces
    <3>3. e[m] \in Seq(W) /\ e[k] \in Seq(W)
      BY <1>0
    <3>4. Begins(e[m], e[k])
      BY <2>2
    <3> QED BY <3>2, <3>3, <3>4, BeginsStill
  <2> QED BY <2>1, <2>2
<1> HIDE DEF T
<1>3. n \in T
  BY <1>1, <1>2, InductionUp
<1>4. Begins(e[n], e[k])
  BY <1>3 DEF T
<1>5. e[k] = e[k - 1] \o s[k] /\ s[k] \in Seq(W) /\ e[k - 1] \in Seq(W)
  <2>1. k - 1 \in 0 .. n
    OBVIOUS
  <2> QED BY <1>0, <2>1 DEF Chain, Pieces
<1>6. /\ Len(e[k]) = Len(e[k - 1]) + Len(s[k]) /\ Len(e[k - 1]) \in Nat /\ Len(s[k]) \in Nat
      /\ \A j \in 1 .. Len(s[k]) : e[k][Len(e[k - 1]) + j] = s[k][j]
  <2> DEFINE a == e[k - 1]   b == s[k]
  <2> HIDE DEF a, b
  <2>1. a \in Seq(W) /\ b \in Seq(W) /\ e[k] = a \o b
    BY <1>5 DEF a, b
  <2>2. /\ Len(a \o b) = Len(a) + Len(b) /\ Len(a) \in Nat /\ Len(b) \in Nat
        /\ \A j \in 1 .. Len(b) : (a \o b)[Len(a) + j] = b[j]
    <3>1. Joins(a, b, W)
      BY <2>1, Joining
    <3> QED BY <3>1 DEF Joins
  <2> QED BY <2>1, <2>2 DEF a, b
<1>7. \A j \in 1 .. Len(s[k]) : Len(e[k - 1]) + j \in 1 .. Len(e[k])
  <2> DEFINE a == Len(e[k - 1])   b == Len(s[k])   c == Len(e[k])
  <2>1. a \in Nat /\ b \in Nat /\ c = a + b
    BY <1>6
  <2> HIDE DEF a, b, c
  <2>2. \A j \in 1 .. b : a + j \in 1 .. c
    BY <2>1
  <2> QED BY <2>2 DEF a, b, c
<1> QED BY <1>4, <1>6, <1>7 DEF Begins, Stands
=============================================================================
