------------------------ MODULE PomdpUnfolding_proofs ------------------------
(***************************************************************************)
(* Policies with memory for a POMDP, for every POMDP and every bound on    *)
(* the memory.                                                             *)
(***************************************************************************)
EXTENDS PomdpUnfolding, TLAPS, FiniteSetTheorems, SequenceTheorems, WellFoundedInduction

-----------------------------------------------------------------------------
(***************************************************************************)
(* Numbers.                                                                *)
(***************************************************************************)
LEMMA LeastNumber ==
  ASSUME NEW S \in SUBSET Nat, S # {}
  PROVE  \E n \in S : \A k \in S : n <= k
<1>1. \E n \in S : \A k \in S : ~ (<<k, n>> \in OpToRel(<, Nat))
  BY WFMin, NatLessThanWellFounded
<1>2. PICK n \in S : \A k \in S : ~ (<<k, n>> \in OpToRel(<, Nat))
  BY <1>1
<1>3. \A k \in S : ~ (k < n)
  BY <1>2 DEF OpToRel
<1> QED
  BY <1>3

LEMMA GreatestNumber ==
  ASSUME NEW m \in Nat, NEW S \in SUBSET (1..m), S # {}
  PROVE  Greatest(S) \in S /\ \A k \in S : k <= Greatest(S)
<1> DEFINE T == {j \in Nat : m - j \in S}
<1>1. T # {}
  <2>1. PICK k \in S : TRUE
    OBVIOUS
  <2>2. m - k \in Nat /\ m - (m - k) = k
    OBVIOUS
  <2> QED
    BY <2>1, <2>2
<1>2. PICK j \in T : \A k \in T : j <= k
  BY <1>1, LeastNumber
<1>3. ASSUME NEW k \in S
      PROVE  k <= m - j
  <2>1. m - k \in Nat /\ m - (m - k) = k
    OBVIOUS
  <2>2. j <= m - k
    BY <1>2, <2>1
  <2> QED
    BY <2>2
<1>4. \E x \in S : \A y \in S : y <= x
  BY <1>3
<1> QED
  BY <1>4 DEF Greatest

(* Induction up to n, for a set of numbers.                                *)
LEMMA InductionUpTo ==
  ASSUME NEW n \in Nat, NEW S, 0 \in S, \A k \in 1..n : k - 1 \in S => k \in S
  PROVE  0..n \subseteq S
<1> DEFINE B == {k \in 0..n : k \notin S}
<1>1. SUFFICES ASSUME B # {}
               PROVE  FALSE
  OBVIOUS
<1>2. PICK k \in B : \A j \in B : k <= j
  <2>1. B \in SUBSET Nat
    OBVIOUS
  <2> QED
    BY <1>1, <2>1, LeastNumber
<1>3. k \in 1..n /\ k - 1 \in 0..n /\ k - 1 \notin B
  BY <1>2
<1> QED
  BY <1>2, <1>3

(* Multiples and remainders.                                               *)
LEMMA MultipleGrows ==
  ASSUME NEW k \in Nat, NEW d \in Nat, NEW e \in Nat, d < e
  PROVE  k * d + k <= k * e
<1>1. PICK c \in Nat : e = d + 1 + c
  <2>1. e - d - 1 \in Nat /\ e = d + 1 + (e - d - 1)
    OBVIOUS
  <2> QED
    BY <2>1
<1>2. k * e = k * d + k + k * c
  BY <1>1
<1>3. k * c \in Nat /\ k * d \in Nat
  BY <1>1
<1> QED
  BY <1>2, <1>3

LEMMA Division ==
  ASSUME NEW k \in Nat \ {0}, NEW x \in Nat
  PROVE  x \div k \in Nat /\ x % k \in 0..(k - 1) /\ x = k * (x \div k) + (x % k)
OBVIOUS

(* a times k plus u encodes a and u.                                       *)
LEMMA Decode ==
  ASSUME NEW k \in Nat \ {0}, NEW a \in Nat, NEW u \in 0..(k - 1)
  PROVE  (a * k + u) \div k = a /\ (a * k + u) % k = u
<1> DEFINE x == a * k + u
           d == x \div k
           r == x % k
<1>1. x \in Nat /\ k * a \in Nat /\ x = k * a + u
  OBVIOUS
<1> HIDE DEF x
<1>2. d \in Nat /\ r \in 0..(k - 1) /\ x = k * d + r
  BY <1>1, Division
<1> HIDE DEF d, r
<1>3. k * d \in Nat
  BY <1>2
<1>4. ~ (a < d)
  <2>1. a < d => k * a + k <= k * d
    BY <1>2, MultipleGrows
  <2> QED
    BY <1>1, <1>2, <1>3, <2>1
<1>5. ~ (d < a)
  <2>1. d < a => k * d + k <= k * a
    BY <1>2, MultipleGrows
  <2> QED
    BY <1>1, <1>2, <1>3, <2>1
<1>6. a = d
  BY <1>2, <1>4, <1>5
<1>7. u = r
  BY <1>1, <1>2, <1>3, <1>6
<1> QED
  BY <1>6, <1>7 DEF x, d, r

(* a and u in range are encoded in range.                                  *)
LEMMA Encode ==
  ASSUME NEW k \in Nat \ {0}, NEW n \in Nat, NEW a \in 0..(n - 1), NEW u \in 0..(k - 1)
  PROVE  a * k + u \in 0..(n * k - 1)
<1>1. k * a + k <= k * n
  BY MultipleGrows
<1>2. k * a \in Nat /\ k * n \in Nat /\ k * a = a * k /\ k * n = n * k
  OBVIOUS
<1> QED
  BY <1>1, <1>2

(* A number in range encodes two that are.                                 *)
LEMMA DecodeRange ==
  ASSUME NEW k \in Nat \ {0}, NEW n \in Nat, NEW x \in 0..(n * k - 1)
  PROVE  x \div k \in 0..(n - 1) /\ x % k \in 0..(k - 1) /\ x = (x \div k) * k + (x % k)
<1> DEFINE d == x \div k
           r == x % k
<1>0. n * k \in Nat /\ x \in Nat
  OBVIOUS
<1>1. d \in Nat /\ r \in 0..(k - 1) /\ x = k * d + r
  BY <1>0, Division
<1> HIDE DEF d, r
<1>2. k * d \in Nat /\ k * n \in Nat /\ k * n = n * k /\ d * k = k * d
  BY <1>1
<1>3. d < n
  <2>1. SUFFICES ASSUME n <= d
                 PROVE  FALSE
    BY <1>1
  <2>2. n = d \/ k * n + k <= k * d
    BY <1>1, <2>1, MultipleGrows
  <2> QED
    BY <1>1, <1>2, <2>2
<1> QED
  BY <1>1, <1>2, <1>3 DEF d, r

-----------------------------------------------------------------------------
(***************************************************************************)
(* Sums.                                                                   *)
(***************************************************************************)
LEMMA SumSteps ==
  ASSUME NEW f, NEW n \in Nat, \A k \in 1..n : f[k] \in Nat
  PROVE  /\ Sum(f, 0) = 0
         /\ \A k \in 1..n : Sum(f, k) = Sum(f, k - 1) + f[k]
         /\ \A k \in 0..n : Sum(f, k) \in Nat
<1> DEFINE IsSum(g, k) == g = [i \in 0..k |-> IF i = 0 THEN 0 ELSE g[i - 1] + f[i]]
           sum(k) == CHOOSE g : IsSum(g, k)
<1>1. \A k \in 0..n : \E g : IsSum(g, k)
  <2> DEFINE S == {k \in 0..n : \E g : IsSum(g, k)}
  <2>1. 0 \in S
    <3> DEFINE z == [i \in 0..0 |-> 0]
    <3>1. /\ z = [i \in 0..0 |-> z[i]]
          /\ \A i \in 0..0 : z[i] = IF i = 0 THEN 0 ELSE z[i - 1] + f[i]
      OBVIOUS
    <3> HIDE DEF z
    <3>2. IsSum(z, 0)
      BY <3>1
    <3> QED
      BY <3>2
  <2>2. ASSUME NEW k \in 1..n, k - 1 \in S
        PROVE  k \in S
    <3>1. PICK g : IsSum(g, k - 1)
      BY <2>2
    <3> DEFINE h == [i \in 0..k |-> IF i = 0 THEN 0
                                   ELSE IF i = k THEN g[i - 1] + f[i] ELSE g[i]]
    <3>2. ASSUME NEW i \in 0..k
          PROVE  h[i] = IF i = 0 THEN 0 ELSE h[i - 1] + f[i]
      <4>1. i # 0 => i - 1 \in 0..(k - 1) /\ i - 1 \in 0..k
        OBVIOUS
      <4>2. \A j \in 0..(k - 1) : j \in 0..k /\ h[j] = g[j]
        <5>1. g[0] = 0
          BY <3>1
        <5> QED
          BY <5>1
      <4>3. i \notin {0, k} => g[i] = g[i - 1] + f[i]
        <5>1. i \notin {0, k} => i \in 0..(k - 1)
          OBVIOUS
        <5> QED
          BY <3>1, <5>1
      <4> QED
        BY <4>1, <4>2, <4>3
    <3>3. IsSum(h, k)
      <4>1. h = [i \in 0..k |-> h[i]]
        OBVIOUS
      <4> HIDE DEF h
      <4> QED
        BY <3>2, <4>1
    <3> HIDE DEF IsSum, h
    <3> QED
      BY <3>3
  <2> HIDE DEF S
  <2>3. 0..n \subseteq S
    BY <2>1, <2>2, InductionUpTo
  <2> QED
    BY <2>3 DEF S
<1>2. \A k \in 0..n : IsSum(sum(k), k) /\ Sum(f, k) = sum(k)[k]
  <2>1. \A k \in 0..n : IsSum(sum(k), k)
    <3> HIDE DEF IsSum
    <3> QED
      BY <1>1
  <2>2. \A k \in 0..n : Sum(f, k) = sum(k)[k]
    BY DEF Sum
  <2> QED
    BY <2>1, <2>2
<1> HIDE DEF sum
<1>3. ASSUME NEW k \in 1..n
      PROVE  \A i \in 0..(k - 1) : sum(k)[i] = sum(k - 1)[i]
  <2> DEFINE S == {i \in 0..(k - 1) : sum(k)[i] = sum(k - 1)[i]}
  <2>1. k - 1 \in 0..n /\ k \in 0..n /\ k - 1 \in Nat
    OBVIOUS
  <2>2. /\ \A i \in 0..k : sum(k)[i] = IF i = 0 THEN 0 ELSE sum(k)[i - 1] + f[i]
        /\ \A i \in 0..(k - 1) : sum(k - 1)[i] = IF i = 0 THEN 0 ELSE sum(k - 1)[i - 1] + f[i]
    BY <1>2, <2>1
  <2>3. 0 \in S
    BY <2>2
  <2>4. ASSUME NEW i \in 1..(k - 1), i - 1 \in S
        PROVE  i \in S
    <3>1. i \in 0..k /\ i \in 0..(k - 1) /\ i # 0
      OBVIOUS
    <3> QED
      BY <2>2, <2>4, <3>1
  <2> HIDE DEF S
  <2>5. 0..(k - 1) \subseteq S
    BY <2>1, <2>3, <2>4, InductionUpTo
  <2> QED
    BY <2>5 DEF S
<1>4. Sum(f, 0) = 0
  BY <1>2
<1>5. ASSUME NEW k \in 1..n
      PROVE  Sum(f, k) = Sum(f, k - 1) + f[k]
  <2>1. k \in 0..n /\ k - 1 \in 0..n /\ k - 1 \in 0..(k - 1) /\ k \in 0..k /\ k # 0
    OBVIOUS
  <2>2. sum(k)[k] = sum(k)[k - 1] + f[k]
    BY <1>2, <2>1
  <2> HIDE DEF IsSum
  <2> QED
    BY <1>2, <1>3, <2>1, <2>2
<1>6. \A k \in 0..n : Sum(f, k) \in Nat
  <2> DEFINE S == {k \in 0..n : Sum(f, k) \in Nat}
  <2>1. 0 \in S
    BY <1>4
  <2>2. \A k \in 1..n : k - 1 \in S => k \in S
    BY <1>5
  <2> HIDE DEF S
  <2>3. 0..n \subseteq S
    BY <2>1, <2>2, InductionUpTo
  <2> QED
    BY <2>3 DEF S
<1> QED
  BY <1>4, <1>5, <1>6

LEMMA SumGrows ==
  ASSUME NEW f, NEW n \in Nat, \A k \in 1..n : f[k] \in Nat, NEW i \in 0..n, NEW j \in i..n
  PROVE  Sum(f, i) <= Sum(f, j)
<1> DEFINE S == {k \in 0..(j - i) : Sum(f, i) <= Sum(f, i + k)}
<1>0. \A k \in 0..n : Sum(f, k) \in Nat
  BY SumSteps
<1>1. j - i \in Nat /\ i + 0 = i /\ i + (j - i) = j /\ Sum(f, i) \in Nat
  BY <1>0
<1>2. 0 \in S
  BY <1>1
<1>3. ASSUME NEW k \in 1..(j - i), k - 1 \in S
      PROVE  k \in S
  <2>1. i + k \in 1..n /\ i + k \in 0..n /\ (i + k) - 1 = i + (k - 1) /\ i + (k - 1) \in 0..n
    OBVIOUS
  <2>2. Sum(f, i + k) = Sum(f, i + (k - 1)) + f[i + k] /\ Sum(f, i + (k - 1)) \in Nat
    BY <2>1, SumSteps
  <2>3. f[i + k] \in Nat /\ Sum(f, i) <= Sum(f, i + (k - 1))
    BY <1>3, <2>1
  <2>4. Sum(f, i) <= Sum(f, i + k)
    BY <1>1, <2>2, <2>3
  <2> QED
    BY <2>4
<1> HIDE DEF S
<1>4. 0..(j - i) \subseteq S
  BY <1>1, <1>2, <1>3, InductionUpTo
<1>5. j - i \in S
  BY <1>1, <1>4
<1> QED
  BY <1>1, <1>5 DEF S

LEMMA SumOfEqual ==
  ASSUME NEW f, NEW n \in Nat, NEW c \in Nat, \A k \in 1..n : f[k] = c
  PROVE  \A k \in 0..n : Sum(f, k) = k * c
<1> DEFINE S == {k \in 0..n : Sum(f, k) = k * c}
<1>1. 0 \in S
  BY SumSteps
<1>2. ASSUME NEW k \in 1..n, k - 1 \in S
      PROVE  k \in S
  <2>1. Sum(f, k) = (k - 1) * c + c
    BY <1>2, SumSteps
  <2>2. (k - 1) * c + c = k * c
    OBVIOUS
  <2> QED
    BY <2>1, <2>2
<1> HIDE DEF S
<1>3. 0..n \subseteq S
  BY <1>1, <1>2, InductionUpTo
<1> QED
  BY <1>3 DEF S

(* Blocks of lengths f follow each other: block k starts after             *)
(* Sum(f, k - 1), and each place lies in one block.                        *)
LEMMA PlaceInBlock ==
  ASSUME NEW f, NEW n \in Nat, \A k \in 1..n : f[k] \in Nat, NEW i \in 1..Sum(f, n)
  PROVE  \E k \in 1..n : \E j \in 1..f[k] : i = Sum(f, k - 1) + j
<1>0. \A k \in 0..n : Sum(f, k) \in Nat
  BY SumSteps
<1> DEFINE S == {k \in 0..n : i <= Sum(f, k)}
<1>1. n \in S /\ S \in SUBSET Nat
  BY <1>0
<1>2. PICK k \in S : \A j \in S : k <= j
  BY <1>1, LeastNumber
<1>3. k # 0
  BY <1>2, SumSteps
<1>4. k \in 1..n /\ k - 1 \in 0..n /\ k - 1 \notin S
  BY <1>2, <1>3
<1>5. Sum(f, k) = Sum(f, k - 1) + f[k] /\ f[k] \in Nat
  BY <1>4, SumSteps
<1>6. i - Sum(f, k - 1) \in 1..f[k] /\ i = Sum(f, k - 1) + (i - Sum(f, k - 1))
  BY <1>0, <1>2, <1>4, <1>5
<1> QED
  BY <1>4, <1>6

LEMMA BlocksInOrder ==
  ASSUME NEW f, NEW n \in Nat, \A k \in 1..n : f[k] \in Nat,
         NEW k \in 1..n, NEW j \in 1..f[k], NEW l \in 1..n, NEW m \in 1..f[l]
  PROVE  /\ Sum(f, k - 1) + j \in 1..Sum(f, n)
         /\ k < l => Sum(f, k - 1) + j < Sum(f, l - 1) + m
         /\ Sum(f, k - 1) + j = Sum(f, l - 1) + m => k = l /\ j = m
<1>1. \A x \in 0..n : Sum(f, x) \in Nat
  BY SumSteps
<1>2. /\ k \in 0..n /\ k - 1 \in 0..n /\ l \in 0..n /\ l - 1 \in 0..n /\ n \in 0..n
      /\ n \in k..n /\ (k < l => l - 1 \in k..n) /\ (l < k => k - 1 \in l..n)
  OBVIOUS
<1>3. Sum(f, k) = Sum(f, k - 1) + f[k] /\ Sum(f, l) = Sum(f, l - 1) + f[l]
  BY SumSteps
<1>4. /\ Sum(f, k) <= Sum(f, n)
      /\ k < l => Sum(f, k) <= Sum(f, l - 1)
      /\ l < k => Sum(f, l) <= Sum(f, k - 1)
  BY <1>2, SumGrows
<1>5. f[k] \in Nat /\ f[l] \in Nat
  OBVIOUS
<1>6. Sum(f, k - 1) + j <= Sum(f, k) /\ Sum(f, l - 1) + m <= Sum(f, l)
  BY <1>1, <1>2, <1>3, <1>5
<1> QED
  BY <1>1, <1>2, <1>4, <1>5, <1>6

-----------------------------------------------------------------------------
(***************************************************************************)
(* Sequences.                                                              *)
(***************************************************************************)
Lengths(G) == [k \in DOMAIN G |-> Len(G[k])]

(* The sequences that are flattened keep their order.                      *)
LEMMA FlattenElements ==
  ASSUME NEW T, NEW n \in Nat, NEW G \in [1..n -> Seq(T)]
  PROVE  /\ FlattenSeq(G) \in Seq(T)
         /\ Len(FlattenSeq(G)) = Sum(Lengths(G), n)
         /\ \A k \in 1..n : \A j \in 1..Len(G[k]) :
              FlattenSeq(G)[Sum(Lengths(G), k - 1) + j] = G[k][j]
<1> DEFINE L == Lengths(G)
           IsFlatten(g, m) == g = [i \in 1..m |-> IF i = 1 THEN G[i] ELSE g[i-1] \o G[i]]
           flatten == CHOOSE g : g = [i \in 1..n |-> IF i = 1 THEN G[i] ELSE g[i-1] \o G[i]]
<1>1. /\ G \in Seq(Seq(T)) /\ Len(G) = n
      /\ \A i \in 1..n : G[i] \in Seq(T) /\ L[i] = Len(G[i]) /\ L[i] \in Nat
  BY DEF Lengths
<1> HIDE DEF L
<1>s. Sum(L, 0) = 0 /\ \A k \in 1..n : Sum(L, k) = Sum(L, k - 1) + L[k] /\ Sum(L, k - 1) \in Nat
  <2>1. \A k \in 1..n : k - 1 \in 0..n
    OBVIOUS
  <2> QED
    BY <1>1, <2>1, SumSteps
<1>2. \A m \in 0..n : \E g : IsFlatten(g, m)
  <2> DEFINE S == {m \in 0..n : \E g : IsFlatten(g, m)}
  <2>1. 0 \in S
    <3>1. IsFlatten(<< >>, 0)
      OBVIOUS
    <3> HIDE DEF IsFlatten
    <3> QED
      BY <3>1
  <2>2. ASSUME NEW m \in 1..n, m - 1 \in S
        PROVE  m \in S
    <3>1. PICK g : IsFlatten(g, m - 1)
      BY <2>2
    <3> DEFINE h == [i \in 1..m |-> IF i = m THEN IF i = 1 THEN G[i] ELSE g[i-1] \o G[i]
                                   ELSE g[i]]
    <3>2. ASSUME NEW i \in 1..m
          PROVE  h[i] = IF i = 1 THEN G[i] ELSE h[i-1] \o G[i]
      <4>1. CASE i = m
        <5>1. i # 1 => h[i-1] = g[i-1]
          BY <4>1
        <5> QED
          BY <4>1, <5>1
      <4>2. CASE i # m
        <5>1. i \in 1..(m - 1) /\ h[i] = g[i]
          BY <4>2
        <5>2. g[i] = IF i = 1 THEN G[i] ELSE g[i-1] \o G[i]
          BY <3>1, <5>1
        <5>3. i # 1 => h[i-1] = g[i-1]
          BY <5>1
        <5> QED
          BY <5>1, <5>2, <5>3
      <4> QED
        BY <4>1, <4>2
    <3>3. IsFlatten(h, m)
      <4>1. h = [i \in 1..m |-> h[i]]
        OBVIOUS
      <4> HIDE DEF h
      <4> QED
        BY <3>2, <4>1
    <3> HIDE DEF IsFlatten, h
    <3> QED
      BY <3>3
  <2> HIDE DEF S
  <2>3. 0..n \subseteq S
    BY <2>1, <2>2, InductionUpTo
  <2> QED
    BY <2>3 DEF S
<1>3. IsFlatten(flatten, n)
  <2>1. \E g : IsFlatten(g, n)
    <3>1. n \in 0..n
      OBVIOUS
    <3> HIDE DEF IsFlatten
    <3> QED
      BY <1>2, <3>1
  <2>2. flatten = CHOOSE g : IsFlatten(g, n)
    OBVIOUS
  <2> HIDE DEF IsFlatten, flatten
  <2> QED
    BY <2>1, <2>2
<1> DEFINE Right(s, m) == /\ s \in Seq(T)
                          /\ Len(s) = Sum(L, m)
                          /\ \A k \in 1..m : \A j \in 1..L[k] : s[Sum(L, k - 1) + j] = G[k][j]
<1>4. \A m \in 1..n : Right(flatten[m], m)
  <2> HIDE DEF flatten
  <2> DEFINE S == {m \in 0..n : m # 0 => Right(flatten[m], m)}
  <2>1. 0 \in S
    OBVIOUS
  <2>2. ASSUME NEW m \in 1..n, m - 1 \in S
        PROVE  m \in S
    <3>1. flatten[m] = IF m = 1 THEN G[m] ELSE flatten[m-1] \o G[m]
      BY <1>3
    <3>2. G[m] \in Seq(T) /\ L[m] = Len(G[m]) /\ L[m] \in Nat
      BY <1>1
    <3>3. Sum(L, m) = Sum(L, m - 1) + L[m] /\ Sum(L, m - 1) \in Nat
      BY <1>s
    <3>4. CASE m = 1
      <4>1. flatten[m] = G[m] /\ Sum(L, m - 1) = 0
        BY <3>1, <3>4, <1>s
      <4>2. \A j \in 1..L[m] : Sum(L, m - 1) + j = j
        BY <3>2, <4>1
      <4>3. \A k \in 1..m : k = m
        BY <3>4
      <4>4. \A k \in 1..m : \A j \in 1..L[k] : flatten[m][Sum(L, k - 1) + j] = G[k][j]
        <5>1. \A j \in 1..L[m] : flatten[m][Sum(L, m - 1) + j] = G[m][j]
          BY <4>1, <4>2
        <5> QED
          BY <4>3, <5>1
      <4>5. Right(flatten[m], m)
        BY <3>2, <3>3, <4>1, <4>4
      <4> HIDE DEF Right
      <4> QED
        BY <4>5
    <3>5. CASE m # 1
      <4> DEFINE s == flatten[m-1]
      <4>1. Right(s, m - 1)
        <5> HIDE DEF Right
        <5> QED
          BY <2>2, <3>5
      <4> HIDE DEF s
      <4>2. flatten[m] = s \o G[m]
        BY <3>1, <3>5 DEF s
      <4>3. flatten[m] \in Seq(T) /\ Len(flatten[m]) = Sum(L, m)
        BY <3>2, <3>3, <4>1, <4>2
      <4>4. ASSUME NEW k \in 1..m, NEW j \in 1..L[k]
            PROVE  flatten[m][Sum(L, k - 1) + j] = G[k][j]
        <5>1. CASE k = m
          <6>0. Len(s) = Sum(L, k - 1) /\ Sum(L, k - 1) \in Nat /\ j \in 1..Len(G[m])
            BY <3>2, <3>3, <4>1, <5>1
          <6>1. (s \o G[m])[Len(s) + j] = G[m][j]
            BY <3>2, <4>1, <6>0
          <6> QED
            BY <4>2, <5>1, <6>0, <6>1
        <5>2. CASE k # m
          <6>1. k \in 1..(m - 1) /\ k \in 1..n /\ m - 1 \in Nat /\ \A i \in 1..(m - 1) : i \in 1..n
            BY <5>2
          <6>2. s[Sum(L, k - 1) + j] = G[k][j]
            BY <4>1, <6>1
          <6>3. \A i \in 1..(m - 1) : L[i] \in Nat
            BY <1>1, <6>1
          <6>4. Sum(L, k - 1) + j \in 1..Sum(L, m - 1)
            BY <6>1, <6>3, BlocksInOrder
          <6>5. Sum(L, k - 1) + j \in 1..Len(s)
            BY <4>1, <6>4
          <6>6. (s \o G[m])[Sum(L, k - 1) + j] = s[Sum(L, k - 1) + j]
            BY <3>2, <4>1, <6>5
          <6> QED
            BY <4>2, <6>2, <6>6
        <5> QED
          BY <5>1, <5>2
      <4>5. Right(flatten[m], m)
        BY <4>3, <4>4
      <4> HIDE DEF Right
      <4> QED
        BY <4>5
    <3> QED
      BY <3>4, <3>5
  <2> HIDE DEF S
  <2>3. 0..n \subseteq S
    BY <2>1, <2>2, InductionUpTo
  <2>4. \A m \in 1..n : m \in S /\ m # 0
    BY <2>3
  <2> HIDE DEF Right
  <2> QED
    BY <2>4 DEF S
<1>5. FlattenSeq(G) = IF n = 0 THEN G ELSE flatten[n]
  BY <1>1 DEF FlattenSeq
<1>6. CASE n = 0
  <2>1. G = << >> /\ FlattenSeq(G) = << >>
    BY <1>1, <1>5, <1>6, EmptySeq
  <2>2. \A k \in 1..n : FALSE
    BY <1>6
  <2>3. Len(<< >>) = 0 /\ << >> \in Seq(T)
    OBVIOUS
  <2> QED
    BY <1>6, <1>s, <2>1, <2>2, <2>3 DEF L
<1>7. CASE n # 0
  <2> HIDE DEF flatten
  <2>1. n \in 1..n
    BY <1>7
  <2>2. Right(flatten[n], n)
    <3> HIDE DEF Right
    <3> QED
      BY <1>4, <2>1
  <2> QED
    BY <1>1, <1>5, <1>7, <2>2 DEF L
<1> QED
  BY <1>6, <1>7

(* Every place of a flattened sequence is one of an element.               *)
IsPlace(G, i) ==
  \E k \in DOMAIN G : \E j \in 1..Len(G[k]) :
    i = Sum(Lengths(G), k - 1) + j /\ FlattenSeq(G)[i] = G[k][j]

LEMMA FlattenPlaces ==
  ASSUME NEW T, NEW n \in Nat, NEW G \in [1..n -> Seq(T)]
  PROVE  \A i \in DOMAIN FlattenSeq(G) : IsPlace(G, i)
<1>1. \A k \in 1..n : Lengths(G)[k] = Len(G[k]) /\ Lengths(G)[k] \in Nat
  BY DEF Lengths
<1> TAKE i \in DOMAIN FlattenSeq(G)
<1>2. i \in 1..Sum(Lengths(G), n)
  <2>1. FlattenSeq(G) \in Seq(T) /\ Len(FlattenSeq(G)) = Sum(Lengths(G), n)
    BY FlattenElements
  <2> QED
    BY <2>1
<1>3. PICK k \in 1..n : \E j \in 1..Lengths(G)[k] : i = Sum(Lengths(G), k - 1) + j
  BY <1>1, <1>2, PlaceInBlock
<1>4. PICK j \in 1..Len(G[k]) : i = Sum(Lengths(G), k - 1) + j
  BY <1>1, <1>3
<1>5. FlattenSeq(G)[i] = G[k][j]
  BY <1>4, FlattenElements
<1> QED
  BY <1>4, <1>5 DEF IsPlace

LEMMA IndexInRange ==
  ASSUME NEW seq, NEW x \in Range(seq)
  PROVE  IndexOf(seq, x) \in DOMAIN seq /\ seq[IndexOf(seq, x)] = x
BY DEF IndexOf, Range

(* The ascending order of a finite set lists each element once.            *)
LEMMA AscendingSet ==
  ASSUME NEW S \in SUBSET Nat, IsFiniteSet(S)
  PROVE  /\ Ascending(S) \in [1..Cardinality(S) -> S] /\ Ascending(S) \in Seq(S)
         /\ \A x \in S : \E i \in 1..Cardinality(S) : Ascending(S)[i] = x
         /\ \A i, j \in 1..Cardinality(S) : i < j => Ascending(S)[i] < Ascending(S)[j]
<1> DEFINE n == Cardinality(S)
           Below(x) == {y \in S : y < x}
           place == [x \in S |-> Cardinality(Below(x)) + 1]
<1>1. n \in Nat /\ \A T \in SUBSET S : IsFiniteSet(T) /\ Cardinality(T) \in Nat
  BY FS_Subset, FS_CardinalityType
<1>2. ASSUME NEW x \in S, NEW T \in SUBSET (S \ {x})
      PROVE  Cardinality(T) < Cardinality(T \cup {x})
  BY <1>1, <1>2, FS_AddElement
<1>3. place \in [S -> 1..n]
  <2>1. ASSUME NEW x \in S
        PROVE  Cardinality(Below(x)) + 1 \in 1..n
    <3>1. Below(x) \cup {x} \in SUBSET S /\ Below(x) \in SUBSET (S \ {x})
      OBVIOUS
    <3>2. Cardinality(Below(x) \cup {x}) <= n
      BY <3>1, FS_Subset
    <3>3. Cardinality(Below(x)) < Cardinality(Below(x) \cup {x})
      BY <1>2, <3>1
    <3>4. Cardinality(Below(x)) \in Nat /\ Cardinality(Below(x) \cup {x}) \in Nat
      BY <1>1, <3>1
    <3> HIDE DEF Below, n
    <3> QED
      BY <1>1, <3>2, <3>3, <3>4
  <2> HIDE DEF Below, n
  <2> QED
    BY <2>1
<1>4. ASSUME NEW x \in S, NEW y \in S, x < y
      PROVE  place[x] < place[y]
  <2>0. x \in Int /\ y \in Int /\ \A z \in S : z \in Int
    OBVIOUS
  <2>1. Below(x) \cup {x} \subseteq Below(y) /\ Below(x) \in SUBSET (S \ {x})
    <3>1. \A z \in Below(x) : z \in S /\ z < y
      BY <1>4, <2>0
    <3>2. x \in Below(y) /\ x \notin Below(x)
      BY <1>4, <2>0
    <3> QED
      BY <3>1, <3>2
  <2>2. Cardinality(Below(x) \cup {x}) <= Cardinality(Below(y))
    BY <1>1, <2>1, FS_Subset
  <2>3. Cardinality(Below(x)) < Cardinality(Below(x) \cup {x})
    BY <1>2, <2>1
  <2>4. /\ Cardinality(Below(x)) \in Nat /\ Cardinality(Below(x) \cup {x}) \in Nat
        /\ Cardinality(Below(y)) \in Nat
    BY <1>1
  <2> HIDE DEF Below
  <2> QED
    BY <2>2, <2>3, <2>4
<1>5. \A x, y \in S : place[x] = place[y] => x = y
  <2>1. \A x, y \in S : x < y \/ y < x \/ x = y
    OBVIOUS
  <2>2. \A x \in S : place[x] \in Nat
    BY <1>1, <1>3
  <2> HIDE DEF place
  <2> QED
    BY <1>4, <2>1, <2>2
<1>6. ASSUME NEW i \in 1..n
      PROVE  \E x \in S : place[x] = i
  <2> HIDE DEF place
  <2>1. SUFFICES ASSUME place \in [S -> (1..n) \ {i}]
                 PROVE  FALSE
    BY <1>3
  <2>2. IsFiniteSet((1..n) \ {i}) /\ Cardinality((1..n) \ {i}) = n - 1
    <3>1. IsFiniteSet(1..n) /\ Cardinality(1..n) = n
      BY <1>1, FS_Interval
    <3> DEFINE I == 1..n
    <3>2. i \in I /\ IsFiniteSet(I) /\ Cardinality(I) = n
      BY <3>1
    <3> HIDE DEF I
    <3>3. IsFiniteSet(I \ {i}) /\ Cardinality(I \ {i}) = n - 1
      BY <3>2, FS_RemoveElement
    <3> QED
      BY <3>3 DEF I
  <2>3. \E x, y \in S : x # y /\ place[x] = place[y]
    <3>1. Cardinality((1..n) \ {i}) < Cardinality(S)
      BY <1>1, <2>2
    <3> QED
      BY <2>1, <2>2, <3>1, FS_PigeonHole
  <2> QED
    BY <1>5, <2>3
<1>7. ASSUME NEW i \in 1..n
      PROVE  Ascending(S)[i] \in S /\ place[Ascending(S)[i]] = i
  <2>1. Ascending(S)[i] = CHOOSE x \in S : Cardinality(Below(x)) = i - 1
    BY DEF Ascending
  <2>2. \E x \in S : Cardinality(Below(x)) = i - 1
    <3>1. \A x \in S : Cardinality(Below(x)) \in Nat
      BY <1>1
    <3>2. PICK x \in S : place[x] = i
      BY <1>6
    <3>3. place[x] = Cardinality(Below(x)) + 1
      OBVIOUS
    <3> HIDE DEF Below, n, place
    <3> QED
      BY <1>1, <3>1, <3>2, <3>3
  <2>3. Ascending(S)[i] \in S /\ Cardinality(Below(Ascending(S)[i])) = i - 1
    <3> HIDE DEF Below, n
    <3> QED
      BY <2>1, <2>2
  <2>4. place[Ascending(S)[i]] = Cardinality(Below(Ascending(S)[i])) + 1
    BY <2>3
  <2> HIDE DEF Below, n, place
  <2> QED
    BY <1>1, <2>3, <2>4
<1>8. Ascending(S) \in [1..n -> S]
  <2>1. Ascending(S) = [i \in 1..n |-> CHOOSE x \in S : Cardinality(Below(x)) = i - 1]
    BY DEF Ascending
  <2>2. \A i \in 1..n : Ascending(S)[i] \in S
    BY <1>7
  <2> DEFINE f == [i \in 1..n |-> CHOOSE x \in S : Cardinality(Below(x)) = i - 1]
             Item(i) == CHOOSE x \in S : Cardinality(Below(x)) = i - 1
  <2>3. f = [i \in 1..n |-> Item(i)]
    OBVIOUS
  <2> HIDE DEF n, Item
  <2> QED
    BY <2>1, <2>2, <2>3
<1>9. ASSUME NEW x \in S
      PROVE  \E i \in 1..n : Ascending(S)[i] = x
  <2>1. place[x] \in 1..n
    BY <1>3
  <2> HIDE DEF place
  <2> QED
    BY <1>5, <1>7, <2>1
<1>11. ASSUME NEW i \in 1..n, NEW j \in 1..n, i < j
       PROVE  Ascending(S)[i] < Ascending(S)[j]
  <2> DEFINE x == Ascending(S)[i]
             y == Ascending(S)[j]
  <2>1. x \in S /\ y \in S /\ place[x] = i /\ place[y] = j
    BY <1>7
  <2>2. x < y \/ y < x \/ x = y
    <3> HIDE DEF x, y
    <3> QED
      BY <2>1
  <2> HIDE DEF x, y, place, n
  <2>3. ~ (y < x) /\ x # y
    <3>1. y < x => place[y] < place[x]
      BY <1>4, <2>1
    <3>2. i \in Nat /\ j \in Nat
      BY DEF n
    <3> QED
      BY <1>11, <2>1, <3>1, <3>2
  <2> QED
    BY <2>2, <2>3 DEF x, y
<1> HIDE DEF n, place
<1>10. Ascending(S) \in Seq(S)
  BY <1>1, <1>8
<1> QED
  BY <1>8, <1>9, <1>10, <1>11 DEF n

-----------------------------------------------------------------------------
(***************************************************************************)
(* POMDPs, memory sizes and the states of the unfolded MDP.                *)
(***************************************************************************)
Sizes(q) == [Observations(q) -> 1..MaxMemory]

LEMMA PomdpFacts ==
  ASSUME NEW q \in Pomdps
  PROVE  /\ Len(q.rows) \in Nat \ {0} /\ Prototypes(q) = 1..Len(q.rows)
         /\ IsFiniteSet(Prototypes(q)) /\ q.observations \in Nat \ {0}
         /\ q.initial \subseteq Prototypes(q)
         /\ \A p \in Prototypes(q) :
              /\ q.observation[p] \in Observations(q)
              /\ q.rows[p] \in Seq(SUBSET Prototypes(q)) /\ Len(q.rows[p]) \in Nat \ {0}
              /\ observation_actions(q, q.observation[p]) = Len(q.rows[p])
              /\ \A r \in 1..Len(q.rows[p]) :
                   /\ q.rows[p][r] \in SUBSET Prototypes(q) /\ q.rows[p][r] # {}
                   /\ IsFiniteSet(q.rows[p][r])
         /\ \A z \in Observations(q) :
              /\ \E p \in Prototypes(q) : q.observation[p] = z
              /\ observation_actions(q, z) \in Nat \ {0}
<1>1. /\ q.rows \in Seq(Seq(SUBSET Nat)) /\ q.observations \in Nat
      /\ q.observation \in [Prototypes(q) -> Observations(q)]
      /\ Range(q.observation) = Observations(q)
      /\ q.initial # {} /\ q.initial \subseteq Prototypes(q)
      /\ \A s \in Prototypes(q) :
           /\ q.rows[s] # << >> /\ {} \notin Range(q.rows[s])
           /\ UNION Range(q.rows[s]) \subseteq Prototypes(q)
           /\ \A t \in Prototypes(q) :
                q.observation[s] = q.observation[t] => Len(q.rows[s]) = Len(q.rows[t])
  BY PomdpsAssumption DEF Prototypes, Observations
<1>2. Len(q.rows) \in Nat /\ Prototypes(q) = 1..Len(q.rows)
  BY <1>1 DEF Prototypes
<1>3. Len(q.rows) # 0
  BY <1>1, <1>2
<1>4. IsFiniteSet(Prototypes(q))
  BY <1>2, FS_Interval
<1>5. ASSUME NEW p \in Prototypes(q)
      PROVE  /\ q.observation[p] \in Observations(q)
             /\ q.rows[p] \in Seq(SUBSET Prototypes(q)) /\ Len(q.rows[p]) \in Nat \ {0}
             /\ observation_actions(q, q.observation[p]) = Len(q.rows[p])
             /\ \A r \in 1..Len(q.rows[p]) :
                  /\ q.rows[p][r] \in SUBSET Prototypes(q) /\ q.rows[p][r] # {}
                  /\ IsFiniteSet(q.rows[p][r])
  <2>1. q.rows[p] \in Seq(SUBSET Nat) /\ q.rows[p] # << >>
    BY <1>1, <1>2
  <2>2. Len(q.rows[p]) \in Nat \ {0}
    BY <2>1, EmptySeq
  <2>3. \A r \in 1..Len(q.rows[p]) : q.rows[p][r] \in Range(q.rows[p])
    BY <2>1 DEF Range
  <2>4. \A r \in 1..Len(q.rows[p]) : q.rows[p][r] \in SUBSET Prototypes(q) /\ q.rows[p][r] # {}
    BY <1>1, <2>3
  <2>5. \A r \in 1..Len(q.rows[p]) : IsFiniteSet(q.rows[p][r])
    BY <1>4, <2>4, FS_Subset
  <2>6. q.rows[p] \in Seq(SUBSET Prototypes(q))
    BY <2>1, <2>4
  <2>7. observation_actions(q, q.observation[p]) = Len(q.rows[p])
    <3> DEFINE t == CHOOSE s \in DOMAIN q.rows : q.observation[s] = q.observation[p]
    <3>1. t \in Prototypes(q) /\ q.observation[t] = q.observation[p]
      BY DEF Prototypes
    <3>2. observation_actions(q, q.observation[p]) = Len(q.rows[t])
      BY DEF observation_actions
    <3> QED
      BY <1>1, <3>1, <3>2
  <2> QED
    BY <1>1, <2>2, <2>4, <2>5, <2>6, <2>7
<1>6. ASSUME NEW z \in Observations(q)
      PROVE  /\ \E p \in Prototypes(q) : q.observation[p] = z
             /\ observation_actions(q, z) \in Nat \ {0}
  <2>1. \E p \in Prototypes(q) : q.observation[p] = z
    BY <1>1 DEF Range
  <2> QED
    BY <1>5, <2>1
<1>7. q.observations # 0
  <2>1. PICK p \in Prototypes(q) : TRUE
    BY <1>1
  <2> QED
    BY <1>1, <2>1 DEF Observations
<1> QED
  BY <1>1, <1>2, <1>3, <1>4, <1>5, <1>6, <1>7

LEMMA PrototypeFacts ==
  ASSUME NEW q \in Pomdps
  PROVE  /\ Len(q.rows) \in Nat /\ Prototypes(q) = 1..Len(q.rows) /\ IsFiniteSet(Prototypes(q))
         /\ \A p \in Prototypes(q) : q.observation[p] \in Observations(q)
BY PomdpFacts

LEMMA MemoryOfPrototype ==
  ASSUME NEW q \in Pomdps, NEW size \in Sizes(q), NEW p \in Prototypes(q)
  PROVE  size[q.observation[p]] \in 1..MaxMemory /\ size[q.observation[p]] \in Nat \ {0}
<1>1. q.observation[p] \in Observations(q)
  BY PrototypeFacts
<1>2. size[q.observation[p]] \in 1..MaxMemory
  BY <1>1 DEF Sizes
<1> QED
  BY <1>2, PomdpsAssumption

LEMMA RowFacts ==
  ASSUME NEW q \in Pomdps, NEW p \in Prototypes(q), NEW r \in 1..Len(q.rows[p])
  PROVE  q.rows[p][r] \in SUBSET Prototypes(q) /\ q.rows[p][r] # {} /\ IsFiniteSet(q.rows[p][r])
<1>1. \A s \in Prototypes(q) : \A i \in 1..Len(q.rows[s]) :
        q.rows[s][i] \in SUBSET Prototypes(q) /\ q.rows[s][i] # {} /\ IsFiniteSet(q.rows[s][i])
  BY PomdpFacts
<1> QED
  BY <1>1

LEMMA RowsSomewhere ==
  ASSUME NEW q \in Pomdps, NEW z \in Observations(q)
  PROVE  /\ RowsOfObservation(q, z) # {}
         /\ \A row \in RowsOfObservation(q, z) : row \in SUBSET Prototypes(q) /\ row # {}
<1>1. PICK p \in Prototypes(q) : q.observation[p] = z
  BY PomdpFacts
<1>2. ASSUME NEW s \in Prototypes(q), NEW row \in Range(q.rows[s])
      PROVE  row \in SUBSET Prototypes(q) /\ row # {}
  <2>1. q.rows[s] \in Seq(SUBSET Prototypes(q))
    BY PomdpFacts
  <2>2. PICK r \in 1..Len(q.rows[s]) : row = q.rows[s][r]
    BY <2>1 DEF Range
  <2>3. q.rows[s][r] \in SUBSET Prototypes(q) /\ q.rows[s][r] # {}
    BY RowFacts
  <2> QED
    BY <2>2, <2>3
<1>3. q.rows[p][1] \in Range(q.rows[p])
  <2>1. q.rows[p] \in Seq(SUBSET Prototypes(q)) /\ Len(q.rows[p]) \in Nat \ {0}
    BY PomdpFacts
  <2> QED
    BY <2>1 DEF Range
<1>4. q.rows[p][1] \in RowsOfObservation(q, z)
  BY <1>1, <1>3 DEF RowsOfObservation
<1>5. \A row \in RowsOfObservation(q, z) : \E s \in Prototypes(q) : row \in Range(q.rows[s])
  BY DEF RowsOfObservation
<1> QED
  BY <1>2, <1>4, <1>5

(* The updates of an observation are the most memory that a successor has. *)
LEMMA MostMemoryOfRow ==
  ASSUME NEW q \in Pomdps, NEW size \in Sizes(q), NEW row \in SUBSET Prototypes(q), row # {}
  PROVE  /\ maxSuccessorMemorySize(q, size, row) \in {size[q.observation[d]] : d \in row}
         /\ maxSuccessorMemorySize(q, size, row) \in 1..MaxMemory
         /\ \A d \in row : size[q.observation[d]] <= maxSuccessorMemorySize(q, size, row)
<1> DEFINE S == {size[q.observation[d]] : d \in row}
<1>1. \A d \in row : q.observation[d] \in Observations(q)
  BY PomdpFacts
<1>2. S \in SUBSET (1..MaxMemory) /\ S # {} /\ \A d \in row : size[q.observation[d]] \in S
  BY <1>1 DEF Sizes
<1>3. maxSuccessorMemorySize(q, size, row) = Greatest(S)
  BY DEF maxSuccessorMemorySize
<1> HIDE DEF S
<1>4. Greatest(S) \in S /\ \A k \in S : k <= Greatest(S)
  BY <1>2, PomdpsAssumption, GreatestNumber
<1> QED
  BY <1>2, <1>3, <1>4 DEF S

LEMMA MostMemory ==
  ASSUME NEW q \in Pomdps, NEW size \in Sizes(q)
  PROVE  /\ max_successor_memory_size(q, size) \in Sizes(q)
         /\ \A z \in Observations(q) :
              /\ \E row \in RowsOfObservation(q, z) :
                   max_successor_memory_size(q, size)[z] = maxSuccessorMemorySize(q, size, row)
              /\ \A row \in RowsOfObservation(q, z) :
                   maxSuccessorMemorySize(q, size, row) <= max_successor_memory_size(q, size)[z]
<1>1. ASSUME NEW z \in Observations(q)
      PROVE  /\ max_successor_memory_size(q, size)[z] \in 1..MaxMemory
             /\ \E row \in RowsOfObservation(q, z) :
                  max_successor_memory_size(q, size)[z] = maxSuccessorMemorySize(q, size, row)
             /\ \A row \in RowsOfObservation(q, z) :
                  maxSuccessorMemorySize(q, size, row) <= max_successor_memory_size(q, size)[z]
  <2> DEFINE S == {maxSuccessorMemorySize(q, size, row) : row \in RowsOfObservation(q, z)}
  <2>1. S \in SUBSET (1..MaxMemory) /\ S # {}
    BY RowsSomewhere, MostMemoryOfRow
  <2>2. max_successor_memory_size(q, size)[z] = Greatest(S)
    BY DEF max_successor_memory_size
  <2>3. Greatest(S) \in S /\ \A k \in S : k <= Greatest(S)
    <3> HIDE DEF S
    <3> QED
      BY <2>1, PomdpsAssumption, GreatestNumber
  <2>4. Greatest(S) \in 1..MaxMemory
    <3> HIDE DEF S
    <3> QED
      BY <2>1, <2>3
  <2> QED
    BY <2>2, <2>3, <2>4
<1>2. max_successor_memory_size(q, size) =
        [z \in Observations(q) |-> max_successor_memory_size(q, size)[z]]
  BY DEF max_successor_memory_size
<1>3. max_successor_memory_size(q, size) \in Sizes(q)
  BY <1>1, <1>2 DEF Sizes
<1> QED
  BY <1>1, <1>3

(* More memory, more updates.                                              *)
LEMMA MoreUpdates ==
  ASSUME NEW q \in Pomdps, NEW old \in Sizes(q), NEW new \in Sizes(q),
         \A z \in Observations(q) : old[z] <= new[z]
  PROVE  \A z \in Observations(q) :
           max_successor_memory_size(q, old)[z] <= max_successor_memory_size(q, new)[z]
<1>1. ASSUME NEW z \in Observations(q)
      PROVE  max_successor_memory_size(q, old)[z] <= max_successor_memory_size(q, new)[z]
  <2>1. PICK row \in RowsOfObservation(q, z) :
          max_successor_memory_size(q, old)[z] = maxSuccessorMemorySize(q, old, row)
    BY MostMemory
  <2>2. row \in SUBSET Prototypes(q) /\ row # {}
    BY RowsSomewhere
  <2>3. PICK d \in row : maxSuccessorMemorySize(q, old, row) = old[q.observation[d]]
    BY <2>2, MostMemoryOfRow
  <2>4. q.observation[d] \in Observations(q)
    BY <2>2, PomdpFacts
  <2>5. old[q.observation[d]] <= new[q.observation[d]]
    BY <2>4
  <2>6. new[q.observation[d]] <= maxSuccessorMemorySize(q, new, row)
    BY <2>2, MostMemoryOfRow
  <2>7. maxSuccessorMemorySize(q, new, row) <= max_successor_memory_size(q, new)[z]
    BY MostMemory
  <2>8. /\ old[q.observation[d]] \in Nat /\ new[q.observation[d]] \in Nat
        /\ maxSuccessorMemorySize(q, new, row) \in Nat
        /\ max_successor_memory_size(q, new)[z] \in Nat
    <3>1. maxSuccessorMemorySize(q, new, row) \in 1..MaxMemory
      BY <2>2, MostMemoryOfRow
    <3>2. max_successor_memory_size(q, new) \in Sizes(q)
      BY MostMemory
    <3> QED
      BY <2>4, <3>1, <3>2 DEF Sizes
  <2> QED
    BY <2>1, <2>3, <2>5, <2>6, <2>7, <2>8
<1> QED
  BY <1>1

(* The states of the unfolded MDP, and their places.                       *)
States(q, size) ==
  {s \in [prototype : Prototypes(q), memory : Nat] : s.memory < size[q.observation[s.prototype]]}

Duplicates(q, size) == [p \in Prototypes(q) |-> size[q.observation[p]]]

Place(q, size, s) == Sum(Duplicates(q, size), s.prototype - 1) + (s.memory + 1)

LEMMA DuplicatesType ==
  ASSUME NEW q \in Pomdps, NEW size \in Sizes(q)
  PROVE  \A p \in 1..Len(q.rows) : /\ Duplicates(q, size)[p] = size[q.observation[p]]
                                   /\ Duplicates(q, size)[p] \in Nat \ {0}
BY PrototypeFacts, MemoryOfPrototype DEF Duplicates

LEMMA StatesInPlace ==
  ASSUME NEW q \in Pomdps, NEW size \in Sizes(q)
  PROVE  /\ buildStateSpace(q, size) \in Seq(States(q, size))
         /\ \A s \in States(q, size) :
              /\ Place(q, size, s) \in DOMAIN buildStateSpace(q, size)
              /\ buildStateSpace(q, size)[Place(q, size, s)] = s
         /\ \A i \in DOMAIN buildStateSpace(q, size) :
              /\ buildStateSpace(q, size)[i] \in States(q, size)
              /\ Place(q, size, buildStateSpace(q, size)[i]) = i
<1> DEFINE n == Len(q.rows)
           D == Duplicates(q, size)
           States1(p) == [m \in 1..size[q.observation[p]] |-> [prototype |-> p, memory |-> m - 1]]
           G == [p \in Prototypes(q) |-> States1(p)]
           F == buildStateSpace(q, size)
<1>1. n \in Nat /\ Prototypes(q) = 1..n /\ \A p \in 1..n : D[p] \in Nat \ {0}
  BY PomdpFacts, DuplicatesType
<1>2. ASSUME NEW p \in 1..n
      PROVE  /\ G[p] \in Seq(States(q, size)) /\ Len(G[p]) = D[p]
             /\ \A m \in 1..D[p] : G[p][m] = [prototype |-> p, memory |-> m - 1]
  <2>1. size[q.observation[p]] = D[p] /\ D[p] \in Nat
    BY DuplicatesType
  <2>2. \A m \in 1..D[p] : [prototype |-> p, memory |-> m - 1] \in States(q, size)
    BY <1>1, <2>1 DEF States
  <2>3. G[p] = [m \in 1..D[p] |-> [prototype |-> p, memory |-> m - 1]]
    BY <1>1, <2>1
  <2> HIDE DEF G, D
  <2> QED
    BY <2>1, <2>2, <2>3
<1>3. G \in [1..n -> Seq(States(q, size))]
  <2>1. G = [p \in 1..n |-> G[p]]
    BY <1>1
  <2> HIDE DEF G
  <2> QED
    BY <1>2, <2>1
<1>4. Lengths(G) = D
  <2>1. DOMAIN G = 1..n /\ D = [p \in 1..n |-> D[p]]
    BY <1>1 DEF Duplicates
  <2> HIDE DEF G, D
  <2> QED
    BY <1>2, <2>1 DEF Lengths
<1>5. F = FlattenSeq(G)
  BY DEF buildStateSpace
<1> HIDE DEF G, D, F
<1>6. /\ F \in Seq(States(q, size)) /\ Len(F) = Sum(D, n)
      /\ \A p \in 1..n : \A m \in 1..Len(G[p]) : F[Sum(D, p - 1) + m] = G[p][m]
  <2>1. /\ FlattenSeq(G) \in Seq(States(q, size)) /\ Len(FlattenSeq(G)) = Sum(Lengths(G), n)
        /\ \A p \in 1..n : \A m \in 1..Len(G[p]) :
             FlattenSeq(G)[Sum(Lengths(G), p - 1) + m] = G[p][m]
    <3> HIDE DEF n
    <3> DEFINE T == States(q, size)
    <3>1. n \in Nat /\ G \in [1..n -> Seq(T)]
      BY <1>1, <1>3
    <3> HIDE DEF T
    <3>2. /\ FlattenSeq(G) \in Seq(T) /\ Len(FlattenSeq(G)) = Sum(Lengths(G), n)
          /\ \A p \in 1..n : \A m \in 1..Len(G[p]) :
               FlattenSeq(G)[Sum(Lengths(G), p - 1) + m] = G[p][m]
      BY <3>1, FlattenElements
    <3> QED
      BY <3>2 DEF T
  <2> QED
    BY <1>4, <1>5, <2>1
<1>7. ASSUME NEW s \in States(q, size)
      PROVE  Place(q, size, s) \in DOMAIN F /\ F[Place(q, size, s)] = s
  <2> DEFINE p == s.prototype
             m == s.memory + 1
  <2>1. p \in 1..n /\ s.memory \in Nat /\ s.memory < D[p] /\ s = [prototype |-> p, memory |-> s.memory]
    BY <1>1, DuplicatesType DEF States, D
  <2>2. m \in 1..D[p] /\ m - 1 = s.memory
    BY <1>1, <2>1
  <2>3. Place(q, size, s) = Sum(D, p - 1) + m
    BY DEF Place, D
  <2> HIDE DEF p, m
  <2>4. F[Sum(D, p - 1) + m] = s
    BY <1>2, <1>6, <2>1, <2>2
  <2>5. Sum(D, p - 1) + m \in 1..Sum(D, n)
    BY <1>1, <2>1, <2>2, BlocksInOrder
  <2> QED
    BY <1>6, <2>3, <2>4, <2>5
<1>8. ASSUME NEW i \in DOMAIN F
      PROVE  F[i] \in States(q, size) /\ Place(q, size, F[i]) = i
  <2>1. PICK p \in 1..n : \E m \in 1..Len(G[p]) : i = Sum(D, p - 1) + m /\ F[i] = G[p][m]
    <3> HIDE DEF n
    <3> DEFINE T == States(q, size)
    <3>1. n \in Nat /\ G \in [1..n -> Seq(T)]
      BY <1>1, <1>3
    <3> HIDE DEF T
    <3>2. \A j \in DOMAIN FlattenSeq(G) : IsPlace(G, j)
      BY <3>1, FlattenPlaces
    <3>3. DOMAIN G = 1..n
      BY <3>1
    <3> QED
      BY <1>4, <1>5, <3>2, <3>3 DEF IsPlace
  <2>2. PICK m \in 1..D[p] : i = Sum(D, p - 1) + m /\ F[i] = [prototype |-> p, memory |-> m - 1]
    BY <1>2, <2>1
  <2>3. F[i] \in States(q, size)
    BY <1>6
  <2>4. F[i].prototype = p /\ F[i].memory + 1 = m
    BY <1>1, <2>2
  <2>5. Place(q, size, F[i]) = Sum(D, p - 1) + m
    BY <2>4 DEF Place, D
  <2> QED
    BY <2>2, <2>3, <2>5
<1> QED
  BY <1>6, <1>7, <1>8 DEF F

LEMMA IndexIsPlace ==
  ASSUME NEW q \in Pomdps, NEW size \in Sizes(q), NEW s \in States(q, size)
  PROVE  IndexOf(buildStateSpace(q, size), s) = Place(q, size, s)
<1> DEFINE F == buildStateSpace(q, size)
           i == IndexOf(F, s)
<1>1. Place(q, size, s) \in DOMAIN F /\ F[Place(q, size, s)] = s
  BY StatesInPlace
<1>2. i \in DOMAIN F /\ F[i] = s
  BY <1>1 DEF IndexOf
<1>3. \A k \in DOMAIN F : Place(q, size, F[k]) = k
  BY StatesInPlace
<1> HIDE DEF F, i
<1> QED
  BY <1>2, <1>3 DEF i, F

LEMMA PlacesInOrder ==
  ASSUME NEW q \in Pomdps, NEW size \in Sizes(q), NEW s \in States(q, size), NEW t \in States(q, size),
         s.prototype < t.prototype
  PROVE  Place(q, size, s) < Place(q, size, t)
<1> DEFINE n == Len(q.rows)
           D == Duplicates(q, size)
<1>1. n \in Nat /\ Prototypes(q) = 1..n /\ \A p \in 1..n : D[p] \in Nat /\ D[p] = size[q.observation[p]]
  <2>1. n \in Nat /\ Prototypes(q) = 1..n
    BY PrototypeFacts
  <2>2. \A p \in 1..n : D[p] \in Nat /\ D[p] = size[q.observation[p]]
    BY DuplicatesType
  <2> QED
    BY <2>1, <2>2
<1> HIDE DEF D, n
<1>2. /\ s.prototype \in 1..n /\ s.memory + 1 \in 1..D[s.prototype]
      /\ t.prototype \in 1..n /\ t.memory + 1 \in 1..D[t.prototype]
  <2>1. ASSUME NEW x \in States(q, size)
        PROVE  x.prototype \in 1..n /\ x.memory + 1 \in 1..D[x.prototype]
    <3>1. x.prototype \in 1..n /\ x.memory \in Nat /\ x.memory < D[x.prototype]
      BY <1>1 DEF States
    <3> QED
      BY <1>1, <3>1
  <2> QED
    BY <2>1
<1>3. Sum(D, s.prototype - 1) + (s.memory + 1) < Sum(D, t.prototype - 1) + (t.memory + 1)
  <2> DEFINE k == s.prototype
             j == s.memory + 1
             l == t.prototype
             m == t.memory + 1
  <2>1. k \in 1..n /\ j \in 1..D[k] /\ l \in 1..n /\ m \in 1..D[l] /\ k < l
    BY <1>2
  <2> HIDE DEF k, j, l, m
  <2>2. \A p \in 1..n : D[p] \in Nat
    BY <1>1
  <2>3. Sum(D, k - 1) + j < Sum(D, l - 1) + m
    BY <1>1, <2>1, <2>2, BlocksInOrder
  <2> QED
    BY <2>3 DEF k, j, l, m
<1> QED
  BY <1>3 DEF Place, D

LEMMA TranslateType ==
  ASSUME NEW q \in Pomdps, NEW size \in Sizes(q), NEW p \in Prototypes(q), NEW memory \in Nat
  PROVE  /\ translateState(q, size, p, memory) \in States(q, size)
         /\ translateState(q, size, p, memory).prototype = p
<1>1. size[q.observation[p]] \in Nat \ {0}
  BY MemoryOfPrototype
<1> QED
  BY <1>1 DEF translateState, States

(* The entries of a row are in order, and lead to the duplicates of its    *)
(* successors that have the updated memory.                                *)
LEMMA ColumnsOfRow ==
  ASSUME NEW q \in Pomdps, NEW size \in Sizes(q), NEW row \in SUBSET Prototypes(q),
         NEW memory \in Nat, NEW C, C = Columns(q, size, buildStateSpace(q, size), row, memory)
  PROVE  /\ C \in Seq(Nat)
         /\ \A j, k \in DOMAIN C : j < k => C[j] < C[k]
         /\ {buildStateSpace(q, size)[c] : c \in Range(C)} =
              {translateState(q, size, d, memory) : d \in row}
<1> DEFINE F == buildStateSpace(q, size)
           To(d) == translateState(q, size, d, memory)
           A == Ascending(row)
           n == Cardinality(row)
<1>1. row \in SUBSET Nat /\ IsFiniteSet(row)
  BY PrototypeFacts, FS_Subset
<1>2. /\ n \in Nat /\ A \in [1..n -> row] /\ \A d \in row : \E k \in 1..n : A[k] = d
      /\ \A j, k \in 1..n : j < k => A[j] < A[k]
  BY <1>1, AscendingSet, FS_CardinalityType
<1>3. C = [k \in 1..n |-> IndexOf(F, To(A[k]))]
  BY <1>2 DEF Columns
<1>4. ASSUME NEW k \in 1..n
      PROVE  /\ C[k] = Place(q, size, To(A[k])) /\ C[k] \in Nat /\ F[C[k]] = To(A[k])
             /\ To(A[k]) \in States(q, size) /\ To(A[k]).prototype = A[k]
  <2>1. A[k] \in Prototypes(q)
    BY <1>2
  <2>2. To(A[k]) \in States(q, size) /\ To(A[k]).prototype = A[k]
    BY <2>1, TranslateType
  <2>3. IndexOf(F, To(A[k])) = Place(q, size, To(A[k]))
    BY <2>2, IndexIsPlace
  <2>4. Place(q, size, To(A[k])) \in DOMAIN F /\ F[Place(q, size, To(A[k]))] = To(A[k])
    BY <2>2, StatesInPlace
  <2>5. DOMAIN F \subseteq Nat
    <3>1. F \in Seq(States(q, size))
      BY StatesInPlace
    <3> QED
      BY <3>1
  <2>6. C[k] = IndexOf(F, To(A[k]))
    BY <1>3
  <2> HIDE DEF F, A, To
  <2> QED
    BY <2>2, <2>3, <2>4, <2>5, <2>6
<1> HIDE DEF A, F, To
<1>5. DOMAIN C = 1..n /\ C \in Seq(Nat)
  <2>1. DOMAIN C = 1..n /\ C = [k \in 1..n |-> C[k]]
    BY <1>3
  <2> QED
    BY <1>2, <1>4, <2>1
<1>6. ASSUME NEW j \in DOMAIN C, NEW k \in DOMAIN C, j < k
      PROVE  C[j] < C[k]
  <2>1. j \in 1..n /\ k \in 1..n /\ A[j] < A[k]
    BY <1>2, <1>5, <1>6
  <2> QED
    BY <1>4, <2>1, PlacesInOrder
<1>7. {F[c] : c \in Range(C)} = {To(d) : d \in row}
  <2>1. ASSUME NEW c \in Range(C)
        PROVE  F[c] \in {To(d) : d \in row}
    <3>1. PICK k \in 1..n : c = C[k]
      BY <1>5 DEF Range
    <3> QED
      BY <1>2, <1>4, <3>1
  <2>2. ASSUME NEW d \in row
        PROVE  To(d) \in {F[c] : c \in Range(C)}
    <3>1. PICK k \in 1..n : A[k] = d
      BY <1>2
    <3>2. C[k] \in Range(C) /\ F[C[k]] = To(d)
      BY <1>4, <1>5, <3>1 DEF Range
    <3> QED
      BY <3>2
  <2> QED
    BY <2>1, <2>2
<1> QED
  BY <1>5, <1>6, <1>7 DEF F, To

(* The rows of a state: one for each action and update, in this order.     *)
RowsListed(q, size, states, p, k, R) ==
  /\ DOMAIN R = 1..(Len(q.rows[p]) * k) /\ Len(R) = Len(q.rows[p]) * k
  /\ k \in Nat \ {0}
  /\ \A a \in 0..(Len(q.rows[p]) - 1), u \in 0..(k - 1) :
       R[a * k + u + 1] =
         [action |-> a, memory |-> u,
          columns |-> Columns(q, size, states, q.rows[p][a + 1], u)]

LEMMA RowsInPlace ==
  ASSUME NEW q \in Pomdps, NEW states, NEW size, NEW updates \in Sizes(q), NEW i,
         states[i].prototype \in Prototypes(q),
         NEW p, p = states[i].prototype, NEW k, k = updates[q.observation[p]],
         NEW R, R = RowsOfState(q, size, states, updates, i)
  PROVE  RowsListed(q, size, states, p, k, R)
<1> DEFINE n == Len(q.rows[p])
           Row(r, m) == [action |-> r - 1, memory |-> m - 1,
                         columns |-> Columns(q, size, states, q.rows[p][r], m - 1)]
           G == [r \in 1..n |-> [m \in 1..k |-> Row(r, m)]]
           T == {Row(r, m) : r \in 1..n, m \in 1..k}
<1>1. n \in Nat /\ DOMAIN q.rows[p] = 1..n /\ k \in Nat \ {0}
  <2>1. q.rows[p] \in Seq(SUBSET Prototypes(q)) /\ q.observation[p] \in Observations(q)
    BY PomdpFacts
  <2> QED
    BY <2>1 DEF Sizes
<1>2. R = FlattenSeq(G)
  BY <1>1 DEF RowsOfState
<1>3. ASSUME NEW r \in 1..n
      PROVE  /\ G[r] \in Seq(T) /\ Len(G[r]) = k
             /\ \A m \in 1..k : G[r][m] = Row(r, m)
  <2>1. \A m \in 1..k : Row(r, m) \in T
    OBVIOUS
  <2>2. G[r] = [m \in 1..k |-> Row(r, m)]
    OBVIOUS
  <2> HIDE DEF G, T, Row
  <2> QED
    BY <1>1, <2>1, <2>2
<1>4. G \in [1..n -> Seq(T)] /\ Lengths(G) = [r \in 1..n |-> k]
  <2>1. DOMAIN G = 1..n /\ G = [r \in 1..n |-> G[r]]
    OBVIOUS
  <2> HIDE DEF G, T, Row
  <2> QED
    BY <1>3, <2>1 DEF Lengths
<1> HIDE DEF G, T, Row
<1>5. \A j \in 0..n : Sum(Lengths(G), j) = j * k
  <2>1. \A j \in 1..n : Lengths(G)[j] = k
    BY <1>4
  <2> QED
    BY <1>1, <2>1, SumOfEqual
<1>6. /\ R \in Seq(T) /\ Len(R) = n * k
      /\ \A r \in 1..n : \A m \in 1..Len(G[r]) : R[Sum(Lengths(G), r - 1) + m] = G[r][m]
  <2>1. n \in 0..n
    BY <1>1
  <2> QED
    <3>1. /\ FlattenSeq(G) \in Seq(T) /\ Len(FlattenSeq(G)) = Sum(Lengths(G), n)
          /\ \A r \in 1..n : \A m \in 1..Len(G[r]) :
               FlattenSeq(G)[Sum(Lengths(G), r - 1) + m] = G[r][m]
      <4> HIDE DEF n
      <4>1. n \in Nat /\ G \in [1..n -> Seq(T)]
        BY <1>1, <1>4
      <4> QED
        BY ONLY <4>1, FlattenElements
    <3> QED
      BY <1>2, <1>5, <2>1, <3>1
<1>7. ASSUME NEW a \in 0..(n - 1), NEW u \in 0..(k - 1)
      PROVE  R[a * k + u + 1] = Row(a + 1, u + 1)
  <2>1. a + 1 \in 1..n /\ u + 1 \in 1..k /\ a + 1 - 1 = a /\ a \in 0..n
    BY <1>1
  <2>2. Sum(Lengths(G), a + 1 - 1) = a * k
    BY <1>5, <2>1
  <2>3. R[Sum(Lengths(G), a + 1 - 1) + (u + 1)] = G[a + 1][u + 1]
    BY <1>3, <1>6, <2>1
  <2>4. a * k \in Nat
    BY <1>1
  <2> DEFINE x == a * k
  <2> HIDE DEF x
  <2>5. x + (u + 1) = x + u + 1
    BY <2>4 DEF x
  <2>6. R[x + u + 1] = G[a + 1][u + 1]
    BY <2>2, <2>3, <2>5 DEF x
  <2> QED
    BY <1>3, <2>1, <2>6 DEF x
<1>8. \A a \in 0..(n - 1), u \in 0..(k - 1) :
        Row(a + 1, u + 1) = [action |-> a, memory |-> u,
                             columns |-> Columns(q, size, states, q.rows[p][a + 1], u)]
  <2>1. \A a \in 0..(n - 1), u \in 0..(k - 1) : a + 1 - 1 = a /\ u + 1 - 1 = u
    BY <1>1
  <2> QED
    BY <2>1 DEF Row
<1>9. DOMAIN R = 1..(n * k)
  BY <1>6
<1>10. \A a \in 0..(n - 1), u \in 0..(k - 1) :
         R[a * k + u + 1] = [action |-> a, memory |-> u,
                             columns |-> Columns(q, size, states, q.rows[p][a + 1], u)]
  <2> HIDE DEF n
  <2> QED
    BY <1>7, <1>8
<1>11. DOMAIN R = 1..(n * k) /\ Len(R) = n * k /\ k \in Nat \ {0}
  <2>1. k \in Nat \ {0}
    BY <1>1
  <2>2. Len(R) = n * k
    BY <1>6
  <2> QED
    BY ONLY <1>9, <2>1, <2>2
<1>12. /\ DOMAIN R = 1..(Len(q.rows[p]) * k) /\ Len(R) = Len(q.rows[p]) * k
       /\ k \in Nat \ {0}
       /\ \A a \in 0..(Len(q.rows[p]) - 1), u \in 0..(k - 1) :
            R[a * k + u + 1] =
              [action |-> a, memory |-> u,
               columns |-> Columns(q, size, states, q.rows[p][a + 1], u)]
  BY ONLY <1>10, <1>11 DEF n
<1> QED
  BY ONLY <1>12 DEF RowsListed

-----------------------------------------------------------------------------
(***************************************************************************)
(* The holes of observations and memory.                                   *)
(***************************************************************************)
(* U are the tables for the memory sizes size.                             *)
Unfolding(q, size, U) == U = Unfold(q, size)

LEMMA UnfoldedTables ==
  ASSUME NEW q, NEW size, NEW U, Unfolding(q, size, U)
  PROVE  /\ U.size = size /\ U.states = buildStateSpace(q, size)
         /\ U.updates = max_successor_memory_size(q, size)
         /\ U.row_groups = row_groups(U.rows)
         /\ U.obs_to_holes = obs_to_holes(q, size, U.updates)
         /\ U.action_to_hole_options = action_to_hole_options(q, U.states, U.rows, U.obs_to_holes)
BY DEF Unfolding, Unfold

LEMMA UnfoldedRows ==
  ASSUME NEW q, NEW size, NEW U, Unfolding(q, size, U)
  PROVE  /\ DOMAIN U.rows = DOMAIN U.states
         /\ \A i \in DOMAIN U.states : U.rows[i] = RowsOfState(q, size, U.states, U.updates, i)
BY DEF Unfolding, Unfold

LEMMA UnfoldedHoles ==
  ASSUME NEW q, NEW size, NEW U, Unfolding(q, size, U), NEW z \in Observations(q)
  PROVE  /\ U.action_holes[z] = action_holes(q, size, U.updates, z)
         /\ U.memory_holes[z] = memory_holes(q, size, U.updates, z)
BY DEF Unfolding, Unfold

HoleSizes(q, size, updates) ==
  [y \in Observations(q) |-> IF HasHole(q, updates, y) THEN size[y] ELSE 0]

(* An observation has a hole for each of its memory states, or none.       *)
LEMMA HolesOfObservation ==
  ASSUME NEW q \in Pomdps, NEW size \in Sizes(q), NEW updates \in Sizes(q),
         NEW H, H = obs_to_holes(q, size, updates), NEW z \in Observations(q)
  PROVE  /\ size[z] \in Nat \ {0}
         /\ ~ HasHole(q, updates, z) => H[z] = << >>
         /\ HasHole(q, updates, z) =>
              H[z] # << >> /\ DOMAIN H[z] = 1..size[z] /\ Len(H[z]) = size[z]
         /\ \A m \in DOMAIN H[z] :
              /\ m \in 1..HoleSizes(q, size, updates)[z]
              /\ H[z][m] = Sum(HoleSizes(q, size, updates), z - 1) + m - 1
              /\ H[z][m] \in Nat
<1> DEFINE L == HoleSizes(q, size, updates)
<1>1. size[z] \in Nat \ {0} /\ q.observations \in Nat
  BY PomdpFacts, PomdpsAssumption DEF Sizes
<1>2. H[z] = IF ~ HasHole(q, updates, z) THEN << >>
             ELSE [m \in 1..size[z] |-> Sum(L, z - 1) + m - 1]
  BY DEF obs_to_holes, HoleSizes
<1>3. L[z] = IF HasHole(q, updates, z) THEN size[z] ELSE 0
  BY DEF HoleSizes
<1>4. Sum(L, z - 1) \in Nat
  <2>1. \A y \in 1..q.observations : L[y] \in Nat
    BY PomdpsAssumption DEF HoleSizes, Observations, Sizes
  <2>2. z - 1 \in 0..q.observations
    BY <1>1 DEF Observations
  <2> HIDE DEF L
  <2> QED
    BY <1>1, <2>1, <2>2, SumSteps
<1> HIDE DEF L
<1>5. CASE ~ HasHole(q, updates, z)
  <2>1. H[z] = << >> /\ DOMAIN H[z] = {}
    BY <1>2, <1>5
  <2> QED
    BY <1>1, <1>5, <2>1
<1>6. CASE HasHole(q, updates, z)
  <2>1. H[z] = [m \in 1..size[z] |-> Sum(L, z - 1) + m - 1] /\ L[z] = size[z]
    BY <1>2, <1>3, <1>6
  <2>2. DOMAIN H[z] = 1..size[z] /\ Len(H[z]) = size[z]
    BY <1>1, <2>1
  <2>3. H[z] # << >>
    BY <1>1, <2>2
  <2>4. \A m \in 1..size[z] : H[z][m] = Sum(L, z - 1) + m - 1 /\ H[z][m] \in Nat
    BY <1>1, <1>4, <2>1
  <2> QED
    BY <1>1, <1>6, <2>1, <2>2, <2>3, <2>4 DEF L
<1> QED
  BY <1>5, <1>6

(* A hole has one observation and memory.                                  *)
LEMMA HolesDistinct ==
  ASSUME NEW q \in Pomdps, NEW size \in Sizes(q), NEW updates \in Sizes(q),
         NEW H, H = obs_to_holes(q, size, updates),
         NEW z \in Observations(q), NEW m \in DOMAIN H[z],
         NEW y \in Observations(q), NEW l \in DOMAIN H[y], H[z][m] = H[y][l]
  PROVE  z = y /\ m = l
<1> DEFINE L == HoleSizes(q, size, updates)
           n == q.observations
<1>1. n \in Nat /\ z \in 1..n /\ y \in 1..n /\ \A x \in 1..n : L[x] \in Nat
  <2>1. n \in Nat /\ Observations(q) = 1..n
    BY PomdpFacts DEF Observations
  <2>2. \A x \in Observations(q) : size[x] \in Nat
    BY PomdpsAssumption DEF Sizes
  <2> HIDE DEF n
  <2> QED
    BY <2>1, <2>2 DEF HoleSizes
<1> HIDE DEF L, n
<1>2. /\ m \in 1..L[z] /\ H[z][m] = Sum(L, z - 1) + m - 1
      /\ l \in 1..L[y] /\ H[y][l] = Sum(L, y - 1) + l - 1
  BY HolesOfObservation DEF L
<1>3. Sum(L, z - 1) \in Nat /\ Sum(L, y - 1) \in Nat
  <2>1. z - 1 \in 0..n /\ y - 1 \in 0..n
    BY <1>1
  <2> QED
    BY <1>1, <2>1, SumSteps
<1>4. Sum(L, z - 1) + m = Sum(L, y - 1) + l
  <2> DEFINE a == Sum(L, z - 1)
             b == Sum(L, y - 1)
  <2>1. a \in Nat /\ b \in Nat /\ m \in Nat /\ l \in Nat /\ a + m - 1 = b + l - 1
    <3>1. L[z] \in Nat /\ L[y] \in Nat
      BY <1>1
    <3>2. Sum(L, z - 1) + m - 1 = Sum(L, y - 1) + l - 1
      BY <1>2
    <3>3. m \in Nat /\ l \in Nat
      BY <1>2, <3>1
    <3> QED
      BY <1>3, <3>2, <3>3
  <2> HIDE DEF a, b
  <2>2. a + m = b + l
    BY <2>1
  <2> QED
    BY <2>2 DEF a, b
<1>5. \A x \in 1..n : L[x] \in Nat
  BY <1>1
<1>6. z \in 1..n /\ y \in 1..n /\ n \in Nat /\ m \in 1..L[z] /\ l \in 1..L[y]
  BY <1>1, <1>2
<1>7. z < y => Sum(L, z - 1) + m < Sum(L, y - 1) + l
  BY <1>5, <1>6, BlocksInOrder
<1>8. y < z => Sum(L, y - 1) + l < Sum(L, z - 1) + m
  BY <1>5, <1>6, BlocksInOrder
<1>9. ~ (z < y) /\ ~ (y < z)
  <2> DEFINE a == Sum(L, z - 1) + m
             b == Sum(L, y - 1) + l
  <2>1. a \in Int /\ a = b /\ (z < y => a < b) /\ (y < z => b < a)
    <3>1. m \in Int
      <4>1. L[z] \in Nat
        BY <1>5, <1>6
      <4> QED
        BY <1>6, <4>1
    <3> QED
      BY <1>3, <1>4, <1>7, <1>8, <3>1
  <2> HIDE DEF a, b
  <2> QED
    BY <2>1
<1>10. z = y
  BY <1>6, <1>9
<1>11. m = l
  <2> DEFINE a == Sum(L, z - 1)
  <2>1. a \in Nat /\ a + m = a + l /\ m \in Int /\ l \in Int
    <3>1. L[z] \in Nat
      BY <1>5, <1>6
    <3> QED
      BY <1>3, <1>4, <1>6, <1>10, <3>1
  <2> HIDE DEF a
  <2> QED
    BY <2>1
<1> QED
  BY <1>10, <1>11

(* The options of a hole are the pairs of an action and an update.         *)
LEMMA OptionsArePairs ==
  ASSUME NEW q \in Pomdps, NEW updates \in Sizes(q), NEW z \in Observations(q)
  PROVE  /\ updates[z] \in Nat \ {0} /\ observation_actions(q, z) \in Nat \ {0}
         /\ NumOptions(q, updates, z) = observation_actions(q, z) * updates[z]
         /\ ~ HasHole(q, updates, z) => observation_actions(q, z) = 1 /\ updates[z] = 1
<1>1. updates[z] \in Nat \ {0} /\ observation_actions(q, z) \in Nat \ {0}
  <2>1. updates[z] \in 1..MaxMemory /\ MaxMemory \in Nat
    BY PomdpsAssumption DEF Sizes
  <2>2. observation_actions(q, z) \in Nat \ {0}
    BY PomdpFacts
  <2> QED
    BY <2>1, <2>2
<1>2. /\ ~ HasActionHole(q, z) => observation_actions(q, z) = 1
      /\ ~ HasMemoryHole(updates, z) => updates[z] = 1
  BY <1>1 DEF HasActionHole, HasMemoryHole
<1> QED
  BY <1>1, <1>2 DEF NumOptions, HasHole

LEMMA HoleInPlace ==
  ASSUME NEW q \in Pomdps, NEW size \in Sizes(q), NEW U, Unfolding(q, size, U),
         NEW z \in Observations(q), NEW m \in DOMAIN U.obs_to_holes[z],
         NEW h, h = U.obs_to_holes[z][m]
  PROVE  /\ h \in DOMAIN AllOptions(q, U) /\ h \in Range(U.obs_to_holes[z])
         /\ ObservationOf(q, U, h) = z /\ IndexOf(U.obs_to_holes[z], h) = m
         /\ AllOptions(q, U)[h] = 0..(observation_actions(q, z) * U.updates[z] - 1)
<1> DEFINE H == U.obs_to_holes
<1>1. U.updates \in Sizes(q) /\ H = obs_to_holes(q, size, U.updates)
  BY UnfoldedTables, MostMemory
<1> HIDE DEF H
<1>2. h = H[z][m] /\ m \in DOMAIN H[z]
  BY DEF H
<1>3. h \in Range(H[z]) /\ h \in UNION {Range(H[y]) : y \in Observations(q)}
  BY <1>2 DEF Range
<1>4. ASSUME NEW y \in Observations(q), h \in Range(H[y])
      PROVE  y = z
  <2>1. PICK l \in DOMAIN H[y] : h = H[y][l]
    BY <1>4 DEF Range
  <2>2. H[z][m] = H[y][l]
    BY <1>2, <2>1
  <2> QED
    BY ONLY <1>1, <1>2, <2>1, <2>2, HolesDistinct
<1>5. ObservationOf(q, U, h) = z
  BY <1>3, <1>4 DEF ObservationOf, H
<1>6. IndexOf(H[z], h) = m
  <2>1. \A l \in DOMAIN H[z] : H[z][l] = h => l = m
    BY <1>1, <1>2, HolesDistinct
  <2> QED
    BY <1>2, <2>1 DEF IndexOf
<1>7. /\ h \in DOMAIN AllOptions(q, U)
      /\ AllOptions(q, U)[h] = 0..(NumOptions(q, U.updates, ObservationOf(q, U, h)) - 1)
  BY <1>3 DEF AllOptions, H
<1> QED
  BY <1>1, <1>3, <1>5, <1>6, <1>7, OptionsArePairs DEF H

LEMMA HoleSomewhere ==
  ASSUME NEW q, NEW U, NEW h \in DOMAIN AllOptions(q, U)
  PROVE  \E z \in Observations(q) : \E m \in DOMAIN U.obs_to_holes[z] : h = U.obs_to_holes[z][m]
BY DEF AllOptions, Range

-----------------------------------------------------------------------------
(***************************************************************************)
(* The entries of the rows of a state: options and what they do.           *)
(***************************************************************************)
ObservationAt(q, U, i) == q.observation[U.states[i].prototype]

(* The entry of an option of state i.                                      *)
Color(q, U, i, o) ==
  LET holes == U.obs_to_holes[ObservationAt(q, U, i)]
  IN  IF holes = << >> THEN {} ELSE {[hole |-> holes[U.states[i].memory + 1], option |-> o]}

NumRows(q, U, i) == observation_actions(q, ObservationAt(q, U, i)) * U.updates[ObservationAt(q, U, i)]

LEMMA StateFacts ==
  ASSUME NEW q \in Pomdps, NEW size \in Sizes(q), NEW U, Unfolding(q, size, U),
         NEW i \in DOMAIN U.states
  PROVE  /\ U.states[i] \in States(q, size) /\ i \in Nat
         /\ U.states[i].prototype \in Prototypes(q)
         /\ ObservationAt(q, U, i) \in Observations(q)
         /\ Len(q.rows[U.states[i].prototype]) = observation_actions(q, ObservationAt(q, U, i))
         /\ U.updates \in Sizes(q)
         /\ NumRows(q, U, i) \in Nat \ {0}
         /\ U.obs_to_holes[ObservationAt(q, U, i)] = << >> => NumRows(q, U, i) = 1
         /\ U.obs_to_holes[ObservationAt(q, U, i)] # << >> =>
              U.states[i].memory + 1 \in DOMAIN U.obs_to_holes[ObservationAt(q, U, i)]
<1> DEFINE p == U.states[i].prototype
           z == ObservationAt(q, U, i)
<1>1. U.states = buildStateSpace(q, size) /\ U.updates = max_successor_memory_size(q, size)
      /\ U.obs_to_holes = obs_to_holes(q, size, U.updates)
  BY UnfoldedTables
<1>2. U.states \in Seq(States(q, size)) /\ U.states[i] \in States(q, size)
  BY <1>1, StatesInPlace
<1>3. U.updates \in Sizes(q)
  BY <1>1, MostMemory
<1>4. p \in Prototypes(q) /\ U.states[i].memory \in Nat /\ U.states[i].memory < size[z]
  BY <1>2 DEF States, ObservationAt
<1>5. z \in Observations(q) /\ Len(q.rows[p]) = observation_actions(q, z)
  BY <1>4, PomdpFacts DEF ObservationAt
<1>6. /\ U.updates[z] \in Nat \ {0} /\ observation_actions(q, z) \in Nat \ {0}
      /\ ~ HasHole(q, U.updates, z) => observation_actions(q, z) = 1 /\ U.updates[z] = 1
  BY <1>3, <1>5, OptionsArePairs
<1>7. /\ size[z] \in Nat \ {0}
      /\ HasHole(q, U.updates, z) =>
              U.obs_to_holes[z] # << >> /\ DOMAIN U.obs_to_holes[z] = 1..size[z]
      /\ ~ HasHole(q, U.updates, z) => U.obs_to_holes[z] = << >>
  BY <1>1, <1>3, <1>5, HolesOfObservation
<1> HIDE DEF z, p
<1>8. U.states[i].memory + 1 \in 1..size[z]
  BY <1>4, <1>7
<1>9. NumRows(q, U, i) \in Nat \ {0} /\ (U.obs_to_holes[z] = << >> => NumRows(q, U, i) = 1)
  BY <1>6, <1>7 DEF NumRows, z
<1> QED
  BY <1>2, <1>3, <1>4, <1>5, <1>7, <1>8, <1>9 DEF z, p

LEMMA RowsOfUnfolded ==
  ASSUME NEW q \in Pomdps, NEW size \in Sizes(q), NEW U, Unfolding(q, size, U),
         NEW i \in DOMAIN U.states, NEW k, k = U.updates[ObservationAt(q, U, i)],
         NEW p, p = U.states[i].prototype
  PROVE  /\ RowsListed(q, size, U.states, p, k, U.rows[i])
         /\ NumRows(q, U, i) = Len(q.rows[p]) * k
         /\ DOMAIN U.rows[i] = 1..NumRows(q, U, i) /\ Len(U.rows[i]) = NumRows(q, U, i)
<1>1. /\ p \in Prototypes(q) /\ U.updates \in Sizes(q)
      /\ Len(q.rows[p]) = observation_actions(q, ObservationAt(q, U, i))
  BY StateFacts
<1>2. U.rows[i] = RowsOfState(q, size, U.states, U.updates, i)
  BY UnfoldedRows
<1>3. k = U.updates[q.observation[p]] /\ NumRows(q, U, i) = Len(q.rows[p]) * k
  BY <1>1 DEF ObservationAt, NumRows
<1>4. RowsListed(q, size, U.states, p, k, U.rows[i])
  BY <1>1, <1>2, <1>3, RowsInPlace
<1> DEFINE R == U.rows[i]
<1>5. RowsListed(q, size, U.states, p, k, R)
  BY <1>4
<1> HIDE DEF R
<1>6. DOMAIN R = 1..(Len(q.rows[p]) * k) /\ Len(R) = Len(q.rows[p]) * k
  BY ONLY <1>5 DEF RowsListed
<1>7. DOMAIN R = 1..NumRows(q, U, i) /\ Len(R) = NumRows(q, U, i)
  BY ONLY <1>3, <1>6
<1>8. NumRows(q, U, i) = Len(q.rows[p]) * k
  BY <1>3
<1> QED
  BY ONLY <1>4, <1>7, <1>8 DEF R

(* The table of actions gives each row of a state its option.              *)
LEMMA EntriesInPlace ==
  ASSUME NEW q \in Pomdps, NEW size \in Sizes(q), NEW U, Unfolding(q, size, U)
  PROVE  \A i \in DOMAIN U.states : \A r \in DOMAIN U.rows[i] :
           U.action_to_hole_options[U.row_groups[i] + r] = Color(q, U, i, r - 1)
<1> DEFINE n == Len(U.states)
           G == [i \in DOMAIN U.states |->
                   IF U.obs_to_holes[ObservationAt(q, U, i)] = << >> THEN << {} >>
                   ELSE [r \in DOMAIN U.rows[i] |-> Color(q, U, i, r - 1)]]
           T == UNION {{Color(q, U, i, r - 1) : r \in DOMAIN U.rows[i]} : i \in DOMAIN U.states}
<1>1. n \in Nat /\ DOMAIN U.states = 1..n
  <2>1. U.states \in Seq(States(q, size))
    BY UnfoldedTables, StatesInPlace
  <2> QED
    BY <2>1
<1>2. U.action_to_hole_options = FlattenSeq(G)
  <2> DEFINE G1 == [i \in DOMAIN U.states |->
               LET holes == U.obs_to_holes[q.observation[U.states[i].prototype]]
               IN  IF holes = << >> THEN << {} >>
                   ELSE [o \in DOMAIN U.rows[i] |->
                           {[hole |-> holes[U.states[i].memory + 1], option |-> o - 1]}]]
  <2>1. U.action_to_hole_options = FlattenSeq(G1)
    <3>1. U.action_to_hole_options = action_to_hole_options(q, U.states, U.rows, U.obs_to_holes)
      BY UnfoldedTables
    <3> QED
      BY <3>1 DEF action_to_hole_options
  <2>2. G1 = G
    BY DEF Color, ObservationAt
  <2> QED
    BY <2>1, <2>2
<1>3. ASSUME NEW i \in DOMAIN U.states
      PROVE  /\ G[i] \in Seq(T) /\ Len(G[i]) = Len(U.rows[i])
             /\ DOMAIN U.rows[i] = 1..Len(U.rows[i]) /\ Len(U.rows[i]) \in Nat
             /\ \A r \in DOMAIN U.rows[i] : G[i][r] = Color(q, U, i, r - 1)
  <2>1. /\ DOMAIN U.rows[i] = 1..NumRows(q, U, i) /\ Len(U.rows[i]) = NumRows(q, U, i)
        /\ NumRows(q, U, i) \in Nat \ {0}
    BY RowsOfUnfolded, StateFacts
  <2>2. \A r \in DOMAIN U.rows[i] : Color(q, U, i, r - 1) \in T
    OBVIOUS
  <2>3. CASE U.obs_to_holes[ObservationAt(q, U, i)] = << >>
    <3>1. G[i] = << {} >> /\ NumRows(q, U, i) = 1 /\ Color(q, U, i, 1 - 1) = {}
      BY <2>3, StateFacts DEF Color
    <3>2. {} \in T
      <4>1. 1 \in DOMAIN U.rows[i]
        BY <2>1
      <4> HIDE DEF T
      <4> QED
        BY <2>2, <3>1, <4>1
    <3> HIDE DEF G, T
    <3>3. \A r \in DOMAIN U.rows[i] : r = 1
      BY <2>1, <3>1
    <3> QED
      BY <2>1, <3>1, <3>2, <3>3
  <2>4. CASE U.obs_to_holes[ObservationAt(q, U, i)] # << >>
    <3>1. G[i] = [r \in 1..NumRows(q, U, i) |-> Color(q, U, i, r - 1)]
      BY <2>1, <2>4
    <3> HIDE DEF G, T
    <3> QED
      BY <2>1, <2>2, <3>1
  <2> QED
    BY <2>3, <2>4
<1>4. G \in [1..n -> Seq(T)] /\ Lengths(G) = [j \in DOMAIN U.rows |-> Len(U.rows[j])]
  <2>1. DOMAIN G = 1..n /\ G = [i \in 1..n |-> G[i]] /\ DOMAIN U.rows = 1..n
    BY <1>1, UnfoldedRows
  <2> HIDE DEF G, T
  <2> QED
    BY <1>1, <1>3, <2>1 DEF Lengths
<1>5. \A i \in DOMAIN U.states : U.row_groups[i] = Sum(Lengths(G), i - 1)
  <2>1. U.row_groups = row_groups(U.rows) /\ DOMAIN U.rows = DOMAIN U.states
    BY UnfoldedTables, UnfoldedRows
  <2> HIDE DEF G
  <2> QED
    BY <1>4, <2>1 DEF row_groups
<1> HIDE DEF G, T
<1>6. \A i \in 1..n : \A r \in 1..Len(G[i]) :
        FlattenSeq(G)[Sum(Lengths(G), i - 1) + r] = G[i][r]
  <2>1. n \in Nat /\ G \in [1..n -> Seq(T)]
    BY <1>1, <1>4
  <2> HIDE DEF n
  <2>2. /\ FlattenSeq(G) \in Seq(T) /\ Len(FlattenSeq(G)) = Sum(Lengths(G), n)
        /\ \A i \in 1..n : \A r \in 1..Len(G[i]) :
             FlattenSeq(G)[Sum(Lengths(G), i - 1) + r] = G[i][r]
    BY ONLY <2>1, FlattenElements
  <2> QED
    BY <2>2
<1>7. ASSUME NEW i \in DOMAIN U.states, NEW r \in DOMAIN U.rows[i]
      PROVE  U.action_to_hole_options[U.row_groups[i] + r] = Color(q, U, i, r - 1)
  <2>1. i \in 1..n /\ r \in 1..Len(G[i]) /\ G[i][r] = Color(q, U, i, r - 1)
    BY <1>1, <1>3
  <2>2. U.row_groups[i] = Sum(Lengths(G), i - 1)
    BY <1>5
  <2>3. FlattenSeq(G)[Sum(Lengths(G), i - 1) + r] = G[i][r]
    BY <1>6, <2>1
  <2> QED
    BY <1>2, <2>1, <2>2, <2>3
<1> QED
  BY <1>7

-----------------------------------------------------------------------------
(***************************************************************************)
(* What the options of a state do.                                         *)
(***************************************************************************)
Options(q, U, i) == 0..(NumRows(q, U, i) - 1)

LEMMA ColorsOfState ==
  ASSUME NEW q \in Pomdps, NEW size \in Sizes(q), NEW U, Unfolding(q, size, U),
         NEW i \in DOMAIN U.states
  PROVE  Colors(q, U, i) = {Color(q, U, i, o) : o \in Options(q, U, i)}
<1> DEFINE z == ObservationAt(q, U, i)
           holes == U.obs_to_holes[z]
           m == U.states[i].memory + 1
<1>1. /\ z \in Observations(q)
      /\ holes = << >> => NumRows(q, U, i) = 1
      /\ holes # << >> => m \in DOMAIN holes
      /\ NumRows(q, U, i) = observation_actions(q, z) * U.updates[z]
  BY StateFacts DEF NumRows
<1>2. HoleOf(q, U, i) = IF holes = << >> THEN {} ELSE {holes[m]}
  BY DEF HoleOf, ObservationAt
<1>3. CASE holes = << >>
  <2>1. Options(q, U, i) = {0} /\ Color(q, U, i, 0) = {}
    BY <1>1, <1>3 DEF Options, Color
  <2>2. Colors(q, U, i) = {{}}
    BY <1>2, <1>3 DEF Colors
  <2> QED
    BY <2>1, <2>2
<1>4. CASE holes # << >>
  <2> DEFINE h == holes[m]
  <2>1. HoleOf(q, U, i) # {} /\ (CHOOSE x \in HoleOf(q, U, i) : TRUE) = h
    BY <1>2, <1>4
  <2>2. AllOptions(q, U)[h] = 0..(observation_actions(q, z) * U.updates[z] - 1)
    <3> HIDE DEF z, m
    <3>1. m \in DOMAIN U.obs_to_holes[z]
      BY <1>1, <1>4
    <3> QED
      BY <1>1, <3>1, HoleInPlace
  <2>3. AllOptions(q, U)[h] = Options(q, U, i)
    BY <1>1, <2>2 DEF Options
  <2>4. \A o : Color(q, U, i, o) = {[hole |-> h, option |-> o]}
    BY <1>4 DEF Color
  <2>5. Colors(q, U, i) = {{[hole |-> h, option |-> o]} : o \in AllOptions(q, U)[h]}
    BY <2>1 DEF Colors
  <2> HIDE DEF h
  <2> QED
    BY <2>3, <2>4, <2>5
<1> QED
  BY <1>3, <1>4

LEMMA RowOfColor ==
  ASSUME NEW q \in Pomdps, NEW size \in Sizes(q), NEW U, Unfolding(q, size, U),
         NEW i \in DOMAIN U.states, NEW o \in Options(q, U, i)
  PROVE  /\ o \in Nat /\ RowsFor(U, i, Color(q, U, i, o)) = {o + 1}
         /\ Color(q, U, i, o) = {} => o = 0
         /\ Color(q, U, i, o) # {} => (CHOOSE c \in Color(q, U, i, o) : TRUE).option = o
<1> DEFINE z == ObservationAt(q, U, i)
           holes == U.obs_to_holes[z]
           h == holes[U.states[i].memory + 1]
           n == NumRows(q, U, i)
<1>1. n \in Nat \ {0} /\ (holes = << >> => n = 1) /\ DOMAIN U.rows[i] = 1..n
  BY StateFacts, RowsOfUnfolded
<1>2. \A r \in 1..n : U.action_to_hole_options[U.row_groups[i] + r] = Color(q, U, i, r - 1)
  BY <1>1, EntriesInPlace
<1>3. \A x : Color(q, U, i, x) = IF holes = << >> THEN {} ELSE {[hole |-> h, option |-> x]}
  BY DEF Color
<1>4. o \in 0..(n - 1) /\ o + 1 \in 1..n /\ o + 1 - 1 = o /\ o \in Nat
  BY <1>1 DEF Options
<1>5. RowsFor(U, i, Color(q, U, i, o)) = {r \in 1..n : Color(q, U, i, r - 1) = Color(q, U, i, o)}
  BY <1>1, <1>2 DEF RowsFor
<1> HIDE DEF z, n, h, holes
<1>6. CASE holes = << >>
  <2>1. n = 1 /\ o = 0 /\ \A x : Color(q, U, i, x) = {}
    BY <1>1, <1>3, <1>4, <1>6
  <2>2. 1..n = {o + 1}
    BY <2>1
  <2> QED
    BY <1>4, <1>5, <2>1, <2>2
<1>7. CASE holes # << >>
  <2>1. \A x : Color(q, U, i, x) = {[hole |-> h, option |-> x]}
    BY <1>3, <1>7
  <2>2. \A r \in 1..n : Color(q, U, i, r - 1) = Color(q, U, i, o) => r = o + 1
    <3>1. ASSUME NEW r \in 1..n, {[hole |-> h, option |-> r - 1]} = {[hole |-> h, option |-> o]}
          PROVE  r = o + 1
      <4>1. [hole |-> h, option |-> r - 1] = [hole |-> h, option |-> o]
        BY <3>1
      <4>2. r - 1 = o
        BY <4>1
      <4> QED
        BY <1>1, <1>4, <4>2
    <3> QED
      BY <2>1, <3>1
  <2>3. RowsFor(U, i, Color(q, U, i, o)) = {o + 1}
    BY <1>4, <1>5, <2>2
  <2>4. Color(q, U, i, o) = {[hole |-> h, option |-> o]} /\ Color(q, U, i, o) # {}
    BY <2>1
  <2> DEFINE e == [hole |-> h, option |-> o]
             C == Color(q, U, i, o)
  <2>5. C = {e} /\ e.option = o
    BY <2>4
  <2> HIDE DEF e, C
  <2>6. (CHOOSE c \in C : TRUE).option = o
    <3>1. (CHOOSE c \in C : TRUE) = e
      BY ONLY <2>5
    <3> QED
      BY <2>5, <3>1
  <2> QED
    BY ONLY <1>4, <2>3, <2>4, <2>6 DEF C
<1> QED
  BY <1>6, <1>7

(* An option as an action and an update of the memory.                     *)
UpdatesAt(q, U, i) == U.updates[ObservationAt(q, U, i)]

ActionAt(q, U, i, o) == o \div UpdatesAt(q, U, i)

UpdateAt(q, U, i, o) == o % UpdatesAt(q, U, i)

Successors(q, U, i, o) == q.rows[U.states[i].prototype][ActionAt(q, U, i, o) + 1]

(* The duplicates that an option leads to.                                 *)
Target(q, size, U, i, o) ==
  {translateState(q, size, d, UpdateAt(q, U, i, o)) : d \in Successors(q, U, i, o)}

LEMMA OptionFacts ==
  ASSUME NEW q \in Pomdps, NEW size \in Sizes(q), NEW U, Unfolding(q, size, U),
         NEW i \in DOMAIN U.states, NEW o \in Options(q, U, i)
  PROVE  /\ UpdatesAt(q, U, i) \in Nat \ {0}
         /\ NumRows(q, U, i) = observation_actions(q, ObservationAt(q, U, i)) * UpdatesAt(q, U, i)
         /\ ActionAt(q, U, i, o) \in 0..(Len(q.rows[U.states[i].prototype]) - 1)
         /\ UpdateAt(q, U, i, o) \in 0..(UpdatesAt(q, U, i) - 1)
         /\ o = ActionAt(q, U, i, o) * UpdatesAt(q, U, i) + UpdateAt(q, U, i, o)
         /\ Successors(q, U, i, o) \in SUBSET Prototypes(q)
<1> DEFINE k == UpdatesAt(q, U, i)
           p == U.states[i].prototype
           n == Len(q.rows[p])
           a == ActionAt(q, U, i, o)
<1>1. /\ p \in Prototypes(q) /\ ObservationAt(q, U, i) \in Observations(q)
      /\ n = observation_actions(q, ObservationAt(q, U, i)) /\ U.updates \in Sizes(q)
  BY StateFacts
<1>2. k \in Nat \ {0} /\ n \in Nat \ {0}
  BY <1>1, OptionsArePairs DEF UpdatesAt
<1>3. NumRows(q, U, i) = n * k
  BY <1>1 DEF NumRows, UpdatesAt
<1>4. o \in 0..(n * k - 1)
  BY <1>3 DEF Options
<1> HIDE DEF k, n
<1>5. a \in 0..(n - 1) /\ UpdateAt(q, U, i, o) \in 0..(k - 1) /\ o = a * k + UpdateAt(q, U, i, o)
  BY <1>2, <1>4, DecodeRange DEF ActionAt, UpdateAt, k
<1>6. Successors(q, U, i, o) \in SUBSET Prototypes(q)
  <2>1. a + 1 \in 1..n
    BY <1>2, <1>5
  <2>2. a + 1 \in 1..Len(q.rows[p])
    BY <2>1 DEF n
  <2> HIDE DEF a, p
  <2>3. q.rows[p][a + 1] \in SUBSET Prototypes(q)
    BY <1>1, <2>2, RowFacts
  <2> QED
    BY <2>3 DEF Successors, a, p
<1> QED
  BY <1>1, <1>2, <1>3, <1>5, <1>6 DEF k, n

LEMMA StepOfRow ==
  ASSUME NEW q \in Pomdps, NEW size \in Sizes(q), NEW U, Unfolding(q, size, U),
         NEW i \in DOMAIN U.states, NEW o \in Options(q, U, i)
  PROVE  StepOf(U, i, o + 1) = Target(q, size, U, i, o)
<1> DEFINE a == ActionAt(q, U, i, o)
           u == UpdateAt(q, U, i, o)
           k == UpdatesAt(q, U, i)
           p == U.states[i].prototype
           row == Successors(q, U, i, o)
           C == Columns(q, size, U.states, row, u)
<1>1. /\ a \in 0..(Len(q.rows[p]) - 1) /\ u \in 0..(k - 1) /\ o = a * k + u /\ k \in Nat \ {0}
      /\ row \in SUBSET Prototypes(q) /\ row = q.rows[p][a + 1]
  BY OptionFacts DEF Successors
<1>2. RowsListed(q, size, U.states, p, k, U.rows[i])
  BY RowsOfUnfolded DEF UpdatesAt
<1>3. U.rows[i][a * k + u + 1] = [action |-> a, memory |-> u, columns |-> C]
  <2> HIDE DEF a, u, k, p
  <2> QED
    BY <1>1, <1>2 DEF RowsListed
<1> HIDE DEF a, u, k, p, row
<1>4. U.rows[i][o + 1].columns = C
  BY <1>1, <1>3
<1>5. U.states = buildStateSpace(q, size)
  BY UnfoldedTables
<1>6. u \in Nat
  BY <1>1
<1>7. C = Columns(q, size, buildStateSpace(q, size), row, u)
  BY <1>5
<1> HIDE DEF C
<1>8. {buildStateSpace(q, size)[c] : c \in Range(C)} = {translateState(q, size, d, u) : d \in row}
  <2>1. q \in Pomdps /\ size \in Sizes(q) /\ row \in SUBSET Prototypes(q)
    BY <1>1
  <2> QED
    BY ONLY <2>1, <1>6, <1>7, ColumnsOfRow, Zenon
<1>9. StepOf(U, i, o + 1) = {U.states[c] : c \in Range(C)}
  BY <1>4 DEF StepOf
<1> QED
  BY <1>5, <1>8, <1>9 DEF Target, row, u

(* An option's row does what the option's number encodes.                  *)
LEMMA StepOfColor ==
  ASSUME NEW q \in Pomdps, NEW size \in Sizes(q), NEW U, Unfolding(q, size, U),
         NEW i \in DOMAIN U.states, NEW o \in Options(q, U, i)
  PROVE  StepOf(U, i, o + 1) = PolicyStep(q, U, i, Color(q, U, i, o))
<1> DEFINE C == Color(q, U, i, o)
           option == IF C = {} THEN 0 ELSE (CHOOSE c \in C : TRUE).option
           u == UpdateAt(q, U, i, o)
           row == Successors(q, U, i, o)
           To(d) == [prototype |-> d, memory |-> IF u < U.size[q.observation[d]] THEN u ELSE 0]
<1>1. option = o
  BY RowOfColor
<1>2. PolicyStep(q, U, i, C) = {To(d) : d \in row}
  <2> DEFINE p == U.states[i].prototype
             k == U.updates[q.observation[p]]
  <2> HIDE DEF C
  <2>1. PolicyStep(q, U, i, C) =
          {[prototype |-> d, memory |-> IF option % k < U.size[q.observation[d]]
                                        THEN option % k ELSE 0] :
             d \in q.rows[p][option \div k + 1]}
    BY DEF PolicyStep
  <2>2. u = o % k /\ row = q.rows[p][o \div k + 1]
    BY DEF Successors, ActionAt, UpdateAt, UpdatesAt, ObservationAt
  <2> HIDE DEF option, p, k, u, row
  <2> QED
    BY <1>1, <2>1, <2>2
<1>3. u \in Nat /\ row \in SUBSET Prototypes(q) /\ U.size = size
  <2>1. u \in 0..(UpdatesAt(q, U, i) - 1) /\ row \in SUBSET Prototypes(q)
    BY OptionFacts
  <2> HIDE DEF u, row
  <2> QED
    BY <2>1, UnfoldedTables
<1> HIDE DEF u, row
<1>4. \A d \in row : To(d) = translateState(q, size, d, u)
  <2>1. \A d \in row : size[q.observation[d]] \in Nat
    BY <1>3, MemoryOfPrototype
  <2> QED
    BY <1>3, <2>1 DEF translateState
<1>5. StepOf(U, i, o + 1) = {translateState(q, size, d, u) : d \in row}
  BY StepOfRow DEF Target, u, row
<1> HIDE DEF To
<1> QED
  BY <1>2, <1>4, <1>5

-----------------------------------------------------------------------------
(***************************************************************************)
(* The assignments are the policies with memory.                           *)
(***************************************************************************)
LEMMA GreatestOfTwo ==
  ASSUME NEW a \in Nat, NEW b \in Nat
  PROVE  Greatest({a, b}) = IF a <= b THEN b ELSE a
<1> DEFINE g == IF a <= b THEN b ELSE a
<1>1. g \in {a, b} /\ \A y \in {a, b} : y <= g
  OBVIOUS
<1>2. \A x \in {a, b} : (\A y \in {a, b} : y <= x) => x = g
  OBVIOUS
<1> HIDE DEF g
<1> QED
  BY <1>1, <1>2 DEF Greatest, g

LEMMA Concatenation ==
  ASSUME NEW T, NEW a \in Seq(T), NEW m \in Seq(T)
  PROVE  /\ Len(a) \in Nat /\ Len(m) \in Nat
         /\ Len(a \o m) = Len(a) + Len(m) /\ DOMAIN (a \o m) = 1..(Len(a) + Len(m))
         /\ \A j \in 1..Len(a) : (a \o m)[j] = a[j]
         /\ \A j \in 1..Len(m) : (a \o m)[Len(a) + j] = m[j]
OBVIOUS

(* The manager's holes of each observation.                                *)
ManagerHoles(q, size, updates) ==
  [y \in Observations(q) |->
     size[y] * ((IF HasActionHole(q, y) THEN 1 ELSE 0)
                 + (IF HasMemoryHole(updates, y) THEN 1 ELSE 0))]

LEMMA ManagerHolesInPlace ==
  ASSUME NEW q \in Pomdps, NEW size \in Sizes(q), NEW updates \in Sizes(q), NEW z \in Observations(q),
         NEW a, a = action_holes(q, size, updates, z), NEW m, m = memory_holes(q, size, updates, z)
  PROVE  /\ a \in Seq(Nat) /\ m \in Seq(Nat) /\ size[z] \in Nat
         /\ Len(a) = IF HasActionHole(q, z) THEN size[z] ELSE 0
         /\ Len(m) = IF HasMemoryHole(updates, z) THEN size[z] ELSE 0
         /\ ~ HasActionHole(q, z) => a = << >>
         /\ ~ HasMemoryHole(updates, z) => m = << >>
         /\ Len(a \o m) = ManagerHoles(q, size, updates)[z]
         /\ \A j \in DOMAIN (a \o m) :
              (a \o m)[j] = Sum(ManagerHoles(q, size, updates), z - 1) + j - 1
<1> DEFINE n == size[z]
           F == ManagerHoles(q, size, updates)
           b == Sum(F, z - 1)
<1>1. n \in Nat \ {0}
  BY PomdpsAssumption DEF Sizes
<1>2. b \in Nat
  <2>1. \A y \in 1..q.observations : F[y] \in Nat
    <3>1. \A y \in Observations(q) : size[y] \in Nat
      BY PomdpsAssumption DEF Sizes
    <3> QED
      BY <3>1 DEF ManagerHoles, Observations
  <2>2. q.observations \in Nat /\ z - 1 \in 0..q.observations
    <3>1. q.observations \in Nat
      BY PomdpFacts
    <3> QED
      BY <3>1 DEF Observations
  <2> HIDE DEF F
  <2> QED
    BY <2>1, <2>2, SumSteps
<1>3. F[z] = n * ((IF HasActionHole(q, z) THEN 1 ELSE 0) + (IF HasMemoryHole(updates, z) THEN 1 ELSE 0))
  BY DEF ManagerHoles
<1>4. HolesBefore(q, size, updates, z) = b
  BY DEF HolesBefore, ManagerHoles
<1>5. a = IF ~ HasActionHole(q, z) THEN << >> ELSE [k \in 1..n |-> b + k - 1]
  BY <1>4 DEF action_holes
<1>6. m = IF ~ HasMemoryHole(updates, z) THEN << >> ELSE [k \in 1..n |-> b + Len(a) + k - 1]
  BY <1>4 DEF memory_holes
<1> HIDE DEF n, b
<1>7. a \in Seq(Nat) /\ Len(a) = IF HasActionHole(q, z) THEN n ELSE 0
  <2>1. CASE HasActionHole(q, z)
    <3>1. a = [k \in 1..n |-> b + k - 1] /\ \A k \in 1..n : b + k - 1 \in Nat
      BY <1>1, <1>2, <1>5, <2>1
    <3> QED
      BY <1>1, <2>1, <3>1
  <2>2. CASE ~ HasActionHole(q, z)
    BY <1>5, <2>2
  <2> QED
    BY <2>1, <2>2
<1>8. m \in Seq(Nat) /\ Len(m) = IF HasMemoryHole(updates, z) THEN n ELSE 0
  <2> DEFINE c == b + Len(a)
  <2>1. c \in Nat
    BY <1>2, <1>7
  <2>2. CASE HasMemoryHole(updates, z)
    <3>1. m = [k \in 1..n |-> c + k - 1]
      BY <1>6, <2>2
    <3> HIDE DEF c
    <3>2. \A k \in 1..n : c + k - 1 \in Nat
      BY <1>1, <2>1
    <3> QED
      BY <1>1, <2>2, <3>1, <3>2
  <2>3. CASE ~ HasMemoryHole(updates, z)
    BY <1>6, <2>3
  <2> QED
    BY <2>2, <2>3
<1>9. /\ Len(a) \in Nat /\ Len(m) \in Nat
      /\ Len(a \o m) = Len(a) + Len(m) /\ DOMAIN (a \o m) = 1..(Len(a) + Len(m))
      /\ \A j \in 1..Len(a) : (a \o m)[j] = a[j]
      /\ \A j \in 1..Len(m) : (a \o m)[Len(a) + j] = m[j]
  <2>1. a \in Seq(Nat) /\ m \in Seq(Nat)
    BY <1>7, <1>8
  <2> QED
    BY ONLY <2>1, Concatenation
<1> DEFINE x == Len(a)
           y == Len(m)
<1>10. Len(a \o m) = F[z]
  <2>1. /\ x = IF HasActionHole(q, z) THEN n ELSE 0
        /\ y = IF HasMemoryHole(updates, z) THEN n ELSE 0
    BY <1>7, <1>8
  <2>2. x + y = F[z]
    BY <1>1, <1>3, <2>1
  <2> QED
    BY <1>9, <2>2
<1>11. \A j \in 1..x : a[j] = b + j - 1
  <2>1. CASE HasActionHole(q, z)
    BY <1>5, <1>7, <2>1
  <2>2. CASE ~ HasActionHole(q, z)
    BY <1>7, <2>2
  <2> QED
    BY <2>1, <2>2
<1>12. \A j \in 1..y : m[j] = b + x + j - 1
  <2>1. CASE HasMemoryHole(updates, z)
    BY <1>6, <1>8, <2>1
  <2>2. CASE ~ HasMemoryHole(updates, z)
    BY <1>8, <2>2
  <2> QED
    BY <2>1, <2>2
<1> DEFINE am == a \o m
<1>13. /\ x \in Nat /\ y \in Nat /\ DOMAIN am = 1..(x + y)
       /\ \A j \in 1..x : am[j] = b + j - 1
       /\ \A j \in 1..y : am[x + j] = b + x + j - 1
  BY <1>9, <1>11, <1>12
<1> HIDE DEF x, y, am
<1>14. ASSUME NEW j \in DOMAIN am
       PROVE  am[j] = b + j - 1
  <2>1. CASE j <= x
    BY <1>13, <2>1
  <2>2. CASE j > x
    <3>1. j - x \in 1..y /\ x + (j - x) = j /\ b + x + (j - x) - 1 = b + j - 1
      BY <1>2, <1>13, <2>2
    <3>2. am[x + (j - x)] = b + x + (j - x) - 1
      BY <1>13, <3>1
    <3> QED
      BY <3>1, <3>2
  <2> QED
    BY <1>13, <2>1, <2>2
<1> HIDE DEF F
<1> QED
  BY ONLY <1>1, <1>5, <1>6, <1>7, <1>8, <1>10, <1>14 DEF n, b, F, am

LEMMA HolesInPairs ==
  ASSUME NEW q \in Pomdps, NEW size \in Sizes(q), NEW U, Unfolding(q, size, U)
  PROVE  HolesPairUp(q, U)
<1> DEFINE n == q.observations
           updates == U.updates
           F == ManagerHoles(q, size, updates)
           A(z) == action_holes(q, size, updates, z)
           M(z) == memory_holes(q, size, updates, z)
           G == [z \in Observations(q) |-> U.action_holes[z] \o U.memory_holes[z]]
           all == FlattenSeq(G)
<1>1. n \in Nat /\ Observations(q) = 1..n
  BY PomdpFacts DEF Observations
<1>2. updates \in Sizes(q) /\ U.obs_to_holes = obs_to_holes(q, size, updates)
  BY UnfoldedTables, MostMemory
<1>3. \A z \in Observations(q) : U.action_holes[z] = A(z) /\ U.memory_holes[z] = M(z)
  BY UnfoldedHoles
<1> HIDE DEF updates
<1>4. ASSUME NEW z \in Observations(q)
      PROVE  /\ U.action_holes[z] = << >> \/ U.memory_holes[z] = << >>
                  \/ Len(U.action_holes[z]) = Len(U.memory_holes[z])
             /\ Len(U.obs_to_holes[z]) = Greatest({Len(U.action_holes[z]), Len(U.memory_holes[z])})
  <2> DEFINE a == A(z)
             m == M(z)
             k == size[z]
  <2>1. /\ k \in Nat
        /\ Len(a) = IF HasActionHole(q, z) THEN k ELSE 0
        /\ Len(m) = IF HasMemoryHole(updates, z) THEN k ELSE 0
        /\ ~ HasActionHole(q, z) => a = << >>
        /\ ~ HasMemoryHole(updates, z) => m = << >>
    BY <1>2, ManagerHolesInPlace
  <2>2. /\ ~ HasHole(q, updates, z) => U.obs_to_holes[z] = << >>
        /\ HasHole(q, updates, z) => Len(U.obs_to_holes[z]) = k
    BY <1>2, HolesOfObservation
  <2>3. Len(U.obs_to_holes[z]) = IF HasHole(q, updates, z) THEN k ELSE 0
    BY <2>2
  <2> HIDE DEF a, m, k
  <2>4. Greatest({Len(a), Len(m)}) = IF Len(a) <= Len(m) THEN Len(m) ELSE Len(a)
    <3>1. Len(a) \in Nat /\ Len(m) \in Nat
      BY <2>1
    <3> QED
      BY <3>1, GreatestOfTwo
  <2>5. Len(U.obs_to_holes[z]) = Greatest({Len(a), Len(m)})
    BY <2>1, <2>3, <2>4 DEF HasHole
  <2>6. a = << >> \/ m = << >> \/ Len(a) = Len(m)
    BY <2>1
  <2> QED
    BY <1>3, <2>5, <2>6 DEF a, m
<1>5. ASSUME NEW z \in Observations(q)
      PROVE  /\ G[z] \in Seq(Nat) /\ Len(G[z]) = F[z]
             /\ \A j \in 1..Len(G[z]) : G[z][j] = Sum(F, z - 1) + j - 1
  <2> DEFINE a == A(z)
             m == M(z)
             g == a \o m
  <2>1. /\ a \in Seq(Nat) /\ m \in Seq(Nat)
        /\ Len(g) = F[z] /\ \A j \in DOMAIN g : g[j] = Sum(F, z - 1) + j - 1
    BY <1>2, ManagerHolesInPlace
  <2>2. G[z] = g
    BY <1>3
  <2>3. g \in Seq(Nat)
    BY <2>1
  <2> HIDE DEF g, G, F
  <2> QED
    BY <2>1, <2>2, <2>3
<1>6. G \in [1..n -> Seq(Nat)] /\ DOMAIN G = 1..n
  <2>1. G = [z \in 1..n |-> G[z]]
    BY <1>1
  <2> HIDE DEF G, n
  <2> QED
    BY <1>1, <1>5, <2>1
<1>7. Lengths(G) = F
  <2>1. F = [z \in 1..n |-> F[z]]
    BY <1>1 DEF ManagerHoles
  <2> HIDE DEF G, F, n
  <2> QED
    BY <1>1, <1>5, <1>6, <2>1 DEF Lengths
<1> HIDE DEF G, F, n
<1>8. all \in Seq(Nat) /\ \A i \in DOMAIN all : IsPlace(G, i)
  BY <1>1, <1>6, FlattenElements, FlattenPlaces
<1>9. ASSUME NEW i \in DOMAIN all
      PROVE  all[i] = i - 1
  <2>1. PICK z \in 1..n : \E j \in 1..Len(G[z]) : i = Sum(F, z - 1) + j /\ all[i] = G[z][j]
    BY <1>6, <1>7, <1>8 DEF IsPlace
  <2>2. PICK j \in 1..Len(G[z]) : i = Sum(F, z - 1) + j /\ all[i] = G[z][j]
    BY <2>1
  <2>3. all[i] = Sum(F, z - 1) + j - 1
    BY <1>1, <1>5, <2>2
  <2> DEFINE b == Sum(F, z - 1)
  <2>4. all[i] = b + j - 1 /\ i = b + j /\ b \in Nat
    <3>1. \A y \in 1..n : F[y] \in Nat
      <4>1. \A y \in 1..n : Len(G[y]) = F[y] /\ Len(G[y]) \in Nat
        BY <1>1, <1>5
      <4> QED
        BY <4>1
    <3>2. z - 1 \in 0..n
      BY <1>1
    <3>3. b \in Nat
      BY <1>1, <3>1, <3>2, SumSteps
    <3> QED
      BY <2>2, <2>3, <3>3
  <2> HIDE DEF all, b
  <2>5. j \in Int
    <3>1. Len(G[z]) \in Nat
      BY <1>1, <1>5
    <3> QED
      BY <3>1
  <2> QED
    BY <2>4, <2>5
<1>10. Range(all) = 0..(Len(all) - 1)
  <2> HIDE DEF all
  <2>0. DOMAIN all = 1..Len(all) /\ Len(all) \in Nat
    BY <1>8
  <2>1. Range(all) = {i - 1 : i \in 1..Len(all)} /\ Len(all) \in Nat
    BY <1>9, <2>0 DEF Range
  <2>2. \A h \in 0..(Len(all) - 1) : h + 1 \in 1..Len(all) /\ h = (h + 1) - 1
    BY <2>1
  <2>3. \A i \in 1..Len(all) : i - 1 \in 0..(Len(all) - 1)
    BY <2>1
  <2> QED
    BY <2>1, <2>2, <2>3
<1> QED
  BY <1>4, <1>10 DEF HolesPairUp, G

(* The options of a state's hole are its policies, row by row.             *)
LEMMA PolicyOfOption ==
  ASSUME NEW q \in Pomdps, NEW size \in Sizes(q), NEW U, Unfolding(q, size, U),
         NEW i \in DOMAIN U.states, NEW color \in Colors(q, U, i)
  PROVE  /\ Cardinality(RowsFor(U, i, color)) = 1
         /\ \A r \in RowsFor(U, i, color) : StepOf(U, i, r) = PolicyStep(q, U, i, color)
<1>1. PICK o \in Options(q, U, i) : color = Color(q, U, i, o)
  BY ColorsOfState
<1>2. RowsFor(U, i, color) = {o + 1}
  BY <1>1, RowOfColor
<1>3. StepOf(U, i, o + 1) = PolicyStep(q, U, i, color)
  BY <1>1, StepOfColor
<1>4. Cardinality({o + 1}) = 1
  BY FS_Singleton
<1> QED
  BY <1>2, <1>3, <1>4

LEMMA EntriesOfRow ==
  ASSUME NEW q \in Pomdps, NEW size \in Sizes(q), NEW U, Unfolding(q, size, U),
         NEW i \in DOMAIN U.rows, NEW r \in DOMAIN U.rows[i], NEW C, C = U.rows[i][r].columns
  PROVE  \A k \in 2..Len(C) : C[k - 1] < C[k]
<1>0. i \in DOMAIN U.states
  BY UnfoldedRows
<1> DEFINE o == r - 1
           a == ActionAt(q, U, i, o)
           u == UpdateAt(q, U, i, o)
           k == UpdatesAt(q, U, i)
           p == U.states[i].prototype
           row == Successors(q, U, i, o)
<1>1. NumRows(q, U, i) \in Nat \ {0} /\ r \in 1..NumRows(q, U, i)
  BY <1>0, StateFacts, RowsOfUnfolded
<1>2. o \in Options(q, U, i) /\ o + 1 = r
  BY <1>1 DEF Options
<1> HIDE DEF o
<1>3. /\ a \in 0..(Len(q.rows[p]) - 1) /\ u \in 0..(k - 1) /\ o = a * k + u /\ k \in Nat \ {0}
      /\ row \in SUBSET Prototypes(q) /\ row = q.rows[p][a + 1]
  BY <1>0, <1>2, OptionFacts DEF Successors
<1>4. RowsListed(q, size, U.states, p, k, U.rows[i])
  BY <1>0, RowsOfUnfolded DEF UpdatesAt
<1>5. U.rows[i][a * k + u + 1] =
        [action |-> a, memory |-> u, columns |-> Columns(q, size, U.states, row, u)]
  <2> HIDE DEF a, u, k, p
  <2> QED
    BY <1>3, <1>4 DEF RowsListed
<1> HIDE DEF a, u, k, p, row
<1>6. C = Columns(q, size, buildStateSpace(q, size), row, u)
  BY <1>2, <1>3, <1>5, UnfoldedTables
<1>7. C \in Seq(Nat) /\ \A j, l \in DOMAIN C : j < l => C[j] < C[l]
  <2>1. q \in Pomdps /\ size \in Sizes(q) /\ row \in SUBSET Prototypes(q) /\ u \in Nat
    BY <1>3
  <2>2. /\ C \in Seq(Nat)
        /\ \A j, l \in DOMAIN C : j < l => C[j] < C[l]
        /\ {buildStateSpace(q, size)[c] : c \in Range(C)} = {translateState(q, size, d, u) : d \in row}
    BY ONLY <2>1, <1>6, ColumnsOfRow, Zenon
  <2> QED
    BY <2>2
<1>8. ASSUME NEW l \in 2..Len(C)
      PROVE  C[l - 1] < C[l]
  <2>1. l \in DOMAIN C /\ l - 1 \in DOMAIN C /\ l - 1 < l
    BY <1>7
  <2> QED
    BY <1>7, <2>1
<1> QED
  BY <1>8

-----------------------------------------------------------------------------
(***************************************************************************)
(* More memory never loses a policy.                                       *)
(***************************************************************************)
(* The state that a state with more memory was.                            *)
Was(q, old, new, j) == IndexOf(old.states, Before(q, old, new.states[j]))

LEMMA BeforeType ==
  ASSUME NEW q \in Pomdps, NEW old \in Sizes(q), NEW new \in Sizes(q), NEW Uo, Unfolding(q, old, Uo),
         NEW s \in States(q, new)
  PROVE  /\ Before(q, Uo, s) \in States(q, old) /\ Before(q, Uo, s).prototype = s.prototype
         /\ Before(q, Uo, s).memory = IF s.memory < old[q.observation[s.prototype]] THEN s.memory ELSE 0
<1> DEFINE k == old[q.observation[s.prototype]]
<1>1. s \in [prototype : Prototypes(q), memory : Nat] /\ s.prototype \in Prototypes(q)
  BY DEF States
<1>2. Uo.size = old
  BY UnfoldedTables
<1>3. k \in Nat \ {0}
  BY <1>1, MemoryOfPrototype
<1>4. Before(q, Uo, s) = IF s.memory < k THEN s ELSE [s EXCEPT !.memory = 0]
  BY <1>2 DEF Before
<1>5. CASE s.memory < k
  BY <1>1, <1>4, <1>5 DEF States
<1>6. CASE ~ (s.memory < k)
  <2>1. Before(q, Uo, s) = [prototype |-> s.prototype, memory |-> 0]
    BY <1>1, <1>4, <1>6
  <2> QED
    BY <1>1, <1>3, <1>6, <2>1 DEF States
<1> QED
  BY <1>5, <1>6

LEMMA WasState ==
  ASSUME NEW q \in Pomdps, NEW old \in Sizes(q), NEW new \in Sizes(q),
         NEW Uo, Unfolding(q, old, Uo), NEW Un, Unfolding(q, new, Un), NEW j \in DOMAIN Un.states
  PROVE  /\ Was(q, Uo, Un, j) \in DOMAIN Uo.states
         /\ Uo.states[Was(q, Uo, Un, j)] = Before(q, Uo, Un.states[j])
         /\ ObservationAt(q, Uo, Was(q, Uo, Un, j)) = ObservationAt(q, Un, j)
<1> DEFINE s == Before(q, Uo, Un.states[j])
<1>1. Un.states[j] \in States(q, new)
  BY StateFacts
<1>2. s \in States(q, old) /\ s.prototype = Un.states[j].prototype
  BY <1>1, BeforeType
<1> HIDE DEF s
<1>3. /\ Place(q, old, s) \in DOMAIN buildStateSpace(q, old)
      /\ buildStateSpace(q, old)[Place(q, old, s)] = s
  BY <1>2, StatesInPlace
<1>4. Was(q, Uo, Un, j) = Place(q, old, s) /\ Uo.states = buildStateSpace(q, old)
  BY <1>2, IndexIsPlace, UnfoldedTables DEF Was, s
<1> QED
  BY <1>2, <1>3, <1>4 DEF ObservationAt, s

LEMMA HoleOfState ==
  ASSUME NEW q, NEW U, NEW i
  PROVE  HoleOf(q, U, i) = IF U.obs_to_holes[ObservationAt(q, U, i)] = << >> THEN {}
                           ELSE {U.obs_to_holes[ObservationAt(q, U, i)][U.states[i].memory + 1]}
BY DEF HoleOf, ObservationAt

(* States with the same hole have the same observation, and the same       *)
(* memory, before and after.                                               *)
LEMMA SameHole ==
  ASSUME NEW q \in Pomdps, NEW old \in Sizes(q), NEW new \in Sizes(q),
         NEW Uo, Unfolding(q, old, Uo), NEW Un, Unfolding(q, new, Un),
         NEW i \in DOMAIN Un.states, NEW j \in DOMAIN Un.states,
         j = i \/ (HoleOf(q, Un, i) # {} /\ HoleOf(q, Un, j) = HoleOf(q, Un, i))
  PROVE  /\ ObservationAt(q, Un, i) = ObservationAt(q, Un, j)
         /\ \A x : Color(q, Un, i, x) = Color(q, Un, j, x)
         /\ \A x : Color(q, Uo, Was(q, Uo, Un, i), x) = Color(q, Uo, Was(q, Uo, Un, j), x)
<1>1. CASE j = i
  BY <1>1
<1>2. CASE HoleOf(q, Un, i) # {} /\ HoleOf(q, Un, j) = HoleOf(q, Un, i)
  <2> DEFINE H == Un.obs_to_holes
             z == ObservationAt(q, Un, i)
             y == ObservationAt(q, Un, j)
             k == Un.states[i].memory
             l == Un.states[j].memory
  <2>1. /\ HoleOf(q, Un, i) = IF H[z] = << >> THEN {} ELSE {H[z][k + 1]}
        /\ HoleOf(q, Un, j) = IF H[y] = << >> THEN {} ELSE {H[y][l + 1]}
    BY HoleOfState
  <2>2. H[z] # << >> /\ H[y] # << >> /\ H[z][k + 1] = H[y][l + 1]
    <3> DEFINE hi == H[z][k + 1]
               hj == H[y][l + 1]
    <3> HIDE DEF H, z, y, k, l, hi, hj
    <3>1. H[z] # << >>
      BY <1>2, <2>1
    <3>2. H[y] # << >>
      BY <1>2, <2>1
    <3>3. {hi} = {hj}
      BY <1>2, <2>1, <3>1, <3>2 DEF hi, hj
    <3>4. hi = hj
      BY <3>3
    <3> QED
      BY <3>1, <3>2, <3>4 DEF hi, hj
  <2>3. /\ z \in Observations(q) /\ y \in Observations(q) /\ Un.updates \in Sizes(q)
        /\ k + 1 \in DOMAIN H[z] /\ l + 1 \in DOMAIN H[y]
        /\ Un.states[i] \in States(q, new) /\ Un.states[j] \in States(q, new)
    BY <2>2, StateFacts
  <2>4. k \in Nat /\ l \in Nat
    BY <2>3 DEF States
  <2>5. H = obs_to_holes(q, new, Un.updates)
    BY UnfoldedTables
  <2>6. z = y /\ k = l
    <3> HIDE DEF H, z, y, k, l
    <3>1. z = y /\ k + 1 = l + 1
      BY <2>2, <2>3, <2>5, HolesDistinct
    <3> QED
      BY <2>4, <3>1
  <2>7. /\ Before(q, Uo, Un.states[i]).memory = IF k < old[z] THEN k ELSE 0
        /\ Before(q, Uo, Un.states[j]).memory = IF l < old[y] THEN l ELSE 0
    BY <2>3, BeforeType DEF ObservationAt
  <2>8. Before(q, Uo, Un.states[i]).memory = Before(q, Uo, Un.states[j]).memory
    BY <2>6, <2>7
  <2>9. \A x : Color(q, Un, i, x) = Color(q, Un, j, x)
    BY <2>6 DEF Color
  <2>10. /\ ObservationAt(q, Uo, Was(q, Uo, Un, i)) = z
         /\ ObservationAt(q, Uo, Was(q, Uo, Un, j)) = y
         /\ Uo.states[Was(q, Uo, Un, i)] = Before(q, Uo, Un.states[i])
         /\ Uo.states[Was(q, Uo, Un, j)] = Before(q, Uo, Un.states[j])
    BY WasState
  <2>11. \A x : Color(q, Uo, Was(q, Uo, Un, i), x) = Color(q, Uo, Was(q, Uo, Un, j), x)
    <3> HIDE DEF z, y
    <3> QED
      BY <2>6, <2>8, <2>10 DEF Color
  <2> QED
    BY <2>6, <2>9, <2>11
<1> QED
  BY <1>1, <1>2

(* Memory that a state had before is what it would have been given.        *)
LEMMA BeforeTranslate ==
  ASSUME NEW q \in Pomdps, NEW old \in Sizes(q), NEW new \in Sizes(q), NEW Uo, Unfolding(q, old, Uo),
         \A z \in Observations(q) : old[z] <= new[z], NEW d \in Prototypes(q), NEW u \in Nat
  PROVE  Before(q, Uo, translateState(q, new, d, u)) = translateState(q, old, d, u)
<1> DEFINE ko == old[q.observation[d]]
           kn == new[q.observation[d]]
<1>1. ko \in Nat \ {0} /\ kn \in Nat \ {0} /\ ko <= kn
  BY MemoryOfPrototype, PrototypeFacts
<1>2. Uo.size = old
  BY UnfoldedTables
<1> HIDE DEF ko, kn
<1>3. translateState(q, new, d, u) = [prototype |-> d, memory |-> IF u >= kn THEN 0 ELSE u]
  BY DEF translateState, kn
<1>4. translateState(q, old, d, u) = [prototype |-> d, memory |-> IF u >= ko THEN 0 ELSE u]
  BY DEF translateState, ko
<1>5. \A m : Before(q, Uo, [prototype |-> d, memory |-> m]) =
               IF m < ko THEN [prototype |-> d, memory |-> m] ELSE [prototype |-> d, memory |-> 0]
  BY <1>2 DEF Before, ko
<1> QED
  BY <1>1, <1>3, <1>4, <1>5

LEMMA MemoryHelps ==
  ASSUME NEW q \in Pomdps, NEW old \in Sizes(q), NEW new \in Sizes(q),
         NEW Uo, Unfolding(q, old, Uo), NEW Un, Unfolding(q, new, Un),
         \A z \in Observations(q) : old[z] <= new[z]
  PROVE  Simulates(q, Un, Uo)
<1> DEFINE W(j) == Was(q, Uo, Un, j)
           Same(i) == {j \in DOMAIN Un.states :
                         j = i \/ (HoleOf(q, Un, i) # {} /\ HoleOf(q, Un, j) = HoleOf(q, Un, i))}
           Steps(j, o) == {Before(q, Uo, s) : s \in StepOf(Un, j, o)}
<1>1. ASSUME NEW i \in DOMAIN Un.states, NEW color \in Colors(q, Uo, W(i))
      PROVE  \E c \in Colors(q, Un, i) : \A j \in Same(i) :
               \A r \in RowsFor(Uo, W(j), color) : \E o \in RowsFor(Un, j, c) :
                 Steps(j, o) = StepOf(Uo, W(j), r)
  <2> DEFINE z == ObservationAt(q, Un, i)
             n == observation_actions(q, z)
             ko == Uo.updates[z]
             kn == Un.updates[z]
  <2>1. W(i) \in DOMAIN Uo.states /\ ObservationAt(q, Uo, W(i)) = z
    BY WasState
  <2>2. PICK x \in Options(q, Uo, W(i)) : color = Color(q, Uo, W(i), x)
    BY <2>1, ColorsOfState
  <2>3. ko \in Nat \ {0} /\ kn \in Nat \ {0} /\ n \in Nat \ {0} /\ ko <= kn
    <3>1. /\ z \in Observations(q) /\ Uo.updates \in Sizes(q) /\ Un.updates \in Sizes(q)
          /\ Uo.updates = max_successor_memory_size(q, old)
          /\ Un.updates = max_successor_memory_size(q, new)
      BY StateFacts, UnfoldedTables, MostMemory
    <3> QED
      BY <3>1, OptionsArePairs, MoreUpdates
  <2> DEFINE a == x \div ko
             u == x % ko
             y == a * kn + u
  <2>4. a \in 0..(n - 1) /\ u \in 0..(ko - 1) /\ y \in 0..(n * kn - 1) /\ y \div kn = a /\ y % kn = u
    <3>1. x \in 0..(n * ko - 1)
      BY <2>1, <2>2 DEF Options, NumRows
    <3> HIDE DEF n, ko, kn
    <3>2. a \in 0..(n - 1) /\ u \in 0..(ko - 1)
      BY <2>3, <3>1, DecodeRange
    <3> HIDE DEF a, u
    <3>3. u \in 0..(kn - 1) /\ a \in Nat
      BY <2>3, <3>2
    <3> QED
      BY <2>3, <3>2, <3>3, Encode, Decode
  <2> HIDE DEF a, u, y, z, n, ko, kn
  <2> DEFINE c == Color(q, Un, i, y)
  <2>5. c \in Colors(q, Un, i)
    <3>1. y \in Options(q, Un, i)
      BY <2>4 DEF Options, NumRows, z, n, kn
    <3> QED
      BY <3>1, ColorsOfState
  <2>6. ASSUME NEW j \in Same(i), NEW r \in RowsFor(Uo, W(j), color)
        PROVE  \E o \in RowsFor(Un, j, c) : Steps(j, o) = StepOf(Uo, W(j), r)
    <3>1. /\ j \in DOMAIN Un.states /\ ObservationAt(q, Un, j) = z
          /\ c = Color(q, Un, j, y) /\ color = Color(q, Uo, W(j), x)
      BY <2>2, SameHole DEF z
    <3>2. /\ W(j) \in DOMAIN Uo.states /\ ObservationAt(q, Uo, W(j)) = z
          /\ Uo.states[W(j)].prototype = Un.states[j].prototype
      <4>1. Un.states[j] \in States(q, new)
        BY <3>1, StateFacts
      <4> QED
        BY <3>1, <4>1, WasState, BeforeType
    <3> DEFINE w == W(j)
    <3> HIDE DEF W, Same
    <3>3. y \in Options(q, Un, j) /\ x \in Options(q, Uo, w)
      BY <2>1, <2>2, <2>4, <3>1, <3>2 DEF Options, NumRows, n, kn
    <3>4. RowsFor(Un, j, c) = {y + 1} /\ r = x + 1
      <4>1. RowsFor(Un, j, c) = {y + 1}
        BY <3>1, <3>3, RowOfColor
      <4>2. RowsFor(Uo, w, color) = {x + 1}
        BY <3>1, <3>2, <3>3, RowOfColor
      <4> QED
        BY <4>1, <4>2
    <3> DEFINE p == Un.states[j].prototype
               row == q.rows[p][a + 1]
    <3>5. StepOf(Un, j, y + 1) = {translateState(q, new, d, u) : d \in row}
      <4>1. StepOf(Un, j, y + 1) = Target(q, new, Un, j, y)
        BY <3>1, <3>3, StepOfRow
      <4>2. UpdateAt(q, Un, j, y) = u /\ Successors(q, Un, j, y) = row
        BY <2>4, <3>1 DEF UpdateAt, Successors, ActionAt, UpdatesAt, kn
      <4> HIDE DEF row
      <4> QED
        BY <4>1, <4>2 DEF Target
    <3>6. StepOf(Uo, w, x + 1) = {translateState(q, old, d, u) : d \in row}
      <4>1. StepOf(Uo, w, x + 1) = Target(q, old, Uo, w, x)
        BY <3>2, <3>3, StepOfRow
      <4>2. UpdateAt(q, Uo, w, x) = u /\ Successors(q, Uo, w, x) = row
        BY <3>2 DEF UpdateAt, Successors, ActionAt, UpdatesAt, ko, a, u
      <4> HIDE DEF row
      <4> QED
        BY <4>1, <4>2 DEF Target
    <3>7. row \in SUBSET Prototypes(q) /\ u \in Nat
      <4>1. Successors(q, Un, j, y) \in SUBSET Prototypes(q)
        BY <3>1, <3>3, OptionFacts
      <4>2. Successors(q, Un, j, y) = row
        BY <2>4, <3>1 DEF Successors, ActionAt, UpdatesAt, kn
      <4>3. u \in Nat
        BY <2>3, <2>4
      <4> QED
        BY <4>1, <4>2, <4>3
    <3> HIDE DEF row
    <3>8. \A d \in row : Before(q, Uo, translateState(q, new, d, u)) = translateState(q, old, d, u)
      BY <3>7, BeforeTranslate
    <3>9. Steps(j, y + 1) = StepOf(Uo, w, x + 1)
      BY <3>5, <3>6, <3>8
    <3> QED
      BY <3>4, <3>9
  <2> QED
    BY <2>5, <2>6
<1> QED
  BY <1>1 DEF Simulates, Was

-----------------------------------------------------------------------------
(***************************************************************************)
(* Breaking the symmetry.                                                  *)
(***************************************************************************)
LEMMA SmallRemainder ==
  ASSUME NEW k \in Nat \ {0}, NEW i \in 0..(k - 1)
  PROVE  i % k = i
<1>1. (0 * k + i) % k = i
  BY Decode
<1>2. 0 * k + i = i
  OBVIOUS
<1> QED
  BY <1>1, <1>2

(* What is dealt to the holes is all of the options, some to each.         *)
Dealt(D, holes, n) ==
  /\ D \in [1..holes -> SUBSET (0..(n - 1))]
  /\ \A x \in 0..(n - 1) : \E h \in 1..holes : x \in D[h]
  /\ \A h \in 1..holes : D[h] # {}

LEMMA DistributeFacts ==
  ASSUME NEW n \in Nat, NEW items \in SUBSET (0..(n - 1)), Cardinality(items) > 1,
         NEW holes \in Nat \ {0}, NEW ignored \in SUBSET (0..(n - 1)),
         ignored = (0..(n - 1)) \ items, NEW D, D = Distribute(items, holes, ignored)
  PROVE  /\ Dealt(D, holes, n)
         /\ holes > 1 => \A h \in 1..holes : ~ items \subseteq D[h]
<1> DEFINE c == Cardinality(items)
           A == Ascending(items)
           rounds == Greatest({c, holes})
           Turns(h) == {j \in 0..(rounds - 1) : j % holes = h - 1}
<1>1. IsFiniteSet(items) /\ items \in SUBSET Nat /\ c \in Nat \ {0} /\ c > 1
  <2>1. IsFiniteSet(0..(n - 1))
    BY FS_Interval
  <2>2. IsFiniteSet(items)
    BY <2>1, FS_Subset
  <2>3. c \in Nat
    BY <2>2, FS_CardinalityType
  <2>4. items \in SUBSET Nat
    OBVIOUS
  <2> HIDE DEF c
  <2>5. c > 1
    BY DEF c
  <2> QED
    BY <2>2, <2>3, <2>4, <2>5
<1>2. /\ A \in [1..c -> items]
      /\ \A x \in items : \E i \in 1..c : A[i] = x
      /\ \A i, j \in 1..c : i < j => A[i] < A[j]
  BY <1>1, AscendingSet
<1> HIDE DEF c, A
<1>3. rounds = IF c <= holes THEN holes ELSE c
  BY <1>1, GreatestOfTwo
<1> HIDE DEF rounds
<1>4. \A i, j \in 1..c : A[i] = A[j] => i = j
  <2>1. ASSUME NEW i \in 1..c, NEW j \in 1..c, A[i] = A[j], i < j
        PROVE  FALSE
    <3>1. A[i] < A[j] /\ A[i] \in Nat
      BY <1>1, <1>2, <2>1
    <3> QED
      BY <2>1, <3>1
  <2> QED
    BY <1>1, <2>1
<1>5. /\ DOMAIN D = 1..holes
      /\ \A h \in 1..holes : D[h] = ignored \cup {A[(i % c) + 1] : i \in Turns(h)}
      /\ D = [h \in 1..holes |-> D[h]]
  BY DEF Distribute, A, c, rounds
<1>5a. ASSUME NEW h \in 1..holes
       PROVE  /\ ignored \subseteq D[h]
              /\ \A i \in Turns(h) : A[(i % c) + 1] \in D[h]
              /\ \A x \in D[h] : x \in ignored \/ \E i \in Turns(h) : x = A[(i % c) + 1]
  <2>1. D[h] = ignored \cup {A[(i % c) + 1] : i \in Turns(h)}
    BY <1>5
  <2> DEFINE T == Turns(h)
             d == D[h]
  <2> HIDE DEF Turns, T, d
  <2>2. d = ignored \cup {A[(i % c) + 1] : i \in T}
    BY <2>1 DEF d, T
  <2>3. /\ ignored \subseteq d
        /\ \A i \in T : A[(i % c) + 1] \in d
        /\ \A x \in d : x \in ignored \/ \E i \in T : x = A[(i % c) + 1]
    BY <2>2
  <2> QED
    BY <2>3 DEF d, T
<1>6. \A i \in Nat : i % c \in 0..(c - 1) /\ (i % c) + 1 \in 1..c /\ i % holes \in 0..(holes - 1)
  <2> TAKE i \in Nat
  <2>1. i % c \in 0..(c - 1) /\ i % holes \in 0..(holes - 1)
    BY <1>1, Division
  <2> QED
    BY <1>1, <2>1
<1>7. ASSUME NEW h \in 1..holes
      PROVE  D[h] \in SUBSET (0..(n - 1)) /\ D[h] # {}
  <2>1. \A i \in Turns(h) : A[(i % c) + 1] \in items
    <3>1. \A i \in Turns(h) : i \in Nat
      BY <1>1, <1>3
    <3> HIDE DEF Turns
    <3> QED
      BY <1>2, <1>6, <3>1
  <2>2. h - 1 \in Turns(h)
    <3>1. h - 1 \in 0..(rounds - 1) /\ h - 1 \in 0..(holes - 1)
      BY <1>1, <1>3
    <3> QED
      BY <3>1, SmallRemainder
  <2> HIDE DEF Turns
  <2>3. D[h] # {}
    BY <1>5a, <2>2
  <2>4. \A x \in D[h] : x \in items \/ x \in ignored
    BY <1>5a, <2>1
  <2> QED
    BY <2>3, <2>4
<1>8. ASSUME NEW x \in items
      PROVE  \E h \in 1..holes : x \in D[h]
  <2>1. PICK j \in 1..c : A[j] = x
    BY <1>2
  <2>2. j - 1 \in 0..(c - 1) /\ j - 1 \in 0..(rounds - 1) /\ j - 1 \in Nat
    BY <1>1, <1>3
  <2>3. (j - 1) % c = j - 1 /\ (j - 1) + 1 = j
    <3> DEFINE i == j - 1
    <3>1. i \in 0..(c - 1) /\ i + 1 = j
      BY <1>1, <2>2
    <3> HIDE DEF i
    <3>2. i % c = i
      BY <1>1, <3>1, SmallRemainder
    <3> QED
      BY <3>1, <3>2 DEF i
  <2> DEFINE r == (j - 1) % holes
             h == r + 1
  <2>4. r \in 0..(holes - 1)
    BY <1>6, <2>2
  <2>5. h \in 1..holes /\ r = h - 1
    <3> HIDE DEF r
    <3> QED
      BY <2>4
  <2>6. j - 1 \in Turns(h)
    BY <2>2, <2>5
  <2> HIDE DEF h, r, Turns
  <2>7. A[((j - 1) % c) + 1] \in D[h]
    BY <1>5a, <2>5, <2>6
  <2> QED
    BY <2>1, <2>3, <2>5, <2>7
<1>9. ASSUME NEW x \in ignored
      PROVE  \E h \in 1..holes : x \in D[h]
  <2>1. 1 \in 1..holes
    OBVIOUS
  <2> QED
    BY <1>5a, <2>1
<1>10. Dealt(D, holes, n)
  <2>1. \A x \in 0..(n - 1) : x \in items \/ x \in ignored
    OBVIOUS
  <2>2. D \in [1..holes -> SUBSET (0..(n - 1))]
    BY <1>5, <1>7
  <2> QED
    BY <1>7, <1>8, <1>9, <2>1, <2>2 DEF Dealt
<1>11. ASSUME holes > 1, NEW h \in 1..holes
       PROVE  \E x \in items : x \notin D[h]
  <2>1. CASE c <= holes
    <3>1. PICK j \in 1..c : j # ((h - 1) % c) + 1
      <4>1. 1 \in 1..c /\ 2 \in 1..c
        BY <1>1
      <4> QED
        BY <4>1
    <3>2. \A i \in Turns(h) : i = h - 1
      <4>1. ASSUME NEW i \in Turns(h)
            PROVE  i = h - 1
        <5>1. i \in 0..(holes - 1) /\ i % holes = h - 1
          BY <1>3, <2>1
        <5> QED
          BY <5>1, SmallRemainder
      <4> QED
        BY <4>1
    <3>3. h - 1 \in Nat
      OBVIOUS
    <3> HIDE DEF Turns
    <3>4. A[j] # A[((h - 1) % c) + 1]
      BY <1>4, <1>6, <3>1, <3>3
    <3>5. A[j] \in items /\ A[j] \notin ignored
      BY <1>2, <3>1
    <3> QED
      BY <1>5a, <3>2, <3>4, <3>5
  <2>2. CASE ~ (c <= holes)
    <3>1. PICK j \in 0..1 : j # h - 1
      <4>1. 0 \in 0..1 /\ 1 \in 0..1
        OBVIOUS
      <4> QED
        BY <4>1
    <3>2. j \in 0..(c - 1) /\ j \in 0..(holes - 1) /\ j + 1 \in 1..c
      BY <1>1, <1>11
    <3>3. j % holes = j
      BY <3>2, SmallRemainder
    <3>4. \A i \in Turns(h) : i % c = i /\ i # j /\ i + 1 \in 1..c /\ i + 1 # j + 1
      <4>1. ASSUME NEW i \in Turns(h)
            PROVE  i % c = i /\ i # j /\ i + 1 \in 1..c /\ i + 1 # j + 1
        <5>1. i \in 0..(c - 1) /\ i % holes = h - 1
          BY <1>3, <2>2
        <5>2. i % c = i /\ i # j
          BY <1>1, <3>1, <3>3, <5>1, SmallRemainder
        <5> QED
          BY <1>1, <3>2, <5>1, <5>2
      <4> QED
        BY <4>1
    <3> HIDE DEF Turns
    <3>5. \A i \in Turns(h) : A[(i % c) + 1] # A[j + 1]
      <4> TAKE i \in Turns(h)
      <4>1. i % c = i /\ i + 1 \in 1..c /\ i + 1 # j + 1
        BY <3>4
      <4>2. A[i + 1] # A[j + 1]
        BY <1>4, <3>2, <4>1
      <4> QED
        BY <4>1, <4>2
    <3>6. A[j + 1] \in items /\ A[j + 1] \notin ignored
      BY <1>2, <3>2
    <3> QED
      BY <1>5a, <3>5, <3>6
  <2> QED
    BY <2>1, <2>2
<1> QED
  BY <1>10, <1>11

SelectedActions(q, U, inconsistent, z) ==
  LET holes == U.obs_to_holes[z]
      all   == 0..(observation_actions(q, z) - 1)
  IN  IF Cardinality(inconsistent.actions) > 1
      THEN Distribute(inconsistent.actions, Len(holes), all \ inconsistent.actions)
      ELSE [h \in DOMAIN holes |-> all]

SelectedUpdates(U, inconsistent, z) ==
  LET holes == U.obs_to_holes[z]
      all   == 0..(U.updates[z] - 1)
  IN  IF Cardinality(inconsistent.actions) <= 1 /\ Cardinality(inconsistent.updates) > 1
      THEN Distribute(inconsistent.updates, Len(holes), all \ inconsistent.updates)
      ELSE [h \in DOMAIN holes |-> all]

LEMMA AllDealt ==
  ASSUME NEW n \in Nat \ {0}, NEW holes \in Nat \ {0}, NEW D, D = [h \in 1..holes |-> 0..(n - 1)]
  PROVE  Dealt(D, holes, n)
<1>1. 1 \in 1..holes /\ 0 \in 0..(n - 1)
  OBVIOUS
<1> QED
  BY <1>1 DEF Dealt

LEMMA SelectedFacts ==
  ASSUME NEW q \in Pomdps, NEW size \in Sizes(q), NEW U, Unfolding(q, size, U),
         NEW z \in Observations(q), U.obs_to_holes[z] # << >>, NEW inc,
         inc.actions \in SUBSET (0..(observation_actions(q, z) - 1)),
         inc.updates \in SUBSET (0..(U.updates[z] - 1))
  PROVE  /\ Dealt(SelectedActions(q, U, inc, z), size[z], observation_actions(q, z))
         /\ Dealt(SelectedUpdates(U, inc, z), size[z], U.updates[z])
         /\ Cardinality(inc.actions) > 1 /\ size[z] > 1 =>
              \A m \in 1..size[z] : ~ inc.actions \subseteq SelectedActions(q, U, inc, z)[m]
<1> DEFINE holes == U.obs_to_holes[z]
           H == size[z]
           n == observation_actions(q, z)
           k == U.updates[z]
           SA == SelectedActions(q, U, inc, z)
           SU == SelectedUpdates(U, inc, z)
           as == inc.actions
           us == inc.updates
           otherAs == (0..(n - 1)) \ as
           otherUs == (0..(k - 1)) \ us
<1>1. U.updates \in Sizes(q) /\ U.obs_to_holes = obs_to_holes(q, size, U.updates)
  BY UnfoldedTables, MostMemory
<1>2. H \in Nat \ {0} /\ DOMAIN holes = 1..H /\ Len(holes) = H
  BY <1>1, HolesOfObservation
<1>3. n \in Nat \ {0} /\ k \in Nat \ {0}
  BY <1>1, OptionsArePairs
<1>4. SA = IF Cardinality(as) > 1 THEN Distribute(as, H, otherAs) ELSE [h \in 1..H |-> 0..(n - 1)]
  BY <1>2 DEF SelectedActions
<1>5. SU = IF Cardinality(as) <= 1 /\ Cardinality(us) > 1 THEN Distribute(us, H, otherUs)
           ELSE [h \in 1..H |-> 0..(k - 1)]
  BY <1>2 DEF SelectedUpdates
<1>6. as \in SUBSET (0..(n - 1)) /\ us \in SUBSET (0..(k - 1))
  OBVIOUS
<1>7. /\ otherAs \in SUBSET (0..(n - 1)) /\ otherAs = (0..(n - 1)) \ as
      /\ otherUs \in SUBSET (0..(k - 1)) /\ otherUs = (0..(k - 1)) \ us
  OBVIOUS
<1> HIDE DEF H, n, k, SA, SU, as, us, otherAs, otherUs, holes
<1>8. /\ Dealt(SA, H, n)
      /\ Cardinality(as) > 1 /\ H > 1 => \A m \in 1..H : ~ as \subseteq SA[m]
  <2>1. CASE Cardinality(as) > 1
    <3>1. SA = Distribute(as, H, otherAs)
      BY <1>4, <2>1
    <3>2. n \in Nat /\ H \in Nat \ {0}
      BY <1>2, <1>3
    <3>3. as \in SUBSET (0..(n - 1))
      BY <1>6
    <3>4. /\ Dealt(SA, H, n)
          /\ H > 1 => \A m \in 1..H : ~ as \subseteq SA[m]
      BY ONLY <1>7, <2>1, <3>1, <3>2, <3>3, DistributeFacts
    <3> QED
      BY <3>4
  <2>2. CASE ~ (Cardinality(as) > 1)
    <3>1. SA = [h \in 1..H |-> 0..(n - 1)]
      BY <1>4, <2>2
    <3> QED
      BY <1>2, <1>3, <2>2, <3>1, AllDealt
  <2> QED
    BY <2>1, <2>2
<1>9. Dealt(SU, H, k)
  <2>1. CASE Cardinality(as) <= 1 /\ Cardinality(us) > 1
    <3>1. SU = Distribute(us, H, otherUs)
      BY <1>5, <2>1
    <3> QED
      BY <1>2, <1>3, <1>6, <1>7, <2>1, <3>1, DistributeFacts
  <2>2. CASE ~ (Cardinality(as) <= 1 /\ Cardinality(us) > 1)
    <3>1. SU = [h \in 1..H |-> 0..(k - 1)]
      BY <1>5, <2>2
    <3> QED
      BY <1>2, <1>3, <3>1, AllDealt
  <2> QED
    BY <2>1, <2>2
<1> QED
  BY <1>8, <1>9 DEF SA, SU, H, n, k, as

(* The options that are left of a hole: selected actions and updates.      *)
Pairs(A, B, k) == {a * k + u : a \in A, u \in B}

LEMMA OptionsLeftAt ==
  ASSUME NEW q \in Pomdps, NEW size \in Sizes(q), NEW U, Unfolding(q, size, U), NEW inc,
         NEW z \in Observations(q), NEW m \in DOMAIN U.obs_to_holes[z],
         NEW h, h = U.obs_to_holes[z][m]
  PROVE  OptionsLeft(q, U, inc)[h] =
           Pairs(SelectedActions(q, U, inc[z], z)[m], SelectedUpdates(U, inc[z], z)[m], U.updates[z])
<1>1. h \in DOMAIN AllOptions(q, U) /\ ObservationOf(q, U, h) = z /\ IndexOf(U.obs_to_holes[z], h) = m
  BY HoleInPlace
<1>2. OptionsLeft(q, U, inc)[h] = BreakSymmetryAt(q, U, inc[z], z)[m]
  BY <1>1 DEF OptionsLeft
<1> DEFINE x == inc[z]
<1> HIDE DEF x
<1>3. BreakSymmetryAt(q, U, x, z)[m] =
        Pairs(SelectedActions(q, U, x, z)[m], SelectedUpdates(U, x, z)[m], U.updates[z])
  <2> DEFINE SA == SelectedActions(q, U, x, z)
             SU == SelectedUpdates(U, x, z)
  <2>1. BreakSymmetryAt(q, U, x, z) =
          [i \in DOMAIN U.obs_to_holes[z] |->
             {a * U.updates[z] + u : a \in SA[i], u \in SU[i]}]
    BY DEF BreakSymmetryAt, SelectedActions, SelectedUpdates
  <2> HIDE DEF SA, SU
  <2>2. BreakSymmetryAt(q, U, x, z)[m] = {a * U.updates[z] + u : a \in SA[m], u \in SU[m]}
    BY <2>1
  <2> QED
    BY <2>2 DEF Pairs, SA, SU
<1> QED
  BY <1>2, <1>3 DEF x

(* What pairs say about actions and updates.                               *)
LEMMA PairsFacts ==
  ASSUME NEW k \in Nat \ {0}, NEW A \in SUBSET Nat, NEW B \in SUBSET (0..(k - 1))
  PROVE  /\ B # {} => ActionsOf(Pairs(A, B, k), k) = A
         /\ A # {} => UpdatesOf(Pairs(A, B, k), k) = B
<1>1. ASSUME NEW a \in A, NEW u \in B
      PROVE  (a * k + u) \div k = a /\ (a * k + u) % k = u
  BY Decode
<1> DEFINE P == Pairs(A, B, k)
<1>3. /\ \A o \in P : \E a \in A : \E u \in B : o = a * k + u
      /\ \A a \in A : \A u \in B : a * k + u \in P
  BY DEF Pairs
<1> HIDE DEF P
<1>4. \A o \in P : o \div k \in A /\ o % k \in B
  BY <1>1, <1>3
<1>5. ASSUME B # {}
      PROVE  ActionsOf(P, k) = A
  <2>1. \A a \in A : \E o \in P : a = o \div k
    BY <1>1, <1>3, <1>5
  <2> QED
    BY <1>4, <2>1 DEF ActionsOf
<1>6. ASSUME A # {}
      PROVE  UpdatesOf(P, k) = B
  <2>1. \A u \in B : \E o \in P : u = o % k
    BY <1>1, <1>3, <1>6
  <2> QED
    BY <1>4, <2>1 DEF UpdatesOf
<1> QED
  BY <1>5, <1>6 DEF P

(* What a scheduler may have used: actions and updates that there are, and *)
(* two actions of a hole only where there are two holes by now.            *)
Consistent(q, size, U, inc) ==
  \A z \in Observations(q) :
    /\ inc[z].actions \in SUBSET (0..(observation_actions(q, z) - 1))
    /\ inc[z].updates \in SUBSET (0..(U.updates[z] - 1))
    /\ Cardinality(inc[z].actions) > 1 => size[z] > 1

LEMMA HoleLeft ==
  ASSUME NEW q \in Pomdps, NEW size \in Sizes(q), NEW U, Unfolding(q, size, U),
         NEW inc, Consistent(q, size, U, inc), NEW z \in Observations(q),
         NEW m \in DOMAIN U.obs_to_holes[z], NEW h, h = U.obs_to_holes[z][m],
         NEW A, A = SelectedActions(q, U, inc[z], z)[m],
         NEW B, B = SelectedUpdates(U, inc[z], z)[m],
         NEW F, F = OptionsLeft(q, U, inc)[h]
  PROVE  /\ F \subseteq AllOptions(q, U)[h] /\ F = Pairs(A, B, U.updates[z])
         /\ ActionsOf(F, U.updates[z]) = A /\ UpdatesOf(F, U.updates[z]) = B
         /\ Cardinality(inc[z].actions) > 1 => ~ inc[z].actions \subseteq A
<1> DEFINE H == size[z]
           n == observation_actions(q, z)
           k == U.updates[z]
           x == inc[z]
           SA == SelectedActions(q, U, x, z)
           SU == SelectedUpdates(U, x, z)
<1>1. U.updates \in Sizes(q) /\ U.obs_to_holes = obs_to_holes(q, size, U.updates)
  BY UnfoldedTables, MostMemory
<1>2. U.obs_to_holes[z] # << >>
  OBVIOUS
<1>3. m \in 1..H
  BY <1>1, <1>2, HolesOfObservation
<1>4. n \in Nat \ {0} /\ k \in Nat \ {0}
  BY <1>1, OptionsArePairs
<1>5. /\ x.actions \in SUBSET (0..(n - 1)) /\ x.updates \in SUBSET (0..(k - 1))
      /\ Cardinality(x.actions) > 1 => H > 1
  BY DEF Consistent
<1> HIDE DEF x
<1>6. /\ Dealt(SA, H, n) /\ Dealt(SU, H, k)
      /\ Cardinality(x.actions) > 1 /\ H > 1 => \A i \in 1..H : ~ x.actions \subseteq SA[i]
  BY <1>2, <1>5, SelectedFacts
<1>7. F = Pairs(A, B, k) /\ A = SA[m] /\ B = SU[m]
  BY OptionsLeftAt DEF x
<1> HIDE DEF H, SA, SU
<1>8. A \in SUBSET (0..(n - 1)) /\ B \in SUBSET (0..(k - 1)) /\ A # {} /\ B # {}
  BY <1>3, <1>6, <1>7 DEF Dealt
<1>9. AllOptions(q, U)[h] = 0..(n * k - 1)
  BY HoleInPlace
<1> HIDE DEF n, k
<1>10. Pairs(A, B, k) \subseteq 0..(n * k - 1) /\ ActionsOf(F, k) = A /\ UpdatesOf(F, k) = B
  <2>1. n \in Nat /\ k \in Nat \ {0}
    BY <1>4
  <2>2. Pairs(A, B, k) \subseteq 0..(n * k - 1)
    <3>1. ASSUME NEW a \in A, NEW u \in B
          PROVE  a * k + u \in 0..(n * k - 1)
      <4>1. a \in 0..(n - 1) /\ u \in 0..(k - 1)
        BY <1>8
      <4> QED
        BY <2>1, <4>1, Encode
    <3> QED
      BY <3>1 DEF Pairs
  <2>3. A \in SUBSET Nat
    BY <1>8, <2>1
  <2>4. ActionsOf(Pairs(A, B, k), k) = A /\ UpdatesOf(Pairs(A, B, k), k) = B
    BY ONLY <1>8, <2>1, <2>3, PairsFacts
  <2> QED
    BY ONLY <1>7, <2>2, <2>4
<1>11. Cardinality(x.actions) > 1 => ~ x.actions \subseteq A
  BY <1>3, <1>5, <1>6, <1>7
<1> QED
  BY ONLY <1>7, <1>9, <1>10, <1>11 DEF k, x

LEMMA LeftOfAll ==
  ASSUME NEW q \in Pomdps, NEW size \in Sizes(q), NEW U, Unfolding(q, size, U),
         NEW inc, Consistent(q, size, U, inc)
  PROVE  /\ DOMAIN OptionsLeft(q, U, inc) = DOMAIN AllOptions(q, U)
         /\ \A h \in DOMAIN AllOptions(q, U) : OptionsLeft(q, U, inc)[h] \subseteq AllOptions(q, U)[h]
<1>1. DOMAIN OptionsLeft(q, U, inc) = DOMAIN AllOptions(q, U)
  BY DEF OptionsLeft
<1>2. ASSUME NEW h \in DOMAIN AllOptions(q, U)
      PROVE  OptionsLeft(q, U, inc)[h] \subseteq AllOptions(q, U)[h]
  <2>1. PICK z \in Observations(q) : \E m \in DOMAIN U.obs_to_holes[z] : h = U.obs_to_holes[z][m]
    BY HoleSomewhere
  <2>2. PICK m \in DOMAIN U.obs_to_holes[z] : h = U.obs_to_holes[z][m]
    BY <2>1
  <2> QED
    BY <2>2, HoleLeft
<1> QED
  BY <1>1, <1>2

(* The options that are left of an observation's holes.                    *)
IsLeft(U, z, F, left) == \A o : o \in left <=> \E h \in Range(U.obs_to_holes[z]) : o \in F[h]

LEMMA SymmetryBrokenAt ==
  ASSUME NEW q \in Pomdps, NEW size \in Sizes(q), NEW U, Unfolding(q, size, U),
         NEW inc, Consistent(q, size, U, inc), NEW z \in Observations(q), U.obs_to_holes[z] # << >>,
         NEW F, F = OptionsLeft(q, U, inc),
         NEW left, IsLeft(U, z, F, left)
  PROVE  /\ ActionsOf(left, U.updates[z]) = 0..(observation_actions(q, z) - 1)
         /\ UpdatesOf(left, U.updates[z]) = 0..(U.updates[z] - 1)
         /\ Cardinality(inc[z].actions) > 1 =>
              \A h \in Range(U.obs_to_holes[z]) : ~ inc[z].actions \subseteq ActionsOf(F[h], U.updates[z])
<1> DEFINE H == size[z]
           n == observation_actions(q, z)
           k == U.updates[z]
           holes == U.obs_to_holes[z]
           x == inc[z]
           SA == SelectedActions(q, U, x, z)
           SU == SelectedUpdates(U, x, z)
<1>1. U.updates \in Sizes(q) /\ U.obs_to_holes = obs_to_holes(q, size, U.updates)
  BY UnfoldedTables, MostMemory
<1>2. DOMAIN holes = 1..H
  BY <1>1, HolesOfObservation
<1>3. x.actions \in SUBSET (0..(n - 1)) /\ x.updates \in SUBSET (0..(k - 1))
  BY DEF Consistent
<1>4. Dealt(SA, H, n) /\ Dealt(SU, H, k)
  <2> HIDE DEF x
  <2> QED
    BY <1>3, SelectedFacts
<1>5. ASSUME NEW m \in 1..H
      PROVE  /\ F[holes[m]] = Pairs(SA[m], SU[m], k)
             /\ ActionsOf(F[holes[m]], k) = SA[m] /\ UpdatesOf(F[holes[m]], k) = SU[m]
             /\ Cardinality(x.actions) > 1 => ~ x.actions \subseteq SA[m]
  <2> DEFINE h == holes[m]
             A == SA[m]
             B == SU[m]
             G == F[h]
  <2>1. m \in DOMAIN U.obs_to_holes[z] /\ h = U.obs_to_holes[z][m]
    BY <1>2
  <2>2. /\ A = SelectedActions(q, U, inc[z], z)[m] /\ B = SelectedUpdates(U, inc[z], z)[m]
        /\ G = OptionsLeft(q, U, inc)[h]
    OBVIOUS
  <2> HIDE DEF h, A, B, G, x, SA, SU, holes
  <2>3. /\ G = Pairs(A, B, U.updates[z])
        /\ ActionsOf(G, U.updates[z]) = A /\ UpdatesOf(G, U.updates[z]) = B
        /\ Cardinality(inc[z].actions) > 1 => ~ inc[z].actions \subseteq A
    BY <2>1, <2>2, HoleLeft
  <2> QED
    BY ONLY <2>3 DEF h, A, B, G, x, k
<1> HIDE DEF H, n, k, SA, SU, x, holes
<1>6. Range(holes) = {holes[m] : m \in 1..H}
  BY <1>2 DEF Range
<1>7. \A o : o \in left <=> \E m \in 1..H : o \in F[holes[m]]
  BY <1>6 DEF IsLeft, holes
<1>8. ActionsOf(left, k) = UNION {SA[m] : m \in 1..H}
  <2>1. \A a : a \in ActionsOf(left, k) <=> \E o \in left : a = o \div k
    BY DEF ActionsOf
  <2>2. \A m \in 1..H : \A a : a \in SA[m] <=> \E o \in F[holes[m]] : a = o \div k
    BY <1>5 DEF ActionsOf
  <2>3. \A a : a \in UNION {SA[m] : m \in 1..H} <=> \E m \in 1..H : a \in SA[m]
    OBVIOUS
  <2> QED
    BY ONLY <1>7, <2>1, <2>2, <2>3
<1>9. UpdatesOf(left, k) = UNION {SU[m] : m \in 1..H}
  <2>1. \A u : u \in UpdatesOf(left, k) <=> \E o \in left : u = o % k
    BY DEF UpdatesOf
  <2>2. \A m \in 1..H : \A u : u \in SU[m] <=> \E o \in F[holes[m]] : u = o % k
    BY <1>5 DEF UpdatesOf
  <2>3. \A u : u \in UNION {SU[m] : m \in 1..H} <=> \E m \in 1..H : u \in SU[m]
    OBVIOUS
  <2> QED
    BY ONLY <1>7, <2>1, <2>2, <2>3
<1>10. UNION {SA[m] : m \in 1..H} = 0..(n - 1) /\ UNION {SU[m] : m \in 1..H} = 0..(k - 1)
  <2>1. ASSUME NEW D, NEW l, Dealt(D, H, l)
        PROVE  UNION {D[m] : m \in 1..H} = 0..(l - 1)
    BY <2>1 DEF Dealt
  <2> QED
    BY <1>4, <2>1
<1>11. Cardinality(x.actions) > 1 => \A h \in Range(holes) : ~ x.actions \subseteq ActionsOf(F[h], k)
  BY <1>5, <1>6
<1> QED
  BY <1>8, <1>9, <1>10, <1>11 DEF n, k, x, holes

-----------------------------------------------------------------------------
(***************************************************************************)
(* The inductive invariant.                                                *)
(***************************************************************************)
Types ==
  /\ pomdp \in Pomdps
  /\ observation_memory_size \in Sizes(pomdp)
  /\ inconsistencies \in [Observations(pomdp) -> [actions : SUBSET Nat, updates : SUBSET Nat]]
  /\ strategy \in {"iterative", "expected"}
  /\ pc \in {"set", "unfold", "restrict", "solve", "done"}

(* What is recorded of an observation was an option when its memory was    *)
(* unfolded, and two actions brought it a second memory state.             *)
Recorded ==
  \A z \in Observations(pomdp) :
    /\ inconsistencies[z].actions \in SUBSET (0..(observation_actions(pomdp, z) - 1))
    /\ inconsistencies[z].updates \in
         SUBSET (0..(max_successor_memory_size(pomdp, observation_memory_size)[z] - 1))
    /\ Cardinality(inconsistencies[z].actions) > 1 => observation_memory_size[z] > 1

(* The tables are those of memory sizes that have only grown since.        *)
Tables ==
  unfolded # None =>
    /\ unfolded.size \in Sizes(pomdp)
    /\ Unfolding(pomdp, unfolded.size, unfolded)
    /\ \A z \in Observations(pomdp) : unfolded.size[z] <= observation_memory_size[z]
    /\ DOMAIN family = DOMAIN AllOptions(pomdp, unfolded)
    /\ \A h \in DOMAIN family : family[h] \subseteq AllOptions(pomdp, unfolded)[h]

(* Where the sizes are those of the tables, and where they are all equal.  *)
Phases ==
  /\ strategy = "iterative" => pc \in {"set", "unfold"}
  /\ pc = "set" \/ strategy = "iterative" =>
       \A z \in Observations(pomdp) : observation_memory_size[z] = observation_memory_size[1]
  /\ pc = "set" /\ unfolded = None => observation_memory_size[1] = 1
  /\ pc \in {"set", "restrict", "solve"} /\ unfolded # None =>
       unfolded.size = observation_memory_size
  /\ pc \in {"restrict", "solve"} => unfolded # None
  /\ pc = "solve" => family = OptionsLeft(pomdp, unfolded, inconsistencies)

IInv == Types /\ Recorded /\ Tables /\ Phases

LEMMA SizesAreNumbers ==
  ASSUME NEW q \in Pomdps, NEW size \in Sizes(q), NEW z \in Observations(q)
  PROVE  /\ size[z] \in 1..MaxMemory /\ size[z] \in Nat \ {0} /\ MaxMemory \in Nat \ {0}
         /\ 1 \in Observations(q)
<1>1. 1 \in Observations(q)
  <2>1. q.observations \in Nat \ {0}
    BY PomdpFacts
  <2> QED
    BY <2>1 DEF Observations
<1> QED
  BY <1>1, PomdpsAssumption DEF Sizes

LEMMA InitInv == Init => IInv
<1> SUFFICES ASSUME Init
             PROVE  IInv
  OBVIOUS
<1>1. /\ pomdp \in Pomdps /\ observation_memory_size = [z \in Observations(pomdp) |-> 1]
      /\ unfolded = None /\ pc = "set" /\ strategy \in {"iterative", "expected"}
      /\ inconsistencies = [z \in Observations(pomdp) |-> [actions |-> {}, updates |-> {}]]
  BY DEF Init
<1>2. observation_memory_size \in Sizes(pomdp)
  BY <1>1, PomdpsAssumption DEF Sizes
<1>3. 1 \in Observations(pomdp)
  <2>1. pomdp.observations \in Nat \ {0}
    BY <1>1, PomdpFacts
  <2> QED
    BY <2>1 DEF Observations
<1>4. Types
  <2>1. inconsistencies \in [Observations(pomdp) -> [actions : SUBSET Nat, updates : SUBSET Nat]]
    BY <1>1
  <2> QED
    BY <1>1, <1>2, <2>1 DEF Types
<1>5. Recorded
  <2>1. \A z \in Observations(pomdp) : inconsistencies[z].actions = {} /\ inconsistencies[z].updates = {}
    BY <1>1
  <2>2. \A z \in Observations(pomdp) : Cardinality(inconsistencies[z].actions) = 0
    <3>1. Cardinality({}) = 0
      BY FS_EmptySet
    <3> QED
      BY <2>1, <3>1
  <2>3. \A z \in Observations(pomdp) : ~ (Cardinality(inconsistencies[z].actions) > 1)
    BY <2>2
  <2>4. \A S : {} \in SUBSET S
    OBVIOUS
  <2> QED
    BY <2>1, <2>3, <2>4 DEF Recorded
<1>6. Tables
  BY <1>1 DEF Tables
<1>7. Phases
  BY <1>1, <1>3 DEF Phases
<1> QED
  BY <1>4, <1>5, <1>6, <1>7 DEF IInv

(* What was recorded stays an option when the memory grows.                *)
LEMMA RecordedGrows ==
  ASSUME NEW q \in Pomdps, NEW old \in Sizes(q), NEW new \in Sizes(q),
         \A z \in Observations(q) : old[z] <= new[z], NEW z \in Observations(q),
         NEW S, S \in SUBSET (0..(max_successor_memory_size(q, old)[z] - 1))
  PROVE  S \in SUBSET (0..(max_successor_memory_size(q, new)[z] - 1))
<1>1. /\ max_successor_memory_size(q, old) \in Sizes(q)
      /\ max_successor_memory_size(q, new) \in Sizes(q)
  BY MostMemory
<1> DEFINE a == max_successor_memory_size(q, old)[z]
           b == max_successor_memory_size(q, new)[z]
<1>2. a \in Nat /\ b \in Nat /\ a <= b
  <2>1. a \in Nat /\ b \in Nat
    BY <1>1, SizesAreNumbers
  <2>2. a <= b
    BY MoreUpdates
  <2> QED
    BY <2>1, <2>2
<1>3. S \in SUBSET (0..(a - 1))
  OBVIOUS
<1> HIDE DEF a, b
<1>4. S \in SUBSET (0..(b - 1))
  BY <1>2, <1>3
<1> QED
  BY <1>4 DEF b

LEMMA SetMemorySizeInv == IInv /\ SetMemorySize => IInv'
<1> SUFFICES ASSUME IInv, SetMemorySize
             PROVE  IInv'
  OBVIOUS
<1>1. Types /\ Recorded /\ Tables /\ Phases
  BY DEF IInv
<1>2. /\ pc = "set" /\ pc' = "unfold"
      /\ pomdp' = pomdp /\ unfolded' = unfolded /\ family' = family
      /\ inconsistencies' = inconsistencies /\ strategy' = strategy
  BY DEF SetMemorySize
<1>3. PICK n \in 1..MaxMemory :
        /\ unfolded = None => n = 1
        /\ unfolded # None => n = unfolded.size[1] + 1
        /\ observation_memory_size' = [z \in Observations(pomdp) |-> n]
  BY DEF SetMemorySize
<1> DEFINE old == observation_memory_size
           new == observation_memory_size'
<1>4. pomdp \in Pomdps /\ old \in Sizes(pomdp)
  BY <1>1 DEF Types
<1>5. new \in Sizes(pomdp) /\ \A z \in Observations(pomdp) : new[z] = n
  BY <1>3 DEF Sizes
<1>6. 1 \in Observations(pomdp) /\ MaxMemory \in Nat \ {0} /\ old[1] \in Nat
  <2>1. 1 \in Observations(pomdp)
    <3>1. pomdp.observations \in Nat \ {0}
      BY <1>4, PomdpFacts
    <3> QED
      BY <3>1 DEF Observations
  <2> QED
    BY <1>4, <2>1, SizesAreNumbers
<1>7. \A z \in Observations(pomdp) : old[z] = old[1]
  BY <1>1, <1>2 DEF Phases
<1>8. old[1] <= n
  <2>1. CASE unfolded = None
    <3>1. old[1] = 1 /\ n = 1
      BY <1>1, <1>2, <1>3, <2>1 DEF Phases
    <3> QED
      BY <3>1
  <2>2. CASE unfolded # None
    <3>1. n = old[1] + 1
      BY <1>1, <1>2, <1>3, <2>2 DEF Phases
    <3> QED
      BY <1>6, <3>1
  <2> QED
    BY <2>1, <2>2
<1> HIDE DEF old, new
<1>9. \A z \in Observations(pomdp) : old[z] <= new[z]
  BY <1>5, <1>7, <1>8
<1>10. Types'
  BY <1>1, <1>2, <1>5 DEF Types, new
<1>11. Recorded'
  <2> SUFFICES ASSUME NEW z \in Observations(pomdp)
               PROVE  /\ inconsistencies[z].actions \in SUBSET (0..(observation_actions(pomdp, z) - 1))
                      /\ inconsistencies[z].updates \in
                           SUBSET (0..(max_successor_memory_size(pomdp, new)[z] - 1))
                      /\ Cardinality(inconsistencies[z].actions) > 1 => new[z] > 1
    BY <1>2 DEF Recorded, new
  <2>1. /\ inconsistencies[z].actions \in SUBSET (0..(observation_actions(pomdp, z) - 1))
        /\ inconsistencies[z].updates \in SUBSET (0..(max_successor_memory_size(pomdp, old)[z] - 1))
        /\ Cardinality(inconsistencies[z].actions) > 1 => old[z] > 1
    BY <1>1 DEF Recorded, old
  <2>2. inconsistencies[z].updates \in SUBSET (0..(max_successor_memory_size(pomdp, new)[z] - 1))
    <3> DEFINE S == inconsistencies[z].updates
    <3>1. S \in SUBSET (0..(max_successor_memory_size(pomdp, old)[z] - 1))
      BY <2>1
    <3> HIDE DEF S
    <3>2. S \in SUBSET (0..(max_successor_memory_size(pomdp, new)[z] - 1))
      BY <1>4, <1>5, <1>9, <3>1, RecordedGrows
    <3> QED
      BY <3>2 DEF S
  <2>3. old[z] > 1 => new[z] > 1
    <3>1. old[z] \in Nat /\ new[z] \in Nat /\ old[z] <= new[z]
      BY <1>4, <1>5, <1>9, SizesAreNumbers
    <3> QED
      BY <3>1
  <2> QED
    BY <2>1, <2>2, <2>3
<1>12. Tables'
  <2> SUFFICES ASSUME unfolded # None
               PROVE  \A z \in Observations(pomdp) : unfolded.size[z] <= new[z]
    BY <1>1, <1>2 DEF Tables, new
  <2>1. unfolded.size = old
    BY <1>1, <1>2 DEF Phases, old
  <2> QED
    BY <1>9, <2>1
<1>13. Phases'
  <2>1. \A z \in Observations(pomdp) : new[z] = new[1]
    BY <1>5, <1>6
  <2> QED
    BY <1>1, <1>2, <2>1 DEF Phases, new
<1> QED
  BY <1>10, <1>11, <1>12, <1>13 DEF IInv

LEMMA UnfoldMemoryInv == IInv /\ UnfoldMemory => IInv'
<1> SUFFICES ASSUME IInv, UnfoldMemory
             PROVE  IInv'
  OBVIOUS
<1>1. Types /\ Recorded /\ Tables /\ Phases
  BY DEF IInv
<1>2. /\ pc = "unfold" /\ unfolded' = Unfold(pomdp, observation_memory_size)
      /\ family' = AllOptions(pomdp, unfolded')
      /\ pc' = IF strategy = "iterative" THEN "set" ELSE "restrict"
      /\ pomdp' = pomdp /\ observation_memory_size' = observation_memory_size
      /\ inconsistencies' = inconsistencies /\ strategy' = strategy
  BY DEF UnfoldMemory
<1>3. pomdp \in Pomdps /\ observation_memory_size \in Sizes(pomdp)
  BY <1>1 DEF Types
<1>4. /\ unfolded' # None /\ unfolded'.size = observation_memory_size
      /\ Unfolding(pomdp, observation_memory_size, unfolded')
  <2>1. Unfolding(pomdp, observation_memory_size, unfolded')
    BY <1>2 DEF Unfolding
  <2>2. unfolded' # None
    BY <1>2, <1>3, UnfoldedAssumption DEF Sizes
  <2> QED
    BY <2>1, <2>2, UnfoldedTables
<1>5. Types'
  BY <1>1, <1>2 DEF Types
<1>6. Recorded'
  BY <1>1, <1>2 DEF Recorded
<1>7. Tables'
  <2>1. \A z \in Observations(pomdp) : observation_memory_size[z] <= observation_memory_size[z]
    BY <1>3, SizesAreNumbers
  <2> QED
    BY <1>2, <1>3, <1>4, <2>1 DEF Tables
<1>8. Phases'
  BY <1>1, <1>2, <1>4 DEF Phases, Types
<1> QED
  BY <1>5, <1>6, <1>7, <1>8 DEF IInv

LEMMA RecordedConsistent ==
  ASSUME IInv, pc \in {"restrict", "solve"}
  PROVE  /\ pomdp \in Pomdps /\ unfolded.size = observation_memory_size
         /\ observation_memory_size \in Sizes(pomdp) /\ unfolded # None
         /\ Unfolding(pomdp, observation_memory_size, unfolded)
         /\ unfolded.updates = max_successor_memory_size(pomdp, observation_memory_size)
         /\ Consistent(pomdp, observation_memory_size, unfolded, inconsistencies)
<1>1. Types /\ Recorded /\ Tables /\ Phases
  BY DEF IInv
<1>2. unfolded # None /\ unfolded.size = observation_memory_size
  BY <1>1 DEF Phases
<1>3. Unfolding(pomdp, observation_memory_size, unfolded)
  BY <1>1, <1>2 DEF Tables
<1>4. unfolded.updates = max_successor_memory_size(pomdp, observation_memory_size)
  BY <1>3, UnfoldedTables
<1>5. Consistent(pomdp, observation_memory_size, unfolded, inconsistencies)
  BY <1>1, <1>4 DEF Recorded, Consistent
<1> QED
  BY <1>1, <1>2, <1>3, <1>4, <1>5 DEF Types

LEMMA BreakSymmetryInv == IInv /\ BreakSymmetry => IInv'
<1> SUFFICES ASSUME IInv, BreakSymmetry
             PROVE  IInv'
  OBVIOUS
<1>1. Types /\ Recorded /\ Tables /\ Phases
  BY DEF IInv
<1>2. /\ pc = "restrict" /\ pc' = "solve"
      /\ family' = OptionsLeft(pomdp, unfolded, inconsistencies)
      /\ pomdp' = pomdp /\ observation_memory_size' = observation_memory_size
      /\ unfolded' = unfolded /\ inconsistencies' = inconsistencies /\ strategy' = strategy
  BY DEF BreakSymmetry
<1>3. /\ DOMAIN family' = DOMAIN AllOptions(pomdp, unfolded)
      /\ \A h \in DOMAIN family' : family'[h] \subseteq AllOptions(pomdp, unfolded)[h]
  BY <1>2, RecordedConsistent, LeftOfAll
<1>4. Types'
  BY <1>1, <1>2 DEF Types
<1>5. Recorded'
  BY <1>1, <1>2 DEF Recorded
<1>6. Tables'
  BY <1>1, <1>2, <1>3 DEF Tables
<1>7. Phases'
  BY <1>1, <1>2 DEF Phases
<1> QED
  BY <1>4, <1>5, <1>6, <1>7 DEF IInv

LEMMA StopInv == IInv /\ Stop => IInv'
<1> SUFFICES ASSUME IInv, Stop
             PROVE  IInv'
  OBVIOUS
<1>1. Types /\ Recorded /\ Tables /\ Phases
  BY DEF IInv
<1>2. /\ pc = "solve" /\ pc' = "done" /\ family' = family
      /\ pomdp' = pomdp /\ observation_memory_size' = observation_memory_size
      /\ unfolded' = unfolded /\ inconsistencies' = inconsistencies /\ strategy' = strategy
  BY DEF Stop
<1>3. Types'
  BY <1>1, <1>2 DEF Types
<1>4. Recorded'
  BY <1>1, <1>2 DEF Recorded
<1>5. Tables'
  BY <1>1, <1>2 DEF Tables
<1>6. Phases'
  BY <1>1, <1>2 DEF Phases
<1> QED
  BY <1>3, <1>4, <1>5, <1>6 DEF IInv

(* The actions and updates of options that are left.                       *)
LEMMA ScoredOptions ==
  ASSUME NEW q \in Pomdps, NEW size \in Sizes(q), NEW U, Unfolding(q, size, U),
         NEW z \in Observations(q), NEW h \in Range(U.obs_to_holes[z]),
         NEW selected, selected \subseteq AllOptions(q, U)[h]
  PROVE  /\ ActionsOf(selected, U.updates[z]) \in SUBSET (0..(observation_actions(q, z) - 1))
         /\ UpdatesOf(selected, U.updates[z]) \in SUBSET (0..(U.updates[z] - 1))
<1> DEFINE n == observation_actions(q, z)
           k == U.updates[z]
<1>1. PICK m \in DOMAIN U.obs_to_holes[z] : h = U.obs_to_holes[z][m]
  BY DEF Range
<1>2. AllOptions(q, U)[h] = 0..(n * k - 1)
  BY <1>1, HoleInPlace
<1>3. U.updates \in Sizes(q)
  BY UnfoldedTables, MostMemory
<1>4. n \in Nat \ {0} /\ k \in Nat \ {0}
  BY <1>3, OptionsArePairs
<1>5. selected \subseteq 0..(n * k - 1)
  BY <1>2
<1> HIDE DEF n, k
<1>6. \A o \in selected : o \div k \in 0..(n - 1) /\ o % k \in 0..(k - 1)
  <2>1. ASSUME NEW o \in selected
        PROVE  o \div k \in 0..(n - 1) /\ o % k \in 0..(k - 1)
    <3>1. o \in 0..(n * k - 1) /\ n \in Nat
      BY <1>4, <1>5
    <3> QED
      BY <1>4, <3>1, DecodeRange
  <2> QED
    BY <2>1
<1>7. ActionsOf(selected, k) \in SUBSET (0..(n - 1)) /\ UpdatesOf(selected, k) \in SUBSET (0..(k - 1))
  BY <1>6 DEF ActionsOf, UpdatesOf
<1> QED
  BY <1>7 DEF n, k

LEMMA InjectMemoryInv == IInv /\ InjectMemory => IInv'
<1> SUFFICES ASSUME IInv, InjectMemory
             PROVE  IInv'
  OBVIOUS
<1> DEFINE old == observation_memory_size
           new == observation_memory_size'
           U == unfolded
           inc == inconsistencies
<1>1. Types /\ Recorded /\ Tables /\ Phases
  BY DEF IInv
<1>2. /\ pc = "solve" /\ pc' = "unfold" /\ pomdp' = pomdp /\ unfolded' = unfolded
      /\ family' = family /\ strategy' = strategy
  BY DEF InjectMemory
<1> DEFINE Injected(z, h, selected) ==
             /\ old[z] < MaxMemory
             /\ new = [old EXCEPT ![z] = @ + 1]
             /\ inc' =
                  IF Cardinality(selected) <= 1 THEN inc
                  ELSE IF Cardinality(ActionsOf(selected, U.updates[z])) > 1
                  THEN [inc EXCEPT ![z].actions = @ \cup ActionsOf(selected, U.updates[z])]
                  ELSE [inc EXCEPT ![z].updates = @ \cup UpdatesOf(selected, U.updates[z])]
<1>3a. \E z \in Observations(pomdp) : \E h \in Range(U.obs_to_holes[z]) :
         \E selected \in SUBSET family[h] : Injected(z, h, selected)
  BY DEF InjectMemory
<1>3b. PICK z \in Observations(pomdp) : \E h \in Range(U.obs_to_holes[z]) :
         \E selected \in SUBSET family[h] : Injected(z, h, selected)
  BY <1>3a
<1>3c. PICK h \in Range(U.obs_to_holes[z]) : \E selected \in SUBSET family[h] : Injected(z, h, selected)
  BY <1>3b
<1>3. PICK selected \in SUBSET family[h] : Injected(z, h, selected)
  BY <1>3c
<1>4. /\ pomdp \in Pomdps /\ old \in Sizes(pomdp) /\ U # None /\ U.size = old
      /\ Unfolding(pomdp, old, U) /\ U.updates = max_successor_memory_size(pomdp, old)
  BY <1>2, RecordedConsistent
<1> DEFINE A == ActionsOf(selected, U.updates[z])
           B == UpdatesOf(selected, U.updates[z])
<1>5. /\ A \in SUBSET (0..(observation_actions(pomdp, z) - 1))
      /\ B \in SUBSET (0..(max_successor_memory_size(pomdp, old)[z] - 1))
  <2>1. selected \subseteq AllOptions(pomdp, U)[h]
    <3>1. h \in DOMAIN AllOptions(pomdp, U)
      BY DEF AllOptions
    <3>2. /\ DOMAIN family = DOMAIN AllOptions(pomdp, U)
          /\ \A g \in DOMAIN family : family[g] \subseteq AllOptions(pomdp, U)[g]
      BY <1>1, <1>4 DEF Tables
    <3> QED
      BY <3>1, <3>2
  <2> HIDE DEF U
  <2>2. /\ A \in SUBSET (0..(observation_actions(pomdp, z) - 1))
        /\ B \in SUBSET (0..(U.updates[z] - 1))
    BY <1>4, <2>1, ScoredOptions
  <2> QED
    BY <1>4, <2>2
<1> HIDE DEF A, B, U, old, new, inc
<1>6. /\ new \in Sizes(pomdp) /\ new[z] = old[z] + 1
      /\ \A y \in Observations(pomdp) : old[y] <= new[y] /\ (y # z => new[y] = old[y])
  <2>1. /\ old \in [Observations(pomdp) -> 1..MaxMemory] /\ MaxMemory \in Nat
        /\ \A y \in Observations(pomdp) : old[y] \in Nat
    BY <1>4, SizesAreNumbers DEF Sizes
  <2>2. old[z] + 1 \in 1..MaxMemory
    BY <1>3, <2>1
  <2>3. new = [old EXCEPT ![z] = old[z] + 1]
    BY <1>3
  <2> QED
    BY <2>1, <2>2, <2>3 DEF Sizes
<1>7. /\ inc \in [Observations(pomdp) -> [actions : SUBSET Nat, updates : SUBSET Nat]]
      /\ \A y \in Observations(pomdp) :
           /\ inc[y].actions \in SUBSET (0..(observation_actions(pomdp, y) - 1))
           /\ inc[y].updates \in SUBSET (0..(max_successor_memory_size(pomdp, old)[y] - 1))
           /\ Cardinality(inc[y].actions) > 1 => old[y] > 1
  BY <1>1 DEF Types, Recorded, inc, old
<1>8. /\ inc' \in [Observations(pomdp) -> [actions : SUBSET Nat, updates : SUBSET Nat]]
      /\ \A y \in Observations(pomdp) :
           /\ y # z => inc'[y] = inc[y]
           /\ inc'[y].actions \in SUBSET (0..(observation_actions(pomdp, y) - 1))
           /\ inc'[y].updates \in SUBSET (0..(max_successor_memory_size(pomdp, old)[y] - 1))
  <2>1. A \in SUBSET Nat /\ B \in SUBSET Nat
    <3>1. \A x : \A y \in SUBSET (0..(x - 1)) : y \in SUBSET Nat
      OBVIOUS
    <3> QED
      BY <1>5, <3>1
  <2>2. CASE inc' = inc
    BY <1>7, <2>2
  <2>3. CASE inc' = [inc EXCEPT ![z].actions = @ \cup A]
    BY <1>5, <1>7, <2>1, <2>3
  <2>4. CASE inc' = [inc EXCEPT ![z].updates = @ \cup B]
    BY <1>5, <1>7, <2>1, <2>4
  <2> QED
    BY <1>3, <2>2, <2>3, <2>4 DEF A, B
<1>9. Types'
  BY <1>1, <1>2, <1>6, <1>8 DEF Types, new, inc
<1>10. Recorded'
  <2> SUFFICES ASSUME NEW y \in Observations(pomdp)
               PROVE  /\ inc'[y].actions \in SUBSET (0..(observation_actions(pomdp, y) - 1))
                      /\ inc'[y].updates \in SUBSET (0..(max_successor_memory_size(pomdp, new)[y] - 1))
                      /\ Cardinality(inc'[y].actions) > 1 => new[y] > 1
    BY <1>2 DEF Recorded, new, inc
  <2>1. inc'[y].updates \in SUBSET (0..(max_successor_memory_size(pomdp, new)[y] - 1))
    <3> DEFINE S == inc'[y].updates
    <3>1. S \in SUBSET (0..(max_successor_memory_size(pomdp, old)[y] - 1))
      BY <1>8
    <3> HIDE DEF S
    <3>2. S \in SUBSET (0..(max_successor_memory_size(pomdp, new)[y] - 1))
      BY <1>4, <1>6, <3>1, RecordedGrows
    <3> QED
      BY <3>2 DEF S
  <2>2. Cardinality(inc'[y].actions) > 1 => new[y] > 1
    <3>1. CASE y = z
      <4>1. old[z] \in Nat \ {0}
        BY <1>4, SizesAreNumbers
      <4> QED
        BY <1>6, <3>1, <4>1
    <3>2. CASE y # z
      BY <1>6, <1>7, <1>8, <3>2
    <3> QED
      BY <3>1, <3>2
  <2> QED
    BY <1>8, <2>1, <2>2
<1>11. Tables'
  <2>1. \A y \in Observations(pomdp) : U.size[y] <= new[y]
    BY <1>4, <1>6
  <2> QED
    BY <1>1, <1>2, <2>1 DEF Tables, U, new
<1>12. Phases'
  BY <1>1, <1>2 DEF Phases
<1> QED
  BY <1>9, <1>10, <1>11, <1>12 DEF IInv

LEMMA NextInv == IInv /\ [Next]_vars => IInv'
<1> SUFFICES ASSUME IInv, [Next]_vars
             PROVE  IInv'
  OBVIOUS
<1>1. CASE SetMemorySize
  BY <1>1, SetMemorySizeInv
<1>2. CASE UnfoldMemory
  BY <1>2, UnfoldMemoryInv
<1>3. CASE BreakSymmetry
  BY <1>3, BreakSymmetryInv
<1>4. CASE Stop
  BY <1>4, StopInv
<1>5. CASE InjectMemory
  BY <1>5, InjectMemoryInv
<1>6. CASE UNCHANGED vars
  <2>1. Types' /\ Recorded'
    BY <1>6 DEF IInv, vars, Types, Recorded
  <2>2. Tables' /\ Phases'
    BY <1>6 DEF IInv, vars, Tables, Phases
  <2> QED
    BY <2>1, <2>2 DEF IInv
<1> QED
  BY <1>1, <1>2, <1>3, <1>4, <1>5, <1>6 DEF Next

(* The tables are always those of a POMDP and memory sizes that have only  *)
(* grown since, and what is recorded of schedulers was an option then.     *)
THEOREM UnfoldingInductive == Spec => []IInv
<1> QED
  BY InitInv, NextInv, PTL DEF Spec

LEMMA TypesFollow == IInv => TypeOK
<1> SUFFICES ASSUME IInv
             PROVE  TypeOK
  OBVIOUS
<1>1. Types /\ Recorded /\ Tables
  BY DEF IInv
<1>2. pomdp \in Pomdps /\ observation_memory_size \in Sizes(pomdp)
  BY <1>1 DEF Types
<1>3. ASSUME NEW z \in Observations(pomdp)
      PROVE  inconsistencies[z].updates \subseteq 0..(MaxMemory - 1)
  <2> DEFINE k == max_successor_memory_size(pomdp, observation_memory_size)[z]
             S == inconsistencies[z].updates
  <2>1. k \in 1..MaxMemory /\ MaxMemory \in Nat
    <3>1. max_successor_memory_size(pomdp, observation_memory_size) \in Sizes(pomdp)
      BY <1>2, MostMemory
    <3> QED
      BY <1>2, <3>1, SizesAreNumbers
  <2>2. S \in SUBSET (0..(k - 1))
    BY <1>1 DEF Recorded
  <2> HIDE DEF k, S
  <2>3. S \subseteq 0..(MaxMemory - 1)
    BY <2>1, <2>2
  <2> QED
    BY <2>3 DEF S
<1>4. \A z \in Observations(pomdp) :
        inconsistencies[z].actions \subseteq 0..(observation_actions(pomdp, z) - 1)
  BY <1>1 DEF Recorded
<1> QED
  BY <1>1, <1>3, <1>4 DEF Types, Tables, TypeOK, Sizes

(* The sizes stay within the bound, the recorded actions and updates are   *)
(* ones that the POMDP has, and the family is part of the design space.    *)
THEOREM TypeCorrect == Spec => []TypeOK
<1> QED
  BY UnfoldingInductive, TypesFollow, PTL

LEMMA PoliciesFollow == IInv => AssignmentsArePolicies
<1> SUFFICES ASSUME IInv, unfolded # None
             PROVE  /\ HolesPairUp(pomdp, unfolded)
                    /\ \A i \in DOMAIN unfolded.states : \A color \in Colors(pomdp, unfolded, i) :
                         /\ Cardinality(RowsFor(unfolded, i, color)) = 1
                         /\ \A r \in RowsFor(unfolded, i, color) :
                              StepOf(unfolded, i, r) = PolicyStep(pomdp, unfolded, i, color)
  BY DEF AssignmentsArePolicies
<1>1. /\ pomdp \in Pomdps /\ unfolded.size \in Sizes(pomdp)
      /\ Unfolding(pomdp, unfolded.size, unfolded)
  BY DEF IInv, Types, Tables
<1> QED
  BY <1>1, HolesInPairs, PolicyOfOption

(* Whatever the POMDP and the memory, the assignments are the policies     *)
(* with memory: the container's holes are the manager's, merged in pairs,  *)
(* and each option of a state's hole is one row that does what the         *)
(* option's number encodes (unfold_memory, action_to_hole_options).        *)
THEOREM PoliciesAreAssignments == Spec => []AssignmentsArePolicies
<1> QED
  BY UnfoldingInductive, PoliciesFollow, PTL

LEMMA OrderFollows == IInv => EntriesInOrder
<1> SUFFICES ASSUME IInv, unfolded # None, NEW i \in DOMAIN unfolded.rows,
                    NEW r \in DOMAIN unfolded.rows[i],
                    NEW C, C = unfolded.rows[i][r].columns
             PROVE  \A k \in 2..Len(C) : C[k - 1] < C[k]
  BY DEF EntriesInOrder
<1>1. /\ pomdp \in Pomdps /\ unfolded.size \in Sizes(pomdp)
      /\ Unfolding(pomdp, unfolded.size, unfolded)
  BY DEF IInv, Types, Tables
<1> QED
  BY <1>1, EntriesOfRow

(* The matrix builder gets the entries of each row in order and once       *)
(* (constructTransitionMatrix).                                            *)
THEOREM EntriesAreInOrder == Spec => []EntriesInOrder
<1> QED
  BY UnfoldingInductive, OrderFollows, PTL

LEMMA BrokenFollows == IInv => SymmetryBroken
<1> SUFFICES ASSUME IInv, pc = "solve", NEW z \in Observations(pomdp), unfolded.obs_to_holes[z] # << >>
             PROVE  /\ NothingForbidden(z)
                    /\ Cardinality(inconsistencies[z].actions) > 1 =>
                         \A h \in Range(unfolded.obs_to_holes[z]) :
                           ~ inconsistencies[z].actions \subseteq ActionsOf(family[h], unfolded.updates[z])
  BY DEF SymmetryBroken
<1>1. /\ pomdp \in Pomdps /\ observation_memory_size \in Sizes(pomdp)
      /\ Unfolding(pomdp, observation_memory_size, unfolded)
      /\ Consistent(pomdp, observation_memory_size, unfolded, inconsistencies)
  BY RecordedConsistent
<1>2. family = OptionsLeft(pomdp, unfolded, inconsistencies)
  BY DEF IInv, Phases
<1> DEFINE left == UNION {family[h] : h \in Range(unfolded.obs_to_holes[z])}
<1>3. IsLeft(unfolded, z, family, left)
  BY DEF IsLeft
<1> DEFINE q == pomdp
           size == observation_memory_size
           U == unfolded
           inc == inconsistencies
           F == family
<1>4. /\ q \in Pomdps /\ size \in Sizes(q) /\ Unfolding(q, size, U) /\ Consistent(q, size, U, inc)
      /\ z \in Observations(q) /\ U.obs_to_holes[z] # << >> /\ F = OptionsLeft(q, U, inc)
      /\ IsLeft(U, z, F, left)
  BY <1>1, <1>2, <1>3
<1> HIDE DEF q, size, U, inc, F, left
<1>5. ActionsOf(left, U.updates[z]) = 0..(observation_actions(q, z) - 1)
  BY ONLY <1>4, SymmetryBrokenAt
<1>6. UpdatesOf(left, U.updates[z]) = 0..(U.updates[z] - 1)
  BY ONLY <1>4, SymmetryBrokenAt
<1>7. Cardinality(inc[z].actions) > 1 =>
        \A h \in Range(U.obs_to_holes[z]) : ~ inc[z].actions \subseteq ActionsOf(F[h], U.updates[z])
  BY ONLY <1>4, SymmetryBrokenAt
<1> QED
  BY <1>5, <1>6, <1>7 DEF NothingForbidden, q, size, U, inc, F, left

(* Breaking the symmetry (break_symmetry_3) leaves each action and update  *)
(* to some hole, and none with all the actions a scheduler used in one.    *)
THEOREM SymmetryIsBroken == Spec => []SymmetryBroken
<1> QED
  BY UnfoldingInductive, BrokenFollows, PTL

LEMMA HelpsFollows ==
  IInv /\ [Next]_vars => [unfolded # None => Simulates(pomdp, unfolded', unfolded)]_unfolded
<1> SUFFICES ASSUME IInv, [Next]_vars, unfolded' # unfolded, unfolded # None
             PROVE  Simulates(pomdp, unfolded', unfolded)
  OBVIOUS
<1>1. unfolded' = Unfold(pomdp, observation_memory_size)
  BY DEF Next, vars, SetMemorySize, UnfoldMemory, BreakSymmetry, Stop, InjectMemory
<1>2. /\ pomdp \in Pomdps /\ observation_memory_size \in Sizes(pomdp)
      /\ unfolded.size \in Sizes(pomdp) /\ Unfolding(pomdp, unfolded.size, unfolded)
      /\ \A z \in Observations(pomdp) : unfolded.size[z] <= observation_memory_size[z]
  BY DEF IInv, Types, Tables
<1>3. Unfolding(pomdp, observation_memory_size, unfolded')
  BY <1>1 DEF Unfolding
<1> QED
  BY <1>2, <1>3, MemoryHelps

(* Unfolding with more memory never loses a policy: each option of an old  *)
(* state's hole is an option of the hole of each of its new copies.        *)
THEOREM MemoryNeverHurts == Spec => MemoryOnlyHelps
<1> QED
  BY UnfoldingInductive, HelpsFollows, PTL DEF Spec, MemoryOnlyHelps

=============================================================================
