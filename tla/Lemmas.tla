------------------------------- MODULE Lemmas -------------------------------
(***************************************************************************)
(* Facts about numbers, finite sets and sequences that several proof       *)
(* modules cite.                                                           *)
(***************************************************************************)
EXTENDS Builtins, Integers, SequencesExt, FiniteSetTheorems, FunctionTheorems, SequenceTheorems,
        WellFoundedInduction, NaturalsInduction, TLAPS

-----------------------------------------------------------------------------
(* Numbers                                                                 *)

(* A nonempty set of natural numbers has a least element.                  *)
LEMMA LeastElement ==
  ASSUME NEW S, S \subseteq Nat, S # {}
  PROVE  \E x \in S : \A y \in S : x <= y
<1> DEFINE R == {ss \in Nat \X Nat : ss[1] < ss[2]}
<1>1. IsWellFoundedOn(R, Nat)
  BY NatLessThanWellFounded, Zenon DEF OpToRel
<1> HIDE DEF R
<1>2. PICK x \in S : \A y \in S : ~(<<y, x>> \in R)
  BY <1>1, WFMin
<1>3. \A y \in S : ~(y < x)
  BY <1>2 DEF R
<1> QED BY <1>3

(* A number is a multiple of a divisor and a remainder.                   *)
LEMMA DivMod ==
  ASSUME NEW a \in Nat, NEW d \in Nat \ {0}
  PROVE  \E q \in Nat : \E r \in 0..(d - 1) :
           q = a \div d /\ r = a % d /\ a = q * d + r
<1>1. a \div d \in Nat
  OBVIOUS
<1>2. a % d \in 0..(d - 1)
  OBVIOUS
<1>3. PICK q \in Nat, r \in 0..(d - 1) : q = a \div d /\ r = a % d
  BY <1>1, <1>2
<1>4. a = q * d + r
  BY <1>3
<1> QED BY <1>3, <1>4

(* A number is a multiple and a remainder in one way.                      *)
LEMMA DivUnique ==
  ASSUME NEW d \in Nat \ {0}, NEW q \in Nat, NEW m \in 0..(d - 1)
  PROVE  (q * d + m) \div d = q /\ (q * d + m) % d = m
OBVIOUS

-----------------------------------------------------------------------------
(* Sequences                                                               *)

(* The sequence that counts through groups of d members, the last of them  *)
(* the n-th.                                                               *)
CountThrough(s, n, d) ==
  [p \in 1..((n - 1) * d + Len(s[n])) |-> s[(p - 1) \div d + 1][((p - 1) % d) + 1]]

(* FlattenSeq joins groups that all have d members, the last at most as    *)
(* many, to the sequence that counts through them.                         *)
LEMMA FlattenGroups ==
  ASSUME NEW T, NEW d \in Nat \ {0}, NEW n \in Nat \ {0},
         NEW s \in Seq(Seq(T)), Len(s) = n,
         \A j \in 1..(n - 1) : Len(s[j]) = d,
         Len(s[n]) <= d
  PROVE  FlattenSeq(s) = CountThrough(s, n, d)
<1> DEFINE total(i) == (i - 1) * d + Len(s[i])
           at(p) == s[(p - 1) \div d + 1][((p - 1) % d) + 1]
           whole(i) == [p \in 1..total(i) |-> at(p)]
           f == [i \in 1..n |-> whole(i)]
           Joins(h) == h = [i \in 1..n |-> IF i = 1 THEN s[i] ELSE h[i - 1] \o s[i]]
<1>1. ASSUME NEW i \in 1..n
      PROVE  s[i] \in Seq(T) /\ Len(s[i]) \in 0..d /\ total(i) \in Nat
  <2>1. s[i] \in Seq(T) /\ Len(s[i]) \in Nat
    BY LenProperties
  <2>2. Len(s[i]) <= d
    OBVIOUS
  <2>3. (i - 1) * d \in Nat
    OBVIOUS
  <2> QED BY <2>1, <2>2, <2>3
<1>2. ASSUME NEW i \in 1..n, NEW p \in 1..Len(s[i])
      PROVE  at((i - 1) * d + p) = s[i][p]
  <2>1. i - 1 \in Nat /\ p - 1 \in 0..(d - 1)
    BY <1>1
  <2>2. ((i - 1) * d + (p - 1)) \div d = i - 1 /\ ((i - 1) * d + (p - 1)) % d = p - 1
    BY <2>1, DivUnique
  <2>3. (i - 1) * d + p - 1 = (i - 1) * d + (p - 1) /\ p \in Int
    BY <2>1
  <2> QED BY <2>1, <2>2, <2>3
<1>3. ASSUME NEW i \in 1..n, NEW p \in 1..total(i)
      PROVE  at(p) \in T
  <2>0. PICK a \in Nat : a = p - 1
    BY <1>1
  <2>1. PICK q \in Nat, m \in 0..(d - 1) :
          q = (p - 1) \div d /\ m = (p - 1) % d /\ p - 1 = q * d + m
    BY <2>0, DivMod
  <2>2. q <= i - 1
    <3>1. q * d < (i - 1) * d + d
      BY <1>1, <2>1
    <3>2. CASE q >= i
      <4>1. q * d >= i * d
        BY <3>2
      <4> QED BY <3>1, <4>1
    <3> QED BY <3>2
  <2>3. q + 1 \in 1..n
    BY <2>2
  <2>4. m + 1 \in 1..Len(s[q + 1])
    <3>1. CASE q + 1 < n
      BY <2>3, <3>1
    <3>2. CASE q + 1 = n
      <4>1. i = n /\ q = n - 1
        BY <2>2, <3>2
      <4>2. PICK e \in Nat, t \in Nat : e = Len(s[n]) /\ t = (n - 1) * d
        BY <1>1, <4>1
      <4>3. total(i) = t + e
        BY <4>1, <4>2
      <4>4. p \in Int /\ p <= t + e
        BY <4>3, <1>1
      <4>5. p - 1 = t + m
        BY <2>1, <4>1, <4>2
      <4>6. m < e
        BY <4>4, <4>5
      <4> QED BY <1>1, <3>2, <4>2, <4>6
    <3> QED BY <2>3, <3>1, <3>2
  <2>5. s[q + 1][m + 1] \in T
    BY <1>1, <2>3, <2>4, ElementOfSeq
  <2> QED BY <2>1, <2>5
<1>4. \A i \in 1..n : whole(i) \in Seq(T) /\ Len(whole(i)) = total(i)
  BY <1>1, <1>3
<1> HIDE DEF at
<1>5. whole(1) = s[1]
  <2>1. 1 \in 1..n /\ total(1) = Len(s[1])
    <3>1. (1 - 1) * d = 0 /\ 1 \in 1..n
      OBVIOUS
    <3> QED BY <1>1, <3>1
  <2>2. \A p \in 1..Len(s[1]) : at(p) = s[1][p]
    BY <1>2, <2>1
  <2> QED BY <1>1, <1>4, <2>1, <2>2, SeqEqual
<1>6. ASSUME NEW i \in 2..n
      PROVE  whole(i) = whole(i - 1) \o s[i]
  <2>1. i \in 1..n /\ i - 1 \in 1..n /\ i - 1 \in 1..(n - 1)
    OBVIOUS
  <2>2. total(i - 1) = (i - 1) * d
    <3>1. Len(s[i - 1]) = d
      BY <2>1
    <3> QED BY <2>1, <3>1
  <2>3. total(i) = total(i - 1) + Len(s[i])
    BY <2>2
  <2> DEFINE joined == whole(i - 1) \o s[i]
  <2>4. joined \in Seq(T) /\ Len(joined) = total(i)
        /\ \A p \in 1..total(i) : joined[p] = IF p <= total(i - 1) THEN at(p)
                                              ELSE s[i][p - total(i - 1)]
    <3>1. whole(i - 1) \in Seq(T) /\ s[i] \in Seq(T) /\ Len(whole(i - 1)) = total(i - 1)
          /\ total(i - 1) \in Nat
      BY <1>1, <1>4, <2>1
    <3>2. \A p \in 1..total(i - 1) : whole(i - 1)[p] = at(p)
      OBVIOUS
    <3> HIDE DEF whole, total
    <3>3. PICK u \in Seq(T), v \in Seq(T) : u = whole(i - 1) /\ v = s[i]
      BY <3>1
    <3>5. /\ u \o v \in Seq(T) /\ Len(u \o v) = Len(u) + Len(v)
          /\ \A p \in 1..(Len(u) + Len(v)) :
               (u \o v)[p] = IF p <= Len(u) THEN u[p] ELSE v[p - Len(u)]
      BY ConcatProperties
    <3>6. joined = u \o v
      BY <3>3
    <3>7. joined \in Seq(T) /\ Len(joined) = total(i)
          /\ \A p \in 1..total(i) :
               joined[p] = IF p <= total(i - 1) THEN whole(i - 1)[p]
                           ELSE s[i][p - total(i - 1)]
      <4> HIDE DEF joined
      <4> QED BY <2>3, <3>1, <3>3, <3>5, <3>6
    <3>4. \A p \in 1..total(i) : p <= total(i - 1) => p \in 1..total(i - 1)
      BY <3>1
    <3> HIDE DEF joined
    <3> QED BY <3>2, <3>4, <3>7
  <2>5. ASSUME NEW p \in 1..total(i), p > total(i - 1)
        PROVE  at(p) = s[i][p - total(i - 1)]
    <3>1. p - total(i - 1) \in 1..Len(s[i])
      BY <1>1, <2>1, <2>3, <2>5
    <3>2. at((i - 1) * d + (p - total(i - 1))) = s[i][p - total(i - 1)]
      BY <1>2, <2>1, <3>1
    <3>3. (i - 1) * d + (p - total(i - 1)) = p
      <4>1. total(i - 1) \in Nat /\ p \in Int
        BY <1>1, <2>1
      <4> HIDE DEF total
      <4> QED BY <2>2, <4>1
    <3> QED BY <3>2, <3>3
  <2>6. \A p \in 1..total(i) : joined[p] = whole(i)[p]
    BY <1>1, <2>1, <2>4, <2>5
  <2>7. whole(i) \in Seq(T) /\ Len(whole(i)) = total(i)
    BY <1>4, <2>1
  <2> HIDE DEF joined, whole, total
  <2>8. joined = whole(i)
    BY <2>4, <2>6, <2>7, SeqEqual
  <2> QED BY <2>8 DEF joined
<1>7. Joins(f)
  <2> HIDE DEF whole
  <2>1. ASSUME NEW i \in 1..n
        PROVE  whole(i) = IF i = 1 THEN s[i] ELSE f[i - 1] \o s[i]
    <3>1. CASE i = 1
      BY <1>5, <3>1
    <3>2. CASE i # 1
      <4>1. i \in 2..n /\ i - 1 \in 1..n
        BY <3>2
      <4> QED BY <1>6, <3>2, <4>1
    <3> QED BY <3>1, <3>2
  <2> QED BY <2>1
<1> HIDE DEF whole, total
<1>8. ASSUME NEW h, Joins(h)
      PROVE  h = f
  <2> DEFINE bad == {i \in 1..n : h[i] # f[i]}
  <2>1. CASE bad = {}
    BY <1>8, <2>1
  <2>2. CASE bad # {}
    <3>1. PICK i \in bad : \A j \in bad : i <= j
      <4>1. bad \subseteq Nat
        OBVIOUS
      <4> HIDE DEF bad
      <4> QED BY <2>2, <4>1, LeastElement
    <3>2. h[i] = (IF i = 1 THEN s[i] ELSE h[i - 1] \o s[i])
          /\ f[i] = (IF i = 1 THEN s[i] ELSE f[i - 1] \o s[i])
      BY <1>7, <1>8
    <3>3. i # 1 => i - 1 \in 1..n /\ i - 1 \notin bad
      BY <3>1
    <3> QED BY <3>1, <3>2, <3>3
  <2> QED BY <2>1, <2>2
<1> HIDE DEF f
<1>9. FlattenSeq(s) = f[n]
  <2>1. f = [i \in 1..Len(s) |-> IF i = 1 THEN s[i] ELSE f[i - 1] \o s[i]]
    BY <1>7
  <2>2. ASSUME NEW h, h = [i \in 1..Len(s) |-> IF i = 1 THEN s[i] ELSE h[i - 1] \o s[i]]
        PROVE  h = f
    BY <1>8, <2>2
  <2>3. FlattenSeq(s) = f[Len(s)]
    BY <2>1, <2>2, Zenon DEF FlattenSeq
  <2> QED BY <2>3
<1>10. n \in 1..n /\ f[n] = whole(n)
  BY DEF f
<1> QED BY <1>9, <1>10 DEF whole, total, at, CountThrough

-----------------------------------------------------------------------------
(* Finite sets                                                             *)

(* The values of a function with a finite domain are finitely many.        *)
LEMMA FiniteRange ==
  ASSUME NEW f, IsFiniteSet(DOMAIN f), NEW S, S \subseteq {f[x] : x \in DOMAIN f}
  PROVE  IsFiniteSet(S)
<1> DEFINE T == {f[x] : x \in DOMAIN f}
           g == [x \in DOMAIN f |-> f[x]]
<1>1. g \in Surjection(DOMAIN f, T)
  BY DEF Surjection
<1>2. IsFiniteSet(T)
  <2> HIDE DEF T, g
  <2> QED BY <1>1, FS_Surjection
<1>3. S \in SUBSET T
  OBVIOUS
<1> QED BY <1>2, <1>3, FS_Subset

(* Every finite set of numbers is listed in full, in ascending order: the  *)
(* element of rank k - 1 is there and is the only one of that rank.        *)
LEMMA InOrderSorts ==
  ASSUME NEW S, S \subseteq Nat, IsFiniteSet(S)
  PROVE  /\ InOrder(S) \in Seq(S)
         /\ Len(InOrder(S)) = Cardinality(S)
         /\ \A j, k \in 1..Len(InOrder(S)) : j < k => InOrder(S)[j] < InOrder(S)[k]
         /\ \A e \in S : \E k \in 1..Len(InOrder(S)) : InOrder(S)[k] = e
         /\ \A k \in 1..Len(InOrder(S)) : Cardinality({d \in S : d < InOrder(S)[k]}) = k - 1
<1> DEFINE Below(e) == {d \in S : d < e}
           n == Cardinality(S)
           rank == [e \in S |-> Cardinality(Below(e))]
<1>1. n \in Nat
  BY FS_CardinalityType
<1>2. ASSUME NEW e \in S
      PROVE  IsFiniteSet(Below(e)) /\ rank[e] \in 0..(n - 1)
  <2>1. Below(e) \subseteq S /\ e \notin Below(e)
    OBVIOUS
  <2>2. IsFiniteSet(Below(e)) /\ Cardinality(Below(e)) <= n /\ Cardinality(Below(e)) # n
    BY <2>1, FS_Subset
  <2> QED BY <1>1, <2>2, FS_CardinalityType
<1>3. ASSUME NEW d \in S, NEW e \in S, d < e
      PROVE  rank[d] < rank[e]
  <2>1. Below(d) \subseteq Below(e) /\ Below(d) # Below(e)
    <3>1. d \in Below(e) /\ d \notin Below(d)
      BY <1>3
    <3>2. ASSUME NEW x \in S, x < d
          PROVE  x < e
      BY <1>3, <3>2
    <3> QED BY <3>1, <3>2
  <2>2. Cardinality(Below(d)) <= Cardinality(Below(e))
        /\ Cardinality(Below(d)) # Cardinality(Below(e))
    BY <1>2, <2>1, FS_Subset
  <2> QED BY <1>2, <2>2, FS_CardinalityType
<1> HIDE DEF Below, n, rank
<1>4. rank \in Injection(S, 0..(n - 1))
  <2>1. rank \in [S -> 0..(n - 1)]
    BY <1>2 DEF rank
  <2>2. \A d, e \in S : rank[d] = rank[e] => d = e
    BY <1>2, <1>3
  <2> QED BY <2>1, <2>2 DEF Injection, IsInjective
<1>5. rank \in Surjection(S, 0..(n - 1))
  <2>1. IsFiniteSet(0..(n - 1)) /\ Cardinality(0..(n - 1)) = n
    BY <1>1, FS_Interval
  <2> QED BY <1>4, <2>1, FS_Injection DEF n
<1>6. \A k \in 1..n : \E e \in S : rank[e] = k - 1
  BY <1>1, <1>5, Fun_SurjectionProperties DEF Surjection
<1>7. ASSUME NEW k \in 1..n
      PROVE  InOrder(S)[k] \in S /\ rank[InOrder(S)[k]] = k - 1
  <2>1. InOrder(S)[k] = CHOOSE e \in S : Cardinality(Below(e)) = k - 1
    BY DEF InOrder, Below, n
  <2>2. \E e \in S : Cardinality(Below(e)) = k - 1
    BY <1>6 DEF rank
  <2>3. InOrder(S)[k] \in S /\ Cardinality(Below(InOrder(S)[k])) = k - 1
    BY <2>1, <2>2
  <2> QED BY <2>3 DEF rank
<1>8. ASSUME NEW j \in 1..n, NEW k \in 1..n, j < k
      PROVE  InOrder(S)[j] < InOrder(S)[k]
  <2>1. PICK a \in S, b \in S : a = InOrder(S)[j] /\ b = InOrder(S)[k]
    BY <1>7
  <2>2. rank[a] = j - 1 /\ rank[b] = k - 1
    BY <1>7, <2>1
  <2>3. ~(b < a) /\ a # b
    BY <1>1, <1>3, <1>8, <2>2
  <2> QED BY <2>1, <2>3
<1>9. InOrder(S) \in Seq(S) /\ Len(InOrder(S)) = n
  <2> DEFINE choice(k) == CHOOSE e \in S : Cardinality({d \in S : d < e}) = k - 1
  <2>1. InOrder(S) = [k \in 1..n |-> choice(k)]
    BY DEF InOrder, n
  <2>2. \A k \in 1..n : InOrder(S)[k] = choice(k)
    BY <2>1, Zenon
  <2> HIDE DEF choice
  <2>3. \A k \in 1..n : choice(k) \in S
    BY <1>7, <2>2
  <2> QED BY <1>1, <2>1, <2>3
<1>10. ASSUME NEW e \in S
       PROVE  \E k \in 1..n : InOrder(S)[k] = e
  <2>1. PICK k \in 1..n : k = rank[e] + 1
    BY <1>1, <1>2
  <2>2. rank[InOrder(S)[k]] = rank[e] /\ InOrder(S)[k] \in S
    BY <1>7, <2>1, <1>2
  <2>3. InOrder(S)[k] = e
    BY <1>4, <2>2 DEF Injection, IsInjective
  <2> QED BY <2>3
<1>11. \A k \in 1..n : Cardinality({d \in S : d < InOrder(S)[k]}) = k - 1
  BY <1>7 DEF rank, Below
<1> QED BY <1>8, <1>9, <1>10, <1>11 DEF n

-----------------------------------------------------------------------------
(* Running sums                                                            *)

(* A running sum starts at 0 and grows by one value at a time.             *)
LEMMA RunningSum ==
  ASSUME NEW f, NEW n \in Nat
  PROVE  SumBefore(f, 0) = 0 /\ SumBefore(f, n + 1) = SumBefore(f, n) + f[n]
<1> DEFINE Sums(g, m) == g = [k \in 0..m |-> IF k = 0 THEN 0 ELSE g[k - 1] + f[k - 1]]
           the(m) == CHOOSE g : Sums(g, m)
<1>1. ASSUME NEW m \in Nat, NEW g, Sums(g, m), NEW k \in 0..m
      PROVE  g[k] = IF k = 0 THEN 0 ELSE g[k - 1] + f[k - 1]
  BY <1>1
<1>2. \A m \in Nat : \E g : Sums(g, m)
  <2> DEFINE S == {m \in Nat : ~\E g : Sums(g, m)}
  <2> SUFFICES ASSUME S # {} PROVE FALSE
    OBVIOUS
  <2>1. PICK m \in S : \A x \in S : m <= x
    <3>1. S \subseteq Nat
      OBVIOUS
    <3> HIDE DEF S
    <3> QED BY <3>1, LeastElement
  <2>2. m # 0
    <3>1. Sums([k \in 0..0 |-> 0], 0)
      OBVIOUS
    <3> HIDE DEF Sums
    <3> QED BY <2>1, <3>1
  <2>3. PICK g : Sums(g, m - 1)
    <3> HIDE DEF Sums
    <3>1. m - 1 \in Nat /\ m - 1 \notin S
      BY <2>1, <2>2
    <3> QED BY <3>1
  <2> DEFINE h == [k \in 0..m |-> IF k = m THEN g[m - 1] + f[m - 1] ELSE g[k]]
  <2>4. Sums(h, m)
    <3> SUFFICES ASSUME NEW k \in 0..m
                 PROVE  h[k] = IF k = 0 THEN 0 ELSE h[k - 1] + f[k - 1]
      OBVIOUS
    <3>1. m \in Nat \ {0}
      BY <2>1, <2>2
    <3>2. CASE k = m
      BY <3>1, <3>2
    <3>3. CASE k # m
      <4>1. k \in 0..(m - 1)
        BY <3>1, <3>3
      <4>2. g[k] = IF k = 0 THEN 0 ELSE g[k - 1] + f[k - 1]
        BY <1>1, <2>3, <3>1, <4>1
      <4> QED BY <3>1, <3>3, <4>1, <4>2
    <3> QED BY <3>2, <3>3
  <2> HIDE DEF Sums, h
  <2> QED BY <2>1, <2>4
<1>3. ASSUME NEW m \in Nat PROVE SumBefore(f, m) = the(m)[m]
  BY Zenon DEF SumBefore
<1>4. ASSUME NEW m \in Nat PROVE Sums(the(m), m)
  <2> HIDE DEF Sums
  <2> QED BY <1>2
<1> HIDE DEF the
<1>5. SumBefore(f, 0) = 0
  <2>1. 0 \in Nat /\ 0 \in 0..0
    OBVIOUS
  <2>2. Sums(the(0), 0)
    BY <1>4, <2>1
  <2> HIDE DEF Sums
  <2>3. the(0)[0] = 0
    BY <1>1, <2>1, <2>2
  <2> QED BY <1>3, <2>1, <2>3
<1>6. \A k \in 0..n : the(n + 1)[k] = the(n)[k]
  <2> DEFINE S == {k \in 0..n : the(n + 1)[k] # the(n)[k]}
  <2> SUFFICES ASSUME S # {} PROVE FALSE
    OBVIOUS
  <2>1. PICK k \in S : \A x \in S : k <= x
    <3>1. S \subseteq Nat
      OBVIOUS
    <3> HIDE DEF S
    <3> QED BY <3>1, LeastElement
  <2>2. Sums(the(n), n) /\ Sums(the(n + 1), n + 1)
    <3>1. n + 1 \in Nat
      OBVIOUS
    <3> HIDE DEF Sums
    <3> QED BY <1>4, <3>1
  <2>3. k \in 0..n /\ k \in 0..(n + 1) /\ n + 1 \in Nat
    OBVIOUS
  <2> HIDE DEF Sums
  <2>4. /\ the(n)[k] = IF k = 0 THEN 0 ELSE the(n)[k - 1] + f[k - 1]
        /\ the(n + 1)[k] = IF k = 0 THEN 0 ELSE the(n + 1)[k - 1] + f[k - 1]
    BY <1>1, <2>2, <2>3
  <2>5. k # 0
    BY <2>1, <2>4
  <2>6. k - 1 \in 0..n /\ k - 1 \notin S
    BY <2>1, <2>3, <2>5
  <2>7. the(n + 1)[k - 1] = the(n)[k - 1]
    BY <2>6
  <2> QED BY <2>1, <2>4, <2>5, <2>7
<1>7. the(n + 1)[n + 1] = the(n + 1)[n] + f[n]
  <2>1. n + 1 \in Nat /\ n + 1 \in 0..(n + 1) /\ n + 1 # 0 /\ (n + 1) - 1 = n
    OBVIOUS
  <2>2. Sums(the(n + 1), n + 1)
    BY <1>4, <2>1
  <2> HIDE DEF Sums
  <2>3. the(n + 1)[n + 1] = the(n + 1)[(n + 1) - 1] + f[(n + 1) - 1]
    BY <1>1, <2>1, <2>2
  <2> QED BY <2>1, <2>3
<1>8. n \in 0..n /\ n + 1 \in Nat
  OBVIOUS
<1> QED BY <1>3, <1>5, <1>6, <1>7, <1>8

(* What is added up is a natural number.                                   *)
LEMMA SumNat ==
  ASSUME NEW f, NEW n \in Nat, \A k \in 0..(n - 1) : f[k] \in Nat
  PROVE  SumBefore(f, n) \in Nat
<1> DEFINE S == {k \in 0..n : SumBefore(f, k) \notin Nat}
<1> SUFFICES ASSUME S # {} PROVE FALSE
  OBVIOUS
<1>1. PICK k \in S : \A x \in S : k <= x
  <2>1. S \subseteq Nat
    OBVIOUS
  <2> HIDE DEF S
  <2> QED BY <2>1, LeastElement
<1>2. k # 0
  BY RunningSum
<1>3. k - 1 \in 0..n /\ k - 1 \notin S /\ k - 1 \in 0..(n - 1) /\ k - 1 \in Nat
  BY <1>1, <1>2
<1>4. SumBefore(f, (k - 1) + 1) = SumBefore(f, k - 1) + f[k - 1]
  BY <1>3, RunningSum
<1>5. (k - 1) + 1 = k /\ f[k - 1] \in Nat /\ SumBefore(f, k - 1) \in Nat
  BY <1>1, <1>3
<1> QED BY <1>1, <1>4, <1>5

(* What comes later starts after all that comes before.                    *)
LEMMA SumGrows ==
  ASSUME NEW f, NEW n \in Nat, \A k \in 0..(n - 1) : f[k] \in Nat,
         NEW m \in 0..(n - 1)
  PROVE  SumBefore(f, m) + f[m] <= SumBefore(f, n)
<1> DEFINE S == {k \in (m + 1)..n : ~(SumBefore(f, m) + f[m] <= SumBefore(f, k))}
<1> SUFFICES ASSUME S # {} PROVE FALSE
  OBVIOUS
<1>1. PICK k \in S : \A x \in S : k <= x
  <2>1. S \subseteq Nat
    OBVIOUS
  <2> HIDE DEF S
  <2> QED BY <2>1, LeastElement
<1>2. \A j \in 0..n : SumBefore(f, j) \in Nat
  <2> TAKE j \in 0..n
  <2>1. j \in Nat /\ \A i \in 0..(j - 1) : f[i] \in Nat
    OBVIOUS
  <2> QED BY <2>1, SumNat
<1>3. k - 1 \in Nat /\ (k - 1) + 1 = k /\ k - 1 \in 0..(n - 1) /\ k - 1 \in 0..n /\ m \in 0..n
  BY <1>1
<1>4. SumBefore(f, k) = SumBefore(f, k - 1) + f[k - 1]
  BY <1>3, RunningSum
<1>5. f[k - 1] \in Nat /\ f[m] \in Nat
  BY <1>3
<1>6. k - 1 # m
  BY <1>1, <1>2, <1>3, <1>4, <1>5
<1>7. k - 1 \in (m + 1)..n /\ k - 1 \notin S
  BY <1>1, <1>3, <1>6
<1>8. SumBefore(f, m) + f[m] <= SumBefore(f, k - 1)
  BY <1>7
<1> QED BY <1>1, <1>2, <1>3, <1>4, <1>5, <1>8

(* Values of 0 move nothing.                                               *)
LEMMA SumFlat ==
  ASSUME NEW f, NEW n \in Nat, \A k \in 0..(n - 1) : f[k] \in Nat,
         NEW m \in 0..n, \A k \in m..(n - 1) : f[k] = 0
  PROVE  SumBefore(f, m) = SumBefore(f, n)
<1> DEFINE S == {k \in m..n : SumBefore(f, m) # SumBefore(f, k)}
<1> SUFFICES ASSUME S # {} PROVE FALSE
  OBVIOUS
<1>1. PICK k \in S : \A x \in S : k <= x
  <2>1. S \subseteq Nat
    OBVIOUS
  <2> HIDE DEF S
  <2> QED BY <2>1, LeastElement
<1>2. k # m
  OBVIOUS
<1>3. k - 1 \in Nat /\ (k - 1) + 1 = k /\ k - 1 \in m..(n - 1) /\ k - 1 \in m..n
  BY <1>1, <1>2
<1>4. SumBefore(f, k) = SumBefore(f, k - 1) + f[k - 1]
  BY <1>3, RunningSum
<1>5. f[k - 1] = 0 /\ SumBefore(f, k - 1) \in Nat
  <2>1. \A i \in 0..((k - 1) - 1) : f[i] \in Nat
    BY <1>3
  <2> QED BY <1>3, <2>1, SumNat
<1>6. k - 1 \notin S
  BY <1>1, <1>3
<1> QED BY <1>1, <1>3, <1>4, <1>5, <1>6

-----------------------------------------------------------------------------
(* Sequences joined                                                        *)

(* A buffer starts empty and grows by one member at a time.                *)
LEMMA RunningJoin ==
  ASSUME NEW f, NEW n \in Nat
  PROVE  Joined(f, 0) = <<>> /\ Joined(f, n + 1) = Joined(f, n) \o f[n + 1]
<1> DEFINE Joins(g, m) == g = [k \in 0..m |-> IF k = 0 THEN <<>> ELSE g[k - 1] \o f[k]]
           the(m) == CHOOSE g : Joins(g, m)
<1>1. ASSUME NEW m \in Nat, NEW g, Joins(g, m), NEW k \in 0..m
      PROVE  g[k] = IF k = 0 THEN <<>> ELSE g[k - 1] \o f[k]
  BY <1>1
<1>2. \A m \in Nat : \E g : Joins(g, m)
  <2> DEFINE S == {m \in Nat : ~\E g : Joins(g, m)}
  <2> SUFFICES ASSUME S # {} PROVE FALSE
    OBVIOUS
  <2>1. PICK m \in S : \A x \in S : m <= x
    <3>1. S \subseteq Nat
      OBVIOUS
    <3> HIDE DEF S
    <3> QED BY <3>1, LeastElement
  <2>2. m # 0
    <3>1. Joins([k \in 0..0 |-> <<>>], 0)
      OBVIOUS
    <3> HIDE DEF Joins
    <3> QED BY <2>1, <3>1
  <2>3. PICK g : Joins(g, m - 1)
    <3> HIDE DEF Joins
    <3>1. m - 1 \in Nat /\ m - 1 \notin S
      BY <2>1, <2>2
    <3> QED BY <3>1
  <2> DEFINE h == [k \in 0..m |-> IF k = m THEN g[m - 1] \o f[m] ELSE g[k]]
  <2>4. Joins(h, m)
    <3> SUFFICES ASSUME NEW k \in 0..m
                 PROVE  h[k] = IF k = 0 THEN <<>> ELSE h[k - 1] \o f[k]
      OBVIOUS
    <3>1. m \in Nat \ {0}
      BY <2>1, <2>2
    <3>2. CASE k = m
      BY <3>1, <3>2
    <3>3. CASE k # m
      <4>1. k \in 0..(m - 1)
        BY <3>1, <3>3
      <4>2. g[k] = IF k = 0 THEN <<>> ELSE g[k - 1] \o f[k]
        BY <1>1, <2>3, <3>1, <4>1
      <4> QED BY <3>1, <3>3, <4>1, <4>2
    <3> QED BY <3>2, <3>3
  <2> HIDE DEF Joins, h
  <2> QED BY <2>1, <2>4
<1>3. ASSUME NEW m \in Nat PROVE Joined(f, m) = the(m)[m]
  BY Zenon DEF Joined
<1>4. ASSUME NEW m \in Nat PROVE Joins(the(m), m)
  <2> HIDE DEF Joins
  <2> QED BY <1>2
<1> HIDE DEF the
<1>5. Joined(f, 0) = <<>>
  <2>1. 0 \in Nat /\ 0 \in 0..0
    OBVIOUS
  <2>2. Joins(the(0), 0)
    BY <1>4, <2>1
  <2> HIDE DEF Joins
  <2>3. the(0)[0] = <<>>
    BY <1>1, <2>1, <2>2
  <2> QED BY <1>3, <2>1, <2>3
<1>6. \A k \in 0..n : the(n + 1)[k] = the(n)[k]
  <2> DEFINE S == {k \in 0..n : the(n + 1)[k] # the(n)[k]}
  <2> SUFFICES ASSUME S # {} PROVE FALSE
    OBVIOUS
  <2>1. PICK k \in S : \A x \in S : k <= x
    <3>1. S \subseteq Nat
      OBVIOUS
    <3> HIDE DEF S
    <3> QED BY <3>1, LeastElement
  <2>2. Joins(the(n), n) /\ Joins(the(n + 1), n + 1)
    <3>1. n + 1 \in Nat
      OBVIOUS
    <3> HIDE DEF Joins
    <3> QED BY <1>4, <3>1
  <2>3. k \in 0..n /\ k \in 0..(n + 1) /\ n + 1 \in Nat
    OBVIOUS
  <2> HIDE DEF Joins
  <2>4. /\ the(n)[k] = IF k = 0 THEN <<>> ELSE the(n)[k - 1] \o f[k]
        /\ the(n + 1)[k] = IF k = 0 THEN <<>> ELSE the(n + 1)[k - 1] \o f[k]
    BY <1>1, <2>2, <2>3
  <2>5. k # 0
    BY <2>1, <2>4
  <2>6. k - 1 \in 0..n /\ k - 1 \notin S
    BY <2>1, <2>3, <2>5
  <2>7. the(n + 1)[k - 1] = the(n)[k - 1]
    BY <2>6
  <2> QED BY <2>1, <2>4, <2>5, <2>7
<1>7. the(n + 1)[n + 1] = the(n + 1)[n] \o f[n + 1]
  <2>1. n + 1 \in Nat /\ n + 1 \in 0..(n + 1) /\ n + 1 # 0 /\ (n + 1) - 1 = n
    OBVIOUS
  <2>2. Joins(the(n + 1), n + 1)
    BY <1>4, <2>1
  <2> HIDE DEF Joins
  <2>3. the(n + 1)[n + 1] = the(n + 1)[(n + 1) - 1] \o f[n + 1]
    BY <1>1, <2>1, <2>2
  <2> QED BY <2>1, <2>3
<1>8. n \in 0..n /\ n + 1 \in Nat
  OBVIOUS
<1> QED BY <1>3, <1>5, <1>6, <1>7, <1>8

(* A finite set of numbers is bounded.                                     *)
LEMMA Bounded ==
  ASSUME NEW S, S \subseteq Nat, IsFiniteSet(S)
  PROVE  \E m \in Nat : \A x \in S : x <= m
<1>1. PICK s : s = InOrder(S)
  OBVIOUS
<1>2. /\ s \in Seq(S) /\ Len(s) \in Nat
      /\ \A j, k \in 1..Len(s) : j < k => s[j] < s[k]
      /\ \A e \in S : \E k \in 1..Len(s) : s[k] = e
  <2>1. s \in Seq(S)
    BY <1>1, InOrderSorts, Zenon
  <2>2. \A j, k \in 1..Len(s) : j < k => s[j] < s[k]
    BY <1>1, InOrderSorts, Zenon
  <2>3. \A e \in S : \E k \in 1..Len(s) : s[k] = e
    BY <1>1, InOrderSorts, Zenon
  <2> QED BY <2>1, <2>2, <2>3
<1> DEFINE n == Len(s)
<1>3. CASE n = 0
  BY <1>2, <1>3
<1>4. CASE n # 0
  <2>0. n \in 1..n
    BY <1>2, <1>4
  <2>1. n \in 1..n /\ s[n] \in Nat
    <3>1. s[n] \in S
      BY <1>2, <2>0, ElementOfSeq
    <3> QED BY <2>0, <3>1
  <2>2. ASSUME NEW x \in S PROVE x <= s[n]
    <3>1. PICK k \in 1..n : s[k] = x
      BY <1>2
    <3>2. k = n \/ k < n
      BY <1>2
    <3>3. k < n => s[k] < s[n]
      BY <1>2, <2>1
    <3> QED BY <2>1, <3>1, <3>2, <3>3
  <2> QED BY <2>1, <2>2
<1> QED BY <1>3, <1>4

(* Two sequences joined, index by index.                                   *)
LEMMA TwoParts ==
  ASSUME NEW T, NEW a, NEW b, a \in Seq(T), b \in Seq(T)
  PROVE  /\ a \o b \in Seq(T) /\ Len(a) \in Nat /\ Len(b) \in Nat
         /\ Len(a \o b) = Len(a) + Len(b) /\ DOMAIN (a \o b) = 1..(Len(a) + Len(b))
         /\ \A k \in 1..Len(a) : (a \o b)[k] = a[k]
         /\ \A k \in 1..Len(b) : (a \o b)[Len(a) + k] = b[k]
         /\ \A k \in 1..(Len(a) + Len(b)) :
              k \in 1..Len(a) \/ (k > Len(a) /\ k - Len(a) \in 1..Len(b) /\ (a \o b)[k] = b[k - Len(a)])
<1>1. PICK s : s = a \o b
  OBVIOUS
<1>2. PICK m, n : m = Len(a) /\ n = Len(b) /\ m \in Nat /\ n \in Nat
  BY LenProperties
<1>3. /\ s \in Seq(T) /\ Len(s) = m + n
      /\ \A k \in 1..(m + n) : s[k] = IF k <= m THEN a[k] ELSE b[k - m]
  BY <1>1, <1>2, ConcatProperties, Zenon
<1>4. DOMAIN s = 1..(m + n)
  BY <1>3, LenProperties
<1>5. \A k \in 1..m : s[k] = a[k]
  BY <1>2, <1>3
<1>6. ASSUME NEW k \in 1..n PROVE s[m + k] = b[k]
  <2>1. m + k \in 1..(m + n) /\ ~(m + k <= m) /\ (m + k) - m = k
    BY <1>2
  <2>2. s[m + k] = b[(m + k) - m]
    BY <1>3, <2>1
  <2> QED BY <2>1, <2>2
<1>7. \A k \in 1..(m + n) : k \in 1..m \/ (k > m /\ k - m \in 1..n /\ s[k] = b[k - m])
  BY <1>2, <1>3
<1> QED BY <1>1, <1>2, <1>3, <1>4, <1>5, <1>6, <1>7

(* s is a, of m members, b, of p, and c, of q.                             *)
Consists(s, a, b, c, m, p, q) ==
  /\ m = Len(a) /\ p = Len(b) /\ q = Len(c)
  /\ Len(s) = m + p + q /\ DOMAIN s = 1..(m + p + q)
  /\ \A k \in 1..m : s[k] = a[k]
  /\ \A k \in 1..p : s[m + k] = b[k]
  /\ \A k \in 1..q : s[m + p + k] = c[k]
  /\ \A k \in 1..(m + p + q) :
       \/ k \in 1..m
       \/ k > m /\ k - m \in 1..p /\ s[k] = b[k - m]
       \/ k > m + p /\ k - m - p \in 1..q /\ s[k] = c[k - m - p]

LEMMA ThreeParts ==
  ASSUME NEW T, NEW a, NEW b, NEW c, a \in Seq(T), b \in Seq(T), c \in Seq(T)
  PROVE  \E m, p, q \in Nat : Consists(a \o b \o c, a, b, c, m, p, q)
<1>0. PICK m, p, q : m = Len(a) /\ p = Len(b) /\ q = Len(c)
  OBVIOUS
<1>1. PICK u : u = a \o b
  OBVIOUS
<1>2. /\ u \in Seq(T) /\ m \in Nat /\ p \in Nat /\ q \in Nat /\ Len(u) = m + p
      /\ \A k \in 1..m : u[k] = a[k]
      /\ \A k \in 1..p : u[m + k] = b[k]
      /\ \A k \in 1..(m + p) : k \in 1..m \/ (k > m /\ k - m \in 1..p /\ u[k] = b[k - m])
  <2>1. Len(c) \in Nat
    BY LenProperties
  <2> QED BY <1>0, <1>1, <2>1, TwoParts
<1>3. PICK s : s = u \o c
  OBVIOUS
<1>4. /\ s \in Seq(T) /\ Len(s) = (m + p) + q /\ DOMAIN s = 1..((m + p) + q)
      /\ \A k \in 1..(m + p) : s[k] = u[k]
      /\ \A k \in 1..q : s[(m + p) + k] = c[k]
      /\ \A k \in 1..((m + p) + q) :
           k \in 1..(m + p) \/ (k > m + p /\ k - (m + p) \in 1..q /\ s[k] = c[k - (m + p)])
  <2>1. /\ u \o c \in Seq(T)
        /\ Len(u \o c) = Len(u) + Len(c) /\ DOMAIN (u \o c) = 1..(Len(u) + Len(c))
        /\ \A k \in 1..Len(u) : (u \o c)[k] = u[k]
        /\ \A k \in 1..Len(c) : (u \o c)[Len(u) + k] = c[k]
        /\ \A k \in 1..(Len(u) + Len(c)) :
             \/ k \in 1..Len(u)
             \/ k > Len(u) /\ k - Len(u) \in 1..Len(c) /\ (u \o c)[k] = c[k - Len(u)]
    <3>1. u \in Seq(T) /\ c \in Seq(T)
      BY <1>2
    <3>2. /\ u \o c \in Seq(T)
          /\ Len(u \o c) = Len(u) + Len(c) /\ DOMAIN (u \o c) = 1..(Len(u) + Len(c))
      BY <3>1, TwoParts
    <3>3. /\ \A k \in 1..Len(u) : (u \o c)[k] = u[k]
          /\ \A k \in 1..Len(c) : (u \o c)[Len(u) + k] = c[k]
      BY <3>1, TwoParts
    <3>4. \A k \in 1..(Len(u) + Len(c)) :
             \/ k \in 1..Len(u)
             \/ k > Len(u) /\ k - Len(u) \in 1..Len(c) /\ (u \o c)[k] = c[k - Len(u)]
      BY <3>1, TwoParts
    <3> QED BY <3>2, <3>3, <3>4
  <2>2. Len(u) = m + p /\ Len(c) = q
    BY <1>0, <1>2
  <2> QED BY <1>3, <2>1, <2>2
<1>5. \A k \in 1..m : s[k] = a[k]
  BY <1>2, <1>4
<1>6. \A k \in 1..p : s[m + k] = b[k]
  <2> TAKE k \in 1..p
  <2>1. m + k \in 1..(m + p)
    BY <1>2
  <2> QED BY <1>2, <1>4, <2>1
<1>7. ASSUME NEW k \in 1..(m + p + q)
      PROVE  \/ k \in 1..m
             \/ k > m /\ k - m \in 1..p /\ s[k] = b[k - m]
             \/ k > m + p /\ k - m - p \in 1..q /\ s[k] = c[k - m - p]
  <2>1. CASE k \in 1..(m + p)
    BY <1>2, <1>4, <2>1
  <2>2. CASE k > m + p /\ k - (m + p) \in 1..q /\ s[k] = c[k - (m + p)]
    <3>1. k - (m + p) = k - m - p
      BY <1>2
    <3> QED BY <2>2, <3>1
  <2> QED BY <1>4, <2>1, <2>2
<1>8. Len(s) = m + p + q /\ DOMAIN s = 1..(m + p + q)
  BY <1>4
<1>9. Consists(s, a, b, c, m, p, q)
  <2>1. \A k \in 1..q : s[m + p + k] = c[k]
    BY <1>4
  <2> QED BY <1>0, <1>5, <1>6, <1>7, <1>8, <2>1 DEF Consists
<1> QED BY <1>1, <1>2, <1>3, <1>9

(* What s[1] to s[n] joined consist of: J[m] is the first m joined; every  *)
(* member is in its place; and what ends with z goes on ending with z.     *)
Joining(J, s, n, z) ==
  /\ \A m \in 0..n : /\ J[m] = Joined(s, m)
                     /\ Len(J[m]) \in Nat /\ DOMAIN J[m] = 1..Len(J[m])
                     /\ Len(J[m]) = 0 \/ J[m][Len(J[m])] = z
                     /\ Len(J[m]) <= Len(J[n])
                     /\ \A k \in 1..Len(J[m]) : J[n][k] = J[m][k]
  /\ J[0] = <<>>
  /\ \A m \in 1..n : /\ Len(s[m]) \in Nat /\ Len(J[m]) = Len(J[m - 1]) + Len(s[m])
                     /\ \A j \in 1..Len(s[m]) : J[n][Len(J[m - 1]) + j] = s[m][j]
  /\ \A k \in 1..Len(J[n]) : \E m \in 1..n : k - Len(J[m - 1]) \in 1..Len(s[m])

LEMMA JoinedParts ==
  ASSUME NEW T, NEW z, NEW n \in Nat, NEW s,
         \A k \in 1..n : s[k] \in Seq(T) /\ (s[k] = <<>> \/ s[k][Len(s[k])] = z)
  PROVE  \E J : Joining(J, s, n, z)
<1>1. PICK J : J = [m \in 0..n |-> Joined(s, m)]
  OBVIOUS
<1>2. J[0] = <<>> /\ \A m \in 1..n : J[m] = J[m - 1] \o s[m]
  <2>1. Joined(s, 0) = <<>>
    BY RunningJoin
  <2>2. ASSUME NEW m \in 1..n
        PROVE  J[m] = J[m - 1] \o s[m]
    <3>1. m - 1 \in Nat /\ (m - 1) + 1 = m /\ m - 1 \in 0..n /\ m \in 0..n
      OBVIOUS
    <3>2. Joined(s, (m - 1) + 1) = Joined(s, m - 1) \o s[(m - 1) + 1]
      BY <3>1, RunningJoin
    <3> QED BY <1>1, <3>1, <3>2
  <2> QED BY <1>1, <2>1, <2>2
<1> DEFINE Whole(m) ==
             /\ J[m] \in Seq(T) /\ Len(J[m]) \in Nat
             /\ Len(J[m]) = 0 \/ J[m][Len(J[m])] = z
             /\ \A i \in 0..m : /\ Len(J[i]) \in Nat /\ Len(J[i]) <= Len(J[m])
                                /\ \A k \in 1..Len(J[i]) : J[m][k] = J[i][k]
             /\ \A k \in 1..Len(J[m]) : \E i \in 1..m : k - Len(J[i - 1]) \in 1..Len(s[i])
           Appended(m) ==
             /\ Len(s[m]) \in Nat /\ Len(J[m]) = Len(J[m - 1]) + Len(s[m])
             /\ \A j \in 1..Len(s[m]) : J[m][Len(J[m - 1]) + j] = s[m][j]
<1>3. Whole(0)
  BY <1>2, EmptySeq
<1>4. ASSUME NEW m \in 1..n, Whole(m - 1)
      PROVE  Whole(m) /\ Appended(m)
  <2>1. PICK a, b, c : a = J[m - 1] /\ b = s[m] /\ c = J[m]
    OBVIOUS
  <2>2. /\ a \in Seq(T) /\ Len(a) \in Nat
        /\ Len(a) = 0 \/ a[Len(a)] = z
        /\ \A i \in 0..(m - 1) : /\ Len(J[i]) \in Nat /\ Len(J[i]) <= Len(a)
                                 /\ \A k \in 1..Len(J[i]) : a[k] = J[i][k]
        /\ \A k \in 1..Len(a) : \E i \in 1..(m - 1) : k - Len(J[i - 1]) \in 1..Len(s[i])
    BY <1>4, <2>1
  <2>3. b \in Seq(T) /\ (b = <<>> \/ b[Len(b)] = z) /\ c = a \o b
    BY <1>2, <2>1
  <2>4. /\ c \in Seq(T) /\ Len(b) \in Nat /\ Len(c) = Len(a) + Len(b)
        /\ \A k \in 1..Len(a) : c[k] = a[k]
        /\ \A k \in 1..Len(b) : c[Len(a) + k] = b[k]
        /\ \A k \in 1..Len(c) : k \in 1..Len(a) \/ k - Len(a) \in 1..Len(b)
    BY <2>2, <2>3, TwoParts
  <2>5. Len(c) \in Nat /\ Len(a) <= Len(c)
    BY <2>2, <2>4
  <2>6. Len(c) = 0 \/ c[Len(c)] = z
    <3>1. CASE b = <<>>
      <4>1. Len(b) = 0
        BY <3>1
      <4>2. Len(c) = Len(a) /\ (Len(a) = 0 \/ Len(a) \in 1..Len(a))
        BY <2>2, <2>4, <4>1
      <4> QED BY <2>2, <2>4, <4>2
    <3>2. CASE b # <<>>
      <4>1. Len(b) \in 1..Len(b)
        BY <2>3, <2>4, <3>2, EmptySeq
      <4> QED BY <2>3, <2>4, <3>2, <4>1
    <3> QED BY <3>1, <3>2
  <2>7. ASSUME NEW i \in 0..m
        PROVE  /\ Len(J[i]) \in Nat /\ Len(J[i]) <= Len(c)
               /\ \A k \in 1..Len(J[i]) : c[k] = J[i][k]
    <3>1. CASE i = m
      BY <2>1, <2>5, <3>1
    <3>2. CASE i # m
      <4>1. i \in 0..(m - 1)
        BY <3>2
      <4>2. /\ Len(J[i]) \in Nat /\ Len(J[i]) <= Len(a)
            /\ \A k \in 1..Len(J[i]) : a[k] = J[i][k]
        BY <2>2, <4>1
      <4>3. \A k \in 1..Len(J[i]) : k \in 1..Len(a)
        BY <2>2, <4>2
      <4> QED BY <2>2, <2>4, <2>5, <4>2, <4>3
    <3> QED BY <3>1, <3>2
  <2>8. ASSUME NEW k \in 1..Len(c)
        PROVE  \E i \in 1..m : k - Len(J[i - 1]) \in 1..Len(s[i])
    <3>1. CASE k \in 1..Len(a)
      <4>1. PICK i \in 1..(m - 1) : k - Len(J[i - 1]) \in 1..Len(s[i])
        BY <2>2, <3>1
      <4> QED BY <4>1
    <3>2. CASE k - Len(a) \in 1..Len(b)
      <4>1. m \in 1..m
        OBVIOUS
      <4> QED BY <2>1, <3>2, <4>1
    <3> QED BY <2>4, <3>1, <3>2
  <2> QED BY <2>1, <2>4, <2>5, <2>6, <2>7, <2>8
<1> HIDE DEF Whole
<1>5. \A m \in 0..n : Whole(m)
  <2> DEFINE S == {m \in 0..n : ~Whole(m)}
  <2> SUFFICES ASSUME S # {} PROVE FALSE
    OBVIOUS
  <2>1. PICK m \in S : \A x \in S : m <= x
    <3>1. S \subseteq Nat
      OBVIOUS
    <3> HIDE DEF S
    <3> QED BY <3>1, LeastElement
  <2>2. m # 0
    BY <1>3
  <2>3. m \in 1..n /\ m - 1 \in 0..n /\ m - 1 \notin S
    BY <2>1, <2>2
  <2> QED BY <1>4, <2>1, <2>3
<1>6. \A m \in 1..n : Appended(m)
  <2> TAKE m \in 1..n
  <2>1. m - 1 \in 0..n
    OBVIOUS
  <2> QED BY <1>4, <1>5, <2>1
<1>7. Whole(n)
  BY <1>5
<1>8. ASSUME NEW m \in 0..n
      PROVE  /\ J[m] = Joined(s, m)
             /\ Len(J[m]) \in Nat /\ DOMAIN J[m] = 1..Len(J[m])
             /\ Len(J[m]) = 0 \/ J[m][Len(J[m])] = z
             /\ Len(J[m]) <= Len(J[n])
             /\ \A k \in 1..Len(J[m]) : J[n][k] = J[m][k]
  <2>1. Whole(m)
    BY <1>5
  <2>2. Len(J[m]) <= Len(J[n]) /\ \A k \in 1..Len(J[m]) : J[n][k] = J[m][k]
    BY <1>7 DEF Whole
  <2>3. DOMAIN J[m] = 1..Len(J[m])
    BY <2>1, LenProperties DEF Whole
  <2> QED BY <1>1, <2>1, <2>2, <2>3 DEF Whole
<1>9. ASSUME NEW m \in 1..n
      PROVE  /\ Len(s[m]) \in Nat /\ Len(J[m]) = Len(J[m - 1]) + Len(s[m])
             /\ \A j \in 1..Len(s[m]) : J[n][Len(J[m - 1]) + j] = s[m][j]
  <2>1. Appended(m)
    BY <1>6
  <2>2. m \in 0..n /\ m - 1 \in 0..n
    OBVIOUS
  <2>3. Len(J[m - 1]) \in Nat /\ \A k \in 1..Len(J[m]) : J[n][k] = J[m][k]
    BY <1>8, <2>2
  <2>4. PICK p, q, r : p = Len(J[m - 1]) /\ q = Len(s[m]) /\ r = Len(J[m])
    OBVIOUS
  <2>5. p \in Nat /\ q \in Nat /\ r = p + q
    BY <2>1, <2>3, <2>4
  <2>6. \A j \in 1..q : p + j \in 1..r
    BY <2>5
  <2>7. ASSUME NEW j \in 1..q
        PROVE  J[n][p + j] = s[m][j]
    <3>1. J[n][p + j] = J[m][p + j]
      BY <2>3, <2>4, <2>6
    <3> QED BY <2>1, <2>4, <3>1
  <2> QED BY <2>1, <2>4, <2>7
<1>10. \A k \in 1..Len(J[n]) : \E m \in 1..n : k - Len(J[m - 1]) \in 1..Len(s[m])
  BY <1>7 DEF Whole
<1> HIDE DEF Appended
<1>11. Joining(J, s, n, z)
  BY <1>2, <1>8, <1>9, <1>10 DEF Joining
<1> QED BY <1>11
=============================================================================
