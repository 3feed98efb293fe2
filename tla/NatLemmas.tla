------------------------------ MODULE NatLemmas ------------------------------
(***************************************************************************)
(* Least and greatest elements and sorted sets, for the proofs about a     *)
(* choice of the best and about the order of a queue: the strongest lag of *)
(* a profile, the nearest case of the library, the nodes of a search.      *)
(***************************************************************************)
EXTENDS Integers, FiniteSetTheorems, WellFoundedInduction, TLAPS

(* A set of naturals has a least one. *)
LEMMA Least ==
    ASSUME NEW T, T \subseteq Nat, T # {}
    PROVE  \E n \in T : \A m \in T : n <= m
<1>. DEFINE R == OpToRel(<, Nat)
<1>1. IsWellFoundedOn(R, Nat)
  BY NatLessThanWellFounded
<1>2. PICK n \in T : \A m \in T : ~(<<m, n>> \in R)
  BY <1>1, WFMin
<1>3. ASSUME NEW m \in T PROVE n <= m
  <2>1. m \in Nat /\ n \in Nat /\ ~(<<m, n>> \in R)
    BY <1>2
  <2>2. ~(m < n)
    BY <2>1 DEF OpToRel
  <2>. HIDE DEF R
  <2>. QED
    BY <2>1, <2>2, SMT
<1>. QED
  BY <1>3

(* A member of a set at which a measure of its members is least. *)
LEMMA LeastAt ==
    ASSUME NEW S, S # {}, NEW f, \A x \in S : f[x] \in Nat
    PROVE  \E x \in S : \A y \in S : f[x] <= f[y]
<1>. DEFINE T == {f[x] : x \in S}
<1>1. T \subseteq Nat /\ T # {}
  OBVIOUS
<1>2. PICK n \in T : \A m \in T : n <= m
  BY <1>1, Least
<1>. QED
  BY <1>2

(* A finite set of naturals has a greatest one: of the sets without, one    *)
(* with the fewest members would still be without after losing a member.    *)
LEMMA Greatest ==
    ASSUME NEW T, T \subseteq Nat, T # {}, IsFiniteSet(T)
    PROVE  \E n \in T : \A m \in T : m <= n
<1>. DEFINE Topless(U) == /\ U \subseteq Nat /\ U # {} /\ IsFiniteSet(U)
                          /\ \A n \in U : \E m \in U : ~(m <= n)
            Sizes == {Cardinality(U) : U \in {V \in SUBSET T : Topless(V)}}
<1>1. SUFFICES ASSUME Topless(T) PROVE FALSE
  OBVIOUS
<1>2. Sizes \subseteq Nat /\ Sizes # {}
  BY <1>1, FS_CardinalityType
<1>3. PICK k \in Sizes : \A l \in Sizes : k <= l
  BY <1>2, Least
<1>4. PICK U \in SUBSET T : Topless(U) /\ Cardinality(U) = k
  BY <1>3
<1>5. PICK x \in U : TRUE
  BY <1>4
<1>. DEFINE V == U \ {x}
<1>6. IsFiniteSet(V) /\ Cardinality(V) = k - 1 /\ k \in Nat
  BY <1>4, <1>5, FS_RemoveElement, FS_CardinalityType
<1>7. V # {}
  <2>1. PICK m \in U : ~(m <= x)
    BY <1>4, <1>5
  <2>. QED
    BY <1>4, <1>5, <2>1
<1>8. ~Topless(V)
  <2>1. Topless(V) => Cardinality(V) \in Sizes
    OBVIOUS
  <2>. HIDE DEF Sizes, Topless
  <2>. QED
    BY <1>3, <1>6, <2>1
<1>9. PICK n \in V : \A m \in V : m <= n
  BY <1>4, <1>6, <1>7, <1>8
<1>10. n \in Nat /\ x \in Nat /\ n \in U
  BY <1>4, <1>5, <1>9
<1>11. \E b \in U : \A m \in U : m <= b
  <2>1. CASE x <= n
    BY <1>9, <1>10, <2>1
  <2>2. CASE n <= x
    <3>1. ASSUME NEW m \in U PROVE m <= x
      <4>1. m \in Nat /\ (m = x \/ m <= n)
        BY <1>4, <1>9
      <4>. QED
        BY <1>10, <2>2, <4>1
    <3>. QED
      BY <1>5, <3>1
  <2>. QED
    BY <1>10, <2>1, <2>2
<1>. QED
  BY <1>4, <1>11

(* A member of a finite set at which a measure of its members is greatest. *)
LEMMA GreatestAt ==
    ASSUME NEW S, S # {}, IsFiniteSet(S), NEW f, \A x \in S : f[x] \in Nat
    PROVE  \E x \in S : \A y \in S : f[y] <= f[x]
<1>. DEFINE T == {f[x] : x \in S}
            g == [x \in S |-> f[x]]
<1>1. T \subseteq Nat /\ T # {}
  OBVIOUS
<1>2. g \in Surjection(S, T)
  BY DEF Surjection
<1>3. IsFiniteSet(T)
  BY <1>2, FS_Surjection
<1>4. PICK n \in T : \A m \in T : m <= n
  BY <1>1, <1>3, Greatest
<1>. QED
  BY <1>4

(* A finite set of naturals can be listed in increasing order: each member  *)
(* takes the place that the number of smaller ones gives it.                *)
LEMMA SortedListing ==
    ASSUME NEW S, S \subseteq Nat, IsFiniteSet(S)
    PROVE  \E s \in [1..Cardinality(S) -> S] :
               \A i, j \in 1..Cardinality(S) : i < j => s[i] < s[j]
<1>. DEFINE n == Cardinality(S)
            Below(m) == {l \in S : l < m}
            place == [m \in S |-> Cardinality(Below(m)) + 1]
<1>1. n \in Nat /\ IsFiniteSet(1..n) /\ Cardinality(1..n) = n
  <2>1. n \in Nat
    BY FS_CardinalityType
  <2>. QED
    BY <2>1, FS_Interval
<1>2. ASSUME NEW m \in S
      PROVE  IsFiniteSet(Below(m)) /\ Cardinality(Below(m)) \in 0..(n - 1)
  <2>1. IsFiniteSet(Below(m)) /\ Cardinality(Below(m)) <= n
        /\ (n = Cardinality(Below(m)) => S = Below(m))
    BY FS_Subset
  <2>2. S # Below(m)
    OBVIOUS
  <2>3. Cardinality(Below(m)) \in Nat
    BY <2>1, FS_CardinalityType
  <2>. QED
    BY <1>1, <2>1, <2>2, <2>3
<1>3. ASSUME NEW a \in S, NEW b \in S, a < b
      PROVE  Cardinality(Below(a)) < Cardinality(Below(b))
  <2>1. Below(a) \in SUBSET Below(b) /\ a \in Below(b) /\ a \notin Below(a)
    <3>1. a \in Nat /\ b \in Nat
      OBVIOUS
    <3>2. ASSUME NEW m \in S, m < a PROVE m < b
      BY <1>3, <3>1, <3>2
    <3>3. Below(a) \subseteq Below(b)
      BY <3>2
    <3>4. a \in Below(b) /\ a \notin Below(a)
      BY <1>3, <3>1
    <3>. QED
      BY <3>3, <3>4
  <2>2. Cardinality(Below(a)) <= Cardinality(Below(b))
        /\ Cardinality(Below(b)) # Cardinality(Below(a))
    BY <1>2, <2>1, FS_Subset
  <2>. HIDE DEF Below
  <2>. QED
    BY <1>2, <2>2
<1>4. place \in [S -> 1..n]
  <2>1. ASSUME NEW m \in S PROVE Cardinality(Below(m)) + 1 \in 1..n
    <3>. HIDE DEF Below
    <3>. QED
      BY <1>1, <1>2
  <2>. QED
    BY <2>1
<1>5. ASSUME NEW a \in S, NEW b \in S, a < b PROVE place[a] < place[b]
  <2>1. place[a] = Cardinality(Below(a)) + 1 /\ place[b] = Cardinality(Below(b)) + 1
    OBVIOUS
  <2>. HIDE DEF place, Below
  <2>. QED
    BY <1>2, <1>3, <1>5, <2>1
<1>6. place \in Injection(S, 1..n)
  <2>1. ASSUME NEW a \in S, NEW b \in S, place[a] = place[b] PROVE a = b
    <3>1. a \in Nat /\ b \in Nat /\ place[a] \in Nat /\ place[b] \in Nat
      BY <1>4
    <3>. HIDE DEF place
    <3>. QED
      BY <1>5, <2>1, <3>1
  <2>. HIDE DEF place
  <2>. QED
    BY <1>4, <2>1 DEF Injection, IsInjective
<1>7. \A i \in 1..n : \E m \in S : place[m] = i
  <2>1. place \in Surjection(S, 1..n)
    <3>. HIDE DEF place
    <3>. QED
      BY <1>1, <1>6, FS_Injection
  <2>. HIDE DEF place
  <2>. QED
    BY <2>1 DEF Surjection
<1>. DEFINE s == [i \in 1..n |-> CHOOSE m \in S : place[m] = i]
<1>8. ASSUME NEW i \in 1..n PROVE s[i] \in S /\ place[s[i]] = i
  <2>. HIDE DEF place
  <2>. QED
    BY <1>7
<1>9. ASSUME NEW i \in 1..n, NEW j \in 1..n, i < j PROVE s[i] < s[j]
  <2>. HIDE DEF place, s
  <2>1. s[i] \in Nat /\ s[j] \in Nat
    BY <1>8
  <2>2. place[s[i]] = i /\ place[s[j]] = j /\ s[i] \in S /\ s[j] \in S
    BY <1>8
  <2>3. ~(s[j] < s[i]) /\ s[i] # s[j]
    <3>1. s[j] < s[i] => j < i
      BY <1>5, <2>2
    <3>. QED
      BY <1>1, <1>9, <2>2, <3>1
  <2>. QED
    BY <2>1, <2>3
<1>10. s \in [1..n -> S]
  <2>. HIDE DEF place
  <2>. QED
    BY <1>8
<1>. HIDE DEF s
<1>. QED
  BY <1>9, <1>10

(* Every member is in an increasing listing. *)
LEMMA ListsAll ==
    ASSUME NEW S, S \subseteq Nat, IsFiniteSet(S),
           NEW s \in [1..Cardinality(S) -> S],
           \A i, j \in 1..Cardinality(S) : i < j => s[i] < s[j],
           NEW m \in S
    PROVE  \E i \in 1..Cardinality(S) : s[i] = m
<1>. DEFINE n == Cardinality(S)
<1>1. n \in Nat /\ IsFiniteSet(1..n) /\ Cardinality(1..n) = n
  <2>1. n \in Nat
    BY FS_CardinalityType
  <2>. QED
    BY <2>1, FS_Interval
<1>2. ASSUME NEW i \in 1..n, NEW j \in 1..n, s[i] = s[j] PROVE i = j
  <2>1. s[i] \in Nat /\ s[j] \in Nat /\ i \in Nat /\ j \in Nat
    <3>1. s[i] \in S /\ s[j] \in S
      OBVIOUS
    <3>2. i \in Nat /\ j \in Nat
      BY <1>1
    <3>. QED
      BY <3>1, <3>2
  <2>2. ~(i < j) /\ ~(j < i)
    BY <1>2, <2>1
  <2>. QED
    BY <2>1, <2>2
<1>3. s \in Injection(1..n, S)
  BY <1>2 DEF Injection, IsInjective
<1>4. s \in Surjection(1..n, S)
  BY <1>1, <1>3, FS_Injection
<1>. QED
  BY <1>4 DEF Surjection
=============================================================================
