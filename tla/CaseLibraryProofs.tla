------------------------- MODULE CaseLibraryProofs -------------------------
(***************************************************************************)
(* Proofs about CaseLibrary: for any finite set of workloads and verdicts, *)
(* any thresholds and any bound on the counters.                           *)
(***************************************************************************)
EXTENDS CaseLibrary, NatLemmas, FiniteSetTheorems, TLAPS

-----------------------------------------------------------------------------
(* Similarity *)

(* Quotient and remainder. *)
LEMMA Quotient ==
    ASSUME NEW x \in Nat, NEW n \in Nat \ {0}
    PROVE  x \div n \in Int /\ x % n \in 0..(n - 1) /\ x = n * (x \div n) + (x % n)
BY SMT

(* A share m/n of Unit is between none and all of it. *)
LEMMA Share ==
    ASSUME NEW n \in Nat \ {0}, NEW m \in 0..n
    PROVE  (Unit * m) \div n \in 0..Unit /\ (Unit * n) \div n = Unit
<1>1. Unit \in Nat \ {0}
  BY ThresholdAssumption
<1>2. ASSUME NEW k \in 0..n
      PROVE  /\ (Unit * k) \div n \in 0..Unit
             /\ k = n => (Unit * k) \div n = Unit
  <2>. DEFINE x == Unit * k
              q == x \div n
              r == x % n
  <2>1. x \in Nat /\ x <= Unit * n /\ (k = n => x = Unit * n) /\ x = Unit * k
    BY <1>1, SMT
  <2>2. q \in Int /\ r \in 0..(n - 1) /\ x = n * q + r
    <3>. HIDE DEF x
    <3>. QED
      BY <2>1, Quotient
  <2>. HIDE DEF x, q, r
  <2>3. q >= 0
    <3>. SUFFICES ASSUME q <= -1 PROVE FALSE
      BY <2>2
    <3>1. n * q <= -n
      BY <2>2, SMT
    <3>. QED
      BY <2>1, <2>2, <3>1
  <2>4. q <= Unit
    <3>. SUFFICES ASSUME q >= Unit + 1 PROVE FALSE
      BY <1>1, <2>2
    <3>1. n * q >= n * Unit + n
      BY <1>1, <2>2, SMT
    <3>2. n * Unit = Unit * n
      BY <1>1, SMT
    <3>. QED
      BY <1>1, <2>1, <2>2, <3>1, <3>2, SMT
  <2>5. ASSUME k = n PROVE q >= Unit
    <3>. SUFFICES ASSUME q <= Unit - 1 PROVE FALSE
      BY <1>1, <2>2
    <3>1. n * q <= n * Unit - n
      BY <1>1, <2>2, SMT
    <3>2. n * Unit = Unit * n
      BY <1>1, SMT
    <3>. QED
      BY <1>1, <2>1, <2>2, <2>5, <3>1, <3>2, SMT
  <2>6. q \in 0..Unit /\ (k = n => q = Unit)
    BY <1>1, <2>2, <2>3, <2>4, <2>5
  <2>. QED
    BY <2>6 DEF q, x
<1>3. n \in 0..n
  OBVIOUS
<1>. QED
  BY <1>2, <1>3

(* The Jaccard index of finite sets: symmetric, Unit of a set with itself.  *)
LEMMA JaccardFacts ==
    ASSUME NEW a, NEW b, IsFiniteSet(a), IsFiniteSet(b)
    PROVE  /\ Jaccard(a, b) \in 0..Unit
           /\ Jaccard(a, b) = Jaccard(b, a)
           /\ Jaccard(a, a) = Unit
<1>1. a \cup b = b \cup a /\ a \cap b = b \cap a /\ a \cup a = a /\ a \cap a = a
  OBVIOUS
<1>2. Unit \in 0..Unit
  BY ThresholdAssumption
<1>3. CASE a \cup b = {}
  BY <1>1, <1>2, <1>3 DEF Jaccard
<1>4. CASE a \cup b # {}
  <2>1. IsFiniteSet(a \cup b) /\ a \cap b \subseteq a \cup b
    BY FS_Union
  <2>2. /\ Cardinality(a \cup b) \in Nat \ {0}
        /\ Cardinality(a \cap b) \in 0..Cardinality(a \cup b)
    BY <1>4, <2>1, FS_CardinalityType, FS_EmptySet, FS_Subset
  <2>3. Jaccard(a, b) \in 0..Unit
    BY <1>4, <2>2, Share DEF Jaccard
  <2>4. Jaccard(a, a) = Unit
    <3>1. CASE a = {}
      BY <3>1 DEF Jaccard
    <3>2. CASE a # {}
      <4>1. Cardinality(a) \in Nat \ {0}
        BY <3>2, FS_CardinalityType, FS_EmptySet
      <4>2. (Unit * Cardinality(a)) \div Cardinality(a) = Unit
        BY <4>1, Share
      <4>. QED
        BY <1>1, <3>2, <4>2 DEF Jaccard
    <3>. QED
      BY <3>1, <3>2
  <2>. QED
    BY <1>1, <2>3, <2>4 DEF Jaccard
<1>. QED
  BY <1>3, <1>4

(* The parts of a fingerprint are finite. *)
LEMMA FingerprintFinite ==
    ASSUME NEW f \in Fingerprints
    PROVE  IsFiniteSet(f.victims) /\ IsFiniteSet(f.stressors) /\ IsFiniteSet(f.motif)
<1>1. PICK g \in Verdict : f = Fingerprint(g)
  BY DEF Fingerprints
<1>2. g.root \in Workload /\ g.edges \subseteq Edge /\ g.blast \subseteq Workload
  BY VerdictAssumption
<1>3. f.victims = Victims(g) /\ f.stressors = {g.root} /\ f.motif = Motif(g)
  BY <1>1 DEF Fingerprint
<1>4. \A e \in g.edges : e.src \in Workload /\ e.dst \in Workload
  BY <1>2 DEF Edge
<1>5. /\ Victims(g) \subseteq Workload
      /\ {g.root} \subseteq Workload
      /\ Motif(g) \subseteq Workload \X Workload
  BY <1>2, <1>4 DEF Victims, Motif
<1>6. IsFiniteSet(Workload \X Workload)
  BY VerdictAssumption, FS_Product
<1>. QED
  BY <1>3, <1>5, <1>6, VerdictAssumption, FS_Subset

(* _case_sim: bounded, symmetric, and greatest of a case with itself.       *)
LEMMA SimFacts ==
    ASSUME NEW f \in Fingerprints, NEW c \in Fingerprints
    PROVE  /\ CaseSim[<<f, c>>] \in 0..100 * Unit
           /\ CaseSim[<<f, c>>] = CaseSim[<<c, f>>]
           /\ CaseSim[<<f, f>>] = 100 * Unit
<1>1. /\ Jaccard(f.victims, c.victims) \in 0..Unit
      /\ Jaccard(f.stressors, c.stressors) \in 0..Unit
      /\ Jaccard(f.motif, c.motif) \in 0..Unit
      /\ Jaccard(f.victims, c.victims) = Jaccard(c.victims, f.victims)
      /\ Jaccard(f.stressors, c.stressors) = Jaccard(c.stressors, f.stressors)
      /\ Jaccard(f.motif, c.motif) = Jaccard(c.motif, f.motif)
      /\ Jaccard(f.victims, f.victims) = Unit
      /\ Jaccard(f.stressors, f.stressors) = Unit
      /\ Jaccard(f.motif, f.motif) = Unit
  BY FingerprintFinite, JaccardFacts
<1>2. Unit \in Nat
  BY ThresholdAssumption
<1>. QED
  BY <1>1, <1>2 DEF CaseSim

(* There are finitely many fingerprints. *)
LEMMA FingerprintsFinite == IsFiniteSet(Fingerprints)
<1>. DEFINE S == {h \in Verdict : Promotable(h)}
            m == [g \in S |-> Fingerprint(g)]
<1>1. IsFiniteSet(S)
  BY VerdictAssumption, FS_Subset
<1>2. m \in Surjection(S, Fingerprints)
  BY DEF Surjection, Fingerprints
<1>. HIDE DEF m
<1>. QED
  BY <1>1, <1>2, FS_Surjection

-----------------------------------------------------------------------------
(* Tables *)

(* Cases are numbered in the order they were stored. *)
RowsIn(t) == \A c \in Known(t) : t[c].rowid <= Cardinality(Known(t))

TableOK(t) == t \in Cases /\ SeparatedIn(t) /\ FamiliesIn(t) /\ RowsIn(t)

NewCase(t, family) == [occurrences |-> 1, family |-> family, rowid |-> Cardinality(Known(t)) + 1]

(* The tables after a new case, and after another occurrence. *)
With(t, f, family) == [t EXCEPT ![f] = NewCase(t, family)]
Again(t, c) == [t EXCEPT ![c].occurrences = Bump(@)]

(* The known cases are finitely many, and there is room for the others.     *)
LEMMA KnownFacts ==
    ASSUME NEW t
    PROVE  /\ Known(t) \subseteq Fingerprints /\ IsFiniteSet(Known(t))
           /\ Cardinality(Known(t)) \in Nat /\ Cardinality(Fingerprints) \in Nat
<1>1. Known(t) \subseteq Fingerprints
  BY DEF Known
<1>. QED
  BY <1>1, FingerprintsFinite, FS_Subset, FS_CardinalityType

LEMMA Room ==
    ASSUME NEW t, NEW f \in Fingerprints \ Known(t)
    PROVE  /\ Cardinality(Known(t) \cup {f}) = Cardinality(Known(t)) + 1
           /\ Cardinality(Known(t)) + 1 <= Cardinality(Fingerprints)
<1>1. Cardinality(Known(t) \cup {f}) = Cardinality(Known(t)) + 1
  BY KnownFacts, FS_AddElement
<1>2. Known(t) \cup {f} \subseteq Fingerprints
  BY KnownFacts
<1>3. Cardinality(Known(t) \cup {f}) <= Cardinality(Fingerprints)
  BY <1>2, FingerprintsFinite, FS_Subset
<1>. QED
  BY <1>1, <1>3

(* What a known case is made of. *)
LEMMA KnownCase ==
    ASSUME NEW t \in Cases, NEW c \in Known(t)
    PROVE  /\ c \in Fingerprints /\ t[c] \in Case
           /\ t[c].occurrences \in 1..CountCap /\ t[c].family \in Fingerprints
           /\ t[c].rowid \in Nat \ {0}
BY KnownFacts DEF Known, Cases, Case

(* Storing one case more. *)
LEMMA Grown ==
    ASSUME NEW t \in Cases, NEW f \in Fingerprints \ Known(t), NEW family \in Fingerprints
    PROVE  /\ With(t, f, family) \in Cases
           /\ Known(With(t, f, family)) = Known(t) \cup {f}
           /\ With(t, f, family)[f] = NewCase(t, family)
           /\ \A c \in Known(t) : With(t, f, family)[c] = t[c]
<1>. DEFINE u == With(t, f, family)
            n == Cardinality(Known(t))
            m == Cardinality(Fingerprints)
<1>1. n \in Nat /\ m \in Nat /\ n + 1 <= m /\ CountCap \in Nat \ {0, 1}
  BY KnownFacts, Room, ThresholdAssumption
<1>2. NewCase(t, family) \in Case
  <2>1. n + 1 \in 1..m /\ 1 \in 1..CountCap
    <3>. HIDE DEF n, m
    <3>. QED
      BY <1>1
  <2>. QED
    BY <2>1 DEF NewCase, Case
<1>3. u \in Cases /\ u[f] = NewCase(t, family) /\ \A c \in Fingerprints \ {f} : u[c] = t[c]
  BY <1>2 DEF Cases, With
<1>. HIDE DEF u
<1>4. Known(u) = Known(t) \cup {f}
  BY <1>2, <1>3, NoneAssumption DEF Known
<1>5. \A c \in Known(t) : u[c] = t[c]
  BY <1>3, KnownFacts
<1>. QED
  BY <1>3, <1>4, <1>5 DEF u

(* A new case that is like none of the old ones, and either opens a family  *)
(* or joins that of the nearest, leaves the library in order.               *)
LEMMA StoredOK ==
    ASSUME NEW t, TableOK(t), NEW f \in Fingerprints \ Known(t), NEW family \in Fingerprints,
           \A d \in Known(t) : CaseSim[<<f, d>>] < TauMerge * Unit,
           \/ /\ family = f
              /\ \A d \in Known(t) : CaseSim[<<f, d>>] < TauFamily * Unit
           \/ \E d \in Known(t) :
                 /\ t[d].family = family
                 /\ CaseSim[<<f, d>>] >= TauFamily * Unit
                 /\ \A o \in Known(t) : CaseSim[<<f, o>>] <= CaseSim[<<f, d>>]
    PROVE  TableOK(With(t, f, family))
<1>. DEFINE u == With(t, f, family)
            n == Cardinality(Known(t))
            m == Cardinality(Known(u))
<1>0. t \in Cases /\ RowsIn(t) /\ n \in Nat
  BY KnownFacts DEF TableOK
<1>1. /\ u \in Cases
      /\ Known(u) = Known(t) \cup {f}
      /\ m = n + 1
      /\ u[f] = NewCase(t, family)
      /\ \A c \in Known(t) : u[c] = t[c]
  BY <1>0, Grown, Room
<1>2. u[f].family = family /\ u[f].rowid = n + 1
  BY <1>1 DEF NewCase
<1>3. \A c \in Known(t) : t[c].rowid \in Nat /\ t[c].rowid <= n /\ c \in Fingerprints /\ c # f
  BY <1>0, KnownCase DEF RowsIn
<1>. HIDE DEF u, n
<1>9. /\ u[f].rowid \in Nat
       /\ \A c \in Known(t) : /\ u[c].rowid \in Nat /\ u[c].rowid = t[c].rowid
                              /\ u[c].rowid < u[f].rowid /\ u[c].rowid <= n
  BY <1>0, <1>1, <1>2, <1>3
<1>4. RowsIn(u)
  <2>1. \A c \in Known(u) : u[c].rowid <= m
    <3>. HIDE DEF m
    <3>. QED
      BY <1>0, <1>1, <1>2, <1>9
  <2>. QED
    BY <2>1 DEF RowsIn
<1>5. SeparatedIn(u)
  <2>. SUFFICES ASSUME NEW c \in Known(u), NEW d \in Known(u), c # d
                PROVE  CaseSim[<<c, d>>] < TauMerge * Unit
    BY DEF SeparatedIn
  <2>1. CASE c = f
    BY <1>1, <2>1
  <2>2. CASE d = f
    <3>1. c \in Known(t) /\ c \in Fingerprints
      BY <1>1, <1>3, <2>2
    <3>2. CaseSim[<<c, f>>] = CaseSim[<<f, c>>]
      BY <3>1, SimFacts
    <3>. QED
      BY <2>2, <3>1, <3>2
  <2>3. CASE c # f /\ d # f
    BY <1>1, <2>3 DEF TableOK, SeparatedIn
  <2>. QED
    BY <2>1, <2>2, <2>3
<1>6. OlderThan(u, f) = Known(t)
  BY <1>1, <1>9 DEF OlderThan
<1>7. ASSUME NEW c \in Known(t) PROVE OlderThan(u, c) = OlderThan(t, c)
  <2>1. ~(u[f].rowid < u[c].rowid)
    BY <1>9
  <2>. QED
    BY <1>1, <1>9, <2>1 DEF OlderThan
<1>8. FamiliesIn(u)
  <2>. SUFFICES ASSUME NEW c \in Known(u)
                PROVE  /\ u[c].family \in Known(u)
                       /\ u[u[c].family].family = u[c].family
                       /\ IF u[c].family = c
                          THEN \A d \in OlderThan(u, c) : CaseSim[<<c, d>>] < TauFamily * Unit
                          ELSE \E d \in OlderThan(u, c) :
                                  /\ u[d].family = u[c].family
                                  /\ CaseSim[<<c, d>>] >= TauFamily * Unit
                                  /\ \A o \in OlderThan(u, c) : CaseSim[<<c, o>>] <= CaseSim[<<c, d>>]
    BY DEF FamiliesIn
  <2>1. CASE c = f
    <3>1. CASE family = f /\ \A d \in Known(t) : CaseSim[<<f, d>>] < TauFamily * Unit
      BY <1>1, <1>2, <1>6, <2>1, <3>1
    <3>2. ASSUME NEW d \in Known(t),
                 t[d].family = family, CaseSim[<<f, d>>] >= TauFamily * Unit,
                 \A o \in Known(t) : CaseSim[<<f, o>>] <= CaseSim[<<f, d>>]
          PROVE  /\ family \in Known(t) /\ t[family].family = family
                 /\ \E x \in OlderThan(u, f) :
                       /\ u[x].family = family
                       /\ CaseSim[<<f, x>>] >= TauFamily * Unit
                       /\ \A o \in OlderThan(u, f) : CaseSim[<<f, o>>] <= CaseSim[<<f, x>>]
      <4>1. family \in Known(t) /\ t[family].family = family
        BY <3>2 DEF TableOK, FamiliesIn
      <4>2. u[d].family = family
        BY <1>1, <3>2
      <4>. QED
        BY <1>6, <3>2, <4>1, <4>2
    <3>3. CASE family \in Known(t) /\ t[family].family = family
               /\ \E x \in OlderThan(u, f) :
                       /\ u[x].family = family
                       /\ CaseSim[<<f, x>>] >= TauFamily * Unit
                       /\ \A o \in OlderThan(u, f) : CaseSim[<<f, o>>] <= CaseSim[<<f, x>>]
      <4>1. family # f /\ u[family].family = family
        BY <1>1, <3>3
      <4>. QED
        BY <1>1, <1>2, <2>1, <3>3, <4>1
    <3>. QED
      BY <3>1, <3>2, <3>3
  <2>2. CASE c \in Known(t)
    <3>1. /\ t[c].family \in Known(t)
          /\ t[t[c].family].family = t[c].family
          /\ IF t[c].family = c
             THEN \A d \in OlderThan(t, c) : CaseSim[<<c, d>>] < TauFamily * Unit
             ELSE \E d \in OlderThan(t, c) :
                     /\ t[d].family = t[c].family
                     /\ CaseSim[<<c, d>>] >= TauFamily * Unit
                     /\ \A o \in OlderThan(t, c) : CaseSim[<<c, o>>] <= CaseSim[<<c, d>>]
      BY <2>2 DEF TableOK, FamiliesIn
    <3>2. u[c] = t[c] /\ OlderThan(u, c) = OlderThan(t, c) /\ u[t[c].family] = t[t[c].family]
      BY <1>1, <1>7, <2>2, <3>1
    <3>3. \A d \in OlderThan(t, c) : u[d] = t[d]
      BY <1>1 DEF OlderThan
    <3>. QED
      BY <1>1, <3>1, <3>2, <3>3
  <2>. QED
    BY <1>1, <2>1, <2>2
<1>. QED
  BY <1>1, <1>4, <1>5, <1>8 DEF TableOK, u

(* One occurrence more changes nothing else about a case. *)
LEMMA Counted ==
    ASSUME NEW t, TableOK(t), NEW c \in Known(t)
    PROVE  LET u == Again(t, c)
           IN  /\ TableOK(u) /\ Known(u) = Known(t)
               /\ \A d \in Known(t) : u[d].family = t[d].family /\ u[d].rowid = t[d].rowid
               /\ u[c].occurrences = Bump(t[c].occurrences)
               /\ \A d \in Known(t) \ {c} : u[d] = t[d]
<1>. DEFINE u == Again(t, c)
<1>1. t \in Cases /\ c \in Fingerprints /\ t[c] \in Case /\ CountCap \in Nat \ {0, 1}
  BY KnownCase, ThresholdAssumption DEF TableOK
<1>2. Bump(t[c].occurrences) \in 1..CountCap
  BY <1>1 DEF Bump, Case
<1>. DEFINE w == [t[c] EXCEPT !.occurrences = Bump(t[c].occurrences)]
<1>3. /\ w \in Case /\ w.family = t[c].family /\ w.rowid = t[c].rowid
      /\ w.occurrences = Bump(t[c].occurrences)
  BY <1>1, <1>2 DEF Case
<1>4. u = [t EXCEPT ![c] = w]
  BY DEF Again
<1>. HIDE DEF u, w
<1>5. u \in Cases /\ u[c] = w /\ \A d \in Fingerprints \ {c} : u[d] = t[d]
  BY <1>1, <1>3, <1>4 DEF Cases
<1>6. Known(u) = Known(t)
  BY <1>3, <1>5, NoneAssumption DEF Known
<1>7. \A d \in Known(t) : u[d].family = t[d].family /\ u[d].rowid = t[d].rowid
  BY <1>3, <1>5, KnownFacts
<1>8. \A d \in Known(t) : OlderThan(u, d) = OlderThan(t, d)
  BY <1>6, <1>7 DEF OlderThan
<1>9. \A d \in Known(t) \ {c} : u[d] = t[d]
  BY <1>5, KnownFacts
<1>10. FamiliesIn(u)
  <2>. SUFFICES ASSUME NEW d \in Known(t)
                PROVE  /\ u[d].family \in Known(t)
                       /\ u[u[d].family].family = u[d].family
                       /\ IF u[d].family = d
                          THEN \A e \in OlderThan(t, d) : CaseSim[<<d, e>>] < TauFamily * Unit
                          ELSE \E e \in OlderThan(t, d) :
                                  /\ u[e].family = u[d].family
                                  /\ CaseSim[<<d, e>>] >= TauFamily * Unit
                                  /\ \A o \in OlderThan(t, d) : CaseSim[<<d, o>>] <= CaseSim[<<d, e>>]
    BY <1>6, <1>8 DEF FamiliesIn
  <2>1. /\ t[d].family \in Known(t)
        /\ t[t[d].family].family = t[d].family
        /\ IF t[d].family = d
           THEN \A e \in OlderThan(t, d) : CaseSim[<<d, e>>] < TauFamily * Unit
           ELSE \E e \in OlderThan(t, d) :
                   /\ t[e].family = t[d].family
                   /\ CaseSim[<<d, e>>] >= TauFamily * Unit
                   /\ \A o \in OlderThan(t, d) : CaseSim[<<d, o>>] <= CaseSim[<<d, e>>]
    BY DEF TableOK, FamiliesIn
  <2>2. u[d].family = t[d].family /\ u[t[d].family].family = t[t[d].family].family
    BY <1>7, <2>1
  <2>3. \A e \in OlderThan(t, d) : u[e].family = t[e].family
    BY <1>7 DEF OlderThan
  <2>. QED
    BY <2>1, <2>2, <2>3
<1>11. SeparatedIn(u) /\ RowsIn(u)
  BY <1>6, <1>7 DEF TableOK, SeparatedIn, RowsIn
<1>. QED
  BY <1>3, <1>5, <1>6, <1>7, <1>9, <1>10, <1>11 DEF TableOK, u

(* A case at or above a threshold means a nearest one. *)
LEMMA NearestExists ==
    ASSUME cases \in Cases, NEW f \in Fingerprints, NEW tau \in 1..100,
           NEW c \in Known(cases), CaseSim[<<f, c>>] >= tau * Unit
    PROVE  Nearest(f, tau) # {}
<1>. DEFINE S == Known(cases)
            far == [d \in S |-> 100 * Unit - CaseSim[<<f, d>>]]
<1>1. /\ Unit \in Nat \ {0} /\ tau * Unit \in Nat /\ tau * Unit > 0
      /\ \A d \in S : CaseSim[<<f, d>>] \in Nat /\ far[d] \in Nat /\ cases[d].rowid \in Nat
  <2>1. Unit \in Nat \ {0}
    BY ThresholdAssumption
  <2>2. tau * Unit \in Nat /\ tau * Unit > 0
    BY <2>1, SMT
  <2>3. ASSUME NEW d \in S
        PROVE  CaseSim[<<f, d>>] \in Nat /\ far[d] \in Nat /\ cases[d].rowid \in Nat
    <3>1. d \in Fingerprints /\ cases[d].rowid \in Nat
      BY KnownCase
    <3>2. CaseSim[<<f, d>>] \in 0..100 * Unit
      BY <3>1, SimFacts
    <3>. QED
      BY <2>1, <3>1, <3>2
  <2>. QED
    BY <2>1, <2>2, <2>3
<1>2. PICK x \in S : \A d \in S : far[x] <= far[d]
  BY <1>1, LeastAt
<1>3. \A d \in S : CaseSim[<<f, d>>] <= CaseSim[<<f, x>>]
  BY <1>1, <1>2
<1>. DEFINE T == {d \in S : CaseSim[<<f, d>>] = CaseSim[<<f, x>>]}
            row == [d \in T |-> cases[d].rowid]
<1>4. PICK y \in T : \A d \in T : row[y] <= row[d]
  <2>1. x \in T /\ \A d \in T : row[d] \in Nat
    BY <1>1
  <2>. HIDE DEF T, row
  <2>. QED
    BY <2>1, LeastAt
<1>5. /\ y \in Known(cases)
      /\ CaseSim[<<f, y>>] > 0 /\ CaseSim[<<f, y>>] >= tau * Unit
  BY <1>1, <1>3, <1>4
<1>6. ASSUME NEW d \in Known(cases)
      PROVE  \/ CaseSim[<<f, d>>] < CaseSim[<<f, y>>]
             \/ CaseSim[<<f, d>>] = CaseSim[<<f, y>>] /\ cases[y].rowid <= cases[d].rowid
  <2>1. CASE d \in T
    BY <1>4, <2>1
  <2>2. CASE d \notin T
    BY <1>1, <1>3, <1>4, <2>2
  <2>. QED
    BY <2>1, <2>2
<1>7. y \in Nearest(f, tau)
  <2>. HIDE DEF T
  <2>. QED
    BY <1>5, <1>6 DEF Nearest
<1>. QED
  BY <1>7

-----------------------------------------------------------------------------
(* The library through passes, failures and restarts *)

(* A decision that holds of a table. *)
Told(d, t) ==
    /\ d.register # "none"
    /\ d.id \in Known(t) /\ t[d.id].family = d.family
    /\ d.register = "recurrence" => t[d.id].occurrences > 1
    /\ d.register = "variant" => d.family # d.id

(* What one table keeps of another. *)
Keeps(t, seen, u, useen) ==
    \A c \in Known(t) :
        /\ c \in Known(u)
        /\ u[c].family = t[c].family
        /\ u[c].rowid = t[c].rowid
        /\ u[c].occurrences >= t[c].occurrences
        /\ useen[c] >= seen[c]

(* A decision whose observation is not written yet has been counted. *)
Uncounted ==
    \/ observations[decision.id] < cases[decision.id].occurrences
    \/ cases[decision.id].occurrences = CountCap

Stages ==
    /\ pc = "case" => verdict \in Verdict /\ Promotable(verdict)
    /\ pc = "observation" => Told(decision, cases) /\ Uncounted
    /\ (pc \in {"commit", "render"} /\ decision.register # "none") =>
          Told(decision, cases) /\ observations[decision.id] > 0
    /\ pc = "render" => saved.cases = cases /\ saved.observations = observations
    /\ (pc = "idle" /\ answer.register # "none") =>
          Told(answer, saved.cases) /\ saved.observations[answer.id] > 0

CInv ==
    /\ CTypeOK
    /\ TableOK(cases) /\ TableOK(saved.cases)
    /\ Counts
    /\ Keeps(saved.cases, saved.observations, cases, observations)
    /\ Stages

(* Nothing stored, nothing counted. *)
LEMMA CInitInv == CInit => CInv
<1>. SUFFICES ASSUME CInit PROVE CInv
  OBVIOUS
<1>1. Known(NoCases) = {}
  BY DEF Known, NoCases
<1>2. NoCases \in Cases
  BY DEF NoCases, Cases
<1>3. TableOK(NoCases)
  BY <1>1, <1>2 DEF TableOK, SeparatedIn, FamiliesIn, RowsIn
<1>4. CountCap \in Nat
  BY ThresholdAssumption
<1>5. NoObservations \in [Fingerprints -> 0..CountCap] /\ CountsIn(NoCases, NoObservations)
  BY <1>4 DEF NoObservations, CountsIn
<1>6. NoDecision \in Decisions /\ NoDecision.register = "none"
  BY DEF NoDecision, Decision, Decisions
<1>7. CTypeOK
  BY <1>2, <1>5, <1>6 DEF CInit, CTypeOK
<1>. QED
  BY <1>1, <1>3, <1>5, <1>6, <1>7 DEF CInit, CInv, Counts, Keeps, Stages

(* A table keeps what it is. *)
LEMMA KeepsItself ==
    ASSUME NEW t \in Cases, NEW seen \in [Fingerprints -> 0..CountCap]
    PROVE  Keeps(t, seen, t, seen)
<1>1. CountCap \in Nat
  BY ThresholdAssumption
<1>2. ASSUME NEW c \in Known(t)
      PROVE  t[c].occurrences >= t[c].occurrences /\ seen[c] >= seen[c]
  <2>1. t[c].occurrences \in Int /\ seen[c] \in Int
    BY <1>1, KnownCase
  <2>. QED
    BY <2>1
<1>. QED
  BY <1>2 DEF Keeps

LEMMA StartPassInv == ASSUME CInv, StartPass PROVE CInv'
<1>1. NoDecision \in Decisions /\ NoDecision.register = "none"
  BY DEF NoDecision, Decision, Decisions
<1>2. saved'.cases = cases /\ saved'.observations = observations /\ UNCHANGED <<cases, observations, answer>>
  BY DEF StartPass
<1>3. CTypeOK'
  BY <1>1, <1>2 DEF CInv, CTypeOK, StartPass
<1>4. Keeps(saved'.cases, saved'.observations, cases', observations')
  BY <1>2, KeepsItself DEF CInv, CTypeOK
<1>5. Stages'
  BY <1>1, <1>2 DEF Stages, StartPass
<1>6. TableOK(cases)' /\ TableOK(saved.cases)' /\ Counts'
  BY <1>2 DEF CInv, Counts
<1>. QED
  BY <1>3, <1>4, <1>5, <1>6 DEF CInv

LEMMA CommitInv == ASSUME CInv, Commit PROVE CInv'
<1>1. /\ saved'.cases = cases /\ saved'.observations = observations
      /\ UNCHANGED <<cases, observations, verdict, decision, answer, passes>>
      /\ pc = "commit" /\ pc' = "render"
  BY DEF Commit
<1>2. CTypeOK'
  BY <1>1 DEF CInv, CTypeOK
<1>3. Keeps(saved'.cases, saved'.observations, cases', observations')
  BY <1>1, KeepsItself DEF CInv, CTypeOK
<1>4. Stages'
  BY <1>1 DEF CInv, Stages
<1>5. TableOK(cases)' /\ TableOK(saved.cases)' /\ Counts'
  BY <1>1 DEF CInv, Counts
<1>. QED
  BY <1>2, <1>3, <1>4, <1>5 DEF CInv

LEMMA PublishInv == ASSUME CInv, Publish PROVE CInv'
<1>1. /\ UNCHANGED <<cases, observations, saved, decision, verdict, passes>>
      /\ answer' = decision /\ pc = "render" /\ pc' = "idle"
  BY DEF Publish
<1>2. CTypeOK'
  BY <1>1 DEF CInv, CTypeOK
<1>3. Stages'
  BY <1>1 DEF CInv, Stages
<1>. QED
  BY <1>1, <1>2, <1>3 DEF CInv, Counts

(* A failure or a restart takes the tables back to what is saved, or leaves *)
(* them as they are.                                                        *)
LEMMA FaultInv == ASSUME CInv, PassFails \/ Restart PROVE CInv'
<1>1. NoDecision \in Decisions /\ NoDecision.register = "none"
  BY DEF NoDecision, Decision, Decisions
<1>2. /\ saved' = saved /\ passes' = passes /\ pc' = "idle" /\ verdict' = None
      /\ decision' = NoDecision /\ answer' = NoDecision
  BY DEF PassFails, Restart
<1>3. \/ cases' = cases /\ observations' = observations
      \/ cases' = saved.cases /\ observations' = saved.observations
  BY DEF PassFails, Restart
<1>4. CTypeOK'
  BY <1>1, <1>2, <1>3 DEF CInv, CTypeOK
<1>5. Stages'
  BY <1>1, <1>2 DEF Stages
<1>6. Keeps(saved.cases, saved.observations, saved.cases, saved.observations)
  BY KeepsItself DEF CInv, CTypeOK
<1>. QED
  BY <1>2, <1>3, <1>4, <1>5, <1>6 DEF CInv, Counts

(* Counting goes up, by one, or stays at the bound. *)
LEMMA BumpFacts ==
    ASSUME NEW n \in 0..CountCap
    PROVE  /\ Bump(n) \in 1..CountCap /\ Bump(n) >= n
           /\ n > 0 => Bump(n) > 1
           /\ n < Bump(n) \/ Bump(n) = CountCap
BY ThresholdAssumption DEF Bump

LEMMA ObservationInv == ASSUME CInv, Observation PROVE CInv'
<1>. DEFINE i == decision.id
            n == observations[i]
<1>1. /\ i \in Known(cases) /\ i \in Fingerprints /\ n \in 0..CountCap
      /\ cases[i].occurrences \in 1..CountCap /\ CountCap \in Nat
      /\ observations \in [Fingerprints -> 0..CountCap]
      /\ Told(decision, cases) /\ Uncounted
  BY KnownCase, ThresholdAssumption DEF Observation, CInv, CTypeOK, Stages, Told
<1>2. /\ UNCHANGED <<cases, saved, verdict, decision, answer, passes>>
      /\ pc' = "commit" /\ observations' = [observations EXCEPT ![i] = Bump(n)]
  BY DEF Observation
<1>3. Bump(n) \in 1..CountCap /\ Bump(n) >= n
  BY <1>1, BumpFacts
<1>4. /\ observations' \in [Fingerprints -> 0..CountCap]
      /\ observations'[i] = Bump(n) /\ \A f \in Fingerprints \ {i} : observations'[f] = observations[f]
  <2>1. Bump(n) \in 0..CountCap
    BY <1>1, <1>3
  <2>. HIDE DEF i, n
  <2>. QED
    BY <1>1, <1>2, <2>1
<1>5. Bump(n) <= cases[i].occurrences
  BY <1>1, <1>3, ThresholdAssumption DEF Uncounted, Bump
<1>. HIDE DEF i, n
<1>6. CTypeOK'
  BY <1>2, <1>4 DEF CInv, CTypeOK
<1>7. CountsIn(cases', observations')
  <2>. SUFFICES ASSUME NEW f \in Fingerprints, observations'[f] > 0
                PROVE  f \in Known(cases) /\ observations'[f] <= cases[f].occurrences
    BY <1>2 DEF CountsIn
  <2>1. CASE f = i
    BY <1>1, <1>4, <1>5, <2>1
  <2>2. CASE f # i
    BY <1>4, <2>2 DEF CInv, Counts, CountsIn
  <2>. QED
    BY <2>1, <2>2
<1>8. Keeps(saved.cases, saved.observations, cases, observations')
  <2>. SUFFICES ASSUME NEW c \in Known(saved.cases) PROVE observations'[c] >= saved.observations[c]
    BY DEF CInv, Keeps
  <2>1. /\ c \in Fingerprints /\ observations[c] >= saved.observations[c]
        /\ observations[c] \in 0..CountCap /\ saved.observations[c] \in 0..CountCap
    BY KnownFacts DEF CInv, CTypeOK, Keeps
  <2>2. observations'[c] >= observations[c] /\ observations'[c] \in Int
    <3>1. CASE c = i
      BY <1>1, <1>3, <1>4, <3>1 DEF n
    <3>2. CASE c # i
      BY <1>1, <1>4, <2>1, <3>2
    <3>. QED
      BY <3>1, <3>2
  <2>. QED
    BY <1>1, <2>1, <2>2
<1>9. Stages'
  <2>1. observations'[i] > 0 /\ decision' = decision /\ cases' = cases
    BY <1>1, <1>2, <1>3, <1>4
  <2>. QED
    BY <1>1, <1>2, <2>1 DEF Stages, Told, i
<1>. QED
  BY <1>2, <1>6, <1>7, <1>8, <1>9 DEF CInv, Counts

(* A verdict folded into a known case. *)
LEMMA RecurrenceInv ==
    ASSUME CInv, pc = "case", NEW f \in Fingerprints, Recurrence(f)
    PROVE  CInv'
<1>1. PICK c \in Nearest(f, TauMerge) :
          Decide("recurrence", c, cases[c].family, [cases EXCEPT ![c].occurrences = Bump(@)])
  BY DEF Recurrence
<1>2. /\ c \in Known(cases) /\ c \in Fingerprints /\ cases[c].family \in Fingerprints
      /\ cases[c].occurrences \in 1..CountCap /\ CountCap \in Nat
      /\ cases \in Cases /\ TableOK(cases)
  BY KnownCase, ThresholdAssumption DEF Nearest, CInv, CTypeOK
<1>3. /\ cases' = Again(cases, c) /\ decision' = Decision("recurrence", c, cases[c].family)
      /\ pc' = "observation" /\ UNCHANGED <<observations, saved, verdict, answer, passes>>
  BY <1>1 DEF Decide, Again
<1>4. /\ TableOK(cases') /\ Known(cases') = Known(cases)
      /\ \A d \in Known(cases) : cases'[d].family = cases[d].family /\ cases'[d].rowid = cases[d].rowid
      /\ cases'[c].occurrences = Bump(cases[c].occurrences)
      /\ \A d \in Known(cases) \ {c} : cases'[d] = cases[d]
  BY <1>2, <1>3, Counted
<1>5. /\ Bump(cases[c].occurrences) \in 1..CountCap
      /\ Bump(cases[c].occurrences) >= cases[c].occurrences /\ Bump(cases[c].occurrences) > 1
      /\ \/ cases[c].occurrences < Bump(cases[c].occurrences)
         \/ Bump(cases[c].occurrences) = CountCap
  BY <1>2, BumpFacts
<1>6. ASSUME NEW d \in Known(cases)
      PROVE  /\ cases'[d].occurrences >= cases[d].occurrences
             /\ cases[d].occurrences \in Int /\ cases'[d].occurrences \in Int
  <2>1. cases[d].occurrences \in Int
    BY <1>2, KnownCase
  <2>. QED
    BY <1>2, <1>4, <1>5, <2>1
<1>7. decision' \in Decisions
  BY <1>2, <1>3 DEF Decision, Decisions
<1>8. CTypeOK'
  BY <1>3, <1>4, <1>7 DEF CInv, CTypeOK, TableOK
<1>9. CountsIn(cases', observations')
  <2>. SUFFICES ASSUME NEW d \in Fingerprints, observations[d] > 0
                PROVE  d \in Known(cases) /\ observations[d] <= cases'[d].occurrences
    BY <1>3, <1>4 DEF CountsIn
  <2>1. d \in Known(cases) /\ observations[d] <= cases[d].occurrences /\ observations[d] \in 0..CountCap
    BY DEF CInv, CTypeOK, Counts, CountsIn
  <2>. QED
    BY <1>2, <1>6, <2>1
<1>10. Keeps(saved.cases, saved.observations, cases', observations)
  <2>. SUFFICES ASSUME NEW d \in Known(saved.cases)
                PROVE  /\ d \in Known(cases) /\ cases'[d].family = saved.cases[d].family
                       /\ cases'[d].rowid = saved.cases[d].rowid
                       /\ cases'[d].occurrences >= saved.cases[d].occurrences
                       /\ observations[d] >= saved.observations[d]
    BY <1>4 DEF Keeps
  <2>1. /\ d \in Known(cases) /\ cases[d].family = saved.cases[d].family
        /\ cases[d].rowid = saved.cases[d].rowid
        /\ cases[d].occurrences >= saved.cases[d].occurrences
        /\ observations[d] >= saved.observations[d]
    BY DEF CInv, Keeps
  <2>2. saved.cases[d].occurrences \in Int
    BY KnownCase DEF CInv, CTypeOK
  <2>. QED
    BY <1>4, <1>6, <2>1, <2>2
<1>11. Told(decision', cases')
  BY <1>2, <1>3, <1>4, <1>5 DEF Told, Decision
<1>12. Uncounted'
  <2>1. observations[c] \in 0..CountCap /\ (observations[c] > 0 => observations[c] <= cases[c].occurrences)
    BY <1>2 DEF CInv, CTypeOK, Counts, CountsIn
  <2>2. observations[c] < Bump(cases[c].occurrences) \/ Bump(cases[c].occurrences) = CountCap
    BY <1>2, <1>5, <2>1
  <2>. QED
    BY <1>3, <1>4, <2>2 DEF Uncounted, Decision
<1>13. Stages'
  BY <1>3, <1>11, <1>12 DEF Stages
<1>. QED
  BY <1>3, <1>4, <1>8, <1>9, <1>10, <1>13 DEF CInv, Counts

(* A verdict stored as a case of its own. *)
LEMMA NewCaseInv ==
    ASSUME CInv, pc = "case", NEW f \in Fingerprints \ Known(cases), NEW family \in Fingerprints,
           NEW register \in {"variant", "novel"}, register = "variant" => family # f,
           TableOK(With(cases, f, family)),
           Decide(register, f, family, With(cases, f, family))
    PROVE  CInv'
<1>1. /\ cases' = With(cases, f, family) /\ decision' = Decision(register, f, family)
      /\ pc' = "observation" /\ UNCHANGED <<observations, saved, verdict, answer, passes>>
  BY DEF Decide
<1>2. cases \in Cases /\ CountCap \in Nat
  BY ThresholdAssumption DEF CInv, CTypeOK
<1>3. /\ TableOK(cases') /\ Known(cases') = Known(cases) \cup {f}
      /\ cases'[f].family = family /\ cases'[f].occurrences = 1
      /\ \A c \in Known(cases) : cases'[c] = cases[c]
  <2>. DEFINE u == With(cases, f, family)
  <2>1. /\ Known(u) = Known(cases) \cup {f} /\ u[f] = NewCase(cases, family)
        /\ \A c \in Known(cases) : u[c] = cases[c]
    BY <1>2, Grown
  <2>2. TableOK(u) /\ u[f].family = family /\ u[f].occurrences = 1
    BY <2>1 DEF NewCase
  <2>. HIDE DEF u
  <2>3. cases' = u
    BY <1>1 DEF u
  <2>. QED
    BY <2>1, <2>2, <2>3
<1>4. decision' \in Decisions
  BY <1>1 DEF Decision, Decisions
<1>5. CTypeOK'
  BY <1>1, <1>3, <1>4 DEF CInv, CTypeOK, TableOK
<1>6. CountsIn(cases', observations')
  BY <1>1, <1>3 DEF CInv, Counts, CountsIn
<1>7. Keeps(saved.cases, saved.observations, cases', observations')
  BY <1>1, <1>3 DEF CInv, Keeps
<1>8. Told(decision', cases')
  BY <1>1, <1>3 DEF Told, Decision
<1>9. Uncounted'
  <2>1. ~(observations[f] > 0) /\ observations[f] \in 0..CountCap
    BY DEF CInv, CTypeOK, Counts, CountsIn
  <2>2. observations[f] < 1
    BY <1>2, <2>1
  <2>. QED
    BY <1>1, <1>3, <2>2 DEF Uncounted, Decision
<1>10. Stages'
  BY <1>1, <1>8, <1>9 DEF Stages
<1>. QED
  BY <1>1, <1>3, <1>5, <1>6, <1>7, <1>10 DEF CInv, Counts

(* Without a nearest case at a threshold, every known case is below it; at  *)
(* TauMerge, the verdict itself is not known either.                        *)
LEMMA NothingNear ==
    ASSUME cases \in Cases, NEW f \in Fingerprints, NEW tau \in 1..100, Nearest(f, tau) = {}
    PROVE  f \notin Known(cases) /\ \A d \in Known(cases) : CaseSim[<<f, d>>] < tau * Unit
<1>1. Unit \in Nat /\ tau * Unit \in Nat /\ tau * Unit <= 100 * Unit
  <2>1. Unit \in Nat
    BY ThresholdAssumption
  <2>. QED
    BY <2>1, SMT
<1>2. ASSUME NEW d \in Known(cases) PROVE CaseSim[<<f, d>>] < tau * Unit
  <2>1. d \in Fingerprints
    BY KnownFacts
  <2>2. CaseSim[<<f, d>>] \in Int
    <3>1. CaseSim[<<f, d>>] \in 0..100 * Unit
      BY <2>1, SimFacts
    <3>. QED
      BY <1>1, <3>1
  <2>3. ~(CaseSim[<<f, d>>] >= tau * Unit)
    BY NearestExists
  <2>. QED
    BY <1>1, <2>2, <2>3
<1>3. f \notin Known(cases)
  <2>. SUFFICES ASSUME f \in Known(cases) PROVE FALSE
    OBVIOUS
  <2>1. CaseSim[<<f, f>>] = 100 * Unit /\ CaseSim[<<f, f>>] < tau * Unit
    BY <1>2, SimFacts
  <2>. QED
    BY <1>1, <2>1
<1>. QED
  BY <1>2, <1>3

LEMMA PromoteCaseInv == ASSUME CInv, PromoteCase PROVE CInv'
<1>. DEFINE f == Fingerprint(verdict)
<1>1. f \in Fingerprints /\ pc = "case"
  BY DEF PromoteCase, CInv, Stages, Fingerprints
<1>2. Recurrence(f) \/ Variant(f) \/ Novel(f)
  BY DEF PromoteCase
<1>. HIDE DEF f
<1>3. cases \in Cases /\ TableOK(cases) /\ TauMerge \in 1..100 /\ TauFamily \in 1..100
      /\ Unit \in Nat \ {0} /\ TauFamily * Unit <= TauMerge * Unit
      /\ TauFamily * Unit \in Int /\ TauMerge * Unit \in Int
  <2>1. Unit \in Nat \ {0} /\ TauMerge \in 1..100 /\ TauFamily \in 1..100 /\ TauFamily <= TauMerge
    BY ThresholdAssumption
  <2>2. TauFamily * Unit <= TauMerge * Unit /\ TauFamily * Unit \in Int /\ TauMerge * Unit \in Int
    BY <2>1, SMT
  <2>. QED
    BY <2>1, <2>2 DEF CInv, CTypeOK
<1>4. CASE Recurrence(f)
  BY <1>1, <1>4, RecurrenceInv
<1>5. CASE Variant(f)
  <2>1. PICK c \in Nearest(f, TauFamily) :
            Decide("variant", f, cases[c].family, Stored(f, cases[c].family))
    BY <1>5 DEF Variant
  <2>. DEFINE family == cases[c].family
  <2>2. f \notin Known(cases) /\ \A d \in Known(cases) : CaseSim[<<f, d>>] < TauMerge * Unit
    BY <1>1, <1>3, <1>5, NothingNear DEF Variant
  <2>3. /\ c \in Known(cases) /\ CaseSim[<<f, c>>] >= TauFamily * Unit
        /\ \A o \in Known(cases) : CaseSim[<<f, o>>] < CaseSim[<<f, c>>] \/ CaseSim[<<f, o>>] = CaseSim[<<f, c>>]
    BY DEF Nearest
  <2>4. \A o \in Known(cases) : CaseSim[<<f, o>>] <= CaseSim[<<f, c>>]
    <3>. SUFFICES ASSUME NEW o \in Known(cases) PROVE CaseSim[<<f, o>>] <= CaseSim[<<f, c>>]
      OBVIOUS
    <3>1. CaseSim[<<f, o>>] \in 0..100 * Unit /\ CaseSim[<<f, c>>] \in 0..100 * Unit
      BY <1>1, <2>3, KnownFacts, SimFacts
    <3>2. CaseSim[<<f, o>>] \in Int /\ CaseSim[<<f, c>>] \in Int
      BY <1>3, <3>1
    <3>. QED
      BY <2>3, <3>2
  <2>5. family \in Known(cases) /\ family \in Fingerprints /\ family # f
    BY <2>2, <2>3, KnownFacts DEF CInv, TableOK, FamiliesIn
  <2>6. Stored(f, family) = With(cases, f, family)
    BY <2>2 DEF Stored, With, NewCase
  <2>7. TableOK(With(cases, f, family))
    BY <1>1, <1>3, <2>2, <2>3, <2>4, <2>5, StoredOK
  <2>8. Decide("variant", f, family, With(cases, f, family))
    BY <2>1, <2>6
  <2>. HIDE DEF family
  <2>. QED
    BY <1>1, <2>2, <2>5, <2>7, <2>8, NewCaseInv
<1>6. CASE Novel(f)
  <2>1. Nearest(f, TauFamily) = {} /\ Decide("novel", f, f, Stored(f, f))
    BY <1>6 DEF Novel
  <2>2. f \notin Known(cases) /\ \A d \in Known(cases) : CaseSim[<<f, d>>] < TauFamily * Unit
    BY <1>1, <1>3, <2>1, NothingNear
  <2>3. ASSUME NEW d \in Known(cases) PROVE CaseSim[<<f, d>>] < TauMerge * Unit
    <3>1. CaseSim[<<f, d>>] \in 0..100 * Unit
      BY <1>1, KnownFacts, SimFacts
    <3>2. CaseSim[<<f, d>>] \in Int /\ CaseSim[<<f, d>>] < TauFamily * Unit
      BY <1>3, <2>2, <3>1
    <3>. QED
      BY <1>3, <3>2
  <2>4. Stored(f, f) = With(cases, f, f)
    BY <2>2 DEF Stored, With, NewCase
  <2>5. TableOK(With(cases, f, f))
    BY <1>1, <1>3, <2>2, <2>3, StoredOK
  <2>6. Decide("novel", f, f, With(cases, f, f))
    BY <2>1, <2>4
  <2>. QED
    BY <1>1, <2>2, <2>5, <2>6, NewCaseInv
<1>. QED
  BY <1>2, <1>4, <1>5, <1>6

LEMMA CNextInv == CInv /\ [CNext]_cvars => CInv'
<1>1. ASSUME CInv, UNCHANGED cvars PROVE CInv'
  <2>1. CTypeOK'
    BY <1>1 DEF cvars, CInv, CTypeOK
  <2>2. TableOK(cases)' /\ TableOK(saved.cases)'
    BY <1>1 DEF cvars, CInv
  <2>3. Counts'
    BY <1>1 DEF cvars, CInv, Counts
  <2>4. Keeps(saved.cases, saved.observations, cases, observations)'
    BY <1>1 DEF cvars, CInv
  <2>5. Stages'
    BY <1>1 DEF cvars, CInv, Stages, Uncounted
  <2>. QED
    BY <2>1, <2>2, <2>3, <2>4, <2>5 DEF CInv
<1>. QED
  BY <1>1, StartPassInv, PromoteCaseInv, ObservationInv, CommitInv, PublishInv, FaultInv DEF CNext

(* The library is in order after any sequence of incidents, failures and    *)
(* restarts.                                                                *)
THEOREM LibraryInvariance == CSpec => []CInv
BY CInitInv, CNextInv, PTL DEF CSpec

(* Tables, stages and decisions keep their types. *)
THEOREM LibraryTypeCorrect == CSpec => []CTypeOK
<1>1. CInv => CTypeOK
  BY DEF CInv
<1>. QED
  BY <1>1, LibraryInvariance, PTL

(* No two stored cases are so alike that _promote_case should have folded   *)
(* one into the other.                                                      *)
THEOREM SeparatedHolds == CSpec => []Separated
<1>1. CInv => Separated
  BY DEF CInv, TableOK, Separated
<1>. QED
  BY <1>1, LibraryInvariance, PTL

(* Families are trees one level deep, opened by a novel case, joined by the *)
(* variants of their nearest member.                                        *)
THEOREM FamiliesHolds == CSpec => []Families
<1>1. CInv => Families
  BY DEF CInv, TableOK, Families
<1>. QED
  BY <1>1, LibraryInvariance, PTL

(* The two writes of _promote_case can come apart, and only ever lose an    *)
(* observation.                                                             *)
THEOREM CountsHolds == CSpec => []Counts
<1>1. CInv => Counts
  BY DEF CInv
<1>. QED
  BY <1>1, LibraryInvariance, PTL

(* The case reported on /graph is committed, in the family reported.        *)
THEOREM AnswerIsCommittedHolds == CSpec => []AnswerIsCommitted
<1>1. CInv => AnswerIsCommitted
  BY DEF CInv, Stages, Told, AnswerIsCommitted
<1>. QED
  BY <1>1, LibraryInvariance, PTL

(* A committed case stays, in its family and place, and its counts never go *)
(* down.                                                                    *)
THEOREM CasesAreKeptHolds == CSpec => CasesAreKept
<1>. DEFINE Kept == \A c \in Known(saved.cases) :
                       /\ c \in Known(saved'.cases)
                       /\ saved'.cases[c].family = saved.cases[c].family
                       /\ saved'.cases[c].rowid = saved.cases[c].rowid
                       /\ saved'.cases[c].occurrences >= saved.cases[c].occurrences
                       /\ saved'.observations[c] >= saved.observations[c]
<1>1. ASSUME CInv, [CNext]_cvars PROVE Kept
  <2>1. CASE UNCHANGED saved
    <3>1. Keeps(saved.cases, saved.observations, saved.cases, saved.observations)
      BY <1>1, KeepsItself DEF CInv, CTypeOK
    <3>. QED
      BY <2>1, <3>1 DEF Keeps
  <2>2. CASE StartPass \/ Commit
    <3>1. saved'.cases = cases /\ saved'.observations = observations
      BY <2>2 DEF StartPass, Commit
    <3>. QED
      BY <1>1, <3>1 DEF CInv, Keeps
  <2>. QED
    BY <1>1, <2>1, <2>2
       DEF CNext, cvars, PromoteCase, Recurrence, Variant, Novel, Decide, Observation, Publish,
           PassFails, Restart
<1>2. CInv /\ [CNext]_cvars => [Kept]_cvars
  BY <1>1
<1>. QED
  BY <1>2, LibraryInvariance, PTL DEF CSpec, CasesAreKept
=============================================================================
