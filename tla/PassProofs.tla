----------------------------- MODULE PassProofs -----------------------------
(***************************************************************************)
(* What a pass does for every set of pods, every list of onsets and every  *)
(* profile of correlations.                                                *)
(***************************************************************************)
EXTENDS Pass, NatLemmas, FiniteSetTheorems, SequenceTheorems, TLAPS

-----------------------------------------------------------------------------
(* The event centre *)

(* Two members of a set of more than one. *)
LEMMA TwoMembers ==
    ASSUME NEW S, IsFiniteSet(S), Cardinality(S) > 1
    PROVE  \E p, q \in S : p # q
<1>1. S # {}
  BY FS_EmptySet
<1>2. PICK p \in S : TRUE
  BY <1>1
<1>3. S # {p}
  BY FS_Singleton
<1>. QED
  BY <1>2, <1>3

(* While two coupled pods are anomalous, the centre lies among the coupled  *)
(* ones, and neither the pods nor their peaks depend on the others.         *)
LEMMA CentreOfCoupled ==
    ASSUME NEW r, r \in [Pod -> SUBSET Onsets],
           Cardinality(Anomalous(r) \cap Storage) > 1
    PROVE  /\ CentrePods(r) = Anomalous(r) \cap Storage
           /\ CentrePods(Quieted(r)) = CentrePods(r)
           /\ Peaks(Quieted(r)) = Peaks(r)
<1>. DEFINE A == Anomalous(r) \cap Storage
            q == Quieted(r)
<1>1. A \subseteq Pod /\ IsFiniteSet(A)
  BY InputAssumption, FS_Subset DEF Anomalous
<1>2. \E p, s \in A : p # s
  BY <1>1, TwoMembers
<1>3. q \in [Pod -> SUBSET Onsets] /\ \A p \in Storage : q[p] = r[p]
  BY InputAssumption DEF Quieted
<1>4. Anomalous(q) = A
  BY InputAssumption DEF Quieted, Anomalous
<1>5. CentrePods(r) = A
  BY <1>2 DEF CentrePods, Couples
<1>6. CentrePods(q) = A
  BY <1>2, <1>4 DEF CentrePods, Couples
<1>7. Peaks(q) = Peaks(r)
  <2>1. ASSUME NEW c \in A \X Onsets PROVE q[c[1]] = r[c[1]]
    BY <1>3, <2>1
  <2>. QED
    BY <1>5, <1>6, <2>1 DEF Peaks
<1>. QED
  BY <1>5, <1>6, <1>7

(* The onsets of a pass are those of its lists, until they are dropped. *)
CentreInv ==
    /\ raw \in [Pod -> SUBSET Onsets]
    /\ pc = "pairs" => onset = EventOnsets(raw) \/ Anomalous(raw) = {}

LEMMA CentreStep == CentreInv /\ [PNext]_pvars => CentreInv'
<1>. SUFFICES ASSUME CentreInv, [PNext]_pvars PROVE CentreInv'
  OBVIOUS
<1>1. CASE Detect
  BY <1>1 DEF Detect, CentreInv, OnsetLists
<1>2. CASE Centre
  BY <1>2 DEF Centre, CentreInv
<1>3. ASSUME NEW a \in Pod, NEW b \in Pod, Correlate(a, b) PROVE CentreInv'
  <2>1. raw' = [p \in Pod |-> {}]
    BY <1>3 DEF Correlate
  <2>2. raw' \in [Pod -> SUBSET Onsets] /\ Anomalous(raw') = {}
    BY <2>1 DEF Anomalous
  <2>. QED
    BY <2>2 DEF CentreInv, Anomalous
<1>4. CASE EndPairs
  BY <1>4 DEF EndPairs, CentreInv
<1>5. ASSUME NEW p \in Pod, Attribute(p) \/ StartImpact(p) PROVE CentreInv'
  BY <1>5 DEF Attribute, StartImpact, CentreInv
<1>6. CASE Choose \/ Rank \/ Return
  BY <1>6 DEF Choose, Rank, Return, CentreInv
<1>7. CASE Spread \/ Reach
  BY <1>7 DEF Spread, Reach, CentreInv
<1>8. CASE UNCHANGED pvars
  BY <1>8 DEF pvars, CentreInv, Anomalous
<1>. QED
  BY <1>1, <1>2, <1>3, <1>4, <1>5, <1>6, <1>7, <1>8 DEF PNext

(* An isolated noisy pod does not drag the centre: run_pass takes for the   *)
(* coupled pods the onsets it would take without the others, however many   *)
(* pods there are and however strong the noise.                             *)
THEOREM LonersDoNotCentreHolds == PSpec => []LonersDoNotCentre
<1>1. PInit => CentreInv
  BY DEF PInit, CentreInv
<1>2. ASSUME CentreInv PROVE LonersDoNotCentre
  <2>1. SUFFICES ASSUME pc = "pairs", Cardinality(Anomalous(raw) \cap Storage) > 1,
                        NEW p \in Storage
                 PROVE  onset[p] = EventOnsets(Quieted(raw))[p]
    BY DEF LonersDoNotCentre
  <2>2. raw \in [Pod -> SUBSET Onsets] /\ onset = EventOnsets(raw)
    <3>1. {} \cap Storage = {}
      OBVIOUS
    <3>2. Cardinality({} \cap Storage) = 0
      BY <3>1, FS_EmptySet
    <3>3. Anomalous(raw) # {}
      BY <2>1, <3>2
    <3>4. raw \in [Pod -> SUBSET Onsets] /\ (onset = EventOnsets(raw) \/ Anomalous(raw) = {})
      BY <1>2, <2>1 DEF CentreInv
    <3>. QED
      BY <3>3, <3>4
  <2>3. Peaks(Quieted(raw)) = Peaks(raw)
    BY <2>1, <2>2, CentreOfCoupled
  <2>4. p \in Pod /\ Quieted(raw)[p] = raw[p]
    BY <2>1, InputAssumption DEF Quieted
  <2>5. EventOnsets(raw)[p] =
            IF raw[p] = {} THEN None ELSE Nearest(raw[p], StrongestOf(Peaks(raw)))
    BY <2>4 DEF EventOnsets
  <2>6. EventOnsets(Quieted(raw))[p] =
            IF Quieted(raw)[p] = {} THEN None
            ELSE Nearest(Quieted(raw)[p], StrongestOf(Peaks(Quieted(raw))))
    BY <2>4 DEF EventOnsets
  <2>. QED
    BY <2>2, <2>3, <2>4, <2>5, <2>6
<1>. QED
  BY <1>1, <1>2, CentreStep, PTL DEF PSpec

-----------------------------------------------------------------------------
(* The choice of one edge per pair *)

(* There is a first lag at which a profile is largest. *)
LEMMA PeakLagIsLag ==
    ASSUME NEW value, \A l \in Lag : value[l] \in -100..100
    PROVE  PeakLag(value) \in Lag
<1>. DEFINE f == [l \in Lag |-> 100 - value[l]]
<1>1. \A l \in Lag : f[l] \in Nat
  OBVIOUS
<1>2. PICK top \in Lag : \A m \in Lag : value[top] >= value[m]
  <2>1. PICK x \in Lag : \A y \in Lag : f[x] <= f[y]
    BY <1>1, InputAssumption, LeastAt
  <2>2. ASSUME NEW y \in Lag PROVE value[x] >= value[y]
    <3>1. f[x] = 100 - value[x] /\ f[y] = 100 - value[y] /\ f[x] <= f[y]
      BY <2>1
    <3>2. value[x] \in Int /\ value[y] \in Int
      OBVIOUS
    <3>. HIDE DEF f
    <3>. QED
      BY <3>1, <3>2
  <2>. QED
    BY <2>2
<1>. DEFINE T == {l \in Lag : value[l] = value[top]}
<1>3. PICK l \in T : \A m \in T : l <= m
  BY InputAssumption, Least
<1>. DEFINE First_(x) ==
                \A y \in Lag : ~(value[y] > value[x] \/ (value[y] = value[x] /\ y < x))
<1>4. l \in Lag /\ First_(l)
  <2>1. ASSUME NEW y \in Lag, value[y] > value[l] PROVE FALSE
    <3>1. value[l] = value[top] /\ value[top] >= value[y]
      BY <1>2
    <3>2. value[top] \in Int /\ value[y] \in Int
      OBVIOUS
    <3>. QED
      BY <2>1, <3>1, <3>2
  <2>2. ASSUME NEW y \in Lag, value[y] = value[l], y < l PROVE FALSE
    <3>1. l <= y /\ l \in Nat /\ y \in Nat
      BY <1>3, <2>2, InputAssumption
    <3>. QED
      BY <2>2, <3>1
  <2>. QED
    BY <2>1, <2>2
<1>. DEFINE peak == PeakLag(value)
<1>5. peak = CHOOSE x \in Lag : First_(x)
  BY DEF PeakLag
<1>. QED
  BY <1>4, <1>5

(* So what WriterPeaks and best_directed take from a profile is a value of  *)
(* it.                                                                      *)
LEMMA WriterPeakIsLevel ==
    ASSUME NEW d \in WriterPeaks
    PROVE  d.r \in -100..100
<1>1. PICK prof \in Profiles :
          d = [r |-> prof[PeakLag(prof)], supported |-> AdjacentSupport(prof, PeakLag(prof))]
  BY DEF WriterPeaks
<1>2. \A l \in Lag : prof[l] \in -100..100
  BY InputAssumption DEF Profiles
<1>3. PeakLag(prof) \in Lag
  BY <1>2, PeakLagIsLag
<1>. QED
  BY <1>1, <1>2, <1>3

LEMMA BestDirectedIsLevel ==
    ASSUME NEW d \in BestDirected
    PROVE  d.r \in -100..100
<1>1. PICK p \in Profiles \X Profiles :
          LET f == PeakLag([l \in Lag |-> Abs(p[1][l])])
              b == PeakLag([l \in Lag |-> Abs(p[2][l])])
          IN  d = Peak(p[2], b, FALSE) \/ d = Peak(p[1], f, TRUE)
  BY DEF BestDirected
<1>2. ASSUME NEW prof \in Profiles, NEW way \in BOOLEAN,
             d = Peak(prof, PeakLag([l \in Lag |-> Abs(prof[l])]), way)
      PROVE  d.r \in -100..100
  <2>1. \A l \in Lag : prof[l] \in -100..100
    BY InputAssumption DEF Profiles
  <2>. DEFINE size == [l \in Lag |-> Abs(prof[l])]
  <2>2. ASSUME NEW l \in Lag PROVE size[l] \in -100..100
    BY <2>1 DEF Abs
  <2>3. PeakLag(size) \in Lag
    <3>. HIDE DEF size
    <3>. QED
      BY <2>2, PeakLagIsLag
  <2>. QED
    BY <1>2, <2>1, <2>3 DEF Peak
<1>3. p[1] \in Profiles /\ p[2] \in Profiles
  BY <1>1
<1>. QED
  BY <1>1, <1>2, <1>3

-----------------------------------------------------------------------------
(* Sources *)

(* An edge with evidence of writing: its source writes more than its target *)
(* and has had its turn.                                                    *)
SourceEdge(e) ==
    \E w, v \in Pod, r \in Int :
        e = NewEdge(w, v, r, TRUE) /\ act[w] > act[v] /\ w \notin todo

(* No edge before the pairs, none with such evidence before the writers;    *)
(* then at most one of them from a pod to another.                          *)
SourceInv ==
    /\ pc \in {"idle", "detected"} => edges = {}
    /\ pc = "pairs" => Driven = {}
    /\ pc = "writers" =>
          /\ act \in [Pod -> Nat]
          /\ \A e \in Driven : SourceEdge(e)
          /\ \A e, f \in Driven : e.src = f.src /\ e.dst = f.dst => e = f

(* What the first loop adds has no evidence of writing. *)
LEMMA CorrelateStep ==
    ASSUME SourceInv, NEW a \in Pod, NEW b \in Pod, Correlate(a, b)
    PROVE  SourceInv'
<1>1. PICK e \in PairEdges(a, b) : edges' = (edges \cup {e}) \ {None}
  BY DEF Correlate
<1>2. e # None => e.write = FALSE
  <2>1. e # None => \E src, dst, r : e = NewEdge(src, dst, r, FALSE)
    BY DEF PairEdges
  <2>. QED
    BY <2>1 DEF NewEdge
<1>3. pc = "pairs" /\ pc' = "pairs" /\ Driven = {}
  BY DEF Correlate, SourceInv
<1>4. \A g \in edges' : ~g.write
  BY <1>1, <1>2, <1>3 DEF Driven
<1>. QED
  BY <1>3, <1>4 DEF SourceInv, Driven

(* A writer adds at most one edge per staller, and only once. *)
LEMMA AttributeStep ==
    ASSUME SourceInv, NEW w \in Pod, Attribute(w)
    PROVE  SourceInv'
<1>1. /\ pc = "writers" /\ pc' = "writers" /\ act' = act /\ w \in todo
      /\ todo' = todo \ {w} /\ act \in [Pod -> Nat]
  BY DEF Attribute, SourceInv
<1>. DEFINE Adds(found) ==
          /\ edges' = edges \cup found
          /\ \A e, f \in found : e.dst = f.dst => e = f
          /\ \A e \in found : \E v \in Pod, r \in Int :
                e = NewEdge(w, v, r, TRUE) /\ act[w] > act[v]
<1>2. PICK found : Adds(found)
  <2>1. CASE edges' = edges
    <3>1. Adds({})
      BY <2>1
    <3>. HIDE DEF Adds
    <3>. QED
      BY <3>1
  <2>. DEFINE stallers == {v \in Pod : OutWrites(w, v) /\ Active # {}}
  <2>2. CASE \E w_onset \in Time :
             \E found \in SUBSET UNION {WriterEdges(w, v, w_onset) : v \in stallers} :
                /\ \A e, f \in found : e.dst = f.dst => e = f
                /\ edges' = edges \cup found
    <3>1. PICK w_onset \in Time :
             \E found \in SUBSET UNION {WriterEdges(w, v, w_onset) : v \in stallers} :
                /\ \A e, f \in found : e.dst = f.dst => e = f
                /\ edges' = edges \cup found
      BY <2>2
    <3>2. PICK found \in SUBSET UNION {WriterEdges(w, v, w_onset) : v \in stallers} :
                /\ \A e, f \in found : e.dst = f.dst => e = f
                /\ edges' = edges \cup found
      BY <3>1
    <3>3. ASSUME NEW e \in found
          PROVE  \E v \in Pod, r \in Int : e = NewEdge(w, v, r, TRUE) /\ act[w] > act[v]
      <4>1. PICK v \in stallers : e \in WriterEdges(w, v, w_onset)
        BY <3>2, <3>3
      <4>2. PICK d \in WriterPeaks : e = NewEdge(w, v, d.r, TRUE)
        BY <4>1 DEF WriterEdges
      <4>3. d.r \in Int
        BY <4>2, WriterPeakIsLevel
      <4>4. v \in Pod /\ act[w] > act[v]
        BY <4>1 DEF OutWrites
      <4>. QED
        BY <4>2, <4>3, <4>4
    <3>4. Adds(found)
      BY <3>2, <3>3
    <3>. HIDE DEF Adds
    <3>. QED
      BY <3>4
  <2>. QED
    BY <2>1, <2>2 DEF Attribute
<1>3. \A e \in Driven : \E u, v \in Pod, r \in Int :
          e = NewEdge(u, v, r, TRUE) /\ act[u] > act[v] /\ u \notin todo
  BY <1>1 DEF SourceInv, SourceEdge
<1>4. ASSUME NEW e \in Driven'
      PROVE  \/ e \in Driven /\ e.src \notin todo
             \/ e \in found /\ e.src = w
  <2>1. e \in edges \/ e \in found
    BY <1>2, <1>4 DEF Driven
  <2>2. CASE e \in edges
    BY <1>3, <1>4, <2>2 DEF Driven, NewEdge
  <2>3. CASE e \in found
    BY <1>2, <2>3 DEF NewEdge
  <2>. QED
    BY <2>1, <2>2, <2>3
<1>5. ASSUME NEW e \in Driven' PROVE SourceEdge(e)'
  <2>1. CASE e \in Driven
    BY <1>1, <1>3, <2>1 DEF SourceEdge
  <2>2. CASE e \in found
    BY <1>1, <1>2, <2>2 DEF SourceEdge
  <2>. QED
    BY <1>4, <1>5, <2>1, <2>2
<1>6. ASSUME NEW e \in Driven', NEW f \in Driven', e.src = f.src, e.dst = f.dst
      PROVE  e = f
  <2>1. CASE e \in Driven /\ f \in Driven
    BY <1>1, <1>6, <2>1 DEF SourceInv
  <2>2. CASE e \in found /\ f \in found
    BY <1>2, <1>6, <2>2
  <2>. QED
    BY <1>1, <1>4, <1>6, <2>1, <2>2
<1>. QED
  BY <1>1, <1>5, <1>6 DEF SourceInv

LEMMA SourceStep == SourceInv /\ [PNext]_pvars => SourceInv'
<1>. SUFFICES ASSUME SourceInv, [PNext]_pvars PROVE SourceInv'
  OBVIOUS
<1>1. CASE Detect \/ Centre
  BY <1>1 DEF Detect, Centre, SourceInv, Driven
<1>2. ASSUME NEW a \in Pod, NEW b \in Pod, Correlate(a, b) PROVE SourceInv'
  BY <1>2, CorrelateStep
<1>3. CASE EndPairs
  <2>1. edges' = edges /\ Driven' = {} /\ pc' \in {"writers", "impact"}
    BY <1>3 DEF EndPairs, SourceInv, Driven
  <2>2. pc' = "writers" => act' \in [Pod -> Nat]
    BY <1>3, InputAssumption DEF EndPairs
  <2>. QED
    BY <2>1, <2>2 DEF SourceInv
<1>4. ASSUME NEW p \in Pod, Attribute(p) PROVE SourceInv'
  BY <1>4, AttributeStep
<1>5. ASSUME NEW p \in Pod, StartImpact(p) PROVE SourceInv'
  BY <1>5 DEF StartImpact, SourceInv
<1>6. CASE Choose \/ Rank \/ Return
  BY <1>6 DEF Choose, Rank, Return, SourceInv
<1>7. CASE Spread \/ Reach
  BY <1>7 DEF Spread, Reach, SourceInv
<1>8. CASE UNCHANGED pvars
  BY <1>8 DEF pvars, SourceInv, Driven, SourceEdge
<1>. QED
  BY <1>1, <1>2, <1>3, <1>4, <1>5, <1>6, <1>7, <1>8 DEF PNext

(* A source that run_pass attributed stays when one edge per pair is        *)
(* chosen, and sources never drive each other in a ring.                    *)
THEOREM SourcesKeptHolds == PSpec => SourcesKept
<1>1. PInit => SourceInv
  BY DEF PInit, SourceInv
<1>2. ASSUME SourceInv, [PNext]_pvars, pc = "writers", pc' = "impact"
      PROVE  /\ \A e \in Driven : e \in edges' /\ \A f \in edges' : Pair(e) = Pair(f) => e = f
             /\ \A S \in (SUBSET Pod) \ {{}} :
                   \E p \in S : \A e \in Driven : e.src = p => e.dst \notin S
  <2>1. edges' = {e \in edges : \A f \in edges : Pair(f) = Pair(e) => ~Preferred(f, e)}
    <3>1. Choose
      BY <1>2 DEF PNext, pvars, Detect, Centre, Correlate, EndPairs, Attribute,
                  StartImpact, Spread, Rank, Reach, Return
    <3>. QED
      BY <3>1 DEF Choose
  <2>2. /\ act \in [Pod -> Nat]
        /\ \A e, f \in Driven : e.src = f.src /\ e.dst = f.dst => e = f
    BY <1>2 DEF SourceInv
  <2>3. ASSUME NEW e \in Driven
        PROVE  /\ e.src \in Pod /\ e.dst \in Pod /\ e.r \in Int /\ e.write = TRUE
               /\ act[e.src] > act[e.dst]
    BY <1>2, <2>3 DEF SourceInv, SourceEdge, NewEdge
  <2>4. ASSUME NEW e \in Driven, NEW f \in Driven, Pair(e) = Pair(f) PROVE e = f
    <3>1. \/ e.src = f.src /\ e.dst = f.dst
          \/ e.src = f.dst /\ e.dst = f.src
      BY <2>4 DEF Pair
    <3>2. ~(e.src = f.dst /\ e.dst = f.src)
      <4>1. /\ e.src \in Pod /\ e.dst \in Pod /\ act[e.src] > act[e.dst]
            /\ act[f.src] > act[f.dst]
        BY <2>3
      <4>2. act[e.src] \in Nat /\ act[e.dst] \in Nat
        BY <2>2, <4>1
      <4>. QED
        BY <4>1, <4>2
    <3>. QED
      BY <2>2, <3>1, <3>2
  <2>5. ASSUME NEW e \in Driven
        PROVE  e \in edges' /\ \A f \in edges' : Pair(e) = Pair(f) => e = f
    <3>1. e \in edges /\ e.write = TRUE /\ e.r \in Int
      BY <2>3 DEF Driven
    <3>2. ASSUME NEW f \in edges, Pair(f) = Pair(e) PROVE ~Preferred(f, e)
      <4>1. CASE f \in Driven
        <5>1. f = e
          BY <2>4, <3>2, <4>1
        <5>. QED
          BY <3>1, <5>1 DEF Preferred
      <4>2. CASE ~f.write
        BY <3>1, <4>2 DEF Preferred
      <4>. QED
        BY <4>1, <4>2 DEF Driven
    <3>3. ASSUME NEW f \in edges', Pair(e) = Pair(f) PROVE e = f
      <4>1. f \in edges /\ ~Preferred(e, f)
        BY <2>1, <3>1, <3>3
      <4>2. f \in Driven
        BY <3>1, <4>1 DEF Preferred, Driven
      <4>. QED
        BY <2>4, <3>3, <4>2
    <3>. QED
      BY <2>1, <3>1, <3>2, <3>3
  <2>6. ASSUME NEW S \in (SUBSET Pod) \ {{}}
        PROVE  \E p \in S : \A e \in Driven : e.src = p => e.dst \notin S
    <3>0. S # {} /\ \A p \in S : act[p] \in Nat
      BY <2>2
    <3>1. PICK p \in S : \A q \in S : act[p] <= act[q]
      BY <3>0, LeastAt
    <3>2. ASSUME NEW e \in Driven, e.src = p, e.dst \in S PROVE FALSE
      <4>1. act[p] <= act[e.dst] /\ act[p] > act[e.dst]
        BY <2>3, <3>1, <3>2
      <4>2. act[p] \in Nat /\ act[e.dst] \in Nat
        BY <2>2, <2>3, <3>2
      <4>. QED
        BY <4>1, <4>2
    <3>. QED
      BY <3>2
  <2>. QED
    BY <2>5, <2>6
<1>3. SourceInv /\ [PNext]_pvars =>
        [(pc = "writers" /\ pc' = "impact") =>
          /\ \A e \in Driven : e \in edges' /\ \A f \in edges' : Pair(e) = Pair(f) => e = f
          /\ \A S \in (SUBSET Pod) \ {{}} :
                \E p \in S : \A e \in Driven : e.src = p => e.dst \notin S]_pvars
  BY <1>2
<1>. QED
  BY <1>1, <1>3, SourceStep, PTL DEF PSpec, SourcesKept

-----------------------------------------------------------------------------
(* One edge per pair *)

GraphEdge == {e \in [src : Pod, dst : Pod, r : R_SRC..100, write : BOOLEAN] : e.src # e.dst}
OnePerPair(E) == \A e, f \in E : Pair(e) = Pair(f) => e = f

(* The pairs to come have no edge yet; what has no evidence of writing is   *)
(* one per pair; once chosen, every edge is.                                *)
GraphInv ==
    /\ edges \subseteq GraphEdge
    /\ pc = "pairs" =>
          /\ todo \subseteq {pr \in Pod \X Pod : pr[1] < pr[2]}
          /\ \A e \in edges, pr \in todo : Pair(e) # {pr[1], pr[2]}
    /\ pc \in {"pairs", "writers"} => OnePerPair(edges \ Driven)
    /\ pc \in {"impact", "blast"} => OnePerPair(edges)

LEMMA GraphCorrelate ==
    ASSUME GraphInv, SourceInv, NEW a \in Pod, NEW b \in Pod, Correlate(a, b)
    PROVE  GraphInv'
<1>1. PICK e \in PairEdges(a, b) : edges' = (edges \cup {e}) \ {None}
  BY DEF Correlate
<1>2. /\ pc = "pairs" /\ pc' = "pairs" /\ <<a, b>> \in todo /\ a < b
      /\ todo' = todo \ {<<a, b>>}
  BY DEF Correlate, GraphInv
<1>3. ASSUME e # None
      PROVE  e \in GraphEdge /\ Pair(e) = {a, b} /\ ~e.write
  <2>1. PICK d \in BestDirected :
            \/ e = NewEdge(a, b, d.r, FALSE)
            \/ e = NewEdge(b, a, d.r, FALSE)
    BY <1>3 DEF PairEdges
  <2>2. \E c \in BestDirected, src, dst \in Pod :
            /\ e = NewEdge(src, dst, c.r, FALSE) /\ {src, dst} = {a, b} /\ c.r >= R_PEAK
    BY <1>3 DEF PairEdges, Accepts
  <2>3. PICK c \in BestDirected, src \in Pod, dst \in Pod :
            /\ e = NewEdge(src, dst, c.r, FALSE) /\ {src, dst} = {a, b} /\ c.r >= R_PEAK
    BY <2>2
  <2>4. c.r \in R_SRC..100
    BY <2>3, BestDirectedIsLevel DEF R_PEAK, R_SRC
  <2>5. src # dst
    <3>1. a \in Nat /\ b \in Nat /\ a # b
      BY <1>2, InputAssumption
    <3>. QED
      BY <2>3, <3>1
  <2>. QED
    BY <2>3, <2>4, <2>5 DEF NewEdge, GraphEdge, Pair
<1>4. edges' \subseteq GraphEdge
  BY <1>1, <1>3 DEF GraphInv
<1>5. ASSUME NEW f \in edges', NEW pr \in todo' PROVE Pair(f) # {pr[1], pr[2]}
  <2>1. CASE f \in edges
    BY <1>2, <1>5, <2>1 DEF GraphInv
  <2>2. CASE f = e /\ e # None
    <3>1. pr \in todo /\ pr # <<a, b>>
      BY <1>2
    <3>2. pr \in Pod \X Pod /\ pr[1] < pr[2]
      BY <1>2, <3>1 DEF GraphInv
    <3>3. pr[1] \in Nat /\ pr[2] \in Nat /\ a \in Nat /\ b \in Nat /\ pr = <<pr[1], pr[2]>>
      <4>1. pr[1] \in Pod /\ pr[2] \in Pod /\ pr = <<pr[1], pr[2]>>
        BY <3>2
      <4>. QED
        BY <4>1, InputAssumption
    <3>4. {pr[1], pr[2]} # {a, b}
      <4>1. ~(pr[1] = a /\ pr[2] = b)
        BY <3>1, <3>3
      <4>2. ~(pr[1] = b /\ pr[2] = a)
        BY <1>2, <3>2, <3>3
      <4>. QED
        BY <4>1, <4>2
    <3>. QED
      BY <1>3, <2>2, <3>4
  <2>. QED
    BY <1>1, <1>5, <2>1, <2>2
<1>6. ASSUME NEW f \in edges', NEW g \in edges', Pair(f) = Pair(g) PROVE f = g
  <2>1. \A h \in edges : Pair(h) # {a, b}
    BY <1>2 DEF GraphInv
  <2>2. edges \ Driven = edges /\ OnePerPair(edges)
    BY <1>2 DEF GraphInv, SourceInv
  <2>3. \A h \in edges' : h \in edges \/ (h = e /\ e # None)
    BY <1>1
  <2>. QED
    BY <1>3, <1>6, <2>1, <2>2, <2>3 DEF OnePerPair
<1>7. todo' \subseteq {pr \in Pod \X Pod : pr[1] < pr[2]}
  BY <1>2 DEF GraphInv
<1>. QED
  BY <1>2, <1>4, <1>5, <1>6, <1>7 DEF GraphInv, OnePerPair

LEMMA GraphAttribute ==
    ASSUME GraphInv, NEW w \in Pod, Attribute(w)
    PROVE  GraphInv'
<1>. DEFINE stallers == {v \in Pod : OutWrites(w, v) /\ Active # {}}
<1>1. pc = "writers" /\ pc' = "writers"
  BY DEF Attribute
<1>2. ASSUME NEW e \in edges', e \notin edges
      PROVE  e \in GraphEdge /\ e.write
  <2>1. PICK w_onset \in Time, v \in stallers : e \in WriterEdges(w, v, w_onset)
    BY <1>2 DEF Attribute
  <2>2. PICK d \in WriterPeaks :
            e = NewEdge(w, v, d.r, TRUE) /\ WriterAccepts(w, v, d, w_onset)
    BY <2>1 DEF WriterEdges
  <2>3. d.r \in R_SRC..100
    BY <2>2, WriterPeakIsLevel DEF WriterAccepts, R_SRC
  <2>4. v \in Pod /\ v # w
    BY <2>1 DEF OutWrites
  <2>. QED
    BY <2>2, <2>3, <2>4 DEF NewEdge, GraphEdge
<1>3. edges' \subseteq GraphEdge
  BY <1>2 DEF GraphInv
<1>4. (edges \ Driven)' \subseteq edges \ Driven
  BY <1>2 DEF Driven
<1>. QED
  BY <1>1, <1>3, <1>4 DEF GraphInv, OnePerPair

(* Neither of two chosen edges of a pair is preferred to the other: both    *)
(* have evidence of writing, or neither has.                                *)
LEMMA GraphChoose ==
    ASSUME GraphInv, SourceInv, Choose
    PROVE  GraphInv'
<1>1. /\ pc = "writers" /\ pc' = "impact" /\ act \in [Pod -> Nat]
      /\ edges' = {e \in edges : \A f \in edges : Pair(f) = Pair(e) => ~Preferred(f, e)}
  BY DEF Choose, SourceInv
<1>2. ASSUME NEW e \in edges', NEW f \in edges', Pair(e) = Pair(f) PROVE e = f
  <2>1. e \in edges /\ f \in edges /\ ~Preferred(e, f) /\ ~Preferred(f, e)
    BY <1>1, <1>2
  <2>2. e.write \in BOOLEAN /\ f.write \in BOOLEAN
    BY <2>1 DEF GraphInv, GraphEdge
  <2>3. e.write = f.write
    BY <2>1, <2>2 DEF Preferred
  <2>4. CASE ~e.write
    <3>1. e \in edges \ Driven /\ f \in edges \ Driven
      BY <2>1, <2>3, <2>4 DEF Driven
    <3>. QED
      BY <1>1, <1>2, <3>1 DEF GraphInv, OnePerPair
  <2>5. CASE e.write
    <3>1. e \in Driven /\ f \in Driven
      BY <2>1, <2>3, <2>5 DEF Driven
    <3>2. /\ e.src \in Pod /\ e.dst \in Pod /\ act[e.src] > act[e.dst]
          /\ f.src \in Pod /\ f.dst \in Pod /\ act[f.src] > act[f.dst]
      BY <1>1, <3>1 DEF SourceInv, SourceEdge, NewEdge
    <3>3. act[e.src] \in Nat /\ act[e.dst] \in Nat
      BY <1>1, <3>2
    <3>4. e.src = f.src /\ e.dst = f.dst
      BY <1>2, <3>2, <3>3 DEF Pair
    <3>. QED
      BY <1>1, <3>1, <3>4 DEF SourceInv
  <2>. QED
    BY <2>2, <2>4, <2>5
<1>3. edges' \subseteq GraphEdge
  BY <1>1 DEF GraphInv
<1>. QED
  BY <1>1, <1>2, <1>3 DEF GraphInv, OnePerPair

LEMMA GraphStep == GraphInv /\ SourceInv /\ [PNext]_pvars => GraphInv'
<1>. SUFFICES ASSUME GraphInv, SourceInv, [PNext]_pvars PROVE GraphInv'
  OBVIOUS
<1>1. CASE Detect
  BY <1>1 DEF Detect, GraphInv
<1>2. CASE Centre
  <2>1. edges' = {} /\ pc' = "pairs"
        /\ todo' = {pr \in Pod \X Pod : pr[1] < pr[2] /\ Couples(pr[1], pr[2])}
    BY <1>2 DEF Centre, SourceInv
  <2>. QED
    BY <2>1 DEF GraphInv, OnePerPair
<1>3. ASSUME NEW a \in Pod, NEW b \in Pod, Correlate(a, b) PROVE GraphInv'
  BY <1>3, GraphCorrelate
<1>4. CASE EndPairs
  <2>1. edges' = edges /\ Driven = {} /\ Driven' = {} /\ pc = "pairs"
        /\ pc' \in {"writers", "impact"}
    BY <1>4 DEF EndPairs, SourceInv, Driven
  <2>. QED
    BY <2>1 DEF GraphInv, OnePerPair
<1>5. ASSUME NEW p \in Pod, Attribute(p) PROVE GraphInv'
  BY <1>5, GraphAttribute
<1>6. ASSUME NEW p \in Pod, StartImpact(p) PROVE GraphInv'
  BY <1>6 DEF StartImpact, GraphInv
<1>7. CASE Choose
  BY <1>7, GraphChoose
<1>8. CASE Spread \/ Rank \/ Reach
  BY <1>8 DEF Spread, Rank, Reach, GraphInv
<1>9. CASE Return
  BY <1>9 DEF Return, GraphInv
<1>10. CASE UNCHANGED pvars
  BY <1>10 DEF pvars, GraphInv, Driven
<1>. QED
  BY <1>1, <1>2, <1>3, <1>4, <1>5, <1>6, <1>7, <1>8, <1>9, <1>10 DEF PNext

GInv == SourceInv /\ GraphInv

LEMMA GraphHolds == PSpec => []GInv
<1>1. PInit => GInv
  BY DEF PInit, GInv, SourceInv, GraphInv
<1>2. GInv /\ [PNext]_pvars => GInv'
  BY SourceStep, GraphStep DEF GInv
<1>. QED
  BY <1>1, <1>2, PTL DEF PSpec

(* What run_pass returns has at most one edge between two pods, in one      *)
(* direction: what observe() relies on when it turns edges into rows.       *)
THEOREM OneEdgePerPair ==
    PSpec => [](pc \in {"impact", "blast"} =>
                    edges \subseteq GraphEdge /\ OnePerPair(edges))
<1>1. GInv => (pc \in {"impact", "blast"} => edges \subseteq GraphEdge /\ OnePerPair(edges))
  BY DEF GInv, GraphInv
<1>. QED
  BY <1>1, GraphHolds, PTL

-----------------------------------------------------------------------------
(* Decayed walks *)

LEMMA CutFacts == Cut \in Nat /\ Cut >= 3 /\ 20 * Cut = 3 * Unit /\ Cut <= Unit
<1>1. PICK u \in Nat : Unit = 20 * u /\ u > 0
  BY InputAssumption, UnitAssumption
<1>2. (15 * Unit) \div 100 = 3 * u
  BY <1>1
<1>. QED
  BY <1>1, <1>2 DEF Cut

(* An edge keeps at most seven tenths of what comes to it, and more of more. *)
LEMMA ThroughFacts ==
    ASSUME NEW e \in GraphEdge, NEW w \in Nat
    PROVE  /\ Through(w, e) \in Nat
           /\ 10 * Through(w, e) <= 7 * w
           /\ Through(w, e) <= w
           /\ w = 0 => Through(w, e) = 0
<1>1. e.r \in Nat /\ e.r <= 100
  BY DEF GraphEdge, R_SRC
<1>2. w * e.r \in Nat /\ w * e.r <= w * 100
  BY <1>1
<1>3. w = 0 => w * e.r = 0
  BY <1>1
<1>. DEFINE x == w * e.r
<1>4. Through(w, e) = (x * 7) \div 1000
  BY DEF Through
<1>. HIDE DEF x
<1>5. x \in Nat /\ x <= w * 100 /\ (w = 0 => x = 0)
  BY <1>2, <1>3 DEF x
<1>. QED
  BY <1>4, <1>5

LEMMA ThroughMonotone ==
    ASSUME NEW e \in GraphEdge, NEW v \in Nat, NEW w \in Nat, v <= w
    PROVE  Through(v, e) <= Through(w, e)
<1>1. e.r \in Nat
  BY DEF GraphEdge, R_SRC
<1>2. v * e.r \in Nat /\ w * e.r \in Nat /\ v * e.r <= w * e.r
  BY <1>1
<1>. DEFINE x == v * e.r
            y == w * e.r
<1>3. Through(v, e) = (x * 7) \div 1000 /\ Through(w, e) = (y * 7) \div 1000
  BY DEF Through
<1>4. x \in Nat /\ y \in Nat /\ x <= y
  BY <1>2
<1>. HIDE DEF x, y
<1>. QED
  BY <1>3, <1>4

(* The first step from a root is never cut. *)
LEMMA FirstStepCounts ==
    ASSUME NEW e \in GraphEdge
    PROVE  Through(Unit, e) >= Cut
<1>1. e.r \in Nat /\ e.r >= 50
  BY DEF GraphEdge, R_SRC
<1>2. Unit \in Nat
  BY InputAssumption
<1>3. Unit * e.r \in Nat /\ Unit * e.r >= Unit * 50
  BY <1>1, <1>2
<1>. DEFINE x == Unit * e.r
<1>4. Through(Unit, e) = (x * 7) \div 1000 /\ x \in Nat /\ x >= Unit * 50
  BY <1>3 DEF Through
<1>. HIDE DEF x
<1>. QED
  BY <1>2, <1>4, CutFacts

LEMMA LargestOf ==
    ASSUME NEW S, NEW b \in Nat, S \subseteq 0..b, S # {}
    PROVE  Largest(S) \in S /\ \A m \in S : m <= Largest(S)
<1>1. IsFiniteSet(S)
  <2>1. S \in SUBSET Nat /\ \A s \in S : s <= b
    OBVIOUS
  <2>. QED
    BY <2>1, FS_BoundedSetOfNaturals
<1>2. \E n \in S : \A m \in S : m <= n
  <2>1. S \subseteq Nat
    OBVIOUS
  <2>. QED
    BY <1>1, <2>1, Greatest
<1>. QED
  BY <1>2 DEF Largest

(* One hop more: the best that any edge brings, nothing without an edge. *)
LEMMA LongerFacts ==
    ASSUME edges \subseteq GraphEdge, NEW b \in Nat,
           NEW w, \A q \in Pod : w[q] \in 0..b, NEW p \in Pod
    PROVE  /\ Longer(w)[p] \in 0..b
           /\ \A e \in edges : e.dst = p => Through(w[e.src], e) <= Longer(w)[p]
           /\ Longer(w)[p] > 0 =>
                \E e \in edges : e.dst = p /\ Longer(w)[p] = Through(w[e.src], e)
<1>. DEFINE S == {0} \cup {Through(w[e.src], e) : e \in {f \in edges : f.dst = p}}
<1>1. ASSUME NEW e \in edges
      PROVE  Through(w[e.src], e) \in 0..b
  <2>1. e \in GraphEdge /\ e.src \in Pod /\ w[e.src] \in Nat /\ w[e.src] <= b
    BY DEF GraphEdge
  <2>. QED
    BY <2>1, ThroughFacts
<1>2. S \subseteq 0..b /\ S # {}
  BY <1>1
<1>3. Largest(S) \in S /\ \A m \in S : m <= Largest(S)
  <2>. HIDE DEF S
  <2>. QED
    BY <1>2, LargestOf
<1>4. Longer(w)[p] = Largest(S)
  BY DEF Longer
<1>. DEFINE n == Longer(w)[p]
<1>5. n \in S /\ \A m \in S : m <= n
  <2>. HIDE DEF S
  <2>. QED
    BY <1>3, <1>4
<1>. HIDE DEF n
<1>6. n \in 0..b
  BY <1>2, <1>5
<1>7. \A e \in edges : e.dst = p => Through(w[e.src], e) <= n
  BY <1>5
<1>8. n > 0 => \E e \in edges : e.dst = p /\ n = Through(w[e.src], e)
  BY <1>5
<1>. QED
  BY <1>6, <1>7, <1>8 DEF n

(* The recursive function that Hops chooses exists. *)
FromRoot(root) == [p \in Pod |-> IF p = root THEN Unit ELSE 0]
LEMMA HopsUnfold ==
    ASSUME NEW root
    PROVE  /\ Hops(root)[0] = FromRoot(root)
           /\ \A k \in 1..MaxHops : Hops(root)[k] = Longer(Hops(root)[k - 1])
<1>. DEFINE h0 == FromRoot(root)
            h1 == Longer(h0)
            h2 == Longer(h1)
            h3 == Longer(h2)
            h4 == Longer(h3)
            h5 == Longer(h4)
            Good(W) == W = [k \in 0..MaxHops |->
                IF k = 0 THEN [p \in Pod |-> IF p = root THEN Unit ELSE 0]
                ELSE Longer(W[k - 1])]
            F == [k \in 0..MaxHops |-> IF k = 0 THEN h0 ELSE IF k = 1 THEN h1
                    ELSE IF k = 2 THEN h2 ELSE IF k = 3 THEN h3
                    ELSE IF k = 4 THEN h4 ELSE h5]
<1>1. /\ F[0] = h0 /\ F[1] = Longer(F[0]) /\ F[2] = Longer(F[1]) /\ F[3] = Longer(F[2])
      /\ F[4] = Longer(F[3]) /\ F[5] = Longer(F[4])
  <2>. HIDE DEF h0
  <2>. QED
    BY DEF MaxHops
<1>2. \A k \in 0..MaxHops : F[k] = IF k = 0 THEN h0 ELSE Longer(F[k - 1])
  <2>. HIDE DEF F, h0
  <2>1. \A k \in 0..MaxHops : k = 0 \/ k = 1 \/ k = 2 \/ k = 3 \/ k = 4 \/ k = 5
    BY DEF MaxHops
  <2>. QED
    BY <1>1, <2>1
<1>3. Good(F)
  <2>1. DOMAIN F = 0..MaxHops /\ F = [k \in 0..MaxHops |-> F[k]]
    OBVIOUS
  <2>. HIDE DEF F
  <2>. QED
    BY <1>2, <2>1 DEF FromRoot
<1>4. Hops(root) = CHOOSE W : Good(W)
  BY DEF Hops
<1>. DEFINE W == Hops(root)
<1>5. Good(W)
  <2>. HIDE DEF F, Good
  <2>. QED
    BY <1>3, <1>4
<1>. HIDE DEF W
<1>6. W[0] = FromRoot(root) /\ \A k \in 1..MaxHops : W[k] = Longer(W[k - 1])
  BY <1>5 DEF MaxHops, FromRoot
<1>. QED
  BY <1>6 DEF W

(* The hops of a search: what an edge brings in one more hop, and where what *)
(* is there after a hop came from.                                          *)
LEMMA HopsFacts ==
    ASSUME edges \subseteq GraphEdge, NEW root
    PROVE  /\ \A k \in 0..MaxHops, p \in Pod : Hops(root)[k][p] \in 0..Unit
           /\ \A k \in 1..MaxHops, e \in edges :
                 Through(Hops(root)[k - 1][e.src], e) <= Hops(root)[k][e.dst]
           /\ \A k \in 1..MaxHops, p \in Pod : Hops(root)[k][p] > 0 =>
                 \E e \in edges : /\ e.dst = p
                                  /\ Hops(root)[k][p] = Through(Hops(root)[k - 1][e.src], e)
<1>. DEFINE W == Hops(root)
            In(k) == \A p \in Pod : W[k][p] \in 0..Unit
<1>1. W[0] = FromRoot(root) /\ \A k \in 1..5 : W[k] = Longer(W[k - 1])
  BY HopsUnfold DEF MaxHops
<1>. HIDE DEF W
<1>2. Unit \in Nat
  BY InputAssumption
<1>3. In(0)
  BY <1>1, <1>2 DEF FromRoot
<1>4. ASSUME NEW k \in 1..5, In(k - 1) PROVE In(k)
  BY <1>1, <1>2, <1>4, LongerFacts
<1>5. In(1)
  BY <1>3, <1>4
<1>6. In(2)
  BY <1>4, <1>5
<1>7. In(3)
  BY <1>4, <1>6
<1>8. In(4)
  BY <1>4, <1>7
<1>9. In(5)
  BY <1>4, <1>8
<1>10. ASSUME NEW k \in 0..5 PROVE In(k)
  <2>1. k = 0 \/ k = 1 \/ k = 2 \/ k = 3 \/ k = 4 \/ k = 5
    OBVIOUS
  <2>. HIDE DEF In
  <2>. QED
    BY <1>3, <1>5, <1>6, <1>7, <1>8, <1>9, <2>1
<1>11. ASSUME NEW k \in 1..5
       PROVE  /\ \A e \in edges : Through(W[k - 1][e.src], e) <= W[k][e.dst]
              /\ \A p \in Pod : W[k][p] > 0 =>
                    \E e \in edges : e.dst = p /\ W[k][p] = Through(W[k - 1][e.src], e)
  <2>1. In(k - 1)
    <3>. HIDE DEF In
    <3>. QED
      BY <1>10
  <2>2. W[k] = Longer(W[k - 1])
    BY <1>1
  <2>. DEFINE v == W[k - 1]
  <2>3. \A p \in Pod : v[p] \in 0..Unit
    BY <2>1
  <2>. HIDE DEF v
  <2>4. \A e \in edges : e.dst \in Pod
    BY DEF GraphEdge
  <2>5. \A e \in edges : Through(v[e.src], e) <= Longer(v)[e.dst]
    BY <1>2, <2>3, <2>4, LongerFacts
  <2>6. \A p \in Pod : Longer(v)[p] > 0 =>
            \E e \in edges : e.dst = p /\ Longer(v)[p] = Through(v[e.src], e)
    BY <1>2, <2>3, LongerFacts
  <2>. QED
    BY <2>2, <2>5, <2>6 DEF v
<1>. QED
  BY <1>10, <1>11 DEF MaxHops, W

(* After five hops less than 0.7^5 of the unit is left, which a sixth takes *)
(* below the cut: why five are enough.                                      *)
LEMMA SixthHopIsCut ==
    ASSUME edges \subseteq GraphEdge, NEW root, NEW e \in edges
    PROVE  Through(Hops(root)[MaxHops][e.src], e) < Cut
<1>. DEFINE W == Hops(root)
<1>0. Unit \in Nat /\ Unit > 0
  BY InputAssumption
<1>1. \A k \in 0..5, p \in Pod : W[k][p] \in Nat /\ W[k][p] <= Unit
  BY <1>0, HopsFacts DEF MaxHops
<1>2. ASSUME NEW k \in 1..5, NEW p \in Pod, W[k][p] > 0
      PROVE  \E q \in Pod : 10 * W[k][p] <= 7 * W[k - 1][q]
  <2>1. PICK f \in edges : f.dst = p /\ W[k][p] = Through(W[k - 1][f.src], f)
    BY <1>2, HopsFacts DEF MaxHops
  <2>2. f \in GraphEdge /\ f.src \in Pod
    BY DEF GraphEdge
  <2>3. W[k - 1][f.src] \in Nat
    BY <1>1, <2>2
  <2>. HIDE DEF W
  <2>. QED
    BY <2>1, <2>2, <2>3, ThroughFacts
<1>. HIDE DEF W
<1>3. ASSUME NEW p \in Pod PROVE 10 * W[1][p] <= 7 * Unit
  <2>1. W[1][p] \in Nat /\ (W[1][p] > 0 => \E q \in Pod : 10 * W[1][p] <= 7 * W[0][q])
    BY <1>1, <1>2
  <2>. QED
    BY <1>0, <1>1, <2>1
<1>4. ASSUME NEW p \in Pod PROVE 100 * W[2][p] <= 49 * Unit
  <2>1. W[2][p] \in Nat /\ (W[2][p] > 0 => \E q \in Pod : 10 * W[2][p] <= 7 * W[1][q])
    BY <1>1, <1>2
  <2>2. \A q \in Pod : W[1][q] \in Nat
    BY <1>1
  <2>. QED
    BY <1>0, <1>3, <2>1, <2>2
<1>5. ASSUME NEW p \in Pod PROVE 1000 * W[3][p] <= 343 * Unit
  <2>1. W[3][p] \in Nat /\ (W[3][p] > 0 => \E q \in Pod : 10 * W[3][p] <= 7 * W[2][q])
    BY <1>1, <1>2
  <2>2. \A q \in Pod : W[2][q] \in Nat
    BY <1>1
  <2>. QED
    BY <1>0, <1>4, <2>1, <2>2
<1>6. ASSUME NEW p \in Pod PROVE 10000 * W[4][p] <= 2401 * Unit
  <2>1. W[4][p] \in Nat /\ (W[4][p] > 0 => \E q \in Pod : 10 * W[4][p] <= 7 * W[3][q])
    BY <1>1, <1>2
  <2>2. \A q \in Pod : W[3][q] \in Nat
    BY <1>1
  <2>. QED
    BY <1>0, <1>5, <2>1, <2>2
<1>7. ASSUME NEW p \in Pod PROVE 100000 * W[5][p] <= 16807 * Unit
  <2>1. W[5][p] \in Nat /\ (W[5][p] > 0 => \E q \in Pod : 10 * W[5][p] <= 7 * W[4][q])
    BY <1>1, <1>2
  <2>2. \A q \in Pod : W[4][q] \in Nat
    BY <1>1
  <2>. QED
    BY <1>0, <1>6, <2>1, <2>2
<1>8. e \in GraphEdge /\ e.src \in Pod
  BY DEF GraphEdge
<1>. DEFINE w == W[5][e.src]
            t == Through(w, e)
<1>9. w \in Nat /\ 100000 * w <= 16807 * Unit
  BY <1>1, <1>7, <1>8
<1>10. t \in Nat /\ 10 * t <= 7 * w
  <2>. HIDE DEF w
  <2>. QED
    BY <1>8, <1>9, ThroughFacts
<1>11. t < Cut
  <2>. HIDE DEF t, w
  <2>. QED
    BY <1>0, <1>9, <1>10, CutFacts
<1>. QED
  BY <1>11 DEF MaxHops, W

(* The best of the walks that end at a node, as far as they count. *)
LEMMA WalkFacts ==
    ASSUME edges \subseteq GraphEdge, NEW root, NEW p \in Pod
    PROVE  /\ Walk(root)[p] \in Nat
           /\ \A k \in 1..MaxHops :
                 Hops(root)[k][p] >= Cut => Hops(root)[k][p] <= Walk(root)[p]
           /\ Walk(root)[p] > 0 =>
                 /\ Walk(root)[p] >= Cut
                 /\ \E k \in 1..MaxHops : Walk(root)[p] = Hops(root)[k][p]
<1>. DEFINE S == {0} \cup {n \in {Hops(root)[k][p] : k \in 1..MaxHops} : n >= Cut}
<1>1. Unit \in Nat
  BY InputAssumption
<1>2. \A k \in 1..MaxHops : Hops(root)[k][p] \in 0..Unit
  BY HopsFacts DEF MaxHops
<1>3. S \subseteq 0..Unit /\ S # {}
  BY <1>1, <1>2
<1>4. Largest(S) \in S /\ \A m \in S : m <= Largest(S)
  <2>. HIDE DEF S
  <2>. QED
    BY <1>1, <1>3, LargestOf
<1>. DEFINE n == Walk(root)[p]
<1>5. n = Largest(S)
  BY DEF Walk
<1>6. n \in S /\ (\A m \in S : m <= n) /\ n \in Nat
  <2>1. n \in S /\ \A m \in S : m <= n
    <3>. HIDE DEF S, n
    <3>. QED
      BY <1>4, <1>5
  <2>2. \A m \in S : m \in Nat
    <3>. HIDE DEF S, n
    <3>. QED
      BY <1>1, <1>3
  <2>. QED
    BY <2>1, <2>2
<1>. HIDE DEF n
<1>7. n > 0 => n >= Cut /\ \E k \in 1..MaxHops : n = Hops(root)[k][p]
  BY <1>6
<1>8. \A k \in 1..MaxHops : Hops(root)[k][p] >= Cut => Hops(root)[k][p] <= n
  BY <1>6
<1>. QED
  BY <1>6, <1>7, <1>8 DEF n
=============================================================================
