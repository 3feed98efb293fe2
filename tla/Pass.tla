-------------------------------- MODULE Pass --------------------------------
(***************************************************************************)
(* One correlation pass: run_pass of correlation/engine/pipeline.py with   *)
(* the gate (gate.py), the choice among lags (lagcorr.py) and the ranking  *)
(* (ranking.py) it calls.                                                  *)
(*                                                                         *)
(* What the signals say is an input of each step: the onsets of each pod,  *)
(* and the correlation at each lag.  What the pass makes of it is the      *)
(* model: the event it centres on, the edges it accepts, the one edge it   *)
(* keeps per pair, the impact of every node and the blast radius of the    *)
(* first.  Correlations are in hundredths, impacts in units of 1/Unit,     *)
(* rounded down.                                                           *)
(***************************************************************************)
EXTENDS Integers, Sequences, FiniteSets, SequencesExt

CONSTANTS
    Pod,        \* numbers: pods are sorted by name
    Storage,    \* pods of the workloads that share the disk
    Activities, \* write_act: what each pod may write, 0 when it has no write vector
    Level,      \* correlations, in hundredths
    Lag,        \* lags in seconds, 0 among them
    Time,       \* onsets, in seconds
    Strength,   \* |zpeak| of an onset; weaker ones than 3 are dropped before
    Unit,       \* impact 1.0
    None

ASSUME InputAssumption ==
    /\ Pod \subseteq Nat /\ IsFiniteSet(Pod) /\ Storage \subseteq Pod
    /\ Activities \subseteq [Pod -> Nat]
    /\ Level \subseteq -100..100
    /\ Lag \subseteq Nat /\ IsFiniteSet(Lag) /\ 0 \in Lag
    /\ Time \subseteq Nat /\ Strength \subseteq Nat
    /\ Unit \in Nat \ {0} /\ None \notin Nat

(* Fine enough a scale for the cut of 0.15 to be exact. *)
ASSUME UnitAssumption == Unit % 20 = 0

R_PEAK == 60
R_ADJ == 40
R_SRC == 50
TEMPORAL_TOL_S == 10

VARIABLES
    pc,     \* where the pass is
    raw,    \* raw_onsets: the onsets of each pod that count as an incident
    onset,  \* onset_s, None for a pod without finding
    act,    \* write_act
    todo,   \* pairs, writers or roots that the current loop has not visited
    edges,  \* what was accepted, then what was chosen
    impact, \* _forward_impact of every root done so far, and of the current one
    front,  \* the queue of the search under way: its root, its items
    blast   \* blast_radius: impact of each victim named, 0 of the others

pvars == <<pc, raw, onset, act, todo, edges, impact, front, blast>>

-----------------------------------------------------------------------------
(* Onsets and the event centre. *)

Couples(p, q) == p \in Storage /\ q \in Storage
Abs(n) == IF n < 0 THEN -n ELSE n
Largest(S) == CHOOSE n \in S : \A m \in S : m <= n

Onsets == [at : Time, z : Strength]
OnsetLists ==
    {S \in SUBSET Onsets : IsFiniteSet(S) /\ \A o, p \in S : o.at = p.at => o = p}
Anomalous(r) == {p \in Pod : r[p] # {}}

(* Mutant: every anomalous pod may be the centre. *)
CentredAnywhere(r) == Anomalous(r)

(* Pods with an anomalous pod they are coupled to; all when there is none.  *)
CentrePods(r) ==
    LET coupled == {p \in Anomalous(r) : \E q \in Anomalous(r) \ {p} : Couples(p, q)}
    IN  IF coupled # {} THEN coupled ELSE Anomalous(r)

(* The strongest onset of those pods; the first found of equals. *)
Stronger(c, d) ==
    \/ c[2].z > d[2].z
    \/ c[2].z = d[2].z /\ c[1] < d[1]
    \/ c[2].z = d[2].z /\ c[1] = d[1] /\ c[2].at < d[2].at
Peaks(r) == {c \in CentrePods(r) \X Onsets : c[2] \in r[c[1]]}
StrongestOf(S) == (CHOOSE c \in S : \A d \in S : ~Stronger(d, c))[2].at

(* Each pod's onset nearest the centre; the earlier of two as near. *)
Nearer(a, b, centre) ==
    \/ Abs(a.at - centre) < Abs(b.at - centre)
    \/ Abs(a.at - centre) = Abs(b.at - centre) /\ a.at < b.at
Nearest(S, centre) == (CHOOSE a \in S : \A b \in S : ~Nearer(b, a, centre)).at
EventOnsets(r) ==
    [p \in Pod |-> IF r[p] = {} THEN None ELSE Nearest(r[p], StrongestOf(Peaks(r)))]

Active == {p \in Pod : onset[p] # None}
-----------------------------------------------------------------------------
(* Correlation: what the profiles of two pods come down to. *)

Profiles == [Lag -> Level]

(* adjacent_support: |r| stays elevated at the lag before or after. *)
AdjacentSupport(prof, lag) ==
    \E l \in Lag \ {lag} :
        /\ Abs(prof[l]) >= R_ADJ
        /\ \A m \in Lag : ~(l < m /\ m < lag) /\ ~(lag < m /\ m < l)

(* The lag of the largest value; the first of equals. *)
PeakLag(value) ==
    CHOOSE l \in Lag :
        \A m \in Lag : ~(value[m] > value[l] \/ (value[m] = value[l] /\ m < l))

Peak(prof, lag, forward) ==
    [forward |-> forward, r |-> prof[lag], lag |-> lag, supported |-> AdjacentSupport(prof, lag)]

(* best_directed: the stronger of both directions by |r|, forward when they *)
(* are equal.  At lag 0 both directions correlate the same samples.         *)
BestDirected ==
    {LET f == PeakLag([l \in Lag |-> Abs(p[1][l])])
         b == PeakLag([l \in Lag |-> Abs(p[2][l])])
     IN  IF Abs(p[2][b]) > Abs(p[1][f]) THEN Peak(p[2], b, FALSE) ELSE Peak(p[1], f, TRUE)
       : p \in {q \in Profiles \X Profiles : q[1][0] = q[2][0]}}

(* The profile of a writer over a staller: its largest value, sign and all. *)
WriterPeaks ==
    {[r |-> prof[PeakLag(prof)],
      supported |-> AdjacentSupport(prof, PeakLag(prof))] : prof \in Profiles}

-----------------------------------------------------------------------------
(* The gate. *)

NewEdge(src, dst, r, write) == [src |-> src, dst |-> dst, r |-> r, write |-> write]
Pair(e) == {e.src, e.dst}

Both(t, u) == t # None /\ u # None

(* accept_edge: statistical, physical and temporal clause. *)
Accepts(src, dst, d) ==
    /\ d.r >= R_PEAK /\ d.supported
    /\ Couples(src, dst)
    /\ Both(onset[src], onset[dst]) =>
          /\ onset[src] <= onset[dst] + TEMPORAL_TOL_S
          /\ d.lag > 0 => onset[dst] - onset[src] <= 4 * d.lag + TEMPORAL_TOL_S

(* _writer_edge, of a writer with an onset of its own. *)
WriterAccepts(w, v, d, w_onset) ==
    /\ Couples(w, v)
    /\ d.r >= R_SRC /\ d.supported
    /\ Both(w_onset, onset[v]) => w_onset <= onset[v] + TEMPORAL_TOL_S

(* Mutant: the larger |r| wins, whatever its evidence. *)
LargerR(e, f) == e.r > f.r

(* What best_directed and accept_edge make of a pair, None when they reject *)
(* it, and the edges _writer_edge can return of a writer and a staller.     *)
PairEdges(a, b) ==
    {LET src == IF d.forward THEN a ELSE b
         dst == IF d.forward THEN b ELSE a
     IN  IF Active # {} /\ Accepts(src, dst, d) THEN NewEdge(src, dst, d.r, FALSE) ELSE None
       : d \in BestDirected}
WriterEdges(w, v, w_onset) ==
    {NewEdge(w, v, d.r, TRUE) : d \in {p \in WriterPeaks : WriterAccepts(w, v, p, w_onset)}}

(* _edge_pref: evidence of writing first, then |r|. *)
Preferred(e, f) == (e.write /\ ~f.write) \/ (e.write = f.write /\ e.r > f.r)

-----------------------------------------------------------------------------
(* Searches over the accepted edges. *)

Nodes    == UNION {Pair(e) : e \in edges}
Out(n)   == {e \in edges : e.src = n}
Sources  == Nodes \ {e.dst : e \in edges}
Cut      == (15 * Unit) \div 100
Through(w, e) == (w * e.r * 7) \div 1000
Nothing  == [p \in Pod |-> 0]

Search(root) == [root |-> root, items |-> <<[node |-> root, w |-> Unit]>>]
NoSearch     == [root |-> None, items |-> <<>>]

(* What the edges out of the node popped bring to their targets. *)
Popped == Head(front.items)
Brought == [p \in Pod |->
    IF \E e \in Out(Popped.node) : e.dst = p
    THEN Through(Popped.w, CHOOSE e \in Out(Popped.node) : e.dst = p) ELSE 0]

InOrder(S) ==
    CHOOSE s \in [1..Cardinality(S) -> S] :
        \A i, j \in 1..Cardinality(S) : i < j => s[i] < s[j]

(* The nodes of a set get what was brought to them, and are queued in the   *)
(* order of the edges, which is that of their names.                        *)
Updated(known, nodes) == [p \in Pod |-> IF p \in nodes THEN Brought[p] ELSE known[p]]
Queued(nodes) ==
    LET order == InOrder(nodes)
    IN  [front EXCEPT !.items =
            Tail(@) \o [i \in DOMAIN order |-> [node |-> order[i], w |-> Brought[order[i]]]]]

-----------------------------------------------------------------------------
PInit ==
    /\ pc = "idle"
    /\ raw = [p \in Pod |-> {}]
    /\ onset = [p \in Pod |-> None]
    /\ act = Nothing
    /\ todo = {} /\ edges = {}
    /\ impact = [p \in Pod |-> Nothing]
    /\ front = NoSearch /\ blast = Nothing

(* The onsets of every pod whose signal left its band. *)
Detect ==
    /\ pc = "idle"
    /\ raw' \in [Pod -> OnsetLists]
    /\ pc' = "detected"
    /\ UNCHANGED <<onset, act, todo, edges, impact, front, blast>>

(* findings and onset_s. *)
Centre ==
    /\ pc = "detected"
    /\ onset' = EventOnsets(raw)
    /\ todo' = {pr \in Pod \X Pod : pr[1] < pr[2] /\ Couples(pr[1], pr[2])}
    /\ pc' = "pairs"
    /\ UNCHANGED <<raw, act, edges, impact, front, blast>>

(* The next pair of the first loop, which skips the pairs that share no     *)
(* disk: it can be an edge while anything is anomalous.  The lists of       *)
(* onsets are not read any more.                                            *)
Correlate(a, b) ==
    /\ pc = "pairs" /\ <<a, b>> \in todo
    /\ \A pr \in todo : a < pr[1] \/ (a = pr[1] /\ b <= pr[2])
    /\ \E e \in PairEdges(a, b) : edges' = (edges \cup {e}) \ {None}
    /\ todo' = todo \ {<<a, b>>}
    /\ raw' = [p \in Pod |-> {}]
    /\ UNCHANGED <<pc, onset, act, impact, front, blast>>

(* The writers come next, or, without any write vector, the graph. *)
EndPairs ==
    /\ pc = "pairs" /\ todo = {}
    /\ \/ /\ act' \in Activities
          /\ pc' = "writers" /\ todo' = {w \in Pod : act'[w] > 0}
       \/ /\ act' = act
          /\ pc' = "impact" /\ todo' = Nodes
    /\ UNCHANGED <<raw, onset, edges, impact, front, blast>>

OutWrites(w, v) == v # w /\ act[w] > act[v]

(* One writer of the second loop, over every staller.  Without an onset of  *)
(* its own it is no source.                                                 *)
Attribute(w) ==
    /\ pc = "writers" /\ w \in todo /\ \A u \in todo : w <= u
    /\ LET stallers == {v \in Pod : OutWrites(w, v) /\ Active # {}}
       IN  \/ edges' = edges
           \/ \E w_onset \in Time :
              \E found \in SUBSET UNION {WriterEdges(w, v, w_onset) : v \in stallers} :
                 /\ \A e, f \in found : e.dst = f.dst => e = f
                 /\ edges' = edges \cup found
    /\ todo' = todo \ {w}
    /\ UNCHANGED <<pc, raw, onset, act, impact, front, blast>>

(* One edge per pair. *)
Choose ==
    /\ pc = "writers" /\ todo = {}
    /\ edges' = {e \in edges : \A f \in edges : Pair(f) = Pair(e) => ~Preferred(f, e)}
    /\ pc' = "impact" /\ todo' = UNION {Pair(e) : e \in edges}
    /\ UNCHANGED <<raw, onset, act, impact, front, blast>>

(* rank_root_causes searches from every node in turn. *)
StartImpact(n) ==
    /\ pc = "impact" /\ front.items = <<>>
    /\ n \in todo /\ \A m \in todo : n <= m
    /\ todo' = todo \ {n}
    /\ front' = Search(n)
    /\ UNCHANGED <<pc, raw, onset, act, edges, impact, blast>>

(* Mutant: a node reached once is not improved. *)
SpreadFirstVisit ==
    /\ pc = "impact" /\ front.items # <<>>
    /\ LET known == impact[front.root]
           better == {p \in Pod : Brought[p] >= Cut /\ known[p] = 0}
       IN  /\ impact' = [impact EXCEPT ![front.root] = Updated(known, better)]
           /\ front' = Queued(better)
    /\ UNCHANGED <<pc, raw, onset, act, todo, edges, blast>>

(* _forward_impact: a target is updated when it gains. *)
Spread ==
    /\ pc = "impact" /\ front.items # <<>>
    /\ LET known == impact[front.root]
           better == {p \in Pod : Brought[p] >= Cut /\ Brought[p] > known[p]}
       IN  /\ impact' = [impact EXCEPT ![front.root] = Updated(known, better)]
           /\ front' = Queued(better)
    /\ UNCHANGED <<pc, raw, onset, act, todo, edges, blast>>

(* The score of a node: the symptoms it explains, itself when nothing else  *)
(* does; half of it when something explains the node.                       *)
Explains(n, symptoms) == FoldSet(LAMBDA p, sum : sum + impact[n][p], 0, symptoms)
Score(n, symptoms) ==
    IF n \in Sources THEN Explains(n, symptoms) + (IF n \in symptoms THEN Unit ELSE 0)
    ELSE Explains(n, symptoms) \div 2

Earlier(n, m) == onset[n] # None /\ (onset[m] = None \/ onset[n] < onset[m])

(* The breaches of the aggregator, or the active pods, as far as they are   *)
(* nodes; every node when none is.                                          *)
Symptoms(breach) ==
    LET seeds == IF breach = {} THEN Active ELSE breach
    IN  IF seeds \cap Nodes = {} THEN Nodes ELSE seeds \cap Nodes

Ranked(symptoms) == {n \in Nodes : Score(n, symptoms) > 0}

Rank ==
    /\ pc = "impact" /\ front.items = <<>> /\ todo = {}
    /\ \E breach \in SUBSET Pod :
          LET s == Symptoms(breach)
              better(n, m) == \/ Score(n, s) > Score(m, s)
                              \/ Score(n, s) = Score(m, s) /\ Earlier(n, m)
              tops == {n \in Ranked(s) : \A m \in Ranked(s) : ~better(m, n)}
          IN  IF tops = {} THEN front' = NoSearch
              ELSE \E root \in tops : front' = Search(root)
    /\ pc' = "blast"
    /\ UNCHANGED <<raw, onset, act, todo, edges, impact, blast>>

(* Mutant: the root can be its own victim. *)
ReachRoot ==
    /\ pc = "blast" /\ front.items # <<>>
    /\ LET fresh == {p \in Pod : Brought[p] >= Cut /\ blast[p] = 0}
       IN  blast' = Updated(blast, fresh) /\ front' = Queued(fresh)
    /\ UNCHANGED <<pc, raw, onset, act, todo, edges, impact>>

(* blast_radius: a target is named, for good, when it is first reached. *)
Reach ==
    /\ pc = "blast" /\ front.items # <<>>
    /\ LET fresh == {p \in Pod \ {front.root} : Brought[p] >= Cut /\ blast[p] = 0}
       IN  blast' = Updated(blast, fresh) /\ front' = Queued(fresh)
    /\ UNCHANGED <<pc, raw, onset, act, todo, edges, impact>>

(* The answer goes to observe(), and the pass is over. *)
Return ==
    /\ pc = "blast" /\ front.items = <<>>
    /\ pc' = "idle"
    /\ onset' = [p \in Pod |-> None]
    /\ act' = Nothing /\ blast' = Nothing
    /\ edges' = {} /\ front' = NoSearch
    /\ impact' = [p \in Pod |-> Nothing]
    /\ UNCHANGED <<raw, todo>>

PNext ==
    \/ Detect \/ Centre
    \/ \E a, b \in Pod : Correlate(a, b)
    \/ EndPairs
    \/ \E p \in Pod : Attribute(p) \/ StartImpact(p)
    \/ Choose
    \/ Spread \/ Rank \/ Reach \/ Return

PSpec == PInit /\ [][PNext]_pvars

-----------------------------------------------------------------------------
(* Properties *)

(* "An isolated noisy pod must not drag the analysis window onto the wrong  *)
(* event": while two coupled pods are anomalous, the onsets taken for the   *)
(* coupled pods are those that would be taken without the others.           *)
Quieted(r) == [p \in Pod |-> IF p \in Storage THEN r[p] ELSE {}]
LonersDoNotCentre ==
    (pc = "pairs" /\ Cardinality(Anomalous(raw) \cap Storage) > 1) =>
        \A p \in Storage : onset[p] = EventOnsets(Quieted(raw))[p]

(* A source that was attributed stays: when one edge per pair is kept, every *)
(* edge with evidence of writing is kept, as the only one of its pair, and  *)
(* following such edges never leads back to a writer.                       *)
Driven == {e \in edges : e.write}
SourcesKept ==
    [][(pc = "writers" /\ pc' = "impact") =>
          /\ \A e \in Driven : e \in edges' /\ \A f \in edges' : Pair(e) = Pair(f) => e = f
          /\ \A S \in (SUBSET Pod) \ {{}} :
                \E p \in S : \A e \in Driven : e.src = p => e.dst \notin S]_pvars

(* What the queue leaves when it runs dry is the best decayed walk to each  *)
(* node, over any graph, cycles included.                                   *)
MaxHops == 5
Longer(w) ==
    [p \in Pod |-> Largest({0} \cup {Through(w[e.src], e) : e \in {f \in edges : f.dst = p}})]
Hops(root) ==
    LET W[k \in 0..MaxHops] ==
            IF k = 0 THEN [p \in Pod |-> IF p = root THEN Unit ELSE 0] ELSE Longer(W[k - 1])
    IN  W
Walk(root) ==
    LET W == Hops(root)
    IN  [p \in Pod |-> Largest({0} \cup {n \in {W[k][p] : k \in 1..MaxHops} : n >= Cut})]
ImpactIsBestWalk ==
    (pc = "impact" /\ front.items = <<>>) =>
        \A n \in Nodes \ todo : impact[n] = Walk(n)

(* A pass that accepted an edge accounts for it: it names a root cause, and *)
(* as its victims every node the root has an edge to, never the root, and   *)
(* nobody with more impact than the ranking counted.                        *)
EdgesAccountedFor ==
    (pc = "blast" /\ front.items = <<>> /\ edges # {}) =>
        LET root == front.root
        IN  /\ root \in Nodes /\ Out(root) # {}
            /\ \A e \in Out(root) : blast[e.dst] >= Cut
            /\ blast[root] = 0
            /\ \A p \in Pod : blast[p] <= impact[root][p]
=============================================================================
