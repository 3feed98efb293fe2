----------------------------- MODULE EdgeMemory -----------------------------
(***************************************************************************)
(* The edge memory of the correlation engine: correlation/engine/state.py  *)
(* (GraphMemory.observe and the handlers it calls) as it is driven by the  *)
(* loop of correlation/service.py.                                         *)
(*                                                                         *)
(* A pass hands observe() the pods that have signal vectors and the live   *)
(* causal edges the gate accepted between them.  observe() first commits   *)
(* the baselines, then seeds the topology backbone, confirms every live    *)
(* edge, decays every remembered edge that was not confirmed, commits, and *)
(* renders the graph the loop publishes.  SQLite's implicit transaction is *)
(* modelled by two copies of the table: what the connection sees (work)    *)
(* and what a restart would find (disk).  An exception anywhere in the     *)
(* pass is caught by the loop, which publishes an error graph and rolls    *)
(* nothing back.                                                           *)
(***************************************************************************)
EXTENDS Integers, FiniteSets

CONSTANTS
    Pod,         \* pods of the workloads that share the disk (service.py STORAGE)
    Workload,    \* their workloads; numbers, because names are only compared by order
    WorkloadOf,  \* stable_workload, a function from pods to workloads
    One,         \* confidence 1.0 in fixed point; every fraction below is out of One
    Alpha, Decay, ShowAt, HideAt, Prior, FloorFrac,  \* MemoryConfig
    HitCap,      \* bound on the hits counter
    None         \* no row for this key

ASSUME TopologyAssumption ==
    /\ Workload \subseteq Nat
    /\ WorkloadOf \in [Pod -> Workload]

ASSUME ConfigAssumption ==
    /\ One \in Nat \ {0}
    /\ Alpha \in 0..One
    /\ Decay \in 0..One
    /\ FloorFrac \in 0..One
    /\ Prior \in 1..Alpha
    /\ HideAt \in 0..ShowAt
    /\ ShowAt \in 0..One
    /\ HitCap \in Nat \ {0, 1}

VARIABLES
    work,    \* edge_memory as the connection sees it
    disk,    \* edge_memory as last committed
    pc,      \* where the loop is inside observe()
    todo,    \* what the current for loop has not visited yet
    pass,    \* the input of this pass: pods with vectors, live edges
    served   \* _graph, what /graph answers

vars == <<work, disk, pc, todo, pass, served>>

-----------------------------------------------------------------------------
(* Confidence arithmetic, in units of 1/One, rounded down. *)

(* Mutant: the step is added whatever room is left. *)
GrowUncapped(c) == c + Alpha

Grow(c)  == c + (Alpha * (One - c)) \div One
Fade(c)  == (c * (One - Decay)) \div One
Floor(c) == (FloorFrac * c) \div One
Larger(a, b) == IF a >= b THEN a ELSE b

(* One acceptance, of a new edge or of a seeded one, stays below ShowAt:     *)
(* true of the defaults (0.4 and 0.52 against 0.6), and what EDGE_ALPHA,    *)
(* EDGE_PRIOR and EDGE_SHOW must keep for NoFlicker.                        *)
ASSUME ShowAssumption ==
    /\ Alpha < ShowAt
    /\ Prior + (Alpha * (One - Prior)) \div One < ShowAt

Key      == Workload \X Workload
KeyOf(e) == <<WorkloadOf[e[1]], WorkloadOf[e[2]]>>
PairOf(k) == {k[1], k[2]}

State == {"steady", "confirming", "active", "decaying", "hidden"}
Row   == [conf : 0..One, base : 0..One, hits : 0..HitCap,
          visible : BOOLEAN, state : State]
Memory == [Key -> Row \cup {None}]

ASSUME NoneAssumption == None \notin Row

Rows(m) == {k \in Key : m[k] # None}

(* Pods and live edges of a pass.  At most one edge joins two pods. *)
Edge == {e \in Pod \X Pod : e[1] # e[2]}
LiveEdges(pods) ==
    {E \in SUBSET {e \in Edge : e[1] \in pods /\ e[2] \in pods} :
        \A e \in E : <<e[2], e[1]>> \notin E}
Passes == [pods : SUBSET Pod, edges : SUBSET Edge]
NoPass == [pods |-> {}, edges |-> {}]

Present      == {WorkloadOf[p] : p \in pass.pods}
BothPresent(k) == k[1] \in Present /\ k[2] \in Present
Seen         == {KeyOf(e) : e \in pass.edges}

(* The shared-disk witness of build_inputs: every two of the pods. *)
Witnessed == {k \in Key : k[1] < k[2] /\ BothPresent(k)}
-----------------------------------------------------------------------------
(* What one row becomes. *)

NewPair == [conf |-> Prior, base |-> Prior, hits |-> 0, visible |-> FALSE, state |-> "steady"]

(* _seed_structural: a new pair starts at the prior, a known one has its    *)
(* floor raised to the prior; its confidence follows when the pass decays   *)
(* or confirms it.                                                          *)
Seeded(r) ==
    IF r = None THEN NewPair
    ELSE [conf |-> r.conf, base |-> Larger(r.base, Prior), hits |-> r.hits,
          visible |-> r.visible, state |-> r.state]

(* _confirm_edge, for a key that has no row and for one that has. *)
ConfirmedRow(c, b, h, v) ==
    [conf |-> c, base |-> b, hits |-> h, visible |-> v,
     state |-> IF v THEN "active" ELSE "confirming"]

(* Mutant: the first acceptance is compared with the other threshold. *)
FirstSeenShownEarly == ConfirmedRow(Alpha, Floor(Alpha), 1, Alpha >= HideAt)

FirstSeen == ConfirmedRow(Alpha, Floor(Alpha), 1, Alpha >= ShowAt)

MoreHits(r) == IF r.hits < HitCap THEN r.hits + 1 ELSE HitCap

(* Mutants: the floor follows the confidence; a threshold alone never shows. *)
SeenAgainFreshFloor(r) ==
    LET c == Grow(r.conf)
    IN  ConfirmedRow(c, Floor(c), MoreHits(r), r.visible \/ c >= ShowAt)
SeenAgainNeverShown(r) ==
    LET c == Grow(r.conf)
    IN  ConfirmedRow(c, Larger(r.base, Floor(c)), MoreHits(r), r.visible /\ c >= ShowAt)

SeenAgain(r) ==
    LET c == Grow(r.conf)
    IN  ConfirmedRow(c, Larger(r.base, Floor(c)), MoreHits(r), r.visible \/ c >= ShowAt)

Confirmed(r) == IF r = None THEN FirstSeen ELSE SeenAgain(r)

(* _decay_absent_edges: fade toward the floor, never below it. *)

(* Mutant: a row exactly at its floor does not count as settled. *)
FadedRowNeverSettled(r, c, v) ==
    [conf |-> c, base |-> r.base, hits |-> r.hits, visible |-> v,
     state |-> IF c < r.base THEN "steady" ELSE IF v THEN "decaying" ELSE "hidden"]

FadedRow(r, c, v) ==
    [conf |-> c, base |-> r.base, hits |-> r.hits, visible |-> v,
     state |-> IF c <= r.base /\ r.base > 0 THEN "steady"
               ELSE IF v THEN "decaying" ELSE "hidden"]

(* Mutants: no floor; no hide threshold; the wrong one. *)
FadedToZero(r) ==
    LET c == Fade(r.conf) IN FadedRow(r, c, r.visible /\ c >= HideAt)
FadedStaysVisible(r) ==
    LET c == Larger(r.base, Fade(r.conf)) IN FadedRow(r, c, r.visible)
FadedHidesEarly(r) ==
    LET c == Larger(r.base, Fade(r.conf)) IN FadedRow(r, c, r.visible /\ c >= ShowAt)

Faded(r) ==
    LET c == Larger(r.base, Fade(r.conf)) IN FadedRow(r, c, r.visible /\ c >= HideAt)

-----------------------------------------------------------------------------
(* What _render answers.                                                    *)

Graph(edges) == [kind |-> "graph", edges |-> edges]
Bootstrap    == Graph({})
ErrorGraph   == [kind |-> "error", edges |-> {}]

Rendered(src, dst, r, source) ==
    [src |-> src, dst |-> dst, conf |-> r.conf, state |-> r.state, source |-> source]

LiveAnswer == {Rendered(e[1], e[2], work[KeyOf(e)], "live") : e \in pass.edges}

(* Mutant: only visible rows are held, as before the backbone existed. *)
HoldableVisible ==
    {k \in Rows(work) : work[k].visible /\ \A j \in Seen : PairOf(j) # PairOf(k)}

(* Rows that may be held: visible or with a floor, and of no live pair. *)
Holdable ==
    {k \in Rows(work) :
        /\ work[k].visible \/ work[k].base > 0
        /\ \A j \in Seen : PairOf(j) # PairOf(k)}

(* Mutant: every row that may be held is. *)
EveryRow == {Holdable}

(* One row per unordered pair, the strongest; which of two equal ones wins  *)
(* depends on the order of the table.                                       *)
StrongestPerPair ==
    {K \in SUBSET Holdable :
        /\ \A k \in Holdable : \E j \in K :
               PairOf(j) = PairOf(k) /\ work[j].conf >= work[k].conf
        /\ \A j, k \in K : PairOf(j) = PairOf(k) => j = k}

(* wl_pod: when two pods of a workload have vectors, the last one listed. *)
CurrentPod ==
    {f \in [Present -> pass.pods] : \A w \in Present : WorkloadOf[f[w]] = w}

HeldAnswer(K, wl_pod) ==
    {Rendered(wl_pod[k[1]], wl_pod[k[2]], work[k], "memory") :
        k \in {j \in K : BothPresent(j)}}

-----------------------------------------------------------------------------
Init ==
    /\ work = [k \in Key |-> None]
    /\ disk = work
    /\ pc = "idle"
    /\ todo = {}
    /\ pass = NoPass
    /\ served = Bootstrap

(* The loop got a window with vectors; run_pass found the live edges.  A    *)
(* window without any vector changes nothing at all.                        *)
StartPass ==
    /\ pc = "idle"
    /\ \E pods \in SUBSET Pod : \E edges \in LiveEdges(pods) :
           pass' = [pods |-> pods, edges |-> edges]
    /\ pc' = "baselines"
    /\ UNCHANGED <<work, disk, todo, served>>

(* update_baselines ends with a commit of whatever the connection holds. *)
Baselines ==
    /\ pc = "baselines"
    /\ disk' = work
    /\ pc' = "seed"
    /\ todo' = Witnessed
    /\ UNCHANGED <<work, pass, served>>

(* One turn of one of the loops of a pass: an item is visited, the table    *)
(* becomes what it makes of it.                                             *)
Visit(loop, item, table) ==
    /\ pc = loop
    /\ item \in todo
    /\ work' = table
    /\ todo' = todo \ {item}
    /\ UNCHANGED <<disk, pc, pass, served>>

SeedStructural(k) == Visit("seed", k, [work EXCEPT ![k] = Seeded(@)])

EndSeed ==
    /\ pc = "seed" /\ todo = {}
    /\ pc' = "confirm"
    /\ todo' = pass.edges
    /\ UNCHANGED <<work, disk, pass, served>>

ConfirmEdge(e) == Visit("confirm", e, [work EXCEPT ![KeyOf(e)] = Confirmed(@)])

EndConfirm ==
    /\ pc = "confirm" /\ todo = {}
    /\ pc' = "decay"
    /\ todo' = Rows(work)
    /\ UNCHANGED <<work, disk, pass, served>>

(* Mutants: edges seen in this pass, or of absent workloads, are not skipped. *)
DecayEveryEdge(k) ==
    Visit("decay", k, IF ~BothPresent(k) THEN work ELSE [work EXCEPT ![k] = Faded(@)])
DecayAbsentWorkloads(k) ==
    Visit("decay", k, IF k \in Seen THEN work ELSE [work EXCEPT ![k] = Faded(@)])

(* _decay_absent_edges: an edge seen in this pass is skipped, one whose     *)
(* workload has no vectors is held unchanged.                               *)
DecayAbsentEdge(k) ==
    Visit("decay", k, IF k \in Seen \/ ~BothPresent(k) THEN work
                      ELSE [work EXCEPT ![k] = Faded(@)])

(* Mutant: the pass ends without its commit. *)
CommitForgotten ==
    /\ pc = "decay" /\ todo = {}
    /\ pc' = "render"
    /\ UNCHANGED <<work, disk, todo, pass, served>>

(* Cases and the snapshot, which leave this table alone, come before the    *)
(* commit (CaseLibrary).                                                    *)
Commit ==
    /\ pc = "decay" /\ todo = {}
    /\ disk' = work
    /\ pc' = "render"
    /\ UNCHANGED <<work, todo, pass, served>>

(* _render and the publication of its answer under the loop's lock. *)
Publish ==
    /\ pc = "render"
    /\ \E K \in StrongestPerPair, wl_pod \in CurrentPod :
           served' = Graph(LiveAnswer \cup HeldAnswer(K, wl_pod))
    /\ pc' = "idle"
    /\ UNCHANGED <<work, disk, todo, pass>>

(* An exception in the pass: the loop reports it and goes on.  Nothing is   *)
(* rolled back, except that SQLite itself rolls back on some errors.        *)
PassFails ==
    /\ pc # "idle"
    /\ work' \in {work, disk}
    /\ pc' = "idle"
    /\ todo' = {}
    /\ pass' = NoPass
    /\ served' = ErrorGraph
    /\ UNCHANGED disk

(* The window or the events could not be fetched or parsed. *)
FetchFails ==
    /\ pc = "idle"
    /\ served' = ErrorGraph
    /\ pass' = NoPass
    /\ UNCHANGED <<work, disk, pc, todo>>

(* The process stops anywhere and starts again over the same file. *)
Restart ==
    /\ work' = disk
    /\ pc' = "idle"
    /\ todo' = {}
    /\ pass' = NoPass
    /\ served' = Bootstrap
    /\ UNCHANGED disk

Advance ==
    \/ Baselines
    \/ \E k \in Key : SeedStructural(k)
    \/ EndSeed
    \/ \E e \in Edge : ConfirmEdge(e)
    \/ EndConfirm
    \/ \E k \in Key : DecayAbsentEdge(k)
    \/ Commit
    \/ Publish

Fault == PassFails \/ FetchFails \/ Restart

Next == StartPass \/ Advance \/ Fault

Spec == Init /\ [][Next]_vars

(* The loop is a thread that never ends, and nothing in a pass waits; the   *)
(* aggregator keeps producing samples.                                      *)
FairSpec == Spec /\ WF_vars(StartPass) /\ WF_vars(Advance)
-----------------------------------------------------------------------------
(* Properties *)

Answers ==
    [kind : {"graph", "error"},
     edges : SUBSET [src : Pod, dst : Pod, conf : 0..One, state : State,
                     source : {"live", "memory"}]]

(* Every variable has its type: rows stay within the table's ranges (a      *)
(* confidence never leaves 0..One), and the loop is at a known point.       *)
TypeOK ==
    /\ work \in Memory
    /\ disk \in Memory
    /\ pc \in {"idle", "baselines", "seed", "confirm", "decay", "render"}
    /\ pc \in {"idle", "baselines", "render"} => todo = {}
    /\ pc \in {"seed", "decay"} => todo \subseteq Key
    /\ pc = "confirm" => todo \subseteq Edge
    /\ pass \in Passes
    /\ served \in Answers

(* Hysteresis of the visible flag (_confirm_edge, _decay_absent_edges):     *)
(* whatever sequence of confirmations, fades, faults and restarts led to    *)
(* it, a visible edge is not below the hide threshold, and an invisible one *)
(* is below the show threshold.                                             *)
HysteresisIn(m) ==
    \A k \in Rows(m) :
        IF m[k].visible THEN m[k].conf >= HideAt ELSE m[k].conf < ShowAt
Hysteresis == HysteresisIn(work) /\ HysteresisIn(disk)

(* No flicker: an edge accepted by the gate only once is never visible,     *)
(* also when the passes around that acceptance failed half-way.             *)
NoFlickerIn(m) == \A k \in Rows(m) : m[k].visible => m[k].hits >= 2
NoFlicker == NoFlickerIn(work) /\ NoFlickerIn(disk)

(* A published graph claims nothing a restart would not find again: between *)
(* passes, each edge served is a committed row with that confidence and     *)
(* state, at or above the floor the row has learned.                        *)
ServedIsDurable ==
    (pc = "idle" /\ served.kind = "graph") =>
        /\ work = disk
        /\ \A a \in served.edges :
              LET k == KeyOf(<<a.src, a.dst>>)
              IN  /\ k \in Rows(disk)
                  /\ a.conf = disk[k].conf /\ a.state = disk[k].state
                  /\ a.conf >= disk[k].base

(* Backbone: after a pass that published a graph, every two pods with       *)
(* vectors that share the disk are joined by a served edge, whatever storms *)
(* and calms came before, with at least the topology prior when it is held. *)
BackboneServed ==
    (pc = "idle" /\ served.kind = "graph") =>
        \A k \in Witnessed : \E a \in served.edges :
            /\ PairOf(KeyOf(<<a.src, a.dst>>)) = PairOf(k)
            /\ a.conf >= Prior

(* A served graph names each coupling once: no held edge joins two          *)
(* workloads that another served edge, live or held, already joins, in      *)
(* either direction.                                                        *)
PairServedOnce ==
    \A a, b \in served.edges :
        (a # b /\ a.source = "memory") =>
            PairOf(KeyOf(<<a.src, a.dst>>)) # PairOf(KeyOf(<<b.src, b.dst>>))

(* An edge that is live in a published graph was just confirmed and is not  *)
(* fading; a held one has faded or settled, so it reads neither confirming  *)
(* nor active, whatever an earlier pass, perhaps a failed one, left in it.  *)
SourceMatchesState ==
    (pc = "idle" /\ served.kind = "graph") =>
        \A a \in served.edges :
            IF a.source = "live"
            THEN a.state \in {"confirming", "active"} /\ <<a.src, a.dst>> \in pass.edges
            ELSE a.state \in {"steady", "decaying", "hidden"}

(* Missing samples never penalise: no step of a pass changes the row of an  *)
(* edge one of whose workloads has no pod with vectors in that pass.        *)
AbsentIsHeld ==
    [][pc' # "idle" => \A k \in Key : BothPresent(k) \/ work'[k] = work[k]]_vars

(* Permanent memory: once committed, an edge is never forgotten and its     *)
(* floor never erodes, over any passes, faults and restarts.                *)
FloorNeverErodes ==
    [][\A k \in Rows(disk) : k \in Rows(disk') /\ disk'[k].base >= disk[k].base]_vars

InPass == pc # "idle"
NoMoreFaults == <>[][~Fault]_vars

(* Settling: a remembered pair that stays present and quiet fades to its    *)
(* floor and stays there, in state steady, once faults stop.                *)
QuietSettles ==
    \A k \in Key :
        NoMoreFaults /\ <>[](InPass => BothPresent(k) /\ k \notin Seen)
            => <>[](k \in Rows(disk) => disk[k].state = "steady" /\ disk[k].conf = disk[k].base)

(* Locking in: an edge the gate keeps accepting becomes visible and stays   *)
(* so, once faults stop.                                                    *)
StormLocksIn ==
    \A k \in Key :
        NoMoreFaults /\ <>[](InPass => k \in Seen)
            => <>[](k \in Rows(disk) /\ disk[k].visible)

(* The memory keeps its promise (RememberedGraph): from one commit to the   *)
(* next each row becomes what one pass may make of it, whatever half passes *)
(* and faults lie between, and every answer repeats what is committed.      *)
Promise == INSTANCE RememberedGraph WITH
    memory <- disk,
    answer <- [kind |-> served.kind,
               edges |-> {[key |-> KeyOf(<<a.src, a.dst>>), conf |-> a.conf,
                           state |-> a.state] : a \in served.edges}]
KeepsPromise == Promise!MSpec

(* DESIGN_stateful_engine_and_case_library.md, 1.4: a rendered edge has a   *)
(* state in {steady, confirming, active, decaying}.                         *)
RenderedStates ==
    \A a \in served.edges : a.state \in {"steady", "confirming", "active", "decaying"}
-----------------------------------------------------------------------------
(* The inductive invariant behind the properties above. *)

(* What every row satisfies at any moment: its floor is under its           *)
(* confidence unless it was just raised to the prior, and the visible flag  *)
(* agrees with the thresholds.                                              *)
Sound(r) ==
    /\ r.base <= r.conf \/ r.base = Prior
    /\ IF r.visible THEN r.conf >= HideAt ELSE r.conf < ShowAt
    /\ r.visible => r.hits >= 2
    /\ r.hits = 0 => r.conf = Prior /\ r.base = Prior

SoundIn(m) == \A k \in Rows(m) : Sound(m[k])

(* The connection never forgets nor lowers what is committed. *)
Extends ==
    \A k \in Rows(disk) : k \in Rows(work) /\ work[k].base >= disk[k].base

(* A loop only visits what its source holds. *)
LoopOK ==
    /\ pass.edges \subseteq pass.pods \X pass.pods
    /\ pc = "seed" => todo \subseteq Witnessed
    /\ pc = "confirm" => todo \subseteq pass.edges
    /\ pc = "decay" => todo \subseteq Rows(work)

(* What each loop has achieved for the items it has visited. *)
SeedDone ==
    \A k \in Witnessed :
        (pc \in {"confirm", "decay", "render"} \/ (pc = "seed" /\ k \notin todo))
            => k \in Rows(work) /\ work[k].base >= Prior

ConfirmDone ==
    \A e \in pass.edges :
        (pc \in {"decay", "render"} \/ (pc = "confirm" /\ e \notin todo))
            => /\ KeyOf(e) \in Rows(work)
               /\ work[KeyOf(e)].base <= work[KeyOf(e)].conf
               /\ work[KeyOf(e)].conf >= Prior
               /\ work[KeyOf(e)].state \in {"confirming", "active"}

DecayDone ==
    \A k \in Rows(work) :
        (BothPresent(k) /\ (pc = "render" \/ (pc = "decay" /\ k \notin todo)))
            => /\ work[k].base <= work[k].conf
               /\ k \notin Seen => work[k].state \in {"steady", "decaying", "hidden"}

(* IInv: the strengthening of the invariants above that every step of the   *)
(* loop preserves, at any point of a pass and under any fault.              *)
IInv ==
    /\ TypeOK
    /\ SoundIn(work) /\ SoundIn(disk)
    /\ Extends
    /\ LoopOK
    /\ SeedDone /\ ConfirmDone /\ DecayDone
    /\ pc = "render" => work = disk
=============================================================================
