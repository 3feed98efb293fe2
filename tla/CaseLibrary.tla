----------------------------- MODULE CaseLibrary -----------------------------
(***************************************************************************)
(* The case library of the correlation engine: GraphMemory._promote_case   *)
(* and _case_sim in correlation/engine/state.py, between the commits of    *)
(* observe().                                                              *)
(*                                                                         *)
(* A pass that accepted edges hands over a verdict; its fingerprint is     *)
(* compared with every stored case, and the nearest one decides whether    *)
(* it is a recurrence (folded into that case), a variant (a new case of    *)
(* the same family) or novel (a new family).  The case and its observation *)
(* are two writes; an exception between them is reported by the loop and   *)
(* rolls nothing back.  Lead times, labels and timestamps, which no        *)
(* decision reads, are left out.                                           *)
(***************************************************************************)
EXTENDS Integers, FiniteSets

CONSTANTS
    Workload,
    Verdict,             \* what run_pass can answer, in workload space
    Unit,                \* Jaccard 1.0, a multiple of the size of every union compared
    TauMerge, TauFamily, \* CASE_TAU_MERGE, CASE_TAU_FAMILY, in hundredths
    CountCap,            \* bound on the counters
    None

(* Evidence that the loop's witness can give an edge: the shared disk,      *)
(* always, and PSI co-pressure, while both pods are hot.                    *)
Kind == {"pvc", "psi"}
Edge == [src : Workload, dst : Workload, kinds : SUBSET Kind]

ASSUME VerdictAssumption ==
    /\ IsFiniteSet(Workload) /\ IsFiniteSet(Verdict)
    /\ \A g \in Verdict :
           /\ g.root \in Workload
           /\ g.edges \subseteq Edge /\ g.edges # {}
           /\ g.blast \subseteq Workload

ASSUME ThresholdAssumption ==
    /\ Unit \in Nat \ {0}
    /\ TauFamily \in 1..TauMerge
    /\ TauMerge \in 1..100
    /\ CountCap \in Nat \ {0, 1}

VARIABLES
    cases,         \* table cases, as the connection sees it
    observations,  \* table case_observations: how many of each case
    saved,         \* both tables as last committed
    pc,            \* where the loop is
    verdict,       \* the verdict of the pass under way
    decision,      \* what _promote_case decided about it
    answer,        \* the case reported on /graph
    passes         \* history: passes with edges so far, up to two

cvars == <<cases, observations, saved, pc, verdict, decision, answer, passes>>

-----------------------------------------------------------------------------
(* Fingerprints *)

Victims(g) ==
    IF g.blast \ {g.root} # {} THEN g.blast \ {g.root}
    ELSE {e.dst : e \in g.edges} \ {g.root}

Support(g, kind) == Cardinality({e \in g.edges : kind \in e.kinds})

(* _dominant_witness: the kind most edges carry; of two equals the first    *)
(* by name, and "psi" comes before "pvc".                                   *)
DominantWitness(g) == IF Support(g, "psi") >= Support(g, "pvc") THEN "psi" ELSE "pvc"

Motif(g) == {<<e.src, e.dst>> : e \in g.edges}

Fingerprint(g) ==
    [stressors |-> {g.root}, victims |-> Victims(g), motif |-> Motif(g),
     witness |-> DominantWitness(g)]

Promotable(g) == Victims(g) # {}
Fingerprints == {Fingerprint(g) : g \in {h \in Verdict : Promotable(h)}}

Jaccard(a, b) ==
    IF a \cup b = {} THEN Unit
    ELSE (Unit * Cardinality(a \cap b)) \div Cardinality(a \cup b)

(* _case_sim, in hundredths of a Unit: another witness is another type.     *)
CaseSim ==
    [p \in Fingerprints \X Fingerprints |->
        LET f == p[1]
            c == p[2]
        IN  IF f.witness # c.witness THEN 0
            ELSE 40 * Jaccard(f.victims, c.victims)
                     + 20 * Jaccard(f.stressors, c.stressors) + 40 * Jaccard(f.motif, c.motif)]

-----------------------------------------------------------------------------
(* The tables.  A case is identified by its fingerprint, whose digest is    *)
(* its id.                                                                  *)

Case  == [occurrences : 1..CountCap, family : Fingerprints, rowid : 1..Cardinality(Fingerprints)]
ASSUME NoneAssumption == None \notin Case

Cases == [Fingerprints -> Case \cup {None}]
Known(table) == {f \in Fingerprints : table[f] # None}
NoCases == [f \in Fingerprints |-> None]
NoObservations == [f \in Fingerprints |-> 0]

Bump(n) == IF n < CountCap THEN n + 1 ELSE CountCap

(* Mutant: only the oldest case is compared. *)
NearestIsOldest(f, tau) ==
    {c \in Known(cases) : cases[c].rowid = 1 /\ CaseSim[<<f, c>>] >= tau * Unit}

(* The most similar case, of the right witness and at or above a threshold; *)
(* among equals, the one stored first.                                      *)
Nearest(f, tau) ==
    {c \in Known(cases) :
        /\ CaseSim[<<f, c>>] > 0 /\ CaseSim[<<f, c>>] >= tau * Unit
        /\ \A d \in Known(cases) :
              \/ CaseSim[<<f, d>>] < CaseSim[<<f, c>>]
              \/ CaseSim[<<f, d>>] = CaseSim[<<f, c>>] /\ cases[c].rowid <= cases[d].rowid}

(* What _promote_case decides: the register, the case, and its family. *)
Decision(register, id, family) == [register |-> register, id |-> id, family |-> family]
NoDecision == Decision("none", None, None)
Decisions ==
    [register : {"none", "recurrence", "variant", "novel"},
     id : Fingerprints \cup {None}, family : Fingerprints \cup {None}]

CInit ==
    /\ cases = NoCases
    /\ observations = NoObservations
    /\ saved = [cases |-> NoCases, observations |-> NoObservations]
    /\ pc = "idle"
    /\ verdict = None
    /\ decision = NoDecision
    /\ answer = NoDecision
    /\ passes = 0

(* A pass begins: update_baselines commits whatever the connection holds.   *)
(* A pass without edges, or whose only victim is the root, promotes nothing.*)
StartPass ==
    /\ pc = "idle"
    /\ saved' = [cases |-> cases, observations |-> observations]
    /\ \/ /\ \E g \in {h \in Verdict : Promotable(h)} : verdict' = g
          /\ pc' = "case"
          /\ passes' = IF passes < 2 THEN passes + 1 ELSE 2
       \/ /\ verdict' = None
          /\ pc' = "commit"
          /\ passes' = passes
    /\ decision' = NoDecision
    /\ UNCHANGED <<cases, observations, answer>>

Decide(register, id, family, table) ==
    /\ pc = "case"
    /\ decision' = Decision(register, id, family)
    /\ cases' = table
    /\ pc' = "observation"
    /\ UNCHANGED <<observations, saved, verdict, answer, passes>>

(* Mutants: the fold does not count, or makes the case a family. *)
RecurrenceUncounted(f) ==
    \E c \in Nearest(f, TauMerge) : Decide("recurrence", c, cases[c].family, cases)
RecurrenceLeavesFamily(f) ==
    \E c \in Nearest(f, TauMerge) :
        Decide("recurrence", c, c, [cases EXCEPT ![c].occurrences = Bump(@), ![c].family = c])

(* Near-identical: folded into the nearest case, whose prototype stays.     *)
Recurrence(f) ==
    \E c \in Nearest(f, TauMerge) :
        Decide("recurrence", c, cases[c].family, [cases EXCEPT ![c].occurrences = Bump(@)])

(* Mutant: a novel case is stored without its family. *)
StoredWithoutFamily(f, family) ==
    IF f \in Known(cases) THEN cases
    ELSE [cases EXCEPT ![f] = [occurrences |-> 1, family |-> IF f = family THEN None ELSE family,
                               rowid |-> Cardinality(Known(cases)) + 1]]

(* INSERT OR IGNORE: a case that has a row keeps it. *)
Stored(f, family) ==
    IF f \in Known(cases) THEN cases
    ELSE [cases EXCEPT ![f] = [occurrences |-> 1, family |-> family,
                               rowid |-> Cardinality(Known(cases)) + 1]]

(* Mutant: the variant takes the nearest case itself for its family. *)
VariantOfCase(f) ==
    /\ Nearest(f, TauMerge) = {}
    /\ \E c \in Nearest(f, TauFamily) : Decide("variant", f, c, Stored(f, c))

(* Close: a new case, of the family of the nearest. *)
Variant(f) ==
    /\ Nearest(f, TauMerge) = {}
    /\ \E c \in Nearest(f, TauFamily) :
           Decide("variant", f, cases[c].family, Stored(f, cases[c].family))

Novel(f) ==
    /\ Nearest(f, TauFamily) = {}
    /\ Decide("novel", f, f, Stored(f, f))

PromoteCase ==
    /\ pc = "case"
    /\ LET f == Fingerprint(verdict) IN Recurrence(f) \/ Variant(f) \/ Novel(f)

(* The second write of _promote_case: the observation. *)
Observation ==
    /\ pc = "observation"
    /\ observations' = [observations EXCEPT ![decision.id] = Bump(@)]
    /\ pc' = "commit"
    /\ UNCHANGED <<cases, saved, verdict, decision, answer, passes>>

(* Mutant: the pass ends without its commit. *)
CommitForgotten ==
    /\ pc = "commit"
    /\ pc' = "render"
    /\ UNCHANGED <<cases, observations, saved, verdict, decision, answer, passes>>

Commit ==
    /\ pc = "commit"
    /\ saved' = [cases |-> cases, observations |-> observations]
    /\ pc' = "render"
    /\ UNCHANGED <<cases, observations, verdict, decision, answer, passes>>

(* The decision goes out in the graph's meta. *)
Publish ==
    /\ pc = "render"
    /\ answer' = decision
    /\ pc' = "idle"
    /\ UNCHANGED <<cases, observations, saved, verdict, decision, passes>>

(* An exception in the pass: reported, nothing rolled back, except that     *)
(* SQLite itself rolls back on some errors.                                 *)
PassFails ==
    /\ pc # "idle"
    /\ \/ UNCHANGED <<cases, observations>>
       \/ cases' = saved.cases /\ observations' = saved.observations
    /\ pc' = "idle"
    /\ verdict' = None
    /\ decision' = NoDecision
    /\ answer' = NoDecision
    /\ UNCHANGED <<saved, passes>>

(* The process stops anywhere and starts again over the same file. *)
Restart ==
    /\ cases' = saved.cases
    /\ observations' = saved.observations
    /\ pc' = "idle"
    /\ verdict' = None
    /\ decision' = NoDecision
    /\ answer' = NoDecision
    /\ UNCHANGED <<saved, passes>>

CNext ==
    \/ StartPass \/ PromoteCase \/ Observation \/ Commit \/ Publish
    \/ PassFails \/ Restart

CSpec == CInit /\ [][CNext]_cvars

-----------------------------------------------------------------------------
(* Properties *)

(* Every variable has its type. *)
CTypeOK ==
    /\ cases \in Cases /\ saved.cases \in Cases
    /\ observations \in [Fingerprints -> 0..CountCap]
    /\ saved.observations \in [Fingerprints -> 0..CountCap]
    /\ pc \in {"idle", "case", "observation", "commit", "render"}
    /\ verdict \in Verdict \cup {None}
    /\ decision \in Decisions /\ answer \in Decisions
    /\ passes \in 0..2

(* The library does not explode: no two stored cases are so alike that one  *)
(* should have been folded into the other (tau_merge), in whatever order    *)
(* incidents came and whatever was rolled back.                             *)
SeparatedIn(table) ==
    \A c, d \in Known(table) : c # d => CaseSim[<<c, d>>] < TauMerge * Unit
Separated == SeparatedIn(cases) /\ SeparatedIn(saved.cases)

(* Families are trees one level deep: every case names the case that opened *)
(* its family; the opener was novel, with nothing of the kind stored before *)
(* it; any other member had, when it came, an older one of the family within*)
(* tau_family, and no older case of another family nearer than that.        *)
OlderThan(table, c) == {d \in Known(table) : table[d].rowid < table[c].rowid}
FamiliesIn(table) ==
    \A c \in Known(table) :
        /\ table[c].family \in Known(table)
        /\ table[table[c].family].family = table[c].family
        /\ IF table[c].family = c
           THEN \A d \in OlderThan(table, c) : CaseSim[<<c, d>>] < TauFamily * Unit
           ELSE \E d \in OlderThan(table, c) :
                    /\ table[d].family = table[c].family
                    /\ CaseSim[<<c, d>>] >= TauFamily * Unit
                    /\ \A o \in OlderThan(table, c) : CaseSim[<<c, o>>] <= CaseSim[<<c, d>>]
Families == FamiliesIn(cases) /\ FamiliesIn(saved.cases)

(* The observations of a case are never more than its occurrences, and only *)
(* a stored case has any, although the two writes can come apart: an        *)
(* exception between them, committed by the next pass, can only lose an     *)
(* observation.                                                             *)
CountsIn(table, seen) ==
    \A f \in Fingerprints :
        seen[f] > 0 => f \in Known(table) /\ seen[f] <= table[f].occurrences
Counts == CountsIn(cases, observations) /\ CountsIn(saved.cases, saved.observations)

(* Between passes, the case reported on /graph is committed: a restart      *)
(* finds it, in the family reported, with the observation counted.          *)
AnswerIsCommitted ==
    (pc = "idle" /\ answer.register # "none") =>
        /\ answer.id \in Known(saved.cases)
        /\ saved.cases[answer.id].family = answer.family
        /\ saved.observations[answer.id] > 0
        /\ answer.register = "recurrence" => saved.cases[answer.id].occurrences > 1
        /\ answer.register = "variant" => answer.family # answer.id

(* Institutional memory: a committed case stays, in its family and at its   *)
(* place, and its counts never go down, over any faults and restarts.       *)
CasesAreKept ==
    [][\A c \in Known(saved.cases) :
          /\ c \in Known(saved'.cases)
          /\ saved'.cases[c].family = saved.cases[c].family
          /\ saved'.cases[c].rowid = saved.cases[c].rowid
          /\ saved'.cases[c].occurrences >= saved.cases[c].occurrences
          /\ saved'.observations[c] >= saved.observations[c]]_cvars

(* state.py 4-5: stable incidents are promoted into cases (DESIGN 2.2: held *)
(* for N passes): nothing is a case after a single pass with edges.         *)
StablePromotion == passes < 2 => Known(saved.cases) = {}
=============================================================================
