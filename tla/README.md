# A verification development of the accelerator's AIOps stack

The repository is a small factory on Kubernetes (`src/workloads`), an
aggregator that polls its metrics (`src/aggregator`), a correlation engine
that decides which workload stalls which (`src/correlation`), and an API with a
dashboard (`src/api`, `src/dashboard`). This directory holds TLA+ models of the
parts whose correctness depends on *order*: what is remembered when a pass
fails half-way, what two overlapping requests do to a cache, what a queue loses
when its database stalls. TLC checks them on small instances; every invariant,
every action property and the refinement are also proved, with TLAPS, for every
instance. Liveness is TLC's alone.

    tlc -workers 2 -config EdgeMemory_loop.cfg MCEdgeMemory.tla
    tlc -workers 2 -config Workloads.cfg MCWorkloads.tla
    tlapm EdgeMemoryProofs.tla      # also CaseLibraryProofs, PassProofs, SearchProofs,
                                    # NarrativeProofs, TelemetryProofs, WorkloadProofs, NatLemmas

`PROJECT.json` lists the runs, the mutants (a plausible bug for each property,
which the property must catch), the lines of source behind each definition, the
hazards and the theorems.

## 1. The system

    workloads --metrics--> Prometheus --5 s--> aggregator  (rings, events)
                                                   | GET /window, /events
                                                   v  every 10 s
                                      correlation service: loop()
                                        build_inputs -> run_pass -> observe
                                                   |            | SQLite
                                                   | GET /graph v
                                                   v        edge_memory, cases,
                                       API gateway (narrator)   baselines
                                                   | /api/graph, /api/narrative
                                                   v  every 5 s
                                              dashboard page

| Component | State | Operations | What makes it hard | What makes it correct |
|---|---|---|---|---|
| Service loop, `service.py` | `_graph`, `_lock` | fetch, `build_inputs`, `run_pass`, `observe`, publish; on any exception publish an error graph | one connection for the life of the process and no rollback: a failed pass leaves half its writes for the next commit; the process can die anywhere | what is published is what is stored |
| Edge memory, `state.py` 244-461 | table `edge_memory` | `_seed_structural`, `_confirm_edge`, `_decay_absent_edges`, `_render` | hysteresis, learned floors and the topology prior act on the same row in one pass; rows outlive pods | confidences in range, no flicker, floors never erode, the backbone is always served, each pair once |
| Baselines, `state.py` 602-644 | table `baselines` | slow EWMA, frozen during a storm | maturity against the storm gate | a storm is not learned as normal |
| Case library, `state.py` 472-593 | tables `cases`, `case_observations` | promote: recurrence, variant, novel | outcome depends on the order of incidents; two writes per case | no near duplicates, families well formed, counts agree |
| Gate and pass, `gate.py`, `pipeline.py` | onsets, findings, edges of one pass | event centre, two loops over pairs, three-clause acceptance, one edge per pair | direction conflicts, ties, a loud pod that has nothing to do with it | the centre is the incident's; an attributed source stays |
| Ranking, `ranking.py` | queue and impacts of a search | reach with decay, root causes, blast radius | cycles, nodes reached again by a better way | impacts are those of the best walk; a pass with edges names a root and its victims |
| Detectors and lag correlation | none | CUSUM, Pearson, Spearman; the choice of a lag | real-valued numerics | statistics, not order, but for the choice |
| Aggregator, `main.go` | ring per pod and signal, 256 recent events | `Add`, `series`, `evalEvents`, `/window`, `/events` | reader and writer locks held over network writes | the poller gets its locks; what is over is forgotten |
| Narrator, `api/main.py` 144-190 | `_NARR_CACHE` | fetch, look up, ask the model, clear, store | every request is a thread; the model takes up to 30 s, polls come every 5 s | an answer is about the verdict fetched; the cache stays small |
| Other endpoints | none | proxies | upstream errors | answers 503 |
| Dashboard, `page.jsx` | the last graph, sentence and health | `refresh` every 5 s | refreshes overlap and settle in any order; one of three calls fails | never blank again, converges |
| telemetry-ingest | queue, batch, two metrics | MQTT callback, writer thread | full queue, failed inserts, a commit whose answer is lost | at most once, in order, drains |
| safety-interlock, critical-control-relay | `last`, `tripped`, beats on their way | beat, trip, re-arm | read-then-store against a beat; delayed beats; a subscription lost with the connection | in safe mode when beats stop, armed when they come |
| cooling-monitor, S1 trigger of the API | the FLUSH file | arm, consume, storm | remove before run; a 503 for a POST that is still taken | a trigger storms once |
| alert-dispatcher, notify-gateway | none | poll, retry three times | timeout after delivery | deliberately not: scenario S4 |
| other workloads, charts, scenarios, scripts | none that a decision reads | load generation, configuration | - | - |

The parts meet in three ways. HTTP polling (aggregator, engine, API, page):
every consumer reads the latest answer and copes with an error. The SQLite
file, which only the engine's loop writes; it is what survives a restart.
And shared memory between threads: `_graph` under its lock, the aggregator's
ring and recent list under theirs, the narrator's dictionary without one,
ingest's queue, the interlock's two atomics.

## 2. The modules

| Module | Models | Used by |
|---|---|---|
| `EdgeMemory` | the service loop and the edge memory | `MCEdgeMemory`, `EdgeMemoryProofs` |
| `RememberedGraph` | what the edge memory promises, without passes and faults | `EdgeMemory`, which implements it |
| `CaseLibrary` | promotion of incidents, its two tables and their commits | `MCCaseLibrary`, `CaseLibraryProofs` |
| `Pass` | one correlation pass: centre, gate, choice, ranking, blast radius | `MCPass`, `PassProofs`, `SearchProofs` |
| `Telemetry` | aggregator, engine loop and handler, and their locks and clients | itself, `TelemetryProofs` |
| `Narrative` | GET /api/narrative, its threads and cache | `MCNarrative`, `Dashboard` |
| `Dashboard` | the page's overlapping refreshes, composed with the narrator | `MCDashboard`, `NarrativeProofs` |
| `Ingest` | telemetry-ingest: callback, queue, writer, database | `MCWorkloads` |
| `Interlock` | relay, broker and safety interlock, in seconds | `MCWorkloads` |
| `Cooling` | the S1 trigger, the flag file, the storm | `MCWorkloads` |
| `MCWorkloads` | the three workloads of the S1 cascade | itself, `WorkloadProofs` |
| `EdgeMemoryProofs`, `CaseLibraryProofs`, `PassProofs`, `SearchProofs`, `NarrativeProofs`, `TelemetryProofs`, `WorkloadProofs`, `NatLemmas` | theorems and lemmas, section 4 | - |

Mutant operators (`FirstSeenShownEarly`, `ClearNothing`, ...) stand before the
definition they replace and no specification uses them.

### EdgeMemory

A row of `edge_memory` is a record of confidence, floor (`base_conf`), hits,
visible flag and state. `work` is the table as the connection sees it, `disk`
as last committed; SQLite's implicit transaction is exactly the difference.
`pc` says where `observe()` is: `Baselines` is `update_baselines`, whose
final commit makes permanent whatever an earlier failed pass left behind;
`SeedStructural`, `ConfirmEdge` and `DecayAbsentEdge` are one turn each of the
three loops; `Commit` is the commit of the pass; `Publish` is `_render` and the
assignment to `_graph`. `PassFails` is the loop's `except` (nothing is
rolled back, except that SQLite rolls back by itself on some errors, so both
outcomes are possible), `FetchFails` an exception before `observe`, `Restart` a
new process over the same file.

Abstractions. Confidences are integers out of `One`, rounded down; the
defaults are multiples of 1/20. Every workload is one of the storage workloads, so
the shared-disk witness couples every two of them, and the other pods, which
never reach the table without a witness, are left out. Any set of edges with at
most one per pair of pods may be live, which is what `run_pass` returns whatever the
signals were. `r`, lag, evidence and timestamps of a row are left out: no
decision of the memory reads them. The hit counter stops at `HitCap`; only
"at least two" is asked of it. When two remembered rows of a pair are equally
strong, or two pods of a workload have vectors, the code takes the one listed
last; the model takes either.

`RememberedGraph` is the promise behind all this: a durable table that forgets
no row and changes a row only as evidence allows (`Evolves`: floors do not sink,
confidence is gained by a confirmation or a floor, the visible flag moves at its
thresholds), and answers that repeat it. The refinement mapping takes `disk`,
rekeyed by pairs, for `memory` and the published graph for `answer`; a commit is
`Learn`, `Publish` is `Answer`, an error or a restart is `Forget`, and every
other step, the half passes included, is a stutter. `KeepsPromise` states it.

### CaseLibrary

A verdict is a root, a blast radius and a set of edges with their evidence; a
case is identified by its fingerprint (stressor, victims, motif, dominant
witness), as in the code, where the id is its digest. Similarities are
exact: `Unit` is a multiple of the size of every union that is compared, so the
weighted Jaccard sum is an integer and the two thresholds are compared in
hundredths. `PromoteCase` is the write of the case, `Observation` the second
write, `Commit` and the commit in `StartPass` the two that surround them. Lead
times, labels and timestamps are left out.

### Pass

`run_pass` step by step. What the signals say is an input of the step that reads
it: `Detect` takes any list of onsets for every pod, `Correlate` and `Attribute`
any profile of correlations, `EndPairs` any write activity. What the pass makes
of it is the model: `Centre` (the strongest onset among pods with an anomalous
neighbour on the disk, and each pod's onset nearest it), `Correlate` (one turn of
the first loop: `best_directed`, `adjacent_support`, `accept_edge`), `Attribute`
(one writer of the second loop), `Choose` (one edge per pair), `StartImpact`
and `Spread` (`_forward_impact` from every node, one turn of its queue per
step), `Rank`, `Reach` (`blast_radius`, one turn per step) and `Return`.

Abstractions. Correlations are hundredths, impacts units of 1/`Unit`, rounded
down. Pods are numbers, which stand for the order of names; where the
code's choice depends on the order of a dictionary, or of nodes with equal
scores, the model takes any. ETA, lag and the text of an edge, the class
and severity of a finding are left out: no decision of the pass reads them.
The onset of a writer is computed over another window than the findings and is
therefore free.

### Telemetry

The path of a sample: `Poll`, `Add` (under the ring's lock), `AppendEvent`
(under the recent list's), `Answer` (the handler takes the read lock and
encodes straight into the connection), `EngineTakes`, `RunPass`, `Publish`
(under `_lock`, which `Send` and `Sent` hold around a write to a client). Go's
`RWMutex` admits no reader while a writer waits: that is `~WantsRing` and
`~WantsRecent` in `Answer`. A sample is hot or not; a pass over a window with a
hot sample may find a storm, over one without cannot. Clients of the aggregator
take their answer or give up. Either process can die at any step
(`AggregatorDies`, `EngineDies`) and is then down until it is started; a fault
is thus never mistaken for a publication that leaves the same state.

Abstractions. Prometheus answers `Poll` with samples of any set of pods, the
empty one when the query fails, or never. A ticker whose poller is late drops
ticks, so any number of intervals may pass between two polls. As in `build_inputs`, only
pods with enough samples count towards the latest sample, and a pod is stale
relative to that: `age` is how far each is behind it, `idle` how long ago it was,
in polls and up to one more than `Recent`. There is one signal per pod. Whether
the samples of a pod that is fresh cover enough of the resampling grid
depends on their timestamps and is left open: the vectors are those of any
subset of `Fresh` (`Windows`).

### Narrative and Dashboard

A request goes through fetch, lookup, model, clear, store; each is a step
because a thread may lose the processor, or wait for the network, between any
two of them. A lookup and the read of a hit are one step:
there is neither a call nor a backward jump between them, the only places where
the image's interpreter (Python 3.12, `src/api/Dockerfile`) switches threads.
`clear()` and the store are two steps. A sentence is identified by the verdict it
was written for and by its author. `Dashboard` extends this with the page: each
open refresh holds one request for the narrative and one for the graph, which
sees the engine at its own moment, and settles as `Promise.all` does.

### Ingest

Messages are numbered. The writer's steps are the ones the database or the
queue can interrupt; `WriterFails` covers an insert that fails, a commit that
fails, and a commit that succeeded without the client learning of it.
`DatabaseStalls` is the disk storm of scenario S1.

### Interlock, Cooling and MCWorkloads

`Interlock` counts time in looks of the interlock's ticker. `Second` is the one
step that lets time pass; it waits until goroutines have done what they were at
and, unless a storm slows them, beats have arrived. The ticker's two reads and
its store are three steps (`Look`, `LookTripped`, `Trip`), the callback's two
stores are two (`Beat`, `Rearm`), so a beat can come between any of them. A
broken link holds beats back and lets them all go when it returns; `EarLost` is
the interlock's own connection, after which its client connects but does not
subscribe again, so that it hears nothing until it is restarted.

`Cooling` is the S1 trigger from the API's POST to the storm: the monitor's
HTTP thread creates the file, its main loop finds it, removes it and runs fio,
and the process can die between any two. `TimesOut` is the API's 503 after
eight seconds, whatever becomes of the POST.

`MCWorkloads` checks the three workloads in one run. They share no
variable, and the disk storm is a free input to each; so the run explores them
one at a time, which is the sum and not the product of their states, and what
holds of each holds of any interleaving.

## 3. What the runs check

| Run | Instance | Shows |
|---|---|---|
| `edge_loop` | two workloads with one pod each, `One`=10, scaled defaults; 142 122 states | with failed passes and restarts after every step: hysteresis (`Hysteresis`), one acceptance never shows an edge (`NoFlicker`), a published graph is committed (`ServedIsDurable`), every shared-disk pair is drawn (`BackboneServed`), a live edge reads confirming or active and a held one steady, decaying or hidden (`SourceMatchesState`), absent workloads are not penalised (`AbsentIsHeld`), floors never erode (`FloorNeverErodes`), the loop implements `RememberedGraph` (`KeepsPromise`), quiet pairs settle on their floor (`QuietSettles`), accepted ones lock in (`StormLocksIn`) |
| `edge_rollout` | two pods of one workload and one of another, `One`=5; 3.8 million states | each coupling is served once, also with rows in both directions and rows that join a workload with itself (`PairServedOnce`); the inductive invariant of the proofs (`IInv`) |
| `edge_states` | as `edge_loop`, `One`=20 | **violation**: a rendered edge can be in state `hidden` |
| `cases` | five verdicts over three workloads, with similarities on every side of both thresholds and exactly on 0.60; 77 055 states | stored cases never should have been folded (`Separated`), families are trees one level deep that follow the nearest case (`Families`), observations never exceed occurrences (`Counts`), a reported case is committed (`AnswerIsCommitted`), nothing committed is lost or renumbered (`CasesAreKept`) |
| `cases_stable` | the same | **violation**: a case is stored after one pass with edges |
| `narrator` | three requests, three verdicts of which two share a signature; 458 392 states | answers match the verdict fetched (`AnswerMatchesVerdict`), the cache stays as small as the number of requests in flight (`CacheBounded`), a stable verdict is cached again and again (`StableVerdictCached`) |
| `narrator_once` | two requests | **violation**: two polls ask the model for one signature |
| `dashboard` | two open refreshes, two verdicts; 537 090 states | a page that has shown something never goes blank (`NeverBlankAgain`) and converges to a verdict that stops changing (`ShownConverges`) |
| `pass` | three pods that share the disk and a fourth that does not, two onset times and strengths, six correlations on and around the thresholds, three lags; 1 685 476 states | a loud pod of no concern does not move the incident (`LonersDoNotCentre`), the choice of one edge per pair keeps attributed sources and they form no ring (`SourcesKept`), the search leaves the impact of the best walk (`ImpactIsBestWalk`), a pass with edges names a root, all its direct victims, and nobody the ranking did not count (`EdgesAccountedFor`) |
| `telemetry` | two pods, rings of two, the engine and one more reader; 1 180 607 states | rings keep their cap, and the poller has no more events to append than there are pods (`TTypeOK`), the poller gets through every answer of Prometheus, however readers hold its locks (`PollsGoOn`), a storm that is over leaves `/graph`, although pods vanish with hot series, fetches time out and processes keep dying (`StormForgotten`) |
| `ingest` | `MCWorkloads`: queue of two, batches of two, six messages; two beats held and five looks of age; three triggers; 37 152 states | rows are stored at most once and in order of arrival (`AtMostOnceInOrder`), the counter never claims a row that is not there (`InsertedIsCommitted`), queue and batch drain (`Drains`); safe mode within the look after three missed beats (`TripsInTime`), the mode follows the relay in the end (`ModeFollowsRelay`); a trigger storms once, unless a crash takes it between flag and storm (`TriggerStormsOnce`) |
| `ingest_gauge` | the same | **violation**: with the database stalled after a first commit and the queue full behind the waiting writer, the gauge reads zero |

Why these bounds are enough. The edge memory treats every row by itself, except
in `_render`, where two rows of one pair or a row and a live edge of the same
pair interact: two workloads give both directions of a pair and, in the rollout
instance, two pods per workload and self-pairs. `One`=10 is the smallest scale
at which all defaults but `hide` (0.25, rounded to 0.3) are exact; `One`=20
makes them all exact and is used where a counterexample is the result. The
proofs do not depend on the scale. In the case library, folding, joining a
family and opening one all need at most three stored cases; the instance has
four fingerprints, each pair of which is similar to a different degree. All of
them have the `pvc` witness: a fifth with `psi` compares as 0 with each of them
and multiplies the state space past what a run can hold; the theorems cover
every mixture. Three requests let a lookup, a clear and a store of three threads
overlap; any two of them are the pair that races. Six messages fill a queue of
two and a batch of two, overflow it, and leave two more for the time after a
fault. Two overlapping refreshes settle in both orders. In a pass, three coupled
pods give every graph of two loops' edges up to a cycle of three (a walk that
gains never takes more than `MaxHops` = 5 hops, as each multiplies by at most
0.7 x 0.9 and the search cuts at 0.15), and every pair of directions; a fourth,
uncoupled, is the loner. The correlations lie on and on either side of 0.40,
0.50 and 0.60, and below zero; the two onset times are further apart than the
tolerance, and the lags 5 and 15 put an onset 40 s away outside and inside the
temporal window. Rings of two samples with one enough for a vector let a ring
fill, overflow and be lost with the process; a pod is stale after one missed poll. Two
counted beats are the difference between one that is late and a burst; the age
of the last one matters up to `4`. Three triggers let one join the storm under
way, one wait for the next and one time out. Correlation levels, ages and beats
are bounded in the guards (`Capped`, `AgeMax`, `BeatMax`), all others by the
constants named.

Deadlock is checked in every run: none of these programs stops.

### Fairness

* `EdgeMemory` (`FairSpec`): weak fairness of the next step of a pass and of
  starting one. The loop is a thread that never ends, sleeps ten seconds and
  catches everything; nothing in a pass waits for another thread. The liveness
  properties assume that faults stop, since each can start a pass over.
* `Narrative`: weak fairness of each request's steps and of polling. The model
  call ends within its timeout with an answer or without one.
* `Dashboard`: the same, plus the browser's: every fetch is answered, be it by
  an error, and the interval keeps firing while the page is open.
* `Ingest`: weak fairness of the writer, which catches every error and
  reconnects, and of the database coming back after a stall. `Drains` assumes that
  faults stop; the bound on arrivals stops them as well, so it speaks of the
  queue after the last message.
* `Interlock`: weak fairness of the goroutines, the callback and the network;
  strong fairness of `Second`, since seconds pass however often relay, links and
  storm change in between. The premises of `ModeFollowsRelay` say that these
  settle.
* `Cooling`: weak fairness of the main loop, whose fio is bounded in time, and of
  the HTTP thread. `TriggerStormsOnce` assumes that restarts stop; it makes
  no assumption on timeouts.
* `Telemetry` (`TFairSpec`): weak fairness of what the poller does with an answer
  it has, of the loop, of a handler that may take its lock, and of every client of
  the aggregator, which reads its answer or gives up after its timeout: without
  timeouts, two readers could hold the poller up for ever. Strong fairness of
  `Publish`, because `_lock` is free between any two requests. No fairness of
  Prometheus, whose query has no timeout, so that a poller may rest for ever in
  front of one that hangs; of the clients of `/graph`, since the write to
  them has no timeout either; nor of starting a process that is down.
  What the program cannot bring about by itself stands in `StormForgotten` as a premise: samples
  stop being hot (`Calm`), and again and again there are samples (`SamplesCome`),
  the windows fetched have vectors (`VectorsCome`), and the engine's handler
  has finished with a client (`ClientsEnd`). Without any one of them the model keeps a storm
  on `/graph` for ever, as the code does. Nothing is supposed of deaths, which may
  go on. The premises are met by behaviours in which a storm was served and
  calm graphs are published from then on, with and without deaths.

### Divergences found

1. `_decay_absent_edges` writes state `hidden` (`state.py:384`) and `_render`
   serves such a row when it has a floor; the design's list of rendered states
   does not have it (`DESIGN_stateful_engine_and_case_library.md:132`).
2. Every pass with edges promotes a case (`state.py:263`); the module's header
   and the design speak of *stable* incidents held for N passes (`:175-176`).
3. The narrator's comment says the model is asked only when the verdict changes
   (`api/main.py:144-145`); overlapping polls each ask it.
4. telemetry-ingest's docstring says the gauge rises when the database slows
   (`main.py:3`); it is only set after a commit (`main.py:34`), so behind a database
   that stalls it keeps the value of the last one.

Noted while modelling, without a run of their own:

* `best_directed` does not "prefer a nonzero-lag winner if close", as its comment
  says (`lagcorr.py:57`): it compares the two peaks, and forward wins a tie.
* `blast_radius` keeps the impact of the first way it finds to a node, the ranking
  that of the best; so the radius may understate an impact, and leave out a
  victim further down a weak short path. `EdgesAccountedFor` states what is left.
* An interlock that loses its own connection stays in safe mode until it is
  restarted, even when the relay is healthy: it connects with a clean session
  (`main.go:21-25`) and does not subscribe again.

## 4. What is proved

Every theorem holds for all values of the constants that meet the assumptions
stated in the modules: any finite or infinite set of pods for the edge memory, any
finite number of them for a pass, any number of requests, verdicts and messages. Where an argument is by
induction (over the length of a walk, the size of a set), it takes a least
counterexample (`NatLemmas`), since the provers do not instantiate the library's rules
of induction.

| Module | Theorem | Statement |
|---|---|---|
| `EdgeMemoryProofs` | `Invariance` | `Spec => []IInv` |
| | `TypeCorrect`, `HysteresisHolds`, `NoFlickerHolds`, `ServedIsDurableHolds`, `BackboneServedHolds` | `Spec => []TypeOK`, `[]Hysteresis`, `[]NoFlicker`, `[]ServedIsDurable`, `[]BackboneServed` |
| | `SourceMatchesStateHolds`, `PairServedOnceHolds` | `Spec => []SourceMatchesState`, `[]PairServedOnce` |
| | `AbsentIsHeldHolds`, `FloorNeverErodesHolds` | `Spec => AbsentIsHeld`, `FloorNeverErodes` |
| | `Implements` | `Spec => KeepsPromise`: `EdgeMemory` implements `RememberedGraph` |
| `CaseLibraryProofs` | `LibraryInvariance`, `LibraryTypeCorrect` | `CSpec => []CInv`, `[]CTypeOK` |
| | `SeparatedHolds`, `FamiliesHolds`, `CountsHolds`, `AnswerIsCommittedHolds` | `CSpec => []Separated`, `[]Families`, `[]Counts`, `[]AnswerIsCommitted` |
| | `CasesAreKeptHolds` | `CSpec => CasesAreKept` |
| `PassProofs` | `LonersDoNotCentreHolds`, `SourcesKeptHolds` | `PSpec => []LonersDoNotCentre`, `SourcesKept` |
| | `OneEdgePerPair` | `PSpec =>` from the choice on, at most one edge joins two pods |
| `SearchProofs` | `ImpactIsBestWalkHolds` | `PSpec => []ImpactIsBestWalk` |
| | `EdgesAccountedForHolds` | `PSpec => []EdgesAccountedFor` |
| `NarrativeProofs` | `AnswerMatchesVerdictHolds`, `CacheBoundedHolds`, `NarrativeTypeCorrect` | `NSpec => []AnswerMatchesVerdict`, `[]CacheBounded`, `[]NTypeOK` |
| | `PageUsesNarrator` | `DSpec => NSpec`: all of the above holds behind the page |
| | `DashboardTypeCorrect`, `NeverBlankAgainHolds` | `DSpec => []DTypeOK`, `NeverBlankAgain` |
| `TelemetryProofs` | `TelemetryTypeCorrect` | `TSpec => []TTypeOK` |
| `WorkloadProofs` | `IngestInvariance`, `IngestTypeCorrect` | `ISpec => []IngestInv`, `[]ITypeOK` |
| | `AtMostOnceInOrderHolds`, `InsertedIsCommittedHolds` | `ISpec => []AtMostOnceInOrder`, `[]InsertedIsCommitted` |
| | `TripsInTimeHolds` | `LSpec => []TripsInTime` |
| | `NoStormTwiceHolds` | `CInit /\ [][CNext]_cvars => []NoStormTwice`, the safety half of `TriggerStormsOnce` |
| | `WorkloadsTogether` | the five above hold of `MCWorkloads`' `Spec` |

`NatLemmas` has what the proofs about a choice of the best share: a set of
naturals has a least member, a bounded one a greatest, and a finite set of
numbers can be listed in order.

### The edge memory

Assumptions. `ConfigAssumption`: fractions between 0 and `One`, prior at
most alpha, hide at most show. `ShowAssumption`: one acceptance, of a new
edge or of a seeded one, stays below the show threshold. It is true of the defaults (0.4 and
0.52 against 0.6) but nothing in the code enforces it: `EDGE_ALPHA`=0.5 with the
default prior already breaks it, and then `NoFlicker` is false.
`NoneAssumption`: the missing row is not a row.

Argument. None of the properties is inductive. A row that was seeded and not
yet faded is *below* its floor in the middle of a pass, and stays so when the
pass fails; `ServedIsDurable` and `BackboneServed` only hold because the rest of
the pass repairs it before anything is published. So `IInv` adds: what every row
satisfies at any moment (`Sound`: the floor is under the confidence or was just
raised to the prior; visible rows have been hit twice; an unhit row is a
fresh seed), that the connection only extends what is committed (`Extends`),
and what each loop has established for the items it has visited (`SeedDone`,
`ConfirmDone`, `DecayDone`). Lemmas on the arithmetic (`Grow`, `Fade`, `Floor`
stay in range and move the right way) and on one row (`Seeded`, `Confirmed`,
`Faded` preserve `Sound`) carry the step proof, one step per action. That the
state of a served edge is repaired at `Publish` is then a fact about `IInv` at
`pc = "render"`.

The refinement needs one invariant more, `Ahead`: in the middle of a pass,
however many failed passes came before it, each row the connection sees is
reachable from the committed one by what `RememberedGraph` allows in one step.
Every action of a pass extends it, and a commit is then one `Learn`.
`SourceMatchesState` and `PairServedOnce` follow from `IInv` at the moment of
`Publish`, where the held row of a pair is shown to be determined by the pair.

### The case library

`CInv` says of both tables, the connection's and the saved one, that they are
`TableOK` (typed, separated, families, and rows numbered in the order stored),
that the connection's keeps all that is saved (`Keeps`), and what is known at
each point of a pass (`Stages`: a decision holds of the table it was made about,
and its occurrence is counted before its observation). `Separated` and
`Families` rest on `NearestExists`: if any known case is at or above a
threshold, `Nearest` is not empty, by a least element of what is missing to full
similarity and then of the row number. So a case is stored only when
every known one is below tau_merge (`NothingNear`), and `StoredOK` shows that
adding it at the end disturbs no older family. `SimFacts` has the arithmetic: a
similarity is between 0 and 100 `Unit`, symmetric, and 100 `Unit` of a case with itself.
Assumptions: finitely many workloads and verdicts, thresholds with
0 < tau_family <= tau_merge <= 1, a missing row is not a row.

### A pass

Assumptions. `InputAssumption`: finitely many pods and lags, lag 0 among them.
`UnitAssumption`: `Unit` is a multiple of 20, so that the cut of 0.15, which the
code compares as it is, is exact in units. The inputs of a step are those the
model takes: `Detect` gives each pod finitely many onsets, as the detector does.

`LonersDoNotCentre`: with two coupled pods anomalous, the centre is chosen among
coupled pods, whose coupling and onsets the others do not enter
(`CentreOfCoupled`). `SourcesKept`: until the choice, every edge with
evidence of writing goes from a pod that writes strictly more to one that writes
less, and is the only such edge of its pair (`SourceInv`); so the choice cannot
drop it, and in any set of pods the one that writes least drives no other.

`OneEdgePerPair` is `GraphInv` at the end of the choice: edges join two different
pods, a pair still to be looked at has none, and the choice keeps one of the
edges of each pair. It is what the search's step needs, where `Brought` looks up
*the* edge to a node, and what `EdgeMemory` takes of its input (`LiveEdges`).

`ImpactIsBestWalk` relates the labels of a search that revisits nodes, in the
order of its queue, to a definition by recursion over the length of a walk. The
invariant (`Searching`) says, of every point of a search: each label, and
each entry of the queue, came along a walk of at most five hops (so it is no
more than `Walk`); and each label, and the full impact of the root, is either
still in the queue or has been spread, that is, every edge out of its node has
brought its target at least what goes through it. When the queue is dry
(`DrySearch`), a walk that counts is shown to be below the label of its end by
its length: a least length at which it were not is one hop longer than a length
at which it was, where the label had been spread. `SixthHopIsCut` closes the other
end: five hops of at most 0.7 each leave 0.168, a sixth leaves less than the cut,
so longer walks never enter the queue and five are enough for every graph, cyclic
ones included. `WInv` carries this over the roots already done and those to come.

`EdgesAccountedFor` needs the ranking's order. A root with an edge counts for
more than nothing (`ScoreFacts`), so somebody is ranked (`SomeoneRanks`) and the
first of the ranking exists (`FirstExists`) and has an edge out: without one,
its impacts, and with them its score, would be nought (`WalkNeedsEdge`). The score is a
sum over a set, whose fold the provers cannot unfold by induction; instead it is the
number of *shares* (`Shares`), pairs of a symptom and a unit of its impact, so that
its properties are those of cardinalities (`ExplainsFacts`). `BlastInv` then
follows `blast_radius`: whom it has named came along a walk, so has no more than
the ranking's impact, and once the root has been popped all its targets are named.

### Narrator and page

`AnswerMatchesVerdict` needs that what is cached under a signature has that
signature (`Filed`), which every interleaving of clears and stores preserves.
`CacheBounded` is inductive with the finiteness of the cache: a clear pays for
the store it precedes. Assumptions: finitely many requests, which the
server's pool of threads is; no answer at all is neither a verdict nor a sentence.

Each step of the page is a step of the narrator or leaves it alone
(`PageSteps`), so its invariant holds behind the page, and with it what a refresh
that settles has in hand: a verdict and a sentence (`SettleShows`). That is
`NeverBlankAgain`.

### Telemetry

`TTypeOK` is inductive with what the poller has at hand at each place
(`PollerInv`): nothing when it rests or is down, an event when it waits for the recent list,
and never more events and pods to add, together, than there are pods. Assumptions:
finitely many pods, room for one sample, and enough of them at most the room.

### Ingest, interlock, cooling

`IngestInv` lines database, batch and queue up: each is in order, and
each message of one is older than each of the next (`InLine`), whatever the
writer drops; `Accounted` says that what is counted is committed. Assumption:
queue and batch sizes are positive.

`TripsInTime` needs that a beat that was stamped and not acted on yet is fresh
(`FreshWhileStamped`); otherwise its callback could take safe mode back from a
ticker that rightly stored it.

`NoStormTwice`: the flag, and the loop that found or removed it, stand for at
least one trigger that has not stormed yet (`TriggerInv`), which a storm that
starts pays with. Assumption: finitely many triggers.

`WorkloadsTogether` holds because each step of the composition is a step of each
workload or leaves it alone (`EachOnItsOwn`).

### Only model-checked

The liveness properties, because fairness and `ENABLED` are out of the provers'
reach here: `QuietSettles`, `StormLocksIn`, `StableVerdictCached`,
`ShownConverges`, `PollsGoOn`, `StormForgotten`, `Drains`, `ModeFollowsRelay`
and the second half of `TriggerStormsOnce`. Every other property of a passing run
has a theorem.

## 5. What is not modelled

* The detectors and the correlation coefficients: real-valued numerics, where
  TLC has nothing to enumerate and which the repository's tests cover with planted
  signals. Their results are free inputs of `Pass`.
* The baselines (`state.py` 602-644), but for their commit: a median and a spread
  of a workload's own samples, which decide whether its onsets count; `Detect` lets
  any onset count or not.
* The ranking and blast radius that `_render` computes again over the live and held
  edges it serves (`state.py` 463-469). `EdgesAccountedFor` and `ImpactIsBestWalk`
  are about `run_pass`'s own answer; the same functions run again there, over a graph
  that `EdgeMemory` has and `Pass` does not.
* How long a reader of the aggregator waits: its timeout is the only bound the code
  gives, and `PollsGoOn` speaks of the poller alone.
* A thread of the engine that is stuck in a write to a client of `/graph`: the model
  has it, and there every promise ends (`ClientsEnd`).
* Incidents whose fingerprints differ in their witness are not in the run of the case
  library; the theorems cover them. Options under which one acceptance shows an edge are
  ruled out by `ShowAssumption` in runs and theorems alike.
* The resampling grid of `build_inputs`, and what the aggregator's recent list
  holds: `Telemetry` models when they can be read, `Pass` takes any result.
* The schema migration and `record_model_version`: straight-line start-up code;
  `record_mistake`, which nothing calls.
* The stateless endpoints of the API, the drawing of the graph, the load generators, the
  charts and the scripts: they keep no state a decision reads.
* alert-dispatcher and notify-gateway, whose duplicates are the point of
  scenario S4, and the leak of vision-qc, that of S5.

## 6. Plan

1. `Baselines`: maturity, the storm gate and slow drift in fixed point, as an input
   of `Detect`; whether a storm before maturity is ever unlearned, and what two pods
   of one workload do to the counter of a shared row.
2. The content of the recent list and the engine's SLO breaches: events that are
   only pushed out by newer ones, as the input of `Symptoms`.
3. `Pass` inside `EdgeMemory`: its `LiveEdges` are any set with one edge per pair,
   which `OneEdgePerPair` justifies; the composition itself would also say which
   of them a pass can find together, and what `_render`'s second ranking says.
4. The incident timer of the page.
5. Theorems: that what `Telemetry` serves is a verdict of a window it has seen;
   what `RememberedGraph` promises of two answers far apart.
