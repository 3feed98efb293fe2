----------------------------- MODULE Telemetry -----------------------------
(***************************************************************************)
(* From the samples to the verdict on /graph: the aggregator               *)
(* (aggregator/main.go) and the engine's loop and handler                  *)
(* (correlation/service.py), with everybody who reads them.                *)
(*                                                                         *)
(* The aggregator's poller adds samples under the write lock of the ring,  *)
(* and events under that of the recent list; its handlers hold the read    *)
(* lock until the client has taken the whole answer.  Go lets no new       *)
(* reader in while a writer waits.  The engine fetches window and events   *)
(* one after the other, and publishes under a lock that its handler holds  *)
(* while it sends.  The clients of the aggregator give up after a timeout; *)
(* Prometheus may never answer, nor a client of the engine ever finish.    *)
(*                                                                         *)
(* Time is told in polls, and only as far as staleness needs: by how much  *)
(* the newest sample of a pod is older than the newest of all pods that    *)
(* have enough samples, and how long ago that one was.                     *)
(***************************************************************************)
EXTENDS Integers, Sequences, FiniteSets

CONSTANTS
    Pod,      \* numbers: the pods in the order of the answer of Prometheus
    Cap,      \* capN: samples kept per pod (180)
    Enough,   \* samples without which a pod has no vector (12)
    Recent,   \* polls by which a pod that is not stale may be behind (2)
    Engine,   \* the engine's fetches, one of the readers of the aggregator
    Other     \* the other readers: requests of the API gateway

ASSUME CapAssumption ==
    /\ Pod \subseteq Nat /\ IsFiniteSet(Pod)
    /\ Cap \in Nat \ {0} /\ Enough \in 1..Cap /\ Recent \in Nat

VARIABLES
    ring,    \* per pod, oldest first, whether the sample was hot
    age,     \* per pod with enough samples: polls its newest is behind the latest
    idle,    \* polls since the latest sample of a pod with enough of them
    poll,    \* where the poller is, or that the aggregator is down
    todo,    \* pods sampled in this poll and not added yet
    alarms,  \* events of this poll not appended yet
    req,     \* per reader: the answer it waits for or is being sent
    loop,    \* where the engine's loop is, or that the engine is down
    got,     \* what the window fetched last comes down to
    result,  \* what the loop is about to publish
    served,  \* _graph: a storm, or none (a calm, an error or the bootstrap graph)
    sending  \* the handler of the engine sends _graph, and holds _lock

tvars == <<ring, age, idle, poll, todo, alarms, req, loop, got, result, served, sending>>
aggregator == <<ring, age, idle, poll, todo, alarms>>
engine     == <<loop, got, result, served>>

Reader == {Engine} \cup Other
Url    == {"window", "events"}
Idle   == [url |-> "window", at |-> "idle"]

(* Readers that hold the read lock behind an answer. *)
Holding(url) == {c \in Reader : req[c] = [url |-> url, at |-> "sent"]}
(* The poller waits for the write lock of the ring, or of the recent list. *)
WantsRing   == poll = "wants ring"
WantsRecent == poll = "wants recent"

TInit ==
    /\ ring = [p \in Pod |-> <<>>] /\ age = [p \in Pod |-> Recent + 1]
    /\ idle = Recent + 1
    /\ poll = "rest" /\ todo = {} /\ alarms = 0
    /\ req = [c \in Reader |-> Idle]
    /\ loop = "rest" /\ got = "none" /\ result = "none" /\ served = "quiet"
    /\ sending = FALSE

-----------------------------------------------------------------------------
(* The poller *)

(* Nothing older than stale need be told apart. *)
Older(n, d) == IF n + d <= Recent THEN n + d ELSE Recent + 1

(* Prometheus answers with samples of some pods, others have gaps or are    *)
(* gone, or the query fails and there are none.  A ticker whose poller is   *)
(* late drops ticks, so more than one interval may have passed.             *)
Poll ==
    /\ poll = "rest"
    /\ todo' \in SUBSET Pod
    /\ \E d \in 1..Recent + 1 : idle' = Older(idle, d)
    /\ poll' = "adding"
    /\ UNCHANGED <<ring, age, alarms, req, engine, sending>>

(* Mutant: the ring is trimmed one sample late. *)
AppendedLate(s, x) == IF Len(s) <= Cap THEN Append(s, x) ELSE Append(Tail(s), x)

Appended(s, x) == IF Len(s) < Cap THEN Append(s, x) ELSE Append(Tail(s), x)

WantRing ==
    /\ poll = "adding" /\ todo # {}
    /\ poll' = "wants ring"
    /\ UNCHANGED <<ring, age, idle, todo, alarms, req, engine, sending>>

(* Ring.Add, and the threshold, which a hot sample exceeds.  The sample is  *)
(* the latest one as soon as its pod has enough of them.                    *)
Add(p, hot) ==
    /\ WantsRing /\ Holding("window") = {}
    /\ p \in todo /\ \A q \in todo : p <= q
    /\ todo' = todo \ {p}
    /\ ring' = [ring EXCEPT ![p] = Appended(@, hot)]
    /\ IF Len(ring'[p]) < Enough THEN UNCHANGED <<age, idle>>
       ELSE /\ age' = [q \in Pod |-> IF q = p THEN 0 ELSE Older(age[q], idle)]
            /\ idle' = 0
    /\ alarms' = IF hot THEN alarms + 1 ELSE alarms
    /\ poll' = "adding"
    /\ UNCHANGED <<req, engine, sending>>

WantRecent ==
    /\ poll = "adding" /\ todo = {}
    /\ poll' = IF alarms > 0 THEN "wants recent" ELSE "rest"
    /\ UNCHANGED <<ring, age, idle, todo, alarms, req, engine, sending>>

(* The events go to the recent list one by one, each under the lock. *)
AppendEvent ==
    /\ WantsRecent /\ Holding("events") = {}
    /\ alarms' = alarms - 1
    /\ poll' = "adding"
    /\ UNCHANGED <<ring, age, idle, todo, req, engine, sending>>

(* What the poller does with the answer of Prometheus. *)
Poller == WantRing \/ (\E p \in Pod, hot \in BOOLEAN : Add(p, hot)) \/ WantRecent \/ AppendEvent
-----------------------------------------------------------------------------
(* The handlers of /window and /events, and their clients *)

(* Mutant: a pod that is gone keeps its series in the vectors. *)
FreshOrDead == {p \in Pod : Len(ring[p]) >= Enough}

(* build_inputs: pods with enough samples whose last one is not stale. *)
Fresh == {p \in Pod : Len(ring[p]) >= Enough /\ age[p] <= Recent}

(* What a window with vectors of these pods comes down to. *)
Window(pods) ==
    IF pods = {} THEN "none"
    ELSE IF \E p \in pods : \E i \in DOMAIN ring[p] : ring[p][i] THEN "hot" ELSE "quiet"

(* A pod whose samples leave too much of the grid uncovered has no vector;  *)
(* which ones do is left open.                                              *)
Windows == {Window(pods) : pods \in SUBSET Fresh}

Ask(c, url) ==
    /\ req[c].at = "idle"
    /\ req' = [req EXCEPT ![c] = [url |-> url, at |-> "asked"]]

OtherAsks(c) ==
    /\ \E url \in Url : Ask(c, url)
    /\ UNCHANGED <<aggregator, engine, sending>>

(* Mutant: a reader is let in before the writer that waits. *)
AnswerBeforeWriter(c) ==
    /\ req[c].at = "asked" /\ poll # "down"
    /\ req' = [req EXCEPT ![c].at = "sent"]
    /\ IF c = Engine /\ req[c].url = "window" THEN got' \in Windows ELSE got' = got
    /\ UNCHANGED <<aggregator, loop, result, served, sending>>

(* RLock, and the ring is encoded as it is now. *)
Answer(c) ==
    /\ req[c].at = "asked" /\ poll # "down"
    /\ IF req[c].url = "window" THEN ~WantsRing ELSE ~WantsRecent
    /\ req' = [req EXCEPT ![c].at = "sent"]
    /\ IF c = Engine /\ req[c].url = "window" THEN got' \in Windows ELSE got' = got
    /\ UNCHANGED <<aggregator, loop, result, served, sending>>

(* The client has it all, and the lock is free. *)
OtherTakes(c) ==
    /\ req[c].at = "sent"
    /\ req' = [req EXCEPT ![c] = Idle]
    /\ UNCHANGED <<aggregator, engine, sending>>

(* The client timed out; the write to it fails. *)
OtherGivesUp(c) ==
    /\ req[c].at # "idle"
    /\ req' = [req EXCEPT ![c] = Idle]
    /\ UNCHANGED <<aggregator, engine, sending>>
-----------------------------------------------------------------------------
(* The loop of the engine *)

Fetch ==
    /\ loop = "rest"
    /\ Ask(Engine, "window")
    /\ loop' = "fetch"
    /\ UNCHANGED <<aggregator, got, result, served, sending>>

EngineTakes ==
    /\ req[Engine].at = "sent"
    /\ IF req[Engine].url = "window"
       THEN req' = [req EXCEPT ![Engine] = [url |-> "events", at |-> "asked"]] /\ loop' = loop
       ELSE req' = [req EXCEPT ![Engine] = Idle] /\ loop' = "pass"
    /\ UNCHANGED <<aggregator, got, result, served, sending>>

(* _fetch timed out: the loop reports an error. *)
EngineGivesUp ==
    /\ req[Engine].at # "idle"
    /\ req' = [req EXCEPT ![Engine] = Idle]
    /\ loop' = "publish" /\ result' = "quiet" /\ got' = "none"
    /\ UNCHANGED <<aggregator, served, sending>>

(* Without vectors nothing happens; without a hot sample nothing is found.  *)
RunPass ==
    /\ loop = "pass"
    /\ IF got = "none" THEN loop' = "rest" /\ result' = result
       ELSE /\ loop' = "publish"
            /\ result' \in (IF got = "hot" THEN {"quiet", "storm"} ELSE {"quiet"})
    /\ got' = "none"
    /\ UNCHANGED <<aggregator, req, served, sending>>

Publish ==
    /\ loop = "publish" /\ ~sending
    /\ served' = result
    /\ loop' = "rest" /\ result' = "none"
    /\ UNCHANGED <<aggregator, req, got, sending>>

(* do_GET sends _graph with _lock held, until the client has it or is gone. *)
Send ==
    /\ loop # "down" /\ ~sending
    /\ sending' = TRUE
    /\ UNCHANGED <<aggregator, req, engine>>
Sent ==
    /\ sending /\ sending' = FALSE
    /\ UNCHANGED <<aggregator, req, engine>>
-----------------------------------------------------------------------------
(* A process is killed: its memory is gone, and so are its connections.  It *)
(* is down until it is started again.                                       *)

AggregatorDies ==
    /\ poll # "down" /\ poll' = "down"
    /\ ring' = [p \in Pod |-> <<>>] /\ age' = [p \in Pod |-> Recent + 1]
    /\ idle' = Recent + 1
    /\ todo' = {} /\ alarms' = 0
    /\ req' = [c \in Reader |-> Idle]
    /\ IF req[Engine].at # "idle" THEN loop' = "publish" /\ result' = "quiet" /\ got' = "none"
       ELSE UNCHANGED <<loop, result, got>>
    /\ UNCHANGED <<served, sending>>

AggregatorStarts ==
    /\ poll = "down" /\ poll' = "rest"
    /\ UNCHANGED <<ring, age, idle, todo, alarms, req, engine, sending>>

EngineDies ==
    /\ loop # "down" /\ loop' = "down"
    /\ got' = "none" /\ result' = "none" /\ served' = "quiet"
    /\ req' = [req EXCEPT ![Engine] = Idle]
    /\ sending' = FALSE
    /\ UNCHANGED <<aggregator>>

EngineStarts ==
    /\ loop = "down" /\ loop' = "rest"
    /\ UNCHANGED <<aggregator, req, got, result, served, sending>>

TFault == AggregatorDies \/ EngineDies

TNext ==
    \/ Poll \/ Poller
    \/ \E c \in Reader : Answer(c)
    \/ \E c \in Other : OtherAsks(c) \/ OtherTakes(c) \/ OtherGivesUp(c)
    \/ Fetch \/ EngineTakes \/ EngineGivesUp \/ RunPass \/ Publish
    \/ Send \/ Sent
    \/ TFault \/ AggregatorStarts \/ EngineStarts

TSpec == TInit /\ [][TNext]_tvars

(* A thread that may go on does: the poller with what it was answered, a    *)
(* handler, the loop.  Every client of the aggregator reads its answer or   *)
(* times out.  Between two requests the engine's handler waits in select,   *)
(* so a loop that waits for _lock gets it if it is free again and again.    *)
(* Nothing obliges Prometheus to answer (promQuery has no timeout), nor a   *)
(* client of the engine to finish (the write to it has none), nor a process *)
(* that is down to be started.                                              *)
TFairSpec ==
    /\ TSpec
    /\ WF_tvars(Poller)
    /\ \A c \in Reader : WF_tvars(Answer(c))
    /\ \A c \in Other : WF_tvars(OtherTakes(c) \/ OtherGivesUp(c))
    /\ WF_tvars(Fetch) /\ WF_tvars(EngineTakes \/ EngineGivesUp) /\ WF_tvars(RunPass)
    /\ SF_tvars(Publish)
-----------------------------------------------------------------------------
(* Properties *)

(* Every variable has its type, a ring stays within its capacity, and the   *)
(* poller has no more to append than there are pods.                        *)
TTypeOK ==
    /\ sending \in BOOLEAN
    /\ ring \in [Pod -> Seq(BOOLEAN)] /\ \A p \in Pod : Len(ring[p]) <= Cap
    /\ age \in [Pod -> 0..Recent + 1] /\ idle \in 0..Recent + 1
    /\ poll \in {"rest", "adding", "wants ring", "wants recent", "down"}
    /\ todo \subseteq Pod /\ alarms \in 0..Cardinality(Pod)
    /\ req \in [Reader -> [url : Url, at : {"idle", "asked", "sent"}]]
    /\ loop \in {"rest", "fetch", "pass", "publish", "down"}
    /\ got \in {"none", "hot", "quiet"}
    /\ {result, served} \subseteq {"none", "quiet", "storm"}

(* However the readers of /window and /events overlap and dawdle, the       *)
(* poller deals with each answer of Prometheus to the end: it waits for     *)
(* neither of the locks for ever.                                           *)
PollsGoOn == []<>(poll \in {"rest", "down"})

(* A storm that is over leaves the graph, also when the pods that were hot  *)
(* are gone and their series stay in the ring for ever, when fetches time   *)
(* out, and when processes are killed again and again.  Supposed: from some *)
(* time on no sample is hot; and again and again Prometheus has samples,    *)
(* a window that the engine gets has a vector, and the engine's handler is  *)
(* done with its client.  Without any one of these _graph may keep a storm. *)
Calm        == <>[][\A p \in Pod : ~Add(p, TRUE)]_tvars
SamplesCome == []<>(todo # {})
VectorsCome == []<>(req[Engine] = [url |-> "window", at |-> "sent"]) => []<>(got # "none")
ClientsEnd  == []<>~sending
StormForgotten ==
    Calm /\ SamplesCome /\ VectorsCome /\ ClientsEnd => <>[](served # "storm")
=============================================================================
