-------------------------- MODULE TelemetryProofs --------------------------
(***************************************************************************)
(* Proofs about Telemetry, for any finite set of pods, any capacity of the *)
(* rings and any number of readers.                                        *)
(***************************************************************************)
EXTENDS Telemetry, FiniteSetTheorems, TLAPS

(* The poller rests or is down with nothing at hand, waits for the recent list with an *)
(* event to append, and has at most one event for each pod it has added.    *)
PollerInv ==
    /\ poll \in {"rest", "down"} => todo = {} /\ alarms = 0
    /\ poll = "wants recent" => alarms > 0
    /\ alarms + Cardinality(todo) <= Cardinality(Pod)

TInv == TTypeOK /\ PollerInv

-----------------------------------------------------------------------------
(* Appended keeps a ring of at most Cap samples one of at most Cap samples. *)
LEMMA AppendedFits ==
    ASSUME NEW s \in Seq(BOOLEAN), NEW x \in BOOLEAN, Len(s) <= Cap
    PROVE  Appended(s, x) \in Seq(BOOLEAN) /\ Len(Appended(s, x)) <= Cap
<1>. USE CapAssumption
<1>1. CASE Len(s) < Cap
  BY <1>1 DEF Appended
<1>2. CASE ~(Len(s) < Cap)
  <2>1. Len(s) = Cap /\ s # <<>>
    BY <1>2
  <2>2. Tail(s) \in Seq(BOOLEAN) /\ Len(Tail(s)) = Cap - 1
    BY <2>1
  <2>3. /\ Append(Tail(s), x) \in Seq(BOOLEAN)
        /\ Len(Append(Tail(s), x)) = Len(Tail(s)) + 1
    BY <2>2
  <2>. QED
    BY <1>2, <2>2, <2>3 DEF Appended
<1>. QED
  BY <1>1, <1>2

(* The pods a poll has still to add, and those there are. *)
LEMMA Counts ==
    ASSUME NEW T, T \subseteq Pod
    PROVE  /\ IsFiniteSet(T) /\ Cardinality(T) \in Nat /\ Cardinality(Pod) \in Nat
           /\ Cardinality(T) <= Cardinality(Pod)
           /\ \A p \in T : Cardinality(T \ {p}) = Cardinality(T) - 1
BY CapAssumption, FS_Subset, FS_CardinalityType, FS_RemoveElement

(* Ages are counted up to one more than Recent. *)
LEMMA Ages ==
    /\ Recent \in Nat /\ {0, Recent + 1} \subseteq 0..Recent + 1
    /\ \A n, d \in 0..Recent + 1 : Older(n, d) \in 0..Recent + 1
BY CapAssumption DEF Older

LEMMA InitTInv == TInit => TInv
<1>. SUFFICES ASSUME TInit PROVE TInv
  OBVIOUS
<1>1. Cardinality({}) = 0 /\ Cardinality(Pod) \in Nat
  BY Counts, FS_EmptySet
<1>2. <<>> \in Seq(BOOLEAN) /\ Len(<<>>) = 0
  OBVIOUS
<1>3. Idle \in [url : Url, at : {"idle", "asked", "sent"}]
  BY DEF Idle, Url
<1>4. /\ ring \in [Pod -> Seq(BOOLEAN)] /\ \A p \in Pod : Len(ring[p]) <= Cap
      /\ age \in [Pod -> 0..Recent + 1] /\ idle \in 0..Recent + 1
  <2>1. idle = Recent + 1 /\ Recent + 1 \in 0..Recent + 1 /\ ring = [p \in Pod |-> <<>>] /\ age = [p \in Pod |-> Recent + 1]
    BY Ages DEF TInit
  <2>2. Len(<<>>) <= Cap
    BY <1>2, CapAssumption
  <2>. QED
    BY <1>2, <2>1, <2>2
<1>5. alarms \in 0..Cardinality(Pod) /\ todo \subseteq Pod
  BY <1>1 DEF TInit
<1>6. TTypeOK
  BY <1>3, <1>4, <1>5 DEF TInit, TTypeOK
<1>. QED
  BY <1>1, <1>6 DEF TInit, TInv, PollerInv

-----------------------------------------------------------------------------
(* The steps of the poller. *)
LEMMA PollTInv == ASSUME TInv, Poll PROVE TInv'
<1>1. Cardinality(todo') \in Nat /\ Cardinality(todo') <= Cardinality(Pod)
  BY Counts DEF Poll
<1>2. idle' \in 0..Recent + 1
  <2>1. PICK d \in 1..Recent + 1 : idle' = Older(idle, d)
    BY DEF Poll
  <2>2. idle \in 0..Recent + 1
    BY DEF TInv, TTypeOK
  <2>3. d \in 0..Recent + 1
    BY <2>1, CapAssumption
  <2>. QED
    BY <2>1, <2>2, <2>3, Ages
<1>3. todo' \subseteq Pod /\ poll' = "adding" /\ poll = "rest"
      /\ UNCHANGED <<ring, age, alarms, req, loop, got, result, served, sending>>
  BY DEF Poll, engine
<1>4. alarms' = 0 /\ Cardinality(Pod) \in Nat
  BY <1>3, Counts DEF TInv, PollerInv
<1>5. TTypeOK'
  BY <1>2, <1>3, <1>4 DEF TInv, TTypeOK
<1>. QED
  BY <1>1, <1>3, <1>4, <1>5 DEF TInv, PollerInv

LEMMA AddTInv == ASSUME TInv, NEW p \in Pod, NEW hot \in BOOLEAN, Add(p, hot) PROVE TInv'
<1>1. /\ Appended(ring[p], hot) \in Seq(BOOLEAN)
      /\ Len(Appended(ring[p], hot)) <= Cap
  BY AppendedFits DEF TInv, TTypeOK
<1>2. ring' \in [Pod -> Seq(BOOLEAN)] /\ \A q \in Pod : Len(ring'[q]) <= Cap
  BY <1>1 DEF Add, TInv, TTypeOK
<1>3. age' \in [Pod -> 0..Recent + 1] /\ idle' \in 0..Recent + 1
  <2>1. age \in [Pod -> 0..Recent + 1] /\ idle \in 0..Recent + 1
    BY DEF TInv, TTypeOK
  <2>2. CASE UNCHANGED <<age, idle>>
    BY <2>1, <2>2
  <2>3. CASE /\ age' = [q \in Pod |-> IF q = p THEN 0 ELSE Older(age[q], idle)]
             /\ idle' = 0
    BY <2>1, <2>3, Ages
  <2>. QED
    BY <2>2, <2>3 DEF Add
<1>4. /\ alarms' \in {alarms, alarms + 1} /\ alarms \in Int /\ alarms >= 0
      /\ alarms + Cardinality(todo) <= Cardinality(Pod)
  <2>1. alarms \in 0..Cardinality(Pod) /\ Cardinality(Pod) \in Nat
    BY Counts DEF TInv, TTypeOK
  <2>2. alarms' \in {alarms, alarms + 1}
    BY DEF Add
  <2>3. alarms + Cardinality(todo) <= Cardinality(Pod)
    BY DEF TInv, PollerInv
  <2>. QED
    BY <2>1, <2>2, <2>3
<1>5. /\ Cardinality(todo) \in Nat /\ Cardinality(todo') = Cardinality(todo) - 1
      /\ Cardinality(todo') \in Nat /\ Cardinality(Pod) \in Nat /\ todo' \subseteq Pod
  <2>1. todo \subseteq Pod /\ p \in todo /\ todo' = todo \ {p}
    BY DEF Add, TInv, TTypeOK
  <2>2. todo' \subseteq Pod
    BY <2>1
  <2>. QED
    BY <2>1, <2>2, Counts
<1>6. alarms' + Cardinality(todo') <= Cardinality(Pod) /\ alarms' \in 0..Cardinality(Pod)
  BY <1>4, <1>5
<1>7. poll' = "adding" /\ UNCHANGED <<req, engine, sending>>
  BY DEF Add
<1>. QED
  BY <1>2, <1>3, <1>5, <1>6, <1>7 DEF TInv, TTypeOK, PollerInv, engine

LEMMA PollerTInv == ASSUME TInv, Poller PROVE TInv'
<1>1. /\ Cardinality(todo) \in Nat /\ Cardinality(Pod) \in Nat
      /\ alarms \in Int /\ alarms >= 0 /\ alarms <= Cardinality(Pod)
      /\ alarms + Cardinality(todo) <= Cardinality(Pod)
  <2>1. Cardinality(todo) \in Nat /\ Cardinality(Pod) \in Nat
    BY Counts DEF TInv, TTypeOK
  <2>2. alarms \in 0..Cardinality(Pod) /\ alarms + Cardinality(todo) <= Cardinality(Pod)
    BY DEF TInv, TTypeOK, PollerInv
  <2>. QED
    BY <2>1, <2>2
<1>2. CASE WantRing
  BY <1>2 DEF WantRing, TInv, TTypeOK, PollerInv, engine
<1>3. CASE WantRecent
  <2>1. TTypeOK'
    BY <1>3 DEF WantRecent, TInv, TTypeOK, engine
  <2>2. /\ todo = {} /\ todo' = todo /\ alarms' = alarms
        /\ poll' = IF alarms > 0 THEN "wants recent" ELSE "rest"
    BY <1>3 DEF WantRecent
  <2>3. /\ poll' \in {"rest", "wants recent"}
        /\ poll' = "rest" => alarms' = 0
        /\ poll' = "wants recent" => alarms' > 0
        /\ todo' = {}
    <3>1. CASE alarms > 0
      BY <1>1, <2>2, <3>1
    <3>2. CASE ~(alarms > 0)
      <4>1. alarms = 0
        BY <1>1, <3>2
      <4>. QED
        BY <2>2, <3>2, <4>1
    <3>. QED
      BY <3>1, <3>2
  <2>4. alarms' + Cardinality(todo') <= Cardinality(Pod)
    BY <1>1, <2>2
  <2>. QED
    BY <2>1, <2>3, <2>4 DEF TInv, PollerInv
<1>4. CASE AppendEvent
  <2>1. alarms > 0 /\ alarms' = alarms - 1 /\ poll' = "adding" /\ todo' = todo
    BY <1>4 DEF AppendEvent, WantsRecent, TInv, PollerInv
  <2>2. alarms' \in 0..Cardinality(Pod) /\ alarms' + Cardinality(todo') <= Cardinality(Pod)
    BY <1>1, <2>1
  <2>3. UNCHANGED <<ring, age, idle, req, loop, got, result, served, sending>>
    BY <1>4 DEF AppendEvent, engine
  <2>. QED
    BY <2>1, <2>2, <2>3 DEF TInv, TTypeOK, PollerInv
<1>. QED
  BY <1>2, <1>3, <1>4, AddTInv DEF Poller

-----------------------------------------------------------------------------
(* The handlers, their clients and the engine leave the poller alone. *)
LEMMA EngineIsReader == Engine \in Reader /\ \A c \in Other : c \in Reader
BY DEF Reader

LEMMA ReadersTInv ==
    ASSUME TInv,
           NEW c \in Reader, Answer(c) \/ OtherAsks(c) \/ OtherTakes(c) \/ OtherGivesUp(c)
    PROVE  TInv'
<1>. USE DEF TInv, TTypeOK, PollerInv, engine, aggregator
<1>1. req[c] \in [url : Url, at : {"idle", "asked", "sent"}]
  OBVIOUS
<1>2. Idle \in [url : Url, at : {"idle", "asked", "sent"}]
  BY DEF Idle, Url
<1>3. CASE Answer(c)
  <2>1. got' \in {"none", "hot", "quiet"}
    BY <1>3 DEF Answer, Windows, Window
  <2>2. req' \in [Reader -> [url : Url, at : {"idle", "asked", "sent"}]]
    BY <1>1, <1>3 DEF Answer
  <2>. QED
    BY <1>3, <2>1, <2>2 DEF Answer
<1>4. CASE OtherAsks(c)
  <2>1. PICK url \in Url : Ask(c, url)
    BY <1>4 DEF OtherAsks
  <2>2. req' \in [Reader -> [url : Url, at : {"idle", "asked", "sent"}]]
    BY <2>1 DEF Ask
  <2>. QED
    BY <1>4, <2>2 DEF OtherAsks
<1>5. CASE OtherTakes(c) \/ OtherGivesUp(c)
  <2>1. req' \in [Reader -> [url : Url, at : {"idle", "asked", "sent"}]]
    BY <1>2, <1>5 DEF OtherTakes, OtherGivesUp
  <2>. QED
    BY <1>5, <2>1 DEF OtherTakes, OtherGivesUp
<1>. QED
  BY <1>3, <1>4, <1>5

LEMMA EngineTInv ==
    ASSUME TInv, Fetch \/ EngineTakes \/ EngineGivesUp \/ RunPass \/ Publish \/ Send \/ Sent
           \/ EngineStarts
    PROVE  TInv'
<1>. USE DEF TInv, TTypeOK, PollerInv, engine, aggregator
<1>1. /\ [url |-> "window", at |-> "asked"] \in [url : Url, at : {"idle", "asked", "sent"}]
      /\ [url |-> "events", at |-> "asked"] \in [url : Url, at : {"idle", "asked", "sent"}]
      /\ Idle \in [url : Url, at : {"idle", "asked", "sent"}]
  BY DEF Idle, Url
<1>2. CASE Fetch
  BY <1>1, <1>2, EngineIsReader DEF Fetch, Ask
<1>3. CASE EngineTakes
  <2>1. req' \in [Reader -> [url : Url, at : {"idle", "asked", "sent"}]]
    BY <1>1, <1>3, EngineIsReader DEF EngineTakes
  <2>2. loop' \in {"rest", "fetch", "pass", "publish", "down"}
    BY <1>3 DEF EngineTakes
  <2>. QED
    BY <1>3, <2>1, <2>2 DEF EngineTakes
<1>4. CASE EngineGivesUp
  BY <1>1, <1>4, EngineIsReader DEF EngineGivesUp
<1>5. CASE RunPass
  BY <1>5 DEF RunPass
<1>6. CASE Publish
  BY <1>6 DEF Publish
<1>7. CASE Send \/ Sent \/ EngineStarts
  BY <1>7 DEF Send, Sent, EngineStarts
<1>. QED
  BY <1>2, <1>3, <1>4, <1>5, <1>6, <1>7

LEMMA FaultTInv == ASSUME TInv, TFault PROVE TInv'
<1>1. Idle \in [url : Url, at : {"idle", "asked", "sent"}]
  BY DEF Idle, Url
<1>2. CASE AggregatorDies
  <2>1. Cardinality({}) = 0 /\ Cardinality(Pod) \in Nat
    BY Counts, FS_EmptySet
  <2>2. ring' \in [Pod -> Seq(BOOLEAN)] /\ \A p \in Pod : Len(ring'[p]) <= Cap
    <3>1. ring' = [p \in Pod |-> <<>>]
      BY <1>2 DEF AggregatorDies
    <3>2. <<>> \in Seq(BOOLEAN) /\ Len(<<>>) <= Cap
      BY CapAssumption
    <3>. QED
      BY <3>1, <3>2
  <2>3. age' \in [Pod -> 0..Recent + 1] /\ idle' \in 0..Recent + 1
    <3>1. /\ Recent + 1 \in 0..Recent + 1 /\ age' = [p \in Pod |-> Recent + 1]
          /\ idle' = Recent + 1
      BY <1>2, Ages DEF AggregatorDies
    <3>. QED
      BY <3>1
  <2>4. req' \in [Reader -> [url : Url, at : {"idle", "asked", "sent"}]]
    BY <1>1, <1>2 DEF AggregatorDies
  <2>5. /\ loop' \in {"rest", "fetch", "pass", "publish", "down"} /\ got' \in {"none", "hot", "quiet"}
        /\ {result', served'} \subseteq {"none", "quiet", "storm"}
    BY <1>2 DEF AggregatorDies, TInv, TTypeOK
  <2>6. /\ poll' = "down" /\ todo' = {} /\ alarms' = 0 /\ UNCHANGED sending
    BY <1>2 DEF AggregatorDies
  <2>7. alarms' \in 0..Cardinality(Pod) /\ alarms' + Cardinality(todo') <= Cardinality(Pod)
    BY <2>1, <2>6
  <2>. QED
    BY <2>2, <2>3, <2>4, <2>5, <2>6, <2>7 DEF TInv, TTypeOK, PollerInv
<1>3. CASE EngineDies
  BY <1>1, <1>3, EngineIsReader DEF EngineDies, TInv, TTypeOK, PollerInv, aggregator
<1>. QED
  BY <1>2, <1>3 DEF TFault

LEMMA NextTInv == TInv /\ [TNext]_tvars => TInv'
<1>. SUFFICES ASSUME TInv, [TNext]_tvars PROVE TInv'
  OBVIOUS
<1>1. CASE UNCHANGED tvars
  BY <1>1 DEF tvars, TInv, TTypeOK, PollerInv
<1>2. CASE AggregatorStarts
  BY <1>2 DEF AggregatorStarts, engine, TInv, TTypeOK, PollerInv
<1>. QED
  BY <1>1, <1>2, PollTInv, PollerTInv, ReadersTInv, EngineTInv, FaultTInv, EngineIsReader DEF TNext

(* Whatever readers hold the locks, time out or go away, and whoever dies   *)
(* in between: no ring grows beyond capN, no age beyond what staleness      *)
(* needs, and the poller never has more events to append than there are     *)
(* pods, nor is it at the lock of the recent list without one.              *)
THEOREM TelemetryTypeCorrect == TSpec => []TTypeOK
<1>1. TInv => TTypeOK
  BY DEF TInv
<1>. QED
  BY <1>1, InitTInv, NextTInv, PTL DEF TSpec
=============================================================================
