-------------------------- MODULE EdgeMemoryProofs --------------------------
(***************************************************************************)
(* What holds of EdgeMemory for every set of pods and workloads and every  *)
(* configuration that satisfies its assumptions: its invariant, what that  *)
(* implies, and that it implements RememberedGraph.                        *)
(***************************************************************************)
EXTENDS EdgeMemory, TLAPS

-----------------------------------------------------------------------------
(* Confidence arithmetic *)

(* A fraction a/One of b, rounded down, lies between zero and b: the shape  *)
(* shared by the growth, the fade and the floor of a confidence.            *)
LEMMA Fraction ==
    ASSUME NEW a \in 0..One, NEW b \in 0..One
    PROVE  (a * b) \div One \in 0..b
<1>1. One \in Nat /\ One > 0
  BY ConfigAssumption
<1>2. a * b \in Nat /\ a * b <= One * b
  BY <1>1, SMT
<1>. DEFINE q == (a * b) \div One
            r == (a * b) % One
<1>3. q \in Int /\ r \in 0..(One - 1) /\ a * b = One * q + r
  BY <1>1, <1>2, SMT
<1>4. q >= 0
  <2>. SUFFICES ASSUME q <= -1 PROVE FALSE
    BY <1>3
  <2>1. One * q <= -One
    BY <1>1, <1>3, SMT
  <2>. QED
    BY <2>1, <1>1, <1>2, <1>3
<1>5. q <= b
  <2>. SUFFICES ASSUME q >= b + 1 PROVE FALSE
    BY <1>3
  <2>1. One * q >= One * b + One
    BY <1>1, <1>3, SMT
  <2>. QED
    BY <2>1, <1>1, <1>2, <1>3
<1>. QED
  BY <1>3, <1>4, <1>5

(* Confirming never lowers a confidence and never takes it beyond One. *)
LEMMA GrowBounds ==
    ASSUME NEW c \in 0..One
    PROVE  Grow(c) \in c..One
<1>1. One - c \in 0..One /\ One \in Nat
  BY ConfigAssumption
<1>2. (Alpha * (One - c)) \div One \in 0..(One - c)
  BY <1>1, Fraction, ConfigAssumption
<1>. QED
  BY <1>1, <1>2 DEF Grow

(* Fading never raises a confidence and never takes it below zero. *)
LEMMA FadeBounds ==
    ASSUME NEW c \in 0..One
    PROVE  Fade(c) \in 0..c
<1>1. One - Decay \in 0..One
  BY ConfigAssumption
<1>2. ((One - Decay) * c) \div One \in 0..c
  BY <1>1, Fraction
<1>3. (One - Decay) * c = c * (One - Decay)
  BY <1>1, ConfigAssumption
<1>. QED
  BY <1>2, <1>3 DEF Fade

(* The floor learned from a confidence is not above it. *)
LEMMA FloorBounds ==
    ASSUME NEW c \in 0..One
    PROVE  Floor(c) \in 0..c
BY Fraction, ConfigAssumption DEF Floor
(* Even from nothing, one confirmation brings a confidence to Alpha. *)
LEMMA GrowReachesAlpha ==
    ASSUME NEW c \in 0..One
    PROVE  Grow(c) >= Alpha
<1>1. One \in Nat /\ One > 0 /\ Alpha \in 0..One
  BY ConfigAssumption
<1>. DEFINE x == Alpha * (One - c)
            q == x \div One
<1>2. x \in Int /\ x >= One * (Alpha - c)
  <2>1. x = Alpha * One - Alpha * c
    BY <1>1, SMT
  <2>2. Alpha * c <= One * c
    BY <1>1, SMT
  <2>3. One * (Alpha - c) = Alpha * One - One * c
    BY <1>1, SMT
  <2>. QED
    BY <2>1, <2>2, <2>3, <1>1, SMT
<1>3. q \in Int /\ x < One * q + One
  BY <1>1, <1>2, SMT
<1>4. q >= Alpha - c
  <2>. SUFFICES ASSUME q + 1 <= Alpha - c PROVE FALSE
    BY <1>1, <1>3
  <2>1. One * (q + 1) <= One * (Alpha - c)
    BY <1>1, <1>3, SMT
  <2>2. One * (q + 1) = One * q + One
    BY <1>1, <1>3, SMT
  <2>. QED
    BY <2>1, <2>2, <1>1, <1>2, <1>3
<1>. QED
  BY <1>1, <1>3, <1>4 DEF Grow

-----------------------------------------------------------------------------
(* One row *)

USE NoneAssumption

(* A row in the table: of its type, and sound. *)
Good(r) == r \in Row /\ Sound(r)

LEMMA LargerFact ==
    ASSUME NEW a \in Int, NEW b \in Int
    PROVE  /\ Larger(a, b) \in {a, b}
           /\ Larger(a, b) >= a /\ Larger(a, b) >= b
BY DEF Larger

(* Seeding inserts a good row or raises the floor of one. *)
LEMMA SeededGood ==
    ASSUME NEW r, r = None \/ Good(r)
    PROVE  /\ Good(Seeded(r))
           /\ Seeded(r).base >= Prior
           /\ r # None => Seeded(r).base >= r.base
<1>. USE ConfigAssumption, ShowAssumption
<1>1. CASE r = None
  <2>1. Prior < ShowAt
    BY GrowBounds
  <2>. QED
    BY <1>1, <2>1 DEF Seeded, NewPair, Good, Row, Sound, State
<1>2. CASE Good(r)
  <2>1. r \in Row /\ r # None /\ r.base \in 0..One /\ Prior \in 0..One
    BY <1>2 DEF Good, Row
  <2>2. Seeded(r) = [conf |-> r.conf, base |-> Larger(r.base, Prior), hits |-> r.hits,
                      visible |-> r.visible, state |-> r.state]
    BY <2>1 DEF Seeded
  <2>3. /\ Larger(r.base, Prior) \in {r.base, Prior}
        /\ Larger(r.base, Prior) >= r.base /\ Larger(r.base, Prior) >= Prior
    BY <2>1, LargerFact
  <2>. QED
    BY <1>2, <2>1, <2>2, <2>3 DEF Good, Row, Sound
<1>. QED
  BY <1>1, <1>2

(* Confirming leaves a good row, at or above both its floor and the prior.  *)
LEMMA ConfirmedGood ==
    ASSUME NEW r, r = None \/ Good(r)
    PROVE  /\ Good(Confirmed(r))
           /\ Confirmed(r).base <= Confirmed(r).conf
           /\ Confirmed(r).conf >= Prior
           /\ Confirmed(r).state \in {"confirming", "active"}
           /\ r # None => Confirmed(r).base >= r.base
<1>. USE ConfigAssumption, ShowAssumption
<1>1. CASE r = None
  <2>1. Floor(Alpha) \in 0..Alpha
    BY FloorBounds
  <2>. DEFINE v == Alpha >= ShowAt
  <2>2. v \in BOOLEAN /\ ~v
    OBVIOUS
  <2>3. FirstSeen = [conf |-> Alpha, base |-> Floor(Alpha), hits |-> 1, visible |-> v,
                     state |-> IF v THEN "active" ELSE "confirming"]
    BY DEF FirstSeen, ConfirmedRow
  <2>4. Confirmed(r) = FirstSeen
    BY <1>1 DEF Confirmed
  <2>. HIDE DEF v
  <2>5. FirstSeen \in Row
    BY <2>1, <2>2, <2>3 DEF Row, State
  <2>. QED
    BY <1>1, <2>1, <2>2, <2>3, <2>4, <2>5 DEF Good, Sound
<1>2. CASE Good(r)
  <2>. DEFINE c == Grow(r.conf)
              b == Larger(r.base, Floor(c))
              h == MoreHits(r)
              v == r.visible \/ c >= ShowAt
  <2>1. /\ r \in Row /\ r # None /\ r.conf \in 0..One /\ r.base \in 0..One
        /\ r.hits \in 0..HitCap /\ r.visible \in BOOLEAN
    BY <1>2 DEF Good, Row
  <2>2. /\ c \in r.conf..One /\ c >= Alpha
    BY <2>1, GrowBounds, GrowReachesAlpha
  <2>3. Floor(c) \in 0..c
    BY <2>1, <2>2, FloorBounds
  <2>4. b \in {r.base, Floor(c)} /\ b >= r.base
    BY <2>1, <2>2, <2>3, LargerFact
  <2>5. b <= c
    <3>1. r.base <= r.conf \/ r.base = Prior
      BY <1>2 DEF Good, Sound
    <3>. QED
      BY <3>1, <2>1, <2>2, <2>3, <2>4
  <2>6. /\ h \in 1..HitCap
        /\ r.hits >= 1 => h >= 2
    BY <2>1 DEF MoreHits
  <2>7. r.hits = 0 => c < ShowAt /\ ~r.visible
    <3>1. r.hits = 0 => r.conf = Prior /\ ~r.visible
      BY <1>2 DEF Good, Sound
    <3>2. Grow(Prior) < ShowAt
      BY ShowAssumption DEF Grow
    <3>. QED
      BY <3>1, <3>2
  <2>8. v => h >= 2
    <3>1. r.visible => r.hits >= 2
      BY <1>2 DEF Good, Sound
    <3>. QED
      BY <3>1, <2>1, <2>2, <2>6, <2>7
  <2>9. IF v THEN c >= HideAt ELSE c < ShowAt
    <3>1. r.visible => r.conf >= HideAt
      BY <1>2 DEF Good, Sound
    <3>. QED
      BY <3>1, <2>1, <2>2
  <2>10. Confirmed(r) = [conf |-> c, base |-> b, hits |-> h, visible |-> v,
                         state |-> IF v THEN "active" ELSE "confirming"]
    BY <2>1 DEF Confirmed, SeenAgain, ConfirmedRow
  <2>11. v \in BOOLEAN /\ b \in 0..One
    BY <2>1, <2>2, <2>3, <2>4
  <2>. HIDE DEF c, b, h, v
  <2>12. Confirmed(r) \in Row
    BY <2>1, <2>2, <2>6, <2>10, <2>11 DEF Row, State
  <2>13. Sound(Confirmed(r))
    BY <2>2, <2>5, <2>6, <2>8, <2>9, <2>10, <2>11 DEF Sound
  <2>. QED
    BY <2>1, <2>2, <2>4, <2>5, <2>10, <2>11, <2>12, <2>13 DEF Good
<1>. QED
  BY <1>1, <1>2

(* Fading leaves a good row at or above its unchanged floor.                *)
LEMMA FadedGood ==
    ASSUME NEW r, Good(r)
    PROVE  /\ Good(Faded(r))
           /\ Faded(r).base = r.base
           /\ Faded(r).base <= Faded(r).conf
           /\ Faded(r).state \in {"steady", "decaying", "hidden"}
<1>. USE ConfigAssumption, ShowAssumption
<1>. DEFINE f == Fade(r.conf)
            c == Larger(r.base, f)
            v == r.visible /\ c >= HideAt
            st == IF c <= r.base /\ r.base > 0 THEN "steady"
                  ELSE IF v THEN "decaying" ELSE "hidden"
<1>1. /\ r \in Row /\ r.conf \in 0..One /\ r.base \in 0..One
      /\ r.hits \in 0..HitCap /\ r.visible \in BOOLEAN
  BY DEF Good, Row
<1>2. f \in 0..r.conf
  BY <1>1, FadeBounds
<1>3. c \in {r.base, f} /\ c >= r.base /\ c >= f
  BY <1>1, <1>2, LargerFact
<1>4. Prior < ShowAt
  BY GrowBounds
<1>5. IF v THEN c >= HideAt ELSE c < ShowAt
  <2>1. r.base <= r.conf \/ r.base = Prior
    BY DEF Good, Sound
  <2>2. ~r.visible => r.conf < ShowAt
    BY DEF Good, Sound
  <2>. QED
    BY <2>1, <2>2, <1>1, <1>2, <1>3, <1>4
<1>6. r.hits = 0 => c = Prior /\ r.base = Prior
  <2>1. r.hits = 0 => r.conf = Prior /\ r.base = Prior
    BY DEF Good, Sound
  <2>. QED
    BY <2>1, <1>1, <1>2, <1>3
<1>7. v => r.hits >= 2
  BY DEF Good, Sound
<1>8. Faded(r) = [conf |-> c, base |-> r.base, hits |-> r.hits, visible |-> v, state |-> st]
  BY DEF Faded, FadedRow
<1>9. v \in BOOLEAN /\ c \in 0..One /\ st \in {"steady", "decaying", "hidden"}
  BY <1>1, <1>2, <1>3
<1>. HIDE DEF f, c, v, st
<1>10. Faded(r) \in Row
  BY <1>1, <1>8, <1>9 DEF Row, State
<1>11. /\ Faded(r).conf = c /\ Faded(r).visible = v /\ Faded(r).state = st
       /\ Faded(r).base = r.base /\ Faded(r).hits = r.hits
  BY <1>1, <1>8 DEF Row
<1>12. Sound(Faded(r))
  BY <1>1, <1>3, <1>5, <1>6, <1>7, <1>9, <1>11 DEF Sound
<1>. QED
  BY <1>3, <1>9, <1>10, <1>11, <1>12 DEF Good
-----------------------------------------------------------------------------
(* The table *)

LEMMA KeyOfEdge ==
    ASSUME NEW e \in Pod \X Pod
    PROVE  KeyOf(e) \in Key
BY TopologyAssumption DEF KeyOf, Key

(* What the table holds at a key, when all its rows are sound. *)
LEMMA RowAt ==
    ASSUME NEW m \in Memory, SoundIn(m), NEW k \in Key
    PROVE  /\ m[k] = None \/ Good(m[k])
           /\ k \in Rows(m) <=> m[k] # None
BY DEF Memory, SoundIn, Rows, Good

(* Replacing a row by a good one with no lower a floor keeps the table      *)
(* sound and ahead of the disk.                                             *)
LEMMA PutGood ==
    ASSUME NEW k \in Key, NEW r, Good(r),
           work \in Memory, SoundIn(work), disk \in Memory, Extends,
           work' = [work EXCEPT ![k] = r], disk' = disk,
           k \in Rows(work) => r.base >= work[k].base
    PROVE  /\ work' \in Memory
           /\ SoundIn(work)'
           /\ Extends'
           /\ Rows(work') = Rows(work) \cup {k}
           /\ work'[k] = r
           /\ \A j \in Key : j # k => work'[j] = work[j]
<1>1. r \in Row
  BY DEF Good
<1>2. /\ work' \in Memory
      /\ Rows(work') = Rows(work) \cup {k}
      /\ work'[k] = r
      /\ \A j \in Key : j # k => work'[j] = work[j]
  <2>1. /\ work' \in Memory
        /\ work'[k] = r
        /\ \A j \in Key : j # k => work'[j] = work[j]
    BY <1>1 DEF Memory
  <2>2. r # None
    BY <1>1
  <2>. QED
    BY <2>1, <2>2 DEF Rows
<1>3. SoundIn(work)'
  <2>. SUFFICES ASSUME NEW j \in Rows(work') PROVE Sound(work'[j])
    BY DEF SoundIn
  <2>1. j \in Key
    BY DEF Rows
  <2>. QED
    BY <1>2, <2>1 DEF SoundIn, Good
<1>4. Extends'
  <2>. SUFFICES ASSUME NEW j \in Rows(disk)
                PROVE  j \in Rows(work') /\ work'[j].base >= disk[j].base
    BY DEF Extends
  <2>1. j \in Key /\ j \in Rows(work) /\ work[j].base >= disk[j].base
    BY DEF Extends, Rows
  <2>2. CASE j # k
    BY <1>2, <2>1, <2>2
  <2>3. CASE j = k
    <3>1. disk[k].base \in Int /\ work[k].base \in Int /\ r.base \in Int
      BY <1>1, <2>1, <2>3, ConfigAssumption DEF Memory, Rows, Row
    <3>2. work'[j] = r /\ j \in Rows(work')
      BY <1>2, <2>3
    <3>3. r.base >= work[k].base /\ work[k].base >= disk[k].base
      BY <2>1, <2>3
    <3>. QED
      BY <2>3, <3>1, <3>2, <3>3
  <2>. QED
    BY <2>2, <2>3
<1>. QED
  BY <1>2, <1>3, <1>4
-----------------------------------------------------------------------------
(* The inductive invariant *)

LEMMA InitIInv == Init => IInv
<1>. SUFFICES ASSUME Init PROVE IInv
  OBVIOUS
<1>. USE DEF Init
<1>1. work \in Memory /\ disk \in Memory /\ Rows(work) = {} /\ Rows(disk) = {}
  BY DEF Memory, Rows
<1>2. pass \in Passes /\ served \in Answers
  BY DEF Passes, NoPass, Answers, Bootstrap, Graph
<1>3. Witnessed = {} /\ pass.edges = {}
  BY DEF Witnessed, BothPresent, Present, NoPass
<1>. QED
  BY <1>1, <1>2, <1>3 DEF IInv, TypeOK, SoundIn, Extends, LoopOK, SeedDone,
     ConfirmDone, DecayDone

(* While a pass goes on its input stays what it was. *)
LEMMA SamePass ==
    ASSUME UNCHANGED pass
    PROVE  /\ Witnessed' = Witnessed
           /\ Seen' = Seen
           /\ \A k \in Key : BothPresent(k)' <=> BothPresent(k)
BY DEF Witnessed, Seen, BothPresent, Present

LEMMA StartPassIInv == IInv /\ StartPass => IInv'
<1>. SUFFICES ASSUME IInv, StartPass PROVE IInv'
  OBVIOUS
<1>. USE DEF IInv, TypeOK
<1>1. PICK pods \in SUBSET Pod : \E edges \in LiveEdges(pods) :
         pass' = [pods |-> pods, edges |-> edges]
  BY DEF StartPass
<1>2. UNCHANGED <<work, disk, todo, served>> /\ pc = "idle" /\ pc' = "baselines"
  BY DEF StartPass
<1>3. pass' \in Passes /\ pass'.edges \subseteq pass'.pods \X pass'.pods
  BY <1>1 DEF LiveEdges, Passes, Edge
<1>4. TypeOK'
  BY <1>2, <1>3
<1>5. SoundIn(work)' /\ SoundIn(disk)' /\ Extends'
  BY <1>2 DEF SoundIn, Extends
<1>. QED
  BY <1>2, <1>3, <1>4, <1>5 DEF LoopOK, SeedDone, ConfirmDone, DecayDone

LEMMA BaselinesIInv == IInv /\ Baselines => IInv'
<1>. SUFFICES ASSUME IInv, Baselines PROVE IInv'
  OBVIOUS
<1>. USE DEF IInv, TypeOK, Baselines
<1>1. Witnessed' = Witnessed /\ Witnessed \subseteq Key
  BY SamePass DEF Witnessed
<1>2. TypeOK'
  BY <1>1
<1>3. SoundIn(work)' /\ SoundIn(disk)'
  BY DEF SoundIn
<1>4. Extends'
  <2>. SUFFICES ASSUME NEW k \in Rows(work) PROVE work[k].base >= work[k].base
    BY DEF Extends
  <2>1. work[k] \in Row
    BY DEF Rows, Memory
  <2>. QED
    BY <2>1, ConfigAssumption DEF Row
<1>. QED
  BY <1>1, <1>2, <1>3, <1>4 DEF LoopOK, SeedDone, ConfirmDone, DecayDone

LEMMA SeedIInv ==
    ASSUME IInv, NEW k \in Key, SeedStructural(k)
    PROVE  IInv'
<1>. USE DEF IInv, TypeOK, SeedStructural, Visit
<1>. DEFINE r == Seeded(work[k])
<1>1. work[k] = None \/ Good(work[k])
  BY RowAt
<1>2. Good(r) /\ r.base >= Prior /\ (k \in Rows(work) => r.base >= work[k].base)
  BY <1>1, SeededGood DEF Rows
<1>. HIDE DEF r
<1>3. work' = [work EXCEPT ![k] = r]
  BY DEF r, Memory
<1>4. /\ work' \in Memory
      /\ SoundIn(work)' /\ Extends'
      /\ Rows(work') = Rows(work) \cup {k}
      /\ work'[k] = r
      /\ \A j \in Key : j # k => work'[j] = work[j]
  BY <1>2, <1>3, PutGood
<1>5. SoundIn(disk)'
  BY DEF SoundIn
<1>6. TypeOK'
  BY <1>4
<1>7. LoopOK'
  BY SamePass DEF LoopOK
<1>8. SeedDone'
  <2>. SUFFICES ASSUME NEW j \in Witnessed, j \notin todo'
                PROVE  j \in Rows(work') /\ work'[j].base >= Prior
    BY SamePass DEF SeedDone
  <2>1. CASE j = k
    BY <2>1, <1>2, <1>4
  <2>2. CASE j # k
    BY <2>2, <1>4 DEF SeedDone, Witnessed
  <2>. QED
    BY <2>1, <2>2
<1>. QED
  BY <1>4, <1>5, <1>6, <1>7, <1>8 DEF ConfirmDone, DecayDone

LEMMA EndSeedIInv == IInv /\ EndSeed => IInv'
<1>. SUFFICES ASSUME IInv, EndSeed PROVE IInv'
  OBVIOUS
<1>. USE DEF IInv, TypeOK, EndSeed
<1>1. Witnessed' = Witnessed
  BY SamePass
<1>2. pass.edges \subseteq Edge
  BY DEF Passes
<1>3. TypeOK'
  BY <1>2
<1>4. SoundIn(work)' /\ SoundIn(disk)' /\ Extends'
  BY DEF SoundIn, Extends
<1>. QED
  BY <1>1, <1>3, <1>4 DEF LoopOK, SeedDone, ConfirmDone, DecayDone

LEMMA ConfirmIInv ==
    ASSUME IInv, NEW e \in Edge, ConfirmEdge(e)
    PROVE  IInv'
<1>. USE DEF IInv, TypeOK, ConfirmEdge, Visit
<1>. DEFINE k == KeyOf(e)
            r == Confirmed(work[k])
<1>1. k \in Key
  BY KeyOfEdge DEF Edge
<1>. HIDE DEF k
<1>2. work[k] = None \/ Good(work[k])
  BY <1>1, RowAt
<1>3. /\ Good(r) /\ r.base <= r.conf /\ r.conf >= Prior
      /\ r.state \in {"confirming", "active"}
      /\ k \in Rows(work) => r.base >= work[k].base
  BY <1>2, ConfirmedGood DEF Rows
<1>. HIDE DEF r
<1>4. work' = [work EXCEPT ![k] = r]
  BY <1>1 DEF k, r, Memory
<1>5. /\ work' \in Memory
      /\ SoundIn(work)' /\ Extends'
      /\ Rows(work') = Rows(work) \cup {k}
      /\ work'[k] = r
      /\ \A j \in Key : j # k => work'[j] = work[j]
  BY <1>1, <1>3, <1>4, PutGood
<1>6. SoundIn(disk)'
  BY DEF SoundIn
<1>7. TypeOK'
  BY <1>5
<1>8. LoopOK'
  BY DEF LoopOK
<1>9. SeedDone'
  <2>. SUFFICES ASSUME NEW j \in Witnessed
                PROVE  j \in Rows(work') /\ work'[j].base >= Prior
    BY SamePass DEF SeedDone
  <2>1. j \in Key /\ j \in Rows(work) /\ work[j].base >= Prior
    BY DEF SeedDone, Witnessed
  <2>2. CASE j # k
    BY <2>1, <2>2, <1>5
  <2>3. CASE j = k
    <3>1. work[k].base \in Int /\ r.base \in Int /\ Prior \in Int
      BY <2>1, <2>3, <1>3, ConfigAssumption DEF Memory, Rows, Row, Good
    <3>2. work[k].base >= Prior /\ r.base >= work[k].base
      BY <2>1, <2>3, <1>3
    <3>3. r.base >= Prior
      BY <3>1, <3>2
    <3>. QED
      BY <2>3, <3>3, <1>5
  <2>. QED
    BY <2>2, <2>3
<1>10. ConfirmDone'
  <2>. SUFFICES ASSUME NEW d \in pass.edges, d \notin todo'
                PROVE  /\ KeyOf(d) \in Rows(work')
                       /\ work'[KeyOf(d)].base <= work'[KeyOf(d)].conf
                       /\ work'[KeyOf(d)].conf >= Prior
                       /\ work'[KeyOf(d)].state \in {"confirming", "active"}
    BY DEF ConfirmDone
  <2>1. CASE KeyOf(d) = k
    BY <2>1, <1>3, <1>5
  <2>2. CASE KeyOf(d) # k
    <3>1. d \notin todo
      BY <2>2 DEF k
    <3>2. KeyOf(d) \in Key
      BY <3>1 DEF ConfirmDone, Rows
    <3>. QED
      BY <2>2, <3>1, <3>2, <1>5 DEF ConfirmDone
  <2>. QED
    BY <2>1, <2>2
<1>. QED
  BY <1>5, <1>6, <1>7, <1>8, <1>9, <1>10 DEF DecayDone
LEMMA EndConfirmIInv == IInv /\ EndConfirm => IInv'
<1>. SUFFICES ASSUME IInv, EndConfirm PROVE IInv'
  OBVIOUS
<1>. USE DEF IInv, TypeOK, EndConfirm
<1>1. Witnessed' = Witnessed
  BY SamePass
<1>2. TypeOK'
  BY DEF Rows
<1>3. SoundIn(work)' /\ SoundIn(disk)' /\ Extends'
  BY DEF SoundIn, Extends
<1>. QED
  BY <1>1, <1>2, <1>3 DEF LoopOK, SeedDone, ConfirmDone, DecayDone

(* A step of the decay loop, when it fades the row. *)
LEMMA FadeIInv ==
    ASSUME IInv, NEW k \in Key, DecayAbsentEdge(k), k \in Rows(work),
           k \notin Seen, BothPresent(k)
    PROVE  IInv'
<1>. USE DEF IInv, TypeOK, DecayAbsentEdge, Visit
<1>. DEFINE r == Faded(work[k])
<1>1. Good(work[k])
  BY RowAt
<1>2. /\ Good(r) /\ r.base = work[k].base /\ r.base <= r.conf
      /\ r.state \in {"steady", "decaying", "hidden"}
  BY <1>1, FadedGood
<1>. HIDE DEF r
<1>3. r.base >= work[k].base
  <2>1. work[k].base \in Int
    BY <1>1, ConfigAssumption DEF Good, Row
  <2>. QED
    BY <2>1, <1>2
<1>4. work' = [work EXCEPT ![k] = r]
  BY DEF r, Memory
<1>5. /\ work' \in Memory
      /\ SoundIn(work)' /\ Extends'
      /\ Rows(work') = Rows(work) \cup {k}
      /\ work'[k] = r
      /\ \A j \in Key : j # k => work'[j] = work[j]
  BY <1>2, <1>3, <1>4, PutGood
<1>6. SoundIn(disk)'
  BY DEF SoundIn
<1>7. TypeOK'
  BY <1>5
<1>8. LoopOK'
  BY <1>5 DEF LoopOK
<1>9. SeedDone'
  <2>. SUFFICES ASSUME NEW j \in Witnessed
                PROVE  j \in Rows(work') /\ work'[j].base >= Prior
    BY SamePass DEF SeedDone
  <2>1. j \in Key /\ j \in Rows(work) /\ work[j].base >= Prior
    BY DEF SeedDone, Witnessed
  <2>2. CASE j # k
    BY <2>1, <2>2, <1>5
  <2>3. CASE j = k
    BY <2>1, <2>3, <1>2, <1>5
  <2>. QED
    BY <2>2, <2>3
<1>10. ConfirmDone'
  <2>. SUFFICES ASSUME NEW d \in pass.edges
                PROVE  /\ KeyOf(d) \in Rows(work')
                       /\ work'[KeyOf(d)].base <= work'[KeyOf(d)].conf
                       /\ work'[KeyOf(d)].conf >= Prior
                       /\ work'[KeyOf(d)].state \in {"confirming", "active"}
    BY DEF ConfirmDone
  <2>1. KeyOf(d) # k
    BY DEF Seen
  <2>2. KeyOf(d) \in Key
    BY DEF ConfirmDone, Rows
  <2>. QED
    BY <2>1, <2>2, <1>5 DEF ConfirmDone
<1>11. DecayDone'
  <2>. SUFFICES ASSUME NEW j \in Rows(work'), BothPresent(j), j \notin todo'
                PROVE  /\ work'[j].base <= work'[j].conf
                       /\ j \notin Seen => work'[j].state \in {"steady", "decaying", "hidden"}
    BY SamePass DEF DecayDone, Rows
  <2>1. CASE j = k
    BY <2>1, <1>2, <1>5
  <2>2. CASE j # k
    <3>1. j \in Rows(work) /\ j \in Key /\ j \notin todo
      BY <2>2, <1>5 DEF Rows
    <3>. QED
      BY <2>2, <3>1, <1>5 DEF DecayDone
  <2>. QED
    BY <2>1, <2>2
<1>. QED
  BY <1>5, <1>6, <1>7, <1>8, <1>9, <1>10, <1>11

(* A step of the decay loop, when it skips the row. *)
LEMMA SkipIInv ==
    ASSUME IInv, NEW k \in Key, DecayAbsentEdge(k), k \in Seen \/ ~BothPresent(k)
    PROVE  IInv'
<1>. USE DEF IInv, TypeOK, DecayAbsentEdge, Visit
<1>1. work' = work
  OBVIOUS
<1>2. TypeOK'
  BY <1>1
<1>3. SoundIn(work)' /\ SoundIn(disk)' /\ Extends'
  BY <1>1 DEF SoundIn, Extends
<1>4. SeedDone' /\ ConfirmDone' /\ LoopOK'
  BY <1>1, SamePass DEF LoopOK, SeedDone, ConfirmDone
<1>5. DecayDone'
  <2>. SUFFICES ASSUME NEW j \in Rows(work), BothPresent(j), j \notin todo'
                PROVE  /\ work[j].base <= work[j].conf
                       /\ j \notin Seen => work[j].state \in {"steady", "decaying", "hidden"}
    BY <1>1, SamePass DEF DecayDone, Rows
  <2>1. CASE j \notin todo
    BY <2>1 DEF DecayDone
  <2>2. CASE j \in todo
    <3>1. j = k /\ k \in Seen
      BY <2>2
    <3>2. PICK d \in pass.edges : KeyOf(d) = k
      BY <3>1 DEF Seen
    <3>. QED
      BY <3>1, <3>2 DEF ConfirmDone
  <2>. QED
    BY <2>1, <2>2
<1>. QED
  BY <1>2, <1>3, <1>4, <1>5

LEMMA CommitIInv == IInv /\ Commit => IInv'
<1>. SUFFICES ASSUME IInv, Commit PROVE IInv'
  OBVIOUS
<1>. USE DEF IInv, TypeOK, Commit
<1>1. TypeOK'
  OBVIOUS
<1>2. SoundIn(work)' /\ SoundIn(disk)'
  BY DEF SoundIn
<1>3. Extends'
  <2>. SUFFICES ASSUME NEW k \in Rows(work) PROVE work[k].base >= work[k].base
    BY DEF Extends
  <2>1. work[k] \in Row
    BY DEF Rows, Memory
  <2>. QED
    BY <2>1, ConfigAssumption DEF Row
<1>4. SeedDone' /\ ConfirmDone' /\ LoopOK'
  BY SamePass DEF LoopOK, SeedDone, ConfirmDone
<1>5. DecayDone'
  BY SamePass DEF DecayDone, Rows
<1>. QED
  BY <1>1, <1>2, <1>3, <1>4, <1>5

(* What a live edge of the answer is. *)
LEMMA LiveAnswerFacts ==
    ASSUME IInv, pc = "render", NEW a \in LiveAnswer
    PROVE  /\ a \in [src : Pod, dst : Pod, conf : 0..One, state : State,
                     source : {"live", "memory"}]
           /\ a.source = "live"
           /\ <<a.src, a.dst>> \in pass.edges
           /\ KeyOf(<<a.src, a.dst>>) \in Rows(work)
           /\ a.conf = work[KeyOf(<<a.src, a.dst>>)].conf
           /\ a.state = work[KeyOf(<<a.src, a.dst>>)].state
           /\ a.conf >= work[KeyOf(<<a.src, a.dst>>)].base
           /\ a.state \in {"confirming", "active"}
<1>. USE DEF IInv, TypeOK
<1>1. PICK e \in pass.edges : a = Rendered(e[1], e[2], work[KeyOf(e)], "live")
  BY DEF LiveAnswer
<1>2. e \in Pod \X Pod /\ e = <<e[1], e[2]>>
  BY DEF Passes, Edge
<1>. DEFINE r == work[KeyOf(e)]
<1>3. /\ KeyOf(e) \in Rows(work) /\ r.base <= r.conf
      /\ r.state \in {"confirming", "active"}
  BY DEF ConfirmDone
<1>4. r \in Row
  BY <1>3 DEF Rows, Memory
<1>5. r.conf \in 0..One /\ r.base \in 0..One /\ r.state \in State
  BY <1>4 DEF Row
<1>6. /\ a.src = e[1] /\ a.dst = e[2] /\ a.conf = r.conf
      /\ a.state = r.state /\ a.source = "live"
  BY <1>1 DEF Rendered
<1>7. a \in [src : Pod, dst : Pod, conf : 0..One, state : State,
             source : {"live", "memory"}]
  BY <1>1, <1>2, <1>5 DEF Rendered
<1>8. <<a.src, a.dst>> = e
  BY <1>2, <1>6
<1>. QED
  BY <1>3, <1>5, <1>6, <1>7, <1>8, ConfigAssumption

(* What a held edge of the answer is. *)
LEMMA HeldAnswerFacts ==
    ASSUME IInv, pc = "render", NEW K \in StrongestPerPair,
           NEW wl_pod \in CurrentPod, NEW a \in HeldAnswer(K, wl_pod)
    PROVE  /\ a \in [src : Pod, dst : Pod, conf : 0..One, state : State,
                     source : {"live", "memory"}]
           /\ a.source = "memory"
           /\ KeyOf(<<a.src, a.dst>>) \in K
           /\ KeyOf(<<a.src, a.dst>>) \in Rows(work)
           /\ BothPresent(KeyOf(<<a.src, a.dst>>))
           /\ a.conf = work[KeyOf(<<a.src, a.dst>>)].conf
           /\ a.state = work[KeyOf(<<a.src, a.dst>>)].state
           /\ a.conf >= work[KeyOf(<<a.src, a.dst>>)].base
<1>. USE DEF IInv, TypeOK
<1>1. PICK k \in K : /\ BothPresent(k)
                     /\ a = Rendered(wl_pod[k[1]], wl_pod[k[2]], work[k], "memory")
  BY DEF HeldAnswer
<1>2. k \in Rows(work) /\ k \in Key /\ k = <<k[1], k[2]>>
  BY DEF StrongestPerPair, Holdable, Rows, Key
<1>3. /\ wl_pod[k[1]] \in Pod /\ WorkloadOf[wl_pod[k[1]]] = k[1]
      /\ wl_pod[k[2]] \in Pod /\ WorkloadOf[wl_pod[k[2]]] = k[2]
  BY <1>1 DEF CurrentPod, BothPresent, Passes
<1>4. work[k] \in Row
  BY <1>2 DEF Rows, Memory
<1>5. /\ work[k].conf \in 0..One /\ work[k].base \in 0..One
      /\ work[k].state \in State
  BY <1>4 DEF Row
<1>6. work[k].base <= work[k].conf
  BY <1>1, <1>2 DEF DecayDone
<1>7. /\ a.src = wl_pod[k[1]] /\ a.dst = wl_pod[k[2]] /\ a.conf = work[k].conf
      /\ a.state = work[k].state /\ a.source = "memory"
  BY <1>1 DEF Rendered
<1>8. a \in [src : Pod, dst : Pod, conf : 0..One, state : State,
             source : {"live", "memory"}]
  BY <1>1, <1>3, <1>5 DEF Rendered
<1>9. KeyOf(<<a.src, a.dst>>) = k
  BY <1>2, <1>3, <1>7 DEF KeyOf
<1>. QED
  BY <1>1, <1>2, <1>5, <1>6, <1>7, <1>8, <1>9, ConfigAssumption

LEMMA PublishIInv == IInv /\ Publish => IInv'
<1>. SUFFICES ASSUME IInv, Publish PROVE IInv'
  OBVIOUS
<1>. USE DEF IInv, TypeOK, Publish
<1>1. PICK K \in StrongestPerPair : \E wl_pod \in CurrentPod :
         served' = Graph(LiveAnswer \cup HeldAnswer(K, wl_pod))
  OBVIOUS
<1>2. PICK wl_pod \in CurrentPod : served' = Graph(LiveAnswer \cup HeldAnswer(K, wl_pod))
  BY <1>1
<1>3. LiveAnswer \cup HeldAnswer(K, wl_pod)
         \subseteq [src : Pod, dst : Pod, conf : 0..One, state : State,
                    source : {"live", "memory"}]
  BY LiveAnswerFacts, HeldAnswerFacts
<1>4. served' \in Answers
  BY <1>2, <1>3 DEF Answers, Graph
<1>5. TypeOK'
  BY <1>4
<1>. QED
  BY <1>5 DEF SoundIn, Extends, LoopOK, SeedDone, ConfirmDone, DecayDone

LEMMA FaultIInv == IInv /\ Fault => IInv'
<1>. SUFFICES ASSUME IInv, Fault PROVE IInv'
  OBVIOUS
<1>. USE DEF IInv, TypeOK
<1>1. /\ work' \in {work, disk} /\ disk' = disk /\ pc' = "idle" /\ todo' = {}
      /\ pass' = NoPass /\ served' \in {ErrorGraph, Bootstrap}
  BY DEF Fault, PassFails, FetchFails, Restart
<1>2. served' \in Answers /\ NoPass \in Passes
  BY <1>1 DEF ErrorGraph, Bootstrap, Graph, Answers, NoPass, Passes
<1>3. TypeOK'
  BY <1>1, <1>2
<1>4. SoundIn(work)' /\ SoundIn(disk)'
  BY <1>1 DEF SoundIn
<1>5. Extends'
  <2>1. CASE work' = work
    BY <2>1, <1>1 DEF Extends
  <2>2. CASE work' = disk
    <3>. SUFFICES ASSUME NEW k \in Rows(disk) PROVE disk[k].base >= disk[k].base
      BY <2>2, <1>1 DEF Extends
    <3>1. disk[k] \in Row
      BY DEF Rows, Memory
    <3>. QED
      BY <3>1, ConfigAssumption DEF Row
  <2>. QED
    BY <2>1, <2>2, <1>1
<1>6. LoopOK'
  BY <1>1 DEF LoopOK, NoPass
<1>. QED
  BY <1>1, <1>3, <1>4, <1>5, <1>6 DEF SeedDone, ConfirmDone, DecayDone

(* Every step of the loop preserves the inductive invariant. *)
LEMMA NextIInv == IInv /\ [Next]_vars => IInv'
<1>. SUFFICES ASSUME IInv, [Next]_vars PROVE IInv'
  OBVIOUS
<1>1. CASE StartPass
  BY <1>1, StartPassIInv
<1>2. CASE Baselines
  BY <1>2, BaselinesIInv
<1>3. CASE \E k \in Key : SeedStructural(k)
  BY <1>3, SeedIInv
<1>4. CASE EndSeed
  BY <1>4, EndSeedIInv
<1>5. CASE \E e \in Edge : ConfirmEdge(e)
  BY <1>5, ConfirmIInv
<1>6. CASE EndConfirm
  BY <1>6, EndConfirmIInv
<1>7. CASE \E k \in Key : DecayAbsentEdge(k)
  <2>1. PICK k \in Key : DecayAbsentEdge(k)
    BY <1>7
  <2>2. k \in Rows(work)
    BY <2>1 DEF IInv, LoopOK, DecayAbsentEdge, Visit
  <2>. QED
    BY <2>1, <2>2, FadeIInv, SkipIInv
<1>8. CASE Commit
  BY <1>8, CommitIInv
<1>9. CASE Publish
  BY <1>9, PublishIInv
<1>10. CASE Fault
  BY <1>10, FaultIInv
<1>11. CASE UNCHANGED vars
  BY <1>11 DEF vars, IInv, TypeOK, SoundIn, Extends, LoopOK, SeedDone, ConfirmDone,
     DecayDone, Witnessed, BothPresent, Present, Seen
<1>. QED
  BY <1>1, <1>2, <1>3, <1>4, <1>5, <1>6, <1>7, <1>8, <1>9, <1>10, <1>11
     DEF Next, Advance

(* The inductive invariant holds in every behaviour. *)
THEOREM Invariance == Spec => []IInv
BY InitIInv, NextIInv, PTL DEF Spec
-----------------------------------------------------------------------------
(* The properties *)

(* TypeOK: the table keeps its ranges, whatever fails and restarts. *)
THEOREM TypeCorrect == Spec => []TypeOK
<1>1. IInv => TypeOK
  BY DEF IInv
<1>. QED
  BY <1>1, Invariance, PTL

(* Hysteresis: the visible flag agrees with the two thresholds, in memory   *)
(* and on disk.                                                             *)
THEOREM HysteresisHolds == Spec => []Hysteresis
<1>1. IInv => Hysteresis
  BY DEF IInv, SoundIn, Sound, Hysteresis, HysteresisIn
<1>. QED
  BY <1>1, Invariance, PTL

(* NoFlicker: one acceptance never makes an edge visible. *)
THEOREM NoFlickerHolds == Spec => []NoFlicker
<1>1. IInv => NoFlicker
  BY DEF IInv, SoundIn, Sound, NoFlicker, NoFlickerIn
<1>. QED
  BY <1>1, Invariance, PTL

(* FloorNeverErodes: what is committed is never forgotten, and its floor    *)
(* never sinks.                                                             *)
THEOREM FloorNeverErodesHolds == Spec => FloorNeverErodes
<1>. DEFINE Kept == \A k \in Rows(disk) :
                      k \in Rows(disk') /\ disk'[k].base >= disk[k].base
<1>1. IInv /\ [Next]_vars => [Kept]_vars
  <2>. SUFFICES ASSUME IInv, Next PROVE Kept
    OBVIOUS
  <2>1. disk' \in {disk, work}
    BY DEF Next, StartPass, Advance, Baselines, SeedStructural, EndSeed, ConfirmEdge, Visit,
       EndConfirm, DecayAbsentEdge, Commit, Publish, Fault, PassFails, FetchFails, Restart
  <2>2. CASE disk' = work
    BY <2>2 DEF IInv, Extends
  <2>3. CASE disk' = disk
    <3>. SUFFICES ASSUME NEW k \in Rows(disk) PROVE disk[k].base >= disk[k].base
      BY <2>3
    <3>1. disk[k] \in Row
      BY DEF IInv, TypeOK, Rows, Memory
    <3>. QED
      BY <3>1, ConfigAssumption DEF Row
  <2>. QED
    BY <2>1, <2>2, <2>3
<1>. QED
  BY <1>1, Invariance, PTL DEF Spec, FloorNeverErodes

(* AbsentIsHeld: a pass leaves alone the rows of workloads it has no        *)
(* vectors of.                                                              *)
THEOREM AbsentIsHeldHolds == Spec => AbsentIsHeld
<1>. DEFINE Held == pc' # "idle" => \A k \in Key : BothPresent(k) \/ work'[k] = work[k]
<1>1. IInv /\ [Next]_vars => [Held]_vars
  <2>. SUFFICES ASSUME IInv, Next, pc' # "idle", NEW k \in Key, ~BothPresent(k)
                PROVE  work'[k] = work[k]
    OBVIOUS
  <2>1. CASE \E j \in Key : SeedStructural(j)
    <3>1. PICK j \in Key : SeedStructural(j)
      BY <2>1
    <3>2. j # k
      BY <3>1 DEF SeedStructural, Visit, IInv, LoopOK, Witnessed
    <3>. QED
      BY <3>1, <3>2 DEF SeedStructural, Visit, IInv, TypeOK, Memory
  <2>2. CASE \E e \in Edge : ConfirmEdge(e)
    <3>1. PICK e \in Edge : ConfirmEdge(e)
      BY <2>2
    <3>2. e[1] \in pass.pods /\ e[2] \in pass.pods
      BY <3>1 DEF ConfirmEdge, Visit, IInv, LoopOK
    <3>3. KeyOf(e) # k
      BY <3>2 DEF KeyOf, BothPresent, Present
    <3>. QED
      BY <3>1, <3>3 DEF ConfirmEdge, Visit, IInv, TypeOK, Memory
  <2>3. CASE \E j \in Key : DecayAbsentEdge(j)
    <3>1. PICK j \in Key : DecayAbsentEdge(j)
      BY <2>3
    <3>2. CASE j = k
      BY <3>1, <3>2 DEF DecayAbsentEdge, Visit
    <3>3. CASE j # k
      BY <3>1, <3>3 DEF DecayAbsentEdge, Visit, IInv, TypeOK, Memory
    <3>. QED
      BY <3>2, <3>3
  <2>4. CASE \/ StartPass \/ Baselines \/ EndSeed \/ EndConfirm \/ Commit \/ Publish
    BY <2>4 DEF StartPass, Baselines, EndSeed, EndConfirm, Commit, Publish
  <2>5. CASE Fault
    BY <2>5 DEF Fault, PassFails, FetchFails, Restart
  <2>. QED
    BY <2>1, <2>2, <2>3, <2>4, <2>5 DEF Next, Advance
<1>. QED
  BY <1>1, Invariance, PTL DEF Spec, AbsentIsHeld

(* Between passes nothing moves but the start of the next one. *)
LEMMA IdleSteps ==
    ASSUME IInv, [Next]_vars, pc' = "idle", served'.kind = "graph"
    PROVE  \/ UNCHANGED <<work, disk, pass, served>> /\ pc = "idle"
           \/ Publish
           \/ served' = Bootstrap /\ work' = disk' /\ pass' = NoPass
<1>1. CASE Fault
  BY <1>1 DEF Fault, PassFails, FetchFails, Restart, ErrorGraph
<1>2. CASE UNCHANGED vars
  BY <1>2 DEF vars
<1>3. CASE Publish
  BY <1>3
<1>. QED
  BY <1>1, <1>2, <1>3 DEF Next, Advance, StartPass, Baselines, SeedStructural, Visit, EndSeed,
     ConfirmEdge, EndConfirm, DecayAbsentEdge, Commit

(* ServedIsDurable: every published edge is a committed row, with the       *)
(* confidence and state it has there, at or above its floor.                *)
THEOREM ServedIsDurableHolds == Spec => []ServedIsDurable
<1>1. Init => ServedIsDurable
  BY DEF Init, ServedIsDurable, Bootstrap, Graph
<1>2. IInv /\ ServedIsDurable /\ [Next]_vars => ServedIsDurable'
  <2>. SUFFICES ASSUME IInv, ServedIsDurable, [Next]_vars,
                       pc' = "idle", served'.kind = "graph"
                PROVE  ServedIsDurable'
    BY DEF ServedIsDurable
  <2>1. CASE UNCHANGED <<work, disk, pass, served>> /\ pc = "idle"
    BY <2>1 DEF ServedIsDurable
  <2>2. CASE Publish
    <3>. USE DEF Publish
    <3>1. work = disk /\ work' = work /\ disk' = disk
      BY <2>2 DEF IInv
    <3>2. PICK K \in StrongestPerPair : \E wl_pod \in CurrentPod :
             served' = Graph(LiveAnswer \cup HeldAnswer(K, wl_pod))
      BY <2>2
    <3>3. PICK wl_pod \in CurrentPod :
             served' = Graph(LiveAnswer \cup HeldAnswer(K, wl_pod))
      BY <3>2
    <3>4. served'.edges = LiveAnswer \cup HeldAnswer(K, wl_pod)
      BY <3>3 DEF Graph
    <3>5. \A a \in served'.edges :
             /\ KeyOf(<<a.src, a.dst>>) \in Rows(work)
             /\ a.conf = work[KeyOf(<<a.src, a.dst>>)].conf
             /\ a.state = work[KeyOf(<<a.src, a.dst>>)].state
             /\ a.conf >= work[KeyOf(<<a.src, a.dst>>)].base
      <4>. TAKE a \in served'.edges
      <4>1. CASE a \in LiveAnswer
        BY <2>2, <4>1, LiveAnswerFacts
      <4>2. CASE a \in HeldAnswer(K, wl_pod)
        BY <2>2, <4>2, HeldAnswerFacts
      <4>. QED
        BY <3>4, <4>1, <4>2
    <3>. QED
      BY <3>1, <3>5 DEF ServedIsDurable
  <2>3. CASE served' = Bootstrap /\ work' = disk' /\ pass' = NoPass
    BY <2>3 DEF ServedIsDurable, Bootstrap, Graph
  <2>. QED
    BY <2>1, <2>2, <2>3, IdleSteps
<1>. QED
  BY <1>1, <1>2, Invariance, PTL DEF Spec

(* BackboneServed: the published graph joins every two pods that share the  *)
(* disk, with at least the topology prior.                                  *)
THEOREM BackboneServedHolds == Spec => []BackboneServed
<1>1. Init => BackboneServed
  BY DEF Init, BackboneServed, Witnessed, BothPresent, Present, NoPass
<1>2. IInv /\ BackboneServed /\ [Next]_vars => BackboneServed'
  <2>. SUFFICES ASSUME IInv, BackboneServed, [Next]_vars,
                       pc' = "idle", served'.kind = "graph"
                PROVE  BackboneServed'
    BY DEF BackboneServed
  <2>1. CASE UNCHANGED <<work, disk, pass, served>> /\ pc = "idle"
    BY <2>1 DEF BackboneServed, Witnessed, BothPresent, Present
  <2>2. CASE Publish
    <3>. SUFFICES ASSUME NEW k \in Witnessed
                  PROVE  \E a \in served'.edges :
                           /\ PairOf(KeyOf(<<a.src, a.dst>>)) = PairOf(k)
                           /\ a.conf >= Prior
      BY <2>2, SamePass DEF BackboneServed, Publish
    <3>1. PICK K \in StrongestPerPair : \E wl_pod \in CurrentPod :
             served' = Graph(LiveAnswer \cup HeldAnswer(K, wl_pod))
      BY <2>2 DEF Publish
    <3>2. PICK wl_pod \in CurrentPod :
             served' = Graph(LiveAnswer \cup HeldAnswer(K, wl_pod))
      BY <3>1
    <3>3. served'.edges = LiveAnswer \cup HeldAnswer(K, wl_pod)
      BY <3>2 DEF Graph
    <3>4. pc = "render" /\ k \in Key /\ BothPresent(k)
      BY <2>2 DEF Publish, Witnessed
    <3>5. k \in Rows(work) /\ work[k].base >= Prior /\ work[k].base <= work[k].conf
      BY <3>4 DEF IInv, SeedDone, DecayDone
    <3>6. CASE \E j \in Seen : PairOf(j) = PairOf(k)
      <4>1. PICK e \in pass.edges : PairOf(KeyOf(e)) = PairOf(k)
        BY <3>6 DEF Seen
      <4>. DEFINE a == Rendered(e[1], e[2], work[KeyOf(e)], "live")
      <4>2. a \in served'.edges
        BY <3>3 DEF LiveAnswer
      <4>3. e = <<e[1], e[2]>>
        BY DEF IInv, TypeOK, Passes, Edge
      <4>4. a.conf >= Prior
        BY <3>4 DEF IInv, ConfirmDone, Rendered
      <4>5. KeyOf(<<a.src, a.dst>>) = KeyOf(e)
        BY <4>3 DEF Rendered
      <4>. QED
        BY <4>1, <4>2, <4>4, <4>5
    <3>7. CASE \A j \in Seen : PairOf(j) # PairOf(k)
      <4>1. k \in Holdable
        <5>1. work[k].base \in 0..One
          BY <3>5 DEF IInv, TypeOK, Memory, Rows, Row
        <5>. QED
          BY <3>5, <3>7, <5>1, ConfigAssumption DEF Holdable
      <4>2. PICK j \in K : PairOf(j) = PairOf(k) /\ work[j].conf >= work[k].conf
        BY <4>1 DEF StrongestPerPair
      <4>3. j \in Key /\ j \in Rows(work)
        BY DEF StrongestPerPair, Holdable, Rows
      <4>4. BothPresent(j)
        BY <3>4, <4>2 DEF BothPresent, PairOf
      <4>. DEFINE a == Rendered(wl_pod[j[1]], wl_pod[j[2]], work[j], "memory")
      <4>5. a \in served'.edges
        BY <3>3, <4>4 DEF HeldAnswer
      <4>6. a.conf >= Prior
        <5>1. work[j] \in Row /\ work[k] \in Row
          BY <3>4, <3>5, <4>3 DEF IInv, TypeOK, Memory, Rows
        <5>2. /\ work[j].conf \in Int /\ work[k].conf \in Int /\ work[k].base \in Int
          BY <5>1, ConfigAssumption DEF Row
        <5>. QED
          BY <5>2, <3>5, <4>2, ConfigAssumption DEF Rendered
      <4>7. KeyOf(<<a.src, a.dst>>) = j
        BY <4>3, <4>4 DEF Rendered, KeyOf, Key, CurrentPod, BothPresent
      <4>. QED
        BY <4>2, <4>5, <4>6, <4>7
    <3>. QED
      BY <3>6, <3>7
  <2>3. CASE served' = Bootstrap /\ work' = disk' /\ pass' = NoPass
    BY <2>3 DEF BackboneServed, Witnessed, BothPresent, Present, NoPass
  <2>. QED
    BY <2>1, <2>2, <2>3, IdleSteps
<1>. QED
  BY <1>1, <1>2, Invariance, PTL DEF Spec

-----------------------------------------------------------------------------
(* What lies between two commits *)

(* A row that a pass has only seeded, or not touched. *)
Untouched(k) ==
    work[k].conf = disk[k].conf /\ work[k].visible = disk[k].visible

(* The strengthening of IInv for the refinement: every row of the           *)
(* connection has evolved from the committed one, and until its own turn    *)
(* comes it has not moved at all.                                           *)
Ahead ==
    \A k \in Rows(disk) :
        /\ Promise!Evolves(disk[k], work[k])
        /\ pc \in {"seed", "confirm"} /\ disk[k].visible => work[k].visible
        /\ pc = "seed" => Untouched(k)
        /\ pc = "confirm" /\ k \notin Seen => Untouched(k)
        /\ pc = "decay" /\ k \notin Seen /\ k \in todo => Untouched(k)

(* A committed row is one of the connection too, and both have their type.  *)
LEMMA CommittedRow ==
    ASSUME IInv, NEW k \in Rows(disk)
    PROVE  /\ k \in Key /\ k \in Rows(work)
           /\ disk[k] \in Row /\ Good(work[k])
           /\ work[k].base >= disk[k].base
           /\ disk[k].base \in Int /\ work[k].base \in Int
           /\ disk[k].conf \in Int /\ work[k].conf \in Int
           /\ disk[k].visible \in BOOLEAN /\ work[k].visible \in BOOLEAN
<1>1. k \in Key /\ disk[k] \in Row
  BY DEF Rows, IInv, TypeOK, Memory
<1>2. k \in Rows(work) /\ work[k].base >= disk[k].base
  BY DEF IInv, Extends
<1>3. work[k] \in Row /\ Sound(work[k])
  BY <1>2 DEF Rows, IInv, TypeOK, Memory, SoundIn
<1>. QED
  BY <1>1, <1>2, <1>3, ConfigAssumption DEF Row, Good

(* Nothing changes: that is an evolution. *)
LEMMA EvolvesItself ==
    ASSUME NEW r \in Row
    PROVE  Promise!Evolves(r, r)
BY ConfigAssumption DEF Promise!Evolves, Row

(* A confirmation of a row that evolved without being hidden. *)
LEMMA ConfirmEvolves ==
    ASSUME IInv, IInv', disk' = disk, NEW k \in Rows(disk), Ahead, pc = "confirm",
           work'[k] = Confirmed(work[k])
    PROVE  /\ Promise!Evolves(disk'[k], work'[k])
           /\ disk'[k].visible => work'[k].visible
<1>. DEFINE r == disk[k]
            w == work[k]
            s == work'[k]
            c == Grow(w.conf)
<1>1. /\ w \in Row /\ w # None /\ w.conf \in 0..One
      /\ w.visible \in BOOLEAN /\ r.visible \in BOOLEAN
      /\ s.base >= r.base
  <2>1. k \in Rows(disk') /\ Extends'
    BY DEF Rows, IInv
  <2>2. s.base >= r.base
    BY <2>1 DEF Extends
  <2>3. w \in Row /\ r \in Row
    BY CommittedRow DEF Good
  <2>. QED
    BY <2>2, <2>3, NoneAssumption DEF Row
<1>2. c \in w.conf..One
  BY <1>1, GrowBounds
<1>3. /\ s.conf = c /\ s.visible = (w.visible \/ c >= ShowAt)
      /\ s.state \in {"confirming", "active"}
  BY <1>1 DEF Confirmed, SeenAgain, ConfirmedRow
<1>4. /\ r.visible => w.visible
      /\ w.visible /\ ~r.visible => w.conf >= ShowAt
  BY DEF Ahead, Promise!Evolves
<1>5. s.visible /\ ~r.visible => s.conf >= ShowAt
  BY <1>1, <1>2, <1>3, <1>4, ConfigAssumption
<1>6. r.visible => s.visible
  BY <1>3, <1>4
<1>. QED
  BY <1>1, <1>3, <1>5, <1>6 DEF Promise!Evolves

(* A fade of a row that had not moved since the commit. *)
LEMMA FadeEvolves ==
    ASSUME IInv, IInv', disk' = disk, NEW k \in Rows(disk), Untouched(k),
           work'[k] = Faded(work[k])
    PROVE  Promise!Evolves(disk'[k], work'[k])
<1>. DEFINE r == disk[k]
            w == work[k]
            s == work'[k]
            f == Fade(w.conf)
            c == Larger(w.base, f)
<1>1. /\ w.conf \in 0..One /\ w.base \in 0..One /\ w.visible \in BOOLEAN
      /\ s.base >= r.base
  <2>1. k \in Rows(disk') /\ Extends'
    BY DEF Rows, IInv
  <2>2. s.base >= r.base
    BY <2>1 DEF Extends
  <2>3. w \in Row /\ r \in Row
    BY CommittedRow DEF Good
  <2>. QED
    BY <2>2, <2>3, NoneAssumption DEF Row
<1>2. f \in 0..w.conf
  BY <1>1, FadeBounds
<1>3. c \in {w.base, f}
  BY <1>1, <1>2, LargerFact
<1>4. /\ s.conf = c /\ s.base = w.base
      /\ s.visible = (w.visible /\ c >= HideAt)
  BY DEF Faded, FadedRow
<1>5. r.conf = w.conf /\ r.visible = w.visible
  BY DEF Untouched
<1>. HIDE DEF f, c
<1>. QED
  BY <1>1, <1>2, <1>3, <1>4, <1>5, ConfigAssumption DEF Promise!Evolves

-----------------------------------------------------------------------------
(* One lemma per step of the loop *)

LEMMA InitAhead == Init => Ahead
BY DEF Init, Ahead, Rows

(* A visit of the loop that seeds. *)
LEMMA SeedAhead ==
    ASSUME IInv, IInv', Ahead, NEW k \in Key, SeedStructural(k)
    PROVE  Ahead'
<1>. USE DEF SeedStructural, Visit
<1>1. work' = [work EXCEPT ![k] = Seeded(work[k])] /\ disk' = disk
  OBVIOUS
<1>2. work \in Memory
  BY DEF IInv, TypeOK
<1>. SUFFICES ASSUME NEW j \in Rows(disk)
              PROVE  /\ Promise!Evolves(disk[j], work'[j])
                     /\ disk[j].visible => work'[j].visible
                     /\ work'[j].conf = disk[j].conf /\ work'[j].visible = disk[j].visible
  BY <1>1, SamePass DEF Ahead, Untouched, Rows
<1>3. Untouched(j)
  BY DEF Ahead
<1>4. j \in Key /\ work[j] # None
  BY CommittedRow, NoneAssumption DEF Good
<1>5. work'[j].conf = work[j].conf /\ work'[j].visible = work[j].visible
  BY <1>1, <1>2, <1>4 DEF Memory, Seeded
<1>6. work'[j].conf = disk[j].conf /\ work'[j].visible = disk[j].visible
  BY <1>3, <1>5 DEF Untouched
<1>7. work'[j].base >= disk[j].base
  <2>1. Extends' /\ j \in Rows(disk')
    BY <1>1 DEF IInv, Rows
  <2>. QED
    BY <2>1, <1>1 DEF Extends
<1>. QED
  BY <1>6, <1>7, CommittedRow DEF Promise!Evolves

(* A visit of the loop that confirms. *)
LEMMA ConfirmAhead ==
    ASSUME IInv, IInv', Ahead, NEW e \in Edge, ConfirmEdge(e)
    PROVE  Ahead'
<1>. USE DEF ConfirmEdge, Visit
<1>. DEFINE k == KeyOf(e)
<1>1. k \in Seen /\ k \in Key
  <2>1. e \in pass.edges
    BY DEF IInv, LoopOK
  <2>. QED
    BY <2>1, KeyOfEdge DEF Seen, Edge
<1>2. work' = [work EXCEPT ![k] = Confirmed(work[k])] /\ disk' = disk /\ work \in Memory
  BY DEF IInv, TypeOK
<1>. HIDE DEF k
<1>. SUFFICES ASSUME NEW j \in Rows(disk)
              PROVE  /\ Promise!Evolves(disk[j], work'[j])
                     /\ disk[j].visible => work'[j].visible
                     /\ j \notin Seen => /\ work'[j].conf = disk[j].conf
                                         /\ work'[j].visible = disk[j].visible
  BY <1>2, SamePass DEF Ahead, Untouched, Rows
<1>3. CASE j = k
  <2>1. work'[j] = Confirmed(work[j])
    BY <1>1, <1>2, <1>3 DEF Memory
  <2>. QED
    BY <2>1, <1>1, <1>2, <1>3, ConfirmEvolves
<1>4. CASE j # k
  <2>1. work'[j] = work[j]
    BY <1>2, <1>4, CommittedRow DEF Memory
  <2>. QED
    BY <2>1 DEF Ahead, Untouched
<1>. QED
  BY <1>3, <1>4

(* A visit of the loop that decays. *)
LEMMA DecayAhead ==
    ASSUME IInv, IInv', Ahead, NEW k \in Key, DecayAbsentEdge(k)
    PROVE  Ahead'
<1>. USE DEF DecayAbsentEdge, Visit
<1>1. /\ work' \in {work, [work EXCEPT ![k] = Faded(work[k])]}
      /\ k \in Seen => work' = work
      /\ disk' = disk /\ todo' = todo \ {k} /\ pc = "decay" /\ pc' = "decay" /\ k \in todo
      /\ UNCHANGED pass /\ work \in Memory
  BY DEF IInv, TypeOK
<1>. SUFFICES ASSUME NEW j \in Rows(disk)
              PROVE  /\ Promise!Evolves(disk[j], work'[j])
                     /\ j \notin Seen /\ j \in todo /\ j # k =>
                            /\ work'[j].conf = disk[j].conf
                            /\ work'[j].visible = disk[j].visible
  BY <1>1, SamePass DEF Ahead, Untouched, Rows
<1>2. CASE work' = work
  BY <1>1, <1>2 DEF Ahead, Untouched
<1>3. CASE j # k
  <2>1. work'[j] = work[j]
    BY <1>1, <1>3, CommittedRow DEF Memory
  <2>. QED
    BY <1>1, <2>1 DEF Ahead, Untouched
<1>4. CASE j = k /\ work' = [work EXCEPT ![k] = Faded(work[k])] /\ work' # work
  <2>1. work'[j] = Faded(work[j])
    BY <1>1, <1>4 DEF Memory
  <2>2. Untouched(j)
    BY <1>1, <1>4 DEF Ahead
  <2>3. Promise!Evolves(disk'[j], work'[j])
    BY <1>1, <2>1, <2>2, FadeEvolves
  <2>. QED
    BY <1>1, <1>4, <2>3
<1>. QED
  BY <1>1, <1>2, <1>3, <1>4

(* Every step of the loop preserves Ahead. *)
LEMMA NextAhead == IInv /\ IInv' /\ Ahead /\ [Next]_vars => Ahead'
<1>. SUFFICES ASSUME IInv, IInv', Ahead, [Next]_vars PROVE Ahead'
  OBVIOUS
<1>1. CASE StartPass
  BY <1>1 DEF StartPass, Ahead
<1>2. CASE Baselines \/ Commit
  <2>1. work' = disk'
    BY <1>2 DEF Baselines, Commit
  <2>2. \A k \in Rows(disk') : disk'[k] \in Row
    BY DEF IInv, TypeOK, Memory, Rows
  <2>. SUFFICES ASSUME NEW k \in Rows(disk')
                PROVE  Promise!Evolves(disk'[k], disk'[k])
    BY <2>1 DEF Ahead, Untouched
  <2>. QED
    BY <2>2, EvolvesItself
<1>3. CASE \E k \in Key : SeedStructural(k)
  BY <1>3, SeedAhead
<1>4. CASE EndSeed
  BY <1>4, SamePass DEF EndSeed, Ahead, Untouched
<1>5. CASE \E e \in Edge : ConfirmEdge(e)
  BY <1>5, ConfirmAhead
<1>6. CASE EndConfirm
  BY <1>6, SamePass DEF EndConfirm, Ahead, Untouched
<1>7. CASE \E k \in Key : DecayAbsentEdge(k)
  BY <1>7, DecayAhead
<1>8. CASE Publish
  BY <1>8 DEF Publish, Ahead
<1>9. CASE Fault
  <2>1. work' \in {work, disk} /\ disk' = disk /\ pc' = "idle"
    BY <1>9 DEF Fault, PassFails, FetchFails, Restart, IInv, TypeOK
  <2>2. CASE work' = work
    BY <2>1, <2>2 DEF Ahead
  <2>3. CASE work' = disk
    <3>. SUFFICES ASSUME NEW k \in Rows(disk)
                  PROVE  Promise!Evolves(disk[k], disk[k])
      BY <2>1, <2>3 DEF Ahead
    <3>. QED
      BY CommittedRow, EvolvesItself
  <2>. QED
    BY <2>1, <2>2, <2>3
<1>10. CASE UNCHANGED vars
  BY <1>10 DEF vars, Ahead, Untouched, Seen
<1>. QED
  BY <1>1, <1>2, <1>3, <1>4, <1>5, <1>6, <1>7, <1>8, <1>9, <1>10 DEF Next, Advance
-----------------------------------------------------------------------------
(* The theorems *)

(* A commit is a lesson of the abstract memory. *)
LEMMA CommitLearns ==
    ASSUME IInv, Ahead, Baselines \/ Commit
    PROVE  Promise!Learn
<1>1. disk' = work /\ served' = served
  BY DEF Baselines, Commit
<1>2. ASSUME NEW k \in Key, disk[k] # None
      PROVE  work[k] # None /\ Promise!Evolves(disk[k], work[k])
  <2>1. k \in Rows(disk)
    BY <1>2 DEF Rows
  <2>2. k \in Rows(work)
    BY <2>1, CommittedRow
  <2>. QED
    BY <2>1, <2>2 DEF Ahead, Rows
<1>. QED
  BY <1>1, <1>2 DEF Promise!Learn

(* A publication is an answer of it. *)
LEMMA PublishAnswers ==
    ASSUME IInv, Publish
    PROVE  Promise!Answer
<1>. USE DEF Publish
<1>1. work = disk /\ disk' = disk /\ pc = "render"
  BY DEF IInv
<1>2. PICK K \in StrongestPerPair : \E wl_pod \in CurrentPod :
         served' = Graph(LiveAnswer \cup HeldAnswer(K, wl_pod))
  OBVIOUS
<1>3. PICK wl_pod \in CurrentPod :
         served' = Graph(LiveAnswer \cup HeldAnswer(K, wl_pod))
  BY <1>2
<1>4. served'.kind = "graph" /\ served'.edges = LiveAnswer \cup HeldAnswer(K, wl_pod)
  BY <1>3 DEF Graph
<1>5. ASSUME NEW a \in served'.edges
      PROVE  /\ KeyOf(<<a.src, a.dst>>) \in Rows(disk)
             /\ a.conf = disk[KeyOf(<<a.src, a.dst>>)].conf
             /\ a.state = disk[KeyOf(<<a.src, a.dst>>)].state
             /\ a.conf >= disk[KeyOf(<<a.src, a.dst>>)].base
  <2>1. CASE a \in LiveAnswer
    BY <1>1, <2>1, LiveAnswerFacts
  <2>2. CASE a \in HeldAnswer(K, wl_pod)
    BY <1>1, <2>2, HeldAnswerFacts
  <2>. QED
    BY <1>4, <1>5, <2>1, <2>2
<1>6. ASSUME NEW a \in served'.edges
      PROVE  LET k == KeyOf(<<a.src, a.dst>>)
             IN  /\ k \in Key /\ disk[k] # None
                 /\ a.conf = disk[k].conf /\ a.state = disk[k].state
                 /\ a.conf >= disk[k].base
  BY <1>5, <1>6 DEF Rows
<1>. DEFINE Told == {[key |-> KeyOf(<<a.src, a.dst>>), conf |-> a.conf,
                      state |-> a.state] : a \in served'.edges}
<1>7. ASSUME NEW b \in Told
      PROVE  /\ b.key \in Key /\ disk[b.key] # None
             /\ b.conf = disk[b.key].conf /\ b.state = disk[b.key].state
             /\ b.conf >= disk[b.key].base
  <2>1. PICK a \in served'.edges :
           b = [key |-> KeyOf(<<a.src, a.dst>>), conf |-> a.conf, state |-> a.state]
    BY <1>7
  <2>2. /\ b.key = KeyOf(<<a.src, a.dst>>)
        /\ b.conf = a.conf /\ b.state = a.state
    BY <2>1
  <2>. QED
    BY <2>2, <1>6
<1>8. [kind |-> served'.kind, edges |-> Told].edges = Told
  OBVIOUS
<1>. HIDE DEF Told
<1>9. /\ [kind |-> served'.kind, edges |-> Told].kind = "graph"
      /\ \A b \in [kind |-> served'.kind, edges |-> Told].edges :
             /\ b.key \in Key /\ disk[b.key] # None
             /\ b.conf = disk[b.key].conf /\ b.state = disk[b.key].state
             /\ b.conf >= disk[b.key].base
  BY <1>4, <1>7, <1>8
<1>. QED
  BY <1>1, <1>9 DEF Promise!Answer, Told

(* KeepsPromise: the loop, with its half passes, faults and restarts,       *)
(* implements the durable memory of RememberedGraph.                        *)
THEOREM Implements == Spec => KeepsPromise
<1>1. Init => Promise!MInit
  BY DEF Init, Bootstrap, Graph, Promise!MInit, Promise!Silent
<1>2. IInv /\ Ahead /\ [Next]_vars => [Promise!MNext]_(Promise!mvars)
  <2>. SUFFICES ASSUME IInv, Ahead, [Next]_vars
                PROVE  Promise!MNext \/ UNCHANGED Promise!mvars
    OBVIOUS
  <2>1. CASE Baselines \/ Commit
    BY <2>1, CommitLearns DEF Promise!MNext
  <2>2. CASE Publish
    BY <2>2, PublishAnswers DEF Promise!MNext
  <2>3. CASE Fault
    <3>1. disk' = disk /\ served' \in {ErrorGraph, Bootstrap}
      BY <2>3 DEF Fault, PassFails, FetchFails, Restart
    <3>2. served'.edges = {} /\ served'.kind \in {"error", "graph"}
      BY <3>1 DEF ErrorGraph, Bootstrap, Graph
    <3>3. {[key |-> KeyOf(<<a.src, a.dst>>), conf |-> a.conf, state |-> a.state] :
              a \in served'.edges} = {}
      BY <3>2
    <3>. QED
      BY <3>1, <3>2, <3>3 DEF Promise!MNext, Promise!Forget, Promise!Silent
  <2>4. CASE UNCHANGED <<disk, served>>
    BY <2>4 DEF Promise!mvars
  <2>. QED
    BY <2>1, <2>2, <2>3, <2>4 DEF Next, Advance, StartPass, SeedStructural, EndSeed,
       ConfirmEdge, EndConfirm, DecayAbsentEdge, Visit, vars
<1>. QED
  BY <1>1, <1>2, InitAhead, NextAhead, Invariance, PTL DEF Spec, KeepsPromise, Promise!MSpec

(* SourceMatchesState: what is served as live was confirmed in the pass;    *)
(* what is served from memory is neither confirming nor active.             *)
THEOREM SourceMatchesStateHolds == Spec => []SourceMatchesState
<1>1. Init => SourceMatchesState
  BY DEF Init, SourceMatchesState, Bootstrap, Graph
<1>2. IInv /\ SourceMatchesState /\ [Next]_vars => SourceMatchesState'
  <2>. SUFFICES ASSUME IInv, SourceMatchesState, [Next]_vars,
                       pc' = "idle", served'.kind = "graph"
                PROVE  SourceMatchesState'
    BY DEF SourceMatchesState
  <2>1. CASE UNCHANGED <<work, disk, pass, served>> /\ pc = "idle"
    BY <2>1 DEF SourceMatchesState, Seen
  <2>2. CASE Publish
    <3>. SUFFICES ASSUME NEW a \in served'.edges
                  PROVE  IF a.source = "live"
                         THEN /\ a.state \in {"confirming", "active"}
                              /\ <<a.src, a.dst>> \in pass.edges
                         ELSE a.state \in {"steady", "decaying", "hidden"}
      BY <2>2, SamePass DEF SourceMatchesState, Publish
    <3>1. PICK K \in StrongestPerPair : \E wl_pod \in CurrentPod :
             served' = Graph(LiveAnswer \cup HeldAnswer(K, wl_pod))
      BY <2>2 DEF Publish
    <3>2. PICK wl_pod \in CurrentPod :
             served' = Graph(LiveAnswer \cup HeldAnswer(K, wl_pod))
      BY <3>1
    <3>3. served'.edges = LiveAnswer \cup HeldAnswer(K, wl_pod) /\ pc = "render"
      BY <2>2, <3>2 DEF Graph, Publish
    <3>4. CASE a \in LiveAnswer
      BY <3>3, <3>4, LiveAnswerFacts
    <3>5. CASE a \in HeldAnswer(K, wl_pod)
      <4>. DEFINE k == KeyOf(<<a.src, a.dst>>)
      <4>1. /\ a.source = "memory" /\ k \in K /\ a.state = work[k].state
            /\ BothPresent(k)
        BY <3>3, <3>5, HeldAnswerFacts
      <4>2. k \in Rows(work) /\ k \notin Seen
        BY <4>1 DEF StrongestPerPair, Holdable
      <4>. QED
        BY <3>3, <4>1, <4>2 DEF IInv, DecayDone
    <3>. QED
      BY <3>3, <3>4, <3>5
  <2>3. CASE served' = Bootstrap /\ work' = disk' /\ pass' = NoPass
    BY <2>3 DEF SourceMatchesState, Bootstrap, Graph
  <2>. QED
    BY <2>1, <2>2, <2>3, IdleSteps
<1>. QED
  BY <1>1, <1>2, Invariance, PTL DEF Spec

(* A held edge of an answer is determined by its key. *)
LEMMA HeldIsDetermined ==
    ASSUME IInv, NEW K \in StrongestPerPair, NEW wl_pod \in CurrentPod,
           NEW a \in HeldAnswer(K, wl_pod)
    PROVE  LET k == KeyOf(<<a.src, a.dst>>)
           IN  a = Rendered(wl_pod[k[1]], wl_pod[k[2]], work[k], "memory")
<1>1. PICK k \in K : /\ BothPresent(k)
                     /\ a = Rendered(wl_pod[k[1]], wl_pod[k[2]], work[k], "memory")
  BY DEF HeldAnswer
<1>2. k = <<k[1], k[2]>>
  BY DEF StrongestPerPair, Holdable, Rows, Key
<1>3. WorkloadOf[wl_pod[k[1]]] = k[1] /\ WorkloadOf[wl_pod[k[2]]] = k[2]
  BY <1>1 DEF CurrentPod, BothPresent
<1>4. KeyOf(<<a.src, a.dst>>) = k
  BY <1>1, <1>2, <1>3 DEF KeyOf, Rendered
<1>. QED
  BY <1>1, <1>4

(* PairServedOnce: no held edge joins two workloads another edge joins.     *)
THEOREM PairServedOnceHolds == Spec => []PairServedOnce
<1>1. Init => PairServedOnce
  BY DEF Init, PairServedOnce, Bootstrap, Graph
<1>2. IInv /\ PairServedOnce /\ [Next]_vars => PairServedOnce'
  <2>. SUFFICES ASSUME IInv, PairServedOnce, [Next]_vars PROVE PairServedOnce'
    OBVIOUS
  <2>1. CASE UNCHANGED served
    BY <2>1 DEF PairServedOnce
  <2>2. CASE Fault
    BY <2>2 DEF Fault, PassFails, FetchFails, Restart, ErrorGraph, Bootstrap, Graph,
       PairServedOnce
  <2>3. CASE Publish
    <3>1. PICK K \in StrongestPerPair : \E wl_pod \in CurrentPod :
             served' = Graph(LiveAnswer \cup HeldAnswer(K, wl_pod))
      BY <2>3 DEF Publish
    <3>2. PICK wl_pod \in CurrentPod :
             served' = Graph(LiveAnswer \cup HeldAnswer(K, wl_pod))
      BY <3>1
    <3>3. served'.edges = LiveAnswer \cup HeldAnswer(K, wl_pod) /\ pc = "render"
      BY <2>3, <3>2 DEF Graph, Publish
    <3>. DEFINE k(a) == KeyOf(<<a.src, a.dst>>)
    <3>. SUFFICES ASSUME NEW a \in served'.edges, NEW b \in served'.edges,
                         a # b, a.source = "memory"
                  PROVE  PairOf(k(a)) # PairOf(k(b))
      BY DEF PairServedOnce
    <3>4. a \in HeldAnswer(K, wl_pod) /\ k(a) \in K /\ k(a) \in Holdable
      <4>1. a \notin LiveAnswer
        BY <3>3, LiveAnswerFacts
      <4>2. a \in HeldAnswer(K, wl_pod)
        BY <3>3, <4>1
      <4>. QED
        BY <3>3, <4>2, HeldAnswerFacts DEF StrongestPerPair
    <3>5. CASE b \in LiveAnswer
      <4>1. k(b) \in Seen
        BY <3>3, <3>5, LiveAnswerFacts DEF Seen
      <4>. QED
        BY <3>4, <4>1 DEF Holdable
    <3>6. CASE b \in HeldAnswer(K, wl_pod)
      <4>1. k(b) \in K
        BY <3>3, <3>6, HeldAnswerFacts
      <4>2. k(a) # k(b)
        BY <3>1, <3>3, <3>4, <3>6, HeldAnswerFacts, HeldIsDetermined
      <4>. QED
        BY <3>4, <4>1, <4>2 DEF StrongestPerPair
    <3>. QED
      BY <3>3, <3>5, <3>6
  <2>. QED
    BY <2>1, <2>2, <2>3 DEF Next, Advance, StartPass, Baselines, SeedStructural, Visit,
       EndSeed, ConfirmEdge, EndConfirm, DecayAbsentEdge, Commit, vars
<1>. QED
  BY <1>1, <1>2, Invariance, PTL DEF Spec
=============================================================================
