---------------------------- MODULE SearchProofs ----------------------------
(***************************************************************************)
(* The search behind the ranking and the counting of the blast radius, for *)
(* every set of pods, every graph of edges and every list of onsets: an    *)
(* impact is the strength of the best walk of at most five edges, and what *)
(* the root cause is said to explain is what it reaches.                   *)
(***************************************************************************)
EXTENDS PassProofs

-----------------------------------------------------------------------------
(* A search *)

Item == [node : Pod, w : Nat]
Labelled(p, n) == [node |-> p, w |-> n]

(* What is done at p with n in hand can bring nothing more. *)
Relaxed(known, p, n) ==
    \A e \in edges : e.src = p => Through(n, e) < Cut \/ Through(n, e) <= known[e.dst]

(* What is queued and what is known came along walks of at most five hops,  *)
(* and every label is in the queue or has been spread.                      *)
Reached(root, items) ==
    \A x \in ToSet(items) : \E k \in 0..MaxHops : x.w <= Hops(root)[k][x.node]
Searching(root, known, items) ==
    /\ root \in Pod /\ known \in [Pod -> Nat] /\ items \in Seq(Item)
    /\ \A p \in Pod : known[p] > 0 =>
          known[p] >= Cut /\ \E k \in 1..MaxHops : known[p] <= Hops(root)[k][p]
    /\ Reached(root, items)
    /\ Labelled(root, Unit) \in ToSet(items) \/ Relaxed(known, root, Unit)
    /\ \A p \in Pod : known[p] > 0 =>
          Labelled(p, known[p]) \in ToSet(items) \/ Relaxed(known, p, known[p])

LEMMA InOrderFacts ==
    ASSUME NEW S, S \subseteq Pod
    PROVE  /\ Cardinality(S) \in Nat
           /\ InOrder(S) \in [1..Cardinality(S) -> S]
           /\ \A m \in S : \E i \in 1..Cardinality(S) : InOrder(S)[i] = m
<1>1. S \subseteq Nat /\ IsFiniteSet(S)
  BY InputAssumption, FS_Subset
<1>. DEFINE Rising(s) == \A i, j \in 1..Cardinality(S) : i < j => s[i] < s[j]
<1>2. \E s \in [1..Cardinality(S) -> S] : Rising(s)
  BY <1>1, SortedListing
<1>3. InOrder(S) = CHOOSE s \in [1..Cardinality(S) -> S] : Rising(s)
  BY DEF InOrder
<1>. DEFINE order == InOrder(S)
<1>4. order \in [1..Cardinality(S) -> S] /\ Rising(order)
  <2>. HIDE DEF Rising
  <2>. QED
    BY <1>2, <1>3
<1>. HIDE DEF order
<1>5. \A m \in S : \E i \in 1..Cardinality(S) : order[i] = m
  BY <1>1, <1>4, ListsAll
<1>. QED
  BY <1>1, <1>4, <1>5, FS_CardinalityType DEF order

(* A queue that loses its head and gets a tail. *)
LEMMA TailConcat ==
    ASSUME NEW T, NEW s \in Seq(T), s # <<>>, NEW t \in Seq(T)
    PROVE  LET q == Tail(s) \o t
           IN  /\ q \in Seq(T)
               /\ \A x \in ToSet(q) : x \in ToSet(s) \/ x \in ToSet(t)
               /\ \A x \in ToSet(s) : x = Head(s) \/ x \in ToSet(q)
               /\ \A x \in ToSet(t) : x \in ToSet(q)
<1>. DEFINE old == Tail(s)
            q == old \o t
<1>1. /\ old \in Seq(T) /\ Len(old) = Len(s) - 1 /\ Len(s) \in Nat /\ Len(s) > 0
      /\ \A i \in 1..Len(old) : old[i] = s[i + 1]
      /\ Head(s) = s[1] /\ Len(old) \in Nat /\ Len(t) \in Nat
  BY HeadTailProperties, LenProperties, EmptySeq
<1>. HIDE DEF old
<1>2. /\ q \in Seq(T) /\ Len(q) = Len(old) + Len(t)
      /\ \A i \in 1..Len(q) : q[i] = IF i <= Len(old) THEN old[i] ELSE t[i - Len(old)]
  <2>1. /\ q \in Seq(T) /\ Len(q) = Len(old) + Len(t)
        /\ \A i \in 1..(Len(old) + Len(t)) :
              q[i] = IF i <= Len(old) THEN old[i] ELSE t[i - Len(old)]
    <3>1. old \in Seq(T)
      BY <1>1
    <3>. QED
      BY <3>1, ConcatProperties
  <2>. HIDE DEF q
  <2>. QED
    BY <2>1
<1>. HIDE DEF q
<1>3. /\ ToSet(q) = {q[i] : i \in 1..Len(q)}
      /\ ToSet(s) = {s[i] : i \in 1..Len(s)}
      /\ ToSet(t) = {t[i] : i \in 1..Len(t)}
  BY <1>2, LenProperties DEF ToSet
<1>4. ASSUME NEW x \in ToSet(q) PROVE x \in ToSet(s) \/ x \in ToSet(t)
  <2>1. PICK i \in 1..Len(q) : x = q[i]
    BY <1>3
  <2>2. CASE i <= Len(old)
    <3>1. i \in 1..Len(old) /\ i + 1 \in 1..Len(s)
      BY <1>1, <2>2
    <3>2. x = s[i + 1]
      BY <1>1, <1>2, <2>1, <2>2, <3>1
    <3>. QED
      BY <1>3, <3>1, <3>2
  <2>3. CASE ~(i <= Len(old))
    <3>1. i - Len(old) \in 1..Len(t)
      BY <1>1, <1>2, <2>3
    <3>2. x = t[i - Len(old)]
      BY <1>2, <2>1, <2>3
    <3>. QED
      BY <1>3, <3>1, <3>2
  <2>. QED
    BY <2>2, <2>3
<1>5. ASSUME NEW x \in ToSet(s), x # Head(s) PROVE x \in ToSet(q)
  <2>1. PICK i \in 1..Len(s) : x = s[i]
    BY <1>3
  <2>2. i # 1
    BY <1>1, <1>5, <2>1
  <2>3. i - 1 \in 1..Len(old) /\ i - 1 \in 1..Len(q) /\ (i - 1) + 1 = i /\ i - 1 <= Len(old)
    BY <1>1, <1>2, <2>2
  <2>4. q[i - 1] = s[i]
    BY <1>1, <1>2, <2>3
  <2>. QED
    BY <1>3, <2>1, <2>3, <2>4
<1>6. ASSUME NEW x \in ToSet(t) PROVE x \in ToSet(q)
  <2>1. PICK i \in 1..Len(t) : x = t[i]
    BY <1>3
  <2>2. /\ Len(old) + i \in 1..Len(q) /\ ~(Len(old) + i <= Len(old))
        /\ (Len(old) + i) - Len(old) = i
    BY <1>1, <1>2
  <2>3. q[Len(old) + i] = t[i]
    BY <1>2, <2>2
  <2>. QED
    BY <1>3, <2>1, <2>2, <2>3
<1>. QED
  BY <1>2, <1>4, <1>5, <1>6 DEF q, old

(* The queue after a step: what was behind its head, and the nodes updated. *)
LEMMA QueuedFacts ==
    ASSUME NEW nodes, nodes \subseteq Pod, Brought \in [Pod -> Nat],
           front.items \in Seq(Item), front.items # <<>>,
           front = [root |-> front.root, items |-> front.items]
    PROVE  /\ Queued(nodes) = [root |-> front.root, items |-> Queued(nodes).items]
           /\ Queued(nodes).items \in Seq(Item)
           /\ \A x \in ToSet(Queued(nodes).items) :
                 x \in ToSet(front.items) \/ \E p \in nodes : x = Labelled(p, Brought[p])
           /\ \A x \in ToSet(front.items) : x = Popped \/ x \in ToSet(Queued(nodes).items)
           /\ \A p \in nodes : Labelled(p, Brought[p]) \in ToSet(Queued(nodes).items)
<1>. DEFINE n == Cardinality(nodes)
            order == InOrder(nodes)
            new == [i \in DOMAIN order |-> [node |-> order[i], w |-> Brought[order[i]]]]
            q == Tail(front.items) \o new
<1>1. n \in Nat /\ order \in [1..n -> nodes] /\ \A m \in nodes : \E i \in 1..n : order[i] = m
  BY InOrderFacts
<1>2. Queued(nodes) = [root |-> front.root, items |-> q]
  <2>. DEFINE old == front.items
  <2>1. Queued(nodes) = [front EXCEPT !.items = Tail(@) \o new]
    BY DEF Queued
  <2>2. Queued(nodes) = [front EXCEPT !.items = Tail(old) \o new]
    BY <2>1
  <2>. HIDE DEF new, old
  <2>. QED
    BY <2>2 DEF old
<1>. HIDE DEF n, order
<1>3. DOMAIN order = 1..n
  BY <1>1
<1>4. ASSUME NEW i \in 1..n
      PROVE  order[i] \in nodes /\ new[i] = Labelled(order[i], Brought[order[i]])
             /\ new[i] \in Item
  <2>1. order[i] \in nodes /\ order[i] \in Pod /\ Brought[order[i]] \in Nat
    BY <1>1
  <2>2. new[i] = [node |-> order[i], w |-> Brought[order[i]]]
    BY <1>3
  <2>. QED
    BY <2>1, <2>2 DEF Labelled, Item
<1>5. DOMAIN new = 1..n /\ new = [i \in 1..n |-> new[i]]
  BY <1>3
<1>. HIDE DEF new
<1>6. new \in Seq(Item) /\ ToSet(new) = {new[i] : i \in 1..n}
  <2>1. new \in [1..n -> Item]
    BY <1>4, <1>5
  <2>2. new \in Seq(Item)
    BY <1>1, <2>1, SeqDef
  <2>3. ToSet(new) = {new[i] : i \in DOMAIN new}
    BY DEF ToSet
  <2>. QED
    BY <1>5, <2>2, <2>3
<1>7. \A x \in ToSet(new) : \E p \in nodes : x = Labelled(p, Brought[p])
  BY <1>4, <1>6
<1>8. \A p \in nodes : Labelled(p, Brought[p]) \in ToSet(new)
  BY <1>1, <1>4, <1>6
<1>9. /\ q \in Seq(Item)
      /\ \A x \in ToSet(q) : x \in ToSet(front.items) \/ x \in ToSet(new)
      /\ \A x \in ToSet(front.items) : x = Popped \/ x \in ToSet(q)
      /\ \A x \in ToSet(new) : x \in ToSet(q)
  BY <1>6, TailConcat DEF Popped
<1>. HIDE DEF q
<1>. QED
  BY <1>2, <1>7, <1>8, <1>9

(* What the edges out of the node popped bring: with one edge per pair, the *)
(* edge that Brought chooses is the only one to its target.                 *)
LEMMA BroughtFacts ==
    ASSUME edges \subseteq GraphEdge, OnePerPair(edges), Popped \in Item
    PROVE  /\ Brought \in [Pod -> Nat]
           /\ \A e \in edges : e.src = Popped.node => Brought[e.dst] = Through(Popped.w, e)
           /\ \A p \in Pod : Brought[p] > 0 =>
                 \E e \in edges : /\ e.src = Popped.node /\ e.dst = p
                                  /\ Brought[p] = Through(Popped.w, e)
<1>. DEFINE a == Popped.node
            w == Popped.w
            Way(p) == CHOOSE e \in Out(a) : e.dst = p
<1>1. w \in Nat /\ a \in Pod
  BY DEF Item
<1>. HIDE DEF a, w
<1>2. ASSUME NEW p \in Pod, NEW e \in Out(a), e.dst = p
      PROVE  Way(p) = e
  <2>1. Way(p) \in Out(a) /\ Way(p).dst = p
    BY <1>2
  <2>2. e \in edges /\ Way(p) \in edges /\ Pair(Way(p)) = Pair(e)
    BY <1>2, <2>1 DEF Out, Pair
  <2>. QED
    BY <2>2 DEF OnePerPair
<1>3. ASSUME NEW p \in Pod
      PROVE  /\ Brought[p] \in Nat
             /\ \A e \in Out(a) : e.dst = p => Brought[p] = Through(w, e)
             /\ Brought[p] > 0 => \E e \in Out(a) : e.dst = p /\ Brought[p] = Through(w, e)
  <2>1. Brought[p] = IF \E e \in Out(a) : e.dst = p THEN Through(w, Way(p)) ELSE 0
    BY DEF Brought, a, w
  <2>2. CASE \E e \in Out(a) : e.dst = p
    <3>1. PICK e \in Out(a) : e.dst = p
      BY <2>2
    <3>2. e \in GraphEdge /\ Through(w, e) \in Nat
      <4>1. e \in GraphEdge
        BY <3>1 DEF Out
      <4>. QED
        BY <1>1, <4>1, ThroughFacts
    <3>3. Way(p) = e
      BY <1>2, <3>1
    <3>4. \A f \in Out(a) : f.dst = p => f = e
      BY <1>2, <3>3
    <3>5. Brought[p] = Through(w, e)
      BY <2>1, <2>2, <3>3
    <3>. QED
      BY <3>1, <3>2, <3>4, <3>5
  <2>3. CASE ~\E e \in Out(a) : e.dst = p
    BY <2>1, <2>3
  <2>. QED
    BY <2>2, <2>3
<1>4. Brought \in [Pod -> Nat]
  <2>1. Brought = [p \in Pod |-> Brought[p]]
    BY DEF Brought
  <2>. QED
    BY <1>3, <2>1
<1>5. \A e \in edges : e.dst \in Pod
  BY DEF GraphEdge
<1>. QED
  BY <1>3, <1>4, <1>5 DEF Out, a, w

(* What counts of it came along a walk one hop longer. *)
LEMMA BroughtReaches ==
    ASSUME edges \subseteq GraphEdge, OnePerPair(edges), NEW root,
           Popped \in Item, NEW k \in 0..MaxHops, Popped.w <= Hops(root)[k][Popped.node],
           NEW p \in Pod, Brought[p] >= Cut
    PROVE  \E j \in 1..MaxHops : Brought[p] <= Hops(root)[j][p]
<1>. DEFINE a == Popped.node
            w == Popped.w
            v == Hops(root)[k][a]
<1>0. Unit \in Nat
  BY InputAssumption
<1>1. w \in Nat /\ a \in Pod /\ v \in Nat /\ w <= v
  <2>1. w \in Nat /\ a \in Pod
    BY DEF Item
  <2>2. v \in 0..Unit
    BY <2>1, HopsFacts
  <2>. QED
    BY <1>0, <2>1, <2>2
<1>2. Brought[p] \in Nat /\ Brought[p] > 0
  BY BroughtFacts, CutFacts
<1>3. PICK e \in edges : e.src = a /\ e.dst = p /\ Brought[p] = Through(w, e)
  BY <1>2, BroughtFacts
<1>4. e \in GraphEdge
  BY <1>3
<1>. HIDE DEF v, w, a
<1>5. Through(w, e) <= Through(v, e) /\ Through(w, e) \in Nat /\ Through(v, e) \in Nat
  BY <1>1, <1>4, ThroughMonotone, ThroughFacts
<1>6. CASE k = MaxHops
  <2>1. Through(v, e) < Cut
    BY <1>3, <1>6, SixthHopIsCut DEF v, a
  <2>. QED
    BY <1>3, <1>5, <2>1, CutFacts
<1>7. CASE k # MaxHops
  <2>1. k + 1 \in 1..MaxHops /\ (k + 1) - 1 = k
    BY <1>7 DEF MaxHops
  <2>2. \A j \in 1..MaxHops : \A f \in edges :
            Through(Hops(root)[j - 1][f.src], f) <= Hops(root)[j][f.dst]
    BY HopsFacts
  <2>3. Through(Hops(root)[(k + 1) - 1][e.src], e) <= Hops(root)[k + 1][e.dst]
    BY <2>1, <2>2
  <2>4. Through(v, e) <= Hops(root)[k + 1][p]
    BY <1>3, <2>1, <2>3 DEF v
  <2>5. Hops(root)[k + 1][p] \in 0..Unit
    <3>1. k + 1 \in 0..MaxHops
      BY <2>1 DEF MaxHops
    <3>. QED
      BY <3>1, HopsFacts
  <2>6. Brought[p] <= Hops(root)[k + 1][p]
    BY <1>0, <1>3, <1>5, <2>4, <2>5
  <2>. QED
    BY <2>1, <2>6
<1>. QED
  BY <1>6, <1>7

(* A step of the search from the node popped, which updates what gains. *)
LEMMA SpreadKeeps ==
    ASSUME edges \subseteq GraphEdge, OnePerPair(edges), front.items # <<>>,
           front = [root |-> front.root, items |-> front.items],
           NEW known, Searching(front.root, known, front.items),
           NEW better, better = {p \in Pod : Brought[p] >= Cut /\ Brought[p] > known[p]}
    PROVE  Searching(front.root, Updated(known, better), Queued(better).items)
<1>. DEFINE root == front.root
            items == front.items
            now == Updated(known, better)
            next == Queued(better).items
<1>1. /\ root \in Pod /\ known \in [Pod -> Nat] /\ items \in Seq(Item)
      /\ better \subseteq Pod
  BY DEF Searching
<1>2. Popped \in Item /\ Popped.node \in Pod /\ Popped.w \in Nat
      /\ Popped = Labelled(Popped.node, Popped.w) /\ Popped \in ToSet(items)
  <2>1. Popped \in Item
    BY <1>1, HeadTailProperties DEF Popped
  <2>2. Popped = items[1] /\ 1 \in DOMAIN items
    BY <1>1, EmptySeq, LenProperties DEF Popped
  <2>. QED
    BY <2>1, <2>2 DEF Item, Labelled, ToSet
<1>3. /\ Brought \in [Pod -> Nat]
      /\ \A e \in edges : e.src = Popped.node => Brought[e.dst] = Through(Popped.w, e)
  BY <1>2, BroughtFacts
<1>4. /\ next \in Seq(Item)
      /\ \A x \in ToSet(next) : x \in ToSet(items) \/ \E p \in better : x = Labelled(p, Brought[p])
      /\ \A x \in ToSet(items) : x = Popped \/ x \in ToSet(next)
      /\ \A p \in better : Labelled(p, Brought[p]) \in ToSet(next)
  BY <1>1, <1>3, QueuedFacts
<1>5. /\ now \in [Pod -> Nat]
      /\ \A p \in better : now[p] = Brought[p] /\ Brought[p] >= Cut
      /\ \A p \in Pod \ better : now[p] = known[p]
      /\ \A p \in Pod : known[p] <= now[p]
      /\ \A p \in Pod : Brought[p] >= Cut => Brought[p] <= now[p]
  <2>1. \A p \in Pod : now[p] = IF p \in better THEN Brought[p] ELSE known[p]
    BY DEF Updated
  <2>2. \A p \in Pod : known[p] \in Nat /\ Brought[p] \in Nat
    BY <1>1, <1>3
  <2>3. now \in [Pod -> Nat]
    BY <2>2 DEF Updated
  <2>. HIDE DEF now
  <2>4. ASSUME NEW p \in Pod
        PROVE  known[p] <= now[p] /\ (Brought[p] >= Cut => Brought[p] <= now[p])
    <3>1. p \in better <=> Brought[p] >= Cut /\ Brought[p] > known[p]
      OBVIOUS
    <3>. QED
      BY <2>1, <2>2, <3>1
  <2>5. \A p \in better : now[p] = Brought[p] /\ Brought[p] >= Cut
    BY <2>1
  <2>6. \A p \in Pod \ better : now[p] = known[p]
    BY <2>1
  <2>. QED
    BY <2>3, <2>4, <2>5, <2>6
<1>6. ASSUME NEW p \in better PROVE \E j \in 1..MaxHops : Brought[p] <= Hops(root)[j][p]
  <2>1. PICK k \in 0..MaxHops : Popped.w <= Hops(root)[k][Popped.node]
    BY <1>2 DEF Searching, Reached
  <2>. QED
    BY <1>2, <1>5, <2>1, BroughtReaches
<1>. HIDE DEF now, next
<1>7. ASSUME NEW p \in Pod, now[p] > 0
      PROVE  now[p] >= Cut /\ \E j \in 1..MaxHops : now[p] <= Hops(root)[j][p]
  <2>1. CASE p \in better
    BY <1>5, <1>6, <2>1
  <2>2. CASE p \notin better
    BY <1>5, <1>7, <2>2 DEF Searching
  <2>. QED
    BY <2>1, <2>2
<1>8. Reached(root, next)
  <2>1. ASSUME NEW x \in ToSet(next) PROVE \E k \in 0..MaxHops : x.w <= Hops(root)[k][x.node]
    <3>1. CASE x \in ToSet(items)
      BY <3>1 DEF Searching, Reached
    <3>2. CASE \E p \in better : x = Labelled(p, Brought[p])
      <4>1. PICK p \in better : x = Labelled(p, Brought[p])
        BY <3>2
      <4>2. x.w = Brought[p] /\ x.node = p
        BY <4>1 DEF Labelled
      <4>3. PICK j \in 1..MaxHops : Brought[p] <= Hops(root)[j][p]
        BY <1>6
      <4>. QED
        BY <4>2, <4>3 DEF MaxHops
    <3>. QED
      BY <1>4, <3>1, <3>2
  <2>. QED
    BY <2>1 DEF Reached
<1>9. ASSUME NEW p \in Pod, NEW n \in Nat, Relaxed(known, p, n)
      PROVE  Relaxed(now, p, n)
  <2>1. ASSUME NEW e \in edges, e.src = p, ~(Through(n, e) < Cut)
        PROVE  Through(n, e) <= now[e.dst]
    <3>1. e \in GraphEdge /\ e.dst \in Pod
      BY DEF GraphEdge
    <3>2. Through(n, e) \in Nat
      BY <3>1, ThroughFacts
    <3>3. Through(n, e) <= known[e.dst]
      BY <1>9, <2>1 DEF Relaxed
    <3>4. known[e.dst] \in Nat /\ now[e.dst] \in Nat /\ known[e.dst] <= now[e.dst]
      BY <1>1, <1>5, <3>1
    <3>. QED
      BY <3>2, <3>3, <3>4
  <2>. QED
    BY <2>1 DEF Relaxed
<1>10. Relaxed(now, Popped.node, Popped.w)
  <2>1. ASSUME NEW e \in edges, e.src = Popped.node
        PROVE  Through(Popped.w, e) < Cut \/ Through(Popped.w, e) <= now[e.dst]
    <3>1. e.dst \in Pod
      BY DEF GraphEdge
    <3>2. Brought[e.dst] = Through(Popped.w, e) /\ Brought[e.dst] \in Nat
      BY <1>3, <2>1, <3>1
    <3>. QED
      BY <1>5, <3>1, <3>2, CutFacts
  <2>. QED
    BY <2>1 DEF Relaxed
<1>11. ASSUME NEW p \in Pod, NEW n \in Nat,
              Labelled(p, n) \in ToSet(items) \/ Relaxed(known, p, n)
       PROVE  Labelled(p, n) \in ToSet(next) \/ Relaxed(now, p, n)
  <2>1. CASE Labelled(p, n) = Popped
    <3>1. p = Popped.node /\ n = Popped.w
      BY <2>1 DEF Labelled
    <3>. QED
      BY <1>10, <3>1
  <2>2. CASE Labelled(p, n) # Popped
    BY <1>4, <1>9, <1>11, <2>2
  <2>. QED
    BY <2>1, <2>2
<1>12. ASSUME NEW p \in Pod, now[p] > 0
       PROVE  Labelled(p, now[p]) \in ToSet(next) \/ Relaxed(now, p, now[p])
  <2>1. CASE p \in better
    BY <1>4, <1>5, <2>1
  <2>2. CASE p \notin better
    <3>1. now[p] = known[p] /\ known[p] > 0 /\ known[p] \in Nat
      BY <1>1, <1>5, <1>12, <2>2
    <3>2. Labelled(p, known[p]) \in ToSet(items) \/ Relaxed(known, p, known[p])
      BY <3>1 DEF Searching
    <3>. QED
      BY <1>11, <3>1, <3>2
  <2>. QED
    BY <2>1, <2>2
<1>13. Labelled(root, Unit) \in ToSet(next) \/ Relaxed(now, root, Unit)
  <2>1. Unit \in Nat
    BY InputAssumption
  <2>. QED
    BY <1>1, <1>11, <2>1 DEF Searching
<1>14. Searching(root, now, next)
  BY <1>1, <1>4, <1>5, <1>7, <1>8, <1>12, <1>13 DEF Searching
<1>. QED
  BY <1>14 DEF now, next

(* When the queue is dry, what is known is the best walk: by the length of  *)
(* the walk, each node of a walk that counts has a label at least as good,  *)
(* which has been spread.                                                   *)
LEMMA DrySearch ==
    ASSUME edges \subseteq GraphEdge, NEW root, NEW known, Searching(root, known, <<>>)
    PROVE  known = Walk(root)
<1>. DEFINE Best(k) == \A p \in Pod : Hops(root)[k][p] >= Cut => Hops(root)[k][p] <= known[p]
<1>0. Unit \in Nat
  BY InputAssumption
<1>1. /\ known \in [Pod -> Nat] /\ root \in Pod
      /\ Relaxed(known, root, Unit)
      /\ \A p \in Pod : known[p] > 0 => Relaxed(known, p, known[p])
  <2>1. ToSet(<<>>) = {}
    BY DEF ToSet
  <2>. QED
    BY <2>1 DEF Searching
<1>2. \A k \in 0..MaxHops, p \in Pod : Hops(root)[k][p] \in Nat
  BY <1>0, HopsFacts
<1>3. ASSUME NEW k \in 1..MaxHops, NEW p \in Pod, Hops(root)[k][p] >= Cut
      PROVE  \E e \in edges : /\ e \in GraphEdge /\ e.src \in Pod /\ e.dst = p
                              /\ Hops(root)[k][p] = Through(Hops(root)[k - 1][e.src], e)
  <2>1. k \in 0..MaxHops
    BY DEF MaxHops
  <2>2. Hops(root)[k][p] > 0
    BY <1>2, <1>3, <2>1, CutFacts
  <2>3. PICK e \in edges : e.dst = p /\ Hops(root)[k][p] = Through(Hops(root)[k - 1][e.src], e)
    BY <2>2, HopsFacts
  <2>4. e \in GraphEdge /\ e.src \in Pod
    BY DEF GraphEdge
  <2>. QED
    BY <2>3, <2>4
<1>4. Best(1)
  <2>1. ASSUME NEW p \in Pod, Hops(root)[1][p] >= Cut PROVE Hops(root)[1][p] <= known[p]
    <3>1. PICK e \in edges : /\ e \in GraphEdge /\ e.src \in Pod /\ e.dst = p
                             /\ Hops(root)[1][p] = Through(Hops(root)[1 - 1][e.src], e)
      BY <1>3, <2>1 DEF MaxHops
    <3>2. Hops(root)[1 - 1] = FromRoot(root)
      BY HopsUnfold
    <3>3. e.src = root
      <4>1. CASE e.src # root
        <5>1. Hops(root)[1 - 1][e.src] = 0
          BY <3>1, <3>2, <4>1 DEF FromRoot
        <5>2. Through(0, e) = 0
          BY <3>1, ThroughFacts
        <5>. QED
          BY <2>1, <3>1, <5>1, <5>2, CutFacts
      <4>. QED
        BY <4>1
    <3>4. Hops(root)[1][p] = Through(Unit, e)
      BY <3>1, <3>2, <3>3 DEF FromRoot
    <3>5. Through(Unit, e) \in Nat
      BY <1>0, <3>1, ThroughFacts
    <3>. QED
      BY <1>1, <2>1, <3>1, <3>3, <3>4, <3>5, CutFacts DEF Relaxed
  <2>. QED
    BY <2>1
<1>5. ASSUME NEW k \in 2..MaxHops, Best(k - 1) PROVE Best(k)
  <2>1. ASSUME NEW p \in Pod, Hops(root)[k][p] >= Cut PROVE Hops(root)[k][p] <= known[p]
    <3>0. k \in 1..MaxHops /\ k - 1 \in 0..MaxHops
      BY DEF MaxHops
    <3>1. PICK e \in edges : /\ e \in GraphEdge /\ e.src \in Pod /\ e.dst = p
                             /\ Hops(root)[k][p] = Through(Hops(root)[k - 1][e.src], e)
      BY <1>3, <2>1, <3>0
    <3>. DEFINE v == Hops(root)[k - 1][e.src]
                c == known[e.src]
    <3>2. v \in Nat /\ c \in Nat
      BY <1>1, <1>2, <3>0, <3>1
    <3>3. v >= Cut => v <= c
      BY <1>5, <3>1
    <3>4. (c > 0 => Relaxed(known, e.src, c)) /\ known[p] \in Nat
      BY <1>1, <3>1
    <3>. HIDE DEF v, c
    <3>5. Through(v, e) \in Nat /\ Through(v, e) <= v
      BY <3>1, <3>2, ThroughFacts
    <3>6. Hops(root)[k][p] = Through(v, e)
      BY <3>1 DEF v
    <3>7. v >= Cut /\ c > 0
      BY <2>1, <3>2, <3>3, <3>5, <3>6, CutFacts
    <3>8. Through(v, e) <= Through(c, e) /\ Through(c, e) \in Nat
      BY <3>1, <3>2, <3>3, <3>7, ThroughMonotone, ThroughFacts
    <3>9. Through(c, e) < Cut \/ Through(c, e) <= known[p]
      BY <3>1, <3>4, <3>7 DEF Relaxed
    <3>. QED
      BY <2>1, <3>4, <3>5, <3>6, <3>8, <3>9, CutFacts
  <2>. QED
    BY <2>1
<1>6. Best(2)
  BY <1>4, <1>5 DEF MaxHops
<1>7. Best(3)
  BY <1>5, <1>6 DEF MaxHops
<1>8. Best(4)
  BY <1>5, <1>7 DEF MaxHops
<1>9. Best(5)
  BY <1>5, <1>8 DEF MaxHops
<1>10. ASSUME NEW k \in 1..MaxHops PROVE Best(k)
  <2>1. k = 1 \/ k = 2 \/ k = 3 \/ k = 4 \/ k = 5
    BY DEF MaxHops
  <2>. HIDE DEF Best
  <2>. QED
    BY <1>4, <1>6, <1>7, <1>8, <1>9, <2>1
<1>11. ASSUME NEW p \in Pod PROVE known[p] = Walk(root)[p]
  <2>. DEFINE n == Walk(root)[p]
  <2>1. /\ n \in Nat
        /\ \A k \in 1..MaxHops : Hops(root)[k][p] >= Cut => Hops(root)[k][p] <= n
        /\ n > 0 => n >= Cut /\ \E k \in 1..MaxHops : n = Hops(root)[k][p]
    BY WalkFacts
  <2>. HIDE DEF n
  <2>2. known[p] \in Nat
    BY <1>1
  <2>3. known[p] > 0 => known[p] >= Cut /\ \E k \in 1..MaxHops : known[p] <= Hops(root)[k][p]
    BY DEF Searching
  <2>4. n <= known[p]
    <3>1. CASE n > 0
      <4>1. PICK k \in 1..MaxHops : n = Hops(root)[k][p] /\ n >= Cut
        BY <2>1, <3>1
      <4>. QED
        BY <1>10, <4>1
    <3>. QED
      BY <2>1, <2>2, <3>1
  <2>5. known[p] <= n
    <3>1. CASE known[p] > 0
      <4>1. PICK k \in 1..MaxHops : known[p] <= Hops(root)[k][p] /\ known[p] >= Cut
        BY <2>3, <3>1
      <4>2. Hops(root)[k][p] \in Nat /\ k \in 0..MaxHops
        BY <1>2 DEF MaxHops
      <4>3. Hops(root)[k][p] <= n
        BY <2>1, <2>2, <4>1, <4>2, CutFacts
      <4>. QED
        BY <2>1, <2>2, <4>1, <4>2, <4>3
    <3>. QED
      BY <2>1, <2>2, <3>1
  <2>6. known[p] = n
    BY <2>1, <2>2, <2>4, <2>5
  <2>. QED
    BY <2>6 DEF n
<1>12. Walk(root) = [p \in Pod |-> Walk(root)[p]]
  BY DEF Walk
<1>. QED
  BY <1>1, <1>11, <1>12

(* Walks and searches depend on the edges only. *)
LEMMA WalkStable ==
    ASSUME edges' = edges, NEW root
    PROVE  Hops(root)' = Hops(root) /\ Walk(root)' = Walk(root)
<1>1. Hops(root)' = Hops(root)
  BY DEF Hops, Longer, Largest, Through
<1>. QED
  BY <1>1 DEF Walk, Largest, Cut

LEMMA SearchingStable ==
    ASSUME edges' = edges, NEW root, NEW known, NEW items
    PROVE  Searching(root, known, items)' <=> Searching(root, known, items)
<1>1. Hops(root)' = Hops(root)
  BY WalkStable
<1>2. Reached(root, items)' <=> Reached(root, items)
  BY <1>1 DEF Reached
<1>3. \A p, n : Relaxed(known, p, n)' <=> Relaxed(known, p, n)
  BY DEF Relaxed, Through, Cut
<1>. QED
  BY <1>1, <1>2, <1>3 DEF Searching, Cut

(* Nothing is known before the searches; the roots done have their walks,   *)
(* and the one under way is searched.                                       *)
ImpactInv ==
    /\ front = [root |-> front.root, items |-> front.items]
    /\ pc \notin {"impact", "blast"} => impact = [p \in Pod |-> Nothing] /\ front = NoSearch
    /\ pc \in {"impact", "blast"} => impact \in [Pod -> [Pod -> Nat]]
    /\ pc = "impact" =>
          /\ todo \subseteq Nodes
          /\ \A n \in todo : impact[n] = Nothing
          /\ \A n \in Nodes \ todo : n # front.root => impact[n] = Walk(n)
          /\ front.root \in Nodes \ todo =>
                Searching(front.root, impact[front.root], front.items)
          /\ front.items # <<>> => front.root \in Nodes \ todo
    /\ pc = "blast" => \A n \in Nodes : impact[n] = Walk(n)

LEMMA NodesArePods == ASSUME GraphInv PROVE Nodes \subseteq Pod
BY DEF GraphInv, GraphEdge, Nodes, Pair

(* Between two searches every root done has its walk. *)
LEMMA WalksDone ==
    ASSUME GraphInv, ImpactInv, pc = "impact", front.items = <<>>, NEW n \in Nodes \ todo
    PROVE  impact[n] = Walk(n)
<1>1. CASE n = front.root
  <2>1. Searching(n, impact[n], <<>>)
    BY <1>1 DEF ImpactInv
  <2>. QED
    BY <2>1, DrySearch DEF GraphInv
<1>. QED
  BY <1>1 DEF ImpactInv

LEMMA ImpactStart ==
    ASSUME GraphInv, ImpactInv, NEW n \in Pod, StartImpact(n)
    PROVE  ImpactInv'
<1>1. /\ pc = "impact" /\ pc' = "impact" /\ front.items = <<>> /\ n \in todo
      /\ todo' = todo \ {n} /\ front' = Search(n) /\ edges' = edges /\ impact' = impact
  BY DEF StartImpact
<1>2. /\ impact \in [Pod -> [Pod -> Nat]] /\ todo \subseteq Nodes
      /\ \A m \in todo : impact[m] = Nothing
  BY <1>1 DEF ImpactInv
<1>3. /\ front'.root = n /\ front'.items = <<Labelled(n, Unit)>>
      /\ front' = [root |-> front'.root, items |-> front'.items]
  BY <1>1 DEF Search, Labelled
<1>4. Nodes' = Nodes
  BY <1>1 DEF Nodes
<1>5. ASSUME NEW m \in Nodes \ todo' , m # n PROVE impact'[m] = Walk(m)'
  <2>1. m \in Nodes \ todo
    BY <1>1, <1>5
  <2>2. impact[m] = Walk(m)
    BY <1>1, <2>1, WalksDone
  <2>3. Walk(m)' = Walk(m)
    BY <1>1, WalkStable
  <2>. QED
    BY <1>1, <2>2, <2>3
<1>6. Searching(n, Nothing, <<Labelled(n, Unit)>>)
  <2>1. Unit \in Nat /\ Nothing \in [Pod -> Nat] /\ \A p \in Pod : Nothing[p] = 0
    BY InputAssumption DEF Nothing
  <2>2. /\ Labelled(n, Unit) \in Item /\ Labelled(n, Unit).w = Unit
        /\ Labelled(n, Unit).node = n
    BY <2>1 DEF Item, Labelled
  <2>. DEFINE q == <<Labelled(n, Unit)>>
  <2>3. q \in Seq(Item) /\ ToSet(q) = {Labelled(n, Unit)}
    <3>. DEFINE x == Labelled(n, Unit)
    <3>1. x \in Item
      BY <2>2
    <3>. HIDE DEF x
    <3>2. <<x>> \in Seq(Item)
      BY <3>1
    <3>3. ToSet(<<x>>) = {x}
      BY DEF ToSet
    <3>. QED
      BY <3>2, <3>3 DEF x
  <2>4. Reached(n, q)
    <3>1. Hops(n)[0] = FromRoot(n)
      BY HopsUnfold
    <3>2. Hops(n)[0][n] = Unit
      BY <3>1 DEF FromRoot
    <3>3. 0 \in 0..MaxHops
      BY DEF MaxHops
    <3>. HIDE DEF q
    <3>. QED
      BY <2>1, <2>2, <2>3, <3>2, <3>3 DEF Reached
  <2>. HIDE DEF q
  <2>5. Searching(n, Nothing, q)
    BY <2>1, <2>3, <2>4 DEF Searching
  <2>. QED
    BY <2>5 DEF q
<1>7. Searching(front.root, impact[front.root], front.items)'
  <2>1. PICK r, k, q : r = n /\ k = Nothing /\ q = <<Labelled(n, Unit)>>
    OBVIOUS
  <2>2. Searching(r, k, q)'
    BY <1>1, <1>6, <2>1, SearchingStable
  <2>3. front'.root = r /\ front'.items = q /\ impact'[front'.root] = k
    BY <1>1, <1>2, <1>3, <2>1
  <2>. QED
    BY <2>2, <2>3
<1>8. front'.root \in Nodes' \ todo'
  BY <1>1, <1>2, <1>3, <1>4
<1>9. /\ todo' \subseteq Nodes'
      /\ \A m \in todo' : impact'[m] = Nothing'
  BY <1>1, <1>2, <1>4 DEF Nothing
<1>. QED
  BY <1>1, <1>2, <1>3, <1>4, <1>5, <1>7, <1>8, <1>9 DEF ImpactInv

LEMMA ImpactSpread ==
    ASSUME GraphInv, ImpactInv, Spread
    PROVE  ImpactInv'
<1>. DEFINE root == front.root
            known == impact[root]
            better == {p \in Pod : Brought[p] >= Cut /\ Brought[p] > known[p]}
<1>1. /\ pc = "impact" /\ pc' = "impact" /\ front.items # <<>>
      /\ impact' = [impact EXCEPT ![root] = Updated(known, better)]
      /\ front' = Queued(better) /\ todo' = todo /\ edges' = edges
  BY DEF Spread
<1>2. /\ impact \in [Pod -> [Pod -> Nat]] /\ todo \subseteq Nodes
      /\ \A m \in todo : impact[m] = Nothing
      /\ \A n \in Nodes \ todo : n # root => impact[n] = Walk(n)
      /\ root \in Nodes \ todo /\ Searching(root, known, front.items)
      /\ front = [root |-> front.root, items |-> front.items]
  BY <1>1 DEF ImpactInv
<1>3. edges \subseteq GraphEdge /\ OnePerPair(edges)
  BY <1>1 DEF GraphInv
<1>4. Searching(root, Updated(known, better), Queued(better).items)
  BY <1>1, <1>2, <1>3, SpreadKeeps
<1>5. Queued(better) = [root |-> root, items |-> Queued(better).items]
  <2>1. Popped \in Item
    BY <1>1, <1>2, HeadTailProperties DEF Popped, Searching
  <2>2. Brought \in [Pod -> Nat]
    BY <1>3, <2>1, BroughtFacts
  <2>3. front.items \in Seq(Item) /\ better \subseteq Pod
    BY <1>2 DEF Searching
  <2>. HIDE DEF better
  <2>. QED
    BY <1>1, <1>2, <2>2, <2>3, QueuedFacts
<1>6. root \in Pod /\ Updated(known, better) \in [Pod -> Nat]
  BY <1>4 DEF Searching
<1>. HIDE DEF better, known
<1>7. PICK r, k, q : r = root /\ k = Updated(known, better) /\ q = Queued(better).items
  OBVIOUS
<1>8. front'.root = r /\ front'.items = q /\ front' = [root |-> front'.root, items |-> front'.items]
  BY <1>1, <1>5, <1>7
<1>9. /\ impact' \in [Pod -> [Pod -> Nat]]
      /\ impact'[r] = k /\ \A n \in Pod : n # r => impact'[n] = impact[n]
  BY <1>1, <1>2, <1>6, <1>7
<1>10. Searching(front.root, impact[front.root], front.items)'
  <2>1. Searching(r, k, q)'
    BY <1>1, <1>4, <1>7, SearchingStable
  <2>. QED
    BY <1>8, <1>9, <2>1
<1>11. Nodes' = Nodes /\ Nodes \subseteq Pod
  BY <1>1, NodesArePods DEF Nodes
<1>12. ASSUME NEW n \in Nodes \ todo, n # r PROVE impact'[n] = Walk(n)'
  <2>1. Walk(n)' = Walk(n)
    BY <1>1, WalkStable
  <2>. QED
    BY <1>2, <1>7, <1>9, <1>11, <1>12, <2>1
<1>13. ASSUME NEW n \in todo PROVE impact'[n] = Nothing'
  <2>1. n # r /\ n \in Pod
    BY <1>2, <1>7, <1>11
  <2>. QED
    BY <1>2, <1>9, <2>1 DEF Nothing
<1>. QED
  BY <1>1, <1>2, <1>7, <1>8, <1>9, <1>10, <1>11, <1>12, <1>13 DEF ImpactInv

(* Every pair keeps an edge: the one with the most evidence. *)
LEMMA ChooseKeepsPairs ==
    ASSUME GraphInv, Choose, NEW e \in edges
    PROVE  \E f \in edges' : Pair(f) = Pair(e)
<1>. DEFINE S == {f \in edges : Pair(f) = Pair(e)}
            lack == [f \in S |-> (100 - f.r) + IF f.write THEN 0 ELSE 100]
<1>1. edges' = {f \in edges : \A g \in edges : Pair(g) = Pair(f) => ~Preferred(g, f)}
  BY DEF Choose
<1>2. \A f \in S : f.r \in 50..100 /\ f.write \in BOOLEAN
  BY DEF GraphInv, GraphEdge, R_SRC
<1>3. \A f \in S : lack[f] = (100 - f.r) + IF f.write THEN 0 ELSE 100
  OBVIOUS
<1>4. \A f \in S : lack[f] \in Nat
  BY <1>2, <1>3
<1>5. S # {}
  OBVIOUS
<1>6. PICK f \in S : \A g \in S : lack[f] <= lack[g]
  <2>. HIDE DEF S, lack
  <2>. QED
    BY <1>4, <1>5, LeastAt
<1>7. ASSUME NEW g \in S, Preferred(g, f) PROVE FALSE
  <2>1. lack[f] <= lack[g] /\ f.r \in 50..100 /\ g.r \in 50..100
    BY <1>2, <1>6
  <2>. HIDE DEF lack, S
  <2>2. CASE g.write /\ ~f.write
    <3>1. lack[g] = 100 - g.r /\ lack[f] = (100 - f.r) + 100
      BY <1>3, <2>1, <2>2
    <3>. QED
      BY <2>1, <3>1
  <2>3. CASE g.write = f.write /\ g.r > f.r
    <3>1. \E x \in {0, 100} : lack[g] = (100 - g.r) + x /\ lack[f] = (100 - f.r) + x
      BY <1>3, <2>3
    <3>. QED
      BY <2>1, <2>3, <3>1
  <2>. QED
    BY <1>7, <2>2, <2>3 DEF Preferred
<1>8. f \in edges' /\ Pair(f) = Pair(e)
  BY <1>1, <1>6, <1>7
<1>. QED
  BY <1>8

(* When the roots are to be searched, all of them are still to come. *)
LEMMA ImpactBegins ==
    ASSUME GraphInv', front = NoSearch, front' = front,
           impact = [p \in Pod |-> Nothing], impact' = impact,
           pc' = "impact", todo' = Nodes'
    PROVE  ImpactInv'
<1>1. impact' \in [Pod -> [Pod -> Nat]]
  BY DEF Nothing
<1>2. front'.items = <<>> /\ front' = [root |-> front'.root, items |-> front'.items]
  BY DEF NoSearch
<1>3. todo' \subseteq Pod
  BY DEF GraphInv, GraphEdge, Nodes, Pair
<1>4. \A n \in todo' : impact'[n] = Nothing'
  BY <1>3 DEF Nothing
<1>. QED
  BY <1>1, <1>2, <1>4 DEF ImpactInv

LEMMA ImpactStep ==
    ASSUME GraphInv, GraphInv', ImpactInv, [PNext]_pvars
    PROVE  ImpactInv'
<1>1. CASE Detect \/ Centre
  BY <1>1 DEF Detect, Centre, ImpactInv, Nothing, NoSearch
<1>2. ASSUME NEW a \in Pod, NEW b \in Pod, Correlate(a, b) PROVE ImpactInv'
  BY <1>2 DEF Correlate, ImpactInv, Nothing, NoSearch
<1>3. CASE EndPairs
  <2>1. /\ pc = "pairs" /\ front' = front /\ impact' = impact /\ edges' = edges
        /\ pc' = "writers" \/ (pc' = "impact" /\ todo' = Nodes)
    BY <1>3 DEF EndPairs
  <2>2. front = NoSearch /\ impact = [p \in Pod |-> Nothing]
    BY <2>1 DEF ImpactInv
  <2>3. CASE pc' = "writers"
    BY <2>1, <2>2, <2>3 DEF ImpactInv, NoSearch, Nothing
  <2>4. CASE pc' = "impact" /\ todo' = Nodes
    <3>1. todo' = Nodes'
      BY <2>1, <2>4 DEF Nodes
    <3>. QED
      BY <2>1, <2>2, <2>4, <3>1, ImpactBegins
  <2>. QED
    BY <2>1, <2>3, <2>4
<1>4. ASSUME NEW p \in Pod, Attribute(p) PROVE ImpactInv'
  BY <1>4 DEF Attribute, ImpactInv, Nothing, NoSearch
<1>5. ASSUME NEW p \in Pod, StartImpact(p) PROVE ImpactInv'
  BY <1>5, ImpactStart
<1>6. CASE Choose
  <2>1. /\ pc = "writers" /\ pc' = "impact" /\ front' = front /\ impact' = impact
        /\ todo' = UNION {Pair(e) : e \in edges} /\ edges' \subseteq edges
    BY <1>6 DEF Choose
  <2>2. front = NoSearch /\ impact = [p \in Pod |-> Nothing]
    BY <2>1 DEF ImpactInv
  <2>3. todo' = Nodes'
    <3>1. \A e \in edges : \E f \in edges' : Pair(f) = Pair(e)
      BY <1>6, ChooseKeepsPairs
    <3>. QED
      BY <2>1, <3>1 DEF Nodes
  <2>. QED
    BY <2>1, <2>2, <2>3, ImpactBegins
<1>7. CASE Spread
  BY <1>7, ImpactSpread
<1>8. CASE Rank
  <2>1. /\ pc = "impact" /\ pc' = "blast" /\ front.items = <<>> /\ todo = {}
        /\ edges' = edges /\ impact' = impact
        /\ \E r : front' = NoSearch \/ front' = Search(r)
    BY <1>8 DEF Rank
  <2>2. \A n \in Nodes : impact[n] = Walk(n)
    BY <2>1, WalksDone
  <2>3. Nodes' = Nodes
    BY <2>1 DEF Nodes
  <2>4. \A n \in Nodes : Walk(n)' = Walk(n)
    BY <2>1, WalkStable
  <2>5. front' = [root |-> front'.root, items |-> front'.items]
    BY <2>1 DEF NoSearch, Search
  <2>6. impact' \in [Pod -> [Pod -> Nat]]
    BY <2>1 DEF ImpactInv
  <2>. QED
    BY <2>1, <2>2, <2>3, <2>4, <2>5, <2>6 DEF ImpactInv
<1>9. CASE Reach
  <2>1. /\ pc = "blast" /\ pc' = "blast" /\ edges' = edges /\ impact' = impact
        /\ \E nodes : front' = Queued(nodes)
    BY <1>9 DEF Reach
  <2>2. Nodes' = Nodes
    BY <2>1 DEF Nodes
  <2>3. \A n \in Nodes : Walk(n)' = Walk(n)
    BY <2>1, WalkStable
  <2>4. front' = [root |-> front'.root, items |-> front'.items]
    BY <2>1 DEF Queued, ImpactInv
  <2>. QED
    BY <2>1, <2>2, <2>3, <2>4 DEF ImpactInv
<1>10. CASE Return
  BY <1>10 DEF Return, ImpactInv, Nothing, NoSearch
<1>11. CASE UNCHANGED pvars
  <2>1. /\ pc' = pc /\ todo' = todo /\ edges' = edges /\ impact' = impact /\ front' = front
    BY <1>11 DEF pvars
  <2>2. Nodes' = Nodes
    BY <2>1 DEF Nodes
  <2>3. \A n \in Nodes : Walk(n)' = Walk(n)
    BY <2>1, WalkStable
  <2>4. ASSUME Searching(front.root, impact[front.root], front.items)
        PROVE  Searching(front.root, impact[front.root], front.items)'
    <3>1. PICK r, k, q : r = front.root /\ k = impact[front.root] /\ q = front.items
      OBVIOUS
    <3>2. Searching(r, k, q)'
      BY <2>1, <2>4, <3>1, SearchingStable
    <3>. QED
      BY <2>1, <3>1, <3>2
  <2>. QED
    BY <2>1, <2>2, <2>3, <2>4 DEF ImpactInv, Nothing, NoSearch
<1>. QED
  BY <1>1, <1>2, <1>3, <1>4, <1>5, <1>6, <1>7, <1>8, <1>9, <1>10, <1>11 DEF PNext

WInv == GInv /\ ImpactInv

LEMMA WalkHolds == PSpec => []WInv
<1>1. PInit => WInv
  BY DEF PInit, WInv, GInv, SourceInv, GraphInv, ImpactInv, NoSearch
<1>2. WInv /\ [PNext]_pvars => WInv'
  <2>. SUFFICES ASSUME WInv, [PNext]_pvars PROVE WInv'
    OBVIOUS
  <2>1. SourceInv' /\ GraphInv'
    BY SourceStep, GraphStep DEF WInv, GInv
  <2>. QED
    BY <2>1, ImpactStep DEF WInv, GInv
<1>. QED
  BY <1>1, <1>2, PTL DEF PSpec

(* When the queue of _forward_impact runs dry it leaves the best decayed    *)
(* walk to every node, over any graph the gate can accept, however its      *)
(* cycles run and however many nodes it has.                                *)
THEOREM ImpactIsBestWalkHolds == PSpec => []ImpactIsBestWalk
<1>1. WInv => ImpactIsBestWalk
  BY WalksDone DEF WInv, GInv, ImpactIsBestWalk
<1>. QED
  BY <1>1, WalkHolds, PTL

-----------------------------------------------------------------------------
(* Scores *)

(* The impacts that a node has on some symptoms, unit by unit. *)
Shares(n, symptoms) == {c \in symptoms \X Nat : c[2] < impact[n][c[1]]}

LEMMA SharesOfOne ==
    ASSUME NEW v \in Nat, NEW x
    PROVE  LET one == {c \in {x} \X Nat : c[2] < v}
           IN  IsFiniteSet(one) /\ Cardinality(one) = v
<1>. DEFINE one == {c \in {x} \X Nat : c[2] < v}
<1>1. one = {x} \X (0..(v - 1))
  <2>1. ASSUME NEW c \in one PROVE c \in {x} \X (0..(v - 1))
    <3>1. c[1] = x /\ c[2] \in Nat /\ c[2] < v /\ c = <<c[1], c[2]>>
      OBVIOUS
    <3>. QED
      BY <3>1
  <2>2. ASSUME NEW c \in {x} \X (0..(v - 1)) PROVE c \in one
    OBVIOUS
  <2>. QED
    BY <2>1, <2>2
<1>2. /\ IsFiniteSet({x}) /\ Cardinality({x}) = 1
      /\ IsFiniteSet(0..(v - 1)) /\ Cardinality(0..(v - 1)) = v
  <2>1. IsFiniteSet(0..(v - 1))
        /\ Cardinality(0..(v - 1)) = IF 0 > v - 1 THEN 0 ELSE (v - 1) - 0 + 1
    BY FS_Interval
  <2>2. (IF 0 > v - 1 THEN 0 ELSE (v - 1) - 0 + 1) = v
    OBVIOUS
  <2>. QED
    BY <2>1, <2>2, FS_Singleton
<1>3. IsFiniteSet(one) /\ Cardinality(one) = Cardinality({x}) * Cardinality(0..(v - 1))
  <2>. DEFINE S == {x}
              T == 0..(v - 1)
  <2>1. one = S \X T /\ IsFiniteSet(S) /\ IsFiniteSet(T)
    BY <1>1, <1>2
  <2>2. IsFiniteSet(S \X T) /\ Cardinality(S \X T) = Cardinality(S) * Cardinality(T)
    <3>. HIDE DEF S, T
    <3>. QED
      BY <2>1, FS_Product
  <2>. QED
    BY <2>1, <2>2
<1>. QED
  BY <1>2, <1>3

(* With one more symptom there are the units of that symptom more. *)
LEMMA SharesOfMore ==
    ASSUME NEW n, NEW S, NEW x \in S, impact[n][x] \in Nat,
           IsFiniteSet(Shares(n, S \ {x}))
    PROVE  /\ IsFiniteSet(Shares(n, S))
           /\ Cardinality(Shares(n, S)) = Cardinality(Shares(n, S \ {x})) + impact[n][x]
<1>. DEFINE v == impact[n][x]
            one == {c \in {x} \X Nat : c[2] < v}
            rest == Shares(n, S \ {x})
<1>1. Shares(n, S) = rest \cup one
  BY DEF Shares
<1>2. rest \cap one = {}
  BY DEF Shares
<1>3. IsFiniteSet(one) /\ Cardinality(one) = v
  BY SharesOfOne
<1>4. /\ IsFiniteSet(rest \cup one)
      /\ Cardinality(rest \cup one) =
            Cardinality(rest) + Cardinality(one) - Cardinality(rest \cap one)
  <2>. HIDE DEF one, rest
  <2>1. IsFiniteSet(rest)
    BY DEF rest
  <2>. QED
    BY <1>3, <2>1, FS_Union
<1>5. Cardinality(rest \cap one) = 0 /\ Cardinality(rest) \in Nat
  BY <1>2, FS_EmptySet, FS_CardinalityType
<1>. HIDE DEF rest, one
<1>6. Cardinality(rest \cup one) = Cardinality(rest) + v
  BY <1>3, <1>4, <1>5
<1>. QED
  BY <1>1, <1>4, <1>6 DEF rest

(* Counting the shares is finite: of the sets of symptoms for which it were *)
(* not, one with the fewest would still be one without a symptom.           *)
LEMMA SharesFinite ==
    ASSUME NEW n, NEW S, IsFiniteSet(S), \A p \in S : impact[n][p] \in Nat
    PROVE  IsFiniteSet(Shares(n, S))
<1>. DEFINE Bad == {T \in SUBSET S : ~IsFiniteSet(Shares(n, T))}
            Sizes == {Cardinality(T) : T \in Bad}
<1>1. \A T \in SUBSET S : IsFiniteSet(T) /\ Cardinality(T) \in Nat
  BY FS_Subset, FS_CardinalityType
<1>2. SUFFICES ASSUME Bad # {} PROVE FALSE
  OBVIOUS
<1>3. Sizes \subseteq Nat /\ Sizes # {}
  BY <1>1, <1>2
<1>4. PICK k \in Sizes : \A l \in Sizes : k <= l
  BY <1>3, Least
<1>5. PICK T \in Bad : Cardinality(T) = k
  BY <1>4
<1>6. CASE T = {}
  <2>1. Shares(n, T) = {}
    BY <1>6 DEF Shares
  <2>. QED
    BY <1>5, <2>1, FS_EmptySet
<1>7. CASE T # {}
  <2>1. PICK x \in T : TRUE
    BY <1>7
  <2>2. T \ {x} \in SUBSET S /\ Cardinality(T \ {x}) = k - 1 /\ k \in Nat
    BY <1>1, <1>5, <2>1, FS_RemoveElement
  <2>3. T \ {x} \notin Bad
    <3>1. T \ {x} \in Bad => k - 1 \in Sizes
      BY <2>2
    <3>. HIDE DEF Bad, Sizes
    <3>. QED
      BY <1>4, <2>2, <3>1
  <2>4. IsFiniteSet(Shares(n, T \ {x}))
    BY <2>2, <2>3
  <2>5. impact[n][x] \in Nat
    BY <1>5, <2>1
  <2>6. IsFiniteSet(Shares(n, T))
    BY <2>1, <2>4, <2>5, SharesOfMore
  <2>. QED
    BY <1>5, <2>6
<1>. QED
  BY <1>6, <1>7

(* What Explains adds up, symptom after symptom, is the number of shares.   *)
(* The recursive function that the fold chooses exists, for counting is     *)
(* one, and any other agrees with it.                                       *)
LEMMA ExplainsCounts ==
    ASSUME NEW n, NEW S, IsFiniteSet(S), \A p \in S : impact[n][p] \in Nat
    PROVE  Explains(n, S) = Cardinality(Shares(n, S))
<1>. DEFINE Some(s) == CHOOSE x \in s : TRUE
            Adds(W) == W = [s \in SUBSET S |-> IF s = {} THEN 0
                                ELSE W[s \ {Some(s)}] + impact[n][Some(s)]]
            Count == [s \in SUBSET S |-> Cardinality(Shares(n, s))]
            W == CHOOSE W : Adds(W)
<1>1. Explains(n, S) = W[S]
  BY DEF Explains, FoldSet, MapThenFoldSet
<1>2. \A s \in SUBSET S : /\ IsFiniteSet(s) /\ Cardinality(s) \in Nat
                          /\ IsFiniteSet(Shares(n, s))
  <2>1. ASSUME NEW s \in SUBSET S
        PROVE  IsFiniteSet(s) /\ Cardinality(s) \in Nat /\ IsFiniteSet(Shares(n, s))
    <3>1. IsFiniteSet(s) /\ \A p \in s : impact[n][p] \in Nat
      BY FS_Subset
    <3>. QED
      BY <3>1, SharesFinite, FS_CardinalityType
  <2>. QED
    BY <2>1
<1>3. \A s \in SUBSET S : s # {} => Some(s) \in s /\ s \ {Some(s)} \in SUBSET S
  OBVIOUS
<1>. HIDE DEF Some
<1>4. \A s \in SUBSET S : Cardinality(Shares(n, s)) =
          IF s = {} THEN 0 ELSE Cardinality(Shares(n, s \ {Some(s)})) + impact[n][Some(s)]
  <2>1. ASSUME NEW s \in SUBSET S, s = {} PROVE Cardinality(Shares(n, s)) = 0
    <3>1. Shares(n, s) = {}
      BY <2>1 DEF Shares
    <3>. QED
      BY <3>1, FS_EmptySet
  <2>2. ASSUME NEW s \in SUBSET S, s # {}
        PROVE  Cardinality(Shares(n, s)) =
                   Cardinality(Shares(n, s \ {Some(s)})) + impact[n][Some(s)]
    <3>1. Some(s) \in s /\ s \ {Some(s)} \in SUBSET S /\ impact[n][Some(s)] \in Nat
      BY <1>3, <2>2
    <3>2. IsFiniteSet(Shares(n, s \ {Some(s)}))
      BY <1>2, <3>1
    <3>. QED
      BY <3>1, <3>2, SharesOfMore
  <2>. QED
    BY <2>1, <2>2
<1>5. Adds(Count)
  <2>1. \A s \in SUBSET S : Count[s] =
            IF s = {} THEN 0 ELSE Count[s \ {Some(s)}] + impact[n][Some(s)]
    BY <1>3, <1>4
  <2>2. Count = [s \in SUBSET S |-> Count[s]]
    OBVIOUS
  <2>. HIDE DEF Count
  <2>. QED
    BY <2>1, <2>2
<1>6. Adds(W)
  <2>. HIDE DEF Adds, Count
  <2>. QED
    BY <1>5
<1>. HIDE DEF W
<1>7. \A s \in SUBSET S : W[s] =
          IF s = {} THEN 0 ELSE W[s \ {Some(s)}] + impact[n][Some(s)]
  BY <1>6
<1>. DEFINE Bad == {s \in SUBSET S : W[s] # Cardinality(Shares(n, s))}
            Sizes == {Cardinality(s) : s \in Bad}
<1>8. Bad = {}
  <2>1. SUFFICES ASSUME Bad # {} PROVE FALSE
    OBVIOUS
  <2>2. Sizes \subseteq Nat /\ Sizes # {}
    BY <1>2, <2>1
  <2>3. PICK k \in Sizes : \A l \in Sizes : k <= l
    BY <2>2, Least
  <2>4. PICK s \in Bad : Cardinality(s) = k
    BY <2>3
  <2>5. s # {}
    BY <1>4, <1>7, <2>4
  <2>. DEFINE t == s \ {Some(s)}
  <2>6. t \in SUBSET S /\ Cardinality(t) = k - 1 /\ k \in Nat
    BY <1>2, <1>3, <2>4, <2>5, FS_RemoveElement
  <2>7. t \notin Bad
    <3>1. t \in Bad => k - 1 \in Sizes
      BY <2>6
    <3>. HIDE DEF Bad, Sizes
    <3>. QED
      BY <2>3, <2>6, <3>1
  <2>8. W[t] = Cardinality(Shares(n, t))
    BY <2>6, <2>7
  <2>. QED
    BY <1>4, <1>7, <2>4, <2>5, <2>8
<1>9. W[S] = Cardinality(Shares(n, S))
  BY <1>8
<1>. QED
  BY <1>1, <1>9

(* So a score counts each symptom for at least what it is, and nothing else. *)
LEMMA ExplainsFacts ==
    ASSUME NEW n, NEW S, IsFiniteSet(S), \A p \in S : impact[n][p] \in Nat
    PROVE  /\ Explains(n, S) \in Nat
           /\ \A p \in S : impact[n][p] <= Explains(n, S)
           /\ Explains(n, S) > 0 => \E p \in S : impact[n][p] > 0
<1>1. Explains(n, S) = Cardinality(Shares(n, S)) /\ IsFiniteSet(Shares(n, S))
  BY ExplainsCounts, SharesFinite
<1>2. Explains(n, S) \in Nat
  BY <1>1, FS_CardinalityType
<1>3. ASSUME NEW p \in S PROVE impact[n][p] <= Explains(n, S)
  <2>1. IsFiniteSet(S \ {p}) /\ \A q \in S \ {p} : impact[n][q] \in Nat
    BY FS_RemoveElement
  <2>2. IsFiniteSet(Shares(n, S \ {p})) /\ Cardinality(Shares(n, S \ {p})) \in Nat
    BY <2>1, SharesFinite, FS_CardinalityType
  <2>3. Cardinality(Shares(n, S)) = Cardinality(Shares(n, S \ {p})) + impact[n][p]
    BY <2>2, SharesOfMore
  <2>. QED
    BY <1>1, <2>2, <2>3
<1>4. ASSUME Explains(n, S) > 0 PROVE \E p \in S : impact[n][p] > 0
  <2>1. Shares(n, S) # {}
    BY <1>1, <1>4, FS_EmptySet
  <2>2. PICK c \in S \X Nat : c[2] < impact[n][c[1]]
    BY <2>1 DEF Shares
  <2>3. c[1] \in S /\ c[2] \in Nat /\ impact[n][c[1]] \in Nat
    BY <2>2
  <2>. QED
    BY <2>2, <2>3
<1>. QED
  BY <1>2, <1>3, <1>4

-----------------------------------------------------------------------------
(* The first root cause and its victims *)

(* An onset nearest to a centre exists, and a centre. *)
LEMMA NearestIsTime ==
    ASSUME NEW S, S \subseteq Onsets, S # {}, NEW centre \in Nat
    PROVE  Nearest(S, centre) \in Nat
<1>. DEFINE far == [a \in S |-> Abs(a.at - centre)]
<1>1. \A a \in S : a.at \in Nat /\ far[a] = Abs(a.at - centre) /\ far[a] \in Nat
  <2>1. \A a \in S : a.at \in Nat
    BY InputAssumption DEF Onsets
  <2>2. \A a \in S : Abs(a.at - centre) \in Nat
    BY <2>1 DEF Abs
  <2>. QED
    BY <2>1, <2>2
<1>. HIDE DEF far
<1>2. PICK x \in S : \A y \in S : far[x] <= far[y]
  BY <1>1, LeastAt
<1>. DEFINE T == {a \in S : far[a] = far[x]}
            when == [a \in T |-> a.at]
<1>3. T # {} /\ \A a \in T : when[a] = a.at /\ when[a] \in Nat
  BY <1>1
<1>4. PICK a \in T : \A b \in T : when[a] <= when[b]
  <2>. HIDE DEF T, when
  <2>. QED
    BY <1>3, LeastAt
<1>5. \A b \in S : ~Nearer(b, a, centre)
  <2>1. ASSUME NEW b \in S, far[b] < far[a] PROVE FALSE
    <3>1. far[a] <= far[b] /\ far[a] \in Nat /\ far[b] \in Nat
      BY <1>1, <1>2
    <3>. QED
      BY <2>1, <3>1
  <2>2. ASSUME NEW b \in S, far[b] = far[a], b.at < a.at PROVE FALSE
    <3>1. b \in T
      BY <2>2
    <3>2. a.at <= b.at /\ a.at \in Nat /\ b.at \in Nat
      BY <1>1, <1>3, <1>4, <3>1
    <3>. QED
      BY <2>2, <3>2
  <2>3. a \in S
    OBVIOUS
  <2>. HIDE DEF T
  <2>. QED
    BY <1>1, <2>1, <2>2, <2>3 DEF Nearer
<1>6. (CHOOSE c \in S : \A b \in S : ~Nearer(b, c, centre)) \in S
  BY <1>5
<1>. QED
  BY <1>1, <1>6 DEF Nearest

LEMMA PeaksFinite ==
    ASSUME NEW r, \A p \in Pod : r[p] \in OnsetLists
    PROVE  IsFiniteSet(Peaks(r))
<1>. DEFINE lists == {r[p] : p \in Pod}
            f == [p \in Pod |-> r[p]]
<1>1. f \in Surjection(Pod, lists)
  BY DEF Surjection
<1>2. IsFiniteSet(lists)
  BY <1>1, InputAssumption, FS_Surjection
<1>3. \A S \in lists : IsFiniteSet(S)
  BY DEF OnsetLists
<1>4. IsFiniteSet(UNION lists)
  BY <1>2, <1>3, FS_UNION
<1>5. IsFiniteSet(Pod \X UNION lists)
  BY <1>4, InputAssumption, FS_Product
<1>6. Peaks(r) \in SUBSET (Pod \X UNION lists)
  <2>1. CentrePods(r) \subseteq Pod
    BY DEF CentrePods, Anomalous
  <2>2. \A c \in Peaks(r) : c[1] \in Pod /\ c[2] \in r[c[1]] /\ c = <<c[1], c[2]>>
    BY <2>1 DEF Peaks
  <2>3. \A c \in Peaks(r) : c \in Pod \X UNION lists
    BY <2>2
  <2>. HIDE DEF lists
  <2>. QED
    BY <2>3
<1>. QED
  BY <1>5, <1>6, FS_Subset

(* A strongest of finitely many peaks exists; on a tie the first. *)
LEMMA StrongestIsTime ==
    ASSUME NEW S, S \subseteq Pod \X Onsets, S # {}, IsFiniteSet(S)
    PROVE  StrongestOf(S) \in Nat
<1>1. \A c \in S : /\ c[1] \in Nat /\ c[2].z \in Nat /\ c[2].at \in Nat
  <2>1. \A c \in S : c[1] \in Pod /\ c[2] \in Onsets
    OBVIOUS
  <2>2. \A o \in Onsets : o.z \in Nat /\ o.at \in Nat
    BY InputAssumption DEF Onsets
  <2>. QED
    BY <2>1, <2>2, InputAssumption
<1>. DEFINE z == [c \in S |-> c[2].z]
<1>2. \A c \in S : z[c] = c[2].z /\ z[c] \in Nat
  BY <1>1
<1>. HIDE DEF z
<1>3. PICK x \in S : \A y \in S : z[y] <= z[x]
  BY <1>2, GreatestAt
<1>. DEFINE T == {c \in S : z[c] = z[x]}
            pod == [c \in T |-> c[1]]
<1>4. T # {} /\ \A c \in T : pod[c] = c[1] /\ pod[c] \in Nat
  BY <1>1
<1>5. PICK y \in T : \A c \in T : pod[y] <= pod[c]
  <2>. HIDE DEF T, pod
  <2>. QED
    BY <1>4, LeastAt
<1>. DEFINE U == {c \in T : c[1] = y[1]}
            when == [c \in U |-> c[2].at]
<1>6. U # {} /\ \A c \in U : when[c] = c[2].at /\ when[c] \in Nat
  BY <1>1
<1>7. PICK c \in U : \A d \in U : when[c] <= when[d]
  <2>. HIDE DEF U, when
  <2>. QED
    BY <1>6, LeastAt
<1>8. ASSUME NEW d \in S, Stronger(d, c) PROVE FALSE
  <2>1. /\ c[1] \in Nat /\ c[2].z \in Nat /\ c[2].at \in Nat
        /\ d[1] \in Nat /\ d[2].z \in Nat /\ d[2].at \in Nat
    BY <1>1
  <2>2. c[2].z = z[x] /\ d[2].z <= c[2].z
    BY <1>2, <1>3
  <2>3. d[2].z = c[2].z => d \in T /\ c[1] <= d[1]
    BY <1>2, <1>4, <1>5, <2>2
  <2>4. d[2].z = c[2].z /\ d[1] = c[1] => d \in U
    BY <2>3
  <2>5. d \in U => c[2].at <= d[2].at
    BY <1>6, <1>7
  <2>. HIDE DEF T, U
  <2>. QED
    BY <1>8, <2>1, <2>2, <2>3, <2>4, <2>5 DEF Stronger
<1>9. \E e \in S : \A d \in S : ~Stronger(d, e)
  BY <1>8
<1>. DEFINE e == CHOOSE e \in S : \A d \in S : ~Stronger(d, e)
<1>10. e \in S
  BY <1>9
<1>. HIDE DEF e
<1>11. e[2].at \in Nat
  BY <1>1, <1>10
<1>. QED
  BY <1>11 DEF StrongestOf, e

OnsetInv ==
    /\ \A p \in Pod : raw[p] \in OnsetLists
    /\ raw \in [Pod -> SUBSET Onsets]
    /\ \A p \in Pod : onset[p] \in Nat \cup {None}

LEMMA EventOnsetsAreTimes ==
    ASSUME NEW r, \A q \in Pod : r[q] \in OnsetLists, NEW p \in Pod
    PROVE  EventOnsets(r)[p] \in Nat \cup {None}
<1>1. CASE r[p] = {}
  BY <1>1 DEF EventOnsets
<1>2. CASE r[p] # {}
  <2>1. Peaks(r) # {}
    <3>1. p \in Anomalous(r)
      BY <1>2 DEF Anomalous
    <3>2. CentrePods(r) # {} /\ CentrePods(r) \subseteq Anomalous(r)
      BY <3>1 DEF CentrePods
    <3>3. PICK q \in CentrePods(r) : q \in Pod /\ r[q] # {} /\ r[q] \subseteq Onsets
      BY <3>2 DEF Anomalous, OnsetLists
    <3>4. PICK o \in r[q] : o \in Onsets
      BY <3>3
    <3>5. <<q, o>> \in Peaks(r)
      BY <3>3, <3>4 DEF Peaks
    <3>. QED
      BY <3>5
  <2>2. Peaks(r) \subseteq Pod \X Onsets
    BY DEF Peaks, CentrePods, Anomalous
  <2>3. StrongestOf(Peaks(r)) \in Nat
    BY <2>1, <2>2, PeaksFinite, StrongestIsTime
  <2>4. r[p] \subseteq Onsets
    BY DEF OnsetLists
  <2>. QED
    BY <1>2, <2>3, <2>4, NearestIsTime DEF EventOnsets
<1>. QED
  BY <1>1, <1>2

LEMMA OnsetStep == OnsetInv /\ [PNext]_pvars => OnsetInv'
<1>. SUFFICES ASSUME OnsetInv, [PNext]_pvars PROVE OnsetInv'
  OBVIOUS
<1>1. CASE Detect
  BY <1>1 DEF Detect, OnsetInv, OnsetLists
<1>2. CASE Centre
  <2>1. raw' = raw /\ onset' = EventOnsets(raw)
    BY <1>2 DEF Centre
  <2>. QED
    BY <2>1, EventOnsetsAreTimes DEF OnsetInv
<1>3. ASSUME NEW a \in Pod, NEW b \in Pod, Correlate(a, b) PROVE OnsetInv'
  <2>1. {} \in OnsetLists
    BY FS_EmptySet DEF OnsetLists
  <2>. QED
    BY <1>3, <2>1 DEF Correlate, OnsetInv
<1>4. CASE EndPairs \/ Choose \/ Rank
  BY <1>4 DEF EndPairs, Choose, Rank, OnsetInv
<1>5. ASSUME NEW p \in Pod, Attribute(p) \/ StartImpact(p) PROVE OnsetInv'
  BY <1>5 DEF Attribute, StartImpact, OnsetInv
<1>6. CASE Spread \/ Reach
  BY <1>6 DEF Spread, Reach, OnsetInv
<1>7. CASE Return
  BY <1>7 DEF Return, OnsetInv
<1>8. CASE UNCHANGED pvars
  BY <1>8 DEF pvars, OnsetInv
<1>. QED
  BY <1>1, <1>2, <1>3, <1>4, <1>5, <1>6, <1>7, <1>8 DEF PNext

(* A node with an edge has an impact at its end, and one with any impact    *)
(* has an edge.                                                             *)
LEMMA WalkFirst ==
    ASSUME edges \subseteq GraphEdge, NEW e \in edges
    PROVE  Walk(e.src)[e.dst] >= Cut
<1>1. e \in GraphEdge /\ e.src \in Pod /\ e.dst \in Pod /\ Unit \in Nat
  BY InputAssumption DEF GraphEdge
<1>2. Hops(e.src)[1 - 1][e.src] = Unit
  <2>1. Hops(e.src)[1 - 1] = FromRoot(e.src)
    BY HopsUnfold
  <2>. QED
    BY <1>1, <2>1 DEF FromRoot
<1>3. 1 \in 1..MaxHops /\ 1 \in 0..MaxHops
  BY DEF MaxHops
<1>. DEFINE root == e.src
            n == Hops(root)[1][e.dst]
<1>4. n \in 0..Unit
  BY <1>1, <1>3, HopsFacts
<1>5. Through(Hops(root)[1 - 1][e.src], e) <= n
  BY <1>3, HopsFacts
<1>6. Through(Unit, e) <= n /\ Through(Unit, e) \in Nat /\ Through(Unit, e) >= Cut
  BY <1>1, <1>2, <1>5, FirstStepCounts, ThroughFacts
<1>7. n >= Cut => n <= Walk(root)[e.dst]
  BY <1>1, <1>3, WalkFacts
<1>8. Walk(root)[e.dst] \in Nat
  BY <1>1, WalkFacts
<1>. HIDE DEF n, root
<1>9. Walk(root)[e.dst] >= Cut
  BY <1>1, <1>4, <1>6, <1>7, <1>8, CutFacts
<1>. QED
  BY <1>9 DEF root

LEMMA WalkNeedsEdge ==
    ASSUME edges \subseteq GraphEdge, NEW root, NEW p \in Pod, Walk(root)[p] > 0
    PROVE  Out(root) # {}
<1>1. SUFFICES ASSUME Out(root) = {} PROVE FALSE
  OBVIOUS
<1>. DEFINE Dead(k) == \A q \in Pod : Hops(root)[k][q] = 0
<1>2. \A k \in 1..5, q \in Pod : Hops(root)[k][q] > 0 =>
          \E e \in edges : e.dst = q /\ Hops(root)[k][q] = Through(Hops(root)[k - 1][e.src], e)
  BY HopsFacts DEF MaxHops
<1>3. ASSUME NEW k \in 1..5, NEW q \in Pod,
             \A e \in edges : Hops(root)[k - 1][e.src] = 0
      PROVE  Hops(root)[k][q] = 0
  <2>1. Hops(root)[k][q] \in 0..Unit /\ Unit \in Nat
    BY HopsFacts, InputAssumption DEF MaxHops
  <2>2. \A e \in edges : Through(0, e) = 0
    BY ThroughFacts
  <2>. QED
    BY <1>2, <1>3, <2>1, <2>2
<1>4. Dead(1)
  <2>1. \A e \in edges : Hops(root)[1 - 1][e.src] = 0
    <3>1. ASSUME NEW e \in edges PROVE Hops(root)[1 - 1][e.src] = 0
      <4>1. e.src \in Pod /\ e.src # root
        BY <1>1 DEF GraphEdge, Out
      <4>2. Hops(root)[1 - 1] = FromRoot(root)
        BY HopsUnfold
      <4>. QED
        BY <4>1, <4>2 DEF FromRoot
    <3>. QED
      BY <3>1
  <2>. QED
    BY <1>3, <2>1
<1>5. ASSUME NEW k \in 2..5, Dead(k - 1) PROVE Dead(k)
  <2>1. \A e \in edges : e.src \in Pod
    BY DEF GraphEdge
  <2>. QED
    BY <1>3, <1>5, <2>1
<1>6. Dead(2)
  BY <1>4, <1>5
<1>7. Dead(3)
  BY <1>5, <1>6
<1>8. Dead(4)
  BY <1>5, <1>7
<1>9. Dead(5)
  BY <1>5, <1>8
<1>10. PICK k \in 1..5 : Walk(root)[p] = Hops(root)[k][p]
  BY WalkFacts DEF MaxHops
<1>11. k = 1 \/ k = 2 \/ k = 3 \/ k = 4 \/ k = 5
  OBVIOUS
<1>12. Hops(root)[k][p] = 0
  BY <1>4, <1>6, <1>7, <1>8, <1>9, <1>11
<1>. QED
  BY <1>10, <1>12

(* With an edge, some node scores, the best of them exists, and it has      *)
(* victims.                                                                 *)
LEMMA ScoreFacts ==
    ASSUME edges \subseteq GraphEdge, impact \in [Pod -> [Pod -> Nat]],
           \A n \in Nodes : impact[n] = Walk(n),
           NEW s, s \subseteq Nodes, NEW n \in Nodes
    PROVE  /\ Score(n, s) \in Nat
           /\ Score(n, s) > 0 => Out(n) # {}
           /\ n \in s /\ n \in Sources => Score(n, s) > 0
           /\ \A p \in s : impact[n][p] >= Cut => Score(n, s) > 0
<1>1. Nodes \subseteq Pod
  BY DEF GraphEdge, Nodes, Pair
<1>2. n \in Pod /\ IsFiniteSet(s) /\ \A p \in s : p \in Pod /\ impact[n][p] \in Nat
  <2>1. n \in Pod /\ s \in SUBSET Pod
    BY <1>1
  <2>2. IsFiniteSet(s)
    BY <2>1, InputAssumption, FS_Subset
  <2>3. \A p \in s : p \in Pod /\ impact[n][p] \in Nat
    BY <2>1
  <2>. QED
    BY <2>1, <2>2, <2>3
<1>3. /\ Explains(n, s) \in Nat
      /\ \A p \in s : impact[n][p] <= Explains(n, s)
      /\ Explains(n, s) > 0 => \E p \in s : impact[n][p] > 0
  BY <1>2, ExplainsFacts
<1>. DEFINE x == Explains(n, s)
<1>4. Unit \in Nat /\ Unit > 0
  BY InputAssumption
<1>5. Score(n, s) = IF n \in Sources THEN x + (IF n \in s THEN Unit ELSE 0) ELSE x \div 2
  BY DEF Score
<1>6. Score(n, s) \in Nat
  <2>. HIDE DEF x
  <2>1. x \in Nat
    BY <1>3 DEF x
  <2>. QED
    BY <1>4, <1>5, <2>1
<1>7. x > 0 => Out(n) # {}
  <2>1. ASSUME x > 0 PROVE Out(n) # {}
    <3>1. PICK p \in s : impact[n][p] > 0
      BY <1>3, <2>1
    <3>2. Walk(n)[p] > 0 /\ p \in Pod
      BY <1>2, <3>1
    <3>. QED
      BY <3>2, WalkNeedsEdge
  <2>. QED
    BY <2>1
<1>8. n \in Sources => Out(n) # {}
  <2>1. ASSUME n \in Sources PROVE Out(n) # {}
    <3>1. PICK e \in edges : n \in Pair(e)
      BY DEF Nodes
    <3>2. n # e.dst
      BY <2>1 DEF Sources
    <3>3. e \in Out(n)
      BY <3>1, <3>2 DEF Pair, Out
    <3>. QED
      BY <3>3
  <2>. QED
    BY <2>1
<1>9. ASSUME NEW p \in s, impact[n][p] >= Cut PROVE Score(n, s) > 0
  <2>1. x >= 3 /\ x \in Nat
    BY <1>2, <1>3, <1>9, CutFacts
  <2>. HIDE DEF x
  <2>. QED
    BY <1>4, <1>5, <2>1
<1>10. x \in Nat
  BY <1>3
<1>. HIDE DEF x
<1>11. Score(n, s) > 0 => x > 0 \/ n \in Sources
  BY <1>5, <1>10
<1>12. n \in s /\ n \in Sources => Score(n, s) > 0
  BY <1>4, <1>5, <1>10
<1>. QED
  BY <1>6, <1>7, <1>8, <1>9, <1>11, <1>12

LEMMA SomeoneRanks ==
    ASSUME edges \subseteq GraphEdge, impact \in [Pod -> [Pod -> Nat]],
           \A n \in Nodes : impact[n] = Walk(n),
           NEW s, s \subseteq Nodes, s # {}
    PROVE  Ranked(s) # {}
<1>1. PICK p \in s : p \in Nodes
  OBVIOUS
<1>2. CASE p \in Sources
  <2>1. Score(p, s) > 0
    BY <1>1, <1>2, ScoreFacts
  <2>. QED
    BY <1>1, <2>1 DEF Ranked
<1>3. CASE p \notin Sources
  <2>1. PICK e \in edges : e.dst = p
    BY <1>1, <1>3 DEF Sources
  <2>2. e.src \in Nodes /\ impact[e.src] = Walk(e.src)
    BY DEF Nodes, Pair
  <2>3. impact[e.src][p] >= Cut
    BY <2>1, <2>2, WalkFirst
  <2>4. Score(e.src, s) > 0
    BY <2>2, <2>3, ScoreFacts
  <2>. QED
    BY <2>2, <2>4 DEF Ranked
<1>. QED
  BY <1>2, <1>3

(* The order of the ranking has a first: of the highest scores, the one     *)
(* with the earliest onset.                                                 *)
LEMMA FirstExists ==
    ASSUME NEW S, S \subseteq Pod, S # {}, NEW s, \A n \in S : Score(n, s) \in Nat,
           \A p \in Pod : onset[p] \in Nat \cup {None}
    PROVE  \E n \in S : \A m \in S :
               ~( \/ Score(m, s) > Score(n, s)
                  \/ Score(m, s) = Score(n, s) /\ Earlier(m, n) )
<1>. DEFINE score == [n \in S |-> Score(n, s)]
<1>1. IsFiniteSet(S) /\ \A n \in S : score[n] = Score(n, s) /\ score[n] \in Nat
  BY InputAssumption, FS_Subset
<1>. HIDE DEF score
<1>2. PICK x \in S : \A y \in S : score[y] <= score[x]
  BY <1>1, GreatestAt
<1>. DEFINE T == {n \in S : score[n] = score[x]}
            U == {n \in T : onset[n] # None}
<1>3. CASE U = {}
  <2>1. ASSUME NEW m \in S, score[m] = score[x] PROVE ~Earlier(m, x)
    BY <1>3, <2>1 DEF Earlier
  <2>2. ASSUME NEW m \in S PROVE ~(score[m] > score[x])
    BY <1>1, <1>2
  <2>. QED
    BY <1>1, <2>1, <2>2
<1>4. CASE U # {}
  <2>1. \A n \in U : onset[n] \in Nat
    OBVIOUS
  <2>2. PICK n \in U : \A m \in U : onset[n] <= onset[m]
    <3>. HIDE DEF U
    <3>. QED
      BY <1>4, <2>1, LeastAt
  <2>3. n \in S /\ score[n] = score[x] /\ onset[n] # None /\ onset[n] \in Nat
    OBVIOUS
  <2>4. ASSUME NEW m \in S, score[m] = score[n] PROVE ~Earlier(m, n)
    <3>1. onset[m] # None => onset[m] \in Nat /\ onset[n] <= onset[m]
      BY <2>1, <2>2, <2>3, <2>4
    <3>. QED
      BY <2>3, <3>1 DEF Earlier
  <2>5. ASSUME NEW m \in S PROVE ~(score[m] > score[n])
    BY <1>1, <1>2, <2>3
  <2>. QED
    BY <1>1, <2>3, <2>4, <2>5
<1>. QED
  BY <1>3, <1>4

(* While victims are searched: the root has edges, nobody but it is left    *)
(* out, what is named is named with what a walk brings, and once the root   *)
(* has been popped all its targets are named.                               *)
Naming(root, known, items) ==
    /\ root \in Nodes /\ Out(root) # {}
    /\ items \in Seq(Item) /\ Reached(root, items)
    /\ known[root] = 0
    /\ \A p \in Pod : known[p] > 0 => known[p] >= Cut /\ known[p] <= Walk(root)[p]
    /\ \/ known = Nothing /\ items = <<Labelled(root, Unit)>>
       \/ \A e \in Out(root) : known[e.dst] >= Cut
BlastInv ==
    /\ blast \in [Pod -> Nat]
    /\ pc # "blast" => blast = Nothing
    /\ pc = "blast" => (front.items = <<>> /\ edges = {}) \/ Naming(front.root, blast, front.items)

LEMMA NamingStable ==
    ASSUME edges' = edges, NEW root, NEW known, NEW items
    PROVE  Naming(root, known, items)' <=> Naming(root, known, items)
<1>1. Walk(root)' = Walk(root) /\ Hops(root)' = Hops(root)
  BY WalkStable
<1>2. Reached(root, items)' <=> Reached(root, items)
  BY <1>1 DEF Reached
<1>3. Nodes' = Nodes /\ Out(root)' = Out(root)
  BY DEF Nodes, Out
<1>. QED
  BY <1>1, <1>2, <1>3 DEF Naming, Cut, Nothing

(* A queue of one label, the root's, reaches. *)
LEMMA RootQueue ==
    ASSUME NEW root \in Pod
    PROVE  LET q == <<Labelled(root, Unit)>>
           IN  q \in Seq(Item) /\ Reached(root, q)
<1>. DEFINE x == Labelled(root, Unit)
<1>1. x \in Item /\ x.w = Unit /\ x.node = root /\ Unit \in Nat
  BY InputAssumption DEF Item, Labelled
<1>2. Hops(root)[0][root] = Unit
  <2>1. Hops(root)[0] = FromRoot(root)
    BY HopsUnfold
  <2>. QED
    BY <2>1 DEF FromRoot
<1>. HIDE DEF x
<1>3. <<x>> \in Seq(Item)
  BY <1>1
<1>4. ToSet(<<x>>) = {x}
  BY DEF ToSet
<1>5. Reached(root, <<x>>)
  BY <1>1, <1>2, <1>4 DEF Reached, MaxHops
<1>. QED
  BY <1>3, <1>5 DEF x

LEMMA BlastRank ==
    ASSUME GraphInv, ImpactInv, OnsetInv, BlastInv, Rank
    PROVE  BlastInv'
<1>1. /\ pc = "impact" /\ pc' = "blast" /\ front.items = <<>> /\ todo = {}
      /\ edges' = edges /\ blast' = blast /\ blast = Nothing
  BY DEF Rank, BlastInv
<1>2. edges \subseteq GraphEdge /\ impact \in [Pod -> [Pod -> Nat]]
      /\ \A n \in Nodes : impact[n] = Walk(n)
  BY <1>1, WalksDone DEF GraphInv, ImpactInv
<1>3. \A p \in Pod : onset[p] \in Nat \cup {None}
  BY DEF OnsetInv
<1>4. Nodes \subseteq Pod /\ (edges # {} => Nodes # {})
  <2>1. Nodes \subseteq Pod
    BY <1>2 DEF GraphEdge, Nodes, Pair
  <2>2. \A e \in edges : e.src \in Nodes
    BY DEF Nodes, Pair
  <2>. QED
    BY <2>1, <2>2
<1>. DEFINE Better(s, n, m) == \/ Score(n, s) > Score(m, s)
                               \/ Score(n, s) = Score(m, s) /\ Earlier(n, m)
            Tops(s) == {n \in Ranked(s) : \A m \in Ranked(s) : ~Better(s, m, n)}
<1>5. PICK breach \in SUBSET Pod :
          IF Tops(Symptoms(breach)) = {} THEN front' = NoSearch
          ELSE \E root \in Tops(Symptoms(breach)) : front' = Search(root)
  BY DEF Rank
<1>. DEFINE s == Symptoms(breach)
<1>6. s \subseteq Nodes /\ (Nodes # {} => s # {})
  BY DEF Symptoms
<1>. HIDE DEF s
<1>7. \A n \in Ranked(s) : n \in Nodes /\ Score(n, s) \in Nat /\ Out(n) # {}
  BY <1>2, <1>6, ScoreFacts DEF Ranked
<1>8. edges # {} => Tops(s) # {}
  <2>1. SUFFICES ASSUME edges # {} PROVE Tops(s) # {}
    OBVIOUS
  <2>2. Ranked(s) # {}
    BY <1>2, <1>4, <1>6, <2>1, SomeoneRanks
  <2>3. Ranked(s) \subseteq Pod /\ \A n \in Ranked(s) : Score(n, s) \in Nat
    BY <1>4, <1>7
  <2>4. \E n \in Ranked(s) : \A m \in Ranked(s) : ~Better(s, m, n)
    BY <1>3, <2>2, <2>3, FirstExists
  <2>. QED
    BY <2>4
<1>9. CASE Tops(s) = {}
  <2>1. front' = NoSearch /\ edges = {}
    BY <1>5, <1>8, <1>9 DEF s
  <2>. QED
    BY <1>1, <2>1 DEF BlastInv, NoSearch
<1>10. CASE Tops(s) # {}
  <2>1. PICK root \in Ranked(s) : front' = Search(root)
    BY <1>5, <1>10 DEF s
  <2>2. root \in Nodes /\ root \in Pod /\ Out(root) # {}
    BY <1>4, <1>7
  <2>. DEFINE q == <<Labelled(root, Unit)>>
  <2>3. q \in Seq(Item) /\ Reached(root, q)
    BY <2>2, RootQueue
  <2>4. front'.root = root /\ front'.items = q
    BY <2>1 DEF Search, Labelled
  <2>5. \A p \in Pod : Nothing[p] = 0
    BY DEF Nothing
  <2>6. Naming(root, Nothing, q)
    BY <2>2, <2>3, <2>5 DEF Naming
  <2>7. PICK k : k = Nothing
    OBVIOUS
  <2>8. PICK x : x = q
    OBVIOUS
  <2>9. Naming(root, k, x)'
    BY <1>1, <2>6, <2>7, <2>8, NamingStable
  <2>10. Naming(front.root, blast, front.items)'
    <3>. HIDE DEF q
    <3>. QED
      BY <1>1, <2>4, <2>7, <2>8, <2>9
  <2>. QED
    BY <1>1, <2>10 DEF BlastInv
<1>. QED
  BY <1>9, <1>10

LEMMA BlastReach ==
    ASSUME GraphInv, ImpactInv, BlastInv, Reach
    PROVE  BlastInv'
<1>. DEFINE root == front.root
            fresh == {p \in Pod \ {root} : Brought[p] >= Cut /\ blast[p] = 0}
            now == Updated(blast, fresh)
            next == Queued(fresh).items
<1>1. /\ pc = "blast" /\ pc' = "blast" /\ front.items # <<>>
      /\ blast' = now /\ front' = Queued(fresh) /\ edges' = edges
  BY DEF Reach
<1>2. /\ edges \subseteq GraphEdge /\ OnePerPair(edges)
      /\ front = [root |-> front.root, items |-> front.items]
      /\ blast \in [Pod -> Nat] /\ Naming(root, blast, front.items)
  BY <1>1 DEF GraphInv, ImpactInv, BlastInv
<1>3. root \in Nodes /\ root \in Pod
  BY <1>2, NodesArePods DEF Naming
<1>4. Popped \in Item /\ Popped.node \in Pod /\ Popped.w \in Nat /\ Popped \in ToSet(front.items)
  <2>1. Popped \in Item
    BY <1>1, <1>2, HeadTailProperties DEF Popped, Naming
  <2>2. Popped = front.items[1] /\ 1 \in DOMAIN front.items
    BY <1>1, <1>2, EmptySeq, LenProperties DEF Popped, Naming
  <2>. QED
    BY <2>1, <2>2 DEF Item, ToSet
<1>5. /\ Brought \in [Pod -> Nat]
      /\ \A e \in edges : e.src = Popped.node => Brought[e.dst] = Through(Popped.w, e)
  BY <1>2, <1>4, BroughtFacts
<1>6. /\ Queued(fresh) = [root |-> root, items |-> next] /\ next \in Seq(Item)
      /\ \A x \in ToSet(next) :
            x \in ToSet(front.items) \/ \E p \in fresh : x = Labelled(p, Brought[p])
  <2>1. fresh \subseteq Pod /\ front.items \in Seq(Item)
    BY <1>2 DEF Naming
  <2>. HIDE DEF fresh
  <2>. QED
    BY <1>1, <1>2, <1>5, <2>1, QueuedFacts
<1>7. /\ now \in [Pod -> Nat]
      /\ \A p \in fresh : now[p] = Brought[p] /\ Brought[p] >= Cut /\ blast[p] = 0 /\ p \in Pod
      /\ \A p \in Pod \ fresh : now[p] = blast[p]
  <2>1. \A p \in Pod : now[p] = IF p \in fresh THEN Brought[p] ELSE blast[p]
    BY DEF Updated
  <2>2. now \in [Pod -> Nat]
    BY <1>2, <1>5 DEF Updated
  <2>. HIDE DEF now
  <2>. QED
    BY <2>1, <2>2
<1>8. root \notin fresh
  OBVIOUS
<1>9. \A p \in Pod \ fresh : p = root \/ Brought[p] < Cut \/ blast[p] # 0
  <2>1. Cut \in Nat /\ \A p \in Pod : Brought[p] \in Nat
    BY <1>5, CutFacts
  <2>. QED
    BY <2>1
<1>. HIDE DEF fresh, now, next
<1>10. ASSUME NEW p \in fresh PROVE \E j \in 1..MaxHops : Brought[p] <= Hops(root)[j][p]
  <2>1. PICK k \in 0..MaxHops : Popped.w <= Hops(root)[k][Popped.node]
    BY <1>2, <1>4 DEF Naming, Reached
  <2>. QED
    BY <1>2, <1>4, <1>7, <2>1, BroughtReaches
<1>11. Reached(root, next)
  <2>1. ASSUME NEW x \in ToSet(next) PROVE \E k \in 0..MaxHops : x.w <= Hops(root)[k][x.node]
    <3>1. CASE x \in ToSet(front.items)
      BY <1>2, <3>1 DEF Naming, Reached
    <3>2. CASE \E p \in fresh : x = Labelled(p, Brought[p])
      <4>1. PICK p \in fresh : x = Labelled(p, Brought[p])
        BY <3>2
      <4>2. x.w = Brought[p] /\ x.node = p
        BY <4>1 DEF Labelled
      <4>3. PICK j \in 1..MaxHops : Brought[p] <= Hops(root)[j][p]
        BY <1>10
      <4>. QED
        BY <4>2, <4>3 DEF MaxHops
    <3>. QED
      BY <1>6, <3>1, <3>2
  <2>. QED
    BY <2>1 DEF Reached
<1>12. ASSUME NEW p \in Pod, now[p] > 0
       PROVE  now[p] >= Cut /\ now[p] <= Walk(root)[p]
  <2>1. CASE p \in fresh
    <3>1. PICK j \in 1..MaxHops : Brought[p] <= Hops(root)[j][p]
      BY <1>10, <2>1
    <3>2. Hops(root)[j][p] \in 0..Unit /\ Unit \in Nat
      BY <1>2, HopsFacts, InputAssumption DEF MaxHops
    <3>3. Brought[p] \in Nat /\ Walk(root)[p] \in Nat
      BY <1>2, <1>5, WalkFacts
    <3>4. Hops(root)[j][p] >= Cut => Hops(root)[j][p] <= Walk(root)[p]
      BY <1>2, WalkFacts
    <3>. QED
      BY <1>7, <2>1, <3>1, <3>2, <3>3, <3>4, CutFacts
  <2>2. CASE p \notin fresh
    BY <1>2, <1>7, <1>12, <2>2 DEF Naming
  <2>. QED
    BY <2>1, <2>2
<1>13. now[root] = 0
  BY <1>2, <1>3, <1>7, <1>8 DEF Naming
<1>14. \A e \in Out(root) : now[e.dst] >= Cut
  <2>1. ASSUME NEW e \in Out(root) PROVE now[e.dst] >= Cut
    <3>1. e \in edges /\ e \in GraphEdge /\ e.src = root /\ e.dst \in Pod /\ e.dst # root
      BY <1>2 DEF Out, GraphEdge
    <3>2. CASE blast = Nothing /\ front.items = <<Labelled(root, Unit)>>
      <4>1. Popped.node = root /\ Popped.w = Unit
        BY <3>2 DEF Popped, Labelled
      <4>2. Brought[e.dst] = Through(Unit, e) /\ blast[e.dst] = 0
        BY <1>5, <3>1, <3>2, <4>1 DEF Nothing
      <4>3. Brought[e.dst] >= Cut
        BY <3>1, <4>2, FirstStepCounts
      <4>4. e.dst \in fresh
        BY <3>1, <4>2, <4>3 DEF fresh
      <4>. QED
        BY <1>7, <4>4
    <3>3. CASE \A f \in Out(root) : blast[f.dst] >= Cut
      <4>1. blast[e.dst] >= Cut
        BY <3>3
      <4>2. e.dst \notin fresh
        <5>1. ~(blast[e.dst] = 0)
          BY <4>1, CutFacts
        <5>. QED
          BY <1>7, <5>1
      <4>. QED
        BY <1>7, <3>1, <4>1, <4>2
    <3>. QED
      BY <1>2, <3>2, <3>3 DEF Naming
  <2>. QED
    BY <2>1
<1>15. Naming(root, now, next)
  BY <1>2, <1>3, <1>6, <1>11, <1>12, <1>13, <1>14 DEF Naming
<1>16. PICK r, k, q : r = root /\ k = now /\ q = next
  OBVIOUS
<1>17. Naming(r, k, q)'
  BY <1>1, <1>15, <1>16, NamingStable
<1>18. front'.root = r /\ front'.items = q /\ blast' = k
  BY <1>1, <1>6, <1>16
<1>. QED
  BY <1>1, <1>7, <1>17, <1>18 DEF BlastInv

LEMMA BlastStep ==
    ASSUME GraphInv, ImpactInv, OnsetInv, BlastInv, [PNext]_pvars
    PROVE  BlastInv'
<1>0. Nothing' = Nothing /\ Nothing \in [Pod -> Nat]
  BY DEF Nothing
<1>1. CASE Detect \/ Centre \/ EndPairs \/ Choose \/ Spread
  BY <1>0, <1>1 DEF Detect, Centre, EndPairs, Choose, Spread, BlastInv
<1>2. ASSUME NEW a \in Pod, NEW b \in Pod, Correlate(a, b) PROVE BlastInv'
  BY <1>0, <1>2 DEF Correlate, BlastInv
<1>3. ASSUME NEW p \in Pod, Attribute(p) \/ StartImpact(p) PROVE BlastInv'
  BY <1>0, <1>3 DEF Attribute, StartImpact, BlastInv
<1>4. CASE Rank
  BY <1>4, BlastRank
<1>5. CASE Reach
  BY <1>5, BlastReach
<1>6. CASE Return
  BY <1>0, <1>6 DEF Return, BlastInv
<1>7. CASE UNCHANGED pvars
  <2>1. pc' = pc /\ edges' = edges /\ front' = front /\ blast' = blast
    BY <1>7 DEF pvars
  <2>2. ASSUME Naming(front.root, blast, front.items)
        PROVE  Naming(front.root, blast, front.items)'
    <3>1. PICK r, k, q : r = front.root /\ k = blast /\ q = front.items
      OBVIOUS
    <3>2. Naming(r, k, q)'
      BY <2>1, <2>2, <3>1, NamingStable
    <3>. QED
      BY <2>1, <3>1, <3>2
  <2>. QED
    BY <1>0, <2>1, <2>2 DEF BlastInv
<1>. QED
  BY <1>1, <1>2, <1>3, <1>4, <1>5, <1>6, <1>7 DEF PNext

(* All that a pass keeps. *)
PassInv == WInv /\ OnsetInv /\ BlastInv

LEMMA PassHolds == PSpec => []PassInv
<1>1. PInit => OnsetInv /\ BlastInv
  <2>1. {} \in OnsetLists
    BY FS_EmptySet DEF OnsetLists
  <2>. QED
    BY <2>1 DEF PInit, OnsetInv, BlastInv, Nothing
<1>2. PassInv /\ [PNext]_pvars => OnsetInv' /\ BlastInv'
  BY OnsetStep, BlastStep DEF PassInv, WInv, GInv
<1>3. WInv /\ OnsetInv /\ BlastInv <=> PassInv
  BY DEF PassInv
<1>. QED
  BY <1>1, <1>2, <1>3, WalkHolds, PTL DEF PSpec

(* A pass that accepted an edge accounts for it: rank_root_causes names a   *)
(* root cause, and blast_radius every node it has an edge to, never the     *)
(* root, and nobody with more than its impact in the ranking.               *)
THEOREM EdgesAccountedForHolds == PSpec => []EdgesAccountedFor
<1>1. ASSUME PassInv PROVE EdgesAccountedFor
  <2>1. SUFFICES ASSUME pc = "blast", front.items = <<>>, edges # {}
                 PROVE  LET root == front.root
                        IN  /\ root \in Nodes /\ Out(root) # {}
                            /\ \A e \in Out(root) : blast[e.dst] >= Cut
                            /\ blast[root] = 0
                            /\ \A p \in Pod : blast[p] <= impact[root][p]
    BY DEF EdgesAccountedFor
  <2>. DEFINE root == front.root
  <2>2. /\ blast \in [Pod -> Nat] /\ Naming(root, blast, front.items)
        /\ edges \subseteq GraphEdge /\ \A n \in Nodes : impact[n] = Walk(n)
    BY <1>1, <2>1 DEF PassInv, WInv, GInv, GraphInv, ImpactInv, BlastInv
  <2>3. \A e \in Out(root) : blast[e.dst] >= Cut
    BY <2>1, <2>2 DEF Naming
  <2>4. ASSUME NEW p \in Pod PROVE blast[p] <= impact[root][p]
    <3>1. impact[root] = Walk(root) /\ Walk(root)[p] \in Nat /\ blast[p] \in Nat
      BY <2>2, WalkFacts DEF Naming
    <3>2. blast[p] > 0 => blast[p] <= Walk(root)[p]
      BY <2>2 DEF Naming
    <3>. QED
      BY <3>1, <3>2
  <2>. QED
    BY <2>2, <2>3, <2>4 DEF Naming
<1>. QED
  BY <1>1, PassHolds, PTL
=============================================================================
