--------------------------- MODULE WorkloadProofs ---------------------------
(***************************************************************************)
(* Proofs about the workloads of the S1 cascade: Ingest for every size of  *)
(* the queue and of the batch and every number of messages, Interlock for  *)
(* all bounds on the beats and on their age, Cooling for any finite set of *)
(* triggers, and their composition.                                        *)
(***************************************************************************)
EXTENDS MCWorkloads, FiniteSetTheorems, TLAPS

-----------------------------------------------------------------------------
(* Sequences of message numbers *)

Increasing(s) == \A i, j \in DOMAIN s : i < j => s[i] < s[j]
Before(s, t)  == \A i \in DOMAIN s, j \in DOMAIN t : s[i] < t[j]
UpTo(s, n)    == \A i \in DOMAIN s : s[i] <= n

LEMMA AppendFacts ==
    ASSUME NEW s \in Seq(Nat), NEW n \in Nat
    PROVE  /\ Append(s, n) \in Seq(Nat)
           /\ Len(Append(s, n)) = Len(s) + 1
           /\ DOMAIN Append(s, n) = 1..Len(s) + 1
           /\ DOMAIN s = 1..Len(s) /\ Len(s) \in Nat
           /\ \A i \in 1..Len(s) : Append(s, n)[i] = s[i] /\ s[i] \in Nat
           /\ Append(s, n)[Len(s) + 1] = n
OBVIOUS

(* A sequence with something newer at its end. *)
LEMMA AppendInOrder ==
    ASSUME NEW s \in Seq(Nat), NEW n \in Nat, \A i \in DOMAIN s : s[i] < n
    PROVE  /\ Increasing(s) => Increasing(Append(s, n))
           /\ UpTo(Append(s, n), n)
           /\ \A i \in DOMAIN Append(s, n) :
                 \/ i \in DOMAIN s /\ Append(s, n)[i] = s[i]
                 \/ Append(s, n)[i] = n
<1>. DEFINE b == Append(s, n)
<1>1. /\ DOMAIN b = 1..Len(s) + 1 /\ DOMAIN s = 1..Len(s) /\ Len(s) \in Nat
      /\ \A i \in 1..Len(s) : b[i] = s[i] /\ s[i] \in Nat
      /\ b[Len(s) + 1] = n
  BY AppendFacts, Zenon
<1>. HIDE DEF b
<1>2. ASSUME NEW i \in DOMAIN b
      PROVE  \/ i \in DOMAIN s /\ b[i] = s[i]
             \/ i = Len(s) + 1 /\ b[i] = n
  BY <1>1
<1>3. UpTo(b, n)
  BY <1>1, <1>2 DEF UpTo
<1>4. ASSUME Increasing(s), NEW i \in DOMAIN b, NEW j \in DOMAIN b, i < j
      PROVE  b[i] < b[j]
  <2>1. i \in DOMAIN s /\ b[i] = s[i] /\ b[i] < n
    BY <1>1, <1>4
  <2>2. CASE j \in DOMAIN s /\ b[j] = s[j]
    BY <1>4, <2>1, <2>2 DEF Increasing
  <2>. QED
    BY <1>2, <2>1, <2>2
<1>5. Increasing(s) => Increasing(b)
  BY <1>4 DEF Increasing
<1>. QED
  BY <1>2, <1>3, <1>5 DEF b

LEMMA HeadTailFacts ==
    ASSUME NEW s \in Seq(Nat), s # <<>>
    PROVE  /\ Head(s) \in Nat /\ Head(s) = s[1] /\ Tail(s) \in Seq(Nat)
           /\ Len(s) \in Nat \ {0} /\ DOMAIN s = 1..Len(s)
           /\ Len(Tail(s)) = Len(s) - 1 /\ DOMAIN Tail(s) = 1..Len(s) - 1
           /\ \A i \in 1..Len(s) - 1 : Tail(s)[i] = s[i + 1]
           /\ \A i \in 1..Len(s) : s[i] \in Nat
OBVIOUS

LEMMA SeqFacts ==
    ASSUME NEW s \in Seq(Nat)
    PROVE  /\ Len(s) \in Nat /\ DOMAIN s = 1..Len(s)
           /\ \A i \in DOMAIN s : s[i] \in Nat
OBVIOUS

LEMMA ConcatFacts ==
    ASSUME NEW s \in Seq(Nat), NEW t \in Seq(Nat)
    PROVE  /\ s \o t \in Seq(Nat)
           /\ Len(s) \in Nat /\ Len(t) \in Nat
           /\ DOMAIN s = 1..Len(s) /\ DOMAIN t = 1..Len(t)
           /\ Len(s \o t) = Len(s) + Len(t)
           /\ DOMAIN (s \o t) = 1..Len(s) + Len(t)
           /\ \A i \in 1..Len(s) : (s \o t)[i] = s[i] /\ s[i] \in Nat
           /\ \A i \in 1..Len(t) : (s \o t)[Len(s) + i] = t[i] /\ t[i] \in Nat
           /\ \A i \in Len(s) + 1..Len(s) + Len(t) :
                 i - Len(s) \in 1..Len(t) /\ (s \o t)[i] = t[i - Len(s)]
OBVIOUS

(* Two parts in order, one before the other, are in order together. *)
LEMMA ConcatIncreasing ==
    ASSUME NEW s \in Seq(Nat), NEW t \in Seq(Nat),
           Increasing(s), Increasing(t), Before(s, t)
    PROVE  Increasing(s \o t)
<1>. DEFINE c == s \o t
            m == Len(s)
<1>1. SUFFICES ASSUME NEW i \in DOMAIN c, NEW j \in DOMAIN c, i < j
               PROVE  c[i] < c[j]
  BY DEF Increasing
<1>2. i \in 1..m \/ i \in m + 1..m + Len(t)
  BY ConcatFacts
<1>3. j \in 1..m \/ j \in m + 1..m + Len(t)
  BY ConcatFacts
<1>4. m \in Nat /\ DOMAIN s = 1..m /\ DOMAIN t = 1..Len(t)
  BY ConcatFacts
<1>5. CASE j \in 1..m
  <2>1. i \in 1..m
    BY <1>1, <1>2, <1>4, <1>5
  <2>2. c[i] = s[i] /\ c[j] = s[j]
    BY <1>5, <2>1, ConcatFacts
  <2>. QED
    BY <1>1, <1>4, <1>5, <2>1, <2>2 DEF Increasing
<1>6. CASE i \in 1..m /\ j \in m + 1..m + Len(t)
  <2>1. c[i] = s[i] /\ j - m \in 1..Len(t) /\ c[j] = t[j - m]
    BY <1>6, ConcatFacts
  <2>. QED
    BY <1>4, <1>6, <2>1 DEF Before
<1>7. CASE i \in m + 1..m + Len(t) /\ j \in m + 1..m + Len(t)
  <2>1. /\ i - m \in 1..Len(t) /\ c[i] = t[i - m]
        /\ j - m \in 1..Len(t) /\ c[j] = t[j - m]
    BY <1>7, ConcatFacts
  <2>2. i - m < j - m
    BY <1>1, <1>4, <1>7
  <2>. QED
    BY <1>4, <2>1, <2>2 DEF Increasing
<1>. QED
  BY <1>2, <1>3, <1>5, <1>6, <1>7

(* What holds of both parts holds of them together. *)
LEMMA ConcatBounds ==
    ASSUME NEW s \in Seq(Nat), NEW t \in Seq(Nat), NEW u \in Seq(Nat), NEW n \in Nat
    PROVE  /\ Before(s, u) /\ Before(t, u) => Before(s \o t, u)
           /\ UpTo(s, n) /\ UpTo(t, n) => UpTo(s \o t, n)
<1>. DEFINE c == s \o t
            m == Len(s)
<1>1. ASSUME NEW i \in DOMAIN c
      PROVE  \/ i \in DOMAIN s /\ c[i] = s[i]
             \/ \E k \in DOMAIN t : c[i] = t[k]
  <2>1. i \in 1..m \/ i \in m + 1..m + Len(t)
    BY ConcatFacts
  <2>2. CASE i \in 1..m
    BY <2>2, ConcatFacts
  <2>3. CASE i \in m + 1..m + Len(t)
    BY <2>3, ConcatFacts
  <2>. QED
    BY <2>1, <2>2, <2>3
<1>2. ASSUME Before(s, u), Before(t, u) PROVE Before(c, u)
  BY <1>1, <1>2 DEF Before
<1>3. ASSUME UpTo(s, n), UpTo(t, n) PROVE UpTo(c, n)
  BY <1>1, <1>3 DEF UpTo
<1>. QED
  BY <1>2, <1>3

-----------------------------------------------------------------------------
(* The invariant *)

(* What is committed, in hand and queued: each part in order, each before   *)
(* the next, and none of it newer than the last arrival.                    *)
InLine ==
    /\ Increasing(db) /\ Increasing(batch) /\ Increasing(Q)
    /\ Before(db, Pending) /\ Before(db, Q) /\ Before(batch, Q)
    /\ UpTo(db, arrived) /\ UpTo(batch, arrived) /\ UpTo(Q, arrived)

(* No more is stored, in hand and queued than has arrived, and the counter  *)
(* leaves room for the batch that is committed and not counted yet.         *)
Accounted ==
    /\ Len(db) + Len(Pending) + Len(Q) <= arrived
    /\ INSERTED + (IF writer = "count" THEN Len(batch) ELSE 0) <= Len(db)

Types ==
    /\ arrived \in 0..Arrivals
    /\ Q \in Seq(Nat) /\ Len(Q) <= QueueMax
    /\ batch \in Seq(Nat) /\ Len(batch) <= BatchMax
    /\ writer \in {"connect", "get", "more", "commit", "count"}
    /\ db \in Seq(Nat)
    /\ up \in BOOLEAN
    /\ INSERTED \in Nat /\ QDEPTH \in 0..QueueMax

IngestInv == Types /\ InLine /\ Accounted

LEMMA PendingType == IngestInv => Pending \in Seq(Nat) /\ Len(Pending) \in Nat
BY SeqFacts DEF IngestInv, Types, Pending

LEMMA InitInv == IInit => IngestInv
BY SizeAssumption DEF IInit, IngestInv, Types, InLine, Accounted, Pending, Increasing, Before, UpTo

(* A message that arrives is newer than all others. *)
LEMMA OnMsgInv ==
    ASSUME IngestInv, OnMsg
    PROVE  IngestInv'
<1>. DEFINE n == arrived + 1
<1>1. arrived \in Nat /\ n \in Nat /\ arrived' = n /\ arrived' \in 0..Arrivals
  BY SizeAssumption DEF IngestInv, Types, OnMsg
<1>0. /\ UNCHANGED <<batch, writer, db, up, INSERTED, QDEPTH>> /\ Pending' = Pending
      /\ Q \in Seq(Nat) /\ batch \in Seq(Nat) /\ db \in Seq(Nat)
  BY DEF OnMsg, Pending, IngestInv, Types
<1>2. CASE Len(Q) < QueueMax
  <2>1. Q' = Append(Q, n)
    BY <1>2 DEF OnMsg
  <2>2. Q' \in Seq(Nat) /\ Len(Q') = Len(Q) + 1 /\ Len(Q) \in Nat
    BY <1>0, <1>1, <2>1, AppendFacts
  <2>3. Types'
    BY <1>0, <1>1, <1>2, <2>2, SizeAssumption DEF IngestInv, Types
  <2>4. \A i \in DOMAIN Q : Q[i] < n
    BY <1>0, <1>1, SeqFacts DEF IngestInv, InLine, UpTo
  <2>5. \A i \in DOMAIN Q' : (i \in DOMAIN Q /\ Q'[i] = Q[i]) \/ Q'[i] = n
    BY <1>0, <1>1, <2>1, <2>4, AppendInOrder
  <2>6. Increasing(Q') /\ UpTo(Q', n)
    BY <1>0, <1>1, <2>1, <2>4, AppendInOrder DEF IngestInv, InLine
  <2>7. ASSUME NEW s \in Seq(Nat), UpTo(s, arrived), Before(s, Q)
        PROVE  Before(s, Q')
    <3>1. \A i \in DOMAIN s : s[i] < n
      BY <1>1, <2>7, SeqFacts DEF UpTo
    <3>. QED
      BY <2>7, <2>5, <3>1 DEF Before
  <2>8. UpTo(db, n) /\ UpTo(batch, n)
    BY <1>1 DEF IngestInv, Types, InLine, UpTo
  <2>9. InLine'
    BY <1>0, <1>1, <2>6, <2>7, <2>8 DEF IngestInv, InLine, Pending
  <2>10. Accounted'
    BY <1>1, <1>0, <2>2, SeqFacts, PendingType DEF IngestInv, Accounted
  <2>. QED
    BY <2>3, <2>9, <2>10 DEF IngestInv
<1>3. CASE ~(Len(Q) < QueueMax)
  <2>1. Q' = Q
    BY <1>3 DEF OnMsg
  <2>2. Types'
    BY <1>1, <2>1 DEF IngestInv, Types, OnMsg
  <2>3. UpTo(db, n) /\ UpTo(batch, n) /\ UpTo(Q, n)
    BY <1>1 DEF IngestInv, Types, InLine, UpTo
  <2>4. InLine'
    BY <1>1, <2>1, <2>3 DEF IngestInv, InLine, OnMsg, Pending
  <2>5. Accounted'
    BY <1>1, <1>0, <2>1, SeqFacts, PendingType DEF IngestInv, Accounted
  <2>. QED
    BY <2>2, <2>4, <2>5 DEF IngestInv
<1>. QED
  BY <1>2, <1>3

(* The head of the queue is older than the rest of it, and newer than what  *)
(* the batch holds.                                                         *)
LEMMA TakeInv ==
    ASSUME IngestInv, Take
    PROVE  IngestInv'
<1>. DEFINE h == Head(Q)
            t == Tail(Q)
            b == Append(batch, h)
<1>1. Q \in Seq(Nat) /\ Q # <<>> /\ batch \in Seq(Nat) /\ db \in Seq(Nat)
  BY DEF IngestInv, Types, Take
<1>2. /\ h \in Nat /\ h = Q[1] /\ t \in Seq(Nat)
      /\ Len(Q) \in Nat \ {0} /\ DOMAIN Q = 1..Len(Q)
      /\ Len(t) = Len(Q) - 1 /\ DOMAIN t = 1..Len(Q) - 1
      /\ \A i \in 1..Len(Q) - 1 : t[i] = Q[i + 1]
      /\ \A i \in 1..Len(Q) : Q[i] \in Nat
  BY <1>1, HeadTailFacts, Zenon
<1>3. /\ b \in Seq(Nat)
      /\ Len(b) = Len(batch) + 1 /\ DOMAIN b = 1..Len(batch) + 1
      /\ DOMAIN batch = 1..Len(batch) /\ Len(batch) \in Nat
      /\ \A i \in 1..Len(batch) : b[i] = batch[i] /\ batch[i] \in Nat
      /\ b[Len(batch) + 1] = h
  BY <1>1, <1>2, AppendFacts, Zenon
<1>4. /\ writer' = "more" /\ Q' = t /\ UNCHANGED <<arrived, db, up, INSERTED, QDEPTH>>
      /\ \/ writer = "get" /\ batch' = <<h>>
         \/ writer = "more" /\ batch' = b /\ Len(batch) < BatchMax
  BY DEF Take
<1>5. Len(db) \in Nat /\ DOMAIN db = 1..Len(db) /\ \A i \in DOMAIN db : db[i] \in Nat
  BY <1>1, SeqFacts
<1>6. writer # "count" /\ Pending = batch /\ Pending' = batch'
  BY <1>4 DEF Pending
<1>. HIDE DEF h, t, b
<1>7. Increasing(t) /\ UpTo(t, arrived) /\ h <= arrived /\ \A i \in DOMAIN t : h < t[i]
  <2>1. 1 \in DOMAIN Q /\ \A i \in DOMAIN t : i + 1 \in DOMAIN Q /\ 1 < i + 1
    BY <1>2
  <2>2. UpTo(Q, arrived) /\ Increasing(Q)
    BY DEF IngestInv, InLine
  <2>3. Increasing(t)
    <3>. SUFFICES ASSUME NEW i \in DOMAIN t, NEW j \in DOMAIN t, i < j PROVE t[i] < t[j]
      BY DEF Increasing
    <3>1. i \in 1..Len(Q) - 1 /\ j \in 1..Len(Q) - 1 /\ Len(Q) \in Nat
      BY <1>2
    <3>2. t[i] = Q[i + 1] /\ t[j] = Q[j + 1]
      BY <1>2, <3>1, Zenon
    <3>3. i + 1 < j + 1
      BY <3>1
    <3>. QED
      BY <2>1, <2>2, <3>2, <3>3 DEF Increasing
  <2>4. UpTo(t, arrived) /\ h <= arrived
    BY <1>2, <2>1, <2>2 DEF UpTo
  <2>5. \A i \in DOMAIN t : h < t[i]
    BY <1>2, <2>1, <2>2 DEF Increasing
  <2>. QED
    BY <2>3, <2>4, <2>5
<1>8. /\ Before(db, t) /\ \A i \in DOMAIN db : db[i] < h
      /\ Before(batch, t) /\ \A i \in DOMAIN batch : batch[i] < h
  <2>1. 1 \in DOMAIN Q /\ \A i \in DOMAIN t : i + 1 \in DOMAIN Q /\ t[i] = Q[i + 1]
    BY <1>2
  <2>2. Before(db, Q) /\ Before(batch, Q)
    BY DEF IngestInv, InLine
  <2>. QED
    BY <1>2, <2>1, <2>2 DEF Before
<1>9. CASE writer = "get"
  <2>1. batch' = <<h>>
    BY <1>4, <1>9
  <2>2. batch' \in Seq(Nat) /\ Len(batch') = 1 /\ DOMAIN batch' = {1} /\ batch'[1] = h
    BY <1>2, <2>1
  <2>3. Types'
    BY <1>2, <1>4, <2>2, SizeAssumption DEF IngestInv, Types
  <2>4. /\ Increasing(batch') /\ UpTo(batch', arrived)
        /\ Before(db, batch') /\ Before(batch', t)
    BY <1>2, <1>7, <1>8, <2>2 DEF Increasing, UpTo, Before
  <2>5. InLine'
    BY <1>4, <1>6, <1>7, <1>8, <2>4 DEF IngestInv, InLine
  <2>6. Accounted'
    BY <1>2, <1>3, <1>4, <1>5, <1>6, <2>2 DEF IngestInv, Types, Accounted
  <2>. QED
    BY <2>3, <2>5, <2>6 DEF IngestInv
<1>10. CASE writer = "more"
  <2>1. batch' = b /\ Len(batch) < BatchMax
    BY <1>4, <1>10
  <2>2. Types'
    <3>1. batch' \in Seq(Nat) /\ Len(batch') <= BatchMax
      BY <1>3, <2>1, SizeAssumption
    <3>2. Q' \in Seq(Nat) /\ Len(Q') <= QueueMax
      BY <1>2, <1>4, SizeAssumption DEF IngestInv, Types
    <3>3. arrived' = arrived /\ db' = db /\ up' = up /\ INSERTED' = INSERTED
          /\ QDEPTH' = QDEPTH /\ writer' = "more"
      BY <1>4
    <3>. QED
      BY <3>1, <3>2, <3>3 DEF IngestInv, Types
  <2>3. Increasing(batch) => Increasing(b)
    BY <1>1, <1>2, <1>8, AppendInOrder, Zenon DEF b
  <2>4. \A i \in DOMAIN b : (i \in DOMAIN batch /\ b[i] = batch[i]) \/ b[i] = h
    BY <1>1, <1>2, <1>8, AppendInOrder, Zenon DEF b
  <2>5. Increasing(b) /\ UpTo(b, arrived)
    BY <1>7, <2>3, <2>4 DEF IngestInv, InLine, UpTo
  <2>6. Before(b, t)
    BY <1>7, <1>8, <2>4 DEF Before
  <2>7. Before(db, b)
    BY <1>6, <1>8, <2>4 DEF IngestInv, InLine, Before
  <2>8. InLine'
    BY <1>4, <1>6, <1>7, <1>8, <2>1, <2>5, <2>6, <2>7 DEF IngestInv, InLine
  <2>9. Accounted'
    BY <1>2, <1>3, <1>4, <1>5, <1>6, <2>1 DEF IngestInv, Types, Accounted
  <2>. QED
    BY <2>2, <2>8, <2>9 DEF IngestInv
<1>. QED
  BY <1>4, <1>9, <1>10

(* What the writer commits is older than what is queued and newer than what *)
(* is stored; it may then lose the rows it holds, but not their order.      *)
LEMMA StoreInv ==
    ASSUME IngestInv, writer # "count", db' = db \o batch, Q' \in {Q, <<>>},
           batch' \in {batch, <<>>}, UNCHANGED arrived,
           Pending' = <<>>
    PROVE  /\ InLine' /\ db' \in Seq(Nat)
           /\ Len(db') = Len(db) + Len(batch)
           /\ Len(db') + Len(Pending') + Len(Q') <= arrived
<1>1. /\ db \in Seq(Nat) /\ batch \in Seq(Nat) /\ Q \in Seq(Nat)
      /\ Pending = batch /\ arrived \in Nat
  BY SizeAssumption DEF IngestInv, Types, Pending
<1>2. /\ db' \in Seq(Nat) /\ Len(db') = Len(db) + Len(batch)
      /\ Len(db) \in Nat /\ Len(batch) \in Nat /\ Len(Q) \in Nat
  BY <1>1, ConcatFacts, SeqFacts
<1>3. Increasing(db')
  BY <1>1, ConcatIncreasing DEF IngestInv, InLine
<1>4. Before(db', Q) /\ UpTo(db', arrived)
  BY <1>1, ConcatBounds DEF IngestInv, InLine
<1>5. /\ Increasing(<<>>) /\ UpTo(<<>>, arrived) /\ Len(<<>>) = 0
      /\ \A s : Before(s, <<>>) /\ Before(<<>>, s)
  BY DEF Increasing, UpTo, Before
<1>6. InLine'
  BY <1>3, <1>4, <1>5 DEF IngestInv, InLine
<1>7. Len(db') + Len(Pending') + Len(Q') <= arrived
  BY <1>1, <1>2, <1>5 DEF IngestInv, Accounted
<1>. QED
  BY <1>2, <1>6, <1>7

(* Nothing is stored, and what the writer holds or what is queued may be    *)
(* lost.                                                                    *)
LEMMA LoseInv ==
    ASSUME IngestInv, db' = db, Q' \in {Q, <<>>}, batch' \in {batch, <<>>},
           UNCHANGED arrived, Pending' \in {Pending, <<>>}
    PROVE  /\ InLine'
           /\ Len(db') + Len(Pending') + Len(Q') <= arrived
<1>1. /\ db \in Seq(Nat) /\ Q \in Seq(Nat)
      /\ Pending \in Seq(Nat) /\ arrived \in Nat
  BY SizeAssumption, PendingType DEF IngestInv, Types
<1>2. /\ Increasing(<<>>) /\ UpTo(<<>>, arrived) /\ Len(<<>>) = 0
      /\ \A s : Before(s, <<>>) /\ Before(<<>>, s)
  BY DEF Increasing, UpTo, Before
<1>3. InLine'
  BY <1>2 DEF IngestInv, InLine
<1>4. Len(db) \in Nat /\ Len(Q) \in Nat /\ Len(Pending) \in Nat
  BY <1>1, SeqFacts
<1>5. Len(db') + Len(Pending') + Len(Q') <= arrived
  BY <1>1, <1>2, <1>4 DEF IngestInv, Accounted
<1>. QED
  BY <1>3, <1>5

(* The writer fails or the process dies: the batch was committed or it was  *)
(* not, and in either case it is gone.                                      *)
LEMMA FailInv ==
    ASSUME IngestInv,
           db' \in IF writer = "commit" THEN {db, db \o batch} ELSE {db},
           Q' \in {Q, <<>>}, batch' = <<>>, writer' = "connect",
           UNCHANGED <<arrived, up>>,
           UNCHANGED <<INSERTED, QDEPTH>> \/ (INSERTED' = 0 /\ QDEPTH' = 0),
           writer = "count" => INSERTED' <= Len(db)
    PROVE  IngestInv'
<1>1. Pending' = <<>>
  BY DEF Pending
<1>2. /\ InLine' /\ db' \in Seq(Nat) /\ Len(db) <= Len(db')
      /\ Len(db') + Len(Pending') + Len(Q') <= arrived
      /\ Len(db) \in Nat /\ Len(db') \in Nat
  <2>1. db \in Seq(Nat) /\ batch \in Seq(Nat) /\ Len(batch) \in Nat
    BY SeqFacts DEF IngestInv, Types
  <2>2. CASE db' = db
    BY <1>1, <2>1, <2>2, LoseInv, SeqFacts
  <2>3. CASE writer = "commit" /\ db' = db \o batch
    BY <1>1, <2>1, <2>3, StoreInv, SeqFacts
  <2>. QED
    BY <2>2, <2>3
<1>3. Types'
  <2>1. Q' \in Seq(Nat) /\ Len(Q') <= QueueMax /\ batch' \in Seq(Nat) /\ Len(batch') <= BatchMax
    <3>1. <<>> \in Seq(Nat) /\ Len(<<>>) = 0
      OBVIOUS
    <3>2. Q \in Seq(Nat) /\ Len(Q) <= QueueMax /\ 0 <= QueueMax /\ 0 <= BatchMax
      BY SizeAssumption DEF IngestInv, Types
    <3>3. CASE Q' = Q
      BY <3>1, <3>2, <3>3
    <3>4. CASE Q' = <<>>
      BY <3>1, <3>2, <3>4
    <3>. QED
      BY <3>3, <3>4
  <2>2. INSERTED' \in Nat /\ QDEPTH' \in 0..QueueMax
    BY SizeAssumption DEF IngestInv, Types
  <2>. QED
    BY <1>2, <2>1, <2>2 DEF IngestInv, Types
<1>4. INSERTED' <= Len(db')
  <2>1. INSERTED \in Nat /\ INSERTED' \in Nat
    BY DEF IngestInv, Types
  <2>2. INSERTED' <= Len(db)
    BY <1>2, <2>1 DEF IngestInv, Accounted
  <2>. QED
    BY <1>2, <2>1, <2>2
<1>5. INSERTED' + (IF writer' = "count" THEN Len(batch') ELSE 0) <= Len(db')
  BY <1>3, <1>4 DEF Types
<1>. QED
  BY <1>2, <1>3, <1>5 DEF IngestInv, Accounted

(* One step, action by action. *)
LEMMA NextInv == IngestInv /\ [INext]_ivars => IngestInv'
<1>. SUFFICES ASSUME IngestInv, [INext]_ivars PROVE IngestInv'
  OBVIOUS
<1>0. db \in Seq(Nat) /\ batch \in Seq(Nat) /\ Len(db) \in Nat /\ Len(batch) \in Nat
  BY SeqFacts DEF IngestInv, Types
<1>1. CASE OnMsg
  BY <1>1, OnMsgInv
<1>2. CASE Take
  BY <1>2, TakeInv
<1>3. CASE Connect
  <2>1. /\ UNCHANGED <<arrived, Q, batch, db, INSERTED, QDEPTH>>
        /\ Pending' = Pending /\ writer # "count" /\ writer' = "get"
    BY <1>3 DEF Connect, Pending
  <2>. QED
    BY <1>3, <2>1 DEF IngestInv, Types, InLine, Accounted, Connect
<1>4. CASE Insert
  <2>1. /\ UNCHANGED <<arrived, Q, batch, db, INSERTED, QDEPTH>>
        /\ Pending' = Pending /\ writer # "count" /\ writer' = "commit"
    BY <1>4 DEF Insert, Pending
  <2>. QED
    BY <1>4, <2>1 DEF IngestInv, Types, InLine, Accounted, Insert
<1>5. CASE Commit
  <2>1. /\ writer # "count" /\ writer' = "count" /\ db' = db \o batch
        /\ UNCHANGED <<arrived, Q, batch, up, INSERTED, QDEPTH>>
        /\ Pending' = <<>>
    BY <1>5 DEF Commit, Pending
  <2>2. /\ InLine' /\ db' \in Seq(Nat)
        /\ Len(db') = Len(db) + Len(batch)
        /\ Len(db') + Len(Pending') + Len(Q') <= arrived
    BY <2>1, StoreInv
  <2>3. Types'
    BY <2>1, <2>2 DEF IngestInv, Types
  <2>4. Accounted'
    BY <1>0, <2>1, <2>2 DEF IngestInv, Types, Accounted
  <2>. QED
    BY <2>2, <2>3, <2>4 DEF IngestInv
<1>6. CASE Count
  <2>1. /\ writer = "count" /\ writer' = "get" /\ batch' = <<>> /\ QDEPTH' = Len(Q)
        /\ INSERTED' = INSERTED + Len(batch)
        /\ UNCHANGED <<arrived, Q, db, up>> /\ Pending' = <<>>
    BY <1>6 DEF Count, Pending
  <2>2. InLine' /\ Len(db') + Len(Pending') + Len(Q') <= arrived
    BY <2>1, LoseInv
  <2>3. Len(Q) \in 0..QueueMax
    BY SeqFacts, SizeAssumption DEF IngestInv, Types
  <2>4. Types'
    BY <1>0, <2>1, <2>3, SizeAssumption DEF IngestInv, Types
  <2>5. Accounted'
    BY <1>0, <2>1, <2>2 DEF IngestInv, Types, Accounted
  <2>. QED
    BY <2>2, <2>4, <2>5 DEF IngestInv
<1>7. CASE WriterFails
  BY <1>7, FailInv DEF WriterFails
<1>8. CASE Restart
  BY <1>0, <1>8, FailInv DEF Restart
<1>9. CASE DatabaseStalls \/ DatabaseReturns \/ UNCHANGED ivars
  <2>1. /\ UNCHANGED <<arrived, Q, batch, writer, db, INSERTED, QDEPTH>>
        /\ Pending' = Pending /\ up' \in BOOLEAN
    BY <1>9 DEF DatabaseStalls, DatabaseReturns, ivars, Pending, IngestInv, Types
  <2>. QED
    BY <2>1 DEF IngestInv, Types, InLine, Accounted
<1>. QED
  BY <1>1, <1>2, <1>3, <1>4, <1>5, <1>6, <1>7, <1>8, <1>9
     DEF INext, Writer, IFault

(* The invariant of the proofs holds in every reachable state, whatever the *)
(* database and the process do between two steps of the writer.             *)
THEOREM IngestInvariance == ISpec => []IngestInv
<1>1. IInit => IngestInv
  BY InitInv
<1>2. IngestInv /\ [INext]_ivars => IngestInv'
  BY NextInv
<1>. QED
  BY <1>1, <1>2, PTL DEF ISpec

(* Each message is stored at most once and in the order of arrival: on_msg, *)
(* writer and its reconnects never overlap or overtake.                     *)
THEOREM AtMostOnceInOrderHolds == ISpec => []AtMostOnceInOrder
<1>1. ASSUME IngestInv PROVE AtMostOnceInOrder
  <2>. DEFINE s == db \o Pending
              t == s \o Q
  <2>1. db \in Seq(Nat) /\ Pending \in Seq(Nat) /\ Q \in Seq(Nat)
    BY <1>1, PendingType DEF IngestInv, Types
  <2>2. Increasing(Pending) /\ Before(Pending, Q)
    BY <1>1 DEF IngestInv, InLine, Pending, Increasing, Before
  <2>3. s \in Seq(Nat) /\ Increasing(s)
    BY <1>1, <2>1, <2>2, ConcatFacts, ConcatIncreasing DEF IngestInv, InLine
  <2>4. Before(s, Q)
    BY <1>1, <2>1, <2>2, ConcatBounds DEF IngestInv, InLine
  <2>5. Increasing(t)
    BY <1>1, <2>1, <2>3, <2>4, ConcatIncreasing DEF IngestInv, InLine
  <2>. QED
    BY <2>5 DEF AtMostOnceInOrder, Increasing
<1>. QED
  BY <1>1, IngestInvariance, PTL

(* The counter INSERTED never claims a row that is not committed.        *)
THEOREM InsertedIsCommittedHolds == ISpec => []InsertedIsCommitted
<1>1. ASSUME IngestInv PROVE InsertedIsCommitted
  BY <1>1, SeqFacts DEF IngestInv, Types, Accounted, InsertedIsCommitted
<1>. QED
  BY <1>1, IngestInvariance, PTL

(* Messages are numbered from one on. *)
Numbers == {db, batch, Q} \subseteq Seq(Nat \ {0})

LEMMA NextNumbers == IngestInv /\ Numbers /\ [INext]_ivars => Numbers'
<1>. SUFFICES ASSUME IngestInv, Numbers, [INext]_ivars PROVE Numbers'
  OBVIOUS
<1>. DEFINE N == Nat \ {0}
<1>1. /\ db \in Seq(N) /\ batch \in Seq(N) /\ Q \in Seq(N)
      /\ arrived + 1 \in N
  BY DEF Numbers, IngestInv, Types
<1>2. /\ <<>> \in Seq(N) /\ db \o batch \in Seq(N) /\ Append(Q, arrived + 1) \in Seq(N)
  BY <1>1
<1>3. CASE Take
  <2>1. Head(Q) \in N /\ Tail(Q) \in Seq(N)
    BY <1>1, <1>3 DEF Take
  <2>2. <<Head(Q)>> \in Seq(N) /\ Append(batch, Head(Q)) \in Seq(N)
    BY <1>1, <2>1
  <2>. QED
    BY <1>1, <1>3, <2>1, <2>2 DEF Take, Numbers
<1>4. CASE OnMsg
  BY <1>1, <1>2, <1>4 DEF OnMsg, Numbers
<1>5. CASE Commit \/ Count \/ WriterFails \/ Restart
  BY <1>1, <1>2, <1>5 DEF Commit, Count, WriterFails, Restart, Numbers
<1>6. CASE Connect \/ Insert \/ DatabaseStalls \/ DatabaseReturns \/ UNCHANGED ivars
  BY <1>1, <1>6 DEF Connect, Insert, DatabaseStalls, DatabaseReturns, ivars, Numbers
<1>. QED
  BY <1>3, <1>4, <1>5, <1>6 DEF INext, Writer, IFault

(* Queue, batch, counter and gauge stay within their bounds. *)
THEOREM IngestTypeCorrect == ISpec => []ITypeOK
<1>1. IInit => Numbers
  BY DEF IInit, Numbers
<1>2. ASSUME IngestInv, Numbers PROVE ITypeOK
  <2>1. ASSUME NEW s \in Seq(Nat \ {0}), UpTo(s, arrived) PROVE s \in Rows
    <3>1. /\ DOMAIN s = 1..Len(s) /\ Len(s) \in Nat
          /\ \A i \in 1..Len(s) : s[i] \in 1..Arrivals
      BY <1>2, <2>1, SizeAssumption DEF UpTo, IngestInv, Types
    <3>2. s = [i \in 1..Len(s) |-> s[i]]
      BY <2>1, <3>1
    <3>3. [i \in 1..Len(s) |-> s[i]] \in Seq(1..Arrivals)
      BY <3>1
    <3>. QED
      BY <3>2, <3>3, Zenon DEF Rows
  <2>2. Q \in Rows /\ batch \in Rows /\ db \in Rows
    BY <1>2, <2>1 DEF Numbers, IngestInv, InLine
  <2>3. INSERTED \in 0..Arrivals
    <3>1. /\ Len(db) \in Nat /\ Len(batch) \in Nat /\ Len(Q) \in Nat
          /\ Len(Pending) \in Nat
      BY <1>2, PendingType, SeqFacts DEF IngestInv, Types
    <3>2. INSERTED \in Nat /\ arrived \in 0..Arrivals /\ Arrivals \in Nat
      BY <1>2, SizeAssumption DEF IngestInv, Types
    <3>3. INSERTED <= Len(db) /\ Len(db) <= arrived
      BY <1>2, <3>1, <3>2 DEF IngestInv, Accounted
    <3>. QED
      BY <3>1, <3>2, <3>3
  <2>. QED
    BY <1>2, <2>2, <2>3 DEF ITypeOK, IngestInv, Types
<1>. QED
  BY <1>1, <1>2, NextNumbers, IngestInvariance, PTL DEF ISpec

-----------------------------------------------------------------------------
(* The interlock *)

(* A beat that has been stamped and not yet acted on is fresh: its callback *)
(* ends within the second.  So it cannot take safe mode back from a ticker  *)
(* that found the beat before it too old.                                   *)
FreshWhileStamped == callback = "stamped" => age = 0

Within == age \in Int /\ ticker \in {"off", "started", "wait", "look", "stale", "trip"}

InTime == Within /\ FreshWhileStamped /\ TripsInTime

(* Min of two integers is one of them. *)
LEMMA MinOfTwo == ASSUME NEW m \in Int, NEW n \in Int PROVE Min({m, n}) \in {m, n}
<1>1. \E x \in {m, n} : \A y \in {m, n} : x <= y
  <2>1. CASE m <= n
    BY <2>1
  <2>2. CASE n < m
    BY <2>2
  <2>. QED
    BY <2>1, <2>2
<1>. QED
  BY <1>1 DEF Min

(* Each step of the ticker, the callback and what surrounds them keeps it.  *)
LEMMA InTimeStep == InTime /\ [LNext]_lvars => InTime'
<1>. SUFFICES ASSUME InTime, [LNext]_lvars PROVE InTime'
  OBVIOUS
<1>. USE DEF InTime, Within, FreshWhileStamped, TripsInTime, Relay
<1>1. CASE Subscribed
  BY <1>1 DEF Subscribed
<1>2. CASE Second
  <2>1. age' \in {age + 1, AgeMax}
    BY <1>2, MinOfTwo, BeatAssumption DEF Second
  <2>. QED
    BY <1>2, <2>1, BeatAssumption DEF Second
<1>3. CASE Ticker
  BY <1>3 DEF Ticker, Look, LookTripped, Trip
<1>4. CASE Delivery
  BY <1>4 DEF Delivery, Beat, BeatUnheard
<1>5. CASE Rearm
  BY <1>5 DEF Rearm
<1>6. CASE InterlockRestarts
  BY <1>6 DEF InterlockRestarts
<1>7. CASE Surroundings
  BY <1>7 DEF Surroundings, RelayStops, RelayStarts, LinkBreaks, LinkReturns,
              StormComesOrGoes, EarLost
<1>8. CASE UNCHANGED lvars
  BY <1>8 DEF lvars
<1>. QED
  BY <1>1, <1>2, <1>3, <1>4, <1>5, <1>6, <1>7, <1>8 DEF LNext

(* Once the ticker has looked, a last beat more than three seconds old      *)
(* means safe mode, wherever the callback ran between the reads and the     *)
(* store of the ticker, and whatever beats came late or in bursts.          *)
THEOREM TripsInTimeHolds == LSpec => []TripsInTime
<1>1. LInit => InTime
  BY DEF LInit, InTime, Within, FreshWhileStamped, TripsInTime
<1>2. InTime => TripsInTime
  BY DEF InTime
<1>. QED
  BY <1>1, <1>2, InTimeStep, PTL DEF LSpec
-----------------------------------------------------------------------------
(* The trigger and the monitor *)

(* A trigger whose POST the monitor has not taken up has had no storm; the  *)
(* flag, and the loop that found or removed it, stand for at least one      *)
(* trigger that has not had one.                                            *)
TriggerInv ==
    /\ answer \in [Trigger -> {"none", "waiting", "armed", "failed"}]
    /\ post \in [Trigger -> {"none", "queued", "set", "done"}]
    /\ served \in [Trigger -> {"none", "flagged", "taken", "stormed", "lost"}]
    /\ flag \in BOOLEAN /\ storms \in Nat
    /\ \A t \in Trigger : answer[t] = "none" => post[t] = "none"
    /\ \A t \in Trigger : post[t] \in {"none", "queued"} => served[t] = "none"
    /\ flag => \E t \in Trigger : served[t] = "flagged"
    /\ loop = "found" => flag
    /\ loop = "taken" => \E t \in Trigger : served[t] = "taken"
    /\ NoStormTwice

Stormed == {t \in Trigger : served[t] = "stormed"}

LEMMA StormedFinite == IsFiniteSet(Stormed) /\ Cardinality(Stormed) \in Nat
BY TriggerAssumption, FS_Subset, FS_CardinalityType DEF Stormed

(* A step that takes no trigger out of the stormed ones, and starts no      *)
(* storm, keeps the count.                                                  *)
LEMMA NoStormStarts ==
    ASSUME TriggerInv, storms' = storms, Stormed' = Stormed
    PROVE  NoStormTwice'
BY DEF TriggerInv, NoStormTwice, Stormed

(* A storm that starts is the storm of every trigger whose flag was taken:  *)
(* there is one, and none of them had a storm before.                       *)
LEMMA StormCounts == ASSUME TriggerInv, StormStarts PROVE NoStormTwice'
<1>1. PICK t \in Trigger : served[t] = "taken"
  BY DEF StormStarts, TriggerInv
<1>2. /\ Stormed \subseteq Stormed' /\ t \in Stormed' /\ t \notin Stormed
      /\ storms' = storms + 1
  BY <1>1 DEF StormStarts, Moved, Stormed, TriggerInv
<1>3. IsFiniteSet(Stormed') /\ Cardinality(Stormed') \in Nat
  BY TriggerAssumption, FS_Subset, FS_CardinalityType DEF Stormed
<1>4. Cardinality(Stormed \cup {t}) = Cardinality(Stormed) + 1
  BY <1>2, StormedFinite, FS_AddElement
<1>5. Cardinality(Stormed \cup {t}) <= Cardinality(Stormed')
  BY <1>2, <1>3, FS_Subset
<1>6. storms \in Nat /\ storms <= Cardinality(Stormed)
  BY DEF TriggerInv, NoStormTwice, Stormed
<1>7. storms + 1 <= Cardinality(Stormed')
  BY <1>3, <1>4, <1>5, <1>6, StormedFinite
<1>. QED
  BY <1>2, <1>7 DEF NoStormTwice, Stormed

(* Every step of the API, of the monitor's threads and of a restart. *)
LEMMA TriggerStep == TriggerInv /\ [CNext]_cvars => TriggerInv'
<1>. SUFFICES ASSUME TriggerInv, [CNext]_cvars PROVE TriggerInv'
  OBVIOUS
<1>1. CASE UNCHANGED cvars
  BY <1>1 DEF cvars, TriggerInv, NoStormTwice
<1>2. ASSUME NEW t \in Trigger, Fire(t) PROVE TriggerInv'
  BY <1>2 DEF Fire, TriggerInv, NoStormTwice
<1>3. ASSUME NEW t \in Trigger, TimesOut(t) PROVE TriggerInv'
  BY <1>3 DEF TimesOut, TriggerInv, NoStormTwice
<1>4. ASSUME NEW t \in Trigger, SetFlag(t) PROVE TriggerInv'
  <2>1. served[t] = "none" /\ served' = [served EXCEPT ![t] = "flagged"]
    BY <1>4 DEF SetFlag, TriggerInv
  <2>2. Stormed' = Stormed /\ storms' = storms
    BY <1>4, <2>1 DEF SetFlag, Stormed, TriggerInv
  <2>3. NoStormTwice'
    BY <2>2, NoStormStarts
  <2>. QED
    BY <1>4, <2>1, <2>3 DEF SetFlag, TriggerInv
<1>5. ASSUME NEW t \in Trigger, Reply(t) PROVE TriggerInv'
  BY <1>5 DEF Reply, TriggerInv, NoStormTwice
<1>6. CASE FindFlag
  BY <1>6 DEF FindFlag, TriggerInv, NoStormTwice
<1>7. CASE RemoveFlag
  <2>1. Stormed' = Stormed /\ storms' = storms
    BY <1>7 DEF RemoveFlag, Moved, Stormed, TriggerInv
  <2>2. NoStormTwice'
    BY <2>1, NoStormStarts
  <2>3. PICK t \in Trigger : served[t] = "flagged"
    BY <1>7 DEF RemoveFlag, TriggerInv
  <2>4. served'[t] = "taken"
    BY <1>7, <2>3 DEF RemoveFlag, Moved
  <2>. QED
    BY <1>7, <2>2, <2>4 DEF RemoveFlag, Moved, TriggerInv
<1>8. CASE StormStarts
  BY <1>8, StormCounts DEF StormStarts, Moved, TriggerInv
<1>9. CASE StormEnds
  BY <1>9 DEF StormEnds, TriggerInv, NoStormTwice
<1>10. CASE MonitorRestarts
  <2>1. Stormed' = Stormed /\ storms' = storms
    BY <1>10 DEF MonitorRestarts, Moved, Stormed, TriggerInv
  <2>2. NoStormTwice'
    BY <2>1, NoStormStarts
  <2>. QED
    BY <1>10, <2>2 DEF MonitorRestarts, Broken, Moved, TriggerInv
<1>. QED
  BY <1>1, <1>2, <1>3, <1>4, <1>5, <1>6, <1>7, <1>8, <1>9, <1>10 DEF CNext, HTTP, Loop

LEMMA TriggerStart == CInit => TriggerInv
<1>. SUFFICES ASSUME CInit PROVE TriggerInv
  OBVIOUS
<1>1. storms <= Cardinality(Stormed)
  BY StormedFinite DEF CInit
<1>. QED
  BY <1>1 DEF CInit, TriggerInv, NoStormTwice, Stormed

(* No trigger has more than one storm, for any number of triggers, POSTs    *)
(* that time out and restarts of the monitor at any point.                  *)
THEOREM NoStormTwiceHolds == CInit /\ [][CNext]_cvars => []NoStormTwice
<1>1. TriggerInv => NoStormTwice
  BY DEF TriggerInv
<1>. QED
  BY <1>1, TriggerStart, TriggerStep, PTL

-----------------------------------------------------------------------------
(* The three workloads together *)

(* Each workload takes its own steps, whatever the others do. *)
LEMMA EachOnItsOwn == [Next]_vars => [INext]_ivars /\ [LNext]_lvars /\ [CNext]_cvars
BY DEF Next, vars, InIngest, InInterlock, InCooling

(* In the composition that Workloads.cfg runs, what holds of each workload  *)
(* alone holds of all of them together.                                     *)
THEOREM WorkloadsTogether ==
    Spec => /\ []ITypeOK /\ []AtMostOnceInOrder /\ []InsertedIsCommitted
            /\ []TripsInTime /\ []NoStormTwice
<1>1. Init => IInit /\ LInit /\ CInit
  BY DEF Init
<1>2. Spec => ISpec /\ LSpec /\ CInit /\ [][CNext]_cvars
  BY <1>1, EachOnItsOwn, PTL DEF Spec, ISpec, LSpec
<1>. QED
  BY <1>2, IngestTypeCorrect, AtMostOnceInOrderHolds, InsertedIsCommittedHolds,
     TripsInTimeHolds, NoStormTwiceHolds, PTL
=============================================================================
