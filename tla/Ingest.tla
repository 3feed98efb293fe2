------------------------------- MODULE Ingest -------------------------------
(***************************************************************************)
(* telemetry-ingest: workloads/telemetry-ingest/main.py.  The MQTT thread  *)
(* puts every sensor message in a bounded queue, or drops it; the writer   *)
(* thread takes batches off the queue and commits them to TimescaleDB.  An *)
(* error of the database ends the connection, and with it the batch in     *)
(* hand.  Messages are numbered in the order of their arrival.             *)
(***************************************************************************)
EXTENDS Integers, Sequences, SequencesExt

CONSTANTS
    QueueMax,  \* maxsize of the queue (50000)
    BatchMax,  \* rows per insert (500)
    Arrivals   \* bound on the messages that arrive

ASSUME SizeAssumption ==
    QueueMax \in Nat \ {0} /\ BatchMax \in Nat \ {0} /\ Arrivals \in Nat

VARIABLES
    arrived,   \* how many messages have arrived
    Q,         \* the queue
    batch,     \* what the writer took off it
    writer,    \* where the writer thread is
    db,        \* rows committed, in order
    up,        \* whether the database answers
    INSERTED,  \* counter: rows written, since the process started
    QDEPTH     \* gauge: pending rows

ivars == <<arrived, Q, batch, writer, db, up, INSERTED, QDEPTH>>

IInit ==
    /\ arrived = 0
    /\ Q = <<>> /\ batch = <<>>
    /\ writer = "connect"
    /\ db = <<>>
    /\ up \in BOOLEAN
    /\ INSERTED = 0 /\ QDEPTH = 0

(* on_msg: put_nowait, or drop when the queue is full. *)
OnMsg ==
    /\ arrived < Arrivals
    /\ arrived' = arrived + 1
    /\ Q' = IF Len(Q) < QueueMax THEN Append(Q, arrived + 1) ELSE Q
    /\ UNCHANGED <<batch, writer, db, up, INSERTED, QDEPTH>>

Connect ==
    /\ writer = "connect" /\ up
    /\ writer' = "get"
    /\ UNCHANGED <<arrived, Q, batch, db, up, INSERTED, QDEPTH>>

(* Mutant: the bound of the batch is checked after the row is added. *)
TakeOneTooMany ==
    /\ \/ writer = "get"
       \/ writer = "more" /\ Len(batch) <= BatchMax
    /\ Q # <<>>
    /\ batch' = IF writer = "get" THEN <<Head(Q)>> ELSE Append(batch, Head(Q))
    /\ Q' = Tail(Q)
    /\ writer' = "more"
    /\ UNCHANGED <<arrived, db, up, INSERTED, QDEPTH>>

(* Q.get() blocks for the first row; the rest come without waiting. *)
Take ==
    /\ \/ writer = "get"
       \/ writer = "more" /\ Len(batch) < BatchMax
    /\ Q # <<>>
    /\ batch' = IF writer = "get" THEN <<Head(Q)>> ELSE Append(batch, Head(Q))
    /\ Q' = Tail(Q)
    /\ writer' = "more"
    /\ UNCHANGED <<arrived, db, up, INSERTED, QDEPTH>>

(* Mutant: the rows are counted as soon as they are sent. *)
InsertCounts ==
    /\ writer = "more" /\ up
    /\ writer' = "commit"
    /\ INSERTED' = INSERTED + Len(batch)
    /\ UNCHANGED <<arrived, Q, batch, db, up, QDEPTH>>

(* The batch is full, the queue empty, or a second has passed: executemany. *)
Insert ==
    /\ writer = "more" /\ up
    /\ writer' = "commit"
    /\ UNCHANGED <<arrived, Q, batch, db, up, INSERTED, QDEPTH>>

Commit ==
    /\ writer = "commit" /\ up
    /\ db' = db \o batch
    /\ writer' = "count"
    /\ UNCHANGED <<arrived, Q, batch, up, INSERTED, QDEPTH>>

Count ==
    /\ writer = "count"
    /\ INSERTED' = INSERTED + Len(batch)
    /\ QDEPTH' = Len(Q)
    /\ batch' = <<>>
    /\ writer' = "get"
    /\ UNCHANGED <<arrived, Q, db, up>>

(* Mutants: the batch of a failed insert goes back to the queue; the writer *)
(* does not come back.                                                      *)
WriterFailsRequeues ==
    /\ writer \in {"more", "commit"}
    /\ db' \in IF writer = "commit" THEN {db, db \o batch} ELSE {db}
    /\ Q' = batch \o Q
    /\ batch' = <<>>
    /\ writer' = "connect"
    /\ UNCHANGED <<arrived, up, INSERTED, QDEPTH>>
WriterFailsForGood ==
    /\ writer \in {"more", "commit"}
    /\ writer' = "gone"
    /\ UNCHANGED <<arrived, Q, batch, db, up, INSERTED, QDEPTH>>

(* An error in executemany or in commit ends the connection; the batch is   *)
(* gone, unless only the answer to the commit was lost.  A connection that  *)
(* cannot be made is tried again.                                           *)
WriterFails ==
    /\ writer \in {"more", "commit"}
    /\ db' \in IF writer = "commit" THEN {db, db \o batch} ELSE {db}
    /\ batch' = <<>>
    /\ writer' = "connect"
    /\ UNCHANGED <<arrived, Q, up, INSERTED, QDEPTH>>

(* The process is killed: the queue goes with it, and the counters restart. *)
Restart ==
    /\ db' \in IF writer = "commit" THEN {db, db \o batch} ELSE {db}
    /\ Q' = <<>> /\ batch' = <<>>
    /\ writer' = "connect"
    /\ INSERTED' = 0 /\ QDEPTH' = 0
    /\ UNCHANGED <<arrived, up>>

(* The disk storm: the database stops answering, and answers again. *)
DatabaseStalls ==
    /\ up /\ up' = FALSE
    /\ UNCHANGED <<arrived, Q, batch, writer, db, INSERTED, QDEPTH>>
DatabaseReturns ==
    /\ ~up /\ up' = TRUE
    /\ UNCHANGED <<arrived, Q, batch, writer, db, INSERTED, QDEPTH>>

Writer == Connect \/ Take \/ Insert \/ Commit \/ Count
IFault == WriterFails \/ Restart \/ DatabaseStalls

INext == OnMsg \/ Writer \/ IFault \/ DatabaseReturns

ISpec == IInit /\ [][INext]_ivars

-----------------------------------------------------------------------------
(* Properties *)

Rows == Seq(1..Arrivals)

(* Every variable has its type, and the queue and the batch stay in bounds. *)
ITypeOK ==
    /\ arrived \in 0..Arrivals
    /\ Q \in Rows /\ Len(Q) <= QueueMax
    /\ batch \in Rows /\ Len(batch) <= BatchMax
    /\ writer \in {"connect", "get", "more", "commit", "count"}
    /\ db \in Rows
    /\ up \in BOOLEAN
    /\ INSERTED \in 0..Arrivals /\ QDEPTH \in 0..QueueMax

(* Each message is stored at most once, and in the order of arrival: what   *)
(* is committed, what the writer holds and what is queued never overlap nor *)
(* overtake each other, whatever was dropped, lost with a failed insert, or *)
(* committed without the writer knowing.                                    *)
Pending == IF writer = "count" THEN <<>> ELSE batch
AtMostOnceInOrder ==
    LET line == db \o Pending \o Q
    IN  \A i, j \in DOMAIN line : i < j => line[i] < line[j]

(* The counter never claims a row that is not committed. *)
InsertedIsCommitted == INSERTED <= Len(db)

(* Once the faults stop, whatever was queued is taken and settled: the      *)
(* queue and the batch drain, also behind an error and behind a stall.      *)
Drains == <>[][~IFault]_ivars => <>[](Q = <<>> /\ batch = <<>>)

(* main.py 3: backpressure is visible, the queue depth gauge rises when the *)
(* database slows.  At the least, once a database that has taken rows stops *)
(* answering and the queue behind the writer has filled, the gauge does not *)
(* read as if nothing were pending.                                         *)
WaitsForDatabase == ~up /\ writer \in {"more", "commit"}
GaugeShowsBacklog ==
    INSERTED > 0 /\ WaitsForDatabase /\ Len(Q) = QueueMax => QDEPTH > 0
=============================================================================
