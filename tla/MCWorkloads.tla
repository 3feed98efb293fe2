---------------------------- MODULE MCWorkloads ----------------------------
(***************************************************************************)
(* The workloads of the S1 cascade on small instances.  They share no      *)
(* variable: the disk storm is an input to each, free to come and go.  So  *)
(* the run explores them one at a time, the others at rest, and what holds *)
(* of each holds of any interleaving of them.                              *)
(***************************************************************************)
EXTENDS Ingest, Interlock, Cooling

VARIABLE part  \* the workload that runs

vars == <<part, ivars, lvars, cvars>>

Init == /\ part \in {"ingest", "interlock", "cooling"}
        /\ IInit /\ LInit /\ CInit

InIngest(A) == part = "ingest" /\ A /\ UNCHANGED <<part, lvars, cvars>>
InInterlock(A) == part = "interlock" /\ A /\ UNCHANGED <<part, ivars, cvars>>
InCooling(A) == part = "cooling" /\ A /\ UNCHANGED <<part, ivars, lvars>>

Next == InIngest(INext) \/ InInterlock(LNext) \/ InCooling(CNext)

(* The writer is a thread that never ends, and only waits for the queue and *)
(* for the database, which answers again.  Threads and goroutines run; the  *)
(* network delivers; fio is bounded in time.  Seconds pass, however often   *)
(* relay, links and storm change in between: that is the strong fairness.   *)
Fairness ==
    /\ WF_vars(InIngest(Writer)) /\ WF_vars(InIngest(DatabaseReturns))
    /\ WF_vars(InInterlock(Subscribed)) /\ SF_vars(InInterlock(Second))
    /\ WF_vars(InInterlock(Ticker)) /\ WF_vars(InInterlock(Rearm))
    /\ WF_vars(InInterlock(Delivery))
    /\ WF_vars(InCooling(Loop)) /\ WF_vars(InCooling(HTTP))

Spec == Init /\ [][Next]_vars /\ Fairness
=============================================================================
