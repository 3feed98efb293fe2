------------------------------ MODULE Cooling ------------------------------
(***************************************************************************)
(* cooling-monitor and the S1 trigger of the API gateway.  A trigger posts *)
(* to the monitor, whose HTTP thread creates the flag file; its main loop  *)
(* journals, finds the flag, removes it and runs the disk storm.  The flag *)
(* lives on the volume and outlasts the process.                           *)
(***************************************************************************)
EXTENDS Integers, FiniteSets

CONSTANT Trigger  \* triggers fired through the API

ASSUME TriggerAssumption == IsFiniteSet(Trigger)

VARIABLES
    answer,  \* what the API answered to each trigger
    post,    \* what the monitor's HTTP thread has done of each
    flag,    \* whether the file FLUSH exists
    loop,    \* where the monitor's main loop is
    served,  \* what became of the flag each trigger set
    storms   \* storms started

cvars == <<answer, post, flag, loop, served, storms>>

CInit ==
    /\ answer = [t \in Trigger |-> "none"]
    /\ post = [t \in Trigger |-> "none"]
    /\ served = [t \in Trigger |-> "none"]
    /\ flag = FALSE /\ storms = 0
    /\ loop = "journal"

(* The triggers a step moves from one fate to the next. *)
Moved(from, to) ==
    [t \in Trigger |-> IF served[t] = from THEN to ELSE served[t]]

(* trigger: POST /flush. *)
Fire(t) ==
    /\ answer[t] = "none"
    /\ answer' = [answer EXCEPT ![t] = "waiting"]
    /\ post' = [post EXCEPT ![t] = "queued"]
    /\ UNCHANGED <<flag, loop, served, storms>>

(* do_POST creates the file; the server answers one request at a time. *)
SetFlag(t) ==
    /\ post[t] = "queued" /\ \A u \in Trigger : post[u] # "set"
    /\ flag' = TRUE
    /\ post' = [post EXCEPT ![t] = "set"]
    /\ served' = [served EXCEPT ![t] = "flagged"]
    /\ UNCHANGED <<answer, loop, storms>>

(* 202, if the API still waits for it. *)
Reply(t) ==
    /\ post[t] = "set"
    /\ post' = [post EXCEPT ![t] = "done"]
    /\ answer' = [answer EXCEPT ![t] = IF @ = "waiting" THEN "armed" ELSE @]
    /\ UNCHANGED <<flag, loop, served, storms>>

(* Eight seconds pass: 503, whatever the monitor still makes of the POST. *)
TimesOut(t) ==
    /\ answer[t] = "waiting"
    /\ answer' = [answer EXCEPT ![t] = "failed"]
    /\ UNCHANGED <<post, flag, loop, served, storms>>

FindFlag ==
    /\ loop = "journal" /\ flag
    /\ loop' = "found"
    /\ UNCHANGED <<answer, post, flag, served, storms>>

(* os.remove: also of what was set since the file was found. *)
RemoveFlag ==
    /\ loop = "found"
    /\ flag' = FALSE
    /\ loop' = "taken" /\ served' = Moved("flagged", "taken")
    /\ UNCHANGED <<answer, post, storms>>

StormStarts ==
    /\ loop = "taken"
    /\ loop' = "fio" /\ storms' = storms + 1
    /\ served' = Moved("taken", "stormed")
    /\ UNCHANGED <<answer, post, flag>>

(* Mutant: the file is removed after the storm, not before. *)
StormEndsRemoves ==
    /\ loop = "fio"
    /\ loop' = "journal" /\ flag' = FALSE
    /\ UNCHANGED <<answer, post, served, storms>>

StormEnds ==
    /\ loop = "fio"
    /\ loop' = "journal"
    /\ UNCHANGED <<answer, post, flag, served, storms>>

(* Requests the monitor had not answered fail with it. *)
Broken ==
    /\ post' = [t \in Trigger |-> IF post[t] = "none" THEN "none" ELSE "done"]
    /\ answer' = [t \in Trigger |->
                    IF answer[t] = "waiting" THEN "failed" ELSE answer[t]]

(* The process dies and starts again: a flag removed whose storm has not    *)
(* begun is lost, one still on the volume is not.                           *)
MonitorRestarts ==
    /\ Broken
    /\ loop' = "journal" /\ served' = Moved("taken", "lost")
    /\ UNCHANGED <<flag, storms>>

Loop == FindFlag \/ RemoveFlag \/ StormStarts \/ StormEnds
HTTP == \E t \in Trigger : SetFlag(t) \/ Reply(t)

CNext == \/ \E t \in Trigger : Fire(t) \/ TimesOut(t)
         \/ HTTP \/ Loop \/ MonitorRestarts

-----------------------------------------------------------------------------
(* Properties *)

(* Never twice: not again after a restart in the middle of the storm, and   *)
(* not once per POST when several POSTs found the file there.               *)
NoStormTwice == storms <= Cardinality({t \in Trigger : served[t] = "stormed"})

(* A trigger storms once.  Never twice, and at least once: what was answered*)
(* `armed' is stormed, or was lost by a crash between the removal of the    *)
(* flag and the storm, which is the only gap; a POST that came while a storm*)
(* ran, or between the finding and the removal of the flag, included.       *)
TriggerStormsOnce ==
    /\ []NoStormTwice
    /\ <>[][~MonitorRestarts]_cvars =>
         \A t \in Trigger :
            answer[t] = "armed" ~> served[t] \in {"stormed", "lost"}
=============================================================================
