-------------------------- MODULE RememberedGraph --------------------------
(***************************************************************************)
(* What the engine's memory promises to whoever reads /graph, without the  *)
(* passes, the loops inside them and their faults: a durable table of      *)
(* couplings that is never lost, whose rows change only as evidence        *)
(* allows, and answers that repeat it.                                     *)
(***************************************************************************)
EXTENDS Integers

CONSTANTS
    Key,             \* ordered pairs of workloads
    ShowAt, HideAt,  \* thresholds of the visible flag
    None             \* no row for this key

VARIABLES
    memory,  \* the durable table
    answer   \* what /graph answers: its kind, and for each edge its key,
             \* confidence and state

mvars == <<memory, answer>>

Silent(kind) == [kind |-> kind, edges |-> {}]

MInit ==
    /\ memory = [k \in Key |-> None]
    /\ answer = Silent("graph")

(* What may become of a row r: its floor never sinks; confidence is gained  *)
(* by a confirmation, or by being lifted to the floor; the visible flag is  *)
(* set only at the show threshold and cleared only below the hide           *)
(* threshold.                                                               *)
Evolves(r, s) ==
    /\ s.base >= r.base
    /\ s.conf > r.conf => s.state \in {"confirming", "active"} \/ s.conf = s.base
    /\ s.visible /\ ~r.visible => s.conf >= ShowAt
    /\ r.visible /\ ~s.visible => s.conf < HideAt

(* The table a commit leaves: rows may be new, and none is forgotten. *)
Learn ==
    /\ \A k \in Key : memory[k] # None =>
           memory'[k] # None /\ Evolves(memory[k], memory'[k])
    /\ UNCHANGED answer

(* Every edge of an answer is a durable row, at or above its floor. *)
Answer ==
    /\ answer'.kind = "graph"
    /\ \A a \in answer'.edges :
           /\ a.key \in Key /\ memory[a.key] # None
           /\ a.conf = memory[a.key].conf /\ a.state = memory[a.key].state
           /\ a.conf >= memory[a.key].base
    /\ UNCHANGED memory

(* A failed pass answers an error, a restarted engine an empty graph. *)
Forget ==
    /\ answer' \in {Silent("error"), Silent("graph")}
    /\ UNCHANGED memory

MNext == Learn \/ Answer \/ Forget

MSpec == MInit /\ [][MNext]_mvars
=============================================================================
