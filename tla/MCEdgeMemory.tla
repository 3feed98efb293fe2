---------------------------- MODULE MCEdgeMemory ----------------------------
(* Instances of EdgeMemory for TLC: one pod per workload, or two pods of    *)
(* one workload while a rollout replaces it.                                *)
EXTENDS EdgeMemory

CONSTANTS cool1, cool2, tsdb1

OneEach == [p \in {cool1, tsdb1} |-> IF p = tsdb1 THEN 2 ELSE 1]
Rollout == [p \in {cool1, cool2, tsdb1} |-> IF p = tsdb1 THEN 2 ELSE 1]
=============================================================================
