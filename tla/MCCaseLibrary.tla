---------------------------- MODULE MCCaseLibrary ----------------------------
(* Verdicts about three workloads that share the disk.  Their similarities  *)
(* fall on every side of the thresholds: Both and Mesh fold (0.87), One and *)
(* Both are variants, exactly at 0.60, Chain is a variant of both, and the  *)
(* only victim of Self is its root.                                         *)
EXTENDS CaseLibrary

CONSTANTS cool, tsdb, dcim

Arrow(src, dst, kinds) == [src |-> src, dst |-> dst, kinds |-> kinds]
Told(root, blast, edges) == [root |-> root, blast |-> blast, edges |-> edges]

One   == Told(cool, {}, {Arrow(cool, tsdb, {"pvc"})})
Both  == Told(cool, {tsdb, dcim}, One.edges \cup {Arrow(cool, dcim, {"pvc"})})
Mesh  == Told(cool, {tsdb, dcim}, Both.edges \cup {Arrow(dcim, tsdb, {"pvc", "psi"})})
Chain == Told(cool, {tsdb, dcim}, One.edges \cup {Arrow(tsdb, dcim, {"pvc"})})
Self  == Told(tsdb, {tsdb}, {Arrow(tsdb, tsdb, {"pvc"})})

Storms == {One, Both, Mesh, Chain, Self}
=============================================================================
