-------------------------- MODULE MCFilterTargetPods --------------------------
(***************************************************************************)
(* Instances of FilterTargetPods for TLC: pods that can be chosen and pods *)
(* that cannot, and percentages at the boundaries.                         *)
(***************************************************************************)
EXTENDS FilterTargetPods

Healthy == [running |-> TRUE, ready |-> TRUE, deleting |-> FALSE]
PodKinds == {Healthy, [Healthy EXCEPT !.ready = FALSE], [Healthy EXCEPT !.deleting = TRUE]}

Shares == {-100, -1, 0, 1, 33, 34, 50, 66, 67, 99, 100, 101, 134, 200, 400}
=============================================================================
