----------------------------- MODULE MCReconciler -----------------------------
(***************************************************************************)
(* Instances of Reconciler for TLC.                                        *)
(***************************************************************************)
EXTENDS Reconciler

TwoWorkers == {1, 2}
OneWorker  == {1}

\* Two jobs of one name, and one that is named like a snapshot of theirs.
Namesakes == {<<"ns1", "a">>, <<"ns2", "a">>, <<"ns1", "a-1">>}
OneKey    == {<<"ns1", "a">>}

\* The second change writes a spec that is refused.
Second == {2}

SnapshotNamed == [name \in Names |-> IF name = "a-1" THEN <<"a", 1>> ELSE None]
=============================================================================
