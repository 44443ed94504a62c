------------------------------ MODULE MCChaosRun ------------------------------
(***************************************************************************)
(* Instances of ChaosRun for TLC: the layouts of the job's stages and the  *)
(* sets of step types its runs choose from.                                *)
(***************************************************************************)
EXTENDS ChaosRun

\* Layouts: the stage of step 1, 2, ...
OneStage     == <<1, 1>>
ForkInMiddle == <<1, 2, 2, 3>>
Single       == <<1>>

\* One type for each way of naming the job's snapshot, and one no runner has.
AllKinds  == {"litmus-pod-delete", "godzilla-pod-autoscaler",
              "godzilla-pod-disk-fill", "no-such-type"}
FullName  == {"godzilla-pod-disk-fill"}
TwoKinds  == {"litmus-container-kill", "no-such-type"}
BareName  == {"litmus-pod-delete"}
=============================================================================
