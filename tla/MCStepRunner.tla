----------------------------- MODULE MCStepRunner -----------------------------
(***************************************************************************)
(* Instances of StepRunner for TLC: which runs there are, and which runner *)
(* functions they may be.                                                  *)
(***************************************************************************)
EXTENDS StepRunner

\* Two generations of one job, and one run alone.
TwoRuns == 1 .. 2
OneRun  == {1}

Label(generation) == [generation |-> generation, step |-> "step", job |-> "job"]
TwoGenerations == [r \in TwoRuns |-> Label(r)]
OneGeneration  == [r \in OneRun |-> Label(r)]

\* One runner function with a single Job, and one with a Job per target.
BothKinds == {"runPodKill", "runContainerKill"}
=============================================================================
