---------------------------- MODULE StepLifecycle ----------------------------
(***************************************************************************)
(* The life of the runner of one step, as a graph of labels: what ChaosRun *)
(* lets a runner do, and what StepRunner shows the runners to do.          *)
(***************************************************************************)

\* The labels at which a runner updates its entry of the snapshot.
StepLabels == {"stepRunning", "stepSuccess", "stepFailed", "createFailed"}

\* A runner has returned: it reported success, it reported a failure, or
\* its watch ended without a verdict.
Returned == {"succeeded", "failed", "abandoned"}

RunnerLabels == StepLabels \cup Returned
                \cup {"idle", "create", "openWatch", "wait", "failJob",
                      "failJobCreate", "dead"}

\* The choices a runner meets: the target pods are found and their Jobs
\* created, or not; the watch opens, or not; and in the event loop, a pod
\* succeeded and the cleanup did, or a pod failed, the step timed out or
\* the cleanup failed, or the watch was closed.
Outcomes(label) ==
  CASE label = "create"    -> {"stepRunning", "createFailed"}
    [] label = "openWatch" -> {"wait", "stepFailed"}
    [] label = "wait"      -> {"stepSuccess", "stepFailed", "abandoned"}
    [] OTHER               -> {}

\* Where a runner goes on after an update of the snapshot, whether the update
\* succeeded or not: the results of UpdateSnapshot and UpdateJobStatus are
\* ignored.
AfterReport(label) ==
  CASE label = "stepRunning"  -> "openWatch"
    [] label = "stepSuccess"  -> "succeeded"
    [] label = "createFailed" -> "failJobCreate"
    [] label = "stepFailed"   -> "failJob"
    [] OTHER                  -> "failed"

\* The labels a runner may move to, one step of its life on.
Successors(label) ==
  Outcomes(label) \cup
  (IF label \in StepLabels \cup {"failJob", "failJobCreate"}
   THEN {AfterReport(label)} ELSE {})

=============================================================================
