------------------------------ MODULE StepRunner ------------------------------
(***************************************************************************)
(* The runners of chaos steps against the cluster: the Kubernetes Jobs a   *)
(* runner creates, the pods those Jobs start, the watch the runner sits    *)
(* on, its event loop and its cleanup.  The six runners of the source are  *)
(* one protocol (see ChaosTypes); this module runs several of them at the  *)
(* same time, of different generations of a job or of different jobs, all  *)
(* in the one namespace the operator puts its Jobs in.                     *)
(*                                                                         *)
(* The updates of the snapshot are single steps here; ChaosRun has them in *)
(* full and has of the rest only the graph of StepLifecycle.               *)
(***************************************************************************)
EXTENDS Naturals, Sequences, FiniteSets, ChaosTypes, StepLifecycle

CONSTANTS
  Runs,        \* the runners
  LabelsOf,    \* per runner: the generation, the step and the job it works for
  Kinds,       \* the runner functions they may be
  Targets,     \* places in the list of chosen pods: a pod named twice has two
  Drawn,       \* the random suffixes that may be drawn, few enough to repeat
  ApiMayFail,  \* may a call fail although it is in order?
  None         \* no runner, no target, no suffix

\* A generation of a job is executed at most once, also of jobs that share their
\* name (ChaosRun!AtMostOneRun, Reconciler!OneRunPerName), and PreCheck refuses a
\* job that uses a step name twice.
ASSUME LabelsAssumption ==
  \A r, q \in Runs :
    /\ LabelsOf[r].generation = LabelsOf[q].generation
    /\ LabelsOf[r].step = LabelsOf[q].step
    /\ LabelsOf[r].job = LabelsOf[q].job
    => r = q

ASSUME FiniteAssumption == IsFiniteSet(Runs) /\ IsFiniteSet(Drawn)

ASSUME KindsAssumption == Kinds \subseteq Runners /\ ApiMayFail \in BOOLEAN

ASSUME NoneAssumption == None \notin Runs \cup Targets \cup Drawn

Terminal == {"Succeeded", "Failed"}
Phases   == {"Pending", "Running"} \cup Terminal

VARIABLES
  kind,   \* the runner function of every run
  pc,     \* where it is
  todo,   \* the targets it has still to create a Job for, or the names of the
          \* Jobs it has still to delete
  seen,   \* what ended its loop: a phase or "late"; "error" if the watch or
          \* the cleanup failed, "" so far
  watch,  \* its watch: is it open, and the phases not yet taken from it
  late,   \* has the step's duration passed, and two minutes more?
  owner,  \* per name: the run that created the Job of this name, or None
  dying,  \* the Jobs being deleted, which wait for their pods to go
  phase,  \* per name: the phase of the Job's pod, or "" if there is none
  ended   \* history: the phases in which pods of a run ended

runVars     == <<kind, pc, todo, seen, watch, late>>
clusterVars == <<owner, dying, phase, ended>>
vars        == <<runVars, clusterVars>>

-----------------------------------------------------------------------------
(* Names and labels.                                                       *)

\* A Job has the name of its step, with a random suffix if there is one for
\* every target.  Nobody seeds the source of the suffixes, so depending on the
\* version of Go an operator that was restarted draws the same ones again.
Suffixes == Drawn \cup {None}
JobNames == {LabelsOf[r].step : r \in Runs} \X Suffixes

FanOut(r) == Profile(kind[r]).fanOut

\* The names the Job for a target may get; None is the application as a whole.
JobName(r, target) ==
  {LabelsOf[r].step} \X IF target = None THEN {None} ELSE Drawn

\* Fault: the selector leaves the generation out.
SelectsAnyGeneration(r, q) ==
  LabelsOf[r].step = LabelsOf[q].step /\ LabelsOf[r].job = LabelsOf[q].job

\* Does the label selector of run r match what run q labelled?
Selects(r, q) ==
  /\ LabelsOf[r].generation = LabelsOf[q].generation
  /\ LabelsOf[r].step = LabelsOf[q].step
  /\ LabelsOf[r].job = LabelsOf[q].job

Exists(n) == owner[n] # None

\* The Jobs, and those with a pod, that the selector of r matches.
Listed(r) == {n \in JobNames : Exists(n) /\ Selects(r, owner[n])}
Watched(r) == {n \in Listed(r) : phase[n] # ""}

Closed == [open |-> FALSE, events |-> <<>>]

-----------------------------------------------------------------------------
(* The runner.                                                             *)

Goto(r, label) == pc' = [pc EXCEPT ![r] = label]

\* A runner that works on several targets selects them first; the other one
\* has one Job to create.
Start(r) ==
  /\ pc[r] = "idle"
  /\ IF FanOut(r)
     THEN Goto(r, "select") /\ UNCHANGED todo
     ELSE Goto(r, "create") /\ todo' = [todo EXCEPT ![r] = {None}]
  /\ UNCHANGED <<kind, seen, watch, late, clusterVars>>

\* FilterTargetPods returns some pods, which fill some of the places ...
Select(r) ==
  /\ pc[r] = "select"
  /\ \E pods \in SUBSET Targets \ {{}} :
       todo' = [todo EXCEPT ![r] = pods]
  /\ Goto(r, "create")
  /\ UNCHANGED <<kind, seen, watch, late, clusterVars>>

\* ... or an error: there may be none.
SelectFails(r) ==
  /\ pc[r] = "select"
  /\ Goto(r, "createFailed")
  /\ UNCHANGED <<kind, todo, seen, watch, late, clusterVars>>

CreateJob(r) ==
  /\ pc[r] = "create"
  /\ \E target \in todo[r] : \E n \in JobName(r, target) :
       /\ ~Exists(n)
       /\ owner' = [owner EXCEPT ![n] = r]
       /\ todo' = [todo EXCEPT ![r] = @ \ {target}]
       /\ Goto(r, IF todo[r] = {target} THEN "stepRunning" ELSE "create")
  /\ UNCHANGED <<kind, seen, watch, late, dying, phase, ended>>

\* The name is taken, the creation (or the lookup of a host before it) fails,
\* or it takes effect and is reported as failed.  Jobs created before stay.
CreateJobFails(r) ==
  /\ pc[r] = "create"
  /\ \E target \in todo[r] : \E n \in JobName(r, target) :
       \/ Exists(n) /\ UNCHANGED owner
       \/ ApiMayFail /\ UNCHANGED owner
       \/ ApiMayFail /\ ~Exists(n) /\ owner' = [owner EXCEPT ![n] = r]
  /\ todo' = [todo EXCEPT ![r] = {}]
  /\ Goto(r, "createFailed")
  /\ UNCHANGED <<kind, seen, watch, late, dying, phase, ended>>

\* Fault: the return after a failed creation is missing.
ReportGoesOn(r) ==
  /\ pc[r] \in StepLabels \cup {"failJob", "failJobCreate"}
  /\ Goto(r, IF pc[r] = "failJobCreate" THEN "openWatch"
             ELSE IF pc[r] = "failJob" /\ seen[r] = "late" THEN "cleanList"
             ELSE AfterReport(pc[r]))
  /\ UNCHANGED <<kind, todo, seen, watch, late, clusterVars>>

\* A status is reported (see ChaosRun).  After a timeout, the cleanup comes
\* last; every other failure has been through it, or never gets there.
Report(r) ==
  /\ pc[r] \in StepLabels \cup {"failJob", "failJobCreate"}
  /\ Goto(r, IF pc[r] = "failJob" /\ seen[r] = "late" THEN "cleanList"
             ELSE AfterReport(pc[r]))
  /\ UNCHANGED <<kind, todo, seen, watch, late, clusterVars>>

\* Fault: the watch shows only what happens from now on.
OpenWatchFromNow(r) ==
  /\ pc[r] = "openWatch"
  /\ watch' = [watch EXCEPT ![r] = [open |-> TRUE, events |-> <<>>]]
  /\ Goto(r, "wait")
  /\ UNCHANGED <<kind, todo, seen, late, clusterVars>>

\* A watch without a resource version starts with the pods that are there.
OpenWatch(r) ==
  /\ pc[r] = "openWatch"
  /\ \E order \in [1 .. Cardinality(Watched(r)) -> Watched(r)] :
       /\ \A n \in Watched(r) : \E i \in DOMAIN order : order[i] = n
       /\ watch' = [watch EXCEPT ![r] =
            [open |-> TRUE, events |-> [i \in DOMAIN order |-> phase[order[i]]]]]
  /\ Goto(r, "wait")
  /\ UNCHANGED <<kind, todo, seen, late, clusterVars>>

OpenWatchFails(r) ==
  /\ pc[r] = "openWatch"
  /\ ApiMayFail
  /\ seen' = [seen EXCEPT ![r] = "error"]
  /\ Goto(r, "stepFailed")
  /\ UNCHANGED <<kind, todo, watch, late, clusterVars>>

\* The loop over the events does not look at their types.  The first pod that
\* has ended ends the loop; any other pod makes it look at the clock.
HandleEvent(r) ==
  LET event == Head(watch[r].events)
      verdict == IF event \in Terminal THEN event
                 ELSE IF late[r] THEN "late" ELSE ""
  IN  /\ pc[r] = "wait"
      /\ watch[r].events # <<>>
      /\ seen' = [seen EXCEPT ![r] = verdict]
      /\ watch' = [watch EXCEPT ![r] =
           IF verdict = "" THEN [watch[r] EXCEPT !.events = Tail(@)] ELSE Closed]
      /\ Goto(r, IF verdict = "" THEN "wait"
                 ELSE IF verdict = "late" THEN "stepFailed" ELSE "cleanList")
      /\ UNCHANGED <<kind, todo, late, clusterVars>>

\* Faults: a closed watch is taken for the end of the pods; it is opened anew.
LoopEndsWell(r) ==
  /\ pc[r] = "wait"
  /\ watch[r] = Closed
  /\ Goto(r, "stepSuccess")
  /\ UNCHANGED <<kind, todo, seen, watch, late, clusterVars>>

LoopReopens(r) ==
  /\ pc[r] = "wait"
  /\ watch[r] = Closed
  /\ Goto(r, "openWatch")
  /\ UNCHANGED <<kind, todo, seen, watch, late, clusterVars>>

\* The channel of the watch is closed: the runner falls out of its loop.
LoopEnds(r) ==
  /\ pc[r] = "wait"
  /\ watch[r] = Closed
  /\ Goto(r, "abandoned")
  /\ UNCHANGED <<kind, todo, seen, watch, late, clusterVars>>

-----------------------------------------------------------------------------
(* CleanJob.                                                               *)

\* Fault: the case of a failed pod is missing, and the default is taken.
CleanedUnknown(r) == CASE seen[r] = "late"      -> "failed"
                       [] seen[r] = "Succeeded" -> "stepSuccess"
                       [] OTHER                 -> "stepUnknown"

\* Where a cleanup leads: its errors are ignored after a timeout.
Cleaned(r) == CASE seen[r] = "late"      -> "failed"
                [] seen[r] = "Succeeded" -> "stepSuccess"
                [] OTHER                 -> "stepFailed"

\* Fault: they are always ignored.
CleanFailedIgnored(r) == Cleaned(r)

CleanFailed(r) == IF seen[r] = "late" THEN "failed" ELSE "stepFailed"

ListJobs(r) ==
  /\ pc[r] = "cleanList"
  /\ todo' = [todo EXCEPT ![r] = Listed(r)]
  /\ Goto(r, IF Listed(r) = {} THEN Cleaned(r) ELSE "cleanDelete")
  /\ UNCHANGED <<kind, seen, watch, late, clusterVars>>

\* Fault: only the first Job is deleted.
DeleteFirstJob(r) ==
  /\ pc[r] = "cleanDelete"
  /\ \E n \in todo[r] :
       /\ Exists(n)
       /\ dying' = dying \cup {n}
       /\ todo' = [todo EXCEPT ![r] = {}]
       /\ Goto(r, Cleaned(r))
  /\ UNCHANGED <<kind, seen, watch, late, owner, phase, ended>>

\* Deletion in the foreground: the Job stays until its pod is gone.
DeleteJob(r) ==
  /\ pc[r] = "cleanDelete"
  /\ \E n \in todo[r] :
       /\ Exists(n)
       /\ dying' = dying \cup {n}
       /\ todo' = [todo EXCEPT ![r] = @ \ {n}]
       /\ Goto(r, IF todo[r] = {n} THEN Cleaned(r) ELSE "cleanDelete")
  /\ UNCHANGED <<kind, seen, watch, late, owner, phase, ended>>

\* The list fails, or a deletion does; what has not been deleted by then stays.
CleanFails(r) ==
  /\ \/ pc[r] = "cleanList" /\ ApiMayFail /\ UNCHANGED dying
     \/ /\ pc[r] = "cleanDelete"
        /\ \E n \in todo[r] :
             \/ ~Exists(n) /\ UNCHANGED dying
             \/ ApiMayFail /\ UNCHANGED dying
             \/ ApiMayFail /\ Exists(n) /\ dying' = dying \cup {n}
  /\ todo' = [todo EXCEPT ![r] = {}]
  /\ seen' = [seen EXCEPT ![r] = "error"]
  /\ Goto(r, CleanFailed(r))
  /\ UNCHANGED <<kind, watch, late, owner, phase, ended>>

-----------------------------------------------------------------------------
(* The cluster.                                                            *)

\* Every open watch that selects the pod of n gets an event.
Notify(n, event) ==
  watch' = [r \in Runs |->
              IF watch[r].open /\ Selects(r, owner[n])
              THEN [watch[r] EXCEPT !.events = Append(@, event)] ELSE watch[r]]

\* The Job controller starts one pod, which is never retried (BackoffLimit 0).
CreatePod(n) ==
  /\ Exists(n) /\ n \notin dying
  /\ phase[n] = ""
  /\ phase' = [phase EXCEPT ![n] = "Pending"]
  /\ Notify(n, "Pending")
  /\ UNCHANGED <<kind, pc, todo, seen, late, owner, dying, ended>>

PodMoves(n) ==
  /\ \E next \in Phases :
       /\ \/ phase[n] = "Pending" /\ next # "Pending"
          \/ phase[n] = "Running" /\ next \in Terminal
       /\ phase' = [phase EXCEPT ![n] = next]
       /\ ended' = IF next \in Terminal THEN ended \cup {<<owner[n], next>>} ELSE ended
       /\ Notify(n, next)
  /\ UNCHANGED <<kind, pc, todo, seen, late, owner, dying>>

\* Something else about a pod changes; the event shows the phase it is in.
\* Bound: only if no other event is under way to its run.  The loop takes events
\* one by one, so that several at once tell it no more than one after the other.
PodTouched(n) ==
  /\ phase[n] # ""
  /\ \A r \in Runs : Selects(r, owner[n]) => watch[r].events = <<>>
  /\ Notify(n, phase[n])
  /\ UNCHANGED <<kind, pc, todo, seen, late, clusterVars>>

\* The event of a deletion shows the pod as it was last.
PodDeleted(n) ==
  /\ n \in dying
  /\ phase[n] # ""
  /\ phase' = [phase EXCEPT ![n] = ""]
  /\ Notify(n, phase[n])
  /\ UNCHANGED <<kind, pc, todo, seen, late, owner, dying, ended>>

CollectJob(n) ==
  /\ n \in dying
  /\ phase[n] = ""
  /\ owner' = [owner EXCEPT ![n] = None]
  /\ dying' = dying \ {n}
  /\ UNCHANGED <<runVars, phase, ended>>

\* The API server ends a watch; events under way may be lost.
WatchCloses(r) ==
  /\ watch[r].open
  /\ \E k \in 0 .. Len(watch[r].events) :
       watch' = [watch EXCEPT ![r] =
                   [open |-> FALSE, events |-> SubSeq(watch[r].events, 1, k)]]
  /\ UNCHANGED <<kind, pc, todo, seen, late, clusterVars>>

\* The duration of the step, and two minutes more, pass.  Nobody looks at the
\* clock before the event loop, so a time that passed earlier passes there.
Deadline(r) ==
  /\ pc[r] = "wait"
  /\ ~late[r]
  /\ late' = [late EXCEPT ![r] = TRUE]
  /\ UNCHANGED <<kind, pc, todo, seen, watch, clusterVars>>

\* The operator dies, or FilterTargetPods panics and takes it along; its Jobs
\* go on.  A run that has not begun may begin when the operator is back.
Crash ==
  /\ pc' = [r \in Runs |-> IF pc[r] \in Returned \cup {"idle"} THEN pc[r] ELSE "dead"]
  /\ todo' = [r \in Runs |-> {}]
  /\ watch' = [r \in Runs |-> Closed]
  /\ UNCHANGED <<kind, seen, late, clusterVars>>

-----------------------------------------------------------------------------
Init ==
  /\ kind \in [Runs -> Kinds]
  /\ pc = [r \in Runs |-> "idle"]
  /\ todo = [r \in Runs |-> {}]
  /\ seen = [r \in Runs |-> ""]
  /\ watch = [r \in Runs |-> Closed]
  /\ late = [r \in Runs |-> FALSE]
  /\ owner = [n \in JobNames |-> None]
  /\ dying = {}
  /\ phase = [n \in JobNames |-> ""]
  /\ ended = {}

CleanJob(r) == ListJobs(r) \/ DeleteJob(r) \/ CleanFails(r)

Runner(r) == \/ Start(r) \/ Select(r) \/ SelectFails(r)
             \/ CreateJob(r) \/ CreateJobFails(r) \/ Report(r)
             \/ OpenWatch(r) \/ OpenWatchFails(r)
             \/ HandleEvent(r) \/ LoopEnds(r)
             \/ CleanJob(r)

Cluster == \/ \E n \in JobNames : CreatePod(n) \/ PodMoves(n) \/ PodTouched(n)
                                  \/ PodDeleted(n) \/ CollectJob(n)
           \/ \E r \in Runs : WatchCloses(r) \/ Deadline(r)

Next == (\E r \in Runs : Runner(r)) \/ Cluster \/ Crash

Spec == Init /\ [][Next]_vars

\* A goroutine that can proceed does.  Nothing is asked of the cluster: a pod
\* may stay pending for ever.
FairSpec == Spec /\ \A r \in Runs : WF_vars(Runner(r))

\* The API server ends every watch sooner or later.
ClosingSpec == FairSpec /\ \A r \in Runs : WF_vars(WatchCloses(r))

-----------------------------------------------------------------------------
(* Properties.                                                             *)

WatchState == [open : BOOLEAN, events : Seq(Phases)]

\* Types of the variables.
TypeOK ==
  /\ kind \in [Runs -> Kinds]
  /\ pc \in [Runs -> RunnerLabels \cup {"select", "cleanList", "cleanDelete"}]
  /\ todo \in [Runs -> SUBSET (JobNames \cup Targets \cup {None})]
  /\ seen \in [Runs -> Terminal \cup {"", "late", "error"}]
  /\ watch \in [Runs -> WatchState]
  /\ late \in [Runs -> BOOLEAN]
  /\ owner \in [JobNames -> Runs \cup {None}]
  /\ dying \subseteq JobNames
  /\ phase \in [JobNames -> Phases \cup {""}]
  /\ ended \subseteq Runs \X Terminal

\* The label of r in the graph of StepLifecycle.
LifecycleLabel(r) ==
  CASE pc[r] = "select" -> "create"
    [] pc[r] \in {"cleanList", "cleanDelete"} ->
         IF seen[r] = "late" THEN "failJob" ELSE "wait"
    [] OTHER -> pc[r]

\* What ChaosRun assumes of a runner is what the runners do: every step leaves
\* the lifecycle label alone or moves it along an edge of the graph.
FollowsLifecycle ==
  [][ \A r \in Runs :
        LifecycleLabel(r)' # LifecycleLabel(r) =>
          \/ LifecycleLabel(r) = "idle" /\ LifecycleLabel(r)' = "create"
          \/ LifecycleLabel(r)' \in Successors(LifecycleLabel(r)) \cup {"dead"} ]_vars

\* A run's Jobs are deleted by that run, once it has seen an end or a timeout,
\* and by nobody else: not by an earlier or a later generation of the job, nor
\* by another job's step of the same name.
OnlyOwnJobsDie ==
  \A n \in dying :
    /\ Exists(n)
    /\ seen[owner[n]] # ""
    /\ pc[owner[n]] \in Returned \cup {"cleanDelete", "stepSuccess", "stepFailed",
                                      "failJob", "dead"}

\* A runner that reports success has seen a pod of its own succeed.
SuccessIsEarned ==
  \A r \in Runs : pc[r] \in {"stepSuccess", "succeeded"} => <<r, "Succeeded">> \in ended

\* A step that is reported successful has no Job left that is not being deleted,
\* whatever call failed on the way: not those of the other targets, and not those
\* that were created when others had ended.  Nor has one that has failed, if its
\* loop ended with a phase or a timeout and its cleanup met no failing call.
VerdictCleansUp ==
  \A r \in Runs :
    \/ pc[r] \in {"stepSuccess", "succeeded"}
    \/ pc[r] = "failed" /\ seen[r] \in Terminal \cup {"late"}
    => \A n \in JobNames : owner[n] = r => n \in dying

(* The inductive invariant.                                                *)

\* A pod goes before its Job does.
PodsHaveJobs == \A n \in JobNames : phase[n] # "" => Exists(n)

\* Every end that shows anywhere, in a pod, in a watch or in what a runner has
\* seen, is an end a pod of that run came to.
EndsAreTrue ==
  /\ \A n \in JobNames : phase[n] \in Terminal => <<owner[n], phase[n]>> \in ended
  /\ \A r \in Runs : \A i \in DOMAIN watch[r].events :
       watch[r].events[i] \in Terminal => <<r, watch[r].events[i]>> \in ended
  /\ \A r \in Runs : seen[r] \in Terminal => <<r, seen[r]>> \in ended

\* What a runner has seen fits the place it is at.
SeenFits ==
  \A r \in Runs :
    /\ pc[r] \in {"idle", "select", "create", "stepRunning", "createFailed",
                  "failJobCreate", "openWatch", "wait"} => seen[r] = ""
    /\ pc[r] \in {"cleanList", "cleanDelete"} => seen[r] \in Terminal \cup {"late"}
    /\ pc[r] \in {"stepSuccess", "succeeded"} => seen[r] = "Succeeded"

\* After a timeout nothing is deleted before the failure has been reported.
LateDeletesLast ==
  \A n \in dying :
    seen[owner[n]] = "late" => pc[owner[n]] \in {"cleanDelete", "failed", "dead"}

\* Has the cleanup of r come to its end, with no failing call?
CleanedUp(r) ==
  \/ pc[r] \in {"stepSuccess", "succeeded"}
  \/ pc[r] \in {"stepFailed", "failJob"} /\ seen[r] \in Terminal
  \/ pc[r] = "failed" /\ seen[r] \in Terminal \cup {"late"}

\* A cleanup has its own Jobs before it, each of them once, and no other; what is
\* left behind is being deleted.
CleanupCovers ==
  \A r \in Runs :
    /\ pc[r] = "cleanDelete" => \A n \in todo[r] : /\ n \in JobNames \ dying
                                                   /\ owner[n] = r
    /\ pc[r] = "cleanDelete" => \A n \in JobNames : owner[n] = r => n \in todo[r] \cup dying
    /\ CleanedUp(r) => \A n \in JobNames : owner[n] = r => n \in dying

IInv == /\ TypeOK
        /\ PodsHaveJobs
        /\ EndsAreTrue
        /\ SeenFits
        /\ OnlyOwnJobsDie
        /\ LateDeletesLast
        /\ CleanupCovers

-----------------------------------------------------------------------------
(* Liveness.                                                               *)

\* The end of a pod is not missed as long as the watch stays open, whether it
\* came before the watch was opened or after: a runner in its loop, one of whose
\* pods has ended, comes to a verdict.
EndIsSeen ==
  \A r \in Runs :
    [](pc[r] = "wait" => watch[r].open)
      => ((pc[r] = "wait" /\ \E n \in JobNames : owner[n] = r /\ phase[n] \in Terminal)
            ~> pc[r] \in {"succeeded", "failed", "dead"})

\* A runner always returns, provided watches are closed sooner or later: this
\* is what the executor's wg.Wait, and the fairness of ChaosRun, rest on.
RunnerReturns ==
  (\A r \in Runs : WF_vars(WatchCloses(r)))
    => \A r \in Runs : pc[r] # "idle" ~> pc[r] \in Returned \cup {"dead"}

\* A step that is out of time is marked as failed, unless a pod ended first.
TimeoutIsMarked ==
  \A r \in Runs :
    pc[r] = "wait" /\ late[r] ~> pc[r] \in {"failed", "succeeded", "dead"}
=============================================================================
