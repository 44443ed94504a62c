------------------------------- MODULE ChaosRun -------------------------------
(***************************************************************************)
(* One generation of one GodzillaJob, from the workqueue to the end of its *)
(* last step: the reconciler that creates the snapshot, checks the job and *)
(* starts it; the goroutine that runs the stages of the job in order; one  *)
(* goroutine per step; and the snapshot object in the API server, which    *)
(* all of them update by an uncoordinated Get followed by an Update.       *)
(*                                                                         *)
(* A thread is at a label, which names the next API call it makes or the   *)
(* event it waits for, and every API call is a step of its own, so that    *)
(* the calls of all threads interleave.  What a step's runner does with    *)
(* Kubernetes Jobs and pods is abstracted to the verdict it reaches; the   *)
(* module StepRunner has the detail.                                       *)
(***************************************************************************)
EXTENDS Integers, JobStatus, ChaosTypes, StepLifecycle

CONSTANTS
  NumSteps,    \* number of steps of the job, all stages together
  StageOf,     \* the stage a step belongs to (index into Spec.Steps)
  NumStages,   \* number of stages
  Names,       \* the step names a job may use
  Types,       \* the step types a job may use
  ApiMayFail,  \* may a call on the snapshot fail although it is in order?
  None         \* no object

Steps == 1 .. NumSteps

\* Steps are numbered in the order the nested loops over Spec.Steps meet them.
ASSUME StepsAssumption ==
  /\ NumSteps \in Nat
  /\ NumStages \in Nat
  /\ StageOf \in [Steps -> 1 .. NumStages]
  /\ \A i, j \in Steps : i < j => StageOf[i] <= StageOf[j]

ASSUME ApiAssumption == ApiMayFail \in BOOLEAN

Snapshot == [rv : Nat, steps : [Steps -> Status], job : Status \cup {NoStatus}]

ASSUME NoneAssumption == None \notin Snapshot

\* The threads: the worker that reconciles the job, the goroutine it starts,
\* and one goroutine per step, named by its step.
Reconciler == -1
Executor   == 0
Threads    == Reconciler .. NumSteps

VARIABLES
  job,       \* the spec: name and type of every step
  snap,      \* the GodzillaJobSnapshot in the API server, or None
  pc,        \* label of every thread
  read,      \* the copy of the snapshot a thread got and is about to update
  stage,     \* the stage the executor has started last, 0 before the first
  launches,  \* history: how often the executor was started
  acked      \* history: threads whose report of a failed job returned nil

vars == <<job, snap, pc, read, stage, launches, acked>>

-----------------------------------------------------------------------------
(* Labels.                                                                 *)

\* The labels at which a thread updates the job status; those of the
\* runners are in StepLifecycle.
JobLabels  == {"jobRejected", "jobRunning", "jobSuccess",
               "failJob", "failJobCreate"}

ReconcilerLabels == {"queued", "initStatus", "preCheck", "jobRejected",
                     "backoff", "reconciled"}
ExecutorLabels   == {"none", "jobRunning", "stages", "jobSuccess", "done",
                     "dead"}

\* The statuses the threads report.
JobReport(label) ==
  CASE label = "jobRunning" -> "running"
    [] label = "jobSuccess" -> "success"
    [] OTHER                -> "failed"

StepReport(label) ==
  CASE label = "stepRunning" -> "running"
    [] label = "stepSuccess" -> "success"
    [] OTHER                 -> "failed"

\* Where a thread goes on after an update: Reconcile returns the error of
\* PreCheck, and the executor enters or leaves its loop.
AfterUpdate(label) ==
  CASE label = "jobRejected" -> "backoff"
    [] label = "jobRunning"  -> "stages"
    [] label = "jobSuccess"  -> "done"
    [] OTHER                 -> AfterReport(label)

Goto(t, label) == pc' = [pc EXCEPT ![t] = label]

-----------------------------------------------------------------------------
(* Updating the snapshot.                                                  *)

\* Fault: every runner uses the bare name.
UsesBareNameAlways(s) == TRUE

\* Step s reports the job's failure under the name of the job alone, which
\* names no snapshot: a snapshot is named after the job and its generation.
UsesBareName(s) ==
  \E runner \in Runners :
    /\ Dispatches(runner, job[s].type)
    /\ \/ pc[s] = "failJobCreate" /\ "create" \in Profile(runner).bareAt
       \/ pc[s] = "failJob" /\ "later" \in Profile(runner).bareAt

Found(t) ==
  /\ snap # None
  /\ ~(t \in Steps /\ pc[t] \in JobLabels /\ UsesBareName(t))

\* The Get of UpdateSnapshot and UpdateJobStatus.
GetSnapshot(t) ==
  /\ pc[t] \in JobLabels \cup StepLabels
  /\ read[t] = None
  /\ Found(t)
  /\ read' = [read EXCEPT ![t] = snap]
  /\ UNCHANGED <<job, snap, pc, stage, launches, acked>>

\* Either call of an update fails, and the thread goes on.
UpdateFails(t) ==
  /\ pc[t] \in JobLabels \cup StepLabels
  /\ ApiMayFail \/ (read[t] = None /\ ~Found(t))
  /\ Goto(t, AfterUpdate(pc[t]))
  /\ read' = [read EXCEPT ![t] = None]
  /\ UNCHANGED <<job, snap, stage, launches, acked>>

\* Fault: updates carry no resource version, and the last one wins.
ConflictIgnored(t) == FALSE

\* The API server refuses an update made from an outdated copy.
Conflict(t) == read[t].rv # snap.rv

\* The object stored when thread t writes back its copy with these contents;
\* an update that changes nothing keeps the resource version.
Written(t, steps, status) ==
  IF Conflict(t) \/ (steps = read[t].steps /\ status = read[t].job)
  THEN snap
  ELSE [rv |-> snap.rv + 1, steps |-> steps, job |-> status]

\* Fault: the job's status is replaced without a statusCheck.
AllowedAlways(t) == TRUE

\* Does UpdateJobStatus, given its copy, go on to an update?
Allowed(t) == statusCheck(read[t].job, JobReport(pc[t]))

\* The status update of UpdateJobStatus; without one it returns nil as well.
PutJobStatus(t) ==
  LET report == JobReport(pc[t])
  IN  /\ pc[t] \in JobLabels
      /\ read[t] # None
      /\ snap' = IF Allowed(t) THEN Written(t, read[t].steps, report) ELSE snap
      /\ acked' = IF report = "failed" /\ ~(Allowed(t) /\ Conflict(t))
                  THEN acked \cup {t} ELSE acked
      /\ Goto(t, AfterUpdate(pc[t]))
      /\ read' = [read EXCEPT ![t] = None]
      /\ UNCHANGED <<job, stage, launches>>

\* Fault: an entry moves only once.
CandidatesPending(t, s, status) ==
  {i \in Steps : job[i].name = job[s].name /\ read[t].steps[i] = "pending"}

\* The entries of the copy UpdateSnapshot may change for step s: it takes the
\* first one that has the name of the step and may move to the new status.
Candidates(t, s, status) ==
  {i \in Steps : job[i].name = job[s].name /\ statusCheck(read[t].steps[i], status)}

IsFirst(i, S) == i \in S /\ \A j \in S : i <= j

\* The Update of UpdateSnapshot, which is sent even when no entry changes.
PutStepStatus(s) ==
  LET report == StepReport(pc[s])
      steps == [i \in Steps |-> IF IsFirst(i, Candidates(s, s, report))
                                THEN report ELSE read[s].steps[i]]
  IN  /\ pc[s] \in StepLabels
      /\ read[s] # None
      /\ snap' = Written(s, steps, read[s].job)
      /\ Goto(s, AfterUpdate(pc[s]))
      /\ read' = [read EXCEPT ![s] = None]
      /\ UNCHANGED <<job, stage, launches, acked>>

-----------------------------------------------------------------------------
(* Reconcile.                                                              *)

\* Fault: the steps are recorded without a status.
NewStepsBlank == [s \in Steps |-> NoStatus]

NewSteps == [s \in Steps |-> "pending"]

\* InitSnapshot creates the snapshot with every step pending; the creation
\* may take effect and yet be reported as failed.
CreateSnapshot ==
  LET created == [rv |-> 1, steps |-> NewSteps, job |-> NoStatus]
  IN  /\ pc[Reconciler] = "queued"
      /\ snap = None
      /\ snap' = created
      /\ \/ /\ Goto(Reconciler, "initStatus")
            /\ read' = [read EXCEPT ![Reconciler] = created]
         \/ /\ ApiMayFail
            /\ Goto(Reconciler, "backoff")
            /\ UNCHANGED read
      /\ UNCHANGED <<job, stage, launches, acked>>

\* Fault: a snapshot that is already there is taken for one's own.
CreateSnapshotTolerant ==
  /\ pc[Reconciler] = "queued"
  /\ snap # None \/ ApiMayFail
  /\ Goto(Reconciler, IF snap # None THEN "preCheck" ELSE "backoff")
  /\ UNCHANGED <<job, snap, read, stage, launches, acked>>

\* The creation is refused, because this generation already has a snapshot
\* or because the API server fails; the request is queued again.
CreateSnapshotFails ==
  /\ pc[Reconciler] = "queued"
  /\ snap # None \/ ApiMayFail
  /\ Goto(Reconciler, "backoff")
  /\ UNCHANGED <<job, snap, read, stage, launches, acked>>

\* InitSnapshot then sets the job status of the object it has just created;
\* this update too may take effect and yet be reported as failed.
InitJobStatus ==
  /\ pc[Reconciler] = "initStatus"
  /\ snap' = Written(Reconciler, read[Reconciler].steps, "pending")
  /\ \/ /\ ~Conflict(Reconciler)
        /\ Goto(Reconciler, "preCheck")
     \/ /\ Conflict(Reconciler) \/ ApiMayFail
        /\ Goto(Reconciler, "backoff")
  /\ read' = [read EXCEPT ![Reconciler] = None]
  /\ UNCHANGED <<job, stage, launches, acked>>

InitJobStatusFails ==
  /\ pc[Reconciler] = "initStatus"
  /\ ApiMayFail
  /\ Goto(Reconciler, "backoff")
  /\ read' = [read EXCEPT ![Reconciler] = None]
  /\ UNCHANGED <<job, snap, stage, launches, acked>>

\* Fault: only the types are checked.
PreCheckTypes == \A s \in Steps : job[s].type \in SupportedTypes

\* PreCheck accepts a job whose step names differ and whose types are known.
PreCheck ==
  /\ \A i, j \in Steps : job[i].name = job[j].name => i = j
  /\ \A s \in Steps : job[s].type \in SupportedTypes

Reject ==
  /\ pc[Reconciler] = "preCheck"
  /\ ~PreCheck
  /\ Goto(Reconciler, "jobRejected")
  /\ UNCHANGED <<job, snap, read, stage, launches, acked>>

\* Fault: the result of PreCheck is not looked at.
LaunchUnchecked ==
  /\ pc[Reconciler] = "preCheck"
  /\ pc' = [pc EXCEPT ![Reconciler] = "reconciled", ![Executor] = "jobRunning"]
  /\ launches' = launches + 1
  /\ UNCHANGED <<job, snap, read, stage, acked>>

\* Reconcile starts the goroutine that runs the job, and returns.
Launch ==
  /\ pc[Reconciler] = "preCheck"
  /\ PreCheck
  /\ pc' = [pc EXCEPT ![Reconciler] = "reconciled", ![Executor] = "jobRunning"]
  /\ launches' = launches + 1
  /\ UNCHANGED <<job, snap, read, stage, acked>>

\* The workqueue retries a request whose reconciliation returned an error.
Requeue ==
  /\ pc[Reconciler] = "backoff"
  /\ Goto(Reconciler, "queued")
  /\ UNCHANGED <<job, snap, read, stage, launches, acked>>

-----------------------------------------------------------------------------
(* The executor: the goroutine Reconcile starts.                           *)

\* Faults: nobody waits; a runner that fails never calls wg.Done.
StageNotAwaited == TRUE
StageSucceeded == \A s \in Steps : StageOf[s] <= stage => pc[s] = "succeeded"

\* wg.Wait: every runner started so far has returned.
StageFinished ==
  \A s \in Steps : StageOf[s] <= stage => pc[s] \in Returned

\* The runners of the next stage start; Run only logs a type it does not know.
StartStage ==
  /\ pc[Executor] = "stages"
  /\ stage < NumStages
  /\ StageFinished
  /\ stage' = stage + 1
  /\ pc' = [t \in Threads |->
              IF t \in Steps /\ StageOf[t] = stage + 1
              THEN IF HasRunner(job[t].type) THEN "create" ELSE "abandoned"
              ELSE pc[t]]
  /\ UNCHANGED <<job, snap, read, launches, acked>>

FinishJob ==
  /\ pc[Executor] = "stages"
  /\ stage = NumStages
  /\ StageFinished
  /\ Goto(Executor, "jobSuccess")
  /\ UNCHANGED <<job, snap, read, stage, launches, acked>>

-----------------------------------------------------------------------------
(* A runner, seen from the snapshot.                                       *)

\* CreateJobs, OpenWatch and Verdict: see the module StepRunner.
Choose(s) ==
  /\ \E label \in Outcomes(pc[s]) : Goto(s, label)
  /\ UNCHANGED <<job, snap, read, stage, launches, acked>>

CreateJobs(s) == pc[s] = "create" /\ Choose(s)
OpenWatch(s)  == pc[s] = "openWatch" /\ Choose(s)
Verdict(s)    == pc[s] = "wait" /\ Choose(s)

-----------------------------------------------------------------------------
(* Crash of the operator.                                                  *)

\* The goroutines are gone.  When the operator is back, its informer lists
\* the job, and the job is queued as if it had just been created.
Crash ==
  /\ pc' = [t \in Threads |->
              IF t = Reconciler THEN "queued"
              ELSE IF pc[t] \in Returned \cup {"idle", "none", "done"} THEN pc[t]
              ELSE "dead"]
  /\ read' = [t \in Threads |-> None]
  /\ UNCHANGED <<job, snap, stage, launches, acked>>

-----------------------------------------------------------------------------
Init ==
  /\ job \in [Steps -> [name : Names, type : Types]]
  /\ snap = None
  /\ pc = [t \in Threads |-> IF t = Reconciler THEN "queued"
                             ELSE IF t = Executor THEN "none" ELSE "idle"]
  /\ read = [t \in Threads |-> None]
  /\ stage = 0
  /\ launches = 0
  /\ acked = {}

Update(t) == GetSnapshot(t) \/ UpdateFails(t) \/ PutJobStatus(t)

Reconcile == \/ CreateSnapshot \/ CreateSnapshotFails
             \/ InitJobStatus \/ InitJobStatusFails
             \/ Reject \/ Launch \/ Requeue
             \/ Update(Reconciler)

Execute == StartStage \/ FinishJob \/ Update(Executor)

RunStep(s) == CreateJobs(s) \/ OpenWatch(s) \/ Verdict(s)
              \/ PutStepStatus(s) \/ Update(s)

Next == Reconcile \/ Execute \/ (\E s \in Steps : RunStep(s)) \/ Crash

Spec == Init /\ [][Next]_vars

\* The Go scheduler runs every goroutine that can proceed, the workqueue
\* workers included, and a watch does not stay open for ever: the API server
\* ends it after its request timeout.
Fairness == /\ WF_vars(Reconcile)
            /\ WF_vars(Execute)
            /\ \A s \in Steps : WF_vars(RunStep(s))

FairSpec == Spec /\ Fairness

-----------------------------------------------------------------------------
(* Properties.                                                             *)

\* Types of the variables; an object no one has created is None.
TypeOK ==
  /\ job \in [Steps -> [name : Names, type : Types]]
  /\ snap \in Snapshot \cup {None}
  /\ pc \in [Threads -> ReconcilerLabels \cup ExecutorLabels \cup RunnerLabels]
  /\ pc[Reconciler] \in ReconcilerLabels
  /\ pc[Executor] \in ExecutorLabels
  /\ \A s \in Steps : pc[s] \in RunnerLabels
  /\ read \in [Threads -> Snapshot \cup {None}]
  /\ stage \in 0 .. NumStages
  /\ launches \in Nat
  /\ acked \subseteq Threads

\* The snapshot without its resource version behaves as the ledger promises,
\* although every thread updates it from a copy others may have overtaken:
\* UpdateSnapshot and UpdateJobStatus check the transition on the copy only.
Record == IF snap = None THEN None ELSE [steps |-> snap.steps, job |-> snap.job]

Ledger == INSTANCE SnapshotLedger WITH record <- Record

LedgerSpec == Ledger!Spec

\* The status of a step is its own runner's doing: UpdateSnapshot finds the
\* entry by name, and it never hands one step the verdict of another.
OwnStatus ==
  snap # None =>
    \A s \in Steps :
      /\ snap.steps[s] = "running" => pc[s] \notin {"idle", "create", "stepRunning"}
      /\ snap.steps[s] = "success" => pc[s] = "succeeded"
      /\ snap.steps[s] = "failed"  => pc[s] \in {"failJob", "failJobCreate",
                                                "failed", "dead"}

\* A verdict that was recorded for a step is final, although statusCheck would
\* let a success become a failure: nobody reports on a step that has returned,
\* neither its own runner nor another one by mistake.
VerdictIsFinal ==
  [][\A s \in Steps :
       snap # None /\ snap.steps[s] \in {"success", "failed"} =>
         snap' # None /\ snap'.steps[s] = snap.steps[s]]_vars

\* wg.Wait: no runner starts while one of an earlier stage is still at work,
\* whatever became of the steps of that stage.
StageBarrier ==
  \A r, s \in Steps :
    StageOf[r] < StageOf[s] /\ pc[s] # "idle" => pc[r] \in Returned

\* The executor calls a job successful only when every runner has returned.
\* This says nothing of their verdicts: the last UpdateJobStatus is sent
\* whatever they were, and statusCheck alone keeps an earlier failure.
SuccessMeansFinished ==
  snap # None /\ snap.job = "success" => \A s \in Steps : pc[s] \in Returned

\* Once an UpdateJobStatus with the failed status has returned nil, the job
\* stays failed: the success the executor reports at the end of every run
\* does not replace it, whatever it has read before.
AckedFailureIsFinal ==
  acked # {} => snap.job = "failed"

\* A generation is executed at most once, across retries of the reconciler and
\* restarts of the operator: the snapshot, created before the launch and never
\* replaced, is what tells a later Reconcile that someone else was there.
AtMostOneRun == launches <= 1

\* A job PreCheck refuses never runs, even though its request is retried for
\* ever after the refusal.
RejectedNeverRuns ==
  ~PreCheck => launches = 0 /\ \A s \in Steps : pc[s] = "idle"

\* Once started, a job ends: every stage gets its turn, unless the operator
\* dies in between.
RunEnds == pc[Executor] = "jobRunning" ~> pc[Executor] \in {"done", "dead"}

Alone(s) == \A r \in Steps \ {s} : StageOf[r] # StageOf[s]

\* When the API server does not fail, the record of a step that has its stage to
\* itself is exact, and what the steps of other stages do later does not undo
\* it: it has the status its runner reported last.
StatusRecorded ==
  \A s \in Steps :
    Alone(s) =>
      /\ pc[s] \in {"openWatch", "wait"} => snap.steps[s] = "running"
      /\ pc[s] = "succeeded" => snap.steps[s] = "success"
      /\ pc[s] = "failed" => snap.steps[s] = "failed"

\* A job is a failed job if a step failed that had its stage to itself.
FailedStepFailsJob ==
  \A s \in Steps : Alone(s) /\ pc[s] = "failed" => snap.job = "failed"

\* The comment "update status" of the runners, taken by its word: what a runner
\* reported of a step is what the snapshot says, whoever runs at its side.
EveryStatusIsRecorded ==
  \A s \in Steps :
    /\ pc[s] = "succeeded" => snap.steps[s] = "success"
    /\ pc[s] = "failed" => snap.steps[s] = "failed"

-----------------------------------------------------------------------------
(* The inductive invariant, in parts.                                      *)

\* A thread's copy is never newer than the object, and one that has the
\* object's resource version is the object: an update that meets no conflict
\* changes the object as it changed the copy.
CopiesAreHonest ==
  \A t \in Threads :
    read[t] # None =>
      /\ snap # None
      /\ read[t].rv <= snap.rv
      /\ read[t].rv = snap.rv => read[t] = snap

\* The executor is started once, and by a Reconcile that created the snapshot.
LaunchOrder ==
  /\ launches = IF pc[Executor] = "none" THEN 0 ELSE 1
  /\ pc[Executor] = "none" => stage = 0 /\ \A s \in Steps : pc[s] = "idle"
  /\ pc[Executor] # "none" => PreCheck
  /\ pc[Reconciler] \in {"initStatus", "preCheck", "jobRejected"}
       => pc[Executor] = "none"
  /\ snap = None => /\ pc[Executor] = "none"
                    /\ pc[Reconciler] \in {"queued", "backoff"}

\* Until InitSnapshot is done, the job has no status and nobody but InitSnapshot
\* has a copy; afterwards it has one and every copy shows it.
StatusPublished ==
  /\ pc[Reconciler] = "initStatus" => read[Reconciler] # None /\ snap.job = NoStatus
  /\ pc[Reconciler] \in {"preCheck", "jobRejected"} \/ pc[Executor] # "none"
       => snap.job # NoStatus
  /\ \A t \in Threads :
       read[t] # None => \/ t = Reconciler /\ pc[t] = "initStatus"
                        \/ pc[t] \in JobLabels \cup StepLabels

\* No thread reports an unknown job, and a failed one stays failed: what a copy
\* says of a failure is never outdated.
FailureSticks ==
  /\ snap # None => snap.job # "unknown"
  /\ \A t \in Threads :
       read[t] # None => /\ read[t].job # "unknown"
                         /\ pc[t] # "initStatus" => read[t].job # NoStatus
                         /\ read[t].job = "failed" => snap.job = "failed"
  /\ acked # {} => snap # None /\ snap.job = "failed"

\* The stages behind the executor are over and those before it untouched.
StagesInOrder ==
  /\ \A s \in Steps : /\ StageOf[s] > stage => pc[s] = "idle"
                      /\ StageOf[s] < stage => pc[s] \in Returned
  /\ pc[Executor] \in {"jobSuccess", "done"} \/ (snap # None /\ snap.job = "success")
       => \A s \in Steps : pc[s] \in Returned

IInv == /\ TypeOK
        /\ CopiesAreHonest
        /\ LaunchOrder
        /\ StatusPublished
        /\ FailureSticks
        /\ StagesInOrder
        /\ OwnStatus

\* The first stage has not begun while the job is reported as running.
FirstStageWaits == pc[Executor] = "jobRunning" => stage = 0

\* The copy of a step that has its stage to itself is the object: nobody
\* overtakes it.
LoneCopies == \A s \in Steps : Alone(s) /\ read[s] # None => read[s] = snap

\* The entry of such a step keeps up with its runner.
LoneEntries ==
  snap # None =>
    \A s \in Steps :
      Alone(s) =>
        /\ pc[s] \in {"idle", "create", "stepRunning", "createFailed"} =>
             snap.steps[s] = "pending"
        /\ pc[s] \in {"openWatch", "wait", "stepSuccess", "stepFailed"} =>
             snap.steps[s] = "running"
        /\ pc[s] = "succeeded" => snap.steps[s] = "success"
        /\ pc[s] \in {"failJob", "failJobCreate", "failed"} => snap.steps[s] = "failed"

\* What holds besides while the API server does not fail.
QuietInv == FirstStageWaits /\ LoneCopies /\ LoneEntries

=============================================================================
