------------------------- MODULE ChaosRunRecordProofs -------------------------
(***************************************************************************)
(* Proofs about what ChaosRun records when the API server does not fail:   *)
(* the record of a step that has its stage to itself is exact, and its     *)
(* failure is one of the job unless it is reported under a bare name.      *)
(***************************************************************************)
EXTENDS ChaosRunProofs

\* No type the job may use reports failures under the bare name of the job.
NoBareNames ==
  \A type \in Types, runner \in Runners :
    Dispatches(runner, type) => Profile(runner).bareAt = {}

\* Two threads have no copies at the same time if one of them is the runner of a
\* step that has its stage to itself.
LEMMA NoneBeside ==
  ASSUME IInv, FirstStageWaits, NEW s \in Steps, Alone(s), read[s] # None,
         NEW t \in Threads, t # s
  PROVE  read[t] = None /\ ~(t = Reconciler /\ pc[t] = "initStatus")
  <1> SUFFICES ASSUME read[t] # None \/ (t = Reconciler /\ pc[t] = "initStatus")
               PROVE  FALSE
    OBVIOUS
  <1> USE ThreadKinds
  <1>1. TypeOK /\ LaunchOrder /\ StatusPublished /\ StagesInOrder
    BY DEF IInv
  <1>2. pc[s] \notin Returned \cup {"idle"}
    BY <1>1 DEF StatusPublished, JobLabels, StepLabels, Returned
  <1>3. StageOf[s] = stage
    <2>1. ~(StageOf[s] > stage) /\ ~(StageOf[s] < stage)
      BY <1>1, <1>2 DEF StagesInOrder
    <2>2. StageOf[s] \in Nat /\ stage \in Nat
      BY <1>1, StepsAssumption DEF TypeOK
    <2> QED
      BY <2>1, <2>2
  <1>4. pc[Executor] # "none"
    BY <1>1, <1>2 DEF LaunchOrder
  <1>5. t = Reconciler \/ pc[t] \in JobLabels \cup StepLabels
    BY <1>1 DEF StatusPublished
  <1>6. CASE t = Reconciler
    <2>1. pc[t] \in {"initStatus", "jobRejected"}
      BY <1>1, <1>6 DEF TypeOK, StatusPublished, ReconcilerLabels, JobLabels, StepLabels
    <2> QED
      BY <1>1, <1>4, <1>6, <2>1 DEF LaunchOrder
  <1>7. CASE t = Executor
    <2>1. pc[t] \in {"jobRunning", "jobSuccess"}
      BY <1>1, <1>5, <1>7 DEF TypeOK, ExecutorLabels, JobLabels, StepLabels
    <2>2. stage # 0
      BY <1>3, StepsAssumption
    <2> QED
      BY <1>1, <1>2, <1>7, <2>1, <2>2 DEF FirstStageWaits, StagesInOrder
  <1>8. CASE t \in Steps
    <2>1. pc[t] \notin Returned \cup {"idle"}
      BY <1>5, <1>8 DEF JobLabels, StepLabels, Returned
    <2>2. ~(StageOf[t] > stage) /\ ~(StageOf[t] < stage)
      BY <1>1, <1>8, <2>1 DEF StagesInOrder
    <2>3. StageOf[t] \in Nat /\ stage \in Nat
      BY <1>1, <1>8, StepsAssumption DEF TypeOK
    <2>4. StageOf[t] = StageOf[s]
      BY <1>3, <2>2, <2>3
    <2> QED
      BY <1>8, <2>4 DEF Alone
  <1> QED
    BY <1>6, <1>7, <1>8

\* Only the first stage is preceded by the report that the job is running.
LEMMA FirstStep == IInv /\ FirstStageWaits /\ [Next]_vars => FirstStageWaits'
  <1> SUFFICES ASSUME IInv, FirstStageWaits, [Next]_vars PROVE FirstStageWaits'
    OBVIOUS
  <1> USE ThreadKinds
  <1>0. TypeOK /\ LaunchOrder
    BY DEF IInv
  \* The executor comes to this label by its launch only.
  <1>b. ASSUME pc'[Executor] = "jobRunning" => pc[Executor] = "jobRunning",
               UNCHANGED stage
        PROVE  FirstStageWaits'
    BY <1>b DEF FirstStageWaits
  <1>1. ASSUME NEW t \in Threads, UpdateFails(t) \/ PutJobStatus(t) \/ PutStepStatus(t)
        PROVE  FirstStageWaits'
    <2>1. pc'[t] # "jobRunning" /\ stage' = stage
      BY <1>0, <1>1, UpdateLeads
         DEF TypeOK, UpdateFails, PutJobStatus, PutStepStatus, Goto
    <2>2. t # Executor => pc'[Executor] = pc[Executor]
      BY <1>0, <1>1 DEF TypeOK, UpdateFails, PutJobStatus, PutStepStatus, Goto
    <2> QED
      BY <1>b, <2>1, <2>2
  <1>2. CASE Launch
    BY <1>0, <1>2 DEF Launch, LaunchOrder, FirstStageWaits
  <1>3. CASE \/ CreateSnapshot \/ CreateSnapshotFails \/ InitJobStatus \/ InitJobStatusFails
             \/ Reject \/ Requeue \/ FinishJob \/ Crash \/ \E t \in Threads : GetSnapshot(t)
    BY <1>0, <1>3, <1>b
       DEF TypeOK, CreateSnapshot, CreateSnapshotFails, InitJobStatus, InitJobStatusFails,
           Reject, Requeue, FinishJob, Crash, GetSnapshot, Goto
  <1>4. CASE StartStage
    BY <1>0, <1>4 DEF TypeOK, StartStage, FirstStageWaits
  <1>5. ASSUME NEW s \in Steps, Choose(s) PROVE FirstStageWaits'
    BY <1>0, <1>5, <1>b DEF TypeOK, Choose, Goto
  <1>6. CASE UNCHANGED vars
    BY <1>6, <1>b DEF vars
  <1> QED
    BY <1>1, <1>2, <1>3, <1>4, <1>5, <1>6
       DEF Next, Reconcile, Execute, RunStep, Update, CreateJobs, OpenWatch, Verdict

LEMMA CopyStep == IInv /\ FirstStageWaits /\ LoneCopies /\ [Next]_vars => LoneCopies'
  <1> SUFFICES ASSUME IInv, FirstStageWaits, LoneCopies, [Next]_vars,
                      NEW s \in Steps, Alone(s), read'[s] # None
               PROVE  read'[s] = snap'
    BY DEF LoneCopies, Alone
  <1> USE ThreadKinds
  <1>0. TypeOK /\ CopiesAreHonest
    BY DEF IInv
  <1>b. ASSUME UNCHANGED snap, read'[s] = read[s]
        PROVE  read'[s] = snap'
    BY <1>b DEF LoneCopies
  <1>1. ASSUME NEW t \in Threads, GetSnapshot(t) PROVE read'[s] = snap'
    <2>1. CASE t = s
      BY <1>0, <1>1, <2>1 DEF TypeOK, GetSnapshot
    <2>2. CASE t # s
      BY <1>0, <1>1, <1>b, <2>2 DEF TypeOK, GetSnapshot
    <2> QED
      BY <2>1, <2>2
  <1>2. ASSUME NEW t \in Threads, UpdateFails(t) PROVE read'[s] = snap'
    BY <1>0, <1>2, <1>b DEF TypeOK, UpdateFails
  <1>3. ASSUME NEW t \in Threads, Writes(t) PROVE read'[s] = snap'
    <2>1. read' = [read EXCEPT ![t] = None]
      BY <1>3, Writers
    <2>2. t # s /\ read'[s] = read[s]
      BY <1>0, <2>1 DEF TypeOK
    <2>3. read[t] # None \/ (t = Reconciler /\ pc[t] = "initStatus")
      BY <1>3 DEF Writes, PutJobStatus, PutStepStatus, InitJobStatus
    <2> QED
      BY <2>2, <2>3, NoneBeside
  <1>4. CASE CreateSnapshot
    <2>1. snap = None /\ (read'[s] = read[s])
      BY <1>0, <1>4 DEF TypeOK, CreateSnapshot
    <2> QED
      BY <1>0, <2>1 DEF CopiesAreHonest
  <1>5. CASE \/ CreateSnapshotFails \/ InitJobStatusFails \/ Reject \/ Launch \/ Requeue
             \/ StartStage \/ FinishJob \/ UNCHANGED vars
    BY <1>0, <1>5, <1>b
       DEF TypeOK, CreateSnapshotFails, InitJobStatusFails, Reject, Launch, Requeue,
           StartStage, FinishJob, vars
  <1>6. ASSUME NEW r \in Steps, Choose(r) PROVE read'[s] = snap'
    BY <1>6, <1>b DEF Choose
  <1>7. CASE Crash
    BY <1>7 DEF Crash
  <1> QED
    BY <1>1, <1>2, <1>3, <1>4, <1>5, <1>6, <1>7
       DEF Next, Reconcile, Execute, RunStep, Update, CreateJobs, OpenWatch, Verdict, Writes

-----------------------------------------------------------------------------
(* The entry of a step.                                                    *)

\* An update of the step that has its stage to itself goes through.
LEMMA LoneWrite ==
  ASSUME IInv, LoneCopies, NEW s \in Steps, Alone(s), PutStepStatus(s),
         statusCheck(snap.steps[s], StepReport(pc[s]))
  PROVE  snap'.steps[s] = StepReport(pc[s])
  <1> USE ThreadKinds
  <1>1. read[s] = snap /\ snap \in Snapshot
    BY Writers DEF LoneCopies, PutStepStatus, Writes
  <1>2. PreCheck
    BY DEF IInv, LaunchOrder, PutStepStatus, StepLabels
  <1>3. Candidates(s, s, StepReport(pc[s])) = {s}
    BY <1>1, <1>2 DEF Candidates, PreCheck
  <1>4. IsFirst(s, Candidates(s, s, StepReport(pc[s])))
    BY <1>3 DEF IsFirst, Steps
  <1>5. StepWritten(s)[s] = StepReport(pc[s])
    BY <1>4 DEF StepWritten
  <1>6. snap' = Written(s, StepWritten(s), snap.job)
    BY <1>1 DEF PutStepStatus, StepWritten
  <1> HIDE DEF StepWritten
  <1>7. snap'.steps = StepWritten(s)
    BY <1>1, <1>6 DEF Written, Conflict
  <1> QED
    BY <1>5, <1>7

LEMMA EntryStep ==
  ~ApiMayFail /\ IInv /\ QuietInv /\ [Next]_vars => LoneEntries'
  <1> SUFFICES ASSUME ~ApiMayFail, IInv, QuietInv, [Next]_vars PROVE LoneEntries'
    OBVIOUS
  <1> USE ThreadKinds
  <1>0. TypeOK /\ LaunchOrder /\ LoneCopies /\ LoneEntries
    BY DEF IInv, QuietInv
  \* A runner keeps its label, is gone, or moves on within what its entry says.
  <1>b. ASSUME snap # None, snap' # None, snap'.steps = snap.steps,
               \A s \in Steps :
                 \/ pc'[s] = pc[s]
                 \/ pc'[s] \in {"dead", "abandoned"}
                 \/ pc[s] \in {"idle", "create"} /\ pc'[s] \in {"create", "stepRunning", "createFailed"}
                 \/ pc[s] \in {"openWatch", "wait"} /\ pc'[s] \in {"wait", "stepSuccess", "stepFailed"}
                 \/ pc[s] \in {"failJob", "failJobCreate"} /\ pc'[s] = "failed"
        PROVE  LoneEntries'
    BY <1>0, <1>b DEF LoneEntries, Alone
  \* As long as there is no snapshot, there are no entries.
  <1>c. ASSUME snap' = None PROVE LoneEntries'
    BY <1>c DEF LoneEntries
  <1>d. ASSUME NEW t \in Threads, pc[t] \in JobLabels, t \in Steps
        PROVE  AfterUpdate(pc[t]) = "failed" /\ pc[t] \in {"failJob", "failJobCreate"}
    BY <1>0, <1>d DEF TypeOK, RunnerLabels, StepLabels, Returned, JobLabels,
                      AfterUpdate, AfterReport
  <1>1. ASSUME NEW t \in Threads, UpdateFails(t) PROVE LoneEntries'
    <2>1. CASE snap = None
      BY <1>1, <1>c, <2>1 DEF UpdateFails
    <2>2. CASE snap # None
      <3>1. pc[t] \in JobLabels \/ t \notin Steps
        BY <1>0, <1>1, <2>2 DEF UpdateFails, Found
      <3> QED
        BY <1>0, <1>1, <1>b, <1>d, <2>2, <3>1 DEF TypeOK, UpdateFails, Goto
    <2> QED
      BY <2>1, <2>2
  <1>2. ASSUME NEW t \in Threads, PutJobStatus(t) PROVE LoneEntries'
    <2>1. snap # None /\ snap' # None /\ snap'.steps = snap.steps
      BY <1>2, JobWrite, Writers DEF Writes
    <2> QED
      BY <1>0, <1>2, <1>b, <1>d, <2>1 DEF TypeOK, PutJobStatus, Goto
  <1>3. ASSUME NEW t \in Steps, PutStepStatus(t) PROVE LoneEntries'
    <2>1. snap \in Snapshot /\ snap # None
      BY <1>3, Writers DEF Writes
    <2>2. \A s \in Steps \ {t} : pc'[s] = pc[s] /\ snap'.steps[s] = snap.steps[s]
      <3>1. snap.steps \in [Steps -> Status]
        BY <2>1 DEF Snapshot
      <3>2. \A s \in Steps \ {t} : snap'.steps[s] = snap.steps[s]
        BY <1>3, <3>1, OwnEntry
      <3>3. \A s \in Steps \ {t} : pc'[s] = pc[s]
        BY <1>0, <1>3 DEF TypeOK, PutStepStatus, Goto
      <3> QED
        BY <3>2, <3>3
    <2>3. pc'[t] = AfterUpdate(pc[t]) /\ pc[t] \in StepLabels
      BY <1>0, <1>3 DEF TypeOK, PutStepStatus, Goto
    <2>4. Alone(t) => snap'.steps[t] = StepReport(pc[t])
      <3> SUFFICES ASSUME Alone(t) PROVE snap'.steps[t] = StepReport(pc[t])
        OBVIOUS
      <3>1. statusCheck(snap.steps[t], StepReport(pc[t]))
        BY <1>0, <2>1, <2>3 DEF LoneEntries, StepLabels, StepReport, statusCheck
      <3> QED
        BY <1>0, <1>3, <3>1, LoneWrite
    <2>5. \/ pc'[t] = "openWatch" /\ StepReport(pc[t]) = "running"
          \/ pc'[t] = "succeeded" /\ StepReport(pc[t]) = "success"
          \/ pc'[t] \in {"failJob", "failJobCreate"} /\ StepReport(pc[t]) = "failed"
      BY <2>3 DEF StepLabels, StepReport, AfterUpdate, AfterReport
    <2> QED
      BY <1>0, <2>1, <2>2, <2>4, <2>5 DEF LoneEntries, Alone
  <1>4. CASE CreateSnapshot
    <2>1. snap = None /\ \A s \in Steps : pc[s] = "idle" /\ snap'.steps[s] = "pending"
      BY <1>0, <1>4 DEF LaunchOrder, CreateSnapshot, NewSteps
    <2>2. \A s \in Steps : pc'[s] = pc[s]
      BY <1>0, <1>4 DEF TypeOK, CreateSnapshot, Goto
    <2> QED
      BY <2>1, <2>2 DEF LoneEntries
  <1>5. CASE InitJobStatus
    <2>1. snap # None /\ snap' # None /\ snap'.steps = snap.steps
      BY <1>5, InitWrite, Writers DEF Writes
    <2> QED
      BY <1>0, <1>5, <1>b, <2>1 DEF TypeOK, InitJobStatus, Goto
  <1>6. CASE \/ CreateSnapshotFails \/ InitJobStatusFails \/ Reject \/ Launch \/ Requeue
             \/ FinishJob \/ Crash \/ UNCHANGED vars \/ \E t \in Threads : GetSnapshot(t)
    <2>1. snap' = snap
      BY <1>6 DEF CreateSnapshotFails, InitJobStatusFails, Reject, Launch, Requeue,
                  FinishJob, Crash, vars, GetSnapshot
    <2>2. \A s \in Steps : pc'[s] \in {pc[s], "dead"}
      BY <1>0, <1>6 DEF TypeOK, CreateSnapshotFails, InitJobStatusFails, Reject, Launch,
                        Requeue, FinishJob, Crash, vars, GetSnapshot, Goto
    <2> QED
      BY <1>b, <1>c, <2>1, <2>2
  <1>7. CASE StartStage
    <2>1. \A s \in Steps : pc'[s] # pc[s] => pc[s] = "idle" /\ pc'[s] \in {"create", "abandoned"}
      BY <1>7, StepsAssumption DEF StartStage, IInv, StagesInOrder, TypeOK
    <2>2. snap' = snap
      BY <1>7 DEF StartStage
    <2> QED
      BY <1>b, <1>c, <2>1, <2>2
  <1>8. ASSUME NEW r \in Steps, Choose(r) PROVE LoneEntries'
    <2>1. snap' = snap /\ \A s \in Steps \ {r} : pc'[s] = pc[s]
      BY <1>0, <1>8 DEF TypeOK, Choose, Goto
    <2>2. pc'[r] \in Outcomes(pc[r])
      BY <1>0, <1>8 DEF TypeOK, Choose, Goto
    <2>3. \/ pc'[r] = "abandoned"
          \/ pc[r] = "create" /\ pc'[r] \in {"stepRunning", "createFailed"}
          \/ pc[r] \in {"openWatch", "wait"} /\ pc'[r] \in {"wait", "stepSuccess", "stepFailed"}
      BY <2>2 DEF Outcomes
    <2> QED
      BY <1>b, <1>c, <2>1, <2>3
  <1> QED
    BY <1>1, <1>2, <1>3, <1>4, <1>5, <1>6, <1>7, <1>8
       DEF Next, Reconcile, Execute, RunStep, Update, CreateJobs, OpenWatch, Verdict

\* The invariant of an API server that does not fail.
THEOREM QuietInvariance ==
  ASSUME ~ApiMayFail
  PROVE  Spec => [](IInv /\ QuietInv)
  <1>1. Init => QuietInv
    BY ThreadKinds DEF Init, QuietInv, FirstStageWaits, LoneCopies, LoneEntries
  <1>2. IInv /\ QuietInv /\ [Next]_vars => QuietInv'
    BY FirstStep, CopyStep, EntryStep DEF QuietInv
  <1> QED
    BY Invariance, <1>1, <1>2, PTL DEF Spec

\* While the API server does not fail, the record of a step that has its stage to
\* itself is what its runner reported last, whatever the other stages do.
THEOREM RecordIsExact ==
  ASSUME ~ApiMayFail
  PROVE  Spec => []StatusRecorded
  <1>1. IInv /\ QuietInv => StatusRecorded
    <2> SUFFICES ASSUME IInv, QuietInv, NEW s \in Steps, Alone(s)
                 PROVE  /\ pc[s] \in {"openWatch", "wait"} => snap.steps[s] = "running"
                        /\ pc[s] = "succeeded" => snap.steps[s] = "success"
                        /\ pc[s] = "failed" => snap.steps[s] = "failed"
      BY DEF StatusRecorded
    <2>1. pc[s] # "idle" => snap # None
      BY DEF IInv, LaunchOrder
    <2> QED
      BY <2>1 DEF QuietInv, LoneEntries
  <1> QED
    BY QuietInvariance, <1>1, PTL

-----------------------------------------------------------------------------
(* The failure of a step.                                                  *)

LEMMA JobFailureStep ==
  NoBareNames /\ ~ApiMayFail /\ IInv /\ IInv' /\ QuietInv /\ FailedStepFailsJob /\ [Next]_vars
    => FailedStepFailsJob'
  <1> SUFFICES ASSUME NoBareNames, ~ApiMayFail, IInv, IInv', QuietInv, FailedStepFailsJob,
                      [Next]_vars, NEW s \in Steps, Alone(s), pc'[s] = "failed"
               PROVE  snap'.job = "failed"
    BY DEF FailedStepFailsJob, Alone
  <1> USE ThreadKinds
  <1>0. TypeOK /\ LaunchOrder
    BY DEF IInv
  <1>a. pc[s] = "failed" => snap.job = "failed" /\ snap # None
    BY <1>0 DEF FailedStepFailsJob, LaunchOrder
  <1>b. ASSUME UNCHANGED snap, pc[s] = "failed"
        PROVE  snap'.job = "failed"
    BY <1>a, <1>b
  \* A failure of the job is reported under the name of the snapshot.
  <1>c. pc[s] # "idle" => Found(s)
    <2>1. pc[s] # "idle" => snap # None
      BY <1>0 DEF LaunchOrder
    <2>2. ~UsesBareName(s)
      BY <1>0 DEF TypeOK, UsesBareName, NoBareNames
    <2> QED
      BY <2>1, <2>2 DEF Found
  <1>1. ASSUME NEW t \in Threads, UpdateFails(t) PROVE snap'.job = "failed"
    <2>1. t # s
      BY <1>1, <1>c DEF UpdateFails, JobLabels, StepLabels
    <2> QED
      BY <1>0, <1>1, <1>b, <2>1 DEF TypeOK, UpdateFails, Goto
  <1>2. ASSUME NEW t \in Threads, Writes(t), pc[s] = "failed" PROVE snap'.job = "failed"
    BY <1>2, <1>a, JobStays
  <1>3. CASE PutJobStatus(s)
    <2>1. read[s] = snap
      BY <1>3 DEF QuietInv, LoneCopies, PutJobStatus
    <2>2. JobReport(pc[s]) = "failed"
      BY <1>0, <1>3 DEF TypeOK, PutJobStatus, JobReport, JobLabels, RunnerLabels,
                        StepLabels, Returned
    <2>3. s \in acked'
      BY <1>3, <2>1, <2>2 DEF PutJobStatus, Conflict
    <2> QED
      BY <2>3 DEF IInv, FailureSticks
  <1>4. ASSUME NEW t \in Threads, Writes(t), pc[s] # "failed" PROVE snap'.job = "failed"
    <2>1. t = s
      BY <1>0, <1>4 DEF TypeOK, Writes, PutJobStatus, PutStepStatus, InitJobStatus, Goto
    <2>2. ~PutStepStatus(s)
      BY <1>0 DEF TypeOK, PutStepStatus, Goto, StepLabels, AfterUpdate, AfterReport
    <2> QED
      BY <1>3, <1>4, <2>1, <2>2 DEF Writes
  <1>5. CASE \/ CreateSnapshot \/ CreateSnapshotFails \/ InitJobStatusFails \/ Reject
             \/ Launch \/ Requeue \/ FinishJob \/ Crash \/ UNCHANGED vars
             \/ \E t \in Threads : GetSnapshot(t)
    <2>1. pc[s] = "failed"
      BY <1>0, <1>5
         DEF TypeOK, CreateSnapshot, CreateSnapshotFails, InitJobStatusFails, Reject,
             Launch, Requeue, FinishJob, Crash, vars, GetSnapshot, Goto
    <2>2. ~CreateSnapshot
      BY <1>a, <2>1 DEF CreateSnapshot
    <2> QED
      BY <1>5, <1>b, <2>1, <2>2
         DEF CreateSnapshotFails, InitJobStatusFails, Reject, Launch, Requeue, FinishJob,
             Crash, vars, GetSnapshot
  <1>6. CASE StartStage
    BY <1>0, <1>6, <1>b DEF TypeOK, StartStage
  <1>7. ASSUME NEW r \in Steps, Choose(r) PROVE snap'.job = "failed"
    BY <1>0, <1>7, <1>b DEF TypeOK, Choose, Goto, Outcomes
  <1> QED
    BY <1>1, <1>2, <1>4, <1>5, <1>6, <1>7
       DEF Next, Reconcile, Execute, RunStep, Update, CreateJobs, OpenWatch, Verdict, Writes

\* While the API server does not fail and no type uses the bare name, a job is
\* recorded as failed once a step failed that had its stage to itself.
THEOREM FailureReachesJob ==
  ASSUME ~ApiMayFail, NoBareNames
  PROVE  Spec => []FailedStepFailsJob
  <1>1. Init => FailedStepFailsJob
    BY ThreadKinds DEF Init, FailedStepFailsJob
  <1>2. IInv /\ IInv' /\ QuietInv /\ FailedStepFailsJob /\ [Next]_vars => FailedStepFailsJob'
    BY JobFailureStep
  <1> QED
    BY QuietInvariance, <1>1, <1>2, PTL DEF Spec
=============================================================================
