---------------------------- MODULE ChaosRunProofs ----------------------------
(***************************************************************************)
(* Proofs about ChaosRun, for every number of steps and stages, every      *)
(* layout, every set of names and types, and whether or not the API server *)
(* fails.  IInv of ChaosRun is inductive; the invariants the runs check    *)
(* follow from it, and so does the refinement of SnapshotLedger.           *)
(***************************************************************************)
EXTENDS ChaosRun, TLAPS

Labels == ReconcilerLabels \cup ExecutorLabels \cup RunnerLabels

\* The reconciler and the executor are threads of their own.
LEMMA ThreadKinds ==
  /\ Reconciler \in Threads /\ Executor \in Threads /\ Reconciler # Executor
  /\ Steps \subseteq Threads /\ Reconciler \notin Steps /\ Executor \notin Steps
  /\ \A t \in Threads : t = Reconciler \/ t = Executor \/ t \in Steps
  BY StepsAssumption DEF Threads, Steps, Reconciler, Executor

\* After an update a thread goes on at a label of its own kind.
LEMMA UpdateLabels ==
  /\ \A l \in ReconcilerLabels \cap (JobLabels \cup StepLabels) :
       AfterUpdate(l) = "backoff"
  /\ \A l \in ExecutorLabels \cap (JobLabels \cup StepLabels) :
       AfterUpdate(l) \in {"stages", "done"}
  /\ \A l \in RunnerLabels \cap (JobLabels \cup StepLabels) :
       AfterUpdate(l) \in Returned \cup {"openWatch", "failJob", "failJobCreate"}
  BY DEF ReconcilerLabels, ExecutorLabels, RunnerLabels, JobLabels, StepLabels,
         AfterUpdate, AfterReport, Returned

LEMMA UpdateLeads ==
  \A l : AfterUpdate(l) \in {"backoff", "stages", "done", "openWatch", "succeeded",
                            "failJobCreate", "failJob", "failed"}
  BY DEF AfterUpdate, AfterReport

\* Every thread reports a status there is, and no thread reports "unknown".
LEMMA ReportTypes ==
  \A l : /\ JobReport(l) \in Status \ {"unknown", "pending"}
         /\ StepReport(l) \in Status \ {"unknown", "pending"}
  BY DEF JobReport, StepReport, Status

LEMMA OutcomeLabels ==
  \A l : Outcomes(l) \subseteq RunnerLabels
  BY DEF Outcomes, RunnerLabels, StepLabels, Returned

\* A copy written back is an object.
LEMMA WrittenType ==
  ASSUME TypeOK, NEW t \in Threads, read[t] # None, snap # None,
         NEW steps \in [Steps -> Status], NEW status \in Status \cup {NoStatus}
  PROVE  Written(t, steps, status) \in Snapshot
  BY DEF TypeOK, Written, Snapshot

-----------------------------------------------------------------------------
(* Types.                                                                  *)

LEMMA TypeInit == Init => TypeOK
  <1> SUFFICES ASSUME Init PROVE TypeOK
    OBVIOUS
  <1> QED
    BY ThreadKinds, StepsAssumption
       DEF Init, TypeOK, ReconcilerLabels, ExecutorLabels, RunnerLabels

\* An update moves a thread to a label of its own kind.
LEMMA UpdateType ==
  ASSUME TypeOK, NEW t \in Threads, pc[t] \in JobLabels \cup StepLabels
  PROVE  /\ AfterUpdate(pc[t]) \in Labels
         /\ t = Reconciler => AfterUpdate(pc[t]) \in ReconcilerLabels
         /\ t = Executor => AfterUpdate(pc[t]) \in ExecutorLabels
         /\ t \in Steps => AfterUpdate(pc[t]) \in RunnerLabels
  <1>1. CASE t = Reconciler
    BY <1>1, ThreadKinds, UpdateLabels DEF TypeOK, Labels, ReconcilerLabels
  <1>2. CASE t = Executor
    BY <1>2, ThreadKinds, UpdateLabels DEF TypeOK, Labels, ExecutorLabels
  <1>3. CASE t \in Steps
    BY <1>3, ThreadKinds, UpdateLabels
       DEF TypeOK, Labels, RunnerLabels, StepLabels, Returned
  <1> QED
    BY <1>1, <1>2, <1>3, ThreadKinds

\* The copy of a thread that is about to write it back is an object, and so is
\* what it was copied from.
LEMMA CopyType ==
  ASSUME IInv, NEW t \in Threads,
         read[t] # None \/ (t = Reconciler /\ pc[t] = "initStatus")
  PROVE  read[t] \in Snapshot /\ read[t] # None /\ snap \in Snapshot /\ snap # None
  BY NoneAssumption DEF IInv, TypeOK, CopiesAreHonest, StatusPublished

\* What is written back replaces the object only if the copy was up to date.
LEMMA WriteBack ==
  ASSUME IInv, NEW t \in Threads,
         read[t] # None \/ (t = Reconciler /\ pc[t] = "initStatus"),
         NEW steps, NEW status
  PROVE  \/ Written(t, steps, status) = snap
         \/ /\ read[t] = snap
            /\ Written(t, steps, status)
                 = [rv |-> snap.rv + 1, steps |-> steps, job |-> status]
  BY CopyType DEF IInv, CopiesAreHonest, Written, Conflict, Snapshot

\* The three actions that write a copy back.
Writes(t) == \/ PutJobStatus(t)
             \/ t \in Steps /\ PutStepStatus(t)
             \/ t = Reconciler /\ InitJobStatus

\* A thread that writes uses up its copy, and leaves the object alone or
\* replaces it by a newer one made from a copy that was up to date.
LEMMA Writers ==
  ASSUME IInv, NEW t \in Threads, Writes(t)
  PROVE  /\ snap \in Snapshot /\ snap # None /\ snap' # None
         /\ read' = [read EXCEPT ![t] = None]
         /\ \/ snap' = snap
            \/ read[t] = snap /\ snap' \in Snapshot /\ snap'.rv = snap.rv + 1
  <1>1. read[t] # None \/ (t = Reconciler /\ pc[t] = "initStatus")
    BY DEF Writes, PutJobStatus, PutStepStatus, InitJobStatus
  <1>2. read[t] \in Snapshot /\ read[t] # None /\ snap \in Snapshot /\ snap # None
    BY <1>1, CopyType
  <1>3. TypeOK
    BY DEF IInv
  <1>4. ASSUME NEW steps \in [Steps -> Status], NEW status \in Status \cup {NoStatus},
               snap' = Written(t, steps, status)
        PROVE  \/ snap' = snap
               \/ read[t] = snap /\ snap' \in Snapshot /\ snap'.rv = snap.rv + 1
    BY <1>1, <1>2, <1>3, <1>4, WriteBack, WrittenType DEF Snapshot
  <1>5. CASE PutJobStatus(t)
    BY <1>2, <1>4, <1>5, ReportTypes, NoneAssumption DEF PutJobStatus, Snapshot
  <1>6. CASE t \in Steps /\ PutStepStatus(t)
    BY <1>2, <1>4, <1>6, ReportTypes, NoneAssumption DEF PutStepStatus, Snapshot
  <1>7. CASE t = Reconciler /\ InitJobStatus
    BY <1>2, <1>4, <1>7, NoneAssumption DEF InitJobStatus, Snapshot, Status
  <1> QED
    BY <1>5, <1>6, <1>7 DEF Writes

\* What each of them may do to the object.
LEMMA JobWrite ==
  ASSUME IInv, NEW t \in Threads, PutJobStatus(t)
  PROVE  \/ snap' = snap
         \/ /\ read[t] = snap
            /\ statusCheck(snap.job, JobReport(pc[t]))
            /\ snap' = [rv |-> snap.rv + 1, steps |-> snap.steps,
                        job |-> JobReport(pc[t])]
  BY WriteBack DEF PutJobStatus, Allowed

StepWritten(s) == [i \in Steps |-> IF IsFirst(i, Candidates(s, s, StepReport(pc[s])))
                                  THEN StepReport(pc[s]) ELSE read[s].steps[i]]

LEMMA StepWrite ==
  ASSUME IInv, NEW s \in Steps, PutStepStatus(s)
  PROVE  \/ snap' = snap
         \/ /\ read[s] = snap
            /\ snap' = [rv |-> snap.rv + 1, steps |-> StepWritten(s), job |-> snap.job]
  BY WriteBack, ThreadKinds DEF PutStepStatus, StepWritten

LEMMA InitWrite ==
  ASSUME IInv, InitJobStatus
  PROVE  /\ snap.job = NoStatus
         /\ \/ snap' = snap /\ Conflict(Reconciler)
            \/ snap' = [rv |-> snap.rv + 1, steps |-> snap.steps, job |-> "pending"]
  <1>1. snap.job = NoStatus /\ read[Reconciler] \in Snapshot /\ snap \in Snapshot
        /\ (read[Reconciler].rv = snap.rv => read[Reconciler] = snap)
    BY CopyType, ThreadKinds DEF IInv, StatusPublished, CopiesAreHonest, InitJobStatus
  <1> QED
    BY <1>1 DEF InitJobStatus, Written, Conflict, NoStatus

\* What InitSnapshot creates is an object.
LEMMA Created == CreateSnapshot => snap' \in Snapshot /\ snap' # None
  BY NoneAssumption DEF CreateSnapshot, NewSteps, Snapshot, Status

LEMMA TypeStep == IInv /\ [Next]_vars => TypeOK'
  <1> SUFFICES ASSUME IInv, [Next]_vars PROVE TypeOK'
    OBVIOUS
  <1> USE ThreadKinds
  <1>0. TypeOK
    BY DEF IInv
  <1>1. ASSUME NEW t \in Threads, GetSnapshot(t) PROVE TypeOK'
    BY <1>0, <1>1 DEF TypeOK, GetSnapshot, Found
  <1>2. ASSUME NEW t \in Threads, UpdateFails(t) PROVE TypeOK'
    BY <1>0, <1>2, UpdateType DEF TypeOK, UpdateFails, Goto, Labels
  <1>3. ASSUME NEW t \in Threads, PutJobStatus(t) PROVE TypeOK'
    <2>1. snap' \in Snapshot \cup {None}
      BY <1>3, Writers DEF Writes
    <2> QED
      BY <1>0, <1>3, <2>1, UpdateType DEF TypeOK, PutJobStatus, Goto, Labels
  <1>4. ASSUME NEW s \in Steps, PutStepStatus(s) PROVE TypeOK'
    <2>1. snap' \in Snapshot \cup {None}
      BY <1>4, Writers DEF Writes
    <2> QED
      BY <1>0, <1>4, <2>1, UpdateType DEF TypeOK, PutStepStatus, Goto, Labels
  <1>5. ASSUME CreateSnapshot PROVE TypeOK'
    BY <1>0, <1>5, Created DEF TypeOK, CreateSnapshot, Goto, ReconcilerLabels
  <1>6. ASSUME CreateSnapshotFails \/ InitJobStatusFails \/ Reject \/ Requeue
        PROVE  TypeOK'
    BY <1>0, <1>6 DEF TypeOK, CreateSnapshotFails, InitJobStatusFails, Reject, Requeue,
                      Goto, ReconcilerLabels
  <1>7. ASSUME InitJobStatus PROVE TypeOK'
    <2>1. snap' \in Snapshot \cup {None}
      BY <1>7, Writers DEF Writes
    <2> QED
      BY <1>0, <1>7, <2>1 DEF TypeOK, InitJobStatus, Goto, ReconcilerLabels
  <1>8. ASSUME Launch PROVE TypeOK'
    BY <1>0, <1>8 DEF TypeOK, Launch, ReconcilerLabels, ExecutorLabels
  <1>9. ASSUME StartStage PROVE TypeOK'
    BY <1>0, <1>9, StepsAssumption DEF TypeOK, StartStage, RunnerLabels, Returned
  <1>10. ASSUME FinishJob PROVE TypeOK'
    BY <1>0, <1>10 DEF TypeOK, FinishJob, Goto, ExecutorLabels
  <1>11. ASSUME NEW s \in Steps, Choose(s) PROVE TypeOK'
    BY <1>0, <1>11, OutcomeLabels DEF TypeOK, Choose, Goto
  <1>12. ASSUME Crash PROVE TypeOK'
    BY <1>0, <1>12 DEF TypeOK, Crash, ReconcilerLabels, ExecutorLabels, RunnerLabels
  <1>13. CASE UNCHANGED vars
    BY <1>0, <1>13 DEF TypeOK, vars
  <1> QED
    BY <1>1, <1>2, <1>3, <1>4, <1>5, <1>6, <1>7, <1>8, <1>9, <1>10, <1>11, <1>12,
       <1>13
       DEF Next, Reconcile, Execute, RunStep, Update, CreateJobs, OpenWatch, Verdict

-----------------------------------------------------------------------------
(* Copies.                                                                 *)

LEMMA CopiesStep == IInv /\ [Next]_vars => CopiesAreHonest'
  <1> SUFFICES ASSUME IInv, [Next]_vars PROVE CopiesAreHonest'
    OBVIOUS
  <1> USE ThreadKinds
  <1>0. TypeOK /\ CopiesAreHonest
    BY DEF IInv
  <1>a. TypeOK'
    BY TypeStep
  <1>b. \A t \in Threads : read[t] # None => read[t] \in Snapshot /\ snap \in Snapshot
    BY CopyType
  \* It is enough that the object gets newer and the other copies stay.
  <1>c. ASSUME NEW t \in Threads, Writes(t) PROVE CopiesAreHonest'
    BY <1>0, <1>a, <1>b, <1>c, Writers, NoneAssumption
       DEF TypeOK, CopiesAreHonest, Snapshot
  <1>1. ASSUME NEW t \in Threads, GetSnapshot(t) PROVE CopiesAreHonest'
    BY <1>0, <1>1, NoneAssumption
       DEF TypeOK, CopiesAreHonest, GetSnapshot, Found, Snapshot
  <1>2. ASSUME NEW t \in Threads, UpdateFails(t) PROVE CopiesAreHonest'
    BY <1>0, <1>2 DEF TypeOK, CopiesAreHonest, UpdateFails
  <1>5. ASSUME CreateSnapshot PROVE CopiesAreHonest'
    BY <1>0, <1>5, <1>a, NoneAssumption
       DEF TypeOK, CopiesAreHonest, CreateSnapshot, Snapshot
  <1>7. ASSUME InitJobStatusFails \/ Crash PROVE CopiesAreHonest'
    BY <1>0, <1>7 DEF TypeOK, CopiesAreHonest, InitJobStatusFails, Crash
  <1>8. CASE UNCHANGED <<snap, read>>
    BY <1>0, <1>8 DEF CopiesAreHonest
  <1> QED
    BY <1>c, <1>1, <1>2, <1>5, <1>7, <1>8
       DEF Next, Reconcile, Execute, RunStep, Update, CreateJobs, OpenWatch, Verdict,
           Writes, Choose, CreateSnapshotFails, Reject, Launch, Requeue, StartStage, FinishJob,
           vars

-----------------------------------------------------------------------------
(* Launching.                                                              *)

LEMMA LaunchStep == IInv /\ [Next]_vars => LaunchOrder'
  <1> SUFFICES ASSUME IInv, [Next]_vars PROVE LaunchOrder'
    OBVIOUS
  <1> USE ThreadKinds
  <1>0. TypeOK /\ CopiesAreHonest /\ LaunchOrder /\ StatusPublished
    BY DEF IInv
  <1>a. PreCheck' <=> PreCheck
    BY DEF PreCheck, Next, Reconcile, Execute, RunStep, Update, CreateJobs, OpenWatch,
           Verdict, Choose, CreateSnapshot, CreateSnapshotFails, InitJobStatus,
           InitJobStatusFails, Reject, Launch, Requeue, StartStage, FinishJob, Crash,
           GetSnapshot, UpdateFails, PutJobStatus, PutStepStatus, vars
  \* A thread that is on its way and goes on, but does not begin a reconciliation.
  <1>b. ASSUME NEW t \in Threads, NEW l,
               pc[t] \notin {"none", "idle", "queued", "backoff"},
               l \notin {"none", "initStatus", "preCheck", "jobRejected"},
               Goto(t, l), UNCHANGED <<launches, stage>>,
               snap # None => snap' # None
        PROVE  LaunchOrder'
    <2>1. snap # None /\ snap' # None
      BY <1>0, <1>b DEF LaunchOrder
    <2>2. t \in Steps => pc[Executor] # "none"
      BY <1>0, <1>b DEF LaunchOrder
    <2>3. pc' = [pc EXCEPT ![t] = l] /\ pc \in [Threads -> Labels]
      BY <1>0, <1>b DEF Goto, TypeOK, Labels
    <2>4. CASE t = Reconciler
      BY <1>0, <1>a, <1>b, <2>1, <2>3, <2>4 DEF LaunchOrder
    <2>5. CASE t # Reconciler
      <3>1. pc[Executor] # "none" /\ pc'[Executor] # "none"
        BY <1>b, <2>2, <2>3, <2>5
      <3>2. pc'[Reconciler] = pc[Reconciler]
        BY <2>3, <2>5
      <3> QED
        BY <1>0, <1>a, <1>b, <2>1, <3>1, <3>2 DEF LaunchOrder
    <2> QED
      BY <2>4, <2>5
  <1>1. ASSUME NEW t \in Threads, GetSnapshot(t) PROVE LaunchOrder'
    BY <1>0, <1>a, <1>1 DEF LaunchOrder, GetSnapshot
  <1>2. ASSUME NEW t \in Threads, UpdateFails(t) PROVE LaunchOrder'
    <2>1. pc[t] \notin {"none", "idle", "queued", "backoff"}
      BY <1>2 DEF UpdateFails, JobLabels, StepLabels
    <2> QED
      BY <1>2, <1>b, <2>1, UpdateLeads DEF UpdateFails
  <1>3. ASSUME NEW t \in Threads, PutJobStatus(t) PROVE LaunchOrder'
    <2>1. pc[t] \notin {"none", "idle", "queued", "backoff"}
      BY <1>3 DEF PutJobStatus, JobLabels
    <2> QED
      BY <1>3, <1>b, <2>1, UpdateLeads, Writers DEF PutJobStatus, Writes
  <1>4. ASSUME NEW s \in Steps, PutStepStatus(s) PROVE LaunchOrder'
    <2>1. pc[s] \notin {"none", "idle", "queued", "backoff"}
      BY <1>4 DEF PutStepStatus, StepLabels
    <2> QED
      BY <1>4, <1>b, <2>1, UpdateLeads, Writers DEF PutStepStatus, Writes
  <1>5. ASSUME CreateSnapshot PROVE LaunchOrder'
    BY <1>0, <1>5, <1>a, Created DEF TypeOK, LaunchOrder, CreateSnapshot, Goto
  <1>6. ASSUME CreateSnapshotFails \/ Requeue PROVE LaunchOrder'
    BY <1>0, <1>6, <1>a
       DEF TypeOK, LaunchOrder, CreateSnapshotFails, Requeue, Goto
  <1>7. ASSUME InitJobStatus \/ InitJobStatusFails \/ Reject PROVE LaunchOrder'
    BY <1>0, <1>7, <1>a, Writers
       DEF TypeOK, LaunchOrder, InitJobStatus, InitJobStatusFails, Reject, Goto, Writes
  <1>8. ASSUME Launch PROVE LaunchOrder'
    BY <1>0, <1>8, <1>a DEF TypeOK, LaunchOrder, Launch
  <1>9. ASSUME StartStage PROVE LaunchOrder'
    BY <1>0, <1>9, <1>a DEF TypeOK, LaunchOrder, StartStage
  <1>10. ASSUME FinishJob PROVE LaunchOrder'
    BY <1>0, <1>10, <1>a, <1>b DEF FinishJob
  <1>11. ASSUME NEW s \in Steps, Choose(s) PROVE LaunchOrder'
    BY <1>0, <1>11, <1>a DEF TypeOK, LaunchOrder, Choose, Goto, Outcomes
  <1>12. ASSUME Crash PROVE LaunchOrder'
    BY <1>0, <1>12, <1>a DEF TypeOK, LaunchOrder, Crash, Returned
  <1>13. CASE UNCHANGED vars
    BY <1>0, <1>13, <1>a DEF LaunchOrder, vars
  <1> QED
    BY <1>1, <1>2, <1>3, <1>4, <1>5, <1>6, <1>7, <1>8, <1>9, <1>10, <1>11, <1>12,
       <1>13
       DEF Next, Reconcile, Execute, RunStep, Update, CreateJobs, OpenWatch, Verdict

-----------------------------------------------------------------------------
(* The job's status.                                                       *)

LEMMA StatusStep == IInv /\ [Next]_vars => StatusPublished'
  <1> SUFFICES ASSUME IInv, [Next]_vars PROVE StatusPublished'
    OBVIOUS
  <1> USE ThreadKinds
  <1>0. TypeOK /\ CopiesAreHonest /\ LaunchOrder /\ StatusPublished
    BY DEF IInv
  <1>a. \A l \in {"initStatus", "queued", "backoff", "preCheck", "none", "stages",
                  "idle", "create", "openWatch", "wait"} : l \notin JobLabels \cup StepLabels
    BY DEF JobLabels, StepLabels
  \* A thread drops its copy, if it has one, and goes on.
  <1>b. ASSUME NEW t \in Threads, NEW l,
               pc[t] \notin {"none", "queued", "backoff", "initStatus", "preCheck"},
               l \notin {"initStatus", "preCheck", "jobRejected"},
               t \in Steps => pc[t] # "idle",
               pc' = [pc EXCEPT ![t] = l], read' = [read EXCEPT ![t] = None],
               snap.job # NoStatus => snap'.job # NoStatus,
               snap'.job # snap.job => snap.job # NoStatus
        PROVE  StatusPublished'
    BY <1>0, <1>b DEF TypeOK, LaunchOrder, StatusPublished
  <1>1. ASSUME NEW t \in Threads, GetSnapshot(t) PROVE StatusPublished'
    BY <1>0, <1>1, <1>a DEF TypeOK, StatusPublished, GetSnapshot
  <1>2. ASSUME NEW t \in Threads, UpdateFails(t) PROVE StatusPublished'
    BY <1>2, <1>a, <1>b, UpdateLeads
       DEF UpdateFails, Goto, JobLabels, StepLabels
  <1>3. ASSUME NEW t \in Threads, PutJobStatus(t) PROVE StatusPublished'
    <2>1. /\ snap.job # NoStatus => snap'.job # NoStatus
          /\ snap'.job # snap.job => snap.job # NoStatus
      <3>1. JobReport(pc[t]) # NoStatus
        BY ReportTypes DEF NoStatus, Status
      <3>2. statusCheck(snap.job, JobReport(pc[t])) => snap.job # NoStatus
        BY DEF statusCheck, NoStatus
      <3> QED
        BY <1>3, <3>1, <3>2, JobWrite
    <2> QED
      BY <1>3, <1>a, <1>b, <2>1, UpdateLeads DEF PutJobStatus, Goto, JobLabels
  <1>4. ASSUME NEW s \in Steps, PutStepStatus(s) PROVE StatusPublished'
    <2>1. snap'.job = snap.job
      BY <1>4, StepWrite
    <2> QED
      BY <1>4, <1>a, <1>b, <2>1, UpdateLeads DEF PutStepStatus, Goto, StepLabels
  <1>5. ASSUME CreateSnapshot PROVE StatusPublished'
    BY <1>0, <1>5, <1>a, Created, NoneAssumption
       DEF TypeOK, CopiesAreHonest, LaunchOrder, StatusPublished, CreateSnapshot, Goto
  <1>6. ASSUME CreateSnapshotFails \/ Requeue PROVE StatusPublished'
    BY <1>0, <1>6, <1>a
       DEF TypeOK, StatusPublished, CreateSnapshotFails, Requeue, Goto
  <1>7. ASSUME InitJobStatus PROVE StatusPublished'
    <2>1. \E l \in {"preCheck", "backoff"} :
            pc' = [pc EXCEPT ![Reconciler] = l] /\ (l = "backoff" \/ ~Conflict(Reconciler))
      BY <1>7 DEF InitJobStatus, Goto
    <2>2. ~Conflict(Reconciler) => snap'.job = "pending"
      BY <1>7, InitWrite DEF Conflict
    <2>3. read' = [read EXCEPT ![Reconciler] = None] /\ pc[Executor] = "none"
      BY <1>0, <1>7 DEF LaunchOrder, InitJobStatus
    <2> QED
      BY <1>0, <2>1, <2>2, <2>3 DEF TypeOK, StatusPublished, NoStatus
  <1>8. ASSUME InitJobStatusFails PROVE StatusPublished'
    BY <1>0, <1>8, <1>a
       DEF TypeOK, LaunchOrder, StatusPublished, InitJobStatusFails, Goto
  <1>9. ASSUME Reject \/ Launch PROVE StatusPublished'
    BY <1>0, <1>9, <1>a DEF TypeOK, LaunchOrder, StatusPublished, Reject, Launch, Goto
  <1>10. ASSUME StartStage PROVE StatusPublished'
    <2>1. \A s \in Steps : StageOf[s] = stage + 1 => pc[s] = "idle"
      BY <1>0, StepsAssumption DEF IInv, StagesInOrder, TypeOK
    <2>2. /\ pc'[Reconciler] = pc[Reconciler] /\ pc'[Executor] = pc[Executor]
          /\ UNCHANGED <<read, snap>>
      BY <1>0, <1>10 DEF StartStage, TypeOK
    <2>3. \A t \in Threads : read[t] # None => pc'[t] = pc[t]
      BY <1>0, <1>10, <1>a, <2>1 DEF StartStage, StatusPublished
    <2> QED
      BY <1>0, <2>2, <2>3 DEF StatusPublished
  <1>11. ASSUME FinishJob PROVE StatusPublished'
    BY <1>0, <1>11, <1>a DEF TypeOK, LaunchOrder, StatusPublished, FinishJob, Goto
  <1>12. ASSUME NEW s \in Steps, Choose(s) PROVE StatusPublished'
    <2>1. pc[s] \in {"create", "openWatch", "wait"}
      BY <1>12 DEF Choose, Outcomes
    <2>2. \A t \in Threads : read[t] # None => t # s
      BY <1>0, <1>a, <2>1 DEF StatusPublished
    <2> QED
      BY <1>0, <1>12, <2>2 DEF TypeOK, StatusPublished, Choose, Goto
  <1>13. ASSUME Crash PROVE StatusPublished'
    BY <1>0, <1>13, <1>a DEF TypeOK, StatusPublished, Crash, Returned
  <1>14. CASE UNCHANGED vars
    BY <1>0, <1>14 DEF StatusPublished, vars
  <1> QED
    BY <1>1, <1>2, <1>3, <1>4, <1>5, <1>6, <1>7, <1>8, <1>9, <1>10, <1>11, <1>12,
       <1>13, <1>14
       DEF Next, Reconcile, Execute, RunStep, Update, CreateJobs, OpenWatch, Verdict

-----------------------------------------------------------------------------
(* Failures.                                                               *)

\* A write neither makes the job unknown nor takes its failure back.
LEMMA JobStays ==
  ASSUME IInv, NEW t \in Threads, Writes(t)
  PROVE  /\ snap.job # "unknown" => snap'.job # "unknown"
         /\ snap.job = "failed" => snap'.job = "failed"
  <1>1. ASSUME NEW status, statusCheck(snap.job, status) PROVE snap.job # "failed"
    BY <1>1 DEF statusCheck
  <1>2. CASE PutJobStatus(t)
    BY <1>1, <1>2, JobWrite, ReportTypes
  <1>3. CASE t \in Steps /\ PutStepStatus(t)
    BY <1>3, StepWrite
  <1>4. CASE t = Reconciler /\ InitJobStatus
    <2>1. snap' = snap \/ snap'.job = "pending"
      BY <1>4, InitWrite
    <2>2. snap.job # "failed"
      BY <1>4, InitWrite DEF NoStatus
    <2> QED
      BY <2>1, <2>2
  <1> QED
    BY <1>2, <1>3, <1>4 DEF Writes

\* A report of a failure that was acknowledged finds the job failed or fails it.
LEMMA AckMeansFailed ==
  ASSUME IInv, NEW t \in Threads, PutJobStatus(t), acked' # acked
  PROVE  snap'.job = "failed"
  <1>1. read[t] \in Snapshot /\ snap \in Snapshot
        /\ (read[t].rv = snap.rv => read[t] = snap)
    BY CopyType DEF PutJobStatus, IInv, CopiesAreHonest
  <1>2. /\ read[t].job \in Status \ {"unknown"}
        /\ read[t].job = "failed" => snap.job = "failed"
    <2>1. pc[t] # "initStatus" /\ read[t] # None
      BY DEF PutJobStatus, JobLabels
    <2> QED
      BY <1>1, <2>1 DEF IInv, FailureSticks, Snapshot
  <1>3. JobReport(pc[t]) = "failed"
    BY DEF PutJobStatus
  <1>4. CASE statusCheck(read[t].job, "failed")
    BY <1>1, <1>3, <1>4 DEF PutJobStatus, Allowed, Written, Conflict
  <1>5. CASE ~statusCheck(read[t].job, "failed")
    <2>1. read[t].job = "failed"
      BY <1>2, <1>5 DEF statusCheck, Status
    <2> QED
      BY <1>2, <1>3, <1>5, <2>1 DEF PutJobStatus, Allowed
  <1> QED
    BY <1>4, <1>5

LEMMA FailureStep == IInv /\ [Next]_vars => FailureSticks'
  <1> SUFFICES ASSUME IInv, [Next]_vars PROVE FailureSticks'
    OBVIOUS
  <1> USE ThreadKinds
  <1>0. TypeOK /\ CopiesAreHonest /\ LaunchOrder /\ StatusPublished /\ FailureSticks
    BY DEF IInv
  <1>a. \A t \in Threads :
          read[t] # None => pc[t] \in JobLabels \cup StepLabels \cup {"initStatus"}
    BY <1>0 DEF StatusPublished
  <1>b. \A l \in {"queued", "backoff", "preCheck", "none", "stages", "idle", "create",
                  "openWatch", "wait", "initStatus"} : l \notin JobLabels \cup StepLabels
    BY DEF JobLabels, StepLabels
  \* Nothing is lost while copies are dropped and the object stays.
  <1>c. ASSUME UNCHANGED <<snap, acked>>,
               \A t \in Threads : read'[t] # None =>
                 read'[t] = read[t] /\ (pc'[t] = "initStatus" <=> pc[t] = "initStatus")
        PROVE  FailureSticks'
    BY <1>0, <1>c DEF FailureSticks
  <1>1. ASSUME NEW t \in Threads, GetSnapshot(t) PROVE FailureSticks'
    <2>1. snap.job # NoStatus
      <3>1. t # Reconciler => pc[Executor] # "none"
        BY <1>0, <1>1, <1>b DEF GetSnapshot, LaunchOrder
      <3>2. t = Reconciler => pc[t] = "jobRejected"
        BY <1>0, <1>1 DEF GetSnapshot, TypeOK, ReconcilerLabels, JobLabels, StepLabels
      <3> QED
        BY <1>0, <3>1, <3>2 DEF StatusPublished
    <2> QED
      BY <1>0, <1>1, <2>1 DEF TypeOK, FailureSticks, GetSnapshot, Found
  <1>2. ASSUME NEW t \in Threads, UpdateFails(t) PROVE FailureSticks'
    BY <1>0, <1>2, <1>c DEF TypeOK, UpdateFails, Goto
  <1>3. ASSUME NEW t \in Threads, Writes(t) PROVE FailureSticks'
    <2>1. /\ snap.job # "unknown" => snap'.job # "unknown"
          /\ snap.job = "failed" => snap'.job = "failed"
          /\ snap # None /\ snap' # None
      BY <1>3, JobStays, Writers
    <2>2. acked' # acked => snap'.job = "failed"
      BY <1>3, AckMeansFailed
         DEF Writes, PutStepStatus, InitJobStatus
    <2>3. \A u \in Threads : read'[u] # None => read'[u] = read[u] /\ pc'[u] = pc[u]
      BY <1>0, <1>3 DEF TypeOK, Writes, PutJobStatus, PutStepStatus, InitJobStatus, Goto
    <2> QED
      BY <1>0, <2>1, <2>2, <2>3 DEF FailureSticks
  <1>4. ASSUME CreateSnapshot PROVE FailureSticks'
    <2>1. snap' # None /\ snap'.job = "" /\ acked' = {} /\ snap = None
      BY <1>0, <1>4, Created DEF CreateSnapshot, NoStatus, FailureSticks
    <2>2. \A t \in Threads :
            read'[t] # None => t = Reconciler /\ pc'[t] = "initStatus" /\ read'[t] = snap'
      BY <1>0, <1>4 DEF TypeOK, CopiesAreHonest, CreateSnapshot, Goto
    <2> QED
      BY <2>1, <2>2 DEF FailureSticks
  <1>5. ASSUME CreateSnapshotFails \/ InitJobStatusFails \/ Reject \/ Launch \/ Requeue
               \/ FinishJob
        PROVE  FailureSticks'
    BY <1>0, <1>5, <1>c, <1>a, <1>b
       DEF TypeOK, LaunchOrder, CreateSnapshotFails, InitJobStatusFails, Reject, Launch,
           Requeue, FinishJob, Goto
  <1>6. ASSUME StartStage PROVE FailureSticks'
    BY <1>0, <1>6, <1>c DEF TypeOK, RunnerLabels, StepLabels, Returned, StartStage
  <1>7. ASSUME NEW s \in Steps, Choose(s) PROVE FailureSticks'
    BY <1>0, <1>7, <1>c, <1>a, <1>b, OutcomeLabels
       DEF TypeOK, Choose, Goto, RunnerLabels, StepLabels, Returned
  <1>8. ASSUME Crash PROVE FailureSticks'
    BY <1>0, <1>8, <1>c DEF TypeOK, Crash
  <1>9. CASE UNCHANGED vars
    BY <1>0, <1>9, <1>c DEF vars
  <1> QED
    BY <1>1, <1>2, <1>3, <1>4, <1>5, <1>6, <1>7, <1>8, <1>9
       DEF Next, Reconcile, Execute, RunStep, Update, CreateJobs, OpenWatch, Verdict,
           Writes

-----------------------------------------------------------------------------
(* Stages.                                                                 *)

LEMMA StagesStep == IInv /\ [Next]_vars => StagesInOrder'
  <1> SUFFICES ASSUME IInv, [Next]_vars PROVE StagesInOrder'
    OBVIOUS
  <1> USE ThreadKinds
  <1>0. TypeOK /\ LaunchOrder /\ StatusPublished /\ StagesInOrder
    BY DEF IInv
  <1>a. \A l \in Returned \cup {"idle", "none"} : l \notin JobLabels \cup StepLabels
    BY DEF JobLabels, StepLabels, Returned
  \* A runner stays idle or returned, the job does not become a success, and
  \* the executor does not come to think that it is done.
  <1>b. ASSUME \A s \in Steps : pc[s] \in Returned \cup {"idle"} => pc'[s] = pc[s],
               UNCHANGED stage,
               pc'[Executor] \in {"jobSuccess", "done"}
                 => pc[Executor] \in {"jobSuccess", "done"},
               snap' # None /\ snap'.job = "success"
                 => \/ snap # None /\ snap.job = "success"
                    \/ pc[Executor] \in {"jobSuccess", "done"}
        PROVE  StagesInOrder'
    BY <1>0, <1>b DEF StagesInOrder, Returned
  <1>1. ASSUME NEW t \in Threads, UpdateFails(t) PROVE StagesInOrder'
    <2>1. pc'[Executor] \in {"jobSuccess", "done"}
            => pc[Executor] \in {"jobSuccess", "done"}
      BY <1>0, <1>1 DEF UpdateFails, Goto, TypeOK, AfterUpdate, AfterReport,
                        ExecutorLabels, JobLabels, StepLabels
    <2> QED
      BY <1>0, <1>1, <1>a, <1>b, <2>1 DEF UpdateFails, Goto, TypeOK
  <1>2. ASSUME NEW t \in Threads, PutJobStatus(t) PROVE StagesInOrder'
    <2>1. pc'[Executor] \in {"jobSuccess", "done"}
            => pc[Executor] \in {"jobSuccess", "done"}
      BY <1>0, <1>2 DEF PutJobStatus, Goto, TypeOK, AfterUpdate, AfterReport,
                        ExecutorLabels, JobLabels
    <2>2. JobReport(pc[t]) = "success" => t = Executor /\ pc[t] = "jobSuccess"
      BY <1>0 DEF JobReport, TypeOK, ReconcilerLabels, RunnerLabels, StepLabels, Returned
    <2>3. snap # None /\ (snap' = snap \/ snap'.job = JobReport(pc[t]))
      BY <1>2, JobWrite, Writers DEF Writes
    <2> QED
      BY <1>0, <1>2, <1>a, <1>b, <2>1, <2>2, <2>3 DEF PutJobStatus, Goto, TypeOK
  <1>3. ASSUME NEW s \in Steps, PutStepStatus(s) PROVE StagesInOrder'
    <2>1. snap # None /\ snap'.job = snap.job
      BY <1>3, StepWrite, Writers DEF Writes
    <2> QED
      BY <1>0, <1>3, <1>a, <1>b, <2>1 DEF PutStepStatus, Goto, TypeOK
  <1>4. ASSUME CreateSnapshot PROVE StagesInOrder'
    BY <1>0, <1>4, <1>b DEF CreateSnapshot, Goto, TypeOK, NoStatus
  <1>5. ASSUME InitJobStatus PROVE StagesInOrder'
    <2>1. snap # None /\ (snap' = snap \/ snap'.job = "pending")
      BY <1>5, InitWrite, Writers DEF Writes
    <2> QED
      BY <1>0, <1>5, <1>b, <2>1 DEF InitJobStatus, Goto, TypeOK
  <1>6. ASSUME \/ CreateSnapshotFails \/ InitJobStatusFails \/ Reject \/ Launch
               \/ Requeue \/ Crash \/ \E t \in Threads : GetSnapshot(t)
        PROVE  StagesInOrder'
    BY <1>0, <1>6, <1>b
       DEF CreateSnapshotFails, InitJobStatusFails, Reject, Launch, Requeue, Crash,
           GetSnapshot, Goto, TypeOK, Returned
  <1>7. ASSUME StartStage PROVE StagesInOrder'
    <2>1. \A s \in Steps : pc'[s] # pc[s] => StageOf[s] = stage + 1
      BY <1>7 DEF StartStage
    <2>2. \A s \in Steps : StageOf[s] <= stage => pc[s] \in Returned
      BY <1>7 DEF StartStage, StageFinished
    <2>3. stage' = stage + 1 /\ stage \in Nat /\ stage < NumStages
      BY <1>0, <1>7 DEF StartStage, TypeOK
    <2>4. pc'[Executor] = "stages" /\ snap' = snap
      BY <1>0, <1>7 DEF StartStage, TypeOK
    <2>5. snap # None /\ snap.job = "success" => \A s \in Steps : pc'[s] \in Returned
      BY <1>0, <2>1, <2>3, StepsAssumption DEF StagesInOrder, Returned
    <2> QED
      BY <1>0, <2>1, <2>2, <2>3, <2>4, <2>5, StepsAssumption DEF StagesInOrder
  <1>8. ASSUME FinishJob PROVE StagesInOrder'
    <2>1. \A s \in Steps : pc[s] \in Returned
      BY <1>8, StepsAssumption DEF FinishJob, StageFinished
    <2>2. \A s \in Steps : pc'[s] = pc[s]
      BY <1>0, <1>8 DEF FinishJob, Goto, TypeOK
    <2> QED
      BY <1>0, <1>8, <2>1, <2>2 DEF FinishJob, StagesInOrder
  <1>9. ASSUME NEW s \in Steps, Choose(s) PROVE StagesInOrder'
    BY <1>0, <1>9, <1>b DEF Choose, Goto, TypeOK, Outcomes, Returned
  <1>10. CASE UNCHANGED vars
    BY <1>0, <1>10, <1>b DEF vars
  <1> QED
    BY <1>1, <1>2, <1>3, <1>4, <1>5, <1>6, <1>7, <1>8, <1>9, <1>10
       DEF Next, Reconcile, Execute, RunStep, Update, CreateJobs, OpenWatch, Verdict

-----------------------------------------------------------------------------
(* The status of a step.                                                   *)

\* With distinct step names, UpdateSnapshot changes the entry of its own step,
\* or none.
LEMMA OwnEntry ==
  ASSUME IInv, NEW s \in Steps, PutStepStatus(s)
  PROVE  \/ snap'.steps = snap.steps
         \/ /\ statusCheck(snap.steps[s], StepReport(pc[s]))
            /\ snap'.steps = [snap.steps EXCEPT ![s] = StepReport(pc[s])]
  <1>1. PreCheck
    BY ThreadKinds DEF IInv, LaunchOrder, PutStepStatus, StepLabels
  <1>2. snap \in Snapshot
    BY Writers, ThreadKinds DEF Writes
  <1>3. CASE snap' = snap
    BY <1>3
  <1>4. CASE read[s] = snap /\ snap'.steps = StepWritten(s)
    <2>1. Candidates(s, s, StepReport(pc[s]))
            = IF statusCheck(snap.steps[s], StepReport(pc[s])) THEN {s} ELSE {}
      BY <1>1, <1>4 DEF Candidates, PreCheck
    <2>2. CASE statusCheck(snap.steps[s], StepReport(pc[s]))
      <3>1. \A i \in Steps : IsFirst(i, Candidates(s, s, StepReport(pc[s]))) <=> i = s
        BY <2>1, <2>2 DEF IsFirst, Steps
      <3>2. StepWritten(s) = [snap.steps EXCEPT ![s] = StepReport(pc[s])]
        BY <1>2, <1>4, <3>1 DEF StepWritten, Snapshot
      <3> QED
        BY <1>4, <2>2, <3>2
    <2>3. CASE ~statusCheck(snap.steps[s], StepReport(pc[s]))
      <3>1. StepWritten(s) = snap.steps
        BY <1>2, <1>4, <2>1, <2>3 DEF StepWritten, IsFirst, Snapshot
      <3> QED
        BY <1>4, <3>1
    <2> QED
      BY <2>2, <2>3
  <1> QED
    BY <1>3, <1>4, StepWrite

LEMMA OwnStep == IInv /\ [Next]_vars => OwnStatus'
  <1> SUFFICES ASSUME IInv, [Next]_vars PROVE OwnStatus'
    OBVIOUS
  <1> USE ThreadKinds
  <1>0. TypeOK /\ LaunchOrder /\ OwnStatus
    BY DEF IInv
  \* A runner keeps its label, or moves on without a report.
  <1>b. ASSUME \A s \in Steps :
                 /\ pc[s] \in {"succeeded", "failJob", "failJobCreate", "failed", "dead"}
                      => pc'[s] = pc[s] \/ (pc[s] # "succeeded" /\ pc'[s] \in {"failed", "dead"})
                 /\ pc[s] \notin {"idle", "create", "stepRunning"}
                      => pc'[s] \notin {"idle", "create", "stepRunning"},
               snap # None, snap' # None, snap'.steps = snap.steps
        PROVE  OwnStatus'
    BY <1>0, <1>b DEF OwnStatus
  <1>1. ASSUME NEW t \in Threads, UpdateFails(t) PROVE OwnStatus'
    <2>1. snap # None
      BY <1>0, <1>1
         DEF UpdateFails, LaunchOrder, JobLabels, StepLabels
    <2> QED
      BY <1>0, <1>1, <1>b, <2>1
         DEF UpdateFails, Goto, TypeOK, AfterUpdate, AfterReport, JobLabels, StepLabels,
             RunnerLabels, Returned
  <1>2. ASSUME NEW t \in Threads, PutJobStatus(t) PROVE OwnStatus'
    <2>1. snap # None /\ snap' # None /\ snap'.steps = snap.steps
      BY <1>2, JobWrite, Writers DEF Writes
    <2> QED
      BY <1>0, <1>2, <1>b, <2>1
         DEF PutJobStatus, Goto, TypeOK, AfterUpdate, AfterReport, JobLabels, StepLabels,
             RunnerLabels, Returned
  <1>3. ASSUME NEW s \in Steps, PutStepStatus(s) PROVE OwnStatus'
    <2>1. snap \in Snapshot /\ snap # None /\ snap' # None
      BY <1>3, Writers DEF Writes
    <2>2. \A i \in Steps \ {s} : pc'[i] = pc[i] /\ snap'.steps[i] = snap.steps[i]
      <3>1. snap.steps \in [Steps -> Status]
        BY <2>1 DEF Snapshot
      <3>2. \A i \in Steps \ {s} : snap'.steps[i] = snap.steps[i]
        BY <1>3, <3>1, OwnEntry
      <3>3. \A i \in Steps \ {s} : pc'[i] = pc[i]
        BY <1>0, <1>3 DEF PutStepStatus, Goto, TypeOK
      <3> QED
        BY <3>2, <3>3
    <2>3. pc'[s] = AfterUpdate(pc[s]) /\ pc[s] \in StepLabels
      BY <1>0, <1>3 DEF PutStepStatus, Goto, TypeOK
    <2>4. snap'.steps[s] = snap.steps[s] \/ snap'.steps[s] = StepReport(pc[s])
      BY <1>3, <2>1, OwnEntry DEF Snapshot
    <2>5. snap.steps[s] \notin {"success", "failed"}
      BY <1>0, <2>1, <2>3 DEF OwnStatus, StepLabels
    <2>6. /\ snap'.steps[s] = "running" => pc'[s] \notin {"idle", "create", "stepRunning"}
          /\ snap'.steps[s] = "success" => pc'[s] = "succeeded"
          /\ snap'.steps[s] = "failed" => pc'[s] \in {"failJob", "failJobCreate"}
      BY <2>3, <2>4, <2>5 DEF StepReport, StepLabels, AfterUpdate, AfterReport
    <2> QED
      BY <1>0, <2>1, <2>2, <2>6 DEF OwnStatus
  <1>4. ASSUME CreateSnapshot PROVE OwnStatus'
    <2>1. \A s \in Steps : snap'.steps[s] = "pending"
      BY <1>4 DEF CreateSnapshot, NewSteps
    <2> QED
      BY <2>1 DEF OwnStatus
  <1>5. ASSUME InitJobStatus PROVE OwnStatus'
    <2>1. snap # None /\ snap' # None /\ snap'.steps = snap.steps
      BY <1>5, InitWrite, Writers DEF Writes
    <2> QED
      BY <1>0, <1>5, <1>b, <2>1 DEF InitJobStatus, Goto, TypeOK
  <1>6. ASSUME \/ CreateSnapshotFails \/ InitJobStatusFails \/ Reject \/ Launch
               \/ Requeue \/ FinishJob \/ \E t \in Threads : GetSnapshot(t)
        PROVE  OwnStatus'
    BY <1>0, <1>6
       DEF CreateSnapshotFails, InitJobStatusFails, Reject, Launch, Requeue, FinishJob,
           GetSnapshot, Goto, TypeOK, OwnStatus
  <1>7. ASSUME StartStage PROVE OwnStatus'
    <2>1. \A s \in Steps : pc'[s] # pc[s] => pc[s] = "idle"
      BY <1>7, StepsAssumption DEF StartStage, IInv, StagesInOrder, TypeOK
    <2>2. snap' = snap
      BY <1>7 DEF StartStage
    <2> QED
      BY <1>0, <2>1, <2>2 DEF OwnStatus
  <1>8. ASSUME NEW s \in Steps, Choose(s) PROVE OwnStatus'
    BY <1>0, <1>8 DEF Choose, Goto, TypeOK, Outcomes, OwnStatus
  <1>9. ASSUME Crash PROVE OwnStatus'
    BY <1>0, <1>9 DEF Crash, Returned, OwnStatus
  <1>10. CASE UNCHANGED vars
    BY <1>0, <1>10 DEF vars, OwnStatus
  <1> QED
    BY <1>1, <1>2, <1>3, <1>4, <1>5, <1>6, <1>7, <1>8, <1>9, <1>10
       DEF Next, Reconcile, Execute, RunStep, Update, CreateJobs, OpenWatch, Verdict

-----------------------------------------------------------------------------
(* The inductive invariant and what follows from it.                       *)

LEMMA InvInit == Init => IInv
  <1> SUFFICES ASSUME Init PROVE IInv
    OBVIOUS
  <1>1. TypeOK
    BY TypeInit
  <1>2. CopiesAreHonest /\ LaunchOrder /\ StatusPublished /\ FailureSticks
    BY ThreadKinds
       DEF Init, CopiesAreHonest, LaunchOrder, StatusPublished, FailureSticks
  <1>3. StagesInOrder /\ OwnStatus
    BY ThreadKinds, StepsAssumption DEF Init, StagesInOrder, OwnStatus
  <1> QED
    BY <1>1, <1>2, <1>3 DEF IInv

\* The invariant is inductive.
THEOREM Invariance == Spec => []IInv
  <1>1. IInv /\ [Next]_vars => IInv'
    BY TypeStep, CopiesStep, LaunchStep, StatusStep, FailureStep, StagesStep, OwnStep
       DEF IInv
  <1> QED
    BY InvInit, <1>1, PTL DEF Spec

\* In every reachable state the variables have their types: in particular no
\* thread is ever at a label of another kind of thread.
THEOREM TypeCorrect == Spec => []TypeOK
  <1>1. IInv => TypeOK
    BY DEF IInv
  <1> QED
    BY Invariance, <1>1, PTL

\* A generation is executed at most once.
THEOREM RunsOnce == Spec => []AtMostOneRun
  <1>1. IInv => AtMostOneRun
    BY DEF IInv, LaunchOrder, AtMostOneRun
  <1> QED
    BY Invariance, <1>1, PTL

\* A job that PreCheck refuses is never executed.
THEOREM RefusedIsInert == Spec => []RejectedNeverRuns
  <1>1. IInv => RejectedNeverRuns
    BY DEF IInv, LaunchOrder, RejectedNeverRuns
  <1> QED
    BY Invariance, <1>1, PTL

\* An acknowledged failure of the job is never overwritten.
THEOREM FailureIsFinal == Spec => []AckedFailureIsFinal
  <1>1. IInv => AckedFailureIsFinal
    BY DEF IInv, FailureSticks, AckedFailureIsFinal
  <1> QED
    BY Invariance, <1>1, PTL

\* No step starts before those of the earlier stages have returned.
THEOREM StagesDoNotOverlap == Spec => []StageBarrier
  <1>1. IInv => StageBarrier
    <2> SUFFICES ASSUME IInv, NEW r \in Steps, NEW s \in Steps,
                        StageOf[r] < StageOf[s], pc[s] # "idle"
                 PROVE  pc[r] \in Returned
      BY DEF StageBarrier
    <2>1. StageOf[r] < stage
      BY StepsAssumption DEF IInv, TypeOK, StagesInOrder
    <2> QED
      BY <2>1 DEF IInv, StagesInOrder
  <1> QED
    BY Invariance, <1>1, PTL

\* A job is recorded as a success only when every one of its runners returned.
THEOREM SuccessIsLast == Spec => []SuccessMeansFinished
  <1>1. IInv => SuccessMeansFinished
    BY DEF IInv, StagesInOrder, SuccessMeansFinished
  <1> QED
    BY Invariance, <1>1, PTL

\* No step's status is the doing of another step's runner.
THEOREM StatusIsOwn == Spec => []OwnStatus
  <1>1. IInv => OwnStatus
    BY DEF IInv
  <1> QED
    BY Invariance, <1>1, PTL

\* What every step does to the record: nothing, its creation, or a change that
\* leaves the verdicts alone.
LEMMA VerdictStays ==
  ASSUME IInv, [Next]_vars, NEW s \in Steps, snap # None,
         snap.steps[s] \in {"success", "failed"}
  PROVE  snap' # None /\ snap'.steps[s] = snap.steps[s]
  <1> USE ThreadKinds
  <1>1. ASSUME NEW t \in Threads, PutJobStatus(t)
        PROVE  snap' # None /\ snap'.steps[s] = snap.steps[s]
    BY <1>1, JobWrite, Writers DEF Writes
  <1>2. ASSUME NEW t \in Steps, PutStepStatus(t)
        PROVE  snap' # None /\ snap'.steps[s] = snap.steps[s]
    <2>1. snap.steps \in [Steps -> Status] /\ snap' # None
      BY <1>2, Writers DEF Writes, Snapshot
    <2>2. CASE t = s
      BY <1>2, <2>2 DEF IInv, OwnStatus, PutStepStatus, StepLabels
    <2>3. CASE t # s
      BY <1>2, <2>1, <2>3, OwnEntry
    <2> QED
      BY <2>2, <2>3
  <1>3. CASE InitJobStatus
    BY <1>3, InitWrite, Writers DEF Writes
  <1>4. CASE UNCHANGED snap
    BY <1>4
  <1>5. CASE CreateSnapshot
    BY <1>5 DEF CreateSnapshot
  <1> QED
    BY <1>1, <1>2, <1>3, <1>4, <1>5
       DEF Next, Reconcile, Execute, RunStep, Update, CreateJobs, OpenWatch, Verdict, vars,
           GetSnapshot, UpdateFails, CreateSnapshotFails, InitJobStatusFails, Reject, Launch,
           Requeue, StartStage, FinishJob, Choose, Crash

\* A verdict that was recorded for a step is never replaced.
THEOREM VerdictsAreFinal == Spec => VerdictIsFinal
  <1>1. IInv /\ [Next]_vars =>
          [\A s \in Steps :
             snap # None /\ snap.steps[s] \in {"success", "failed"} =>
               snap' # None /\ snap'.steps[s] = snap.steps[s]]_vars
    BY VerdictStays
  <1> QED
    BY Invariance, <1>1, PTL DEF Spec, VerdictIsFinal

-----------------------------------------------------------------------------
(* Refinement of the ledger.                                               *)

\* The ledger speaks of the same statuses and transitions.
LEMMA SameStatuses ==
  /\ Ledger!Status = Status
  /\ Ledger!NoStatus = NoStatus
  /\ \A prev, curr : Ledger!statusCheck(prev, curr) <=> statusCheck(prev, curr)
  BY DEF Ledger!Status, Status, Ledger!NoStatus, NoStatus, Ledger!statusCheck, statusCheck

\* The record of an object is an entry of the ledger.
LEMMA RecordType ==
  ASSUME IInv, snap # None
  PROVE  /\ Record = [steps |-> snap.steps, job |-> snap.job]
         /\ Record \in Ledger!Entries
  <1>1. snap \in Snapshot
    BY DEF IInv, TypeOK
  <1>2. Record = [steps |-> snap.steps, job |-> snap.job]
    BY DEF Record
  <1> QED
    BY <1>1, <1>2, SameStatuses DEF Ledger!Entries, Snapshot

LEMMA LedgerInit == Init => Ledger!Init
  BY DEF Init, Ledger!Init, Record

\* Every step of the run is a step of the ledger, or none at all.
LEMMA LedgerStep == IInv /\ [Next]_vars => [Ledger!Next]_Record
  <1> SUFFICES ASSUME IInv, [Next]_vars PROVE [Ledger!Next]_Record
    OBVIOUS
  <1> USE ThreadKinds
  <1>1. CASE snap' = snap
    BY <1>1 DEF Record
  <1>2. CASE CreateSnapshot
    <2>1. Record = None /\ Record' = [steps |-> snap'.steps, job |-> snap'.job]
      BY <1>2, Created DEF CreateSnapshot, Record
    <2>2. snap' = [rv |-> 1, steps |-> [s \in Steps |-> "pending"], job |-> NoStatus]
      BY <1>2 DEF CreateSnapshot, NewSteps
    <2>3. Ledger!Create
      BY <2>1, <2>2, SameStatuses DEF Ledger!Create
    <2> QED
      BY <2>3 DEF Ledger!Next
  <1>3. ASSUME NEW t \in Threads, Writes(t), snap' # snap PROVE [Ledger!Next]_Record
    <2>1. /\ Record = [steps |-> snap.steps, job |-> snap.job]
          /\ Record' = [steps |-> snap'.steps, job |-> snap'.job]
          /\ Record \in Ledger!Entries
      BY <1>3, Writers, RecordType DEF Record
    <2>2. CASE PutJobStatus(t)
      <3>1. /\ statusCheck(snap.job, JobReport(pc[t]))
            /\ Record' = [Record EXCEPT !.job = JobReport(pc[t])]
            /\ JobReport(pc[t]) \in Status
        BY <1>3, <2>1, <2>2, JobWrite, ReportTypes
      <3>2. Ledger!AdvanceJob
        BY <2>1, <3>1, SameStatuses DEF Ledger!AdvanceJob
      <3> QED
        BY <3>2 DEF Ledger!Next
    <2>3. CASE t \in Steps /\ PutStepStatus(t)
      <3>1. pc[Executor] # "none"
        BY <2>3 DEF IInv, LaunchOrder, PutStepStatus, StepLabels
      <3>2. snap.job # NoStatus /\ snap'.job = snap.job
        BY <2>3, <3>1, StepWrite DEF IInv, StatusPublished
      <3>3. CASE snap'.steps = snap.steps
        BY <2>1, <3>2, <3>3
      <3>4. CASE /\ statusCheck(snap.steps[t], StepReport(pc[t]))
                 /\ snap'.steps = [snap.steps EXCEPT ![t] = StepReport(pc[t])]
        <4>1. Record' = [Record EXCEPT !.steps[t] = StepReport(pc[t])]
          BY <2>1, <3>2, <3>4
        <4>2. Ledger!AdvanceStep(t)
          BY <2>1, <3>2, <3>4, <4>1, ReportTypes, SameStatuses DEF Ledger!AdvanceStep
        <4> QED
          BY <2>3, <4>2 DEF Ledger!Next
      <3> QED
        BY <2>3, <3>3, <3>4, OwnEntry
    <2>4. CASE t = Reconciler /\ InitJobStatus
      <3>1. snap.job = NoStatus /\ Record' = [Record EXCEPT !.job = "pending"]
        BY <1>3, <2>1, <2>4, InitWrite
      <3>2. Ledger!Publish
        BY <2>1, <3>1, SameStatuses DEF Ledger!Publish
      <3> QED
        BY <3>2 DEF Ledger!Next
    <2> QED
      BY <1>3, <2>2, <2>3, <2>4 DEF Writes
  <1> QED
    BY <1>1, <1>2, <1>3
       DEF Next, Reconcile, Execute, RunStep, Update, CreateJobs, OpenWatch, Verdict,
           Writes, Choose, GetSnapshot, UpdateFails, CreateSnapshotFails,
           InitJobStatusFails, Reject, Launch, Requeue, StartStage, FinishJob, Crash, vars

\* The snapshot is a ledger, though everyone updates it from a copy of their own.
THEOREM SnapshotIsLedger == Spec => LedgerSpec
  BY Invariance, LedgerInit, LedgerStep, PTL DEF Spec, LedgerSpec, Ledger!Spec
=============================================================================
