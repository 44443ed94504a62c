--------------------------- MODULE ReconcilerProofs ---------------------------
(***************************************************************************)
(* Proofs about Reconciler, for every set of jobs, every number of workers *)
(* and every bound.  IInv of Reconciler is inductive; the invariants the   *)
(* runs check follow from it, and so does the refinement of                *)
(* SnapshotClaims.                                                         *)
(***************************************************************************)
EXTENDS Reconciler, TLAPS

LEMMA JobTypes ==
  ASSUME NEW j \in Jobs
  PROVE  /\ SnapshotOf(j) \in Snapshots
         /\ j.key \in Keys /\ j.key[2] \in Names
         /\ j.generation \in Generations
         /\ j # None
  BY NoneAssumption DEF Jobs, SnapshotOf, Snapshots, Names

LEMMA NewJobType ==
  ASSUME NEW k \in Keys, NEW change \in 0 .. MaxChanges
  PROVE  NewJob(k, change) \in Jobs /\ NewJob(k, change).generation = 1
  BY ReconcilerAssumption DEF NewJob, Jobs, Generations

LEMMA EditedType ==
  ASSUME NEW j \in Jobs, NEW generation \in Generations, NEW sound \in BOOLEAN
  PROVE  LET edited == [j EXCEPT !.generation = generation, !.sound = sound]
         IN  edited \in Jobs /\ edited.generation = generation
  BY DEF Jobs

\* A request that waits goes on waiting when another is added.
LEMMA AppendWaits ==
  ASSUME NEW q \in Seq(Keys), NEW x \in Keys
  PROVE  /\ Append(q, x) \in Seq(Keys)
         /\ \E i \in DOMAIN Append(q, x) : Append(q, x)[i] = x
         /\ \A i \in DOMAIN q : i \in DOMAIN Append(q, x) /\ Append(q, x)[i] = q[i]
  <1>1. Len(Append(q, x)) = Len(q) + 1 /\ Append(q, x)[Len(q) + 1] = x
    OBVIOUS
  <1>2. \A i \in 1 .. Len(q) : Append(q, x)[i] = q[i]
    OBVIOUS
  <1> QED
    BY <1>1, <1>2

\* When the head of the queue is taken, all others stay.
LEMMA TailWaits ==
  ASSUME NEW q \in Seq(Keys), q # <<>>
  PROVE  /\ Head(q) \in Keys /\ Tail(q) \in Seq(Keys)
         /\ \A i \in DOMAIN q : \/ q[i] = Head(q)
                                \/ \E m \in DOMAIN Tail(q) : Tail(q)[m] = q[i]
  <1>1. Head(q) = q[1] /\ Len(q) \in Nat /\ Len(q) > 0
    OBVIOUS
  <1>2. Len(Tail(q)) = Len(q) - 1 /\ \A m \in 1 .. Len(q) - 1 : Tail(q)[m] = q[m + 1]
    OBVIOUS
  <1>3. ASSUME NEW i \in DOMAIN q, i # 1
        PROVE  i - 1 \in DOMAIN Tail(q) /\ Tail(q)[i - 1] = q[i]
    BY <1>1, <1>2, <1>3
  <1>4. Head(q) \in Keys /\ Tail(q) \in Seq(Keys)
    OBVIOUS
  <1>5. ASSUME NEW i \in DOMAIN q
        PROVE  q[i] = Head(q) \/ \E m \in DOMAIN Tail(q) : Tail(q)[m] = q[i]
    BY <1>1, <1>3
  <1> QED
    BY <1>4, <1>5

-----------------------------------------------------------------------------
(* Types.                                                                  *)

LEMMA TypeInit == Init => TypeOK /\ GenerationsCounted
  <1> SUFFICES ASSUME Init PROVE TypeOK /\ GenerationsCounted
    OBVIOUS
  <1>1. 0 \in 0 .. MaxChanges /\ 0 \in 0 .. MaxFaults
    BY ReconcilerAssumption
  <1>2. \A k \in Keys : jobs[k] # None => jobs[k] \in Jobs /\ jobs[k].generation = 1
    BY <1>1, NewJobType DEF Init
  <1>3. TypeOK
    BY <1>1, <1>2, NewJobType DEF Init, TypeOK
  <1> QED
    BY <1>2, <1>3 DEF Init, GenerationsCounted

\* The types of what Add and Return do.
LEMMA AddType ==
  ASSUME TypeOK, NEW k \in Keys, Add(k)
  PROVE  queue' \in Seq(Keys) /\ dirty' \subseteq Keys
  BY AppendWaits DEF TypeOK, Add

LEMMA ReturnType ==
  ASSUME TypeOK, NEW w \in Workers, call[w] # "idle", Return(w)
  PROVE  /\ call' \in [Workers -> Calls \cup {"idle"}]
         /\ key' \in [Workers -> Keys \cup {None}]
         /\ job' \in [Workers -> Jobs \cup {None}]
         /\ queue' \in Seq(Keys) /\ dirty' \subseteq Keys
         /\ key[w] \in Keys
         /\ \A v \in Workers : /\ call'[v] # "idle" => key'[v] \in Keys
                               /\ call'[v] \notin {"idle", "get"} => job'[v] \in Jobs
  <1>1. key[w] \in Keys /\ queue \in Seq(Keys)
    BY DEF TypeOK
  <1>2. Append(queue, key[w]) \in Seq(Keys)
    BY <1>1, AppendWaits
  <1> QED
    BY <1>1, <1>2 DEF TypeOK, Return

LEMMA UpdatedType ==
  ASSUME TypeOK, NEW n, n \in Snapshots \cup {None}, NEW status \in Status
  PROVE  Updated(n, status) \in [Snapshots -> Recorded \cup {None}]
  BY ReconcilerAssumption DEF TypeOK, Updated, Recorded

\* The step of a user, of the informer or of the workqueue.
Outer(k) == User(k) \/ Notice(k) \/ Retry(k)

LEMMA OuterType ==
  ASSUME TypeOK, GenerationsCounted, NEW k \in Keys, Outer(k)
  PROVE  TypeOK' /\ GenerationsCounted'
  <1>1. ASSUME NEW object \in Jobs \cup {None}, Change(k, object),
               object # None => object.generation <= changes + 2
        PROVE  TypeOK' /\ GenerationsCounted'
    <2>1. /\ changes \in Nat /\ changes' = changes + 1 /\ changes' \in 0 .. MaxChanges
          /\ jobs' = [jobs EXCEPT ![k] = object]
          /\ UNCHANGED <<cache, queue, dirty, backoff, call, key, job,
                         snaps, runs, launches, blamed, faults>>
      BY <1>1, ReconcilerAssumption
         DEF Change, TypeOK, queueVars, workVars, runVars
    <2>2. TypeOK'
      BY <2>1 DEF TypeOK
    <2>3. ASSUME NEW l \in Keys, jobs'[l] # None
          PROVE  jobs'[l].generation <= changes' + 1
      <3>1. CASE l = k
        BY <1>1, <2>1, <2>3, <3>1 DEF TypeOK
      <3>2. CASE l # k
        <4>1. jobs'[l] = jobs[l] /\ jobs[l] \in Jobs
          BY <2>1, <2>3, <3>2 DEF TypeOK
        <4>2. jobs[l].generation \in Int
          BY <4>1, JobTypes, ReconcilerAssumption DEF Generations
        <4> QED
          BY <2>1, <2>3, <4>1, <4>2 DEF GenerationsCounted
      <3> QED
        BY <3>1, <3>2
    <2> QED
      BY <2>2, <2>3 DEF GenerationsCounted
  <1>2. CASE CreateJob(k)
    <2>1. changes + 1 \in 0 .. MaxChanges /\ changes \in Nat
      BY <1>2, ReconcilerAssumption DEF CreateJob, Change, TypeOK
    <2> QED
      BY <1>1, <1>2, <2>1, NewJobType DEF CreateJob
  <1>3. CASE EditJob(k)
    <2> DEFINE edited == [jobs[k] EXCEPT !.generation = @ + 1,
                                         !.sound = changes + 1 \notin Refused]
    <2>1. jobs[k] \in Jobs /\ changes < MaxChanges /\ changes \in Nat
      BY <1>3, ReconcilerAssumption DEF EditJob, Change, TypeOK
    <2>2. jobs[k].generation \in Generations /\ jobs[k].generation <= changes + 1
      BY <1>3, <2>1, JobTypes DEF EditJob, GenerationsCounted
    <2>3. edited \in Jobs /\ edited.generation = jobs[k].generation + 1
      <3>1. jobs[k].generation + 1 \in Generations
        BY <2>1, <2>2, ReconcilerAssumption DEF Generations
      <3>2. (changes + 1 \notin Refused) \in BOOLEAN
        OBVIOUS
      <3> QED
        BY <2>1, <3>1, <3>2, EditedType
    <2>4. edited.generation <= changes + 2
      BY <2>1, <2>2, <2>3, ReconcilerAssumption DEF Generations
    <2>5. Change(k, edited)
      BY <1>3 DEF EditJob
    <2> QED
      BY <1>1, <2>3, <2>4, <2>5
  <1>4. CASE DeleteJob(k)
    BY <1>1, <1>4 DEF DeleteJob
  <1>5. CASE Notice(k)
    <2>1. queue' \in Seq(Keys) /\ dirty' \subseteq Keys
      BY <1>5, AddType DEF Notice, TypeOK
    <2>2. cache' \in [Keys -> Jobs \cup {None}]
      BY <1>5 DEF Notice, TypeOK
    <2> QED
      BY <1>5, <2>1, <2>2
         DEF Notice, TypeOK, GenerationsCounted, workVars, runVars
  <1>6. CASE Retry(k)
    <2>1. queue' \in Seq(Keys) /\ dirty' \subseteq Keys
      BY <1>6, AddType DEF Retry
    <2> QED
      BY <1>6, <2>1
         DEF Retry, TypeOK, GenerationsCounted, workVars, runVars
  <1> QED
    BY <1>2, <1>3, <1>4, <1>5, <1>6 DEF Outer, User

\* What the return of a worker does to the variables of queue and worker.
LEMMA FailType ==
  ASSUME TypeOK, NEW w \in Workers, call[w] # "idle", Fail(w) \/ Succeed(w)
  PROVE  /\ call' \in [Workers -> Calls \cup {"idle"}]
         /\ key' \in [Workers -> Keys \cup {None}]
         /\ job' \in [Workers -> Jobs \cup {None}]
         /\ queue' \in Seq(Keys) /\ dirty' \subseteq Keys /\ backoff' \subseteq Keys
         /\ \A v \in Workers : /\ call'[v] # "idle" => key'[v] \in Keys
                               /\ call'[v] \notin {"idle", "get"} => job'[v] \in Jobs
  BY ReturnType DEF Fail, Succeed, TypeOK

\* The steps of a worker that return, and those that go on to another call.
LEMMA WorkerType ==
  ASSUME TypeOK, ClaimsInHand, NEW w \in Workers, Take(w) \/ Reconcile(w)
  PROVE  TypeOK'
  <1>1. CASE Take(w)
    <2>1. Head(queue) \in Keys /\ Tail(queue) \in Seq(Keys)
      BY <1>1, TailWaits DEF Take, TypeOK
    <2> QED
      BY <1>1, <2>1 DEF Take, TypeOK, Calls, runVars
  <1>2. CASE GetJob(w)
    <2>1. CASE cache[key[w]] = None
      <3>1. Fail(w) /\ call[w] # "idle"
        BY <1>2, <2>1 DEF GetJob
      <3> QED
        BY <1>2, <2>1, <3>1, FailType DEF GetJob, TypeOK, runVars
    <2>2. CASE cache[key[w]] # None
      BY <1>2, <2>2 DEF GetJob, TypeOK, Goto, Calls, runVars, queueVars
    <2> QED
      BY <2>1, <2>2
  <1>3. CASE CreateSnapshot(w)
    <2>1. job[w] \in Jobs /\ SnapshotOf(job[w]) \in Snapshots
      BY <1>3, JobTypes DEF CreateSnapshot, TypeOK
    <2>2. snaps' \in [Snapshots -> Recorded \cup {None}]
      BY <1>3, <2>1 DEF CreateSnapshot, TypeOK, Recorded
    <2>3. CASE Goto(w, "initStatus") /\ UNCHANGED <<job, queueVars, faults>>
      BY <1>3, <2>1, <2>2, <2>3 DEF CreateSnapshot, TypeOK, Goto, Calls, queueVars
    <2>4. CASE Fault /\ Fail(w)
      <3>1. faults' \in 0 .. MaxFaults
        BY <2>4, ReconcilerAssumption DEF Fault, TypeOK
      <3>2. call[w] # "idle"
        BY <1>3 DEF CreateSnapshot
      <3> QED
        BY <1>3, <2>2, <2>4, <3>1, <3>2, FailType DEF CreateSnapshot, TypeOK
    <2> QED
      BY <1>3, <2>3, <2>4 DEF CreateSnapshot
  <1>4. CASE CreateSnapshotFails(w)
    <2>1. faults' \in 0 .. MaxFaults
      BY <1>4, ReconcilerAssumption DEF CreateSnapshotFails, Fault, TypeOK
    <2>2. Fail(w) /\ call[w] # "idle"
      BY <1>4 DEF CreateSnapshotFails
    <2> QED
      BY <1>4, <2>1, <2>2, FailType DEF CreateSnapshotFails, TypeOK, runVars
  <1>5. CASE InitJobStatus(w)
    <2> DEFINE n == SnapshotOf(job[w])
    <2>1. job[w] \in Jobs /\ n \in Snapshots
      BY <1>5, JobTypes DEF InitJobStatus, TypeOK
    <2>2. snaps[n] # None
      BY <1>5, <2>1 DEF InitJobStatus, ClaimsInHand, Claims
    <2>3. [snaps[n] EXCEPT !.status = "pending"] \in Recorded
      BY <2>1, <2>2 DEF TypeOK, Recorded, Status
    <2>4. snaps' = [snaps EXCEPT ![n] = [snaps[n] EXCEPT !.status = "pending"]]
      BY <1>5 DEF InitJobStatus
    <2>5. snaps' \in [Snapshots -> Recorded \cup {None}]
      BY <2>3, <2>4 DEF TypeOK
    <2>6. CASE Goto(w, "preCheck") /\ UNCHANGED <<job, queueVars, faults>>
      BY <1>5, <2>1, <2>5, <2>6 DEF InitJobStatus, TypeOK, Goto, Calls, queueVars
    <2>7. CASE Fault /\ Fail(w)
      <3>1. faults' \in 0 .. MaxFaults /\ call[w] # "idle"
        BY <1>5, <2>7, ReconcilerAssumption DEF Fault, TypeOK, InitJobStatus
      <3> QED
        BY <1>5, <2>5, <2>7, <3>1, FailType DEF InitJobStatus, TypeOK
    <2> QED
      BY <1>5, <2>6, <2>7 DEF InitJobStatus
  <1>6. CASE InitJobStatusFails(w)
    <2>1. faults' \in 0 .. MaxFaults
      BY <1>6, ReconcilerAssumption DEF InitJobStatusFails, Fault, TypeOK
    <2>2. Fail(w) /\ call[w] # "idle"
      BY <1>6 DEF InitJobStatusFails
    <2> QED
      BY <1>6, <2>1, <2>2, FailType DEF InitJobStatusFails, TypeOK, runVars
  <1>7. CASE Refuse(w)
    <2>1. job[w] \in Jobs /\ SnapshotOf(job[w]) \in Snapshots
      BY <1>7, JobTypes DEF Refuse, TypeOK
    <2>2. snaps' \in [Snapshots -> Recorded \cup {None}]
      BY <1>7, <2>1, UpdatedType DEF Refuse, Report, Status, TypeOK
    <2>3. Fail(w) /\ call[w] # "idle"
      BY <1>7 DEF Refuse
    <2> QED
      BY <1>7, <2>1, <2>2, <2>3, FailType DEF Refuse, TypeOK
  <1>8. CASE Launch(w)
    <2>1. job[w] \in Jobs /\ SnapshotOf(job[w]) \in Snapshots
      BY <1>8, JobTypes DEF Launch, TypeOK
    <2>2. Succeed(w) /\ call[w] # "idle"
      BY <1>8 DEF Launch
    <2>3. launches' \in [Snapshots -> Nat]
      BY <1>8, <2>1 DEF Launch, TypeOK
    <2> QED
      BY <1>8, <2>1, <2>2, <2>3, FailType DEF Launch, TypeOK
  <1> QED
    BY <1>1, <1>2, <1>3, <1>4, <1>5, <1>6, <1>7, <1>8 DEF Reconcile

LEMMA ExecuteType ==
  ASSUME TypeOK, NEW j \in runs, Execute(j)
  PROVE  TypeOK'
  <1>1. j \in Jobs /\ SnapshotOf(j) \in Snapshots
    BY JobTypes DEF TypeOK
  <1>2. BareName[j.key[2]] \in Snapshots \cup {None}
    BY <1>1, JobTypes, ReconcilerAssumption
  <1>3. snaps' \in [Snapshots -> Recorded \cup {None}]
    <2>1. \A n \in Snapshots \cup {None} :
            \A status \in {"running", "failed", "success"} :
              Updated(n, status) \in [Snapshots -> Recorded \cup {None}]
      BY UpdatedType DEF Status
    <2> QED
      BY <1>1, <1>2, <2>1
         DEF Execute, JobRuns, StepFails, JobEnds, FailureNames, Report, TypeOK
  <1>4. /\ runs' \subseteq Jobs /\ blamed' \subseteq Jobs
        /\ UNCHANGED <<jobs, cache, queue, dirty, backoff, call, key, job,
                       launches, changes, faults>>
    BY <1>1 DEF Execute, JobRuns, StepFails, JobEnds, TypeOK, queueVars, workVars
  <1> QED
    BY <1>3, <1>4 DEF TypeOK

LEMMA CrashType == TypeOK /\ Crash => TypeOK'
  <1> SUFFICES ASSUME TypeOK, Crash PROVE TypeOK'
    OBVIOUS
  <1>1. faults' \in 0 .. MaxFaults
    BY ReconcilerAssumption DEF Crash, Fault, TypeOK
  <1> QED
    BY <1>1 DEF Crash, TypeOK

-----------------------------------------------------------------------------
(* Jobs and snapshots.                                                     *)

\* Of the actions only those of users and of the informer touch the jobs.
LEMMA KeysStep ==
  ASSUME TypeOK, KeysKept, Next
  PROVE  KeysKept'
  <1>1. ASSUME NEW k \in Keys, NEW object, Change(k, object),
               object # None => object.key = k
        PROVE  KeysKept'
    BY <1>1 DEF Change, KeysKept, TypeOK
  <1>2. ASSUME NEW k \in Keys, User(k)
        PROVE  KeysKept'
    <2>1. CASE CreateJob(k)
      BY <1>1, <2>1 DEF CreateJob, NewJob
    <2>2. CASE EditJob(k)
      <3> DEFINE edited == [jobs[k] EXCEPT !.generation = @ + 1,
                                           !.sound = changes + 1 \notin Refused]
      <3>1. jobs[k] \in Jobs /\ jobs[k].key = k
        BY <2>2 DEF EditJob, TypeOK, KeysKept
      <3>2. edited.key = k
        BY <3>1 DEF Jobs
      <3>3. Change(k, edited)
        BY <2>2 DEF EditJob
      <3> QED
        BY <1>1, <3>2, <3>3
    <2>3. CASE DeleteJob(k)
      BY <1>1, <2>3 DEF DeleteJob
    <2> QED
      BY <1>2, <2>1, <2>2, <2>3 DEF User
  <1>3. ASSUME NEW k \in Keys, Notice(k)
        PROVE  KeysKept'
    BY <1>3 DEF Notice, KeysKept, TypeOK
  <1>4. ASSUME NEW k \in Keys, Retry(k)
        PROVE  KeysKept'
    BY <1>4 DEF Retry, KeysKept
  <1>5. ASSUME NEW w \in Workers, Take(w) \/ Reconcile(w)
        PROVE  KeysKept'
    <2>1. UNCHANGED <<jobs, cache>>
      BY <1>5 DEF Take, Reconcile, GetJob, CreateSnapshot, CreateSnapshotFails,
                  InitJobStatus, InitJobStatusFails, Refuse, Launch
    <2> QED
      BY <2>1 DEF KeysKept
  <1>6. ASSUME NEW j \in runs, Execute(j)
        PROVE  KeysKept'
    <2>1. UNCHANGED <<jobs, cache>>
      BY <1>6 DEF Execute, JobRuns, StepFails, JobEnds
    <2> QED
      BY <2>1 DEF KeysKept
  <1>7. CASE Crash
    BY <1>7 DEF Crash, KeysKept
  <1> QED
    BY <1>2, <1>3, <1>4, <1>5, <1>6, <1>7 DEF Next

\* Users, the informer and the workqueue leave snapshots, workers and runs alone.
LEMMA OuterFrame ==
  ASSUME NEW k \in Keys, Outer(k)
  PROVE  UNCHANGED <<call, key, job, snaps, runs, launches, blamed, faults>>
  BY DEF Outer, User, CreateJob, EditJob, DeleteJob, Change, Notice, Retry,
         workVars, runVars

\* Steps of a worker, and of an executor, leave the jobs alone.
LEMMA InnerFrame ==
  ASSUME \/ \E w \in Workers : Take(w) \/ Reconcile(w)
         \/ \E j \in runs : Execute(j)
         \/ Crash
  PROVE  UNCHANGED <<jobs, changes>>
  BY DEF Take, Reconcile, GetJob, CreateSnapshot, CreateSnapshotFails,
         InitJobStatus, InitJobStatusFails, Refuse, Launch,
         Execute, JobRuns, StepFails, JobEnds, Crash

\* A snapshot stays, and stays that of the job it was created for.
OwnersKept ==
  \A n \in Snapshots :
    snaps[n] # None => snaps'[n] # None /\ snaps'[n].by = snaps[n].by

\* A report changes the status of one snapshot, if any.
LEMMA ReportFrame ==
  ASSUME TypeOK, NEW n, n \in Snapshots \cup {None}, NEW status \in Status,
         Report(n, status)
  PROVE  /\ OwnersKept
         /\ \A m \in Snapshots : snaps'[m] # None => snaps[m] # None
         /\ \A m \in Snapshots : m # n => snaps'[m] = snaps[m]
         /\ \A m \in Snapshots :
              snaps'[m] # None => snaps'[m].status \in {status, snaps[m].status}
  <1>1. CASE snaps' = snaps
    BY <1>1 DEF OwnersKept
  <1>2. CASE /\ n \in Snapshots /\ snaps[n] # None
             /\ snaps' = [snaps EXCEPT ![n].status = status]
    <2>1. snaps[n] \in Recorded
      BY <1>2 DEF TypeOK
    <2>2. /\ [snaps[n] EXCEPT !.status = status].by = snaps[n].by
          /\ [snaps[n] EXCEPT !.status = status].status = status
          /\ [snaps[n] EXCEPT !.status = status] \in Recorded
      BY <2>1 DEF Recorded
    <2>3. snaps'[n] = [snaps[n] EXCEPT !.status = status]
      BY <1>2 DEF TypeOK
    <2>4. \A m \in Snapshots : m # n => snaps'[m] = snaps[m]
      BY <1>2 DEF TypeOK
    <2>5. snaps'[n] # None
      BY <2>2, <2>3, NoneAssumption
    <2> QED
      BY <1>2, <2>2, <2>3, <2>4, <2>5 DEF OwnersKept
  <1> QED
    BY <1>1, <1>2, ReconcilerAssumption DEF Report, Updated

-----------------------------------------------------------------------------
(* Claims.  A worker comes to a claim only by creating the snapshot.       *)

\* A step that gives nobody a claim, and starts no executor under one.
ClaimsShrink ==
  \A w \in Workers, n \in Snapshots :
    Claims(w, n)' => Claims(w, n) /\ job'[w] = job[w] /\ launches'[n] = launches[n]

LEMMA ClaimsKept ==
  ASSUME ClaimsInHand, OwnersKept, ClaimsShrink
  PROVE  ClaimsInHand'
  <1> SUFFICES ASSUME NEW w \in Workers, NEW n \in Snapshots, Claims(w, n)'
               PROVE  /\ snaps'[n] # None /\ snaps'[n].by = job'[w]
                      /\ launches'[n] = 0
                      /\ \A v \in Workers : Claims(v, n)' => v = w
    BY DEF ClaimsInHand
  <1>1. Claims(w, n) /\ job'[w] = job[w] /\ launches'[n] = launches[n]
    BY DEF ClaimsShrink
  <1>2. /\ snaps[n] # None /\ snaps[n].by = job[w]
        /\ launches[n] = 0
        /\ \A v \in Workers : Claims(v, n) => v = w
    BY <1>1 DEF ClaimsInHand
  <1>3. \A v \in Workers : Claims(v, n)' => Claims(v, n)
    BY DEF ClaimsShrink
  <1> QED
    BY <1>1, <1>2, <1>3 DEF OwnersKept

\* What a worker that returns leaves of its claims, and of those of the others.
LEMMA ReturnFrame ==
  ASSUME TypeOK, NEW w \in Workers, Return(w)
  PROVE  /\ call'[w] = "idle"
         /\ \A v \in Workers :
              v # w => call'[v] = call[v] /\ key'[v] = key[v] /\ job'[v] = job[v]
         /\ \A v \in Workers, n \in Snapshots :
              Claims(v, n)' => v # w /\ Claims(v, n) /\ job'[v] = job[v]
  <1>1. call'[w] = "idle"
    BY DEF Return, TypeOK
  <1>2. \A v \in Workers :
          v # w => call'[v] = call[v] /\ key'[v] = key[v] /\ job'[v] = job[v]
    BY DEF Return, TypeOK
  <1> QED
    BY <1>1, <1>2 DEF Claims

\* The same of a worker that goes on to its next call.
LEMMA GotoFrame ==
  ASSUME TypeOK, NEW w \in Workers, NEW next, Goto(w, next)
  PROVE  /\ call'[w] = next
         /\ key' = key
         /\ \A v \in Workers : v # w => call'[v] = call[v]
  BY DEF Goto, TypeOK

\* The effects of one step on the history of a snapshot, for all actions.
Preserved ==
  /\ OwnersKept
  /\ ClaimsInHand'
  /\ LaunchesCounted'
  /\ ExecutorsOwnSnapshots'
  /\ FailureIsOwn'

\* A step that creates no snapshot, gives nobody a claim and starts no executor.
NoneCreated == \A n \in Snapshots : snaps'[n] # None => snaps[n] # None
GivesNothing == NoneCreated /\ ClaimsShrink /\ launches' = launches

\* The four invariants about snapshots.
Recording == ClaimsInHand /\ LaunchesCounted /\ ExecutorsOwnSnapshots /\ FailureIsOwn

\* A step that touches no snapshot, starts no executor and gives no claim.
LEMMA QuietStep ==
  ASSUME TypeOK, Recording, UNCHANGED <<snaps, launches>>,
         runs' \subseteq runs, blamed \subseteq blamed', ClaimsShrink
  PROVE  Preserved /\ GivesNothing
  <1>1. OwnersKept
    BY DEF OwnersKept
  <1>2. ClaimsInHand'
    BY <1>1, ClaimsKept DEF Recording
  <1>3. GivesNothing
    BY DEF GivesNothing, NoneCreated
  <1> QED
    BY <1>1, <1>2, <1>3
       DEF Recording, Preserved, LaunchesCounted, ExecutorsOwnSnapshots, FailureIsOwn

LEMMA OuterRecords ==
  ASSUME TypeOK, Recording, NEW k \in Keys, Outer(k)
  PROVE  Preserved /\ GivesNothing
  <1>1. UNCHANGED <<call, key, job, snaps, runs, launches, blamed>>
    BY OuterFrame
  <1>2. ClaimsShrink
    BY <1>1 DEF ClaimsShrink, Claims
  <1> QED
    BY <1>1, <1>2, QuietStep

LEMMA CrashRecords ==
  ASSUME TypeOK, Recording, Crash
  PROVE  Preserved /\ GivesNothing
  <1>1. ClaimsShrink
    BY DEF Crash, ClaimsShrink, Claims
  <1> QED
    BY <1>1, QuietStep DEF Crash

\* Taking a request, getting its job, and calls that fail without effect.
LEMMA QuietWorkerRecords ==
  ASSUME TypeOK, Recording, NEW w \in Workers,
         \/ Take(w) \/ GetJob(w)
         \/ CreateSnapshotFails(w) \/ InitJobStatusFails(w)
  PROVE  Preserved /\ GivesNothing
  <1>1. UNCHANGED <<snaps, runs, launches, blamed>>
    BY DEF Take, GetJob, CreateSnapshotFails, InitJobStatusFails, runVars
  <1>2. ClaimsShrink
    <2>1. CASE Take(w)
      BY <1>1, <2>1 DEF Take, ClaimsShrink, Claims, TypeOK
    <2>2. CASE GetJob(w) /\ cache[key[w]] # None
      <3>1. Goto(w, "create") /\ job' = [job EXCEPT ![w] = cache[key[w]]]
        BY <2>2 DEF GetJob
      <3> QED
        BY <1>1, <3>1, GotoFrame DEF ClaimsShrink, Claims, TypeOK
    <2>3. CASE Return(w)
      BY <1>1, <2>3, ReturnFrame DEF ClaimsShrink
    <2> QED
      BY <2>1, <2>2, <2>3 DEF GetJob, CreateSnapshotFails, InitJobStatusFails, Fail
  <1> QED
    BY <1>1, <1>2, QuietStep

\* Nobody can claim a snapshot that is not there, so the worker that creates it
\* is the only one.
LEMMA CreateSnapshotRecords ==
  ASSUME TypeOK, Recording, NEW w \in Workers, CreateSnapshot(w)
  PROVE  Preserved
  <1> DEFINE n == SnapshotOf(job[w])
             created == [by |-> job[w], status |-> NoStatus]
  <1>1. job[w] \in Jobs /\ n \in Snapshots
    BY JobTypes DEF CreateSnapshot, TypeOK
  <1>2. created # None /\ created.by = job[w] /\ created.status = NoStatus
    <2>1. created \in Recorded
      BY <1>1 DEF Recorded
    <2> QED
      BY <2>1, NoneAssumption
  <1>3. /\ snaps[n] = None
        /\ snaps'[n] = created
        /\ \A m \in Snapshots : m # n => snaps'[m] = snaps[m]
        /\ UNCHANGED <<runs, launches, blamed>>
    BY <1>1 DEF CreateSnapshot, TypeOK
  <1>4. OwnersKept
    BY <1>3 DEF OwnersKept
  <1>5. \A v \in Workers : ~Claims(v, n)
    BY <1>1, <1>3 DEF Recording, ClaimsInHand
  <1>6. launches[n] = 0
    BY <1>1, <1>3 DEF Recording, LaunchesCounted, TypeOK
  <1>7. ClaimsInHand'
    <2>1. CASE Goto(w, "initStatus") /\ job' = job
      <3>1. \A v \in Workers : v # w => call'[v] = call[v]
        BY <2>1, GotoFrame
      <3> SUFFICES ASSUME NEW v \in Workers, NEW m \in Snapshots, Claims(v, m)'
                   PROVE  /\ snaps'[m] # None /\ snaps'[m].by = job'[v]
                          /\ launches'[m] = 0
                          /\ \A u \in Workers : Claims(u, m)' => u = v
        BY DEF ClaimsInHand
      <3>2. CASE v = w
        <4>1. m = n
          BY <2>1, <3>2 DEF Claims
        <4>2. \A u \in Workers : Claims(u, m)' => u = w
          BY <1>5, <2>1, <3>1, <4>1 DEF Claims
        <4> QED
          BY <1>2, <1>3, <1>6, <2>1, <3>2, <4>1, <4>2
      <3>3. CASE v # w
        <4>1. Claims(v, m)
          BY <2>1, <3>1, <3>3 DEF Claims
        <4>2. m # n
          BY <1>5, <4>1
        <4>3. \A u \in Workers : Claims(u, m)' => Claims(u, m)
          BY <2>1, <3>1, <4>2 DEF Claims
        <4> QED
          BY <1>3, <2>1, <4>1, <4>2, <4>3 DEF Recording, ClaimsInHand
      <3> QED
        BY <3>2, <3>3
    <2>2. CASE Return(w)
      <3>1. ClaimsShrink
        BY <1>3, <2>2, ReturnFrame DEF ClaimsShrink
      <3> QED
        BY <1>4, <3>1, ClaimsKept DEF Recording
    <2> QED
      BY <2>1, <2>2 DEF CreateSnapshot, Fail
  <1>8. LaunchesCounted'
    BY <1>3, <1>4 DEF Recording, LaunchesCounted, OwnersKept
  <1>9. ExecutorsOwnSnapshots'
    <2>1. \A j \in runs : SnapshotOf(j) \in Snapshots
      BY JobTypes DEF TypeOK
    <2> QED
      BY <1>3, <1>4, <2>1 DEF Recording, ExecutorsOwnSnapshots, OwnersKept
  <1>10. FailureIsOwn'
    <2>1. snaps'[n].status # "failed"
      BY <1>2, <1>3 DEF NoStatus
    <2> QED
      BY <1>3, <2>1 DEF Recording, FailureIsOwn
  <1> QED
    BY <1>4, <1>7, <1>8, <1>9, <1>10 DEF Preserved

LEMMA InitJobStatusRecords ==
  ASSUME TypeOK, Recording, NEW w \in Workers, InitJobStatus(w)
  PROVE  Preserved /\ GivesNothing
  <1> DEFINE n == SnapshotOf(job[w])
             started == [snaps[n] EXCEPT !.status = "pending"]
  <1>1. job[w] \in Jobs /\ n \in Snapshots
    BY JobTypes DEF InitJobStatus, TypeOK
  <1>2. snaps[n] # None
    BY <1>1 DEF InitJobStatus, Recording, ClaimsInHand, Claims
  <1>3. started \in Recorded /\ started.by = snaps[n].by /\ started.status = "pending"
    BY <1>1, <1>2 DEF TypeOK, Recorded, Status
  <1>4. /\ snaps'[n] = started
        /\ \A m \in Snapshots : m # n => snaps'[m] = snaps[m]
        /\ UNCHANGED <<runs, launches, blamed>>
    BY <1>1 DEF InitJobStatus, TypeOK
  <1>5. OwnersKept
    BY <1>3, <1>4, NoneAssumption DEF OwnersKept
  <1>6. ClaimsShrink
    <2>1. CASE Goto(w, "preCheck") /\ job' = job
      <3>1. call[w] = "initStatus"
        BY DEF InitJobStatus
      <3> QED
        BY <1>4, <2>1, <3>1, GotoFrame DEF ClaimsShrink, Claims
    <2>2. CASE Return(w)
      BY <1>4, <2>2, ReturnFrame DEF ClaimsShrink
    <2> QED
      BY <2>1, <2>2 DEF InitJobStatus, Fail
  <1>7. ClaimsInHand'
    BY <1>5, <1>6, ClaimsKept DEF Recording
  <1>8. LaunchesCounted'
    BY <1>4, <1>5 DEF Recording, LaunchesCounted, OwnersKept
  <1>9. ExecutorsOwnSnapshots'
    <2>1. \A j \in runs : SnapshotOf(j) \in Snapshots
      BY JobTypes DEF TypeOK
    <2> QED
      BY <1>4, <1>5, <2>1 DEF Recording, ExecutorsOwnSnapshots, OwnersKept
  <1>10. FailureIsOwn'
    <2>1. snaps'[n].status # "failed"
      BY <1>3, <1>4
    <2>2. blamed' = blamed /\ \A m \in Snapshots : m # n => snaps'[m] = snaps[m]
      BY <1>4
    <2> HIDE DEF n, started
    <2> QED
      BY <2>1, <2>2 DEF Recording, FailureIsOwn
  <1>11. GivesNothing
    <2> HIDE DEF n, started
    <2> QED
      BY <1>2, <1>4, <1>6 DEF GivesNothing, NoneCreated
  <1> QED
    BY <1>5, <1>7, <1>8, <1>9, <1>10, <1>11 DEF Preserved

\* PreCheck refuses the job of the worker, which has claimed its snapshot.
LEMMA RefuseRecords ==
  ASSUME TypeOK, Recording, NEW w \in Workers, Refuse(w)
  PROVE  Preserved /\ GivesNothing
  <1> DEFINE n == SnapshotOf(job[w])
  <1>1. job[w] \in Jobs /\ n \in Snapshots
    BY JobTypes DEF Refuse, TypeOK
  <1>2. snaps[n] # None /\ snaps[n].by = job[w]
    BY <1>1 DEF Refuse, Recording, ClaimsInHand, Claims
  <1>3. /\ OwnersKept
        /\ \A m \in Snapshots : m # n => snaps'[m] = snaps[m]
    BY <1>1, ReportFrame DEF Refuse, Status
  <1>4. blamed' = blamed \cup {job[w]} /\ UNCHANGED <<runs, launches>> /\ Return(w)
    BY DEF Refuse, Fail
  <1>5. ClaimsShrink
    BY <1>4, ReturnFrame DEF ClaimsShrink
  <1>6. ClaimsInHand'
    BY <1>3, <1>5, ClaimsKept DEF Recording
  <1>7. LaunchesCounted'
    BY <1>3, <1>4 DEF Recording, LaunchesCounted, OwnersKept
  <1>8. ExecutorsOwnSnapshots'
    <2>1. \A j \in runs : SnapshotOf(j) \in Snapshots
      BY JobTypes DEF TypeOK
    <2> QED
      BY <1>3, <1>4, <2>1 DEF Recording, ExecutorsOwnSnapshots, OwnersKept
  <1>9. FailureIsOwn'
    <2>1. snaps'[n].by = job[w] /\ job[w] \in blamed'
      BY <1>1, <1>2, <1>3, <1>4 DEF OwnersKept
    <2>2. \A m \in Snapshots :
            m # n /\ snaps'[m] # None /\ snaps'[m].status = "failed"
              => \E j \in blamed' : snaps'[m].by = j \/ BareName[j.key[2]] = m
      BY <1>3, <1>4 DEF Recording, FailureIsOwn
    <2> QED
      BY <2>1, <2>2 DEF FailureIsOwn
  <1>10. GivesNothing
    BY <1>2, <1>3, <1>4, <1>5 DEF GivesNothing, NoneCreated
  <1> QED
    BY <1>3, <1>6, <1>7, <1>8, <1>9, <1>10 DEF Preserved

\* The job is launched by the one worker that has claimed its snapshot.
LEMMA LaunchRecords ==
  ASSUME TypeOK, Recording, NEW w \in Workers, Launch(w)
  PROVE  Preserved
  <1> DEFINE n == SnapshotOf(job[w])
  <1>1. job[w] \in Jobs /\ n \in Snapshots
    BY JobTypes DEF Launch, TypeOK
  <1>2. /\ snaps[n] # None /\ snaps[n].by = job[w]
        /\ launches[n] = 0
        /\ \A v \in Workers : Claims(v, n) => v = w
    BY <1>1 DEF Launch, Recording, ClaimsInHand, Claims
  <1>3. /\ UNCHANGED <<snaps, blamed>>
        /\ runs' = runs \cup {job[w]}
        /\ Return(w)
    BY DEF Launch, Succeed
  <1>4. launches'[n] = 1 /\ \A m \in Snapshots : m # n => launches'[m] = launches[m]
    BY <1>1, <1>2 DEF Launch, TypeOK
  <1>5. OwnersKept
    BY <1>3 DEF OwnersKept
  <1>6. ClaimsShrink
    BY <1>2, <1>3, <1>4, ReturnFrame DEF ClaimsShrink
  <1>7. ClaimsInHand'
    BY <1>5, <1>6, ClaimsKept DEF Recording
  <1>8. LaunchesCounted'
    BY <1>2, <1>3, <1>4 DEF Recording, LaunchesCounted
  <1>9. ExecutorsOwnSnapshots'
    BY <1>2, <1>3 DEF Recording, ExecutorsOwnSnapshots
  <1>10. FailureIsOwn'
    BY <1>3 DEF Recording, FailureIsOwn
  <1> QED
    BY <1>5, <1>7, <1>8, <1>9, <1>10 DEF Preserved

LEMMA ExecuteRecords ==
  ASSUME TypeOK, Recording, NEW j \in runs, Execute(j)
  PROVE  Preserved /\ GivesNothing
  <1> DEFINE n == SnapshotOf(j)
             bare == BareName[j.key[2]]
  <1>1. j \in Jobs /\ n \in Snapshots
    BY JobTypes DEF TypeOK
  <1>2. bare \in Snapshots \cup {None}
    BY <1>1, JobTypes, ReconcilerAssumption
  <1>3. snaps[n] # None /\ snaps[n].by = j
    BY DEF Recording, ExecutorsOwnSnapshots
  <1>4. /\ runs' \subseteq runs /\ blamed \subseteq blamed'
        /\ UNCHANGED <<call, job, launches>>
    BY DEF Execute, JobRuns, StepFails, JobEnds, workVars
  <1>5. /\ OwnersKept
        /\ NoneCreated
        /\ \A m \in Snapshots :
             snaps'[m] # None /\ snaps'[m].status = "failed"
               => /\ snaps[m] # None
                  /\ \/ snaps[m].status = "failed"
                     \/ m \in {n, bare} /\ j \in blamed'
    <2>1. CASE JobRuns(j)
      BY <1>1, <2>1, ReportFrame DEF JobRuns, Status, NoneCreated
    <2>2. CASE JobEnds(j)
      BY <1>1, <2>2, ReportFrame DEF JobEnds, Status, NoneCreated
    <2>3. CASE StepFails(j)
      <3>1. PICK m \in {n, bare} : Report(m, "failed")
        BY <2>3 DEF StepFails, FailureNames
      <3> QED
        BY <1>1, <1>2, <2>3, <3>1, ReportFrame DEF StepFails, Status, NoneCreated
    <2> QED
      BY <2>1, <2>2, <2>3 DEF Execute
  <1>6. ClaimsShrink
    BY <1>4 DEF ClaimsShrink, Claims
  <1>7. ClaimsInHand'
    BY <1>5, <1>6, ClaimsKept DEF Recording
  <1>8. LaunchesCounted'
    BY <1>4, <1>5 DEF Recording, LaunchesCounted, OwnersKept
  <1>9. ExecutorsOwnSnapshots'
    <2>1. \A r \in runs : SnapshotOf(r) \in Snapshots
      BY JobTypes DEF TypeOK
    <2> QED
      BY <1>4, <1>5, <2>1 DEF Recording, ExecutorsOwnSnapshots, OwnersKept
  <1>10. FailureIsOwn'
    <2> SUFFICES ASSUME NEW m \in Snapshots,
                        snaps'[m] # None, snaps'[m].status = "failed"
                 PROVE  \E i \in blamed' : snaps'[m].by = i \/ BareName[i.key[2]] = m
      BY DEF FailureIsOwn
    <2>1. CASE snaps[m] # None /\ snaps[m].status = "failed"
      BY <1>4, <1>5, <2>1 DEF OwnersKept, Recording, FailureIsOwn
    <2>2. CASE m \in {n, bare} /\ j \in blamed'
      BY <1>1, <1>3, <1>5, <2>2 DEF OwnersKept
    <2> QED
      BY <1>5, <2>1, <2>2
  <1>11. GivesNothing
    BY <1>4, <1>5, <1>6 DEF GivesNothing, NoneCreated
  <1> QED
    BY <1>5, <1>7, <1>8, <1>9, <1>10, <1>11 DEF Preserved

-----------------------------------------------------------------------------
(* Requests.                                                               *)

\* What is in the queue stays there when a request is added or a worker returns.
LEMMA AddRemembers ==
  ASSUME TypeOK, NEW k \in Keys, Add(k), UNCHANGED <<call, key>>
  PROVE  /\ Remembered(k)'
         /\ \A l \in Keys : Waiting(l) => Waiting(l)'
         /\ dirty \subseteq dirty'
  <1>1. \A l \in Keys : Waiting(l) => Waiting(l)'
    <2>1. CASE queue' = queue
      BY <2>1 DEF Waiting
    <2>2. CASE queue' = Append(queue, k)
      BY <2>2, AppendWaits DEF Waiting, TypeOK
    <2> QED
      BY <2>1, <2>2 DEF Add
  <1>2. Remembered(k)'
    <2>1. CASE Waiting(k)
      BY <1>1, <2>1 DEF Remembered
    <2>2. CASE InHand(k)
      <3>1. k \in dirty'
        BY <2>2 DEF Add
      <3>2. PICK w \in Workers : call[w] # "idle" /\ key[w] = k
        BY <2>2 DEF InHand
      <3> QED
        BY <3>1, <3>2 DEF Remembered
    <2>3. CASE ~Waiting(k) /\ ~InHand(k)
      <3>1. queue' = Append(queue, k)
        BY <2>3 DEF Add
      <3> QED
        BY <3>1, AppendWaits DEF Remembered, Waiting, TypeOK
    <2> QED
      BY <2>1, <2>2, <2>3
  <1> QED
    BY <1>1, <1>2 DEF Add

LEMMA ReturnRemembers ==
  ASSUME TypeOK, NEW w \in Workers, call[w] # "idle", Return(w),
         cache' = cache, backoff \subseteq backoff',
         NEW k \in Keys, Remembered(k),
         k # key[w] \/ k \in dirty \/ k \in backoff'
  PROVE  Remembered(k)'
  <1>1. key[w] \in Keys
    BY DEF TypeOK
  <1>2. Waiting(k) => Waiting(k)'
    <2>1. CASE queue' = queue
      BY <2>1 DEF Waiting
    <2>2. CASE queue' = Append(queue, key[w])
      BY <1>1, <2>2, AppendWaits DEF Waiting, TypeOK
    <2> QED
      BY <2>1, <2>2 DEF Return
  <1>3. CASE Waiting(k) \/ k \in backoff \/ k \in backoff'
    BY <1>2, <1>3 DEF Remembered
  <1>4. CASE k = key[w] /\ k \in dirty
    <2>1. queue' = Append(queue, k)
      BY <1>4 DEF Return
    <2> QED
      BY <2>1, AppendWaits DEF Remembered, Waiting, TypeOK
  <1>5. ASSUME k # key[w],
               NEW v \in Workers, call[v] # "idle", key[v] = k,
               \/ k \in dirty
               \/ call[v] = "get"
               \/ SnapshotOf(job[v]) = SnapshotOf(cache[k])
        PROVE  Remembered(k)'
    <2>1. v # w
      BY <1>5
    <2>2. call'[v] = call[v] /\ key'[v] = key[v] /\ job'[v] = job[v]
      BY <2>1, ReturnFrame
    <2>3. k \in dirty => k \in dirty'
      BY <1>5 DEF Return
    <2> QED
      BY <1>5, <2>2, <2>3 DEF Remembered
  <1> QED
    BY <1>3, <1>4, <1>5 DEF Remembered

\* A worker that goes on to its next call keeps its request in hand.
LEMMA GotoRemembers ==
  ASSUME TypeOK, NEW w \in Workers, NEW next \in Calls, Goto(w, next),
         cache' = cache, UNCHANGED <<queue, dirty, backoff>>,
         \A v \in Workers : v # w => job'[v] = job[v],
         NEW k \in Keys, Remembered(k),
         \/ call[w] = "get" /\ job'[w] = cache[key[w]]
         \/ call[w] # "get" /\ job'[w] = job[w]
  PROVE  Remembered(k)'
  <1>1. /\ call'[w] = next
        /\ key' = key
        /\ \A v \in Workers : v # w => call'[v] = call[v]
    BY GotoFrame
  <1>2. CASE Waiting(k) \/ k \in backoff
    BY <1>2 DEF Remembered, Waiting
  <1>3. ASSUME NEW v \in Workers, call[v] # "idle", key[v] = k,
               \/ k \in dirty
               \/ call[v] = "get"
               \/ SnapshotOf(job[v]) = SnapshotOf(cache[k])
        PROVE  Remembered(k)'
    <2>1. CASE v # w
      BY <1>1, <1>3, <2>1 DEF Remembered
    <2>2. CASE v = w
      BY <1>1, <1>3, <2>2 DEF Remembered, Calls
    <2> QED
      BY <2>1, <2>2
  <1> QED
    BY <1>2, <1>3 DEF Remembered

\* The request for job k is due: the informer knows a generation of it that has
\* no snapshot.
Due(k) == cache[k] # None /\ snaps[SnapshotOf(cache[k])] = None

\* A snapshot that is gone was never there.
LEMMA DueBefore ==
  ASSUME TypeOK, OwnersKept, cache' = cache, NEW k \in Keys, Due(k)'
  PROVE  Due(k)
  BY JobTypes DEF Due, OwnersKept, TypeOK

LEMMA OuterRequests ==
  ASSUME TypeOK, KeysKept, RequestsInHand, NEW k \in Keys, Outer(k)
  PROVE  RequestsInHand'
  <1>1. UNCHANGED <<call, key, job, snaps>>
    BY OuterFrame
  <1> SUFFICES ASSUME NEW l \in Keys, Due(l)'
               PROVE  Remembered(l)'
    BY DEF RequestsInHand, Due
  <1>2. CASE User(k)
    <2>1. UNCHANGED <<cache, queue, dirty, backoff>>
      BY <1>2 DEF User, CreateJob, EditJob, DeleteJob, Change, queueVars
    <2> QED
      BY <1>1, <2>1 DEF RequestsInHand, Due, Remembered, Waiting
  <1>3. ASSUME Add(k), l = k
        PROVE  Remembered(l)'
    BY <1>1, <1>3, AddRemembers
  <1>4. ASSUME cache'[l] = cache[l], l # k \/ Add(k),
               \/ Add(k) /\ backoff' \in {backoff, backoff \ {k}}
               \/ UNCHANGED <<queue, dirty, backoff>>
        PROVE  Remembered(l)'
    <2>1. CASE l = k
      BY <1>3, <1>4, <2>1
    <2>2. CASE l # k
      <3>1. Remembered(l)
        BY <1>1, <1>4 DEF RequestsInHand, Due
      <3>2. /\ Waiting(l) => Waiting(l)'
            /\ l \in backoff => l \in backoff'
            /\ l \in dirty => l \in dirty'
        <4>1. CASE Add(k)
          BY <1>1, <1>4, <2>2, <4>1, AddRemembers
        <4>2. CASE UNCHANGED <<queue, dirty, backoff>>
          BY <4>2 DEF Waiting
        <4> QED
          BY <1>4, <4>1, <4>2
      <3> QED
        BY <1>1, <1>4, <3>1, <3>2 DEF Remembered
    <2> QED
      BY <2>1, <2>2
  <1>5. CASE Retry(k)
    BY <1>4, <1>5 DEF Retry
  <1>6. CASE Notice(k)
    <2>1. cache'[k] = jobs[k] /\ (l # k => cache'[l] = cache[l]) /\ backoff' = backoff
      BY <1>6 DEF Notice, TypeOK
    <2>2. CASE Add(k)
      BY <1>3, <1>4, <2>1, <2>2
    <2>3. CASE UNCHANGED <<queue, dirty>> /\ l # k
      BY <1>4, <2>1, <2>3
    <2>4. CASE ~MustPass(cache[k], jobs[k]) /\ UNCHANGED <<queue, dirty>> /\ l = k
      <3>1. jobs[k] # None
        BY <2>1, <2>4 DEF Due
      <3>2. cache[k] # None /\ cache[k].generation = jobs[k].generation
        BY <2>4, <3>1 DEF MustPass, Passes
      <3>3. SnapshotOf(cache[k]) = SnapshotOf(jobs[k])
        BY <3>1, <3>2 DEF SnapshotOf, KeysKept
      <3>4. Remembered(k)
        BY <1>1, <2>1, <2>4, <3>2, <3>3 DEF RequestsInHand, Due
      <3> QED
        BY <1>1, <2>1, <2>4, <3>3, <3>4 DEF Remembered, Waiting
    <2> QED
      BY <1>6, <2>2, <2>3, <2>4 DEF Notice
  <1> QED
    BY <1>2, <1>5, <1>6 DEF Outer

LEMMA WorkerRequests ==
  ASSUME TypeOK, ClaimsInHand, RequestsInHand, OwnersKept,
         NEW w \in Workers, Take(w) \/ Reconcile(w)
  PROVE  RequestsInHand'
  <1>1. cache' = cache
    BY DEF Take, Reconcile, GetJob, CreateSnapshot, CreateSnapshotFails,
           InitJobStatus, InitJobStatusFails, Refuse, Launch
  <1> SUFFICES ASSUME NEW k \in Keys, Due(k)'
               PROVE  Remembered(k)'
    BY DEF RequestsInHand, Due
  <1>2. Due(k) /\ Remembered(k)
    BY <1>1, DueBefore DEF RequestsInHand, Due
  <1>3. CASE Take(w)
    <2>1. /\ queue \in Seq(Keys) /\ queue # <<>> /\ queue' = Tail(queue)
          /\ call'[w] = "get" /\ key'[w] = Head(queue)
          /\ UNCHANGED <<dirty, backoff, job>>
          /\ \A v \in Workers : v # w => call'[v] = call[v] /\ key'[v] = key[v]
      BY <1>3 DEF Take, TypeOK
    <2>2. CASE Waiting(k)
      <3>1. k = Head(queue) \/ \E m \in DOMAIN Tail(queue) : Tail(queue)[m] = k
        BY <2>1, <2>2, TailWaits DEF Waiting
      <3> QED
        BY <2>1, <3>1 DEF Remembered, Waiting
    <2>3. CASE ~Waiting(k)
      <3>1. \A v \in Workers : call[v] # "idle" => v # w
        BY <1>3 DEF Take
      <3> QED
        BY <1>1, <1>2, <2>1, <2>3, <3>1 DEF Remembered
    <2> QED
      BY <2>2, <2>3
  <1>4. ASSUME Fail(w), call[w] # "idle"
        PROVE  Remembered(k)'
    <2>1. backoff' = backoff \cup {key[w]} /\ Return(w)
      BY <1>4 DEF Fail
    <2> QED
      BY <1>1, <1>2, <1>4, <2>1, ReturnRemembers
  <1>5. ASSUME NEW next \in Calls, Goto(w, next), UNCHANGED <<queue, dirty, backoff>>,
               \A v \in Workers : v # w => job'[v] = job[v],
               \/ call[w] = "get" /\ job'[w] = cache[key[w]]
               \/ call[w] # "get" /\ job'[w] = job[w]
        PROVE  Remembered(k)'
    BY <1>1, <1>2, <1>5, GotoRemembers
  <1>6. CASE GetJob(w)
    <2>1. call[w] = "get"
      BY <1>6 DEF GetJob
    <2>2. CASE cache[key[w]] = None
      BY <1>4, <1>6, <2>1, <2>2 DEF GetJob
    <2>3. CASE cache[key[w]] # None
      <3>1. /\ Goto(w, "create") /\ UNCHANGED <<queue, dirty, backoff>>
            /\ job' = [job EXCEPT ![w] = cache[key[w]]]
        BY <1>6, <2>3 DEF GetJob, queueVars
      <3>2. job'[w] = cache[key[w]] /\ \A v \in Workers : v # w => job'[v] = job[v]
        BY <3>1 DEF TypeOK
      <3> QED
        BY <1>5, <2>1, <3>1, <3>2 DEF Calls
    <2> QED
      BY <2>2, <2>3
  <1>7. CASE CreateSnapshot(w)
    <2>1. call[w] = "create"
      BY <1>7 DEF CreateSnapshot
    <2>2. CASE Goto(w, "initStatus") /\ UNCHANGED <<job, queueVars, faults>>
      BY <1>5, <2>1, <2>2 DEF queueVars, Calls
    <2> QED
      BY <1>4, <1>7, <2>1, <2>2 DEF CreateSnapshot
  <1>8. CASE InitJobStatus(w)
    <2>1. call[w] = "initStatus"
      BY <1>8 DEF InitJobStatus
    <2>2. CASE Goto(w, "preCheck") /\ UNCHANGED <<job, queueVars, faults>>
      BY <1>5, <2>1, <2>2 DEF queueVars, Calls
    <2> QED
      BY <1>4, <1>8, <2>1, <2>2 DEF InitJobStatus
  <1>9. CASE CreateSnapshotFails(w) \/ InitJobStatusFails(w) \/ Refuse(w)
    BY <1>4, <1>9 DEF CreateSnapshotFails, InitJobStatusFails, Refuse
  <1>10. CASE Launch(w)
    <2>1. call[w] = "preCheck" /\ Return(w) /\ backoff' = backoff
      BY <1>10 DEF Launch, Succeed
    <2>2. job[w] \in Jobs /\ SnapshotOf(job[w]) \in Snapshots
      BY <2>1, JobTypes DEF TypeOK
    <2>3. snaps[SnapshotOf(job[w])] # None
      BY <2>1, <2>2 DEF ClaimsInHand, Claims
    <2>4. SnapshotOf(job[w]) # SnapshotOf(cache[k])
      BY <1>2, <2>3 DEF Due
    <2>5. CASE k # key[w] \/ k \in dirty
      BY <1>1, <1>2, <2>1, <2>5, ReturnRemembers
    <2>6. CASE k = key[w] /\ k \notin dirty
      <3>1. Waiting(k) \/ k \in backoff \/ \E v \in Workers : v # w
              /\ call[v] # "idle" /\ key[v] = k
              /\ (call[v] = "get" \/ SnapshotOf(job[v]) = SnapshotOf(cache[k]))
        BY <1>2, <2>1, <2>4, <2>6 DEF Remembered
      <3>2. queue' = queue
        BY <2>1, <2>6 DEF Return
      <3> QED
        BY <1>1, <2>1, <3>1, <3>2, ReturnFrame DEF Remembered, Waiting
    <2> QED
      BY <2>5, <2>6
  <1> QED
    BY <1>3, <1>6, <1>7, <1>8, <1>9, <1>10 DEF Reconcile

LEMMA ExecuteRequests ==
  ASSUME TypeOK, RequestsInHand, OwnersKept, NEW j \in runs, Execute(j)
  PROVE  RequestsInHand'
  <1>1. UNCHANGED <<cache, queue, dirty, backoff, call, key, job>>
    BY DEF Execute, JobRuns, StepFails, JobEnds, queueVars, workVars
  <1> SUFFICES ASSUME NEW k \in Keys, Due(k)'
               PROVE  Remembered(k)'
    BY DEF RequestsInHand, Due
  <1>2. Remembered(k)
    BY <1>1, DueBefore DEF RequestsInHand, Due
  <1> QED
    BY <1>1, <1>2 DEF Remembered, Waiting

-----------------------------------------------------------------------------
(* The invariant.                                                          *)

LEMMA InvariantHolds == Init => IInv
  <1> SUFFICES ASSUME Init PROVE IInv
    OBVIOUS
  <1>1. TypeOK /\ GenerationsCounted
    BY TypeInit
  <1>2. KeysKept
    BY DEF Init, KeysKept, NewJob
  <1>3. ClaimsInHand /\ LaunchesCounted /\ ExecutorsOwnSnapshots /\ FailureIsOwn
    BY DEF Init, ClaimsInHand, Claims, LaunchesCounted, ExecutorsOwnSnapshots,
           FailureIsOwn
  <1>4. RequestsInHand
    BY DEF Init, RequestsInHand
  <1> QED
    BY <1>1, <1>2, <1>3, <1>4 DEF IInv

\* Every action preserves what is recorded.
LEMMA StepRecords ==
  ASSUME IInv, Next
  PROVE  Preserved
  <1>1. TypeOK /\ Recording
    BY DEF IInv, Recording
  <1>2. ASSUME NEW k \in Keys, Outer(k)
        PROVE  Preserved
    BY <1>1, <1>2, OuterRecords
  <1>3. ASSUME NEW w \in Workers, Take(w) \/ Reconcile(w)
        PROVE  Preserved
    BY <1>1, <1>3, QuietWorkerRecords, CreateSnapshotRecords,
       InitJobStatusRecords, RefuseRecords, LaunchRecords DEF Reconcile
  <1>4. ASSUME NEW j \in runs, Execute(j)
        PROVE  Preserved
    BY <1>1, <1>4, ExecuteRecords
  <1>5. CASE Crash
    BY <1>1, <1>5, CrashRecords
  <1> QED
    BY <1>2, <1>3, <1>4, <1>5 DEF Next, Outer

LEMMA InvariantIsKept == IInv /\ [Next]_vars => IInv'
  <1> SUFFICES ASSUME IInv, [Next]_vars PROVE IInv'
    OBVIOUS
  <1>1. /\ TypeOK /\ GenerationsCounted /\ KeysKept /\ RequestsInHand
        /\ ClaimsInHand
    BY DEF IInv
  <1>2. CASE Next
    <2>1. Preserved
      BY <1>2, StepRecords
    <2>2. KeysKept'
      BY <1>1, <1>2, KeysStep
    <2>3. OwnersKept
      BY <2>1 DEF Preserved
    <2>4. TypeOK' /\ GenerationsCounted' /\ RequestsInHand'
      <3>1. ASSUME NEW k \in Keys, Outer(k)
            PROVE  TypeOK' /\ GenerationsCounted' /\ RequestsInHand'
        BY <1>1, <3>1, OuterType, OuterRequests
      <3>2. ASSUME UNCHANGED <<jobs, changes>>
            PROVE  GenerationsCounted'
        BY <1>1, <3>2 DEF GenerationsCounted
      <3>3. ASSUME NEW w \in Workers, Take(w) \/ Reconcile(w)
            PROVE  TypeOK' /\ GenerationsCounted' /\ RequestsInHand'
        BY <1>1, <2>3, <3>2, <3>3, InnerFrame, WorkerType, WorkerRequests
      <3>4. ASSUME NEW j \in runs, Execute(j)
            PROVE  TypeOK' /\ GenerationsCounted' /\ RequestsInHand'
        BY <1>1, <2>3, <3>2, <3>4, InnerFrame, ExecuteType, ExecuteRequests
      <3>5. CASE Crash
        <4>1. RequestsInHand'
          BY <3>5 DEF Crash, RequestsInHand
        <4> QED
          BY <1>1, <3>2, <3>5, <4>1, InnerFrame, CrashType
      <3> QED
        BY <1>2, <3>1, <3>3, <3>4, <3>5 DEF Next, Outer
    <2> QED
      BY <2>1, <2>2, <2>4 DEF Preserved, IInv
  <1>3. CASE UNCHANGED vars
    <2>1. UNCHANGED <<jobs, cache, queue, dirty, backoff, call, key, job,
                      snaps, runs, launches, blamed, changes, faults>>
      BY <1>3 DEF vars, queueVars, workVars, runVars
    <2>2. TypeOK' /\ GenerationsCounted' /\ KeysKept'
      BY <1>1, <2>1 DEF TypeOK, GenerationsCounted, KeysKept
    <2>3. RequestsInHand'
      BY <1>1, <2>1 DEF RequestsInHand, Remembered, Waiting
    <2>4. ClaimsInHand'
      BY <1>1, <2>1 DEF ClaimsInHand, Claims
    <2>5. LaunchesCounted' /\ ExecutorsOwnSnapshots' /\ FailureIsOwn'
      BY <2>1 DEF IInv, LaunchesCounted, ExecutorsOwnSnapshots, FailureIsOwn
    <2> QED
      BY <2>2, <2>3, <2>4, <2>5 DEF IInv
  <1> QED
    BY <1>2, <1>3

\* The inductive invariant: claims are exclusive and no request gets lost,
\* whatever users, workers, the informer and crashes do.
THEOREM Invariance == Spec => []IInv
  BY InvariantHolds, InvariantIsKept, PTL DEF Spec

\* Every variable keeps its type, and a worker past its Get has a job in hand.
THEOREM TypeCorrect == Spec => []TypeOK
  <1>1. IInv => TypeOK
    BY DEF IInv
  <1> QED
    BY <1>1, Invariance, PTL

\* No snapshot's name is ever run under twice, for any number of namesakes,
\* workers, edits, retries and restarts.
THEOREM RunsOncePerName == Spec => []OneRunPerName
  <1>1. IInv => OneRunPerName
    BY DEF IInv, LaunchesCounted, OneRunPerName
  <1> QED
    BY <1>1, Invariance, PTL

\* Executors write to snapshots of their own version of the job.
THEOREM ReportsToOwnSnapshot == Spec => []ExecutorsOwnSnapshots
  <1>1. IInv => ExecutorsOwnSnapshots
    BY DEF IInv
  <1> QED
    BY <1>1, Invariance, PTL

\* Nobody's failure is recorded with another job, except under a bare name.
THEOREM FailuresStayHome == Spec => []FailureIsOwn
  <1>1. IInv => FailureIsOwn
    BY DEF IInv
  <1> QED
    BY <1>1, Invariance, PTL

\* A generation the informer knows and that has no snapshot is never dropped.
THEOREM RequestsAreKept == Spec => []NothingForgotten
  <1>1. IInv => NothingForgotten
    BY DEF IInv, RequestsInHand, Remembered, NothingForgotten, InHand
  <1> QED
    BY <1>1, Invariance, PTL

-----------------------------------------------------------------------------
(* Refinement of SnapshotClaims.                                           *)

LEMMA ClaimedType ==
  ASSUME TypeOK, NEW n \in Snapshots, snaps[n] # None
  PROVE  Claimed[n] \in [by : Jobs, state : ClaimStates] /\ Claimed[n] # None
  <1>1. Claimed[n] \in [by : Jobs, state : ClaimStates]
    BY DEF TypeOK, Recorded, Claimed, ClaimState, ClaimStates
  <1> QED
    BY <1>1, NoneAssumption

\* A step that creates no snapshot and starts no executor can only end claims.
LEMMA GivesUp ==
  ASSUME TypeOK, OwnersKept, GivesNothing
  PROVE  Abstract!Close
  <1> DEFINE closed == {n \in Snapshots : Abstract!Open(n) /\ ClaimState(n)' # "claimed"}
  <1>1. \A n \in Snapshots : Claimed'[n] = IF n \in closed
                                           THEN [by |-> Claimed[n].by, state |-> "closed"]
                                           ELSE Claimed[n]
    <2> SUFFICES ASSUME NEW n \in Snapshots
                 PROVE  Claimed'[n] = IF n \in closed
                                      THEN [by |-> Claimed[n].by, state |-> "closed"]
                                      ELSE Claimed[n]
      OBVIOUS
    <2>1. CASE snaps[n] = None
      BY <2>1 DEF GivesNothing, NoneCreated, Claimed, Abstract!Open
    <2>2. CASE snaps[n] # None
      <3>1. /\ Claimed[n] = [by |-> snaps[n].by, state |-> ClaimState(n)]
            /\ Claimed'[n] = [by |-> snaps[n].by, state |-> ClaimState(n)']
        BY <2>2 DEF OwnersKept, Claimed
      <3>2. \/ ClaimState(n)' = ClaimState(n)
            \/ ClaimState(n) = "claimed" /\ ClaimState(n)' = "closed"
        BY DEF GivesNothing, ClaimState, ClaimsShrink
      <3>3. n \in closed <=> Claimed[n] # None /\ ClaimState(n) = "claimed"
                               /\ ClaimState(n)' # "claimed"
        BY <3>1 DEF Abstract!Open
      <3>4. Claimed[n] # None
        BY <2>2, ClaimedType
      <3> QED
        BY <3>1, <3>2, <3>3, <3>4
    <2> QED
      BY <2>1, <2>2
  <1>2. closed \in SUBSET {n \in Snapshots : Abstract!Open(n)}
    OBVIOUS
  <1>3. Claimed' = [n \in Snapshots |-> IF n \in closed
                                        THEN [by |-> Claimed[n].by, state |-> "closed"]
                                        ELSE Claimed[n]]
    <2> HIDE DEF closed
    <2> QED
      BY <1>1 DEF Claimed
  <1> QED
    BY <1>2, <1>3 DEF Abstract!Close

\* A snapshot nobody touches, and that keeps its claims, keeps its claim state.
LEMMA SameClaim ==
  ASSUME NEW n \in Snapshots, snaps'[n] = snaps[n], launches'[n] = launches[n],
         \A v \in Workers : Claims(v, n)' <=> Claims(v, n)
  PROVE  Claimed'[n] = Claimed[n]
  BY DEF Claimed, ClaimState

LEMMA CreateSnapshotClaims ==
  ASSUME IInv, NEW w \in Workers, CreateSnapshot(w),
         NEW n, n = SnapshotOf(job[w])
  PROVE  Abstract!Claim(n)
  <1> DEFINE created == [by |-> job[w], status |-> NoStatus]
  <1>1. TypeOK /\ LaunchesCounted /\ call[w] = "create"
    BY DEF IInv, CreateSnapshot
  <1>2. job[w] \in Jobs /\ n \in Snapshots
    BY <1>1, JobTypes DEF TypeOK
  <1>3. /\ snaps[n] = None /\ snaps'[n] = created
        /\ \A m \in Snapshots : m # n => snaps'[m] = snaps[m]
        /\ launches' = launches
    BY <1>1, <1>2 DEF CreateSnapshot, TypeOK
  <1>4. created # None /\ created.by = job[w]
    BY <1>2, NoneAssumption DEF Recorded
  <1>5. launches'[n] = 0
    BY <1>1, <1>2, <1>3 DEF LaunchesCounted, TypeOK
  <1>6. ASSUME NEW m \in Snapshots, m # n
        PROVE  Claimed'[m] = Claimed[m]
    <2>1. \A v \in Workers : Claims(v, m)' <=> Claims(v, m)
      <3>1. CASE Goto(w, "initStatus") /\ job' = job
        BY <1>1, <1>6, <3>1, GotoFrame DEF Claims
      <3>2. CASE Return(w)
        BY <1>1, <3>2, ReturnFrame DEF Claims
      <3> QED
        BY <3>1, <3>2 DEF CreateSnapshot, Fail
    <2> QED
      BY <1>3, <1>6, <2>1, SameClaim
  <1>7. Claimed[n] = None
    BY <1>2, <1>3 DEF Claimed
  <1>8. Claimed'[n] \in [by : Jobs, state : {"claimed", "closed"}]
    <2>1. Claimed'[n] = [by |-> job[w], state |-> ClaimState(n)']
      BY <1>2, <1>3, <1>4 DEF Claimed
    <2>2. ClaimState(n)' \in {"claimed", "closed"}
      BY <1>5 DEF ClaimState
    <2> QED
      BY <1>2, <2>1, <2>2
  <1>9. Claimed' = [Claimed EXCEPT ![n] = Claimed'[n]]
    BY <1>2, <1>6 DEF Claimed
  <1> QED
    BY <1>7, <1>8, <1>9 DEF Abstract!Claim

LEMMA LaunchClaims ==
  ASSUME IInv, NEW w \in Workers, Launch(w),
         NEW n, n = SnapshotOf(job[w])
  PROVE  Abstract!Launch(n)
  <1>1. TypeOK /\ ClaimsInHand /\ call[w] = "preCheck" /\ Return(w) /\ snaps' = snaps
    BY DEF IInv, Launch, Succeed
  <1>2. job[w] \in Jobs /\ n \in Snapshots /\ Claims(w, n)
    BY <1>1, JobTypes DEF TypeOK, Claims
  <1>3. snaps[n] # None /\ launches[n] = 0
    BY <1>1, <1>2 DEF ClaimsInHand
  <1>4. launches'[n] = 1 /\ \A m \in Snapshots : m # n => launches'[m] = launches[m]
    BY <1>1, <1>2, <1>3 DEF Launch, TypeOK
  <1>5. ASSUME NEW m \in Snapshots, m # n
        PROVE  Claimed'[m] = Claimed[m]
    <2>1. \A v \in Workers : Claims(v, m)' <=> Claims(v, m)
      BY <1>1, <1>5, ReturnFrame DEF Claims
    <2> QED
      BY <1>1, <1>4, <1>5, <2>1, SameClaim
  <1>6. Claimed[n] = [by |-> snaps[n].by, state |-> "claimed"]
    BY <1>2, <1>3 DEF Claimed, ClaimState
  <1>7. Claimed'[n] = [by |-> snaps[n].by, state |-> "launched"]
    BY <1>1, <1>2, <1>3, <1>4 DEF Claimed, ClaimState
  <1>8. Claimed[n] # None
    BY <1>1, <1>2, <1>3, ClaimedType
  <1>9. Claimed' = [Claimed EXCEPT ![n].state = "launched"]
    <2>1. [Claimed[n] EXCEPT !.state = "launched"] = Claimed'[n]
      BY <1>6, <1>7
    <2>2. Claimed' = [Claimed EXCEPT ![n] = Claimed'[n]]
      BY <1>2, <1>5 DEF Claimed
    <2> QED
      BY <2>1, <2>2
  <1> QED
    BY <1>6, <1>8, <1>9 DEF Abstract!Launch, Abstract!Open

LEMMA ClaimsInit == Init => Abstract!Init
  BY DEF Init, Abstract!Init, Claimed

LEMMA ClaimsStep == IInv /\ [Next]_vars => [Abstract!Next]_Claimed
  <1> SUFFICES ASSUME IInv, [Next]_vars PROVE [Abstract!Next]_Claimed
    OBVIOUS
  <1>1. TypeOK /\ Recording
    BY DEF IInv, Recording
  <1>2. ASSUME Preserved, GivesNothing
        PROVE  Abstract!Next
    BY <1>1, <1>2, GivesUp DEF Preserved, Abstract!Next
  <1>3. ASSUME NEW k \in Keys, Outer(k)
        PROVE  Abstract!Next
    BY <1>1, <1>2, <1>3, OuterRecords
  <1>4. ASSUME NEW w \in Workers, Take(w) \/ Reconcile(w)
        PROVE  Abstract!Next
    <2>1. CASE CreateSnapshot(w)
      <3>1. SnapshotOf(job[w]) \in Snapshots
        BY <1>1, <2>1, JobTypes DEF CreateSnapshot, TypeOK
      <3> QED
        BY <2>1, <3>1, CreateSnapshotClaims DEF Abstract!Next
    <2>2. CASE Launch(w)
      <3>1. SnapshotOf(job[w]) \in Snapshots
        BY <1>1, <2>2, JobTypes DEF Launch, TypeOK
      <3> QED
        BY <2>2, <3>1, LaunchClaims DEF Abstract!Next
    <2> QED
      BY <1>1, <1>2, <1>4, <2>1, <2>2, QuietWorkerRecords, InitJobStatusRecords,
         RefuseRecords DEF Reconcile
  <1>5. ASSUME NEW j \in runs, Execute(j)
        PROVE  Abstract!Next
    BY <1>1, <1>2, <1>5, ExecuteRecords
  <1>6. CASE Crash
    BY <1>1, <1>2, <1>6, CrashRecords
  <1>7. CASE UNCHANGED vars
    <2>1. UNCHANGED <<snaps, launches, call, job>>
      BY <1>7 DEF vars, workVars, runVars
    <2>2. \A n \in Snapshots : Claimed'[n] = Claimed[n]
      BY <2>1, SameClaim DEF Claims
    <2> QED
      BY <2>2 DEF Claimed
  <1> QED
    BY <1>3, <1>4, <1>5, <1>6, <1>7 DEF Next, Outer

\* Every step of workers, executors and crashes is one that SnapshotClaims
\* allows: a name is claimed once, and launched by the claim, once.
THEOREM ClaimsAreKept == Spec => ClaimsSpec
  BY Invariance, ClaimsInit, ClaimsStep, PTL DEF Spec, ClaimsSpec, Abstract!Spec

=============================================================================
