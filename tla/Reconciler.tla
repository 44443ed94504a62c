------------------------------ MODULE Reconciler ------------------------------
(***************************************************************************)
(* The controller across all jobs: users create, edit and delete           *)
(* GodzillaJobs; the informer follows with a cache that lags behind; its   *)
(* events pass ignorePredicate into the workqueue; several workers         *)
(* reconcile requests at the same time; and what they launch reports to    *)
(* snapshots, which are found by name.                                     *)
(*                                                                         *)
(* The name of a snapshot is the job's name and generation, without the    *)
(* job's namespace and without its identity.  An update of a snapshot is   *)
(* one step here; ChaosRun has its calls, for one generation of one job.   *)
(***************************************************************************)
EXTENDS Integers, Sequences, JobStatus

CONSTANTS
  Keys,        \* the jobs there may be, each a namespace and a name
  BareName,    \* per name of a job: the snapshot that has this name, or None
  Workers,     \* the workers of the controller
  Existing,    \* the jobs that were created before the operator is started
  Refused,     \* the changes of users that write a spec PreCheck refuses
  MaxChanges,  \* bound on what users do to jobs
  MaxFaults,   \* bound on crashes and failing calls
  None         \* no object

Names       == {k[2] : k \in Keys}
Generations == 1 .. MaxChanges + 1
Snapshots   == Names \X Generations

ASSUME ReconcilerAssumption ==
  /\ BareName \in [Names -> Snapshots \cup {None}]
  /\ Existing \subseteq Keys
  /\ Refused \subseteq Nat
  /\ MaxChanges \in Nat /\ MaxFaults \in Nat
  /\ None \notin Snapshots

\* A version of a job: an identity, which a job that is created again does not
\* keep, a generation, which starts at 1 and counts the edits of the spec, and a
\* spec, of which it matters whether PreCheck accepts it.
Jobs == [key : Keys, uid : 0 .. MaxChanges, generation : Generations, sound : BOOLEAN]

NewJob(k, change) ==
  [key |-> k, uid |-> change, generation |-> 1, sound |-> change \notin Refused]

Recorded == [by : Jobs, status : Status \cup {NoStatus}]

Calls == {"get", "create", "initStatus", "preCheck"}

\* How far the claim of a version of a job to a snapshot has got.
ClaimStates == {"claimed", "launched", "closed"}

ASSUME NoneAssumption ==
  None \notin Jobs \cup Recorded \cup Keys \cup [by : Jobs, state : ClaimStates]

VARIABLES
  jobs,      \* the jobs in the API server
  cache,     \* the jobs as the informer knows them
  queue,     \* requests in the workqueue
  dirty,     \* requests added while a worker has the same one in hand
  backoff,   \* requests that failed and wait for their next turn
  call,      \* per worker: the call it makes next, or "idle"
  key,       \* per worker: the request it has in hand
  job,       \* per worker: the job it got for it
  snaps,     \* the snapshots in the API server
  runs,      \* the jobs whose executors are at work
  launches,  \* history: how many executors were started per snapshot
  blamed,    \* history: the jobs that were refused, or had a failed step
  changes,   \* number of changes users have made
  faults     \* number of crashes and failed calls

queueVars == <<queue, dirty, backoff>>
workVars  == <<call, key, job>>
runVars   == <<snaps, runs, launches, blamed>>
vars      == <<jobs, cache, queueVars, workVars, runVars, changes, faults>>

-----------------------------------------------------------------------------
(* Users.                                                                  *)

Change(k, object) ==
  /\ changes < MaxChanges
  /\ changes' = changes + 1
  /\ jobs' = [jobs EXCEPT ![k] = object]
  /\ UNCHANGED <<cache, queueVars, workVars, runVars, faults>>

CreateJob(k) ==
  /\ jobs[k] = None
  /\ Change(k, NewJob(k, changes + 1))

\* An edit of the spec; other edits keep the generation and are ignored.
EditJob(k) ==
  /\ jobs[k] # None
  /\ Change(k, [jobs[k] EXCEPT !.generation = @ + 1, !.sound = changes + 1 \notin Refused])

DeleteJob(k) == jobs[k] # None /\ Change(k, None)

-----------------------------------------------------------------------------
(* The informer and the workqueue.                                         *)

Waiting(k) == \E i \in DOMAIN queue : queue[i] = k
InHand(k)  == \E w \in Workers : call[w] # "idle" /\ key[w] = k

\* The workqueue holds a request once, and never hands it to two workers.
Add(k) ==
  /\ queue' = IF Waiting(k) \/ InHand(k) THEN queue ELSE Append(queue, k)
  /\ dirty' = IF InHand(k) THEN dirty \cup {k} ELSE dirty

\* Fault: updates are ignored altogether.
PassesNoUpdate(old, new) == None \in {old, new}

\* May the event of a change from old to new pass ignorePredicate?  An update
\* must change the generation.
Passes(old, new) ==
  None \notin {old, new} => old.generation # new.generation

\* Of a deletion, the informer's event passes only when it was missed: then the
\* last state of the job is unknown.
MustPass(old, new) == Passes(old, new) /\ new # None

\* The informer catches up with a job.  After a gap it sees only the last of
\* several changes, a job that was deleted and created again as one update.
Notice(k) ==
  /\ cache[k] # jobs[k]
  /\ cache' = [cache EXCEPT ![k] = jobs[k]]
  /\ \/ Passes(cache[k], jobs[k]) /\ Add(k)
     \/ ~MustPass(cache[k], jobs[k]) /\ UNCHANGED <<queue, dirty>>
  /\ UNCHANGED <<jobs, backoff, workVars, runVars, changes, faults>>

\* The delay of a failed request is over.
Retry(k) ==
  /\ k \in backoff
  /\ backoff' = backoff \ {k}
  /\ Add(k)
  /\ UNCHANGED <<jobs, cache, workVars, runVars, changes, faults>>

-----------------------------------------------------------------------------
(* Reconcile.                                                              *)

Take(w) ==
  /\ call[w] = "idle"
  /\ queue # <<>>
  /\ call' = [call EXCEPT ![w] = "get"]
  /\ key' = [key EXCEPT ![w] = Head(queue)]
  /\ queue' = Tail(queue)
  /\ UNCHANGED <<jobs, cache, dirty, backoff, job, runVars, changes, faults>>

\* Reconcile returns: a request that was added meanwhile is due, and one that
\* failed will be.
Return(w) ==
  /\ call' = [call EXCEPT ![w] = "idle"]
  /\ key' = [key EXCEPT ![w] = None]
  /\ job' = [job EXCEPT ![w] = None]
  /\ queue' = IF key[w] \in dirty THEN Append(queue, key[w]) ELSE queue
  /\ dirty' = dirty \ {key[w]}

Fail(w)    == Return(w) /\ backoff' = backoff \cup {key[w]}
Succeed(w) == Return(w) /\ UNCHANGED backoff

\* A call fails, or takes effect and is reported as failed.
Fault == faults < MaxFaults /\ faults' = faults + 1

Goto(w, next) == call' = [call EXCEPT ![w] = next] /\ UNCHANGED key

\* Fault: the error of the Get is not looked at.
GetJobUnchecked(w) ==
  /\ call[w] = "get"
  /\ Goto(w, "create")
  /\ job' = [job EXCEPT ![w] = cache[key[w]]]
  /\ UNCHANGED <<jobs, cache, queueVars, runVars, changes, faults>>

GetJob(w) ==
  /\ call[w] = "get"
  /\ IF cache[key[w]] = None
     THEN Fail(w)
     ELSE /\ Goto(w, "create")
          /\ job' = [job EXCEPT ![w] = cache[key[w]]]
          /\ UNCHANGED queueVars
  /\ UNCHANGED <<jobs, cache, runVars, changes, faults>>

SnapshotOf(j) == <<j.key[2], j.generation>>

CreateSnapshot(w) ==
  LET n == SnapshotOf(job[w])
  IN  /\ call[w] = "create"
      /\ snaps[n] = None
      /\ snaps' = [snaps EXCEPT ![n] = [by |-> job[w], status |-> NoStatus]]
      /\ \/ /\ Goto(w, "initStatus")
            /\ UNCHANGED <<job, queueVars, faults>>
         \/ Fault /\ Fail(w)
      /\ UNCHANGED <<jobs, cache, runs, launches, blamed, changes>>

\* Faults: a snapshot that is already there will do; an error of InitSnapshot
\* is logged and not returned.
CreateSnapshotTolerant(w) ==
  /\ call[w] = "create"
  /\ snaps[SnapshotOf(job[w])] # None
  /\ Goto(w, "preCheck")
  /\ UNCHANGED <<jobs, cache, job, queueVars, runVars, changes, faults>>

CreateSnapshotSwallowed(w) ==
  /\ call[w] = "create"
  /\ Succeed(w)
  /\ IF snaps[SnapshotOf(job[w])] # None THEN UNCHANGED faults ELSE Fault
  /\ UNCHANGED <<jobs, cache, runVars, changes>>

\* The name is taken, by whomever, or the call fails.
CreateSnapshotFails(w) ==
  /\ call[w] = "create"
  /\ Fail(w)
  /\ IF snaps[SnapshotOf(job[w])] # None THEN UNCHANGED faults ELSE Fault
  /\ UNCHANGED <<jobs, cache, runVars, changes>>

\* A status is replaced if there is a snapshot and statusCheck allows it.
Updated(n, status) ==
  IF n # None /\ snaps[n] # None /\ statusCheck(snaps[n].status, status)
  THEN [snaps EXCEPT ![n].status = status] ELSE snaps

InitJobStatus(w) ==
  /\ call[w] = "initStatus"
  /\ snaps' = [snaps EXCEPT ![SnapshotOf(job[w])].status = "pending"]
  /\ \/ /\ Goto(w, "preCheck")
        /\ UNCHANGED <<job, queueVars, faults>>
     \/ Fault /\ Fail(w)
  /\ UNCHANGED <<jobs, cache, runs, launches, blamed, changes>>

InitJobStatusFails(w) ==
  /\ call[w] = "initStatus"
  /\ Fault
  /\ Fail(w)
  /\ UNCHANGED <<jobs, cache, runVars, changes>>

\* An update of a status that may as well be lost: its calls fail, or another
\* update comes between them.
Report(n, status) == snaps' \in {snaps, Updated(n, status)}

\* PreCheck refuses the job.
Refuse(w) ==
  /\ call[w] = "preCheck"
  /\ ~job[w].sound
  /\ blamed' = blamed \cup {job[w]}
  /\ Report(SnapshotOf(job[w]), "failed")
  /\ Fail(w)
  /\ UNCHANGED <<jobs, cache, runs, launches, changes, faults>>

Launch(w) ==
  LET n == SnapshotOf(job[w])
  IN  /\ call[w] = "preCheck"
      /\ job[w].sound
      /\ runs' = runs \cup {job[w]}
      /\ launches' = [launches EXCEPT ![n] = @ + 1]
      /\ Succeed(w)
      /\ UNCHANGED <<jobs, cache, snaps, blamed, changes, faults>>

-----------------------------------------------------------------------------
(* The executors.                                                          *)

JobRuns(j) ==
  /\ j \in runs
  /\ Report(SnapshotOf(j), "running")
  /\ UNCHANGED <<jobs, cache, queueVars, workVars, runs, launches, blamed, changes, faults>>

\* Fault: the generation is taken from the job as it is now.
FailureNamesLatest(j) ==
  {BareName[j.key[2]]} \cup IF jobs[j.key] = None THEN {} ELSE {SnapshotOf(jobs[j.key])}

\* The snapshots a failed step may be reported to: some kinds of steps leave out
\* the generation.
FailureNames(j) == {SnapshotOf(j), BareName[j.key[2]]}

StepFails(j) ==
  /\ j \in runs
  /\ blamed' = blamed \cup {j}
  /\ \E n \in FailureNames(j) : Report(n, "failed")
  /\ UNCHANGED <<jobs, cache, queueVars, workVars, runs, launches, changes, faults>>

JobEnds(j) ==
  /\ j \in runs
  /\ runs' = runs \ {j}
  /\ Report(SnapshotOf(j), "success")
  /\ UNCHANGED <<jobs, cache, queueVars, workVars, launches, blamed, changes, faults>>

-----------------------------------------------------------------------------
\* The operator dies; the next one starts with an empty cache and queue.
Crash ==
  /\ Fault
  /\ cache' = [k \in Keys |-> None]
  /\ queue' = <<>> /\ dirty' = {} /\ backoff' = {}
  /\ call' = [w \in Workers |-> "idle"]
  /\ key' = [w \in Workers |-> None]
  /\ job' = [w \in Workers |-> None]
  /\ runs' = {}
  /\ UNCHANGED <<jobs, snaps, launches, blamed, changes>>

Init ==
  /\ jobs = [k \in Keys |-> IF k \in Existing THEN NewJob(k, 0) ELSE None]
  /\ cache = [k \in Keys |-> None]
  /\ queue = <<>> /\ dirty = {} /\ backoff = {}
  /\ call = [w \in Workers |-> "idle"]
  /\ key = [w \in Workers |-> None]
  /\ job = [w \in Workers |-> None]
  /\ snaps = [n \in Snapshots |-> None]
  /\ runs = {}
  /\ launches = [n \in Snapshots |-> 0]
  /\ blamed = {}
  /\ changes = 0
  /\ faults = 0

User(k)      == CreateJob(k) \/ EditJob(k) \/ DeleteJob(k)
Reconcile(w) == \/ GetJob(w)
                \/ CreateSnapshot(w) \/ CreateSnapshotFails(w)
                \/ InitJobStatus(w) \/ InitJobStatusFails(w)
                \/ Refuse(w) \/ Launch(w)
Execute(j)   == JobRuns(j) \/ StepFails(j) \/ JobEnds(j)

Next == \/ \E k \in Keys : User(k) \/ Notice(k) \/ Retry(k)
        \/ \E w \in Workers : Take(w) \/ Reconcile(w)
        \/ \E j \in runs : Execute(j)
        \/ Crash

Spec == Init /\ [][Next]_vars

\* The informer catches up, delays end, and workers that can proceed do.
FairSpec == /\ Spec
            /\ \A k \in Keys : WF_vars(Notice(k)) /\ WF_vars(Retry(k))
            /\ WF_vars(\E w \in Workers : Take(w))
            /\ \A w \in Workers : WF_vars(Reconcile(w))

-----------------------------------------------------------------------------
(* Properties.                                                             *)

\* Types of the variables; a worker has a request while it is at work, and a job
\* once it got one.
TypeOK ==
  /\ jobs \in [Keys -> Jobs \cup {None}]
  /\ cache \in [Keys -> Jobs \cup {None}]
  /\ queue \in Seq(Keys) /\ dirty \subseteq Keys /\ backoff \subseteq Keys
  /\ call \in [Workers -> Calls \cup {"idle"}]
  /\ key \in [Workers -> Keys \cup {None}]
  /\ job \in [Workers -> Jobs \cup {None}]
  /\ \A w \in Workers : /\ call[w] # "idle" => key[w] \in Keys
                        /\ call[w] \notin {"idle", "get"} => job[w] \in Jobs
  /\ snaps \in [Snapshots -> Recorded \cup {None}]
  /\ runs \subseteq Jobs
  /\ launches \in [Snapshots -> Nat]
  /\ blamed \subseteq Jobs
  /\ changes \in 0 .. MaxChanges /\ faults \in 0 .. MaxFaults

\* Under one name and generation there is one run, though jobs are deleted and
\* created again, have namesakes in other namespaces, are reconciled by several
\* workers, tried again and met anew by an operator that was restarted.  So no
\* two runners ever carry the same labels (StepRunner!LabelsAssumption).
OneRunPerName == \A n \in Snapshots : launches[n] <= 1

\* An executor reports to a snapshot that was created for its own version of
\* the job, whatever became of the job since.
ExecutorsOwnSnapshots ==
  \A j \in runs : snaps[SnapshotOf(j)] # None /\ snaps[SnapshotOf(j)].by = j

\* A snapshot is failed only because the version of the job it was created for
\* was refused or had a failed step, or because a job whose name is that of the
\* snapshot had a failed step of a kind that reports under the bare name.
FailureIsOwn ==
  \A n \in Snapshots :
    snaps[n] # None /\ snaps[n].status = "failed"
      => \E j \in blamed : snaps[n].by = j \/ BareName[j.key[2]] = n

\* No request is forgotten: a job the informer knows, and whose generation has
\* no snapshot, is waiting for a worker or in the hands of one.
NothingForgotten ==
  \A k \in Keys :
    cache[k] # None /\ snaps[SnapshotOf(cache[k])] = None
      => Waiting(k) \/ InHand(k) \/ k \in backoff

\* Once users leave the jobs alone, every generation gets a snapshot, its own or
\* that of a namesake.
PickedUp ==
  []<>(\A k \in Keys : jobs[k] = None \/ snaps[SnapshotOf(jobs[k])] # None)

\* "Make the cluster state reflect the state specified by the user": a job that
\* is not changed any more is recorded in a snapshot of its own.
EveryJobIsReflected ==
  \A k \in Keys, j \in Jobs :
    jobs[k] = j ~> jobs[k] # j \/ (snaps[SnapshotOf(j)] # None /\ snaps[SnapshotOf(j)].by = j)

\* Worker w has just created snapshot n, and has still to launch its job.
Claims(w, n) == call[w] \in {"initStatus", "preCheck"} /\ SnapshotOf(job[w]) = n

\* What is known of the claim to a snapshot.
ClaimState(n) ==
  IF launches[n] > 0 THEN "launched"
  ELSE IF \E w \in Workers : Claims(w, n) THEN "claimed"
  ELSE "closed"

Claimed == [n \in Snapshots |-> IF snaps[n] = None THEN None
                                ELSE [by |-> snaps[n].by, state |-> ClaimState(n)]]

Abstract == INSTANCE SnapshotClaims WITH Names <- Snapshots, Owners <- Jobs,
                                       claims <- Claimed

\* The reconciler keeps the rules of SnapshotClaims: a name is claimed once, and
\* only the worker that claimed it launches the job, and only once.
ClaimsSpec == Abstract!Spec

-----------------------------------------------------------------------------
(* The inductive invariant, in parts.                                      *)

\* The generations of a job are no more than the changes users have made.
GenerationsCounted ==
  \A k \in Keys : jobs[k] # None => jobs[k].generation <= changes + 1

\* The API server and the cache hold a job under its own key.
KeysKept ==
  \A k \in Keys : \A j \in {jobs[k], cache[k]} : j # None => j.key = k

\* A worker that claims a snapshot has created it, for the job it has in hand,
\* and nobody has launched it or can: no other worker claims the same one.
ClaimsInHand ==
  \A w \in Workers, n \in Snapshots :
    Claims(w, n) => /\ snaps[n] # None /\ snaps[n].by = job[w]
                    /\ launches[n] = 0
                    /\ \A v \in Workers : Claims(v, n) => v = w

LaunchesCounted ==
  \A n \in Snapshots : launches[n] <= 1 /\ (launches[n] > 0 => snaps[n] # None)

\* The request for job k will be looked at: it waits, or it is in the hands of a
\* worker who will find it again, has still to get the job, or has this very
\* generation of it.
Remembered(k) ==
  \/ Waiting(k)
  \/ k \in backoff
  \/ \E w \in Workers :
       /\ call[w] # "idle" /\ key[w] = k
       /\ \/ k \in dirty
          \/ call[w] = "get"
          \/ SnapshotOf(job[w]) = SnapshotOf(cache[k])

\* Why no request is forgotten.
RequestsInHand ==
  \A k \in Keys :
    cache[k] # None /\ snaps[SnapshotOf(cache[k])] = None => Remembered(k)

IInv == /\ TypeOK
        /\ GenerationsCounted
        /\ KeysKept
        /\ ClaimsInHand
        /\ LaunchesCounted
        /\ RequestsInHand
        /\ ExecutorsOwnSnapshots
        /\ FailureIsOwn
=============================================================================
