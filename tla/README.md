# A formal model of godzilla-operator

godzilla-operator runs chaos experiments on Kubernetes. A `GodzillaJob` lists
stages of steps; the operator runs the stages in order and the steps of a stage
in parallel, each as one or several Kubernetes Jobs, and records what became of
them in a `GodzillaJobSnapshot`, one per generation of the job.

This directory holds TLA+ modules for the operator, TLC configurations that
check them on small instances, and proofs: of the run of a job, for any number
of steps and stages; of the controller across jobs, for any number of jobs,
workers and restarts; of the runners against the cluster, for any number of
generations and targets; and of the selection of pods and the making of their
Jobs, for lists of any length.
Paths below are relative to `src/`; `snapshot.go` and the other files without
a directory are in `controllers/chaos/`.

## The system

| Part | State it keeps | Operations | Talks to |
|---|---|---|---|
| Reconciler (`controllers/godzillajob_controller.go`) | the informer's cache, the workqueue's requests, the job each of five workers has in hand | `Reconcile`, retried when it returns an error; `ignorePredicate` | users, by the jobs they write; snapshot store, PreCheck; starts the executor |
| Executor (the goroutine in `Reconcile`) | the stage it is at, a `sync.WaitGroup` | reports running, starts the runners of a stage, waits, reports success | snapshot store, runners |
| Snapshot store (`snapshot.go`) | the `GodzillaJobSnapshot` in the API server | `InitSnapshot`, `UpdateJobStatus`, `UpdateSnapshot`, guarded by `statusCheck` | API server, by Get and Update |
| PreCheck (`chaos.go`) | none | refuses equal step names and unknown types | snapshot store |
| Dispatch (`run.go`) | none | the runner of a type | runners |
| Step runners (`pod-kill.go`, `pod-autoscaler.go`, `container-kill.go`, `pod-stress.go`, `pod-network.go`, `pod-disk-fill.go`) | a watch, a deadline, the Jobs and pods in the cluster | create Jobs, watch their pods, come to a verdict, clean up, report | target selection, snapshot store, API server |
| Cleanup (`chaos.go`, `CleanJob`) | the Jobs in the cluster | list by labels, delete in the foreground | API server |
| Target selection (`utils/pod.go`) | none | `FilterTargetPods` | API server (reads) |
| Step configuration (`chaos.go` `OverrideConfig`, `pod/pod.go`) | the step's `Config` map, which a runner changes from target to target | fills in defaults | reconciler, runners |
| Host lookup (`utils/network.go`) | none | `LookUpHost` | DNS; `runNetworkChaos` |
| Random names (`utils/rand.go`), environment (`controllers/env`), `main.go` | - | I/O and wiring | - |

What makes it hard:

- **Interleaving.** Every step is a goroutine of its own, and all of them, and
  the executor, update one object by a Get followed by an Update. Nobody
  retries an update that met a conflict, and every caller of a runner ignores
  the error.
- **Ordering.** Success is reported at the end of a run without a look at the
  steps; only `statusCheck`, on a copy that may be outdated, keeps a failure.
- **Crash and restart.** The operator keeps nothing but the snapshot. After a
  restart the informer delivers every job again.
- **Retries.** The workqueue retries a reconciliation that returned an error,
  among them the one of a job that is refused, for ever.
- **Partial failure.** Creation of the snapshot and of its status are two
  calls; so are the Jobs of several targets, and the deletions of a cleanup.
- **Time and watches.** The deadline of a step is looked at only when its watch
  delivers an event, and the API server ends every watch after a while.
- **Several generations.** An edited job is a new generation, which runs
  whether or not the earlier one has ended, in the same namespace.
- **Names.** A snapshot is named after the job's name and generation, without
  namespace and identity: namesakes, and jobs that are deleted and created again,
  compete for it, and two runners report failures under the bare name of the job,
  which may be that of another job's snapshot.
- **Stale caches.** The reconciler reads the job from the informer's cache,
  while users edit and delete it; the informer may see several changes as one.
- **A shared map.** The Jobs of a step are made one after the other from one
  `Config` map, into which the loop writes the pod, its container and the
  addresses it has found.

What makes each part correct, and where it is stated:

| Part | Correct if | Property |
|---|---|---|
| Snapshot store | one status at a time moves, and only forward, in spite of outdated copies | `LedgerSpec`, `OwnStatus` |
| | a failure of the job that was acknowledged is not replaced | `AckedFailureIsFinal` |
| | the verdict of a step stays, whoever writes after it | `VerdictIsFinal` |
| | the record is complete when steps do not overlap | `StatusRecorded`, `FailedStepFailsJob` |
| Reconciler | a generation runs at most once, under one name there is one run | `AtMostOneRun`, `OneRunPerName`, `ClaimsSpec` |
| | what a run reports goes to the snapshot of its own version of the job | `ExecutorsOwnSnapshots`, `FailureIsOwn` |
| | no generation is forgotten, in the end each has a snapshot | `NothingForgotten`, `PickedUp` |
| PreCheck | what it refuses never runs | `RejectedNeverRuns` |
| Executor | stages do not overlap, success comes last, the run ends | `StageBarrier`, `SuccessMeansFinished`, `RunEnds` |
| Runner | success is earned, a pod that ends leads to a verdict while the watch is open, it returns | `SuccessIsEarned`, `EndIsSeen`, `RunnerReturns`, `FollowsLifecycle` |
| Cleanup | complete behind every success, and behind a failure unless a call failed; of the run's own Jobs only | `VerdictCleansUp`, `OnlyOwnJobsDie` |
| Step configuration, fan-out | each Job has what the user asked for and is aimed at its own pod; at that pod's first container if no pod before it has another one, and with the addresses found for it but for those of one host | `SettingsReachJobs`, `TargetsAreServed`, `ContainerFits`, `HostsAreCovered` |
| Target selection | the share of the pods that was asked for, and no pod left out for a value that is none | `ShareIsExact`, `PodsComeFirst` |

## The modules

| Module | Models | Extends |
|---|---|---|
| `JobStatus` | the statuses and `statusCheck` | - |
| `ChaosTypes` | step types, `Run`'s switch, and the two ways in which the six runners differ | - |
| `StepLifecycle` | the life of a runner as a graph of labels, shared by the two modules below | - |
| `SnapshotLedger` | abstract: what a snapshot promises to its readers | `JobStatus` |
| `ChaosRun` | one generation of one job: reconciler, executor, runners seen from the snapshot, the snapshot object, crashes | the first three; `SnapshotLedger` by `INSTANCE` |
| `ChaosRunProofs` | theorems about `ChaosRun` | `ChaosRun`, `TLAPS` |
| `ChaosRunRecordProofs` | theorems about its record while the API server does not fail | `ChaosRunProofs` |
| `SnapshotClaims` | abstract: how the name of a snapshot decides who runs | - |
| `Reconciler` | all jobs: users, informer, predicate, workqueue, workers, the executors seen from the snapshots, crashes | `JobStatus`; `SnapshotClaims` by `INSTANCE` |
| `ReconcilerProofs` | theorems about `Reconciler` | `Reconciler`, `TLAPS` |
| `StepRunner` | the runners against the cluster: Jobs, pods, watches, the clock, cleanup | `ChaosTypes`, `StepLifecycle` |
| `StepRunnerProofs` | theorems about `StepRunner` | `StepRunner`, `TLAPS` |
| `StepConfig` | `OverrideConfig`, `PopulateDefault` | - |
| `TargetJobs` | from the manifest of a step to its Jobs: defaults, the loop over the targets, the lookup of hosts | `StepConfig`, `ChaosTypes` |
| `TargetJobsProofs` | theorems about `TargetJobs` | `TargetJobs`, `SetInduction` |
| `FilterTargetPods` | target selection | - |
| `FilterTargetPodsProofs` | theorems about `FilterTargetPods` | `FilterTargetPods`, `SetInduction` |
| `SetInduction` | induction and recursion up to a number, for the proofs about loops | `TLAPS` |
| `MCChaosRun`, `MCReconciler`, `MCStepRunner`, `MCTargetJobs`, `MCFilterTargetPods` | instances for TLC | the module of that name |

### ChaosRun

A thread is the reconciler (-1), the executor (0) or the runner of a step
(1, 2, ...). `pc[t]` names the API call a thread makes next, or what it waits
for. `Reconcile` is `CreateSnapshot`, `InitJobStatus` (both calls of
`InitSnapshot`), `Reject` or `Launch` (`PreCheck`), and `Requeue` for the
workqueue. The executor has `StartStage` and `FinishJob`.

Every update of the snapshot is two actions, `GetSnapshot`, which puts a copy
into `read[t]`, and `PutJobStatus` or `PutStepStatus`, which writes the copy
back; between the two any other thread may have written. `snap.rv` is the
resource version. An update from a copy with another version is refused
(`Conflict`), one that changes nothing leaves the version alone (`Written`).
`UpdateFails` is any failure of either call; the caller goes on in the same way
either way, because the results are ignored. `UpdateJobStatus` sends no update
when `statusCheck` forbids the transition, and returns nil; `UpdateSnapshot`
sends one all the same. Spec and status are separate subresources but share the
resource version, so one record with both is what an update can be seen to do.

`UsesBareName` is the difference between the runners that matters here: two of
them pass the name of the job where the name of the snapshot, job and
generation, is meant. In this module that name belongs to no object.

`launches` and `acked` are history: how often the executor was started, and
who got nil for the report of a failure.

`Crash` ends all goroutines and lets the reconciler start over, as the informer
of a new process lists the job. One process at a time is the leader
(`charts/values.yaml`, `--leader-elect`); a second leader is a crash and a
restart here. The clients are direct ones (`controllers/env/env.go:48`), not the
manager's cached one, so a Get returns the object as it is.

The branches for an unknown status (`default:` in the runners' last switch) are
not modelled: they are under a condition that leaves succeeded and failed only.

### StepRunner

The six runners are the same text but for the number of Jobs, the lookup of
hosts in `runNetworkChaos`, and the bare name. `kind[r]` chooses one. Labels of
a Kubernetes Job identify its run (`LabelsOf`); its name is that of the step,
with a random suffix where there is a Job per target. Suffixes are drawn from a
small set (`Drawn`) and may repeat: ten characters rarely do by chance, but nobody
seeds their source (`utils/rand.go:28`), and with a Go before 1.20 an operator
that was restarted draws those of its predecessor; which Go builds the operator
is hidden in its base image. `owner` holds the Jobs the API server has and who
created them, `phase` their pods, `dying` the deletions under way.

`Targets` are places in the list of pods `FilterTargetPods` returns, not pods: a pod
that `TARGET_PODS` names twice has two of them, and gets two Jobs.

A watch starts with the pods that are there, in any order, and then has every
change; the event of a deletion shows the last phase of the pod, and the loop
does not tell it from another event. `PodTouched` is a change that leaves the phase
alone, and makes the loop look at the clock like any other. `WatchCloses` may lose what has not been
received. `Deadline` says that the duration of the step, and two minutes more,
have passed. A panic of `FilterTargetPods` has the effect of `Crash`.

`StepLifecycle` is the contract between the two modules: `ChaosRun` moves a
runner along `Outcomes` and `AfterReport`, and `FollowsLifecycle` shows that
every step of a runner of `StepRunner` is such a move, or none.

### FilterTargetPods

A behaviour is one call: the inputs are chosen in `Init`, `Filter` computes the
result, or the list of the pods, or the Get of one, fails, as the Get of a pod that
does not exist does. Slicing beyond the length of a Go slice is legal up to its capacity and
yields zero values; beyond that it panics. `append` is free to leave capacity,
so it is chosen between the length and twice the length. An empty or malformed
percentage counts as 0, which means the first pod, also of those that
`TARGET_PODS` names. `Collected` is the loop over the list of pods, by the number
of pods it has seen. `PodsComeFirst` is what `TargetJobs` takes the pods to be.

### Reconciler

A key is a namespace and a name; `jobs` is the API server's version of each job,
with its identity (`uid`) and generation, `cache` the informer's. `CreateJob`,
`EditJob` and `DeleteJob` are the users. `Notice` is the informer catching up
with one job, possibly after a gap in which several changes happened; `Passes`
is `ignorePredicate`: an update must change the generation, and of a deletion
only the event of an unknown last state passes. `Add`, `Take`, `Return` and
`Retry` are controller-runtime's workqueue: a request is in it once, is never in
the hands of two workers, and is queued again after its worker returned if it was
added meanwhile (`dirty`) or `Reconcile` failed (`backoff`).

The calls of `Reconcile` are actions of the worker: `GetJob` (from the cache; a
deleted job is an error, and so tried again for ever), `CreateSnapshot`,
`InitJobStatus`, and `Refuse` or `Launch` for `PreCheck`. `CreateSnapshot` and
`InitJobStatus` may take effect and still be reported as failed. `Recorded.by` is
the version of the job a snapshot was created for, which the code does not store:
it is history, as are `launches` and `blamed`.

What `ChaosRun` does in two calls is one step here, and may be lost: `Report`.
`BareName` is the snapshot that happens to have the bare name of a job.

`SnapshotClaims` is what all this amounts to: the name of a snapshot is claimed
once, by one version of one job; a claim is launched, once, or closed. `Claimed`
is the mapping: a claim is open while a worker is between the creation of the
snapshot and the launch. `OneRunPerName` is what `StepRunner` assumes of labels,
which consist of name, generation and step.

### StepConfig and TargetJobs

A setting is a list of tokens, and a token a sequence of words with nothing
between them: enough to tell `1,2` from `12`, which is what `Extended` is about:
only the addresses, and no commas, are written into an empty list of addresses.
Maps are functions that `Put` and `Over` change.
`OverrideConfig` lets the manifest go before the type's file, and that before
`common.yaml`, by the key for settings and by emptiness for image and account.
`PopulateTarget`, `LookUp` and `CreateJob` are the body of the loop over the pods;
`step.config` is the one map all Jobs are made from. Pods are any that
`FilterTargetPods` may return, among them, for a percentage above 100, values that
are no pods, with which `PopulateTarget` may panic. The other templates of a Job are
constants and left out.

## The runs

| Run | Instance | Shows |
|---|---|---|
| `parallel` | two steps in one stage, four types (full name, bare names, unknown), equal names, failing calls, crashes | `TypeOK`, `IInv`, `OwnStatus`, `AckedFailureIsFinal`, `AtMostOneRun`, `RejectedNeverRuns`, `LedgerSpec`, `VerdictIsFinal` |
| `staged` | a step, a stage of two, and a last step; fairness; an API server that does not fail | `StageBarrier`, `SuccessMeansFinished`, `RunEnds`; `QuietInv`, `StatusRecorded` and `FailedStepFailsJob` for the steps that are alone in their stage |
| `names` | a job, its namesake in another namespace, and a job `a-1` that is named like a snapshot of theirs; two workers, two changes, one of which is refused, one fault; fairness | `TypeOK`, `IInv`, `OneRunPerName`, `ExecutorsOwnSnapshots`, `FailureIsOwn`, `NothingForgotten`, `ClaimsSpec`, `PickedUp` |
| `generations` | two generations of one step, both naming schemes, up to two targets, two suffixes | `TypeOK`, `IInv`, `OnlyOwnJobsDie`, `SuccessIsEarned` |
| `failures` | one step, up to two targets, failing calls, watches that close, fairness | `VerdictCleansUp`, `FollowsLifecycle`, `RunnerReturns`, `EndIsSeen` |
| `targets` | three kinds of runners, every manifest over four settings that may be given, empty or left out, up to two of three pods, hosts with up to two addresses | `IInv`, `SettingsReachJobs`, `TargetsAreServed`, `ContainerFits`, `HostsAreCovered` |
| `shares` | up to three pods and three names, percentages at the boundaries | `ShareIsExact`, `PodsComeFirst` |

`EndIsSeen` asks for a verdict, not only for a return, and has as its premise that the
watch stays open for as long as the runner waits. In the same run watches close and take
events along; then the end of a pod may be missed and the step has no verdict, and what
is left is that the runner returns (`RunnerReturns`). `VerdictCleansUp` holds of a success
whatever call failed, so that a failing deletion cannot end in a success with Jobs left.

`HostsAreCovered` takes a list for what a parser of it finds: an entry is an address only
if it is a single one. It shows that nothing gets in that was neither asked for nor
found, and that all addresses found for a Job are entries of its list if the user gave a
list or a Job before it had addresses. Otherwise it leaves out the first host with
addresses, and this is a defect of the code: into an empty `DESTINATION_IPS`, the
default, `pod-network.go:162` writes the addresses of this host one behind the other,
without the comma of line 166. Two addresses become one entry that is neither of them,
and the Job does not reach the host although its lookup succeeded. In the same way
`ContainerFits` speaks of the pods up to the first one whose container has another name.
From there on the Jobs name a container their pod does not have: the comment
`populate the first container name if APP_CONTAINER is empty` (`container-kill.go:48`)
stands in the loop over the pods, but `APP_CONTAINER` is empty for the first one only,
because all of them share the `Config` map.

Five runs end in a counterexample. Each checks what a comment of the source
says, and shows how the code departs from it:

| Run | Property | What happens |
|---|---|---|
| `barename` | `FailedStepFailsJob` | a pod-delete step fails, the failure is reported under a name without a snapshot (`pod-kill.go:102`), the job ends as a success |
| `lostupdate` | `EveryStatusIsRecorded` | two parallel steps update the snapshot, the second update is refused, its status is lost (`snapshot.go:136`) |
| `timeout` | `TimeoutIsMarked` | nothing happens to the pod, so nobody looks at the clock; the watch ends, and so does the runner, with the step running for ever (`container-kill.go:111`) |
| `nopods` | `NoPodsIsAnError` | no pod is eligible and no percentage set: `pods[:1]` panics before the check for no pods (`utils/pod.go:77`) |
| `recreated` | `EveryJobIsReflected` | a job is deleted and created again: it is generation 1 once more, its snapshot exists already, and it is retried for ever, or not even noticed (`snapshot.go:50`) |

Deadlock is checked where a model can be stuck only by mistake. It is not checked for
`names` and `recreated`, where the system is at rest once no request is left,
and for `targets`, `shares` and `nopods`, whose behaviours are
single calls that end.

### Bounds

- *Steps and stages.* A conflict takes two writers, and the executor and the
  runners of one stage are three; the lost update, the overtaken copy and equal
  names all appear with two steps. The barrier needs a stage with two steps,
  one before it and one behind it; the outer two are the steps that are alone.
  The theorems have no such bound.
- *Types.* One for each way a failure is reported, and one that is unknown; the
  other types behave as one of these.
- *Crashes, retries, conflicts* are not bounded: the resource version grows
  only with a status, and statuses only move forward.
- *Runs and targets.* A collision of names and a selector that matches too much
  take two runs; a partial creation or deletion takes two targets. Both are in
  `generations`, but calls that fail for no reason only in `failures`, which has
  one run. Two suffixes are enough for two Jobs to have different ones, or the same.
- *Jobs and changes* (`Keys`, `MaxChanges`). One job exists when the operator is
  started (`Existing`), so that two changes are enough to delete it and create
  it again, to edit it twice, or to edit it and create its namesake; the third
  job makes the bare name of another denote a snapshot of the first. The second
  change writes a spec that `PreCheck` refuses (`Refused`).
- *Workers and faults* (`MaxFaults`). Two workers are enough for two requests that
  want one name; one fault is a crash, or a call that fails with or without
  effect. The theorems hold for all of these.
- *Targets and hosts* (`MaxTargets`). What one target leaves in the map, the
  second finds; two hosts of which the first has none, one or several addresses
  meet an empty and a filled list.
- *Events of a watch* are bounded by the life of the pods, which are never
  retried (`BackoffLimit` 0). Changes that leave the phase alone have no such bound;
  `PodTouched` makes one only if no event is under way to the run. The loop takes
  events one by one and keeps nothing but the clock from one to the next, so that a
  second one of the same phase tells it what one that comes later would.
- *Pods.* Three pods tell rounding down from rounding up and a share that is
  all of the pods from one that is more; the percentages are the values at
  which the result for up to three pods changes, and their neighbours.

### Fairness

`ChaosRun!Fairness` is weak fairness of the reconciler, of the executor and of
every runner: the Go scheduler runs a goroutine that can proceed, and a call to
the API server returns. For a runner in its event loop it also says that the
loop ends; `StepRunner!RunnerReturns` derives that, from weak fairness of the
runner and of `WatchCloses`: the API server ends a watch after its request
timeout. Nothing is assumed of pods, which may stay pending for ever, and
nothing of crashes: liveness properties allow for the operator's death.
`RunnerReturns` states `WatchCloses` as its hypothesis, and `EndIsSeen` that the watch
of the runner stays open.

`Reconciler!FairSpec` says that the informer catches up with every job, that the
delay of a failed request ends, that the head of the queue is taken by some
worker, and that a worker in a call gets on. The queue is first in, first out,
so every request has its turn. Users stop changing jobs after `MaxChanges` and
faults after `MaxFaults`, which is the premise of `PickedUp`: once users leave the
jobs alone. Nothing is assumed of executors.

## The proofs

Every safety property that a passing run checks is a theorem as well, and so are
both refinements and the other action properties. The theorems assume what the
modules assume of their constants, and nothing else unless it is said below.

| Module | Theorem | States |
|---|---|---|
| `ChaosRunProofs` | `Invariance` | `Spec => []IInv` |
| | `TypeCorrect` | `TypeOK` |
| | `RunsOnce` | `AtMostOneRun` |
| | `RefusedIsInert` | `RejectedNeverRuns` |
| | `FailureIsFinal` | `AckedFailureIsFinal` |
| | `StagesDoNotOverlap` | `StageBarrier` |
| | `SuccessIsLast` | `SuccessMeansFinished` |
| | `StatusIsOwn` | `OwnStatus` |
| | `VerdictsAreFinal` | `VerdictIsFinal` |
| | `SnapshotIsLedger` | `LedgerSpec`: `ChaosRun` implements `SnapshotLedger` |
| `ChaosRunRecordProofs` | `QuietInvariance` | `IInv /\ QuietInv`, if `~ApiMayFail` |
| | `RecordIsExact` | `StatusRecorded`, if `~ApiMayFail` |
| | `FailureReachesJob` | `FailedStepFailsJob`, if `~ApiMayFail` and `NoBareNames` |
| `ReconcilerProofs` | `Invariance` | `Spec => []IInv` |
| | `TypeCorrect` | `TypeOK` |
| | `RunsOncePerName` | `OneRunPerName` |
| | `ReportsToOwnSnapshot` | `ExecutorsOwnSnapshots` |
| | `FailuresStayHome` | `FailureIsOwn` |
| | `RequestsAreKept` | `NothingForgotten` |
| | `ClaimsAreKept` | `ClaimsSpec`: `Reconciler` implements `SnapshotClaims` |
| `StepRunnerProofs` | `Invariance` | `Spec => []IInv` |
| | `TypeCorrect` | `TypeOK` |
| | `DeletionIsOwn` | `OnlyOwnJobsDie` |
| | `SuccessEarned` | `SuccessIsEarned` |
| | `CleanupComplete` | `VerdictCleansUp` |
| | `LifecycleFollowed` | `FollowsLifecycle` |
| `TargetJobsProofs` | `LookUpKeepsIPv4` | what `LookUpHost` returns |
| | `Invariance` | `Spec => []IInv` |
| | `SettingsAreKept` | `SettingsReachJobs` |
| | `TargetsServed` | `TargetsAreServed` |
| | `ContainersFit` | `ContainerFits` |
| | `HostsCovered` | `HostsAreCovered`, with the limit it states |
| `FilterTargetPodsProofs` | `LoopEnumerates` | what the loop over the pods collects |
| | `ShareExact` | `ShareIsExact` |
| | `FirstPodsFirst` | `PodsComeFirst` |

None of the larger properties is inductive. What follows says, module by module,
for which constants the theorems hold and which invariant carries them. Each is
checked by TLC first: `IInv` of `ChaosRun` in `parallel`, `QuietInv` in `staged`,
and the others in `names`, `generations` and `targets`. The proof that a step
preserves it has a lemma for each part and, in each, a step for each action.

### The run of a job

For any number of steps and stages, any set of names and types, and whether
calls fail or not. Assumed: the stages of the steps are numbered in order,
`ApiMayFail` is a Boolean, and `None` is not a snapshot.

`AckedFailureIsFinal` speaks of the snapshot, but what could break it is a thread
that writes back a copy it took before the failure. `IInv` therefore adds

- `CopiesAreHonest`: a copy with the version of the object equals the object,
  so that an update which meets no conflict changes the object as it changed
  the copy. This is what makes `statusCheck` on a copy sound, and the refinement
  of `SnapshotLedger` rests on it;
- `StatusPublished`: the job has a status before anyone but `InitSnapshot` has a
  copy, so no update moves a job that has none;
- `FailureSticks`: a copy that shows a failed job is taken from a failed job;
- `LaunchOrder`: between the creation of the snapshot and the launch the
  reconciler is past `queued`, and only one that created the snapshot gets there;
- `StagesInOrder`: the runners of stages behind the executor have returned, and
  those of stages before it have not begun;
- `OwnStatus`, which is a property as well: with distinct names, the entry a
  runner updates is its own.

The refinement theorem shows that every action leaves `Record` alone or is one
step of the ledger. `VerdictsAreFinal` needs all of it: an entry could be
overwritten through an outdated copy, by a step of the same name, or by its own
runner, and neither the snapshot nor a verdict may go when the operator restarts.

`RecordIsExact` and `FailureReachesJob` are about a step that has its stage to
itself. They are false if calls may fail, since nobody looks at the results, and
`FailureReachesJob` also if a type reports under the bare name of the job, which is
the run `barename`. Hence their hypotheses; `NoBareNames` says that no type of the
instance is one of those, and ten of the twelve types the code knows are not, nor
are unknown ones. `QuietInv` adds

- `LoneCopies`: the copy such a runner holds equals the object, because the
  executor waits and all other runners have returned or not begun, which is what
  `StagesInOrder` says, so that its update meets no conflict;
- `FirstStageWaits`: the executor, which also has a copy when it reports the
  job as running, has begun no stage by then;
- `LoneEntries`: the entry of the step is what its runner reported last, at every
  place of its life, so that each of its updates passes `statusCheck`.

### The controller across jobs

For any set of jobs, any number of workers, changes and faults, and whatever bare
names denote. Assumed: `BareName` gives each name a snapshot or `None`, the bounds
are natural numbers, and `None` is none of the objects.

The properties speak of snapshots and launches, but they rest on what workers are
about to do. `IInv` adds

- `ClaimsInHand`: a worker between the creation of a snapshot and the launch has
  created it for the job it has in hand, nobody has launched it, and no other
  worker is there for the same name. A worker gets there only by a creation that
  succeeded, and no snapshot is ever deleted;
- `LaunchesCounted`: a launch leaves a snapshot behind, so that nobody can claim
  the name again;
- `RequestsInHand`, which strengthens `NothingForgotten`: the request of a
  generation without a snapshot waits, or its worker will fail and try again, will
  find it marked as dirty, has yet to get the job, or has got just this generation;
- `GenerationsCounted` and `KeysKept`, for the types and for `Notice`, whose
  dropped event is one of an equal generation and so of the same snapshot.

In `ClaimsAreKept` a step that creates no snapshot and starts no executor can only
end claims (`GivesUp`); creation and launch are the two others.

### The runners and the cluster

For any number of runs with labels of their own, of any kinds, any targets and
suffixes, whether calls fail or not, watches close or the operator dies. Assumed:
two runs differ in generation, step or job (`LabelsAssumption`). For the runs of
one name that is `OneRunPerName`, which `Reconciler` proves, and that steps of a
job have different names, which is `PreCheck`'s doing. Runs and suffixes are
finite (`FiniteAssumption`), for the permutations a new watch starts with.

What a runner will report was decided long before, by the event it received, and
what a cleanup deletes by the list it got. `IInv` adds

- `EndsAreTrue`: an end that shows anywhere, in a pod, in an event that is still
  on its way, or in what a runner has seen, is one a pod of this very run came to.
  A watch starts with the pods of its own labels, and `LabelsAssumption` makes
  them its own;
- `PodsHaveJobs`: a pod goes before its Job, so that a name that is used again
  does not come with the pod of its predecessor;
- `SeenFits`: what a runner has seen fits its place; it has seen nothing before the
  loop is over;
- `LateDeletesLast`: after a timeout nothing is deleted before the failure has been
  reported, which keeps the cleanup of `VerdictCleansUp` apart from the reports;
- `CleanupCovers`: a cleanup has before it exactly those of its own Jobs that are
  not being deleted, so that at its end all are.

`LifecycleFollowed` is the link to `ChaosRun`: with it, what is proved of all runners
that keep to `StepLifecycle` holds for these.

### From the pods to the Jobs

For any list of pods and names, of any length, any percentage and any room behind
the list; then for any manifests, files, pods, hosts and answers of the DNS.
Assumed: settings are lists (`FilesAssumption`, `TargetAssumption`), every pod has a
container, and every manifest is of a type that has a runner.

`LoopEnumerates` is by induction over the list of pods: the loop has collected, in
order and each once, the eligible ones among those it has seen. `ShareExact` follows by
the arithmetic of `Quotient`, and from the room `append` leaves being at least the
length. `FirstPodsFirst` holds for all percentages, those above 100 included.
`LookUpKeepsIPv4` is the same kind of induction, over the addresses of an answer.

`IInv` of `TargetJobs` says what is true of the one map between two Jobs:
`StepIsKept`, the map still has what the user asked for; `TargetIsSet`, it names the
next pod, and the container of the first one only as long as the pods are alike;
`ListGrows`, what is found for the next Job is `Covered` by it, and it is empty only if
nothing was found before, which is why addresses run together at most once; `Progress`, there
are as many Jobs as pods the loop is done with. A Job is a copy of the map, so each of
the four properties of Jobs follows when one is added.

### Induction without operators

The library states induction for an operator, which no prover at hand can
instantiate. `SetInduction` states it for a set, and recursion for a function that
gives the next value: `InductionUpTo` from the fact that a set of numbers has a
least element, `RecursionUpTo` from that. The loops of the code are recursive
functions here, and these two lemmas are enough for them.

### Only model-checked

The liveness properties `RunEnds`, `RunnerReturns`, `EndIsSeen` and `PickedUp`:
fairness is out of TLAPS's reach. And, of course, the five runs that end in a
counterexample.

## Not modelled

- The pod templates of the Jobs beyond node, settings, image and account, and
  the chaos itself, which runs in images this repository does not contain.
- Embedded defaults that cannot be parsed, which would end the operator at its
  first job. (A `Config` map that is missing would too, but the schema of the
  resource requires one.)
- Percentages beyond the range of `int`.
- Which of the two conditions of `PreCheck` is met first, and `FailedReason`: they
  decide only the text.
- Lists and relists of the informer beyond what `Notice` sees of them.
- Environment variables, logging, generated code, manifests, the start of the
  process, and the test bootstrap, which contains no test.

## Plan

In the order of what matters most:

1. Done: the run of a job (`ChaosRun`, `SnapshotLedger`), the controller across
   jobs (`Reconciler`, `SnapshotClaims`), the runner (`StepRunner`,
   `StepLifecycle`), the configuration and the Jobs of a step (`StepConfig`,
   `TargetJobs`), target selection (`FilterTargetPods`).
2. Done: proofs of the safety properties of all of them, and of both refinements.
3. The abstract specifications by themselves: of `SnapshotLedger`, that a failed
   job stays failed and a verdict final; of `SnapshotClaims`, that a name is
   launched once. With the refinements they hold for what implements these.
4. The joints between the modules: that the pods `FilterTargetPods` may return are
   those `TargetJobs` starts from, as a lemma about both, and that the moves of
   `ChaosRun`'s runners are those of the graph.
5. `FailedStepFailsJob` when one of several parallel steps fails: under which
   schedules the failure of the job is certain.
