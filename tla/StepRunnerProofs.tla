--------------------------- MODULE StepRunnerProofs ---------------------------
(***************************************************************************)
(* Proofs about StepRunner, for any number of runners, targets and         *)
(* suffixes, whether calls fail or not.  IInv of StepRunner is inductive;  *)
(* the invariants the runs check follow from it, and every step follows    *)
(* the graph of StepLifecycle that ChaosRun builds on.                     *)
(***************************************************************************)
EXTENDS StepRunner, FiniteSetTheorems, TLAPS

\* A selector matches what its own run labelled, and nothing else.
LEMMA SelectsOwn ==
  ASSUME NEW r \in Runs, NEW q \in Runs
  PROVE  Selects(r, q) <=> r = q
  BY LabelsAssumption DEF Selects

LEMMA JobNameType ==
  ASSUME NEW r \in Runs, NEW target
  PROVE  JobName(r, target) \subseteq JobNames
  BY DEF JobName, JobNames, Suffixes

\* There are finitely many names, so that the pods of a run can be counted.
LEMMA NamesFinite == IsFiniteSet(JobNames)
  <1> DEFINE steps == {LabelsOf[r].step : r \in Runs}
  <1> DEFINE f == [r \in Runs |-> LabelsOf[r].step]
  <1>1. f \in Surjection(Runs, steps)
    BY DEF Surjection
  <1>2. IsFiniteSet(steps)
    BY <1>1, FS_Surjection, FiniteAssumption
  <1>3. IsFiniteSet(Suffixes)
    BY FS_AddElement, FiniteAssumption DEF Suffixes
  <1> QED
    BY <1>2, <1>3, FS_Product DEF JobNames

LEMMA WatchedCount ==
  ASSUME NEW r \in Runs
  PROVE  Cardinality(Watched(r)) \in Nat
  BY NamesFinite, FS_Subset, FS_CardinalityType DEF Watched, Listed

\* Types of a watch, whatever happens to its events.
LEMMA WatchTypes ==
  /\ Closed \in WatchState
  /\ \A es \in Seq(Phases), b \in BOOLEAN : [open |-> b, events |-> es] \in WatchState
  BY DEF WatchState, Closed

LEMMA EventTypes ==
  ASSUME NEW w \in WatchState
  PROVE  /\ w.events \in Seq(Phases)
         /\ w.open \in BOOLEAN
         /\ w.events # <<>> => /\ Head(w.events) \in Phases
                              /\ Tail(w.events) \in Seq(Phases)
         /\ \A k \in 0 .. Len(w.events) : SubSeq(w.events, 1, k) \in Seq(Phases)
  <1> DEFINE es == w.events
  <1>1. es \in Seq(Phases) /\ w.open \in BOOLEAN
    BY DEF WatchState
  <1> HIDE DEF es
  <1>2. es # <<>> => Head(es) \in Phases /\ Tail(es) \in Seq(Phases)
    BY <1>1
  <1>3. \A k \in 0 .. Len(es) : SubSeq(es, 1, k) \in Seq(Phases)
    BY <1>1
  <1> QED
    BY <1>1, <1>2, <1>3 DEF es

LEMMA EventsReplaced ==
  ASSUME NEW w \in WatchState, NEW es \in Seq(Phases)
  PROVE  /\ [w EXCEPT !.events = es] \in WatchState
         /\ [w EXCEPT !.events = es].events = es
         /\ [w EXCEPT !.events = es].open = w.open
  BY DEF WatchState
\* What the cluster tells the watches: the events of the run whose pod it is
\* grow by one, and those of every other run stay.
LEMMA NotifyType ==
  ASSUME TypeOK, NEW n, NEW event \in Phases, Notify(n, event)
  PROVE  watch' \in [Runs -> WatchState]
  <1>1. ASSUME NEW r \in Runs
        PROVE  /\ watch[r] \in WatchState
               /\ [watch[r] EXCEPT !.events = Append(@, event)] \in WatchState
    <2>1. watch[r] \in WatchState
      BY DEF TypeOK
    <2>2. Append(watch[r].events, event) \in Seq(Phases)
      BY <2>1, EventTypes
    <2> QED
      BY <2>1, <2>2, EventsReplaced
  <1> QED
    BY <1>1 DEF Notify

\* A watch starts with what the pods of its run are in.
LEMMA FirstEventsType ==
  ASSUME TypeOK, NEW r \in Runs,
         NEW order \in [1 .. Cardinality(Watched(r)) -> Watched(r)]
  PROVE  [i \in DOMAIN order |-> phase[order[i]]] \in Seq(Phases)
  <1> DEFINE k == Cardinality(Watched(r))
  <1>1. k \in Nat
    BY WatchedCount
  <1>2. \A i \in 1 .. k : phase[order[i]] \in Phases
    BY DEF Watched, Listed, TypeOK
  <1>3. DOMAIN order = 1 .. k
    OBVIOUS
  <1> HIDE DEF k
  <1> QED
    BY <1>1, <1>2, <1>3

\* What becomes of an event: a pod that goes on is dropped, and the loop goes
\* on, unless the time is up; the end of a pod is what the runner has seen.
LEMMA EventHandled ==
  ASSUME TypeOK, NEW r \in Runs, HandleEvent(r)
  PROVE  LET event == Head(watch[r].events)
             rest == [watch[r] EXCEPT !.events = Tail(@)]
         IN  /\ watch[r].events # <<>> /\ event \in Phases /\ rest \in WatchState
             /\ \/ /\ event \notin Terminal
                   /\ seen' = [seen EXCEPT ![r] = ""]
                   /\ watch' = [watch EXCEPT ![r] = rest]
                   /\ pc' = [pc EXCEPT ![r] = "wait"]
                \/ /\ event \notin Terminal
                   /\ seen' = [seen EXCEPT ![r] = "late"]
                   /\ watch' = [watch EXCEPT ![r] = Closed]
                   /\ pc' = [pc EXCEPT ![r] = "stepFailed"]
                \/ /\ event \in Terminal
                   /\ seen' = [seen EXCEPT ![r] = event]
                   /\ watch' = [watch EXCEPT ![r] = Closed]
                   /\ pc' = [pc EXCEPT ![r] = "cleanList"]
  <1> DEFINE event == Head(watch[r].events)
  <1> DEFINE rest == [watch[r] EXCEPT !.events = Tail(@)]
  <1>1. watch[r] \in WatchState /\ watch[r].events # <<>>
    BY DEF HandleEvent, TypeOK
  <1>2. event \in Phases /\ rest \in WatchState
    BY <1>1, EventTypes, EventsReplaced
  <1>3. CASE event \in Terminal
    <2>1. event # "" /\ event # "late"
      BY <1>3 DEF Terminal
    <2> QED
      BY <1>1, <1>2, <1>3, <2>1 DEF HandleEvent, Goto
  <1>4. CASE event \notin Terminal /\ late[r]
    BY <1>1, <1>2, <1>4 DEF HandleEvent, Goto
  <1>5. CASE event \notin Terminal /\ ~late[r]
    BY <1>1, <1>2, <1>5 DEF HandleEvent, Goto
  <1> QED
    BY <1>3, <1>4, <1>5

LEMMA EventSeen ==
  ASSUME TypeOK, NEW r \in Runs, HandleEvent(r)
  PROVE  LET event == Head(watch[r].events)
         IN  /\ pc[r] = "wait" /\ watch[r].events # <<>>
             /\ \A q \in Runs : q # r => pc'[q] = pc[q] /\ seen'[q] = seen[q]
             /\ \/ pc'[r] = "wait" /\ seen'[r] = ""
                \/ pc'[r] = "stepFailed" /\ seen'[r] = "late"
                \/ pc'[r] = "cleanList" /\ seen'[r] = event /\ event \in Terminal
  <1> DEFINE event == Head(watch[r].events)
  <1>1. pc[r] = "wait" /\ watch[r].events # <<>>
    BY DEF HandleEvent
  <1>2. \/ /\ seen' = [seen EXCEPT ![r] = ""]
           /\ pc' = [pc EXCEPT ![r] = "wait"]
        \/ /\ seen' = [seen EXCEPT ![r] = "late"]
           /\ pc' = [pc EXCEPT ![r] = "stepFailed"]
        \/ /\ event \in Terminal
           /\ seen' = [seen EXCEPT ![r] = event]
           /\ pc' = [pc EXCEPT ![r] = "cleanList"]
    BY EventHandled
  <1> HIDE DEF event
  <1>3. \A q \in Runs : q # r => pc'[q] = pc[q] /\ seen'[q] = seen[q]
    BY <1>2 DEF TypeOK
  <1>4. \/ pc'[r] = "wait" /\ seen'[r] = ""
        \/ pc'[r] = "stepFailed" /\ seen'[r] = "late"
        \/ pc'[r] = "cleanList" /\ seen'[r] = event /\ event \in Terminal
    BY <1>2 DEF TypeOK
  <1> QED
    BY <1>1, <1>3, <1>4 DEF event

-----------------------------------------------------------------------------
(* The types.                                                              *)

LEMMA TypeInit == Init => TypeOK
  BY WatchTypes DEF Init, TypeOK, RunnerLabels

LEMMA RunnerTypes ==
  ASSUME IInv, NEW r \in Runs, Runner(r)
  PROVE  TypeOK'
  <1> USE DEF IInv, TypeOK, runVars, clusterVars, Goto, RunnerLabels, StepLabels, Returned
  <1>1. CASE Start(r)
    BY <1>1 DEF Start
  <1>2. CASE Select(r) \/ SelectFails(r)
    <2>1. PICK pods \in SUBSET Targets :
            \/ todo' = [todo EXCEPT ![r] = pods]
            \/ todo' = todo
      BY <1>2 DEF Select, SelectFails
    <2> QED
      BY <1>2, <2>1 DEF Select, SelectFails
  <1>3. CASE CreateJob(r)
    <2>1. PICK target \in todo[r], n \in JobNames :
            /\ owner' = [owner EXCEPT ![n] = r]
            /\ todo' = [todo EXCEPT ![r] = @ \ {target}]
            /\ Goto(r, IF todo[r] = {target} THEN "stepRunning" ELSE "create")
      BY <1>3, JobNameType DEF CreateJob
    <2>2. owner' \in [JobNames -> Runs \cup {None}]
      BY <2>1
    <2> QED
      BY <1>3, <2>1, <2>2 DEF CreateJob
  <1>4. CASE CreateJobFails(r)
    BY <1>4, JobNameType DEF CreateJobFails
  <1>5. CASE Report(r)
    BY <1>5 DEF Report, AfterReport
  <1>6. CASE OpenWatch(r)
    <2>1. PICK order \in [1 .. Cardinality(Watched(r)) -> Watched(r)] :
            watch' = [watch EXCEPT ![r] =
                        [open |-> TRUE, events |-> [i \in DOMAIN order |-> phase[order[i]]]]]
      BY <1>6 DEF OpenWatch
    <2>2. [open |-> TRUE, events |-> [i \in DOMAIN order |-> phase[order[i]]]] \in WatchState
      BY FirstEventsType, WatchTypes
    <2>3. watch' \in [Runs -> WatchState]
      BY <2>1, <2>2
    <2> QED
      BY <1>6, <2>3 DEF OpenWatch
  <1>7. CASE OpenWatchFails(r)
    BY <1>7 DEF OpenWatchFails
  <1>8. CASE HandleEvent(r)
    BY <1>8, EventHandled, WatchTypes DEF HandleEvent
  <1>9. CASE LoopEnds(r)
    BY <1>9 DEF LoopEnds
  <1>10. CASE ListJobs(r)
    BY <1>10 DEF ListJobs, Listed, Cleaned
  <1>11. CASE DeleteJob(r)
    <2>1. PICK n \in todo[r] :
            /\ dying' = dying \cup {n}
            /\ todo' = [todo EXCEPT ![r] = @ \ {n}]
            /\ Goto(r, IF todo[r] = {n} THEN Cleaned(r) ELSE "cleanDelete")
      BY <1>11 DEF DeleteJob
    <2>2. n \in JobNames
      BY <1>11 DEF DeleteJob, CleanupCovers
    <2> QED
      BY <1>11, <2>1, <2>2 DEF DeleteJob, Cleaned
  <1>12. CASE CleanFails(r)
    <2>1. \A n \in todo[r] : pc[r] = "cleanDelete" => n \in JobNames
      BY DEF CleanupCovers
    <2>2. dying' \subseteq JobNames
      BY <1>12, <2>1 DEF CleanFails
    <2> QED
      BY <1>12, <2>2 DEF CleanFails, CleanFailed
  <1> QED
    BY <1>1, <1>2, <1>3, <1>4, <1>5, <1>6, <1>7, <1>8, <1>9, <1>10, <1>11, <1>12
    DEF Runner, CleanJob

LEMMA ClusterTypes ==
  ASSUME IInv, Cluster
  PROVE  TypeOK'
  <1> USE DEF IInv, TypeOK, runVars, clusterVars
  <1>1. ASSUME NEW n \in JobNames, CreatePod(n)
        PROVE  TypeOK'
    BY <1>1, NotifyType DEF CreatePod, Phases
  <1>2. ASSUME NEW n \in JobNames, PodMoves(n)
        PROVE  TypeOK'
    <2>1. PICK next \in Phases :
            /\ phase' = [phase EXCEPT ![n] = next]
            /\ ended' = IF next \in Terminal THEN ended \cup {<<owner[n], next>>} ELSE ended
            /\ Notify(n, next)
      BY <1>2 DEF PodMoves
    <2>2. owner[n] \in Runs
      BY <1>2 DEF PodMoves, PodsHaveJobs, Exists
    <2>3. watch' \in [Runs -> WatchState]
      BY <2>1, NotifyType
    <2>4. ended' \subseteq Runs \X Terminal
      <3>1. ended \subseteq Runs \X Terminal
        OBVIOUS
      <3>2. CASE next \in Terminal
        <4>1. <<owner[n], next>> \in Runs \X Terminal
          BY <2>2, <3>2
        <4>2. ended' = ended \cup {<<owner[n], next>>}
          BY <2>1, <3>2
        <4> QED
          BY <3>1, <4>1, <4>2
      <3>3. CASE next \notin Terminal
        BY <2>1, <3>1, <3>3
      <3> QED
        BY <3>2, <3>3
    <2> QED
      BY <1>2, <2>1, <2>2, <2>3, <2>4 DEF PodMoves
  <1>3. ASSUME NEW n \in JobNames, PodDeleted(n) \/ PodTouched(n)
        PROVE  TypeOK'
    BY <1>3, NotifyType DEF PodDeleted, PodTouched
  <1>4. ASSUME NEW n \in JobNames, CollectJob(n)
        PROVE  TypeOK'
    BY <1>4 DEF CollectJob
  <1>5. ASSUME NEW r \in Runs, WatchCloses(r)
        PROVE  TypeOK'
    <2>1. PICK k \in 0 .. Len(watch[r].events) :
            watch' = [watch EXCEPT ![r] =
                        [open |-> FALSE, events |-> SubSeq(watch[r].events, 1, k)]]
      BY <1>5 DEF WatchCloses
    <2>2. SubSeq(watch[r].events, 1, k) \in Seq(Phases)
      BY EventTypes
    <2>3. watch' \in [Runs -> WatchState]
      BY <2>1, <2>2, WatchTypes
    <2> QED
      BY <1>5, <2>3 DEF WatchCloses
  <1>6. ASSUME NEW r \in Runs, Deadline(r)
        PROVE  TypeOK'
    BY <1>6 DEF Deadline
  <1> QED
    BY <1>1, <1>2, <1>3, <1>4, <1>5, <1>6 DEF Cluster

LEMMA TypeStep == IInv /\ [Next]_vars => TypeOK'
  <1> SUFFICES ASSUME IInv, [Next]_vars PROVE TypeOK'
    OBVIOUS
  <1>1. CASE Crash
    BY <1>1, WatchTypes DEF Crash, IInv, TypeOK, clusterVars, RunnerLabels
  <1>2. CASE UNCHANGED vars
    BY <1>2 DEF IInv, TypeOK, vars, runVars, clusterVars
  <1> QED
    BY <1>1, <1>2, RunnerTypes, ClusterTypes DEF Next

-----------------------------------------------------------------------------
(* What a step may do to a runner, and to the Jobs.                        *)

\* Where a runner may go, and what it may see on the way.
Moves(r) ==
  \/ pc'[r] = pc[r] /\ seen'[r] = seen[r]
  \/ /\ seen'[r] = seen[r]
     /\ \/ pc[r] = "idle" /\ pc'[r] \in {"select", "create"}
        \/ pc[r] = "select" /\ pc'[r] \in {"create", "createFailed"}
        \/ pc[r] = "create" /\ pc'[r] \in {"create", "stepRunning", "createFailed"}
        \/ /\ pc[r] \in StepLabels \cup {"failJob", "failJobCreate"}
           /\ ~ (pc[r] = "failJob" /\ seen[r] = "late")
           /\ pc'[r] = AfterReport(pc[r])
        \/ pc[r] = "failJob" /\ seen[r] = "late" /\ pc'[r] = "cleanList"
        \/ pc[r] = "openWatch" /\ pc'[r] = "wait"
        \/ pc[r] = "wait" /\ pc'[r] = "abandoned"
        \/ pc[r] = "cleanList" /\ pc'[r] \in {"cleanDelete", Cleaned(r)}
        \/ pc[r] = "cleanDelete" /\ pc'[r] \in {"cleanDelete", Cleaned(r)}
        \/ pc[r] \notin Returned \cup {"idle"} /\ pc'[r] = "dead"
  \/ pc[r] = "openWatch" /\ pc'[r] = "stepFailed" /\ seen'[r] = "error"
  \/ /\ pc[r] = "wait"
     /\ \/ pc'[r] = "wait" /\ seen'[r] = ""
        \/ pc'[r] = "stepFailed" /\ seen'[r] = "late"
        \/ /\ pc'[r] = "cleanList"
           /\ watch[r].events # <<>>
           /\ seen'[r] = Head(watch[r].events) /\ seen'[r] \in Terminal
  \/ pc[r] \in {"cleanList", "cleanDelete"} /\ pc'[r] = CleanFailed(r) /\ seen'[r] = "error"

LEMMA RunnerMoves ==
  ASSUME TypeOK, NEW r \in Runs, Runner(r), NEW q \in Runs
  PROVE  Moves(q)
  <1> SUFFICES /\ Moves(r)
               /\ q # r => pc'[q] = pc[q] /\ seen'[q] = seen[q]
    <2>1. CASE q = r
      BY <2>1
    <2>2. CASE q # r
      BY <2>2 DEF Moves
    <2> QED
      BY <2>1, <2>2
  <1> USE DEF TypeOK, Goto
  <1>1. CASE Start(r)
    BY <1>1 DEF Start, Moves
  <1>2. CASE Select(r) \/ SelectFails(r)
    BY <1>2 DEF Select, SelectFails, Moves
  <1>3. CASE CreateJob(r)
    <2>1. /\ pc[r] = "create" /\ seen' = seen
          /\ Goto(r, "stepRunning") \/ Goto(r, "create")
      BY <1>3 DEF CreateJob
    <2> QED
      BY <2>1 DEF Moves
  <1>4. CASE CreateJobFails(r)
    BY <1>4 DEF CreateJobFails, Moves
  <1>5. CASE Report(r)
    BY <1>5 DEF Report, Moves
  <1>6. CASE OpenWatch(r)
    BY <1>6 DEF OpenWatch, Moves
  <1>7. CASE OpenWatchFails(r)
    BY <1>7 DEF OpenWatchFails, Moves
  <1>8. CASE HandleEvent(r)
    <2>1. Moves(r)
      BY <1>8, EventSeen DEF Moves
    <2> QED
      BY <1>8, <2>1, EventSeen
  <1>9. CASE LoopEnds(r)
    BY <1>9 DEF LoopEnds, Moves
  <1>10. CASE ListJobs(r)
    BY <1>10 DEF ListJobs, Moves
  <1>11. CASE DeleteJob(r)
    <2>1. /\ pc[r] = "cleanDelete" /\ seen' = seen
          /\ Goto(r, Cleaned(r)) \/ Goto(r, "cleanDelete")
      BY <1>11 DEF DeleteJob
    <2> QED
      BY <2>1 DEF Moves
  <1>12. CASE CleanFails(r)
    <2>1. /\ pc[r] \in {"cleanList", "cleanDelete"}
          /\ Goto(r, CleanFailed(r)) /\ seen' = [seen EXCEPT ![r] = "error"]
      BY <1>12 DEF CleanFails
    <2> QED
      BY <2>1 DEF Moves
  <1> QED
    BY <1>1, <1>2, <1>3, <1>4, <1>5, <1>6, <1>7, <1>8, <1>9, <1>10, <1>11, <1>12
    DEF Runner, CleanJob

LEMMA EveryoneMoves ==
  ASSUME TypeOK, [Next]_vars, NEW q \in Runs
  PROVE  Moves(q)
  <1>1. CASE Cluster
    <2>1. pc' = pc /\ seen' = seen
      BY <1>1 DEF Cluster, CreatePod, PodMoves, PodTouched, PodDeleted, CollectJob, WatchCloses,
                  Deadline, runVars
    <2> QED
      BY <2>1 DEF Moves
  <1>2. CASE Crash
    BY <1>2 DEF Crash, Moves, TypeOK
  <1>3. CASE UNCHANGED vars
    BY <1>3 DEF Moves, vars, runVars
  <1> QED
    BY <1>1, <1>2, <1>3, RunnerMoves DEF Next

\* An end that is on record stays there.
LEMMA EndedGrows ==
  ASSUME [Next]_vars
  PROVE  ended \subseteq ended'
  <1>1. ASSUME NEW r \in Runs, Runner(r)
        PROVE  ended' = ended
    BY <1>1 DEF Runner, CleanJob, Start, Select, SelectFails, CreateJob, CreateJobFails,
                Report, OpenWatch, OpenWatchFails, HandleEvent, LoopEnds, ListJobs,
                DeleteJob, CleanFails, clusterVars
  <1>2. CASE Cluster
    BY <1>2 DEF Cluster, CreatePod, PodMoves, PodTouched, PodDeleted, CollectJob, WatchCloses,
                Deadline, clusterVars
  <1>3. CASE Crash
    BY <1>3 DEF Crash, clusterVars
  <1>4. CASE UNCHANGED vars
    BY <1>4 DEF vars, clusterVars
  <1> QED
    BY <1>1, <1>2, <1>3, <1>4 DEF Next

\* A Job has the same owner until it goes, being deleted and without a pod; a
\* new one is owned by a run that creates Jobs.
LEMMA OwnerChanges ==
  ASSUME TypeOK, [Next]_vars, NEW n \in JobNames
  PROVE  \/ owner'[n] = owner[n]
         \/ /\ owner[n] = None /\ owner'[n] \in Runs /\ pc[owner'[n]] = "create"
            /\ phase' = phase /\ dying' = dying
         \/ /\ n \in dying /\ n \notin dying' /\ owner'[n] = None
            /\ phase' = phase /\ phase[n] = ""
  <1>1. ASSUME NEW r \in Runs, CreateJob(r) \/ CreateJobFails(r)
        PROVE  \/ owner'[n] = owner[n]
               \/ /\ owner[n] = None /\ owner'[n] \in Runs /\ pc[owner'[n]] = "create"
                  /\ phase' = phase /\ dying' = dying
    <2>1. \/ owner' = owner
          \/ \E m \in JobNames : ~Exists(m) /\ owner' = [owner EXCEPT ![m] = r]
      BY <1>1, JobNameType DEF CreateJob, CreateJobFails
    <2>2. pc[r] = "create" /\ phase' = phase /\ dying' = dying
      BY <1>1 DEF CreateJob, CreateJobFails
    <2> QED
      BY <2>1, <2>2 DEF Exists, TypeOK
  <1>2. ASSUME NEW r \in Runs, Runner(r), ~CreateJob(r), ~CreateJobFails(r)
        PROVE  owner' = owner
    BY <1>2 DEF Runner, CleanJob, Start, Select, SelectFails, Report, OpenWatch,
                OpenWatchFails, HandleEvent, LoopEnds, ListJobs, DeleteJob, CleanFails,
                clusterVars
  <1>3. ASSUME NEW m \in JobNames, CollectJob(m)
        PROVE  \/ owner'[n] = owner[n]
               \/ /\ n \in dying /\ n \notin dying' /\ owner'[n] = None
                  /\ phase' = phase /\ phase[n] = ""
    BY <1>3 DEF CollectJob, TypeOK
  <1>4. ASSUME NEW m \in JobNames, CreatePod(m) \/ PodMoves(m) \/ PodTouched(m) \/ PodDeleted(m)
        PROVE  owner' = owner
    BY <1>4 DEF CreatePod, PodMoves, PodTouched, PodDeleted, clusterVars
  <1>5. ASSUME NEW r \in Runs, WatchCloses(r) \/ Deadline(r)
        PROVE  owner' = owner
    BY <1>5 DEF WatchCloses, Deadline, clusterVars
  <1>6. CASE Crash \/ UNCHANGED vars
    BY <1>6 DEF Crash, vars, clusterVars
  <1> QED
    BY <1>1, <1>2, <1>3, <1>4, <1>5, <1>6 DEF Next, Cluster

\* A pod appears, and moves, only as long as its Job is there; where it ends is
\* put on record.
LEMMA PhaseChanges ==
  ASSUME TypeOK, PodsHaveJobs, [Next]_vars, NEW n \in JobNames
  PROVE  \/ phase'[n] = phase[n]
         \/ phase'[n] = ""
         \/ /\ Exists(n) /\ owner' = owner
            /\ phase'[n] \in Terminal => <<owner[n], phase'[n]>> \in ended'
  <1>1. ASSUME NEW m \in JobNames, PodMoves(m)
        PROVE  \/ phase'[n] = phase[n]
               \/ /\ Exists(n) /\ owner' = owner
                  /\ phase'[n] \in Terminal => <<owner[n], phase'[n]>> \in ended'
    <2>1. PICK next \in Phases :
            /\ phase' = [phase EXCEPT ![m] = next]
            /\ ended' = IF next \in Terminal THEN ended \cup {<<owner[m], next>>} ELSE ended
      BY <1>1 DEF PodMoves
    <2>2. owner' = owner /\ Exists(m)
      BY <1>1 DEF PodMoves, PodsHaveJobs
    <2>3. next \in Terminal => <<owner[m], next>> \in ended'
      BY <2>1
    <2> QED
      BY <2>1, <2>2, <2>3 DEF TypeOK
  <1>2. ASSUME NEW m \in JobNames, CreatePod(m) \/ PodDeleted(m)
        PROVE  \/ phase'[n] = phase[n]
               \/ phase'[n] = ""
               \/ Exists(n) /\ owner' = owner /\ phase'[n] = "Pending"
    BY <1>2 DEF CreatePod, PodDeleted, TypeOK
  <1>3. ASSUME NEW m \in JobNames, CollectJob(m) \/ PodTouched(m)
        PROVE  phase' = phase
    BY <1>3 DEF CollectJob, PodTouched, clusterVars
  <1>4. ASSUME NEW r \in Runs, WatchCloses(r) \/ Deadline(r) \/ Runner(r)
        PROVE  phase' = phase
    BY <1>4 DEF WatchCloses, Deadline, Runner, CleanJob, Start, Select, SelectFails,
                CreateJob, CreateJobFails, Report, OpenWatch, OpenWatchFails, HandleEvent,
                LoopEnds, ListJobs, DeleteJob, CleanFails, clusterVars
  <1>5. CASE Crash \/ UNCHANGED vars
    BY <1>5 DEF Crash, vars, clusterVars
  <1> QED
    BY <1>1, <1>2, <1>3, <1>4, <1>5 DEF Next, Cluster, Terminal

-----------------------------------------------------------------------------
(* The parts of IInv, one by one.                                          *)

LEMMA PodsStep == IInv /\ [Next]_vars => PodsHaveJobs'
  <1> SUFFICES ASSUME IInv, [Next]_vars, NEW n \in JobNames, phase'[n] # ""
               PROVE  owner'[n] # None
    BY DEF PodsHaveJobs, Exists
  <1>1. phase[n] # "" => owner[n] # None
    BY DEF IInv, PodsHaveJobs, Exists
  <1>2. \/ phase'[n] = phase[n]
        \/ owner[n] # None /\ owner' = owner
    BY PhaseChanges DEF IInv, Exists
  <1>3. \/ owner'[n] = owner[n] \/ owner'[n] \in Runs
        \/ phase' = phase /\ phase[n] = ""
    BY OwnerChanges DEF IInv
  <1> QED
    BY <1>1, <1>2, <1>3, NoneAssumption

LEMMA SeenStep == IInv /\ [Next]_vars => SeenFits'
  <1> SUFFICES ASSUME IInv, [Next]_vars, NEW r \in Runs
               PROVE  /\ pc'[r] \in {"idle", "select", "create", "stepRunning",
                                      "createFailed", "failJobCreate", "openWatch", "wait"}
                           => seen'[r] = ""
                      /\ pc'[r] \in {"cleanList", "cleanDelete"}
                           => seen'[r] \in Terminal \cup {"late"}
                      /\ pc'[r] \in {"stepSuccess", "succeeded"} => seen'[r] = "Succeeded"
    BY DEF SeenFits
  <1>1. Moves(r)
    BY EveryoneMoves DEF IInv
  <1> QED
    BY <1>1 DEF Moves, IInv, SeenFits, Cleaned, CleanFailed, AfterReport, StepLabels

\* A terminal phase that comes out of a watch, or goes into one, is on record.
LEMMA WatchesStep ==
  ASSUME IInv, [Next]_vars, NEW r \in Runs, NEW i \in DOMAIN watch'[r].events,
         watch'[r].events[i] \in Terminal
  PROVE  <<r, watch'[r].events[i]>> \in ended'
  <1> DEFINE Known(es) == \A k \in DOMAIN es : es[k] \in Terminal => <<r, es[k]>> \in ended'
  <1>0. /\ watch[r] \in WatchState /\ TypeOK
        /\ Known(watch[r].events)
    BY EndedGrows DEF IInv, EndsAreTrue, TypeOK
  <1> SUFFICES Known(watch'[r].events)
    OBVIOUS
  <1>1. ASSUME NEW q \in Runs, OpenWatch(q)
        PROVE  Known(watch'[r].events)
    <2>1. PICK order \in [1 .. Cardinality(Watched(q)) -> Watched(q)] :
            watch' = [watch EXCEPT ![q] =
                        [open |-> TRUE, events |-> [k \in DOMAIN order |-> phase[order[k]]]]]
      BY <1>1 DEF OpenWatch
    <2>2. ended' = ended
      BY <1>1 DEF OpenWatch, clusterVars
    <2>3. ASSUME NEW n \in Watched(q), phase[n] \in Terminal
          PROVE  <<q, phase[n]>> \in ended'
      <3>1. n \in JobNames /\ owner[n] \in Runs /\ Selects(q, owner[n])
        BY <1>0 DEF Watched, Listed, Exists, TypeOK
      <3> QED
        BY <2>2, <2>3, <3>1, SelectsOwn DEF IInv, EndsAreTrue
    <2>4. CASE q = r
      <3>1. watch'[r].events = [k \in DOMAIN order |-> phase[order[k]]]
        BY <1>0, <2>1, <2>4 DEF TypeOK
      <3>2. \A k \in DOMAIN order : order[k] \in Watched(q)
        OBVIOUS
      <3> QED
        BY <2>3, <2>4, <3>1, <3>2
    <2>5. CASE q # r
      BY <1>0, <2>1, <2>5 DEF TypeOK
    <2> QED
      BY <2>4, <2>5
  <1>2. ASSUME NEW q \in Runs, HandleEvent(q)
        PROVE  Known(watch'[r].events)
    <2> DEFINE rest == [watch[q] EXCEPT !.events = Tail(@)]
    <2>1. /\ watch[q].events # <<>>
          /\ \/ watch' = [watch EXCEPT ![q] = rest]
             \/ watch' = [watch EXCEPT ![q] = Closed]
      BY <1>0, <1>2, EventHandled
    <2>2. q = r => rest.events = Tail(watch[r].events)
      BY <1>0, <2>1, EventTypes, EventsReplaced
    <2> HIDE DEF rest
    <2>3. \/ watch'[r] = watch[r]
          \/ q = r /\ watch'[r] = rest
          \/ watch'[r] = Closed
      BY <1>0, <2>1 DEF TypeOK
    <2>4. Known(<<>>)
      OBVIOUS
    <2>5. q = r => Known(Tail(watch[r].events))
      <3> DEFINE es == watch[r].events
      <3>1. es \in Seq(Phases) /\ Known(es) /\ (q = r => es # <<>>)
        BY <1>0, <2>1, EventTypes
      <3> HIDE DEF es
      <3>2. q = r => \A k \in DOMAIN Tail(es) : k + 1 \in DOMAIN es /\ Tail(es)[k] = es[k + 1]
        BY <3>1
      <3>3. q = r => Known(Tail(es))
        BY <3>1, <3>2
      <3> QED
        BY <3>3 DEF es
    <2> HIDE DEF Known
    <2> QED
      BY <1>0, <2>2, <2>3, <2>4, <2>5 DEF Closed
  <1>3. ASSUME NEW q \in Runs, Runner(q), ~OpenWatch(q), ~HandleEvent(q)
        PROVE  watch' = watch
    BY <1>3 DEF Runner, CleanJob, Start, Select, SelectFails, CreateJob, CreateJobFails,
                Report, OpenWatchFails, LoopEnds, ListJobs, DeleteJob, CleanFails
  <1>4. ASSUME NEW n \in JobNames, NEW event \in Phases, Notify(n, event), owner[n] \in Runs,
               event \in Terminal => <<owner[n], event>> \in ended'
        PROVE  Known(watch'[r].events)
    <2> DEFINE es == watch[r].events
    <2>1. es \in Seq(Phases) /\ Known(es)
      BY <1>0, EventTypes
    <2>2. \/ watch'[r] = watch[r]
          \/ owner[n] = r /\ watch'[r] = [watch[r] EXCEPT !.events = Append(@, event)]
      BY <1>4, SelectsOwn DEF Notify
    <2>3. Append(es, event) \in Seq(Phases)
      BY <2>1
    <2>4. [watch[r] EXCEPT !.events = Append(@, event)].events = Append(es, event)
      BY <1>0, <2>3, EventsReplaced
    <2>5. owner[n] = r => Known(Append(es, event))
      <3> HIDE DEF es
      <3>1. \A k \in DOMAIN Append(es, event) :
              \/ k \in DOMAIN es /\ Append(es, event)[k] = es[k]
              \/ Append(es, event)[k] = event
        BY <2>1
      <3> QED
        BY <1>4, <2>1, <3>1
    <2> HIDE DEF Known
    <2> QED
      BY <2>1, <2>2, <2>4, <2>5
  <1>5. ASSUME NEW n \in JobNames, CreatePod(n) \/ PodMoves(n) \/ PodTouched(n) \/ PodDeleted(n)
        PROVE  Known(watch'[r].events)
    <2>1. Exists(n)
      BY <1>5 DEF CreatePod, PodMoves, PodTouched, PodDeleted, IInv, PodsHaveJobs
    <2>2. owner[n] \in Runs
      BY <1>0, <2>1 DEF Exists, TypeOK
    <2>3. CASE CreatePod(n)
      <3>1. Notify(n, "Pending") /\ "Pending" \in Phases /\ "Pending" \notin Terminal
        BY <2>3 DEF CreatePod, Phases, Terminal
      <3> QED
        BY <1>4, <2>2, <3>1
    <2>4. CASE PodMoves(n)
      <3>1. PICK next \in Phases :
              /\ ended' = IF next \in Terminal THEN ended \cup {<<owner[n], next>>} ELSE ended
              /\ Notify(n, next)
        BY <2>4 DEF PodMoves
      <3>2. next \in Terminal => <<owner[n], next>> \in ended'
        BY <3>1
      <3> QED
        BY <1>4, <2>2, <3>1, <3>2
    <2>5. CASE PodTouched(n) \/ PodDeleted(n)
      <3>1. Notify(n, phase[n]) /\ phase[n] \in Phases /\ ended' = ended
        BY <1>0, <2>5 DEF PodTouched, PodDeleted, TypeOK, clusterVars
      <3>2. phase[n] \in Terminal => <<owner[n], phase[n]>> \in ended'
        BY <3>1 DEF IInv, EndsAreTrue
      <3> QED
        BY <1>4, <2>2, <3>1, <3>2
    <2> QED
      BY <1>5, <2>3, <2>4, <2>5
  <1>6. ASSUME NEW q \in Runs, WatchCloses(q)
        PROVE  Known(watch'[r].events)
    <2> DEFINE es == watch[q].events
    <2>1. PICK k \in 0 .. Len(es) :
            watch' = [watch EXCEPT ![q] = [open |-> FALSE, events |-> SubSeq(es, 1, k)]]
      BY <1>6 DEF WatchCloses
    <2>2. es \in Seq(Phases) /\ (q = r => Known(es))
      BY <1>0, EventTypes DEF TypeOK
    <2> HIDE DEF es
    <2>3. \A m \in DOMAIN SubSeq(es, 1, k) : m \in DOMAIN es /\ SubSeq(es, 1, k)[m] = es[m]
      BY <2>2
    <2>4. q = r => Known(SubSeq(es, 1, k))
      BY <2>2, <2>3
    <2>5. \/ watch'[r] = watch[r]
          \/ q = r /\ watch'[r].events = SubSeq(es, 1, k)
      BY <1>0, <2>1 DEF TypeOK
    <2> HIDE DEF Known
    <2> QED
      BY <1>0, <2>4, <2>5
  <1>7. CASE Crash
    BY <1>7 DEF Crash, Closed
  <1>8. ASSUME \/ \E n \in JobNames : CollectJob(n)
               \/ \E q \in Runs : Deadline(q)
               \/ UNCHANGED vars
        PROVE  watch' = watch
    BY <1>8 DEF CollectJob, Deadline, vars, runVars
  <1> HIDE DEF Known
  <1> QED
    BY <1>0, <1>1, <1>2, <1>3, <1>5, <1>6, <1>7, <1>8 DEF Next, Cluster

LEMMA EndsStep == IInv /\ [Next]_vars => EndsAreTrue'
  <1> SUFFICES ASSUME IInv, [Next]_vars PROVE EndsAreTrue'
    OBVIOUS
  <1>1. ASSUME NEW n \in JobNames, phase'[n] \in Terminal
        PROVE  <<owner'[n], phase'[n]>> \in ended'
    <2>1. phase'[n] # ""
      BY <1>1 DEF Terminal
    <2>2. CASE phase'[n] = phase[n]
      <3>1. <<owner[n], phase[n]>> \in ended' /\ owner[n] # None
        BY <1>1, <2>1, <2>2, EndedGrows DEF IInv, EndsAreTrue, PodsHaveJobs, Exists
      <3>2. owner'[n] = owner[n]
        BY <2>1, <2>2, <3>1, OwnerChanges DEF IInv
      <3> QED
        BY <2>2, <3>1, <3>2
    <2>3. CASE phase'[n] # phase[n]
      BY <1>1, <2>1, <2>3, PhaseChanges DEF IInv
    <2> QED
      BY <2>2, <2>3
  <1>2. ASSUME NEW r \in Runs, seen'[r] \in Terminal
        PROVE  <<r, seen'[r]>> \in ended'
    <2> DEFINE es == watch[r].events
    <2>1. \/ seen'[r] = seen[r]
          \/ es # <<>> /\ seen'[r] = Head(es)
      BY <1>2, EveryoneMoves DEF IInv, Moves, Terminal
    <2>2. es # <<>> => 1 \in DOMAIN es /\ Head(es) = es[1]
      <3>1. es \in Seq(Phases)
        BY EventTypes DEF IInv, TypeOK
      <3> HIDE DEF es
      <3> QED
        BY <3>1
    <2> QED
      BY <1>2, <2>1, <2>2, EndedGrows DEF IInv, EndsAreTrue
  <1> QED
    BY <1>1, <1>2, WatchesStep DEF EndsAreTrue

\* Only the run that owns a Job deletes it, while it cleans up.
LEMMA DyingChanges ==
  ASSUME IInv, [Next]_vars, NEW n \in dying', n \notin dying
  PROVE  /\ n \in JobNames /\ owner[n] \in Runs /\ owner' = owner
         /\ pc[owner[n]] = "cleanDelete" /\ n \in todo[owner[n]]
  <1>1. ASSUME NEW r \in Runs, DeleteJob(r) \/ CleanFails(r)
        PROVE  owner' = owner /\ pc[r] = "cleanDelete" /\ n \in todo[r]
    BY <1>1 DEF DeleteJob, CleanFails
  <1>2. ASSUME NEW r \in Runs, Runner(r), ~DeleteJob(r), ~CleanFails(r)
        PROVE  FALSE
    BY <1>2 DEF Runner, CleanJob, Start, Select, SelectFails, CreateJob, CreateJobFails,
                Report, OpenWatch, OpenWatchFails, HandleEvent, LoopEnds, ListJobs,
                clusterVars
  <1>3. CASE Cluster
    BY <1>3 DEF Cluster, CreatePod, PodMoves, PodTouched, PodDeleted, CollectJob, WatchCloses,
                Deadline, clusterVars
  <1>4. CASE Crash \/ UNCHANGED vars
    BY <1>4 DEF Crash, vars, clusterVars
  <1>5. PICK r \in Runs : owner' = owner /\ pc[r] = "cleanDelete" /\ n \in todo[r]
    BY <1>1, <1>2, <1>3, <1>4 DEF Next
  <1> QED
    BY <1>5 DEF IInv, CleanupCovers

LEMMA DyingStep == IInv /\ [Next]_vars => OnlyOwnJobsDie' /\ LateDeletesLast'
  <1> SUFFICES ASSUME IInv, [Next]_vars, NEW n \in dying'
               PROVE  /\ owner'[n] # None
                      /\ seen'[owner'[n]] # ""
                      /\ pc'[owner'[n]] \in Returned \cup
                           {"cleanDelete", "stepSuccess", "stepFailed", "failJob", "dead"}
                      /\ seen'[owner'[n]] = "late" =>
                           pc'[owner'[n]] \in {"cleanDelete", "failed", "dead"}
    BY DEF OnlyOwnJobsDie, LateDeletesLast, Exists
  <1> DEFINE r == owner[n]
  <1>1. /\ n \in JobNames /\ r \in Runs /\ owner'[n] = r
        /\ seen[r] # ""
        /\ pc[r] \in Returned \cup
             {"cleanDelete", "stepSuccess", "stepFailed", "failJob", "dead"}
        /\ seen[r] = "late" => pc[r] \in {"cleanDelete", "failed", "dead"}
    <2>1. CASE n \in dying
      <3>1. n \in JobNames /\ owner[n] # None
        BY <2>1 DEF IInv, TypeOK, OnlyOwnJobsDie, Exists
      <3>2. owner'[n] = owner[n]
        BY <3>1, OwnerChanges DEF IInv
      <3> QED
        BY <2>1, <3>1, <3>2 DEF IInv, TypeOK, OnlyOwnJobsDie, LateDeletesLast
    <2>2. CASE n \notin dying
      <3>1. /\ n \in JobNames /\ r \in Runs /\ owner' = owner
            /\ pc[r] = "cleanDelete"
        BY <2>2, DyingChanges
      <3> QED
        BY <3>1 DEF IInv, SeenFits, Terminal
    <2> QED
      BY <2>1, <2>2
  <1>2. Moves(r)
    BY <1>1, EveryoneMoves DEF IInv
  <1>3. r # None
    BY <1>1, NoneAssumption
  <1> HIDE DEF r
  <1> QED
    BY <1>1, <1>2, <1>3
    DEF Moves, Cleaned, CleanFailed, AfterReport, StepLabels, Returned, Terminal

\* What is being deleted goes on being deleted until it is gone.
LEMMA DyingStays ==
  ASSUME TypeOK, [Next]_vars, NEW n \in dying
  PROVE  n \in dying' \/ owner'[n] = None
  <1>1. ASSUME NEW r \in Runs, Runner(r)
        PROVE  dying \subseteq dying'
    BY <1>1 DEF Runner, CleanJob, Start, Select, SelectFails, CreateJob, CreateJobFails,
                Report, OpenWatch, OpenWatchFails, HandleEvent, LoopEnds, ListJobs,
                DeleteJob, CleanFails, clusterVars
  <1>2. CASE Cluster
    BY <1>2 DEF Cluster, CreatePod, PodMoves, PodTouched, PodDeleted, CollectJob, WatchCloses,
                Deadline, clusterVars, TypeOK
  <1>3. CASE Crash \/ UNCHANGED vars
    BY <1>3 DEF Crash, vars, clusterVars
  <1> QED
    BY <1>1, <1>2, <1>3 DEF Next

\* CleanupCovers for one run.
Covered(r) ==
  /\ pc[r] = "cleanDelete" => \A n \in todo[r] : n \in JobNames \ dying /\ owner[n] = r
  /\ pc[r] = "cleanDelete" => \A n \in JobNames : owner[n] = r => n \in todo[r] \cup dying
  /\ CleanedUp(r) => \A n \in JobNames : owner[n] = r => n \in dying

\* A Job of a run that creates none was its Job before, and is still being
\* deleted if it was.
LEMMA OldJobs ==
  ASSUME IInv, [Next]_vars, NEW r \in Runs, pc[r] # "create",
         NEW n \in JobNames, owner'[n] = r
  PROVE  owner[n] = r /\ (n \in dying => n \in dying')
  <1>1. r # None
    BY NoneAssumption
  <1>2. owner[n] = r
    BY <1>1, OwnerChanges DEF IInv
  <1> QED
    BY <1>1, <1>2, DyingStays DEF IInv

\* A step that leaves r where it is, and deletes no Job of r.
LEMMA OthersCover ==
  ASSUME IInv, [Next]_vars, NEW r \in Runs,
         pc'[r] = pc[r], seen'[r] = seen[r], todo'[r] = todo[r],
         \A n \in dying' : n \notin dying => owner[n] # r
  PROVE  Covered(r)'
  <1>1. Covered(r)
    BY DEF IInv, CleanupCovers, Covered
  <1>2. ASSUME NEW n \in todo[r], pc[r] = "cleanDelete"
        PROVE  n \in JobNames \ dying' /\ owner'[n] = r
    <2>1. n \in JobNames /\ n \notin dying /\ owner[n] = r /\ r # None
      BY <1>1, <1>2, NoneAssumption DEF Covered
    <2> QED
      BY <2>1, OwnerChanges DEF IInv
  <1>3. CleanedUp(r)' <=> CleanedUp(r)
    BY DEF CleanedUp
  <1>4. CleanedUp(r) \/ pc[r] = "cleanDelete" => pc[r] # "create"
    BY DEF CleanedUp
  <1>5. ASSUME NEW n \in JobNames, owner'[n] = r, CleanedUp(r) \/ pc[r] = "cleanDelete"
        PROVE  n \in dying' \/ (pc[r] = "cleanDelete" /\ n \in todo[r])
    <2>1. owner[n] = r /\ (n \in dying => n \in dying')
      BY <1>4, <1>5, OldJobs
    <2> QED
      BY <1>1, <1>5, <2>1 DEF Covered
  <1>6. ~(CleanedUp(r) /\ pc[r] = "cleanDelete")
    BY DEF CleanedUp
  <1> QED
    BY <1>2, <1>3, <1>5, <1>6 DEF Covered

\* The steps of r itself.
LEMMA OwnCover ==
  ASSUME IInv, [Next]_vars, NEW r \in Runs, Runner(r)
  PROVE  Covered(r)'
  <1>0. Covered(r) /\ TypeOK /\ Moves(r)
    BY EveryoneMoves DEF IInv, CleanupCovers, Covered
  <1>1. CASE ListJobs(r)
    <2>1. /\ todo'[r] = Listed(r) /\ owner' = owner /\ dying' = dying /\ seen' = seen
          /\ pc[r] = "cleanList"
          /\ pc'[r] = IF Listed(r) = {} THEN Cleaned(r) ELSE "cleanDelete"
      BY <1>0, <1>1 DEF ListJobs, Goto, clusterVars, TypeOK
    <2>2. \A n \in JobNames : n \in Listed(r) <=> owner[n] = r
      <3> TAKE n \in JobNames
      <3>1. owner[n] # None <=> owner[n] \in Runs
        BY <1>0, NoneAssumption DEF TypeOK
      <3>2. n \in Listed(r) <=> owner[n] # None /\ Selects(r, owner[n])
        BY DEF Listed, Exists
      <3>3. r # None /\ Selects(r, r)
        BY SelectsOwn, NoneAssumption
      <3> QED
        BY <3>1, <3>2, <3>3, SelectsOwn
    <2>3. \A n \in JobNames : owner[n] = r => n \notin dying
      BY <2>1 DEF IInv, OnlyOwnJobsDie, Returned
    <2>4. Listed(r) \subseteq JobNames
      BY DEF Listed
    <2>5. Cleaned(r) # "cleanDelete"
      BY DEF Cleaned
    <2>6. CleanedUp(r)' => Listed(r) = {}
      BY <2>1 DEF CleanedUp
    <2> QED
      BY <2>1, <2>2, <2>3, <2>4, <2>5, <2>6 DEF Covered
  <1>2. CASE DeleteJob(r)
    <2>1. PICK n \in todo[r] :
            /\ dying' = dying \cup {n}
            /\ todo' = [todo EXCEPT ![r] = @ \ {n}]
            /\ Goto(r, IF todo[r] = {n} THEN Cleaned(r) ELSE "cleanDelete")
      BY <1>2 DEF DeleteJob
    <2>2. owner' = owner /\ seen' = seen /\ pc[r] = "cleanDelete"
      BY <1>2 DEF DeleteJob
    <2>3. /\ todo'[r] = todo[r] \ {n}
          /\ pc'[r] = IF todo[r] = {n} THEN Cleaned(r) ELSE "cleanDelete"
      BY <1>0, <2>1 DEF Goto, TypeOK
    <2>4. Cleaned(r) # "cleanDelete"
      BY DEF Cleaned
    <2>5. CleanedUp(r)' => todo[r] = {n}
      BY <2>3 DEF CleanedUp
    <2> QED
      BY <1>0, <2>1, <2>2, <2>3, <2>4, <2>5 DEF Covered
  <1>3. CASE Report(r)
    <2>1. owner' = owner /\ dying' = dying /\ seen' = seen
      BY <1>3 DEF Report, clusterVars
    <2>2. /\ pc[r] \in StepLabels \cup {"failJob", "failJobCreate"}
          /\ pc'[r] = IF pc[r] = "failJob" /\ seen[r] = "late" THEN "cleanList"
                      ELSE AfterReport(pc[r])
      BY <1>0, <1>3 DEF Report, Goto, TypeOK
    <2>3. CleanedUp(r)' => CleanedUp(r)
      BY <2>1, <2>2 DEF CleanedUp, AfterReport, StepLabels, IInv, SeenFits, Terminal
    <2>4. pc'[r] # "cleanDelete"
      BY <2>2 DEF AfterReport
    <2> QED
      BY <1>0, <2>1, <2>3, <2>4 DEF Covered
  <1>4. CASE ~ListJobs(r) /\ ~DeleteJob(r) /\ ~Report(r)
    <2>1. /\ pc'[r] # "cleanDelete"
          /\ pc'[r] \notin {"stepSuccess", "succeeded"}
          /\ pc'[r] \in {"stepFailed", "failJob", "failed"} =>
               /\ seen'[r] = "error" \/ seen'[r] = "late"
               /\ pc'[r] = "failed" => seen'[r] = "error"
      <3> USE <1>0 DEF TypeOK, Goto
      <3>1. CASE Start(r) \/ Select(r) \/ SelectFails(r)
        BY <3>1 DEF Start, Select, SelectFails
      <3>2. CASE CreateJob(r) \/ CreateJobFails(r)
        BY <3>2 DEF CreateJob, CreateJobFails
      <3>3. CASE OpenWatch(r) \/ OpenWatchFails(r)
        BY <3>3 DEF OpenWatch, OpenWatchFails
      <3>4. CASE HandleEvent(r)
        BY <3>4, EventSeen
      <3>5. CASE LoopEnds(r)
        BY <3>5 DEF LoopEnds
      <3>6. CASE CleanFails(r)
        BY <3>6 DEF CleanFails, CleanFailed
      <3> QED
        BY <1>4, <3>1, <3>2, <3>3, <3>4, <3>5, <3>6 DEF Runner, CleanJob
    <2> QED
      BY <2>1 DEF Covered, CleanedUp, Terminal
  <1> QED
    BY <1>1, <1>2, <1>3, <1>4

\* A runner deletes its own Jobs.
LEMMA DeletesOwn ==
  ASSUME IInv, NEW q \in Runs, Runner(q), NEW n \in dying', n \notin dying
  PROVE  owner[n] = q
  <1>1. pc[q] = "cleanDelete" /\ n \in todo[q]
    BY DEF Runner, CleanJob, Start, Select, SelectFails, CreateJob, CreateJobFails,
           Report, OpenWatch, OpenWatchFails, HandleEvent, LoopEnds, ListJobs,
           DeleteJob, CleanFails, clusterVars
  <1> QED
    BY <1>1 DEF IInv, CleanupCovers

\* A step of one runner leaves the others where they are.
LEMMA OthersRest ==
  ASSUME TypeOK, NEW q \in Runs, Runner(q), NEW r \in Runs, q # r
  PROVE  pc'[r] = pc[r] /\ seen'[r] = seen[r] /\ todo'[r] = todo[r]
  <1>1. ASSUME HandleEvent(q)
        PROVE  pc'[r] = pc[r] /\ seen'[r] = seen[r] /\ todo' = todo
    BY <1>1, EventSeen DEF TypeOK, HandleEvent
  <1> QED
    BY <1>1 DEF Runner, CleanJob, Start, Select, SelectFails, CreateJob, CreateJobFails,
           Report, OpenWatch, OpenWatchFails, LoopEnds, ListJobs,
           DeleteJob, CleanFails, Goto, TypeOK

LEMMA CoverStep == IInv /\ [Next]_vars => CleanupCovers'
  <1> SUFFICES ASSUME IInv, [Next]_vars, NEW r \in Runs
               PROVE  Covered(r)'
    BY DEF CleanupCovers, Covered
  <1>1. ASSUME NEW q \in Runs, Runner(q), q # r
        PROVE  Covered(r)'
    <2>1. pc'[r] = pc[r] /\ seen'[r] = seen[r] /\ todo'[r] = todo[r]
      BY <1>1, OthersRest DEF IInv
    <2>2. ASSUME NEW n \in dying', n \notin dying
          PROVE  owner[n] = q
      BY <1>1, <2>2, DeletesOwn
    <2> QED
      BY <1>1, <2>1, <2>2, OthersCover
  <1>2. CASE Cluster
    <2>1. pc' = pc /\ seen' = seen /\ todo' = todo /\ dying' \subseteq dying
      BY <1>2 DEF Cluster, CreatePod, PodMoves, PodTouched, PodDeleted, CollectJob, WatchCloses,
                  Deadline, runVars, clusterVars
    <2> QED
      BY <2>1, OthersCover
  <1>3. CASE UNCHANGED vars
    BY <1>3, OthersCover DEF vars, runVars, clusterVars
  <1>4. CASE Crash
    <2>1. /\ seen' = seen /\ owner' = owner /\ dying' = dying
          /\ \/ pc'[r] = pc[r] /\ pc[r] \in Returned \cup {"idle"}
             \/ pc'[r] = "dead"
      BY <1>4 DEF Crash, clusterVars
    <2>2. Covered(r)
      BY DEF IInv, CleanupCovers, Covered
    <2> QED
      BY <2>1, <2>2 DEF Covered, CleanedUp, Returned
  <1> QED
    BY <1>1, <1>2, <1>3, <1>4, OwnCover DEF Next

-----------------------------------------------------------------------------
(* The theorems.                                                           *)

\* Initially nothing runs, so nothing can be wrong with it.
LEMMA InitIInv == Init => IInv
  <1> SUFFICES ASSUME Init PROVE IInv
    OBVIOUS
  <1>1. TypeOK
    BY TypeInit
  <1>2. EndsAreTrue
    <2>1. \A n \in JobNames : phase[n] \notin Terminal
      BY DEF Init, Terminal
    <2>2. \A r \in Runs : seen[r] \notin Terminal
      BY DEF Init, Terminal
    <2>3. ASSUME NEW r \in Runs, NEW i \in DOMAIN watch[r].events
          PROVE  FALSE
      <3>1. watch[r] = Closed
        BY DEF Init
      <3>2. DOMAIN <<>> = {}
        OBVIOUS
      <3>3. Closed.events = <<>>
        BY DEF Closed
      <3> QED
        BY <3>1, <3>2, <3>3
    <2> QED
      BY <2>1, <2>2, <2>3 DEF EndsAreTrue
  <1>3. PodsHaveJobs /\ SeenFits /\ OnlyOwnJobsDie /\ LateDeletesLast
    BY DEF Init, PodsHaveJobs, SeenFits, OnlyOwnJobsDie, LateDeletesLast
  <1>4. CleanupCovers
    BY DEF Init, CleanupCovers, CleanedUp
  <1> QED
    BY <1>1, <1>2, <1>3, <1>4 DEF IInv

\* The inductive invariant holds, whatever the labels, the suffixes that are
\* drawn, the calls that fail and the moment the operator crashes.
THEOREM Invariance == Spec => []IInv
  <1>1. IInv /\ [Next]_vars => IInv'
    BY TypeStep, PodsStep, EndsStep, SeenStep, DyingStep, CoverStep DEF IInv
  <1> QED
    BY InitIInv, <1>1, PTL DEF Spec

\* The variables have their types.
THEOREM TypeCorrect == Spec => []TypeOK
  <1>1. IInv => TypeOK
    BY DEF IInv
  <1> QED
    BY Invariance, <1>1, PTL

\* CleanJob deletes the Jobs of its own run, and only after the run has seen an
\* end or a timeout: never those of another generation or of another job.
THEOREM DeletionIsOwn == Spec => []OnlyOwnJobsDie
  <1>1. IInv => OnlyOwnJobsDie
    BY DEF IInv
  <1> QED
    BY Invariance, <1>1, PTL

\* A step is reported successful only if a pod of its own Jobs succeeded.
THEOREM SuccessEarned == Spec => []SuccessIsEarned
  <1>1. IInv => SuccessIsEarned
    BY DEF IInv, SeenFits, EndsAreTrue, SuccessIsEarned, Terminal
  <1> QED
    BY Invariance, <1>1, PTL

\* All Jobs of a step that is reported successful are being deleted, as are those
\* of one that failed after a cleanup without a failing call.
THEOREM CleanupComplete == Spec => []VerdictCleansUp
  <1>1. IInv => VerdictCleansUp
    BY DEF IInv, SeenFits, CleanupCovers, CleanedUp, VerdictCleansUp, Terminal
  <1> QED
    BY Invariance, <1>1, PTL

\* Every step of a runner follows the graph that ChaosRun gives its runners.
THEOREM LifecycleFollowed == Spec => FollowsLifecycle
  <1>1. ASSUME TypeOK, [Next]_vars, NEW r \in Runs
        PROVE  LifecycleLabel(r)' # LifecycleLabel(r) =>
                 \/ LifecycleLabel(r) = "idle" /\ LifecycleLabel(r)' = "create"
                 \/ LifecycleLabel(r)' \in Successors(LifecycleLabel(r)) \cup {"dead"}
    <2>1. Moves(r)
      BY <1>1, EveryoneMoves
    <2> QED
      BY <2>1 DEF Moves, LifecycleLabel, Successors, Outcomes, AfterReport, Cleaned,
                  CleanFailed, StepLabels, Returned, Terminal
  <1>2. TypeOK /\ [Next]_vars =>
          [ \A r \in Runs :
              LifecycleLabel(r)' # LifecycleLabel(r) =>
                \/ LifecycleLabel(r) = "idle" /\ LifecycleLabel(r)' = "create"
                \/ LifecycleLabel(r)' \in Successors(LifecycleLabel(r)) \cup {"dead"} ]_vars
    BY <1>1
  <1> QED
    BY TypeCorrect, <1>2, PTL DEF Spec, FollowsLifecycle
=============================================================================
