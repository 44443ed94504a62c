------------------------------ MODULE TargetJobs ------------------------------
(***************************************************************************)
(* From the manifest of a step to the Jobs that carry it out: the runner   *)
(* completes the configuration, chooses the pods of the application, and   *)
(* creates a Job for each of them from the one Config map of the step,     *)
(* which it changes from target to target.  StepRunner has what becomes of *)
(* the Jobs.                                                               *)
(***************************************************************************)
EXTENDS StepConfig, ChaosTypes, Integers, SequencesExt

CONSTANTS
  Manifests,  \* the steps users may write
  Pods,       \* the pods of the application: name, node, names of containers
  MaxTargets, \* bound on the pods a step works on
  Answers,    \* what a lookup of a host may return: sequences of addresses
  IPv4        \* the addresses net.ParseIP(...).To4() accepts

\* What stands behind the pods of a slice, see PodsComeFirst of FilterTargetPods.
NoPod == [name |-> Empty, node |-> Empty, containers |-> <<>>]

ASSUME TargetAssumption ==
  /\ MaxTargets \in Nat
  /\ \A pod \in Pods : pod.containers # <<>>
  /\ \A answer \in Answers : IsList(answer)
  /\ \A m \in Manifests :
       /\ DOMAIN m = {"type", "config", "image", "serviceAccountName"}
       /\ HasRunner(m.type)
       /\ \A key \in DOMAIN m.config : IsList(m.config[key])

VARIABLES
  manifest, \* the step as the user wrote it
  step,     \* the step as the runner has it
  pods,     \* the pods FilterTargetPods returned
  target,   \* the pod the loop is at
  host,     \* the host of DESTINATION_HOSTS it looks up next
  answers,  \* history: the addresses of the hosts looked up for this target
  jobs,     \* the Jobs created, with answers as of their creation
  pc

vars == <<manifest, step, pods, target, host, answers, jobs, pc>>

FanOut  == \E r \in Runners : Dispatches(r, manifest.type) /\ Profile(r).fanOut
Network == Dispatches("runNetworkChaos", manifest.type)

Setting(key) == Value(step.config, key)

-----------------------------------------------------------------------------
Override ==
  /\ pc = "override"
  /\ step' = OverrideConfig(manifest)
  /\ pc' = IF FanOut THEN "filter" ELSE "single"
  /\ UNCHANGED <<manifest, pods, target, host, answers, jobs>>

\* A percentage above 100 may add values that are no pods.
FilterTargetPods ==
  /\ pc = "filter"
  /\ \E n \in 1 .. MaxTargets : \E real \in 1 .. n : \E chosen \in [1 .. real -> Pods] :
       pods' = chosen \o [i \in 1 .. n - real |-> NoPod]
  /\ pc' = "target"
  /\ UNCHANGED <<manifest, step, target, host, answers, jobs>>

FilterTargetPodsFails ==
  /\ pc = "filter"
  /\ pc' = "failed"
  /\ UNCHANGED <<manifest, step, pods, target, host, answers, jobs>>

\* Faults: the name of the pod is kept like that of its container; the first
\* container of every pod is taken.
PopulatedOnce(config, pod) ==
  Put(Put(config, "APP_POD", OrElse(Value(config, "APP_POD"), pod.name)),
      "APP_CONTAINER", OrElse(Value(config, "APP_CONTAINER"), pod.containers[1]))

PopulatedAlways(config, pod) ==
  Put(Put(config, "APP_POD", pod.name), "APP_CONTAINER", pod.containers[1])

\* The settings for one pod: its first container is taken unless there is one.
Populated(config, pod) ==
  Put(Put(config, "APP_POD", pod.name),
      "APP_CONTAINER", OrElse(Value(config, "APP_CONTAINER"), pod.containers[1]))

PopulateTarget ==
  /\ pc = "target"
  /\ IF Setting("APP_CONTAINER") = Empty /\ pods[target].containers = <<>>
     THEN pc' = "panicked" /\ UNCHANGED step
     ELSE pc' = "hosts" /\ step' = [step EXCEPT !.config = Populated(@, pods[target])]
  /\ UNCHANGED <<manifest, pods, target, host, answers, jobs>>

Hosts == IF Network THEN Setting("DESTINATION_HOSTS") ELSE <<>>

\* The loop over the addresses of a host: those it has kept of the first i.
LookUpHost(answer) ==
  LET kept[i \in 0 .. Len(answer)] ==
        IF i = 0 THEN <<>>
        ELSE IF answer[i] \in IPv4 THEN Append(kept[i - 1], answer[i]) ELSE kept[i - 1]
  IN  kept[Len(answer)]

Singles(addrs) == [i \in DOMAIN addrs |-> <<addrs[i]>>]

\* Fault: what is there already is not extended.
ExtendedOnce(config, addrs) ==
  IF addrs = <<>> \/ Value(config, "DESTINATION_IPS") # Empty THEN config
  ELSE Put(config, "DESTINATION_IPS", Singles(addrs))

\* The list grows by commas and addresses; only addresses are written into an
\* empty one, so that those of one host become a single token.
Extended(config, addrs) ==
  LET ips == Value(config, "DESTINATION_IPS")
  IN  IF addrs = <<>> THEN config
      ELSE Put(config, "DESTINATION_IPS", IF ips = Empty THEN <<addrs>> ELSE ips \o Singles(addrs))

LookUp ==
  /\ pc = "hosts"
  /\ host <= Len(Hosts)
  /\ \E answer \in Answers :
       /\ step' = [step EXCEPT !.config = Extended(@, LookUpHost(answer))]
       /\ answers' = answers \o LookUpHost(answer)
  /\ host' = host + 1
  /\ UNCHANGED <<manifest, pods, target, jobs, pc>>

LookUpFails ==
  /\ pc = "hosts"
  /\ host <= Len(Hosts)
  /\ pc' = "failed"
  /\ UNCHANGED <<manifest, step, pods, target, host, answers, jobs>>

\* The Job of a pod: a copy of the settings as they are now.
JobFor(pod) ==
  [pod |-> pod.name, node |-> pod.node, env |-> step.config,
   image |-> step.image, serviceAccountName |-> step.serviceAccountName,
   answers |-> answers]

CreateJob ==
  /\ pc = "hosts"
  /\ host > Len(Hosts)
  /\ jobs' = Append(jobs, JobFor(pods[target]))
  /\ target' = target + 1
  /\ host' = 1
  /\ answers' = <<>>
  /\ pc' = IF target = Len(pods) THEN "created" ELSE "target"
  /\ UNCHANGED <<manifest, step, pods>>

\* Runners that work on the application as a whole create one Job.
CreateSingleJob ==
  /\ pc = "single"
  /\ jobs' = <<JobFor(NoPod)>>
  /\ pc' = "created"
  /\ UNCHANGED <<manifest, step, pods, target, host, answers>>

CreateJobFails ==
  /\ pc = "single" \/ (pc = "hosts" /\ host > Len(Hosts))
  /\ pc' = "failed"
  /\ UNCHANGED <<manifest, step, pods, target, host, answers, jobs>>

Init ==
  /\ manifest \in Manifests
  /\ step = manifest
  /\ pods = <<>>
  /\ target = 1
  /\ host = 1
  /\ answers = <<>>
  /\ jobs = <<>>
  /\ pc = "override"

Next == \/ Override
        \/ FilterTargetPods \/ FilterTargetPodsFails
        \/ PopulateTarget
        \/ LookUp \/ LookUpFails
        \/ CreateJob \/ CreateSingleJob \/ CreateJobFails

Spec == Init /\ [][Next]_vars

-----------------------------------------------------------------------------
(* Properties.                                                             *)

\* What the user asked for: the manifest's setting, or else the one of the
\* type's file, or else the common one.
Asked(key) ==
  IF key \in DOMAIN manifest.config THEN manifest.config[key]
  ELSE IF key \in DOMAIN TypeFile(manifest.type).env THEN TypeFile(manifest.type).env[key]
  ELSE Value(Common.env, key)

\* The settings a runner may change on its way.
Changed ==
  (IF FanOut THEN {"APP_POD"} ELSE {})
    \cup (IF FanOut /\ Asked("APP_CONTAINER") = Empty THEN {"APP_CONTAINER"} ELSE {})
    \cup (IF Network /\ Asked("DESTINATION_HOSTS") # Empty THEN {"DESTINATION_IPS"} ELSE {})

\* Do these settings, this image and this account say what the user asked for?
Kept(config, image, account) ==
  /\ DOMAIN manifest.config \cup DOMAIN TypeFile(manifest.type).env \cup DOMAIN Common.env
       \subseteq DOMAIN config
  /\ \A key \in DOMAIN config \ Changed : config[key] = Asked(key)
  /\ manifest.image # Empty => image = manifest.image
  /\ manifest.serviceAccountName # Empty => account = manifest.serviceAccountName

\* Every Job has all the settings the user asked for, whatever the Jobs before
\* it left in the map; an image or account of the manifest is used if given.
SettingsReachJobs ==
  \A i \in DOMAIN jobs : Kept(jobs[i].env, jobs[i].image, jobs[i].serviceAccountName)

\* There is a Job for every pod that was chosen, in their order: the label the
\* Jobs are found by, the node they run on and the pod they are told to attack
\* belong together, however the map was changed in between.
TargetsAreServed ==
  FanOut =>
    /\ \A i \in DOMAIN jobs :
         /\ jobs[i].pod = pods[i].name
         /\ jobs[i].env["APP_POD"] = pods[i].name
         /\ jobs[i].node = pods[i].node
    /\ pc = "created" => Len(jobs) = Len(pods)

\* The first n pods have the same first container.
Alike(n) ==
  \A k \in 1 .. n : pods[k].containers # <<>> /\ pods[k].containers[1] = pods[1].containers[1]

\* With APP_CONTAINER given, every Job attacks this container; otherwise it
\* attacks the first container of its own pod, provided that the pods before it
\* have the same one, as replicas do.
ContainerFits ==
  FanOut =>
    \A i \in DOMAIN jobs :
      IF Asked("APP_CONTAINER") # Empty
      THEN jobs[i].env["APP_CONTAINER"] = Asked("APP_CONTAINER")
      ELSE Alike(i) => jobs[i].env["APP_CONTAINER"] = pods[i].containers[1]

\* The addresses found for the first n Jobs.
Found(n) == UNION {ToSet(jobs[k].answers) : k \in 1 .. n}

\* The addresses in a list: an entry of several words is none.
Listed(ips) == {ips[t][1] : t \in {u \in DOMAIN ips : Len(ips[u]) = 1}}

\* Does the list ips begin with what the user asked for, has it beyond that only
\* addresses own and before, each an entry, and are all of own in it?  In a list
\* that was empty, the first host with addresses has them run together in one
\* entry, which is not an address if they are several.
Covered(ips, own, before) ==
  LET asked == Asked("DESTINATION_IPS")
  IN  /\ IsPrefix(asked, ips)
      /\ \A t \in Len(asked) + 1 .. Len(ips) :
           /\ ToSet(ips[t]) \subseteq own \cup before
           /\ Len(ips[t]) = 1 \/ (t = 1 /\ \E answer \in Answers : ips[t] = LookUpHost(answer))
      /\ \/ own \subseteq Listed(ips)
         \/ /\ asked = Empty /\ before = {} /\ ips # Empty
            /\ own \ ToSet(ips[1]) \subseteq Listed(ips)

\* If the user gave a list, or addresses were found for a Job before, all that
\* were found for a Job are entries of its list; otherwise all but those of one
\* host, which the code writes without commas.  Nothing else is in the list but
\* what the user asked for and what was found for Jobs before.
HostsAreCovered ==
  \A i \in DOMAIN jobs :
    Covered(Value(jobs[i].env, "DESTINATION_IPS"), ToSet(jobs[i].answers), Found(i - 1))

-----------------------------------------------------------------------------
(* Why they hold: what is true of the step between one Job and the next.   *)

\* Where the runner is, and how far it has come.
Progress ==
  /\ manifest \in Manifests
  /\ DOMAIN step = {"type", "config", "image", "serviceAccountName"}
  /\ IsList(pods) /\ IsList(answers) /\ IsList(jobs)
  /\ host \in Nat \ {0}
  /\ pc \in {"override", "filter", "single", "target", "hosts",
             "created", "failed", "panicked"}
  /\ pc = "override" => step = manifest
  /\ pc \in {"filter", "single"} => step = OverrideConfig(manifest)
  /\ pc \in {"override", "filter", "single"} => jobs = <<>> /\ target = 1
  /\ pc \in {"override", "filter", "single", "target"} => answers = <<>>
  /\ pc \in {"filter", "target", "hosts"} => FanOut
  /\ pc = "single" => ~FanOut
  /\ pc \in {"target", "hosts"} => target = Len(jobs) + 1 /\ target <= Len(pods)

\* The map has kept what the user asked for.
StepIsKept ==
  pc # "override" => Kept(step.config, step.image, step.serviceAccountName)

\* The map tells the pod the next Job is for, and while all pods are alike, no
\* container but their first one unless the user asked for it.
TargetIsSet ==
  /\ pc = "hosts" => Setting("APP_POD") = pods[target].name
  /\ Asked("APP_CONTAINER") = Empty =>
       /\ pc = "target" /\ Alike(target - 1) =>
            Setting("APP_CONTAINER") \in {Empty, pods[1].containers[1]}
       /\ pc = "hosts" /\ Alike(target) => Setting("APP_CONTAINER") = pods[1].containers[1]
  /\ pc = "hosts" => {"APP_POD", "APP_CONTAINER"} \subseteq DOMAIN step.config

\* The list has the addresses found for the next Job so far, and is not empty
\* once any were found.
ListGrows ==
  pc # "override" =>
    LET ips == Setting("DESTINATION_IPS")
    IN  /\ IsList(ips)
        /\ Covered(ips, ToSet(answers), Found(Len(jobs)))
        /\ ips = Empty => Found(Len(jobs)) = {}

\* The inductive invariant: whatever the Jobs so far have done to the one map,
\* the next Job finds in it what it needs.
IInv ==
  /\ Progress /\ StepIsKept /\ TargetIsSet /\ ListGrows
  /\ SettingsReachJobs /\ TargetsAreServed /\ ContainerFits /\ HostsAreCovered
=============================================================================
