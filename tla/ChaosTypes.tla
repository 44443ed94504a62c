----------------------------- MODULE ChaosTypes -----------------------------
(***************************************************************************)
(* The chaos types a step may have and the runner each one is dispatched   *)
(* to.  Three switch statements of the source enumerate the types, in      *)
(* chaos.go (PreCheck), run.go (Run) and pod/pod.go (PopulateDefault).     *)
(***************************************************************************)

\* The case list of PreCheck: any other type is refused.
SupportedTypes ==
  {"litmus-pod-delete", "litmus-pod-io-stress", "litmus-container-kill",
   "litmus-pod-cpu-stress", "litmus-pod-memory-stress",
   "godzilla-pod-network-delay", "godzilla-pod-network-corruption",
   "godzilla-pod-network-loss", "godzilla-pod-network-duplicate",
   "godzilla-pod-network-reorder", "godzilla-pod-autoscaler",
   "godzilla-pod-disk-fill"}

Runners == {"runPodKill", "runPodStress", "runContainerKill",
            "runNetworkChaos", "runPodAutoscaler", "runPodDiskFill"}

\* The types Run hands to each runner.
TypesOf(runner) ==
  CASE runner = "runPodKill"       -> {"litmus-pod-delete"}
    [] runner = "runPodStress"     -> {"litmus-pod-io-stress",
                                       "litmus-pod-memory-stress",
                                       "litmus-pod-cpu-stress"}
    [] runner = "runContainerKill" -> {"litmus-container-kill"}
    [] runner = "runNetworkChaos"  -> {"godzilla-pod-network-delay",
                                       "godzilla-pod-network-corruption",
                                       "godzilla-pod-network-loss",
                                       "godzilla-pod-network-duplicate",
                                       "godzilla-pod-network-reorder"}
    [] runner = "runPodAutoscaler" -> {"godzilla-pod-autoscaler"}
    [] runner = "runPodDiskFill"   -> {"godzilla-pod-disk-fill"}

\* Does Run start runner for a step of this type?  A type no runner takes
\* falls into Run's default case, which only logs.
Dispatches(runner, type) == type \in TypesOf(runner)

HasRunner(type) == \E runner \in Runners : Dispatches(runner, type)

(***************************************************************************)
(* The six runners are one protocol written out six times.  They differ in *)
(* two things only: whether there is one Kubernetes Job for every target   *)
(* pod, with a random suffix, or a single one that has the name of the     *)
(* step; and whether a failure that is noticed while the Jobs are created, *)
(* or later, is reported to UpdateJobStatus under the bare name of the     *)
(* GodzillaJob, without its generation.                                    *)
(***************************************************************************)
runPodKill       == [fanOut |-> FALSE, bareAt |-> {"create", "later"}]
runPodAutoscaler == [fanOut |-> FALSE, bareAt |-> {"create"}]
runContainerKill == [fanOut |-> TRUE,  bareAt |-> {}]
runPodStress     == [fanOut |-> TRUE,  bareAt |-> {}]
runNetworkChaos  == [fanOut |-> TRUE,  bareAt |-> {}]
runPodDiskFill   == [fanOut |-> TRUE,  bareAt |-> {}]

Profile(runner) ==
  CASE runner = "runPodKill"       -> runPodKill
    [] runner = "runPodStress"     -> runPodStress
    [] runner = "runContainerKill" -> runContainerKill
    [] runner = "runNetworkChaos"  -> runNetworkChaos
    [] runner = "runPodAutoscaler" -> runPodAutoscaler
    [] runner = "runPodDiskFill"   -> runPodDiskFill

=============================================================================
