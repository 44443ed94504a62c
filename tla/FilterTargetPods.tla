--------------------------- MODULE FilterTargetPods ---------------------------
(***************************************************************************)
(* How a step chooses the pods of the application it works on              *)
(* (controllers/chaos/utils/pod.go): the pods TARGET_PODS names, or the    *)
(* ready ones that APP_LABEL selects, cut to PODS_AFFECTED_PERC per cent.  *)
(* One call is one behaviour: the inputs are chosen, the result computed.  *)
(***************************************************************************)
EXTENDS Integers, Sequences

CONSTANTS
  MaxPods,      \* bound on the pods, and on the names in TARGET_PODS
  Pods,         \* what a pod may be
  Percentages,  \* the numbers PODS_AFFECTED_PERC may hold
  Unset,        \* PODS_AFFECTED_PERC is empty or missing
  Garbage       \* PODS_AFFECTED_PERC is not a number

ASSUME BoundsAssumption ==
  MaxPods \in Nat /\ Percentages \subseteq Int /\ {Unset, Garbage} \cap Int = {}

\* What the API server knows of a pod that has the label: its phase, whether
\* its containers are ready, and whether it is being deleted.
ASSUME PodsAssumption ==
  Pods \subseteq [running : BOOLEAN, ready : BOOLEAN, deleting : BOOLEAN]

SeqUpTo(S) == UNION {[1 .. n -> S] : n \in 0 .. MaxPods}

VARIABLES
  targets,  \* TARGET_PODS: pods by number; 0 names no pod there is
  pods,     \* the pods, in the order the API server lists them
  perc,     \* PODS_AFFECTED_PERC
  result    \* "pods" and their numbers, or "error", or "panic"; "none" before

vars == <<targets, pods, perc, result>>

None   == [kind |-> "none", pods |-> <<>>]
Error  == [kind |-> "error", pods |-> <<>>]
Panic  == [kind |-> "panic", pods |-> <<>>]
Chosen(ps) == [kind |-> "pods", pods |-> ps]

\* strconv.Atoi, its error ignored.
Percentage == IF perc \in {Unset, Garbage} THEN 0 ELSE perc

\* The field selector of the list, and the conditions of the loop.
Eligible(i) == pods[i].running /\ pods[i].ready /\ ~pods[i].deleting

\* The loop over the list: what it has collected when it has seen k pods.
Collected[k \in 0 .. Len(pods)] ==
  IF k = 0 THEN <<>>
  ELSE IF Eligible(k) THEN Append(Collected[k - 1], k) ELSE Collected[k - 1]

Candidates == IF targets # <<>> THEN targets ELSE Collected[Len(pods)]

\* Fault: the share is rounded up.
QuotientUp(n) == (n * Percentage + 99) \div 100

\* Go's integer division truncates towards zero.
Quotient(n) == IF Percentage < 0 THEN -((n * (-Percentage)) \div 100)
               ELSE (n * Percentage) \div 100

Wanted(n) == IF Percentage = 0 THEN 1 ELSE Quotient(n)

\* Slicing ps up to k, with room for cap elements behind it: beyond its length a
\* slice holds zero values, here 0, and beyond its capacity it panics.
Sliced(ps, k, cap) ==
  IF k < 0 \/ k > cap THEN Panic
  ELSE IF k = 0 THEN Error
  ELSE Chosen([i \in 1 .. k |-> IF i <= Len(ps) THEN ps[i] ELSE 0])

\* Fault: the error of a Get of a pod is not looked at.
FilterUnchecked ==
  /\ result = None
  /\ \E cap \in Len(Candidates) .. 2 * Len(Candidates) :
       result' = Sliced(Candidates, Wanted(Len(Candidates)), cap)
  /\ UNCHANGED <<targets, pods, perc>>

\* The list of the pods, or the Get of one, may fail; the Get of a pod that does
\* not exist does.  append may leave any room behind the pods it collected, none
\* for no pods.
Filter ==
  /\ result = None
  /\ \/ result' = Error
     \/ /\ \A i \in DOMAIN targets : targets[i] \in DOMAIN pods
        /\ \E cap \in Len(Candidates) .. 2 * Len(Candidates) :
             result' = Sliced(Candidates, Wanted(Len(Candidates)), cap)
  /\ UNCHANGED <<targets, pods, perc>>

Init ==
  /\ pods \in SeqUpTo(Pods)
  /\ targets \in SeqUpTo(0 .. Len(pods))
  /\ perc \in Percentages \cup {Unset, Garbage}
  /\ result = None

Spec == Init /\ [][Filter]_vars

-----------------------------------------------------------------------------
(* Properties.                                                             *)

Valid == perc \in 1 .. 100

\* With a percentage from 1 to 100 the call never panics, whatever pods there
\* are, and the pods it returns are candidates in their order, as many as stay
\* within the share and not one fewer.
ShareIsExact ==
  Valid /\ result # None =>
    /\ result # Panic
    /\ result.kind = "pods" =>
         LET n == Len(Candidates)  k == Len(result.pods)
         IN  /\ result.pods = SubSeq(Candidates, 1, k)
             /\ 100 * k <= n * perc /\ n * perc < 100 * (k + 1)

\* Whatever the percentage, a call that returns pods returns one at least; the
\* first candidates come first, all of them pods there are, and values that are
\* no pods only behind all candidates.  TargetJobs starts from this.
PodsComeFirst ==
  result.kind = "pods" =>
    \E real \in 1 .. Len(result.pods) :
      /\ real <= Len(Candidates)
      /\ \A i \in 1 .. real : result.pods[i] = Candidates[i] /\ Candidates[i] \in DOMAIN pods
      /\ \A i \in real + 1 .. Len(result.pods) : real = Len(Candidates) /\ result.pods[i] = 0

\* When there is no pod to work on, the caller is told so.
NoPodsIsAnError ==
  result # None /\ Candidates = <<>> => result = Error
=============================================================================
