------------------------ MODULE FilterTargetPodsProofs ------------------------
(***************************************************************************)
(* Proofs about FilterTargetPods, for any number of pods and names: which  *)
(* pods the loop over the list collects, and how many of them are chosen.  *)
(***************************************************************************)
EXTENDS FilterTargetPods, SetInduction, TLAPS

-----------------------------------------------------------------------------
(* The loop over the list of pods.                                         *)

Numbers == 1 .. Len(pods)

\* The recursive definition has a solution, so that it may be unfolded.
LEMMA CollectedUnfolds ==
  ASSUME pods \in Seq(Pods)
  PROVE  /\ Collected[0] = <<>>
         /\ \A k \in Numbers :
              Collected[k] = IF Eligible(k) THEN Append(Collected[k - 1], k)
                             ELSE Collected[k - 1]
  <1> DEFINE N == Len(pods)
             S == Seq(Numbers)
             step == [a \in (1 .. N) \X S |->
                        IF Eligible(a[1]) THEN Append(a[2], a[1]) ELSE a[2]]
  <1>1. N \in Nat /\ Numbers = 1 .. N /\ <<>> \in S
    BY DEF Numbers
  <1> HIDE DEF N
  <1>2. step \in [(1 .. N) \X S -> S]
    <2> SUFFICES ASSUME NEW k \in 1 .. N, NEW s \in S
                 PROVE  Append(s, k) \in S
      OBVIOUS
    <2> QED
      BY <1>1
  <1>3. PICK g : Follows(g, N, S, <<>>, step)
    <2> HIDE DEF step, S
    <2> QED
      BY <1>1, <1>2, RecursionUpTo
  <1>4. ASSUME NEW i \in 1 .. N
        PROVE  g[i] = IF Eligible(i) THEN Append(g[i - 1], i) ELSE g[i - 1]
    <2>1. <<i, g[i - 1]>> \in (1 .. N) \X S
      <3> HIDE DEF S
      <3> QED
        BY <1>1, <1>3 DEF Follows
    <2> QED
      BY <1>3, <2>1 DEF Follows
  <1>5. g = [k \in 0 .. N |-> IF k = 0 THEN <<>>
                              ELSE IF Eligible(k) THEN Append(g[k - 1], k) ELSE g[k - 1]]
    <2>1. \A k \in 0 .. N : k # 0 => k \in 1 .. N
      BY <1>1
    <2> HIDE DEF step, S
    <2> QED
      BY <1>3, <1>4, <2>1 DEF Follows
  <1>6. Collected = [k \in 0 .. N |-> IF k = 0 THEN <<>>
                                      ELSE IF Eligible(k) THEN Append(Collected[k - 1], k)
                                      ELSE Collected[k - 1]]
    BY <1>5 DEF Collected, N
  <1>7. \A k \in 1 .. N : k \in 0 .. N /\ k # 0
    BY <1>1
  <1>8. 0 \in 0 .. N
    BY <1>1
  <1> QED
    BY <1>1, <1>6, <1>7, <1>8

\* What has been collected from the first k pods: those of them that are
\* eligible, in their order, each of them once.
Enumerates(k, s) ==
  /\ s \in Seq(Numbers)
  /\ \A i \in DOMAIN s : s[i] <= k /\ Eligible(s[i])
  /\ \A i, j \in DOMAIN s : i < j => s[i] < s[j]
  /\ \A n \in 1 .. k : Eligible(n) => \E i \in DOMAIN s : s[i] = n

LEMMA EnumerationGrows ==
  ASSUME pods \in Seq(Pods), NEW k \in 0 .. Len(pods) - 1, NEW s, Enumerates(k, s)
  PROVE  Enumerates(k + 1, IF Eligible(k + 1) THEN Append(s, k + 1) ELSE s)
  <1>1. Len(pods) \in Nat /\ s \in Seq(Numbers) /\ Len(s) \in Nat /\ k + 1 \in Numbers
    BY DEF Enumerates, Numbers
  <1>2. CASE Eligible(k + 1)
    <2> DEFINE t == Append(s, k + 1)
    <2>1. /\ t \in Seq(Numbers) /\ DOMAIN t = 1 .. Len(s) + 1 /\ DOMAIN s = 1 .. Len(s)
          /\ t[Len(s) + 1] = k + 1
          /\ \A i \in 1 .. Len(s) : t[i] = s[i]
      BY <1>1
    <2> HIDE DEF t
    <2>2. \A i \in DOMAIN s : s[i] \in Int /\ s[i] <= k /\ Eligible(s[i])
      BY <1>1 DEF Enumerates, Numbers
    <2>3. \A i \in DOMAIN t : t[i] <= k + 1 /\ Eligible(t[i])
      BY <1>1, <1>2, <2>1, <2>2
    <2>4. \A i, j \in DOMAIN t : i < j => t[i] < t[j]
      BY <1>1, <2>1, <2>2 DEF Enumerates
    <2>5. \A n \in 1 .. k + 1 : Eligible(n) => \E i \in DOMAIN t : t[i] = n
      <3> TAKE n \in 1 .. k + 1
      <3>1. CASE n = k + 1
        BY <1>1, <2>1, <3>1
      <3>2. CASE n \in 1 .. k
        BY <1>1, <2>1, <3>2 DEF Enumerates
      <3> QED
        BY <3>1, <3>2
    <2>6. Enumerates(k + 1, t)
      BY <2>1, <2>3, <2>4, <2>5 DEF Enumerates
    <2> QED
      BY <1>2, <2>6 DEF t
  <1>3. CASE ~Eligible(k + 1)
    <2>1. \A i \in DOMAIN s : s[i] \in Int /\ s[i] <= k + 1
      BY <1>1 DEF Enumerates, Numbers
    <2>2. \A n \in 1 .. k + 1 : Eligible(n) => n \in 1 .. k
      BY <1>3
    <2>3. Enumerates(k + 1, s)
      BY <2>1, <2>2 DEF Enumerates
    <2> QED
      BY <1>3, <2>3
  <1> QED
    BY <1>2, <1>3

\* The loop collects the eligible pods, in the order of the list, each once.
THEOREM LoopEnumerates ==
  ASSUME pods \in Seq(Pods)
  PROVE  Enumerates(Len(pods), Collected[Len(pods)])
  <1> DEFINE N == Len(pods)
             T == {k \in 0 .. N : Enumerates(k, Collected[k])}
  <1>1. N \in Nat
    OBVIOUS
  <1>2. 0 \in T
    <2>1. Enumerates(0, <<>>)
      BY DEF Enumerates
    <2> QED
      BY <1>1, <2>1, CollectedUnfolds
  <1>3. ASSUME NEW k \in 0 .. N - 1, k \in T
        PROVE  k + 1 \in T
    <2>1. Enumerates(k + 1, IF Eligible(k + 1) THEN Append(Collected[k], k + 1) ELSE Collected[k])
      BY <1>3, EnumerationGrows
    <2>2. k + 1 \in Numbers /\ (k + 1) - 1 = k
      BY <1>1 DEF Numbers
    <2>3. Collected[k + 1] = IF Eligible(k + 1) THEN Append(Collected[k], k + 1) ELSE Collected[k]
      BY <2>2, CollectedUnfolds
    <2> QED
      BY <1>1, <2>1, <2>3
  <1>4. 0 .. N \subseteq T
    <2> HIDE DEF T, N
    <2> QED
      BY <1>1, <1>2, <1>3, InductionUpTo
  <1> QED
    BY <1>1, <1>4

-----------------------------------------------------------------------------
(* How many pods are chosen.                                               *)

\* A percentage of n, rounded down, is within n and its own bounds.
LEMMA ShareBounds ==
  ASSUME NEW n \in Nat, NEW p \in 1 .. 100
  PROVE  LET k == (n * p) \div 100
         IN  k \in 0 .. n /\ 100 * k <= n * p /\ n * p < 100 * (k + 1)
  <1> DEFINE m == n * p
             k == m \div 100
  <1>1. m \in Nat /\ m <= 100 * n
    BY SMTT(20)
  <1> HIDE DEF m
  <1>2. k \in Nat /\ 100 * k <= m /\ m < 100 * (k + 1)
    BY <1>1
  <1> HIDE DEF k
  <1>3. k <= n
    BY <1>1, <1>2
  <1> QED
    BY <1>2, <1>3 DEF k, m

\* The inputs do not change, and what is returned is a slice of the candidates,
\* which are pods there are.
InputTypes ==
  /\ pods \in Seq(Pods)
  /\ targets \in Seq(Nat)
  /\ perc \in Percentages \cup {Unset, Garbage}

Returns ==
  \/ result \in {None, Error}
  \/ /\ \A i \in DOMAIN targets : targets[i] \in DOMAIN pods
     /\ \E cap \in Len(Candidates) .. 2 * Len(Candidates) :
          result = Sliced(Candidates, Wanted(Len(Candidates)), cap)

IInv == InputTypes /\ Returns

LEMMA CandidatesType ==
  ASSUME InputTypes
  PROVE  Candidates \in Seq(Nat)
  <1>1. Collected[Len(pods)] \in Seq(Nat)
    BY LoopEnumerates DEF InputTypes, Enumerates, Numbers
  <1> QED
    BY <1>1 DEF Candidates, InputTypes

LEMMA InitIInv == Init => IInv
  <1> SUFFICES ASSUME Init PROVE IInv
    OBVIOUS
  <1>1. \A S : \A s \in SeqUpTo(S) : s \in Seq(S)
    BY BoundsAssumption DEF SeqUpTo
  <1>2. pods \in Seq(Pods) /\ targets \in Seq(0 .. Len(pods))
    BY <1>1 DEF Init
  <1>3. targets \in Seq(Nat)
    BY <1>2
  <1> QED
    BY <1>2, <1>3 DEF Init, IInv, InputTypes, Returns

LEMMA StepIInv == IInv /\ [Filter]_vars => IInv'
  <1> SUFFICES ASSUME IInv, [Filter]_vars PROVE IInv'
    OBVIOUS
  <1>1. pods' = pods /\ targets' = targets /\ perc' = perc
    BY DEF Filter, vars
  <1>2. /\ Candidates' = Candidates
        /\ \A n : Wanted(n)' = Wanted(n)
    BY <1>1 DEF Candidates, Collected, Eligible, Wanted, Quotient, Percentage
  <1>3. CASE UNCHANGED vars
    BY <1>1, <1>2, <1>3 DEF vars, IInv, InputTypes, Returns
  <1>4. CASE Filter
    <2>1. CASE result' = Error
      BY <1>1, <2>1 DEF IInv, InputTypes, Returns
    <2>2. CASE /\ \A i \in DOMAIN targets : targets[i] \in DOMAIN pods
               /\ \E cap \in Len(Candidates) .. 2 * Len(Candidates) :
                    result' = Sliced(Candidates, Wanted(Len(Candidates)), cap)
      BY <1>1, <1>2, <2>2 DEF IInv, InputTypes, Returns
    <2> QED
      BY <1>4, <2>1, <2>2 DEF Filter
  <1> QED
    BY <1>3, <1>4

LEMMA IInvImpliesShare == IInv => ShareIsExact
  <1> SUFFICES ASSUME IInv, Valid, result # None
               PROVE  /\ result # Panic
                      /\ result.kind = "pods" =>
                           LET n == Len(Candidates)  k == Len(result.pods)
                           IN  /\ result.pods = SubSeq(Candidates, 1, k)
                               /\ 100 * k <= n * perc /\ n * perc < 100 * (k + 1)
    BY DEF ShareIsExact
  <1>1. CASE result = Error
    BY <1>1 DEF Error, Panic
  <1>2. CASE result # Error
    <2> DEFINE s == Candidates
               n == Len(s)
               k == (n * perc) \div 100
    <2>1. s \in Seq(Nat) /\ n \in Nat
      BY CandidatesType DEF IInv
    <2>2. PICK cap \in n .. 2 * n : result = Sliced(s, Wanted(n), cap)
      BY <1>2 DEF IInv, Returns
    <2>3. perc \in 1 .. 100
      BY DEF Valid
    <2>4. Percentage = perc
      <3>1. perc \in Int /\ {Unset, Garbage} \cap Int = {}
        BY <2>3, BoundsAssumption
      <3>2. perc \notin {Unset, Garbage}
        BY <3>1
      <3> QED
        BY <3>2 DEF Percentage
    <2>5. Wanted(n) = k
      BY <2>3, <2>4 DEF Wanted, Quotient
    <2>6. k \in 0 .. n /\ 100 * k <= n * perc /\ n * perc < 100 * (k + 1)
      BY <2>1, <2>3, ShareBounds
    <2> HIDE DEF s, n, k
    <2>7. n = Len(s)
      BY DEF n
    <2>8. k # 0 /\ result = Chosen([i \in 1 .. k |-> IF i <= Len(s) THEN s[i] ELSE 0])
      BY <1>2, <2>1, <2>2, <2>5, <2>6 DEF Sliced
    <2>9. [i \in 1 .. k |-> IF i <= Len(s) THEN s[i] ELSE 0] = SubSeq(s, 1, k)
      BY <2>1, <2>6, <2>7
    <2>10. Len(SubSeq(s, 1, k)) = k
      BY <2>1, <2>6, <2>7
    <2>11. result.pods = SubSeq(s, 1, k) /\ result # Panic
      BY <2>8, <2>9 DEF Chosen, Panic
    <2> QED
      BY <2>6, <2>10, <2>11 DEF s, n
  <1> QED
    BY <1>1, <1>2

LEMMA IInvImpliesFirst == IInv => PodsComeFirst
  <1> SUFFICES ASSUME IInv, result.kind = "pods"
               PROVE  \E real \in 1 .. Len(result.pods) :
                        /\ real <= Len(Candidates)
                        /\ \A i \in 1 .. real : /\ result.pods[i] = Candidates[i]
                                                /\ Candidates[i] \in DOMAIN pods
                        /\ \A i \in real + 1 .. Len(result.pods) :
                             real = Len(Candidates) /\ result.pods[i] = 0
    BY DEF PodsComeFirst
  <1> DEFINE s == Candidates
             n == Len(s)
  <1>1. result \notin {None, Error, Panic}
    BY DEF None, Error, Panic
  <1>2. s \in Seq(Nat) /\ n \in Nat
    BY CandidatesType DEF IInv
  <1>3. /\ \A i \in DOMAIN targets : targets[i] \in DOMAIN pods
        /\ \E cap \in n .. 2 * n : result = Sliced(s, Wanted(n), cap)
    BY <1>1 DEF IInv, Returns
  <1>4. \A i \in 1 .. n : s[i] \in DOMAIN pods
    <2>1. CASE targets # <<>>
      BY <1>2, <1>3, <2>1 DEF Candidates, IInv, InputTypes
    <2>2. CASE targets = <<>>
      <3>1. s \in Seq(Numbers)
        BY <2>2, LoopEnumerates DEF Candidates, IInv, InputTypes, Enumerates
      <3>2. DOMAIN pods = Numbers
        BY DEF IInv, InputTypes, Numbers
      <3> HIDE DEF s
      <3> QED
        BY <3>1, <3>2
    <2> QED
      BY <2>1, <2>2
  <1> HIDE DEF s
  <1>5. PICK cap \in n .. 2 * n : result = Sliced(s, Wanted(n), cap)
    BY <1>3
  <1>6. Wanted(n) \in Int
    <2>1. Percentage \in Int
      BY BoundsAssumption DEF Percentage, IInv, InputTypes
    <2>2. n * Percentage \in Int /\ n * (-Percentage) \in Int
      BY <1>2, <2>1
    <2> HIDE DEF n
    <2>3. (n * Percentage) \div 100 \in Int /\ -((n * (-Percentage)) \div 100) \in Int
      BY <2>2
    <2> QED
      BY <2>3 DEF Wanted, Quotient
  <1> DEFINE k == Wanted(n)
             ps == [i \in 1 .. k |-> IF i <= Len(s) THEN s[i] ELSE 0]
  <1>7. k \in Nat /\ k # 0 /\ k <= cap /\ result = Chosen(ps)
    BY <1>1, <1>2, <1>5, <1>6 DEF Sliced
  <1>8. result.pods = ps
    BY <1>7 DEF Chosen
  <1> HIDE DEF k
  <1>9. Len(ps) = k /\ \A i \in 1 .. k : ps[i] = IF i <= n THEN s[i] ELSE 0
    BY <1>7
  <1> HIDE DEF ps
  <1>10. n # 0
    BY <1>2, <1>7
  <1> HIDE DEF n
  <1>11. CASE k <= n
    <2>1. /\ \A i \in 1 .. k : ps[i] = s[i] /\ s[i] \in DOMAIN pods
          /\ k \in 1 .. k /\ k + 1 .. k = {}
      BY <1>2, <1>4, <1>7, <1>9, <1>11
    <2> QED
      BY <1>8, <1>9, <1>11, <2>1 DEF s, n
  <1>12. CASE k > n
    <2>1. /\ \A i \in 1 .. n : ps[i] = s[i] /\ s[i] \in DOMAIN pods
          /\ \A i \in n + 1 .. k : ps[i] = 0
          /\ n \in 1 .. k /\ n <= n
      BY <1>2, <1>4, <1>7, <1>9, <1>10, <1>12
    <2> QED
      BY <1>8, <1>9, <2>1 DEF s, n
  <1> QED
    BY <1>2, <1>7, <1>11, <1>12

\* With a percentage from 1 to 100, FilterTargetPods returns the exact share of
\* the candidates, or an error, and never panics, however many pods there are
\* and whatever capacity append left behind them.
THEOREM ShareExact == Spec => []ShareIsExact
  <1> QED
    BY InitIInv, StepIInv, IInvImpliesShare, PTL DEF Spec

\* Whatever the percentage, the pods that are returned are the first candidates,
\* one at least and all of them pods there are, and no others come before them.
THEOREM FirstPodsFirst == Spec => []PodsComeFirst
  <1> QED
    BY InitIInv, StepIInv, IInvImpliesFirst, PTL DEF Spec
=============================================================================
