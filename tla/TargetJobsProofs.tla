--------------------------- MODULE TargetJobsProofs ---------------------------
(***************************************************************************)
(* Proofs about TargetJobs, for any manifest, any files and any number of  *)
(* pods, hosts and addresses.                                              *)
(***************************************************************************)
EXTENDS TargetJobs, SetInduction, TLAPS

-----------------------------------------------------------------------------
(* Lists.                                                                  *)

LEMMA ListOfAny ==
  ASSUME NEW S, NEW s \in Seq(S)
  PROVE  IsList(s)
  BY DEF IsList

LEMMA AppendToList ==
  ASSUME NEW s, IsList(s), NEW e
  PROVE  LET t == Append(s, e)
         IN  /\ IsList(t) /\ Len(s) \in Nat /\ Len(t) = Len(s) + 1
             /\ DOMAIN s = 1 .. Len(s) /\ DOMAIN t = 1 .. Len(s) + 1
             /\ t[Len(s) + 1] = e
             /\ \A i \in 1 .. Len(s) : t[i] = s[i]
  <1> DEFINE S == {s[i] : i \in DOMAIN s} \cup {e}
  <1>1. s \in Seq(S) /\ e \in S
    BY DEF IsList
  <1> HIDE DEF S
  <1> DEFINE t == Append(s, e)
  <1>2. t \in Seq(S)
    BY <1>1
  <1>3. IsList(t)
    BY <1>2, ListOfAny
  <1> QED
    BY <1>1, <1>3

LEMMA JoinLists ==
  ASSUME NEW s, IsList(s), NEW r, IsList(r)
  PROVE  LET t == s \o r
         IN  /\ IsList(t) /\ Len(s) \in Nat /\ Len(r) \in Nat /\ Len(t) = Len(s) + Len(r)
             /\ DOMAIN s = 1 .. Len(s) /\ DOMAIN r = 1 .. Len(r)
             /\ DOMAIN t = 1 .. Len(s) + Len(r)
             /\ \A i \in 1 .. Len(s) : t[i] = s[i]
             /\ \A i \in 1 .. Len(r) : t[Len(s) + i] = r[i]
  <1> DEFINE S == {s[i] : i \in DOMAIN s} \cup {r[i] : i \in DOMAIN r}
  <1>1. s \in Seq(S) /\ r \in Seq(S)
    BY DEF IsList
  <1> HIDE DEF S
  <1> DEFINE t == s \o r
  <1>2. t \in Seq(S)
    BY <1>1
  <1>3. IsList(t)
    BY <1>2, ListOfAny
  <1> QED
    BY <1>1, <1>3

-----------------------------------------------------------------------------
(* The loop over the addresses of a host.                                  *)

\* What the loop has kept of the first i addresses: a list of those that are
\* addresses of four bytes.
Keeps(answer, i, s) ==
  /\ s \in Seq(ToSet(answer))
  /\ ToSet(s) = {answer[k] : k \in 1 .. i} \cap IPv4

LEMMA KeepsOneMore ==
  ASSUME NEW answer, IsList(answer), NEW i \in 0 .. Len(answer) - 1, NEW s, Keeps(answer, i, s)
  PROVE  Keeps(answer, i + 1, IF answer[i + 1] \in IPv4 THEN Append(s, answer[i + 1]) ELSE s)
  <1> DEFINE S == ToSet(answer)
             a == answer[i + 1]
  <1>1. Len(answer) \in Nat /\ DOMAIN answer = 1 .. Len(answer) /\ a \in S
    BY DEF IsList, ToSet
  <1>2. {answer[k] : k \in 1 .. i + 1} = {answer[k] : k \in 1 .. i} \cup {a}
    <2>1. 1 .. i + 1 = (1 .. i) \cup {i + 1}
      BY <1>1
    <2> QED
      BY <2>1
  <1> HIDE DEF S, a
  <1>3. s \in Seq(S) /\ ToSet(s) = {answer[k] : k \in 1 .. i} \cap IPv4
    BY DEF Keeps, S
  <1>4. CASE a \in IPv4
    <2>1. Append(s, a) \in Seq(S)
      BY <1>1, <1>3
    <2>2. ToSet(Append(s, a)) = ToSet(s) \cup {a}
      <3>1. /\ DOMAIN s = 1 .. Len(s) /\ DOMAIN Append(s, a) = 1 .. Len(s) + 1 /\ Len(s) \in Nat
            /\ Append(s, a)[Len(s) + 1] = a
            /\ \A k \in 1 .. Len(s) : Append(s, a)[k] = s[k]
        BY <1>1, <1>3
      <3> QED
        BY <3>1 DEF ToSet
    <2>3. ToSet(Append(s, a)) = {answer[k] : k \in 1 .. i + 1} \cap IPv4
      BY <1>2, <1>3, <1>4, <2>2
    <2> QED
      BY <1>4, <2>1, <2>3 DEF Keeps, S, a
  <1>5. CASE a \notin IPv4
    <2>1. ToSet(s) = {answer[k] : k \in 1 .. i + 1} \cap IPv4
      BY <1>2, <1>3, <1>5
    <2> QED
      BY <1>3, <1>5, <2>1 DEF Keeps, S, a
  <1> QED
    BY <1>4, <1>5

\* LookUpHost returns a list of exactly those addresses of the answer that are
\* addresses of four bytes.
THEOREM LookUpKeepsIPv4 ==
  ASSUME NEW answer, IsList(answer)
  PROVE  /\ IsList(LookUpHost(answer))
         /\ ToSet(LookUpHost(answer)) = ToSet(answer) \cap IPv4
  <1> DEFINE N == Len(answer)
             S == Seq(ToSet(answer))
             kept[i \in 0 .. Len(answer)] ==
               IF i = 0 THEN <<>>
               ELSE IF answer[i] \in IPv4 THEN Append(kept[i - 1], answer[i]) ELSE kept[i - 1]
             onward == [a \in (1 .. N) \X S |->
                          IF answer[a[1]] \in IPv4 THEN Append(a[2], answer[a[1]]) ELSE a[2]]
  <1>1. /\ N \in Nat /\ DOMAIN answer = 1 .. N /\ <<>> \in S
        /\ \A i \in 1 .. N : answer[i] \in ToSet(answer)
    BY DEF IsList, ToSet
  <1>2. LookUpHost(answer) = kept[N]
    BY DEF LookUpHost
  <1> HIDE DEF N
  <1>3. onward \in [(1 .. N) \X S -> S]
    <2> SUFFICES ASSUME NEW i \in 1 .. N, NEW s \in S
                 PROVE  Append(s, answer[i]) \in S
      OBVIOUS
    <2> QED
      BY <1>1
  <1>4. PICK g : Follows(g, N, S, <<>>, onward)
    <2> HIDE DEF onward, S, kept
    <2> QED
      BY <1>1, <1>3, RecursionUpTo
  <1>5. ASSUME NEW i \in 1 .. N
        PROVE  g[i] = IF answer[i] \in IPv4 THEN Append(g[i - 1], answer[i]) ELSE g[i - 1]
    <2>1. <<i, g[i - 1]>> \in (1 .. N) \X S
      <3> HIDE DEF S, kept
      <3> QED
        BY <1>1, <1>4 DEF Follows
    <2> HIDE DEF kept
    <2> QED
      BY <1>4, <2>1 DEF Follows
  <1>6. g = [i \in 0 .. N |->
               IF i = 0 THEN <<>>
               ELSE IF answer[i] \in IPv4 THEN Append(g[i - 1], answer[i]) ELSE g[i - 1]]
    <2>1. \A i \in 0 .. N : i # 0 => i \in 1 .. N
      BY <1>1
    <2> HIDE DEF onward, S, kept
    <2> QED
      BY <1>4, <1>5, <2>1 DEF Follows
  <1>7. kept = [i \in 0 .. N |->
                  IF i = 0 THEN <<>>
                  ELSE IF answer[i] \in IPv4 THEN Append(kept[i - 1], answer[i]) ELSE kept[i - 1]]
    <2> HIDE DEF onward, S
    <2> QED
      BY <1>6 DEF N
  <1> DEFINE T == {i \in 0 .. N : Keeps(answer, i, kept[i])}
  <1>8. 0 \in T
    <2>1. kept[0] = <<>> /\ 0 \in 0 .. N
      <3> HIDE DEF kept
      <3> QED
        BY <1>1, <1>7
    <2>2. Keeps(answer, 0, <<>>)
      BY DEF Keeps, ToSet
    <2> HIDE DEF kept
    <2> QED
      BY <2>1, <2>2
  <1> HIDE DEF kept, onward, S
  <1>9. ASSUME NEW i \in 0 .. N - 1, i \in T
        PROVE  i + 1 \in T
    <2>1. i + 1 \in 0 .. N /\ i + 1 # 0 /\ (i + 1) - 1 = i
      BY <1>1
    <2>2. kept[i + 1] = IF answer[i + 1] \in IPv4 THEN Append(kept[i], answer[i + 1]) ELSE kept[i]
      BY <1>7, <2>1
    <2>3. Keeps(answer, i + 1, IF answer[i + 1] \in IPv4 THEN Append(kept[i], answer[i + 1]) ELSE kept[i])
      BY <1>9, KeepsOneMore DEF N
    <2> QED
      BY <2>1, <2>2, <2>3
  <1>10. 0 .. N \subseteq T
    <2> HIDE DEF T
    <2> QED
      BY <1>1, <1>8, <1>9, InductionUpTo
  <1>11. Keeps(answer, N, kept[N])
    BY <1>1, <1>10
  <1>12. {answer[k] : k \in 1 .. N} = ToSet(answer)
    BY <1>1 DEF ToSet
  <1> QED
    BY <1>2, <1>11, <1>12, ListOfAny DEF Keeps

-----------------------------------------------------------------------------
(* What the user asked for.                                                *)

Fields == {"type", "config", "image", "serviceAccountName"}

\* The runner of a network fault works on pods.
LEMMA NetworkFansOut == Network => FanOut
  BY DEF Network, FanOut, Runners, Profile, runNetworkChaos

\* Only the manifest says what is asked for.
LEMMA SameRequest ==
  ASSUME manifest' = manifest
  PROVE  /\ FanOut' = FanOut /\ Network' = Network /\ Changed' = Changed
         /\ \A key : Asked(key)' = Asked(key)
  <1>1. /\ FanOut' = FanOut /\ Network' = Network
        /\ \A key : Asked(key)' = Asked(key)
    BY DEF FanOut, Network, Asked
  <1> QED
    BY <1>1 DEF Changed

LEMMA AskedIsList ==
  ASSUME manifest \in Manifests, NEW key
  PROVE  IsList(Asked(key))
  <1>1. IsList(Empty)
    BY DEF IsList, Empty
  <1>2. CASE key \in DOMAIN manifest.config
    BY <1>2, TargetAssumption DEF Asked
  <1>3. CASE key \in DOMAIN TypeFile(manifest.type).env
    BY <1>2, <1>3, FilesAssumption DEF Asked, TypeFile, NoFile
  <1>4. IsList(Value(Common.env, key))
    BY <1>1, FilesAssumption DEF Value
  <1> QED
    BY <1>2, <1>3, <1>4 DEF Asked

\* OverrideConfig adds to the manifest what it leaves out.
LEMMA OverrideKeeps ==
  ASSUME manifest \in Manifests
  PROVE  LET s == OverrideConfig(manifest)
         IN  /\ DOMAIN s = Fields
             /\ Kept(s.config, s.image, s.serviceAccountName)
             /\ \A key : Value(s.config, key) = Asked(key)
  <1> DEFINE s == OverrideConfig(manifest)
             d == PopulateDefault(manifest.type)
             c == Over(manifest.config, Over(TypeFile(manifest.type).env, Common.env))
  <1>1. DOMAIN manifest = Fields
    BY TargetAssumption DEF Fields
  <1>2. d.env = Over(TypeFile(manifest.type).env, Common.env)
    BY DEF PopulateDefault
  <1>3. /\ DOMAIN s = Fields
        /\ s.config = Over(manifest.config, d.env)
        /\ s.image = OrElse(manifest.image, d.image)
        /\ s.serviceAccountName = OrElse(manifest.serviceAccountName, d.serviceAccountName)
    <2> HIDE DEF d
    <2> QED
      BY <1>1 DEF OverrideConfig, Fields, d
  <1>4. s.config = c
    BY <1>2, <1>3
  <1>5. DOMAIN c = DOMAIN manifest.config \cup DOMAIN TypeFile(manifest.type).env \cup DOMAIN Common.env
    BY DEF Over
  <1>6. \A key : Value(c, key) = Asked(key)
    BY <1>5 DEF Over, Value, Asked
  <1>7. \A key \in DOMAIN c : c[key] = Asked(key)
    BY <1>6 DEF Value
  <1> HIDE DEF s, d, c
  <1>8. Kept(s.config, s.image, s.serviceAccountName)
    BY <1>3, <1>4, <1>5, <1>7 DEF Kept, OrElse
  <1> QED
    BY <1>3, <1>4, <1>6, <1>8 DEF s

\* A setting no runner changes has the value that was asked for.
LEMMA KeptValue ==
  ASSUME NEW config, NEW image, NEW account, Kept(config, image, account),
         NEW key, key \notin Changed
  PROVE  Value(config, key) = Asked(key)
  <1>1. CASE key \in DOMAIN config
    BY <1>1 DEF Kept, Value
  <1>2. CASE key \notin DOMAIN config
    BY <1>2 DEF Kept, Value, Asked
  <1> QED
    BY <1>1, <1>2

\* Writing a setting that may be changed keeps the others.
LEMMA KeptWhenWritten ==
  ASSUME NEW config, NEW image, NEW account, Kept(config, image, account),
         NEW key, NEW value, key \in Changed \/ value = Asked(key)
  PROVE  Kept(Put(config, key, value), image, account)
  <1> DEFINE c == Put(config, key, value)
  <1>1. /\ DOMAIN c = DOMAIN config \cup {key}
        /\ c[key] = value
        /\ \A k \in DOMAIN config : k # key => c[k] = config[k]
    BY DEF Put
  <1> HIDE DEF c
  <1>2. \A k \in DOMAIN c \ Changed : c[k] = Asked(k)
    BY <1>1 DEF Kept
  <1>3. Kept(c, image, account)
    BY <1>1, <1>2 DEF Kept
  <1> QED
    BY <1>3 DEF c

-----------------------------------------------------------------------------
(* The steps.                                                              *)

JobsFit == SettingsReachJobs /\ TargetsAreServed /\ ContainerFits /\ HostsAreCovered

\* The conjuncts about the Jobs hold after a step that creates none.
LEMMA JobsStay ==
  ASSUME IInv, manifest' = manifest, pods' = pods, jobs' = jobs, pc' = "created" => pc = "created"
  PROVE  JobsFit'
  <1>1. /\ FanOut' = FanOut /\ Network' = Network /\ Changed' = Changed
        /\ \A key : Asked(key)' = Asked(key)
    BY SameRequest
  <1>2. SettingsReachJobs'
    BY <1>1 DEF IInv, SettingsReachJobs, Kept
  <1>3. TargetsAreServed'
    BY <1>1 DEF IInv, TargetsAreServed
  <1>4. ContainerFits'
    BY <1>1 DEF IInv, ContainerFits, Alike
  <1>5. HostsAreCovered'
    <2>1. \A ips, own, before : Covered(ips, own, before)' <=> Covered(ips, own, before)
      BY <1>1 DEF Covered
    <2>2. \A n : Found(n)' = Found(n)
      BY DEF Found
    <2>3. \A i \in DOMAIN jobs :
            Covered(Value(jobs[i].env, "DESTINATION_IPS"), ToSet(jobs[i].answers), Found(i - 1))
      BY DEF IInv, HostsAreCovered
    <2> QED
      BY <2>1, <2>2, <2>3 DEF HostsAreCovered
  <1> QED
    BY <1>2, <1>3, <1>4, <1>5 DEF JobsFit

\* ... as after one that comes before the first Job.
LEMMA NoJobsYet ==
  ASSUME jobs = <<>>, pc # "created"
  PROVE  JobsFit
  BY DEF JobsFit, SettingsReachJobs, TargetsAreServed, ContainerFits, HostsAreCovered

LEMMA InitIInv == Init => IInv
  <1> SUFFICES ASSUME Init PROVE IInv
    OBVIOUS
  <1>1. JobsFit
    BY NoJobsYet DEF Init
  <1>2. Progress
    BY TargetAssumption DEF Init, Progress, IsList
  <1>3. StepIsKept /\ TargetIsSet /\ ListGrows
    BY DEF Init, StepIsKept, TargetIsSet, ListGrows
  <1> QED
    BY <1>1, <1>2, <1>3 DEF IInv, JobsFit

\* A list that has only what was asked for is covered.
LEMMA AskedIsCovered ==
  ASSUME manifest \in Manifests, NEW before
  PROVE  Covered(Asked("DESTINATION_IPS"), {}, before)
  <1> DEFINE asked == Asked("DESTINATION_IPS")
  <1>1. IsList(asked)
    BY AskedIsList
  <1> HIDE DEF asked
  <1>2. Len(asked) \in Nat /\ IsPrefix(asked, asked)
    BY <1>1 DEF IsList, IsPrefix
  <1> QED
    BY <1>2 DEF Covered, asked

LEMMA OverrideStep ==
  ASSUME IInv, Override
  PROVE  IInv'
  <1> USE DEF IInv
  <1>1. /\ manifest' = manifest /\ manifest \in Manifests
        /\ step' = OverrideConfig(manifest)
        /\ jobs' = <<>> /\ answers' = <<>>
        /\ pods' = pods /\ target' = 1 /\ host' = host
        /\ pc' = IF FanOut THEN "filter" ELSE "single"
    BY DEF Override, Progress
  <1>2. FanOut' = FanOut /\ Changed' = Changed /\ \A key : Asked(key)' = Asked(key)
    BY <1>1, SameRequest
  <1>3. /\ DOMAIN step' = Fields
        /\ Kept(step.config, step.image, step.serviceAccountName)'
        /\ \A key : Value(step'.config, key) = Asked(key)
    BY <1>1, <1>2, OverrideKeeps DEF Kept
  <1>4. Progress'
    <2>1. IsList(<<>>)
      BY DEF IsList
    <2> QED
      BY <1>1, <1>2, <1>3, <2>1 DEF Progress, Fields
  <1>5. StepIsKept' /\ TargetIsSet'
    BY <1>1, <1>3 DEF StepIsKept, TargetIsSet
  <1>6. ListGrows'
    <2>1. Setting("DESTINATION_IPS")' = Asked("DESTINATION_IPS")
      BY <1>3 DEF Setting
    <2>2. IsList(Setting("DESTINATION_IPS"))' /\ ToSet(answers)' = {}
      BY <1>1, <2>1, AskedIsList DEF IsList, ToSet
    <2>3. Covered(Setting("DESTINATION_IPS"), ToSet(answers), Found(Len(jobs)))'
      BY <1>1, <1>2, <2>1, <2>2, AskedIsCovered DEF Covered
    <2>4. Found(Len(jobs))' = {}
      BY <1>1 DEF Found
    <2> QED
      BY <2>2, <2>3, <2>4 DEF ListGrows
  <1>7. JobsFit'
    BY <1>1 DEF JobsFit, SettingsReachJobs, TargetsAreServed, ContainerFits, HostsAreCovered
  <1> QED
    BY <1>4, <1>5, <1>6, <1>7 DEF JobsFit

\* Little is asked of a runner that has given up, or does nothing.
LEMMA FailedStep ==
  ASSUME IInv, UNCHANGED <<manifest, step, pods, target, host, answers, jobs>>,
         \/ pc' \in {"failed", "panicked"} /\ pc # "override"
         \/ pc' = pc
  PROVE  IInv'
  <1> USE DEF IInv
  <1>1. FanOut' = FanOut /\ Changed' = Changed /\ \A key : Asked(key)' = Asked(key)
    BY SameRequest
  <1>2. Progress'
    BY <1>1 DEF Progress
  <1>3. StepIsKept' /\ TargetIsSet'
    <2>1. \A n : Alike(n)' <=> Alike(n)
      BY DEF Alike
    <2> QED
      BY <1>1, <2>1 DEF StepIsKept, TargetIsSet, Kept, Setting
  <1>4. ListGrows'
    <2>1. \A ips, own, before : Covered(ips, own, before)' <=> Covered(ips, own, before)
      BY <1>1 DEF Covered
    <2>2. Setting("DESTINATION_IPS")' = Setting("DESTINATION_IPS") /\ Found(Len(jobs))' = Found(Len(jobs))
      BY DEF Setting, Found
    <2> QED
      BY <2>1, <2>2 DEF ListGrows
  <1>5. JobsFit'
    BY JobsStay
  <1> QED
    BY <1>2, <1>3, <1>4, <1>5 DEF JobsFit

LEMMA FilterStep ==
  ASSUME IInv, FilterTargetPods
  PROVE  IInv'
  <1> USE DEF IInv
  <1>1. /\ UNCHANGED <<manifest, step, target, host, answers, jobs>>
        /\ pc = "filter" /\ pc' = "target"
        /\ jobs = <<>> /\ answers = <<>> /\ target = 1 /\ FanOut
        /\ manifest \in Manifests /\ step = OverrideConfig(manifest)
    BY DEF FilterTargetPods, Progress
  <1>2. FanOut' = FanOut /\ Changed' = Changed /\ \A key : Asked(key)' = Asked(key)
    BY <1>1, SameRequest
  <1>3. IsList(pods') /\ 1 <= Len(pods')
    <2>1. PICK n \in 1 .. MaxTargets : \E real \in 1 .. n : \E chosen \in [1 .. real -> Pods] :
            pods' = chosen \o [i \in 1 .. n - real |-> NoPod]
      BY DEF FilterTargetPods
    <2>2. PICK real \in 1 .. n : \E chosen \in [1 .. real -> Pods] :
            pods' = chosen \o [i \in 1 .. n - real |-> NoPod]
      BY <2>1
    <2>3. PICK chosen \in [1 .. real -> Pods] :
            pods' = chosen \o [i \in 1 .. n - real |-> NoPod]
      BY <2>2
    <2> DEFINE rest == [i \in 1 .. n - real |-> NoPod]
    <2>4. real \in Nat \ {0} /\ n - real \in Nat
      BY TargetAssumption
    <2>5. chosen \in Seq(Pods) /\ Len(chosen) = real
      BY <2>4
    <2>6. rest \in Seq({NoPod})
      BY <2>4
    <2>7. IsList(chosen) /\ IsList(rest)
      BY <2>5, <2>6, ListOfAny
    <2> HIDE DEF rest
    <2> QED
      BY <2>3, <2>4, <2>5, <2>7, JoinLists DEF rest
  <1>4. Progress'
    BY <1>1, <1>2, <1>3 DEF Progress
  <1>5. StepIsKept'
    BY <1>1, <1>2 DEF StepIsKept, Kept
  <1>6. TargetIsSet'
    <2>1. Setting("APP_CONTAINER")' = Asked("APP_CONTAINER")
      BY <1>1, OverrideKeeps DEF Setting
    <2> QED
      BY <1>1, <1>2, <2>1 DEF TargetIsSet
  <1>7. ListGrows'
    BY <1>1, <1>2 DEF ListGrows, Covered, Found, Setting
  <1>8. JobsFit'
    BY <1>1 DEF JobsFit, SettingsReachJobs, TargetsAreServed, ContainerFits, HostsAreCovered
  <1> QED
    BY <1>4, <1>5, <1>6, <1>7, <1>8 DEF JobsFit

\* What the settings for one pod are: the ones they were but for the name of the
\* pod and, where there is none yet, that of the container.
LEMMA PopulatedSettings ==
  ASSUME NEW config, NEW pod, NEW image, NEW account, Kept(config, image, account), FanOut
  PROVE  LET c == Populated(config, pod)
         IN  /\ Kept(c, image, account)
             /\ {"APP_POD", "APP_CONTAINER"} \subseteq DOMAIN c
             /\ Value(c, "APP_POD") = pod.name
             /\ Value(c, "APP_CONTAINER") = OrElse(Value(config, "APP_CONTAINER"), pod.containers[1])
             /\ Value(c, "DESTINATION_IPS") = Value(config, "DESTINATION_IPS")
  <1> DEFINE container == OrElse(Value(config, "APP_CONTAINER"), pod.containers[1])
             b == Put(config, "APP_POD", pod.name)
             c == Put(b, "APP_CONTAINER", container)
  <1>1. "APP_CONTAINER" \in Changed \/ container = Asked("APP_CONTAINER")
    <2>1. CASE Asked("APP_CONTAINER") = Empty
      BY <2>1 DEF Changed
    <2>2. CASE Asked("APP_CONTAINER") # Empty
      <3>1. "APP_CONTAINER" \notin Changed
        BY <2>2 DEF Changed
      <3>2. Value(config, "APP_CONTAINER") = Asked("APP_CONTAINER")
        BY <3>1, KeptValue
      <3> QED
        BY <2>2, <3>2 DEF OrElse
    <2> QED
      BY <2>1, <2>2
  <1> HIDE DEF container
  <1>2. Kept(b, image, account)
    BY KeptWhenWritten DEF Changed
  <1> HIDE DEF b
  <1>3. Kept(c, image, account)
    BY <1>1, <1>2, KeptWhenWritten
  <1>4. /\ {"APP_POD", "APP_CONTAINER"} \subseteq DOMAIN c
        /\ Value(c, "APP_POD") = pod.name
        /\ Value(c, "APP_CONTAINER") = container
        /\ Value(c, "DESTINATION_IPS") = Value(config, "DESTINATION_IPS")
    BY DEF b, Put, Value
  <1>5. Populated(config, pod) = c
    BY DEF Populated, b, container
  <1> HIDE DEF c
  <1> QED
    BY <1>3, <1>4, <1>5 DEF container

LEMMA PopulateStep ==
  ASSUME IInv, PopulateTarget
  PROVE  IInv'
  <1> USE DEF IInv
  <1>1. /\ UNCHANGED <<manifest, pods, target, host, answers, jobs>>
        /\ pc = "target" /\ FanOut
        /\ target = Len(jobs) + 1 /\ target \in Nat /\ 1 <= target
    BY DEF PopulateTarget, Progress, IsList
  <1>2. FanOut' = FanOut /\ Changed' = Changed /\ \A key : Asked(key)' = Asked(key)
    BY <1>1, SameRequest
  <1>3. CASE pc' = "panicked" /\ UNCHANGED step
    BY <1>1, <1>3, FailedStep
  <1>4. CASE /\ pc' = "hosts"
             /\ step' = [step EXCEPT !.config = Populated(@, pods[target])]
    <2> DEFINE pod == pods[target]
               c == Populated(step.config, pod)
    <2>1. /\ DOMAIN step' = DOMAIN step /\ step'.config = c
          /\ step'.image = step.image /\ step'.serviceAccountName = step.serviceAccountName
      <3> HIDE DEF pod
      <3> QED
        BY <1>4 DEF Progress, pod
    <2>2. /\ Kept(c, step.image, step.serviceAccountName)
          /\ {"APP_POD", "APP_CONTAINER"} \subseteq DOMAIN c
          /\ Value(c, "APP_POD") = pod.name
          /\ Value(c, "APP_CONTAINER") = OrElse(Setting("APP_CONTAINER"), pod.containers[1])
          /\ Value(c, "DESTINATION_IPS") = Setting("DESTINATION_IPS")
      BY <1>1, PopulatedSettings DEF StepIsKept, Setting
    <2> HIDE DEF c
    <2>3. Progress'
      BY <1>1, <1>2, <1>4, <2>1 DEF Progress
    <2>4. StepIsKept'
      BY <1>1, <1>2, <2>1, <2>2 DEF StepIsKept, Kept
    <2>5. TargetIsSet'
      <3>1. ASSUME Asked("APP_CONTAINER") = Empty, Alike(target)
            PROVE  Setting("APP_CONTAINER")' = pods[1].containers[1]
        <4>1. Alike(target - 1) /\ pod.containers[1] = pods[1].containers[1]
          BY <1>1, <3>1 DEF Alike
        <4>2. Setting("APP_CONTAINER") \in {Empty, pods[1].containers[1]}
          BY <1>1, <3>1, <4>1 DEF TargetIsSet
        <4> QED
          BY <2>1, <2>2, <4>1, <4>2 DEF Setting, OrElse
      <3>2. Alike(target)' <=> Alike(target)
        BY <1>1 DEF Alike
      <3> QED
        BY <1>1, <1>2, <1>4, <2>1, <2>2, <3>1, <3>2 DEF TargetIsSet, Setting
    <2>6. ListGrows'
      <3>1. Setting("DESTINATION_IPS")' = Setting("DESTINATION_IPS")
        BY <2>1, <2>2 DEF Setting
      <3>2. \A ips, own, before : Covered(ips, own, before)' <=> Covered(ips, own, before)
        BY <1>2 DEF Covered
      <3>3. Found(Len(jobs))' = Found(Len(jobs))
        BY <1>1 DEF Found
      <3> QED
        BY <1>1, <3>1, <3>2, <3>3 DEF ListGrows
    <2>7. JobsFit'
      BY <1>1, <1>4, JobsStay
    <2> QED
      BY <2>3, <2>4, <2>5, <2>6, <2>7 DEF JobsFit
  <1> QED
    BY <1>3, <1>4 DEF PopulateTarget

\* The list of addresses, extended by those of one host.
Grown(ips, addrs) ==
  IF addrs = <<>> THEN ips ELSE IF ips = Empty THEN <<addrs>> ELSE ips \o Singles(addrs)

LEMMA GrownCovers ==
  ASSUME manifest \in Manifests, NEW ips, IsList(ips), NEW addrs, IsList(addrs),
         \E answer \in Answers : addrs = LookUpHost(answer),
         NEW own, NEW before, Covered(ips, own, before), ips = Empty => before = {}
  PROVE  /\ IsList(Grown(ips, addrs))
         /\ Covered(Grown(ips, addrs), own \cup ToSet(addrs), before)
         /\ Grown(ips, addrs) = Empty => before = {}
  <1> DEFINE asked == Asked("DESTINATION_IPS")
             JoinedAt(list, t) == t = 1 /\ \E answer \in Answers : list[t] = LookUpHost(answer)
             AllIn(list, all) ==
               \/ all \subseteq Listed(list)
               \/ /\ asked = Empty /\ before = {} /\ list # Empty
                  /\ all \ ToSet(list[1]) \subseteq Listed(list)
             new == Grown(ips, addrs)
  <1>1. IsList(asked)
    BY AskedIsList
  <1> HIDE DEF asked
  <1>2. /\ IsPrefix(asked, ips) /\ AllIn(ips, own)
        /\ \A t \in Len(asked) + 1 .. Len(ips) :
             /\ ToSet(ips[t]) \subseteq own \cup before
             /\ Len(ips[t]) = 1 \/ JoinedAt(ips, t)
    BY DEF Covered, asked
  <1>3. /\ Len(asked) \in Nat /\ Len(ips) \in Nat /\ Len(addrs) \in Nat
        /\ DOMAIN addrs = 1 .. Len(addrs) /\ DOMAIN ips = 1 .. Len(ips)
    BY <1>1 DEF IsList
  <1>4. Len(asked) <= Len(ips) /\ SubSeq(asked, 1, Len(asked)) = SubSeq(ips, 1, Len(asked))
    BY <1>2 DEF IsPrefix
  <1>5. \A t \in 1 .. Len(asked) : asked[t] = ips[t]
    <2>1. \A t \in 1 .. Len(asked) :
            /\ SubSeq(asked, 1, Len(asked))[t] = asked[t]
            /\ SubSeq(ips, 1, Len(asked))[t] = ips[t]
      BY <1>1, <1>3, <1>4 DEF IsList
    <2> QED
      BY <1>4, <2>1
  <1>6. CASE addrs = <<>>
    <2>1. new = ips /\ ToSet(addrs) = {}
      BY <1>6 DEF Grown, ToSet
    <2> QED
      BY <2>1
  <1>7. CASE addrs # <<>> /\ ips = Empty
    <2>1. new = <<addrs>> /\ asked = Empty
      BY <1>1, <1>3, <1>4, <1>7 DEF Grown, Empty, IsList
    <2>2. own = {}
      BY <1>2, <1>7 DEF Listed, Empty
    <2>3. IsList(new) /\ Len(new) = 1 /\ IsPrefix(asked, new) /\ Len(asked) = 0
      BY <2>1 DEF IsList, IsPrefix, Empty
    <2>4. Covered(new, own \cup ToSet(addrs), before)
      <3>1. new # Empty /\ new[1] = addrs
        BY <2>1, <2>3 DEF Empty
      <3>2. \A t \in Len(asked) + 1 .. Len(new) : t = 1
        BY <2>3
      <3>3. (own \cup ToSet(addrs)) \ ToSet(new[1]) = {}
        BY <2>2, <3>1
      <3> HIDE DEF new
      <3> QED
        BY <1>7, <2>1, <2>3, <3>1, <3>2, <3>3 DEF Covered, asked
    <2> QED
      BY <1>7, <2>3, <2>4
  <1>8. CASE addrs # <<>> /\ ips # Empty
    <2> DEFINE more == Singles(addrs)
    <2>1. IsList(more) /\ Len(more) = Len(addrs) /\ \A k \in 1 .. Len(addrs) : more[k] = <<addrs[k]>>
      <3>1. more = [k \in 1 .. Len(addrs) |-> <<addrs[k]>>]
        BY <1>3 DEF Singles
      <3>2. more \in Seq({<<addrs[k]>> : k \in 1 .. Len(addrs)})
        BY <1>3, <3>1
      <3> HIDE DEF more
      <3>3. IsList(more)
        BY <3>2, ListOfAny
      <3> QED
        BY <1>3, <3>1, <3>3
    <2>2. new = ips \o more
      BY <1>8 DEF Grown
    <2> HIDE DEF new, more
    <2>3. /\ IsList(new) /\ Len(new) = Len(ips) + Len(addrs)
          /\ DOMAIN new = 1 .. Len(ips) + Len(addrs)
          /\ \A t \in 1 .. Len(ips) : new[t] = ips[t]
          /\ \A k \in 1 .. Len(addrs) : new[Len(ips) + k] = <<addrs[k]>>
      <3>1. /\ IsList(new) /\ Len(new) = Len(ips) + Len(more)
            /\ DOMAIN new = 1 .. Len(ips) + Len(more)
            /\ \A t \in 1 .. Len(ips) : new[t] = ips[t]
            /\ \A k \in 1 .. Len(more) : new[Len(ips) + k] = more[k]
        <4>1. IsList(ips) /\ IsList(more)
          BY <2>1
        <4> QED
          BY <2>2, <4>1, JoinLists
      <3> QED
        BY <2>1, <3>1
    <2>4. AllIn(new, own \cup ToSet(addrs))
      <3>1. Listed(ips) \subseteq Listed(new)
        BY <1>3, <2>3 DEF Listed
      <3>2. ASSUME NEW k \in 1 .. Len(addrs)
            PROVE  addrs[k] \in Listed(new)
        <4>1. Len(ips) + k \in DOMAIN new /\ new[Len(ips) + k] = <<addrs[k]>>
          BY <1>3, <2>3
        <4>2. Len(<<addrs[k]>>) = 1 /\ <<addrs[k]>>[1] = addrs[k]
          OBVIOUS
        <4> QED
          BY <4>1, <4>2 DEF Listed
      <3>3. ToSet(addrs) \subseteq Listed(new)
        BY <1>3, <3>2 DEF ToSet
      <3>4. new # Empty /\ new[1] = ips[1]
        <4>1. Len(ips) # 0
          BY <1>8 DEF IsList, Empty
        <4>2. 1 \in 1 .. Len(ips) /\ Len(new) # 0
          BY <1>3, <2>3, <4>1
        <4> QED
          BY <2>3, <4>2 DEF Empty
      <3> QED
        BY <1>2, <3>1, <3>3, <3>4
    <2>5. IsPrefix(asked, new)
      <3>1. SubSeq(asked, 1, Len(asked)) = [t \in 1 .. Len(asked) |-> asked[t]]
        BY <1>1, <1>3 DEF IsList
      <3>2. SubSeq(new, 1, Len(asked)) = [t \in 1 .. Len(asked) |-> new[t]]
        BY <1>3, <1>4, <2>3 DEF IsList
      <3>3. \A t \in 1 .. Len(asked) : asked[t] = new[t]
        BY <1>3, <1>4, <1>5, <2>3
      <3> QED
        BY <1>3, <1>4, <2>3, <3>1, <3>2, <3>3 DEF IsPrefix
    <2>6. ASSUME NEW t \in Len(asked) + 1 .. Len(new)
          PROVE  /\ ToSet(new[t]) \subseteq (own \cup ToSet(addrs)) \cup before
                 /\ Len(new[t]) = 1 \/ JoinedAt(new, t)
      <3>1. CASE t <= Len(ips)
        BY <1>2, <1>3, <2>3, <3>1
      <3>2. CASE t > Len(ips)
        <4>1. t - Len(ips) \in 1 .. Len(addrs) /\ Len(ips) + (t - Len(ips)) = t
          BY <1>3, <2>3, <3>2
        <4>2. new[t] = <<addrs[t - Len(ips)]>>
          BY <2>3, <4>1
        <4> QED
          BY <1>3, <4>1, <4>2 DEF ToSet
      <3> QED
        BY <1>3, <2>3, <3>1, <3>2
    <2>7. Covered(new, own \cup ToSet(addrs), before)
      BY <2>4, <2>5, <2>6 DEF Covered, asked
    <2>8. new # Empty
      BY <1>3, <1>8, <2>3 DEF Empty, IsList
    <2> QED
      BY <2>3, <2>7, <2>8 DEF new
  <1> QED
    BY <1>6, <1>7, <1>8

LEMMA LookUpStep ==
  ASSUME IInv, LookUp
  PROVE  IInv'
  <1> USE DEF IInv
  <1>1. /\ UNCHANGED <<manifest, pods, target, jobs, pc>>
        /\ pc = "hosts" /\ FanOut /\ host' = host + 1 /\ manifest \in Manifests
    BY DEF LookUp, Progress
  <1>2. FanOut' = FanOut /\ Changed' = Changed /\ \A key : Asked(key)' = Asked(key)
    BY <1>1, SameRequest
  <1>3. PICK answer \in Answers :
          /\ step' = [step EXCEPT !.config = Extended(@, LookUpHost(answer))]
          /\ answers' = answers \o LookUpHost(answer)
    BY DEF LookUp
  <1> DEFINE addrs == LookUpHost(answer)
             c == Extended(step.config, addrs)
             ips == Setting("DESTINATION_IPS")
  <1>4. IsList(addrs)
    BY LookUpKeepsIPv4, TargetAssumption
  <1> HIDE DEF addrs
  <1>5. /\ DOMAIN step' = DOMAIN step /\ step'.config = c
        /\ step'.image = step.image /\ step'.serviceAccountName = step.serviceAccountName
    BY <1>3 DEF Progress, addrs
  <1>6. "DESTINATION_IPS" \in Changed
    <2>1. Network /\ Setting("DESTINATION_HOSTS") # Empty
      BY DEF LookUp, Hosts, Progress, Empty
    <2>2. "DESTINATION_HOSTS" \notin Changed
      BY DEF Changed
    <2>3. Setting("DESTINATION_HOSTS") = Asked("DESTINATION_HOSTS")
      BY <1>1, <2>2, KeptValue DEF StepIsKept, Setting
    <2> QED
      BY <2>1, <2>3 DEF Changed
  <1>7. /\ Kept(c, step.image, step.serviceAccountName)
        /\ DOMAIN step.config \subseteq DOMAIN c
        /\ \A key : key # "DESTINATION_IPS" => Value(c, key) = Setting(key)
        /\ Value(c, "DESTINATION_IPS") = Grown(ips, addrs)
    <2>1. CASE addrs = <<>>
      BY <1>1, <2>1 DEF Extended, Setting, Grown, StepIsKept
    <2>2. CASE addrs # <<>>
      <3>1. c = Put(step.config, "DESTINATION_IPS", Grown(ips, addrs))
        BY <2>2 DEF Extended, Setting, Grown
      <3>2. Kept(c, step.image, step.serviceAccountName)
        <4> HIDE DEF ips, c
        <4> QED
          BY <1>1, <1>6, <3>1, KeptWhenWritten DEF StepIsKept
      <3> HIDE DEF ips
      <3>3. Value(Put(step.config, "DESTINATION_IPS", Grown(ips, addrs)), "DESTINATION_IPS")
              = Grown(ips, addrs)
        BY DEF Value, Put
      <3>4. /\ DOMAIN step.config \subseteq DOMAIN c
            /\ \A key : key # "DESTINATION_IPS" => Value(c, key) = Setting(key)
        BY <3>1 DEF Value, Put, Setting
      <3> QED
        BY <3>1, <3>2, <3>3, <3>4
    <2> QED
      BY <2>1, <2>2
  <1> HIDE DEF c
  <1>8. IsList(answers') /\ ToSet(answers') = ToSet(answers) \cup ToSet(addrs)
    <2>1. IsList(answers)
      BY DEF Progress
    <2>2. answers' = answers \o addrs
      BY <1>3 DEF addrs
    <2>3. /\ IsList(answers')
          /\ Len(answers) \in Nat /\ Len(addrs) \in Nat
          /\ DOMAIN answers = 1 .. Len(answers) /\ DOMAIN addrs = 1 .. Len(addrs)
          /\ DOMAIN answers' = 1 .. Len(answers) + Len(addrs)
          /\ \A i \in 1 .. Len(answers) : answers'[i] = answers[i]
          /\ \A i \in 1 .. Len(addrs) : answers'[Len(answers) + i] = addrs[i]
      BY <1>4, <2>1, <2>2, JoinLists
    <2>4. ASSUME NEW i \in DOMAIN answers'
          PROVE  answers'[i] \in ToSet(answers) \cup ToSet(addrs)
      <3>1. CASE i <= Len(answers)
        BY <2>3, <3>1 DEF ToSet
      <3>2. CASE i > Len(answers)
        <4>1. i - Len(answers) \in 1 .. Len(addrs) /\ Len(answers) + (i - Len(answers)) = i
          BY <2>3, <3>2
        <4> QED
          BY <2>3, <4>1 DEF ToSet
      <3> QED
        BY <2>3, <3>1, <3>2
    <2>5. \A i \in 1 .. Len(addrs) : Len(answers) + i \in DOMAIN answers'
      BY <2>3
    <2>6. ToSet(answers') \subseteq ToSet(answers) \cup ToSet(addrs)
      BY <2>4 DEF ToSet
    <2>7. ToSet(answers) \subseteq ToSet(answers') /\ ToSet(addrs) \subseteq ToSet(answers')
      <3>1. \A i \in DOMAIN answers : i \in DOMAIN answers'
        BY <2>3
      <3>2. \A i \in DOMAIN answers : answers[i] \in ToSet(answers')
        BY <2>3, <3>1 DEF ToSet
      <3>3. \A i \in DOMAIN addrs : addrs[i] \in ToSet(answers')
        BY <2>3, <2>5 DEF ToSet
      <3> QED
        BY <3>2, <3>3 DEF ToSet
    <2> QED
      BY <2>3, <2>6, <2>7
  <1>9. Progress'
    BY <1>1, <1>2, <1>5, <1>8 DEF Progress
  <1>10. StepIsKept'
    BY <1>1, <1>2, <1>5, <1>7 DEF StepIsKept, Kept
  <1>11. TargetIsSet'
    <2>1. Setting("APP_POD")' = Setting("APP_POD") /\ Setting("APP_CONTAINER")' = Setting("APP_CONTAINER")
      BY <1>5, <1>7 DEF Setting
    <2>2. Alike(target)' <=> Alike(target)
      BY <1>1 DEF Alike
    <2> QED
      BY <1>1, <1>2, <1>5, <1>7, <2>1, <2>2 DEF TargetIsSet
  <1>12. ListGrows'
    <2> DEFINE own == ToSet(answers)
               before == Found(Len(jobs))
    <2>1. IsList(ips) /\ Covered(ips, own, before) /\ (ips = Empty => before = {})
      BY <1>1 DEF ListGrows
    <2>2. Setting("DESTINATION_IPS")' = Grown(ips, addrs)
      BY <1>5, <1>7 DEF Setting
    <2>3. \E a \in Answers : addrs = LookUpHost(a)
      BY DEF addrs
    <2> HIDE DEF ips, own, before
    <2>4. /\ IsList(Grown(ips, addrs))
          /\ Covered(Grown(ips, addrs), own \cup ToSet(addrs), before)
          /\ Grown(ips, addrs) = Empty => before = {}
      BY <1>1, <1>4, <2>1, <2>3, GrownCovers
    <2>5. ToSet(answers)' = own \cup ToSet(addrs) /\ Found(Len(jobs))' = before
      BY <1>1, <1>8 DEF Found, own, before
    <2>6. \A x, y, z : Covered(x, y, z)' <=> Covered(x, y, z)
      BY <1>2 DEF Covered
    <2>7. Covered(Setting("DESTINATION_IPS"), ToSet(answers), Found(Len(jobs)))'
      BY <2>2, <2>4, <2>5, <2>6
    <2> QED
      BY <2>2, <2>4, <2>5, <2>7 DEF ListGrows
  <1>13. JobsFit'
    BY <1>1, JobsStay
  <1> QED
    BY <1>9, <1>10, <1>11, <1>12, <1>13 DEF JobsFit

\* For the next Job, what was found for this one was found before.
LEMMA CoveredNext ==
  ASSUME NEW ips, NEW own, NEW before, Covered(ips, own, before)
  PROVE  /\ Covered(ips, {}, before \cup own)
         /\ ips = Empty => own = {}
  <1>1. ips = Empty => own = {}
    BY DEF Covered, Listed, Empty
  <1> QED
    BY <1>1 DEF Covered

LEMMA CreateJobStep ==
  ASSUME IInv, CreateJob
  PROVE  IInv'
  <1> USE DEF IInv
  <1> DEFINE j == JobFor(pods[target])
  <1>0. PICK n \in Nat : n = Len(jobs)
    BY DEF Progress, IsList
  <1>1. /\ UNCHANGED <<manifest, step, pods>>
        /\ pc = "hosts" /\ FanOut
        /\ target = n + 1 /\ target <= Len(pods) /\ Len(pods) \in Nat
        /\ target' = target + 1 /\ host' = 1 /\ answers' = <<>>
        /\ pc' = IF target = Len(pods) THEN "created" ELSE "target"
    BY <1>0 DEF CreateJob, Progress, IsList
  <1>2. FanOut' = FanOut /\ Changed' = Changed /\ \A key : Asked(key)' = Asked(key)
    BY <1>1, SameRequest
  <1>3. /\ j.pod = pods[target].name /\ j.node = pods[target].node
        /\ j.env = step.config /\ j.image = step.image
        /\ j.serviceAccountName = step.serviceAccountName /\ j.answers = answers
    BY DEF JobFor
  <1>4. /\ IsList(jobs') /\ Len(jobs') = n + 1
        /\ DOMAIN jobs = 1 .. n /\ DOMAIN jobs' = 1 .. n + 1
        /\ jobs'[n + 1] = j
        /\ \A i \in 1 .. n : jobs'[i] = jobs[i]
    <2> HIDE DEF j
    <2>1. IsList(jobs) /\ jobs' = Append(jobs, j)
      BY DEF CreateJob, Progress, j
    <2> QED
      BY <1>0, <2>1, AppendToList
  <1> HIDE DEF j
  <1>5. \A i \in DOMAIN jobs' : i \in DOMAIN jobs \/ i = n + 1
    BY <1>1, <1>4
  <1>6. Progress'
    <2>1. IsList(<<>>)
      BY DEF IsList
    <2> QED
      BY <1>1, <1>2, <1>4, <2>1 DEF Progress
  <1>7. StepIsKept'
    BY <1>1, <1>2 DEF StepIsKept, Kept
  <1>8. TargetIsSet'
    <2>1. Alike(target - 1)' <=> Alike(target)
      BY <1>1 DEF Alike
    <2> QED
      BY <1>1, <1>2, <2>1 DEF TargetIsSet, Setting
  <1>9. \A k \in 0 .. n : Found(k)' = Found(k)
    BY <1>1, <1>4 DEF Found
  <1>10. Found(n + 1)' = Found(n) \cup ToSet(answers)
    <2>1. 1 .. n + 1 = (1 .. n) \cup {n + 1}
      BY <1>1
    <2>2. Found(n + 1)' = Found(n)' \cup ToSet(jobs'[n + 1].answers)
      BY <2>1 DEF Found
    <2> QED
      BY <1>1, <1>3, <1>4, <1>9, <2>2
  <1>11. /\ Covered(Setting("DESTINATION_IPS"), ToSet(answers), Found(n))
         /\ Setting("DESTINATION_IPS") = Empty => Found(n) = {}
    BY <1>0, <1>1 DEF ListGrows
  <1>12. \A x, y, z : Covered(x, y, z)' <=> Covered(x, y, z)
    BY <1>2 DEF Covered
  <1>13. ListGrows'
    <2>1. ToSet(answers)' = {}
      BY <1>1 DEF ToSet
    <2>2. Found(Len(jobs))' = Found(n + 1)'
      BY <1>4 DEF Found
    <2>3. /\ Covered(Setting("DESTINATION_IPS"), {}, Found(n) \cup ToSet(answers))
          /\ Setting("DESTINATION_IPS") = Empty => ToSet(answers) = {}
      BY <1>11, CoveredNext
    <2>4. Setting("DESTINATION_IPS")' = Setting("DESTINATION_IPS")
      BY <1>1 DEF Setting
    <2> QED
      BY <1>1, <1>10, <1>11, <1>12, <2>1, <2>2, <2>3, <2>4 DEF ListGrows
  <1>14. SettingsReachJobs'
    <2>1. \A c, image, account : Kept(c, image, account)' <=> Kept(c, image, account)
      BY <1>1, <1>2 DEF Kept
    <2>2. Kept(j.env, j.image, j.serviceAccountName)
      BY <1>1, <1>3 DEF StepIsKept
    <2> QED
      BY <1>4, <1>5, <2>1, <2>2 DEF SettingsReachJobs
  <1>15. TargetsAreServed'
    <2>1. j.env["APP_POD"] = pods[n + 1].name
      BY <1>1, <1>3 DEF TargetIsSet, Setting, Value
    <2> QED
      BY <1>1, <1>2, <1>3, <1>4, <1>5, <2>1 DEF TargetsAreServed
  <1>16. ContainerFits'
    <2>1. CASE Asked("APP_CONTAINER") # Empty
      <3>1. "APP_CONTAINER" \in DOMAIN step.config \ Changed
        BY <1>1, <2>1 DEF TargetIsSet, Changed
      <3>2. j.env["APP_CONTAINER"] = Asked("APP_CONTAINER")
        BY <1>1, <1>3, <3>1 DEF StepIsKept, Kept
      <3> QED
        BY <1>1, <1>2, <1>4, <1>5, <2>1, <3>2 DEF ContainerFits
    <2>2. CASE Asked("APP_CONTAINER") = Empty
      <3>1. Alike(n + 1) => j.env["APP_CONTAINER"] = pods[n + 1].containers[1]
        <4> SUFFICES ASSUME Alike(n + 1)
                     PROVE  j.env["APP_CONTAINER"] = pods[n + 1].containers[1]
          OBVIOUS
        <4>1. pods[n + 1].containers[1] = pods[1].containers[1]
          BY <1>1 DEF Alike
        <4> QED
          BY <1>1, <1>3, <2>2, <4>1 DEF TargetIsSet, Setting, Value
      <3>2. \A i : Alike(i)' <=> Alike(i)
        BY <1>1 DEF Alike
      <3> QED
        BY <1>1, <1>2, <1>4, <1>5, <2>2, <3>1, <3>2 DEF ContainerFits
    <2> QED
      BY <2>1, <2>2
  <1>17. HostsAreCovered'
    <2> SUFFICES ASSUME NEW i \in DOMAIN jobs'
                 PROVE  Covered(Value(jobs'[i].env, "DESTINATION_IPS"), ToSet(jobs'[i].answers), Found(i - 1)')
      BY <1>12 DEF HostsAreCovered
    <2>1. CASE i \in DOMAIN jobs
      <3>1. jobs'[i] = jobs[i] /\ i - 1 \in 0 .. n
        BY <1>4, <2>1
      <3> QED
        BY <1>9, <2>1, <3>1 DEF HostsAreCovered
    <2>2. CASE i = n + 1
      <3>1. jobs'[i] = j /\ i - 1 = n /\ Found(n)' = Found(n)
        BY <1>4, <1>9, <2>2
      <3> QED
        BY <1>3, <1>11, <3>1 DEF Setting
    <2> QED
      BY <1>5, <2>1, <2>2
  <1> QED
    BY <1>6, <1>7, <1>8, <1>13, <1>14, <1>15, <1>16, <1>17

LEMMA CreateSingleJobStep ==
  ASSUME IInv, CreateSingleJob
  PROVE  IInv'
  <1> USE DEF IInv
  <1> DEFINE j == JobFor(NoPod)
  <1>1. /\ UNCHANGED <<manifest, step, pods, target, host, answers>>
        /\ pc = "single" /\ pc' = "created" /\ ~FanOut
        /\ jobs = <<>> /\ answers = <<>> /\ target = 1
    BY DEF CreateSingleJob, Progress
  <1>2. FanOut' = FanOut /\ Changed' = Changed /\ \A key : Asked(key)' = Asked(key)
    BY <1>1, SameRequest
  <1>3. /\ j.env = step.config /\ j.image = step.image
        /\ j.serviceAccountName = step.serviceAccountName /\ j.answers = <<>>
    BY <1>1 DEF JobFor
  <1> HIDE DEF j
  <1>4. jobs' = <<j>> /\ IsList(<<j>>) /\ Len(<<j>>) = 1
    BY DEF CreateSingleJob, IsList, j
  <1>5. Progress'
    BY <1>1, <1>2, <1>4 DEF Progress
  <1>6. StepIsKept' /\ TargetIsSet'
    BY <1>1, <1>2 DEF StepIsKept, Kept, TargetIsSet
  <1>7. \A x, y, z : Covered(x, y, z)' <=> Covered(x, y, z)
    BY <1>2 DEF Covered
  <1>8. \A before : Covered(Setting("DESTINATION_IPS"), {}, before)
    <2>1. Covered(Setting("DESTINATION_IPS"), {}, {})
      <3>1. Found(Len(jobs)) = {} /\ ToSet(answers) = {}
        BY <1>1 DEF Found, ToSet
      <3> QED
        BY <1>1, <3>1 DEF ListGrows
    <2> QED
      BY <2>1 DEF Covered
  <1>9. ListGrows'
    <2>1. ToSet(answers)' = {}
      BY <1>1 DEF ToSet
    <2>2. Setting("DESTINATION_IPS")' = Setting("DESTINATION_IPS")
      BY <1>1 DEF Setting
    <2>3. Found(1)' = {}
      <3>1. \A k \in 1 .. 1 : jobs'[k] = j
        BY <1>4
      <3>2. \A k \in 1 .. 1 : ToSet(jobs'[k].answers) = {}
        BY <1>3, <3>1 DEF ToSet
      <3> QED
        BY <3>2 DEF Found
    <2>4. Len(jobs') = 1
      BY <1>4
    <2>5. Found(Len(jobs))' = {}
      BY <2>3, <2>4
    <2> QED
      BY <1>1, <1>7, <1>8, <2>1, <2>2, <2>5 DEF ListGrows
  <1>10. SettingsReachJobs'
    <2>1. \A c, image, account : Kept(c, image, account)' <=> Kept(c, image, account)
      BY <1>1, <1>2 DEF Kept
    <2>2. Kept(j.env, j.image, j.serviceAccountName)
      BY <1>1, <1>3 DEF StepIsKept
    <2> QED
      BY <1>4, <2>1, <2>2 DEF SettingsReachJobs
  <1>11. TargetsAreServed' /\ ContainerFits'
    BY <1>1, <1>2 DEF TargetsAreServed, ContainerFits
  <1>12. HostsAreCovered'
    <2>1. Value(j.env, "DESTINATION_IPS") = Setting("DESTINATION_IPS") /\ ToSet(j.answers) = {}
      BY <1>3 DEF Setting, ToSet
    <2>2. \A i \in DOMAIN jobs' : jobs'[i] = j
      BY <1>4
    <2>3. \A i \in DOMAIN jobs' :
            Covered(Value(jobs'[i].env, "DESTINATION_IPS"), ToSet(jobs'[i].answers), Found(i - 1)')
      BY <1>8, <2>1, <2>2
    <2> QED
      BY <1>7, <2>3 DEF HostsAreCovered
  <1> QED
    BY <1>5, <1>6, <1>9, <1>10, <1>11, <1>12

LEMMA NextIInv == IInv /\ [Next]_vars => IInv'
  <1> SUFFICES ASSUME IInv, [Next]_vars PROVE IInv'
    OBVIOUS
  <1>1. CASE Override
    BY <1>1, OverrideStep
  <1>2. CASE FilterTargetPods
    BY <1>2, FilterStep
  <1>3. CASE FilterTargetPodsFails \/ LookUpFails \/ CreateJobFails
    BY <1>3, FailedStep DEF FilterTargetPodsFails, LookUpFails, CreateJobFails
  <1>4. CASE PopulateTarget
    BY <1>4, PopulateStep
  <1>5. CASE LookUp
    BY <1>5, LookUpStep
  <1>6. CASE CreateJob
    BY <1>6, CreateJobStep
  <1>7. CASE CreateSingleJob
    BY <1>7, CreateSingleJobStep
  <1>8. CASE UNCHANGED vars
    BY <1>8, FailedStep DEF vars
  <1> QED
    BY <1>1, <1>2, <1>3, <1>4, <1>5, <1>6, <1>7, <1>8 DEF Next

-----------------------------------------------------------------------------
(* The theorems.                                                           *)

\* The inductive invariant: between any two Jobs the one map of the step has
\* what was asked for, the pod and container of the next Job and the addresses
\* found so far.
THEOREM Invariance == Spec => []IInv
  <1> QED
    BY InitIInv, NextIInv, PTL DEF Spec

\* Every Job of a step has all the settings the user asked for.
THEOREM SettingsAreKept == Spec => []SettingsReachJobs
  <1>1. IInv => SettingsReachJobs
    BY DEF IInv
  <1> QED
    BY Invariance, <1>1, PTL

\* Every chosen pod has a Job, with the label, the node and the APP_POD of it.
THEOREM TargetsServed == Spec => []TargetsAreServed
  <1>1. IInv => TargetsAreServed
    BY DEF IInv
  <1> QED
    BY Invariance, <1>1, PTL

\* Every Job attacks the container that was asked for, or the first one of its
\* pod if all pods have the same.
THEOREM ContainersFit == Spec => []ContainerFits
  <1>1. IInv => ContainerFits
    BY DEF IInv
  <1> QED
    BY Invariance, <1>1, PTL

\* The addresses looked up for a Job are entries of its list if the user gave a
\* list or any were found for a Job before; otherwise those of one host may be run
\* together in the first entry, and all others are entries.  The list has nothing
\* that was neither asked for nor found.
THEOREM HostsCovered == Spec => []HostsAreCovered
  <1>1. IInv => HostsAreCovered
    BY DEF IInv
  <1> QED
    BY Invariance, <1>1, PTL
=============================================================================
