----------------------------- MODULE MCTargetJobs -----------------------------
(***************************************************************************)
(* An instance of TargetJobs for TLC: a type of every kind of runner, and  *)
(* manifests that give, leave empty or leave out what the runners look at. *)
(***************************************************************************)
EXTENDS TargetJobs

File(env) == [image |-> Empty, serviceAccountName |-> Empty, env |-> env]

CommonFile == [image              |-> One("image"),
               serviceAccountName |-> One("account"),
               env                |-> [TOTAL_CHAOS_DURATION |-> One("30"),
                                       APP_NAMESPACE |-> Empty]]

Files ==
  [type \in SupportedTypes |->
     IF type \in TypesOf("runNetworkChaos")
     THEN File([APP_CONTAINER |-> Empty, DESTINATION_HOSTS |-> Empty, DESTINATION_IPS |-> Empty])
     ELSE IF type = "godzilla-pod-autoscaler"
     THEN File([APP_NAMESPACE |-> One("apps")])
     ELSE File([APP_CONTAINER |-> Empty])]

\* Per setting, the values a manifest may give it.
Values == [APP_CONTAINER        |-> {Empty, One("main")},
           DESTINATION_HOSTS    |-> {<<<<"h1">>>>, <<<<"h1">>, <<"h2">>>>},
           DESTINATION_IPS      |-> {Empty, <<<<"9">>>>},
           TOTAL_CHAOS_DURATION |-> {One("60")}]

Configs == UNION {{c \in [keys -> UNION Range(Values)] : \A k \in keys : c[k] \in Values[k]} :
                  keys \in SUBSET DOMAIN Values}

AllManifests ==
  [type   : {"godzilla-pod-network-delay", "litmus-container-kill", "godzilla-pod-autoscaler"},
   config : Configs, image : {Empty, One("mine")}, serviceAccountName : {Empty}]

SomePods == {[name |-> One("p"), node |-> One("n1"), containers |-> <<One("web"), One("log")>>],
            [name |-> One("q"), node |-> One("n2"), containers |-> <<One("proxy")>>],
            [name |-> One("r"), node |-> One("n1"), containers |-> <<One("web")>>]}

Addresses == {<<>>, <<"1">>, <<"1", "2">>, <<"::1", "3">>}
FourBytes == {"1", "2", "3"}
=============================================================================
