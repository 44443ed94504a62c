---------------------------- MODULE SnapshotClaims ----------------------------
(***************************************************************************)
(* What the creation of a GodzillaJobSnapshot decides, without workers,    *)
(* queues and retries: the name of a snapshot is claimed once, by one      *)
(* version of one job, and only the claim may lead to a run, once.         *)
(***************************************************************************)
CONSTANTS
  Names,   \* the names of snapshots
  Owners,  \* the versions of jobs
  None     \* not claimed

VARIABLE claims

Init == claims = [n \in Names |-> None]

\* A claim is closed from the start when its owner never hears of it.
Claim(n) ==
  /\ claims[n] = None
  /\ claims'[n] \in [by : Owners, state : {"claimed", "closed"}]
  /\ claims' = [claims EXCEPT ![n] = claims'[n]]

Open(n) == claims[n] # None /\ claims[n].state = "claimed"

Launch(n) ==
  /\ Open(n)
  /\ claims' = [claims EXCEPT ![n].state = "launched"]

\* Claims end without a run: one that is given up, or all of them in a crash.
Close ==
  \E closed \in SUBSET {n \in Names : Open(n)} :
    claims' = [n \in Names |-> IF n \in closed
                               THEN [by |-> claims[n].by, state |-> "closed"]
                               ELSE claims[n]]

Next == (\E n \in Names : Claim(n) \/ Launch(n)) \/ Close

Spec == Init /\ [][Next]_claims
=============================================================================
