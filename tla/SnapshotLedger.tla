---------------------------- MODULE SnapshotLedger ----------------------------
(***************************************************************************)
(* What a GodzillaJobSnapshot promises to whoever reads it, without the    *)
(* API calls, copies and resource versions that bring it about: one record *)
(* per generation of a job, created once, in which one status at a time    *)
(* moves forward and no status is ever set back.                           *)
(***************************************************************************)
EXTENDS JobStatus

CONSTANTS
  Steps,  \* the steps of the job
  None    \* no record yet

VARIABLE record

Entries == [steps : [Steps -> Status], job : Status \cup {NoStatus}]

Init == record = None

\* The record appears with every step pending and no status for the job.
Create ==
  /\ record = None
  /\ record' = [steps |-> [s \in Steps |-> "pending"], job |-> NoStatus]

\* The job becomes pending before anything else happens to the record.
Publish ==
  /\ record \in Entries
  /\ record.job = NoStatus
  /\ record' = [record EXCEPT !.job = "pending"]

AdvanceJob ==
  /\ record \in Entries
  /\ \E status \in Status :
       /\ statusCheck(record.job, status)
       /\ record' = [record EXCEPT !.job = status]

AdvanceStep(s) ==
  /\ record \in Entries
  /\ record.job # NoStatus
  /\ \E status \in Status :
       /\ statusCheck(record.steps[s], status)
       /\ record' = [record EXCEPT !.steps[s] = status]

Next == Create \/ Publish \/ AdvanceJob \/ \E s \in Steps : AdvanceStep(s)

Spec == Init /\ [][Next]_record
=============================================================================
