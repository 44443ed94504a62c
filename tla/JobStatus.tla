------------------------------ MODULE JobStatus ------------------------------
(***************************************************************************)
(* The statuses a GodzillaJobSnapshot records, for the job as a whole and  *)
(* for each of its chaos steps (api/v1alpha1/godzillajob_types.go), and    *)
(* the guard every status update goes through                              *)
(* (controllers/chaos/snapshot.go).                                        *)
(***************************************************************************)

Status == {"pending", "running", "success", "failed", "unknown"}

\* The zero value of a JobStatus string: the job status of a snapshot that
\* has been created but whose status subresource was never written.
NoStatus == ""

\* May a recorded status prev be replaced by curr?
statusCheck(prev, curr) ==
  \/ prev = "pending" /\ curr \in {"running", "failed", "unknown", "success"}
  \/ prev = "running" /\ curr \in {"failed", "unknown", "success"}
  \/ prev = "success" /\ curr = "failed"

=============================================================================
