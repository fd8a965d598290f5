------------------------------ MODULE JobStatus ------------------------------
(***************************************************************************)
(* The moves of a job's status that clients are promised (jobs.go).  The    *)
(* abstract life cycle of a job and the models of its clients share them.   *)
(***************************************************************************)

Settled == {"completed", "failed"}

(* jobs.go ValidTransition. *)
ValidTransition(current, new) ==
  \/ current = "pending" /\ new = "running"
  \/ current = "running" /\ new \in Settled \cup {"pending"}
=============================================================================
