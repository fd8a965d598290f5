---------------------------- MODULE JobLifecycle ----------------------------
(***************************************************************************)
(* What the job service promises its clients: a submitted job waits, runs, *)
(* may go back to waiting, and settles once and for all; a job the service *)
(* itself calls completed has a report, and a report once published stays. *)
(*                                                                         *)
(* The legal status changes are those of ValidTransition (JobStatus); how  *)
(* claims, leases, retries and failing statements realise them is the      *)
(* business of JobQueue, which implements this module.                     *)
(***************************************************************************)
EXTENDS JobStatus

CONSTANT Jobs

VARIABLES status,       \* jobs.status, or "absent" before the row exists
          published,    \* the jobs with a completed analysis_results row
          overridden    \* the jobs whose status a client has set by hand

vars == <<status, published, overridden>>

Statuses == {"absent", "pending", "running", "completed", "failed"}

TypeOK == /\ status \in [Jobs -> Statuses]
          /\ published \in SUBSET Jobs
          /\ overridden \in SUBSET Jobs

Init == /\ status = [j \in Jobs |-> "absent"]
        /\ published = {}
        /\ overridden = {}

Set(j, s) == status' = [status EXCEPT ![j] = s]

(* An upload creates the job. *)
Submit(j) == /\ status[j] = "absent"
             /\ Set(j, "pending")
             /\ UNCHANGED <<published, overridden>>

(* The service moves a job along its state machine.  It may complete only  *)
(* a job whose report is published.                                        *)
Advance(j, s) == /\ ValidTransition(status[j], s)
                 /\ s = "completed" => j \in published
                 /\ Set(j, s)
                 /\ UNCHANGED <<published, overridden>>

(* Stale jobs are put back together, in one statement. *)
Requeue(S) == /\ S # {}
              /\ \A j \in S : status[j] = "running"
              /\ status' = [j \in Jobs |-> IF j \in S THEN "pending" ELSE status[j]]
              /\ UNCHANGED <<published, overridden>>

(* A client moves a job along the same state machine, report or not. *)
Override(j, s) == /\ ValidTransition(status[j], s)
                  /\ Set(j, s)
                  /\ overridden' = overridden \cup {j}
                  /\ UNCHANGED published

(* A report is published at most once, whatever the job's status is by then. *)
Publish(j) == /\ status[j] # "absent"
              /\ j \notin published
              /\ published' = published \cup {j}
              /\ UNCHANGED <<status, overridden>>

Next == \/ \E j \in Jobs : Submit(j) \/ Publish(j)
        \/ \E j \in Jobs, s \in Statuses : Advance(j, s) \/ Override(j, s)
        \/ \E S \in SUBSET Jobs : Requeue(S)

Spec == Init /\ [][Next]_vars

(* A job the service completed on its own account has a report. *)
CompletedHasReport ==
  \A j \in Jobs : status[j] = "completed" => j \in published \cup overridden
=============================================================================
