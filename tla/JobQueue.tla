------------------------------ MODULE JobQueue ------------------------------
(***************************************************************************)
(* The job service: the PostgreSQL tables jobs, analysis_results and       *)
(* results, the service instances whose worker claims and processes jobs   *)
(* (worker.go), their lease heartbeat and stale-job recovery, and clients  *)
(* that PATCH a job's status (handlers.go, jobs.go).                       *)
(*                                                                         *)
(* One action is one SQL statement (or one run of the sandbox): between    *)
(* two statements of a worker anything else may happen.  A statement that  *)
(* returns an error may have been applied or not.  The clock is abstracted *)
(* to what RecoverStaleJobs compares: a running job is stale or it is not. *)
(***************************************************************************)
EXTENDS Naturals, Sequences, FiniteSets

CONSTANTS NumJobs,      \* jobs are numbered in the order of jobs.created_at
          Instances,    \* service processes, each with one worker loop
          Clients,      \* PATCH requests that can be in flight at once
          MaxFaults,    \* bound: crashes, failed statements and lapsed leases
          MaxPatches,   \* bound: status changes made by clients
          MaxAttempts   \* bound: attempt_count; ASSUMEd too large to be reached

ASSUME BoundsAssumption ==
  /\ IsFiniteSet(Instances)
  /\ NumJobs \in Nat /\ MaxFaults \in Nat /\ MaxPatches \in Nat
  /\ MaxAttempts \in Nat /\ MaxAttempts > MaxFaults + MaxPatches

VARIABLES
  \* the database
  status,           \* jobs.status, "absent" before the INSERT
  attempt_count,    \* jobs.attempt_count
  stale,            \* running jobs whose updated_at is over staleJobMinutes old
  analysis,         \* analysis_results.status of the row an attempt created
  result_data,      \* the attempts whose row has its result_data
  closed,           \* per job, its analysis_results rows by completed_at
  results,          \* the attempt that inserted the job's results row, or None
  \* each instance
  pc,               \* the statement its worker executes next
  job, attempt,     \* the job and attempt it works on
  \* each client request
  patch,            \* what UpdateStatus read, between its SELECT and its UPDATE
  \* history, for the bounds and the properties
  faults, patches,  \* how many of each have happened
  lapsed,           \* jobs whose lease went stale under a live worker
  patched           \* jobs whose status a client has set

db      == <<status, attempt_count, stale, analysis, result_data, closed, results>>
worker  == <<pc, job, attempt>>
history == <<faults, patches, lapsed, patched>>
vars    == <<db, worker, patch, history>>
-----------------------------------------------------------------------------
Jobs     == 1..NumJobs
Attempts == 1..MaxAttempts
None     == 0

Statuses         == {"absent", "pending", "running", "completed", "failed"}
AnalysisStatuses == {"none", "pending", "running", "completed", "failed"}

(* Where a worker can be: its process is down; StartWorker has returned its *)
(* error; it is about to poll; or it is inside ProcessNextJob, at the       *)
(* statement named.                                                        *)
Processing == {"create", "start", "analyze", "save", "insert", "complete",
               "check", "commit", "abort", "fail"}
Locations  == {"down", "stopped", "poll"} \cup Processing

NoPatch == [job |-> None, seen |-> "absent", to |-> "absent"]
Patches == [job : Jobs, seen : Statuses, to : Statuses] \cup {NoPatch}

Settled == {"completed", "failed"}

JobsOK ==
  /\ status \in [Jobs -> Statuses]
  /\ attempt_count \in [Jobs -> 0..MaxAttempts]
  /\ stale \in SUBSET {j \in Jobs : status[j] = "running"}

ResultsOK ==
  /\ analysis \in [Jobs \X Attempts -> AnalysisStatuses]
  /\ result_data \in SUBSET (Jobs \X Attempts)
  /\ closed \in [Jobs -> Seq(Attempts)]
  /\ results \in [Jobs -> Attempts \cup {None}]

WorkersOK ==
  /\ pc \in [Instances -> Locations]
  /\ job \in [Instances -> Jobs \cup {None}]
  /\ attempt \in [Instances -> Attempts \cup {None}]
  /\ \A i \in Instances : pc[i] \in Processing => job[i] \in Jobs /\ attempt[i] \in Attempts

ClientsOK == patch \in [Clients -> Patches]

HistoryOK ==
  /\ faults \in 0..MaxFaults /\ patches \in 0..MaxPatches
  /\ lapsed \in SUBSET Jobs /\ patched \in SUBSET Jobs

(* Every variable has its type, and only running jobs are ever stale.      *)
TypeOK == JobsOK /\ ResultsOK /\ WorkersOK /\ ClientsOK /\ HistoryOK

Init ==
  /\ status = [j \in Jobs |-> "absent"]
  /\ attempt_count = [j \in Jobs |-> 0]
  /\ stale = {}
  /\ analysis = [r \in Jobs \X Attempts |-> "none"]
  /\ result_data = {}
  /\ closed = [j \in Jobs |-> <<>>]
  /\ results = [j \in Jobs |-> None]
  /\ pc = [i \in Instances |-> "down"]
  /\ job = [i \in Instances |-> None]
  /\ attempt = [i \in Instances |-> None]
  /\ patch = [c \in Clients |-> NoPatch]
  /\ faults = 0 /\ patches = 0
  /\ lapsed = {} /\ patched = {}
-----------------------------------------------------------------------------
(* Variants with one plausible defect each, named for it.  Each is put in  *)
(* place of the definition it varies to see that a property notices.       *)
RecoverKeepsUpdatedAt ==
  /\ status' = [j \in Jobs |-> IF j \in stale THEN "pending" ELSE status[j]]
  /\ UNCHANGED stale
RecoverWithoutAge ==
  /\ status' = [j \in Jobs |-> IF status[j] = "running" THEN "pending" ELSE status[j]]
  /\ stale' = {}
NoHeartbeatInAnalysis(j) ==
  \E i \in Instances : pc[i] \in {"create", "start", "fail"} /\ job[i] = j
NeverServing(i) == FALSE
UpsertResult(i) == results' = [results EXCEPT ![job[i]] = attempt[i]]
PatchUnchecked(c) == TRUE
AnalysisErrorIgnored(i) == pc' = [pc EXCEPT ![i] = "insert"] /\ UNCHANGED faults
AnalysisErrorNotRecorded(i) == pc' = [pc EXCEPT ![i] = "fail"] /\ UNCHANGED faults
-----------------------------------------------------------------------------
(* jobs.go and analysis_results.go: the two status machines.               *)
ValidTransition(current, new) ==
  \/ current = "pending" /\ new = "running"
  \/ current = "running" /\ new \in {"completed", "failed", "pending"}

ValidAnalysisResultTransition(current, new) ==
  \/ current = "pending" /\ new = "running"
  \/ current = "running" /\ new \in {"completed", "failed"}

(* A heartbeat goroutine runs from the claim to the return of              *)
(* ProcessNextJob, or to the crash of its process.                         *)
Beating(j) == \E i \in Instances : pc[i] \in Processing /\ job[i] = j

(* The recovery ticker of an instance runs once StartWorker got past its   *)
(* first RecoverStaleJobs.                                                 *)
Serving(i) == pc[i] \in {"poll"} \cup Processing

Fault == faults < MaxFaults /\ faults' = faults + 1

(* What worker i does next, after a statement that returned without and    *)
(* with an error.                                                          *)
Proceed(i, next) == pc' = [pc EXCEPT ![i] = next] /\ UNCHANGED faults
Err(i, next)     == pc' = [pc EXCEPT ![i] = next] /\ Fault

(* ProcessNextJob returns (or its process dies): its locals are gone.      *)
Forget(i) == /\ job' = [job EXCEPT ![i] = None]
             /\ attempt' = [attempt EXCEPT ![i] = None]

(* The row of analysis_results that worker i created; only i writes it.    *)
Row(i) == <<job[i], attempt[i]>>

UpdateAnalysisResultStatus(i, s) ==
  /\ ValidAnalysisResultTransition(analysis[Row(i)], s)
  /\ analysis' = [analysis EXCEPT ![Row(i)] = s]
  /\ closed' = IF s \in Settled
               THEN [closed EXCEPT ![job[i]] = Append(@, attempt[i])]
               ELSE closed
-----------------------------------------------------------------------------
(* samples.go CreateSample: the transaction that inserts a pending job.    *)
(* created_at is the time it began; an older one may commit later.         *)
Submit(j) ==
  /\ status[j] = "absent"
  /\ status' = [status EXCEPT ![j] = "pending"]
  /\ UNCHANGED <<attempt_count, stale, analysis, result_data, closed, results,
                 worker, patch, history>>

(* RecoverStaleJobs: one UPDATE of every stale running job.                *)
RecoverStaleJobs ==
  /\ status' = [j \in Jobs |-> IF j \in stale /\ status[j] = "running"
                               THEN "pending" ELSE status[j]]
  /\ stale' = {}

(* StartWorker: recover, then poll; an error is returned to the go         *)
(* statement of main, and this process never works again.                  *)
StartWorker(i) ==
  /\ pc[i] = "down"
  /\ \/ RecoverStaleJobs /\ Proceed(i, "poll")
     \/ (RecoverStaleJobs \/ UNCHANGED <<status, stale>>) /\ Err(i, "stopped")
  /\ UNCHANGED <<attempt_count, analysis, result_data, closed, results,
                 job, attempt, patch, patches, lapsed, patched>>

(* The recovery ticker of StartWorker.                                     *)
RecoverTick(i) ==
  /\ Serving(i)
  /\ stale # {}
  /\ RecoverStaleJobs
  /\ UNCHANGED <<attempt_count, analysis, result_data, closed, results,
                 worker, patch, history>>

(* FOR UPDATE SKIP LOCKED: a pending row is passed over while a statement  *)
(* of another worker or of a client holds it.                              *)
MaySkip(i, j) ==
  \/ \E o \in Instances \ {i} : pc[o] = "poll"
  \/ \E c \in Clients : patch[c].job = j

(* ProcessNextJob, the claim: the oldest pending row that is not locked.   *)
Claim(i) ==
  /\ pc[i] = "poll"
  /\ \E j \in Jobs :
       /\ status[j] = "pending"
       /\ \A k \in 1..j-1 : status[k] = "pending" => MaySkip(i, k)
       /\ attempt_count[j] < MaxAttempts
       /\ status' = [status EXCEPT ![j] = "running"]
       /\ attempt_count' = [attempt_count EXCEPT ![j] = @ + 1]
       /\ stale' = stale \ {j}
       /\ \/ /\ Proceed(i, "create")
             /\ job' = [job EXCEPT ![i] = j]
             /\ attempt' = [attempt EXCEPT ![i] = attempt_count'[j]]
          \/ Err(i, "poll") /\ UNCHANGED <<job, attempt>>
  /\ UNCHANGED <<analysis, result_data, closed, results, patch,
                 patches, lapsed, patched>>

(* GetJob, GetSample and the INSERT of CreateAnalysisResult.               *)
CreateAnalysisResult(i) ==
  /\ pc[i] = "create"
  /\ LET insert == analysis' = [analysis EXCEPT ![Row(i)] = "pending"]
     IN \/ insert /\ Proceed(i, "start")
        \/ (insert \/ UNCHANGED analysis) /\ Err(i, "fail")
  /\ UNCHANGED <<status, attempt_count, stale, result_data, closed, results,
                 job, attempt, patch, patches, lapsed, patched>>

(* UpdateAnalysisResultStatus(running).                                    *)
StartAnalysisResult(i) ==
  /\ pc[i] = "start"
  /\ \/ UpdateAnalysisResultStatus(i, "running") /\ Proceed(i, "analyze")
     \/ /\ UpdateAnalysisResultStatus(i, "running") \/ UNCHANGED <<analysis, closed>>
        /\ Err(i, "fail")
  /\ UNCHANGED <<status, attempt_count, stale, result_data, results,
                 job, attempt, patch, patches, lapsed, patched>>

(* The error return of an analysis: its row is failed, then the job.       *)
AnalysisFails(i) == Proceed(i, "abort")

(* ProcessSample, RunAnalysisForJob, the AI report and the marshalling: no *)
(* statement.  The analysis may fail without any fault of the service.     *)
RunAnalysis(i) ==
  /\ pc[i] = "analyze"
  /\ Proceed(i, "save") \/ AnalysisFails(i)
  /\ UNCHANGED <<db, job, attempt, patch, patches, lapsed, patched>>

(* SaveAnalysisResultData.                                                 *)
SaveAnalysisResultData(i) ==
  /\ pc[i] = "save"
  /\ LET update == result_data' = result_data \cup {Row(i)}
     IN \/ update /\ Proceed(i, "insert")
        \/ (update \/ UNCHANGED result_data) /\ Err(i, "abort")
  /\ UNCHANGED <<status, attempt_count, stale, analysis, closed, results,
                 job, attempt, patch, patches, lapsed, patched>>

(* CreateResult: results.job_id is UNIQUE, so that the INSERT of a second  *)
(* attempt fails.                                                          *)
InsertResult(i) == /\ results[job[i]] = None
                   /\ results' = [results EXCEPT ![job[i]] = attempt[i]]

CreateResult(i) ==
  /\ pc[i] = "insert"
  /\ \/ InsertResult(i) /\ Proceed(i, "complete")
     \/ results[job[i]] # None /\ Proceed(i, "abort") /\ UNCHANGED results
     \/ (InsertResult(i) \/ UNCHANGED results) /\ Err(i, "abort")
  /\ UNCHANGED <<status, attempt_count, stale, analysis, result_data, closed,
                 job, attempt, patch, patches, lapsed, patched>>

(* UpdateAnalysisResultStatus(completed).                                  *)
CompleteAnalysisResult(i) ==
  /\ pc[i] = "complete"
  /\ \/ UpdateAnalysisResultStatus(i, "completed") /\ Proceed(i, "check")
     \/ /\ UpdateAnalysisResultStatus(i, "completed") \/ UNCHANGED <<analysis, closed>>
        /\ Err(i, "fail")
  /\ UNCHANGED <<status, attempt_count, stale, result_data, results,
                 job, attempt, patch, patches, lapsed, patched>>

(* UpdateStatus(completed), its SELECT and its ValidTransition.            *)
CheckStatus(i) ==
  /\ pc[i] = "check"
  /\ \/ ValidTransition(status[job[i]], "completed") /\ Proceed(i, "commit")
     \/ ~ValidTransition(status[job[i]], "completed") /\ Proceed(i, "fail")
     \/ Err(i, "fail")
  /\ UNCHANGED <<db, job, attempt, patch, patches, lapsed, patched>>

(* UpdateStatus(completed), its UPDATE: the status it read was "running".  *)
CompleteJob(i) ==
  /\ pc[i] = "commit"
  /\ LET update == /\ status[job[i]] = "running"
                   /\ status' = [status EXCEPT ![job[i]] = "completed"]
                   /\ stale' = stale \ {job[i]}
     IN \/ update /\ Proceed(i, "poll") /\ Forget(i)
        \/ /\ status[job[i]] # "running" /\ Proceed(i, "fail")
           /\ UNCHANGED <<status, stale, job, attempt>>
        \/ /\ (update \/ UNCHANGED <<status, stale>>) /\ Err(i, "fail")
           /\ UNCHANGED <<job, attempt>>
  /\ UNCHANGED <<attempt_count, analysis, result_data, closed, results,
                 patch, patches, lapsed, patched>>

(* UpdateAnalysisResultStatus(failed): its error is ignored or logged.     *)
AbortAnalysisResult(i) ==
  /\ pc[i] = "abort"
  /\ \/ UpdateAnalysisResultStatus(i, "failed") /\ Proceed(i, "fail")
     \/ UNCHANGED <<analysis, closed>> /\ Err(i, "fail")
  /\ UNCHANGED <<status, attempt_count, stale, result_data, results,
                 job, attempt, patch, patches, lapsed, patched>>

(* FailRunningJob: whoever claimed the job since, if it is running it      *)
(* fails; if it is not, nothing happens.                                   *)
FailRunningJob(i) ==
  /\ pc[i] = "fail"
  /\ LET update == /\ status' = [status EXCEPT ![job[i]] =
                                    IF @ = "running" THEN "failed" ELSE @]
                   /\ stale' = stale \ {job[i]}
     IN \/ update /\ Proceed(i, "poll")
        \/ (update \/ UNCHANGED <<status, stale>>) /\ Err(i, "poll")
  /\ Forget(i)
  /\ UNCHANGED <<attempt_count, analysis, result_data, closed, results,
                 patch, patches, lapsed, patched>>
-----------------------------------------------------------------------------
(* keepJobLeaseAlive: the lease of whoever runs the job now is renewed.    *)
Heartbeat(i) ==
  /\ pc[i] \in Processing
  /\ job[i] \in stale
  /\ stale' = stale \ {job[i]}
  /\ UNCHANGED <<status, attempt_count, analysis, result_data, closed, results,
                 worker, patch, history>>

(* staleJobMinutes pass without a heartbeat because there is no goroutine  *)
(* left to send one.                                                       *)
LeaseExpires(j) ==
  /\ status[j] = "running" /\ j \notin stale
  /\ ~Beating(j)
  /\ stale' = stale \cup {j}
  /\ UNCHANGED <<status, attempt_count, analysis, result_data, closed, results,
                 worker, patch, history>>

(* They pass although a worker lives: every heartbeat of ten intervals has *)
(* failed, or the machine was suspended meanwhile.                         *)
LeaseLapses(j) ==
  /\ status[j] = "running" /\ j \notin stale
  /\ Beating(j)
  /\ stale' = stale \cup {j}
  /\ lapsed' = lapsed \cup {j}
  /\ Fault
  /\ UNCHANGED <<status, attempt_count, analysis, result_data, closed, results,
                 worker, patch, patches, patched>>

(* The process dies: its worker, heartbeat and ticker with it.             *)
Crash(i) ==
  /\ pc[i] # "down"
  /\ Err(i, "down")
  /\ Forget(i)
  /\ UNCHANGED <<db, patch, patches, lapsed, patched>>
-----------------------------------------------------------------------------
(* UpdateStatusHandler: UpdateStatus reads the job and checks the move ... *)
PatchRead(c, j, to) ==
  /\ patch[c] = NoPatch
  /\ patches < MaxPatches
  /\ ValidTransition(status[j], to)
  /\ patch' = [patch EXCEPT ![c] = [job |-> j, seen |-> status[j], to |-> to]]
  /\ UNCHANGED <<db, worker, history>>

(* ... and writes it, if the status is still the one it read.  Otherwise,  *)
(* or when the statement fails or its service dies, nothing is written.    *)
StillAsRead(c) == status[patch[c].job] = patch[c].seen

PatchWrite(c) ==
  /\ patch[c] # NoPatch
  /\ LET j == patch[c].job
     IN \/ /\ StillAsRead(c)
           /\ patches < MaxPatches
           /\ status' = [status EXCEPT ![j] = patch[c].to]
           /\ stale' = stale \ {j}
           /\ patches' = patches + 1
           /\ patched' = patched \cup {j}
        \/ UNCHANGED <<status, stale, patches, patched>>
  /\ patch' = [patch EXCEPT ![c] = NoPatch]
  /\ UNCHANGED <<attempt_count, analysis, result_data, closed, results,
                 worker, faults, lapsed>>
-----------------------------------------------------------------------------
(* One iteration step of a worker that is inside ProcessNextJob.           *)
Process(i) ==
  \/ CreateAnalysisResult(i) \/ StartAnalysisResult(i) \/ RunAnalysis(i)
  \/ SaveAnalysisResultData(i) \/ CreateResult(i) \/ CompleteAnalysisResult(i)
  \/ CheckStatus(i) \/ CompleteJob(i) \/ AbortAnalysisResult(i) \/ FailRunningJob(i)

Next ==
  \/ \E j \in Jobs : Submit(j) \/ LeaseExpires(j) \/ LeaseLapses(j)
  \/ \E i \in Instances : \/ StartWorker(i) \/ RecoverTick(i) \/ Claim(i)
                          \/ Process(i) \/ Heartbeat(i) \/ Crash(i)
  \/ \E c \in Clients : \/ \E j \in Jobs, to \in Statuses : PatchRead(c, j, to)
                        \/ PatchWrite(c)

Spec == Init /\ [][Next]_vars

(* The loop polls every second and its statements return; the ticker fires *)
(* every minute; time passes; a crashed service is started again (by its   *)
(* operator: the one assumption about the environment).                    *)
Fairness ==
  /\ \A i \in Instances : /\ WF_vars(StartWorker(i))
                          /\ WF_vars(RecoverTick(i))
                          /\ WF_vars(Claim(i))
                          /\ WF_vars(Process(i))
  /\ \A j \in Jobs : WF_vars(LeaseExpires(j))

FairSpec == Spec /\ Fairness
-----------------------------------------------------------------------------
Working(i, j)  == pc[i] \in Processing /\ job[i] = j
Undisturbed(j) == j \notin lapsed \cup patched

(* Mutual exclusion by lease.  As long as no lease lapsed under a live     *)
(* worker and no client set the job's status, at most one worker is inside *)
(* ProcessNextJob with a job; up to its last statement the job is running, *)
(* its lease is fresh, and the attempt is the latest one.  Crashes, errors *)
(* and lost replies anywhere do not break this (worker.go:69-72, 103-108   *)
(* and jobs.go:44 name no attempt in their WHERE).                         *)
LeaseIsExclusive ==
  \A j \in Jobs : Undisturbed(j) =>
    /\ \A i, k \in Instances : Working(i, j) /\ Working(k, j) => i = k
    /\ \A i \in Instances : Working(i, j) =>
         /\ j \notin stale
         /\ attempt[i] = attempt_count[j]
         /\ status[j] = "running" \/ (pc[i] = "fail" /\ status[j] = "completed")

(* A job can come back to the queue, or is already back in it, without     *)
(* anything further going wrong.                                           *)
Requeuable(j) == \/ status[j] = "pending"
                 \/ status[j] = "running" /\ (j \in stale \/ ~Beating(j))

(* No job is attempted again unless something went wrong: every attempt    *)
(* after the first, and every requeue that is on its way, is paid for by   *)
(* one crash, one failed statement, one lapsed lease or one status change  *)
(* of a client (worker.go RecoverStaleJobs; nothing in the code reads      *)
(* attempt_count).                                                         *)
AttemptsArePaidFor ==
  \A j \in Jobs :
    attempt_count[j] + (IF Requeuable(j) THEN 1 ELSE 0) <= 1 + faults + patches

(* The unique results row elects the one attempt of a job whose analysis   *)
(* may be published: a completed analysis_results row has its data and is  *)
(* that of the attempt that inserted the results row, however many workers *)
(* hold the job (worker.go:265-297, migrations/003).                       *)
ResultRowElects ==
  \A j \in Jobs, a \in Attempts :
    analysis[<<j, a>>] = "completed" => results[j] = a /\ <<j, a>> \in result_data

(* Rows of analysis_results that are open and will stay open: no worker is *)
(* left that could close them.  Each is the trace of a fault; a failed     *)
(* analysis or a lost race never leaves one.                               *)
Orphan(j, a) ==
  /\ analysis[<<j, a>>] \in {"pending", "running"}
  /\ \A i \in Instances : Working(i, j) => attempt[i] # a \/ pc[i] = "fail"

Orphans == {r \in Jobs \X Attempts : Orphan(r[1], r[2])}

OrphansArePaidFor == Cardinality(Orphans) <= faults

(* GetJobDetails shows the row with the latest completed_at.  For a job    *)
(* that its worker completed this is a completed row with data: no later   *)
(* failed attempt hides it.  With several instances the lease must not     *)
(* have lapsed.                                                            *)
CompletedJobShowsItsReport ==
  \A j \in Jobs \ patched :
    (status[j] = "completed" /\ (Cardinality(Instances) = 1 \/ j \notin lapsed)) =>
      \E a \in Attempts : /\ closed[j] # <<>> /\ closed[j][Len(closed[j])] = a
                         /\ analysis[<<j, a>>] = "completed"
                         /\ <<j, a>> \in result_data

(* What Upload.jsx tells the user of a failed job: the analysis failed     *)
(* inside the sandbox.  So, if there were more attempts than faults, some  *)
(* attempt ended without the data of an analysis.  The code does not keep  *)
(* this: see README.                                                       *)
FailureMeansAnalysisFailed ==
  \A j \in Jobs \ patched : (status[j] = "failed" /\ attempt_count[j] > faults) =>
    \E a \in 1..attempt_count[j] : <<j, a>> \notin result_data

(* The tables implement the job life cycle promised to clients: statuses   *)
(* change only by legal moves and settle for good, and no worker completes *)
(* a job without a published report, through any race of workers, recovery *)
(* and clients.                                                            *)
Published == {j \in Jobs : \E a \in Attempts : analysis[<<j, a>>] = "completed"}

Lifecycle == INSTANCE JobLifecycle WITH published <- Published, overridden <- patched
LifecycleSpec == Lifecycle!Spec

(* Every submitted job settles, unless every worker has stopped for good   *)
(* on a failed first recovery (worker.go:24-26, main.go:37).               *)
EveryJobSettles ==
  \A j \in Jobs : status[j] = "pending" ~>
    status[j] \in Settled \/ \A i \in Instances : pc[i] = "stopped"
=============================================================================
