--------------------------- MODULE JobQueueProofs ----------------------------
(***************************************************************************)
(* Types and safety of JobQueue, for any number of jobs, instances and     *)
(* clients and any bounds on faults and client interventions: the lease, the*)
(* price of a retry, the election by the results row.  Then what clients are*)
(* promised: the tables and the workers implement JobLifecycle, so a job is *)
(* completed only with its published report; rows are left open only at the *)
(* price of a fault; and no failed attempt hides the report of a completed  *)
(* job.                                                                    *)
(***************************************************************************)
EXTENDS JobQueue, FiniteSetTheorems, TLAPS

(* Types *)

(* A worker inside ProcessNextJob has a job, an attempt and so a row.      *)
LEMMA RowType ==
  ASSUME TypeOK, NEW i \in Instances, pc[i] \in Processing
  PROVE  job[i] \in Jobs /\ attempt[i] \in Attempts /\ Row(i) \in Jobs \X Attempts
  BY DEF TypeOK, WorkersOK, Row

(* What the reply to a statement does to the worker keeps its type.        *)
LEMMA ReplyType ==
  ASSUME TypeOK, NEW i \in Instances, NEW next \in Locations,
         pc[i] \in Processing \/ next \notin Processing,
         Proceed(i, next) \/ Err(i, next),
         UNCHANGED <<job, attempt>> \/ (Forget(i) /\ next \notin Processing)
  PROVE  WorkersOK' /\ faults' \in 0..MaxFaults
<1>1. WorkersOK'
  BY RowType DEF TypeOK, WorkersOK, Proceed, Err, Forget
<1>2. faults' \in 0..MaxFaults
  BY BoundsAssumption DEF TypeOK, HistoryOK, Proceed, Err, Fault
<1>3. QED
  BY <1>1, <1>2

(* An update of a worker's own analysis_results row keeps the row's type.  *)
LEMMA UpdateType ==
  ASSUME TypeOK, NEW i \in Instances, pc[i] \in Processing,
         NEW s \in {"running", "completed", "failed"},
         UpdateAnalysisResultStatus(i, s) \/ UNCHANGED <<analysis, closed>>,
         UNCHANGED <<result_data, results>>
  PROVE  ResultsOK'
<1>1. job[i] \in Jobs /\ attempt[i] \in Attempts /\ Row(i) \in Jobs \X Attempts
  BY RowType
<1>2. analysis' \in [Jobs \X Attempts -> AnalysisStatuses]
  BY <1>1 DEF TypeOK, ResultsOK, UpdateAnalysisResultStatus, AnalysisStatuses
<1>3. closed' \in [Jobs -> Seq(Attempts)]
  <2>1. closed \in [Jobs -> Seq(Attempts)] /\ closed[job[i]] \in Seq(Attempts)
    BY <1>1 DEF TypeOK, ResultsOK
  <2>2. Append(closed[job[i]], attempt[i]) \in Seq(Attempts)
    BY <1>1, <2>1
  <2>3. \/ closed' = [closed EXCEPT ![job[i]] = Append(closed[job[i]], attempt[i])]
        \/ closed' = closed
    BY DEF UpdateAnalysisResultStatus
  <2>4. QED
    BY <1>1, <2>1, <2>2, <2>3
<1>4. QED
  BY <1>2, <1>3 DEF TypeOK, ResultsOK

(* A change of one job's status that refreshes its age keeps its type.     *)
LEMMA StatusType ==
  ASSUME TypeOK, NEW j \in Jobs, NEW s \in Statuses,
         status' = [status EXCEPT ![j] = s], stale' = stale \ {j},
         UNCHANGED attempt_count
  PROVE  JobsOK'
<1>1. status' \in [Jobs -> Statuses]
  BY DEF TypeOK, JobsOK
<1>2. (stale \in SUBSET {k \in Jobs : status[k] = "running"})'
  BY DEF TypeOK, JobsOK
<1>3. QED
  BY <1>1, <1>2 DEF TypeOK, JobsOK

(* So does the recovery of the stale jobs.                                 *)
LEMMA RecoverType ==
  ASSUME TypeOK, RecoverStaleJobs, UNCHANGED attempt_count
  PROVE  JobsOK'
  BY DEF TypeOK, JobsOK, RecoverStaleJobs, Statuses

(* The claim raises one attempt_count, which the assumption on the bounds  *)
(* leaves room for.                                                        *)
LEMMA ClaimType ==
  ASSUME TypeOK, NEW i \in Instances, Claim(i)
  PROVE  TypeOK'
<1>1. PICK j \in Jobs :
        /\ attempt_count[j] < MaxAttempts
        /\ status' = [status EXCEPT ![j] = "running"]
        /\ attempt_count' = [attempt_count EXCEPT ![j] = @ + 1]
        /\ stale' = stale \ {j}
        /\ \/ /\ Proceed(i, "create")
              /\ job' = [job EXCEPT ![i] = j]
              /\ attempt' = [attempt EXCEPT ![i] = attempt_count'[j]]
           \/ Err(i, "poll") /\ UNCHANGED <<job, attempt>>
  BY DEF Claim
<1>2. attempt_count' \in [Jobs -> 0..MaxAttempts] /\ attempt_count'[j] \in Attempts
  BY <1>1, BoundsAssumption DEF TypeOK, JobsOK, Attempts
<1>3. JobsOK'
  <2>1. status' \in [Jobs -> Statuses]
    BY <1>1 DEF TypeOK, JobsOK, Statuses
  <2>2. (stale \in SUBSET {k \in Jobs : status[k] = "running"})'
    BY <1>1 DEF TypeOK, JobsOK
  <2>3. QED
    BY <1>2, <2>1, <2>2 DEF JobsOK
<1>4. WorkersOK' /\ faults' \in 0..MaxFaults
  <2>1. CASE Err(i, "poll") /\ UNCHANGED <<job, attempt>>
    BY <2>1, ReplyType DEF Locations, Processing
  <2>2. CASE /\ Proceed(i, "create")
             /\ job' = [job EXCEPT ![i] = j]
             /\ attempt' = [attempt EXCEPT ![i] = attempt_count'[j]]
    BY <1>2, <2>2 DEF TypeOK, WorkersOK, HistoryOK, Proceed, Locations, Processing
  <2>3. QED
    BY <1>1, <2>1, <2>2
<1>5. ResultsOK' /\ ClientsOK' /\ HistoryOK'
  BY <1>4 DEF Claim, TypeOK, ResultsOK, ClientsOK, HistoryOK
<1>6. QED
  BY <1>3, <1>4, <1>5 DEF TypeOK

(* Every statement of a worker inside ProcessNextJob keeps the types.      *)
LEMMA ProcessType ==
  ASSUME TypeOK, NEW i \in Instances, Process(i)
  PROVE  TypeOK'
<1> USE DEF Locations, Processing
<1>1. Process(i) => pc[i] \in Processing /\ UNCHANGED <<attempt_count, patch, patches, lapsed, patched>>
  BY DEF Process, CreateAnalysisResult, StartAnalysisResult, RunAnalysis,
         SaveAnalysisResultData, CreateResult, CompleteAnalysisResult,
         CheckStatus, CompleteJob, AbortAnalysisResult, FailRunningJob, db
<1>2. job[i] \in Jobs /\ attempt[i] \in Attempts /\ Row(i) \in Jobs \X Attempts
  BY <1>1, RowType
<1>3. CASE CreateAnalysisResult(i)
  <2>1. JobsOK'
    BY <1>3 DEF CreateAnalysisResult, TypeOK, JobsOK
  <2>2. ResultsOK'
    BY <1>2, <1>3 DEF CreateAnalysisResult, TypeOK, ResultsOK, AnalysisStatuses
  <2>3. WorkersOK' /\ faults' \in 0..MaxFaults
    BY <1>1, <1>3, ReplyType DEF CreateAnalysisResult
  <2>4. QED
    BY <1>1, <2>1, <2>2, <2>3 DEF TypeOK, ClientsOK, HistoryOK
<1>4. CASE StartAnalysisResult(i)
  <2>1. JobsOK' /\ ResultsOK'
    BY <1>1, <1>4, UpdateType DEF StartAnalysisResult, TypeOK, JobsOK
  <2>2. WorkersOK' /\ faults' \in 0..MaxFaults
    BY <1>1, <1>4, ReplyType DEF StartAnalysisResult
  <2>3. QED
    BY <1>1, <2>1, <2>2 DEF TypeOK, ClientsOK, HistoryOK
<1>5. CASE RunAnalysis(i)
  <2>1. JobsOK' /\ ResultsOK'
    BY <1>5 DEF RunAnalysis, db, TypeOK, JobsOK, ResultsOK
  <2>2. WorkersOK' /\ faults' \in 0..MaxFaults
    BY <1>1, <1>5, ReplyType DEF RunAnalysis, AnalysisFails
  <2>3. QED
    BY <1>1, <2>1, <2>2 DEF TypeOK, ClientsOK, HistoryOK
<1>6. CASE SaveAnalysisResultData(i)
  <2>1. JobsOK' /\ ResultsOK'
    BY <1>2, <1>6 DEF SaveAnalysisResultData, TypeOK, JobsOK, ResultsOK
  <2>2. WorkersOK' /\ faults' \in 0..MaxFaults
    BY <1>1, <1>6, ReplyType DEF SaveAnalysisResultData
  <2>3. QED
    BY <1>1, <2>1, <2>2 DEF TypeOK, ClientsOK, HistoryOK
<1>7. CASE CreateResult(i)
  <2>1. JobsOK' /\ ResultsOK'
    BY <1>2, <1>7 DEF CreateResult, InsertResult, TypeOK, JobsOK, ResultsOK
  <2>2. WorkersOK' /\ faults' \in 0..MaxFaults
    BY <1>1, <1>7, ReplyType DEF CreateResult
  <2>3. QED
    BY <1>1, <2>1, <2>2 DEF TypeOK, ClientsOK, HistoryOK
<1>8. CASE CompleteAnalysisResult(i)
  <2>1. JobsOK' /\ ResultsOK'
    BY <1>1, <1>8, UpdateType DEF CompleteAnalysisResult, TypeOK, JobsOK
  <2>2. WorkersOK' /\ faults' \in 0..MaxFaults
    BY <1>1, <1>8, ReplyType DEF CompleteAnalysisResult
  <2>3. QED
    BY <1>1, <2>1, <2>2 DEF TypeOK, ClientsOK, HistoryOK
<1>9. CASE CheckStatus(i)
  <2>1. JobsOK' /\ ResultsOK'
    BY <1>9 DEF CheckStatus, db, TypeOK, JobsOK, ResultsOK
  <2>2. WorkersOK' /\ faults' \in 0..MaxFaults
    BY <1>1, <1>9, ReplyType DEF CheckStatus
  <2>3. QED
    BY <1>1, <2>1, <2>2 DEF TypeOK, ClientsOK, HistoryOK
<1>10. CASE CompleteJob(i)
  <2>1. \/ status' = [status EXCEPT ![job[i]] = "completed"] /\ stale' = stale \ {job[i]}
        \/ UNCHANGED <<status, stale>>
    BY <1>10 DEF CompleteJob
  <2>2. JobsOK'
    BY <1>1, <1>2, <2>1, StatusType DEF TypeOK, JobsOK, Statuses
  <2>3. WorkersOK' /\ faults' \in 0..MaxFaults
    BY <1>1, <1>10, ReplyType DEF CompleteJob
  <2>4. QED
    BY <1>1, <1>10, <2>2, <2>3 DEF CompleteJob, TypeOK, ResultsOK, ClientsOK, HistoryOK
<1>11. CASE AbortAnalysisResult(i)
  <2>1. JobsOK' /\ ResultsOK'
    BY <1>1, <1>11, UpdateType DEF AbortAnalysisResult, TypeOK, JobsOK
  <2>2. WorkersOK' /\ faults' \in 0..MaxFaults
    BY <1>1, <1>11, ReplyType DEF AbortAnalysisResult
  <2>3. QED
    BY <1>1, <2>1, <2>2 DEF TypeOK, ClientsOK, HistoryOK
<1>12. CASE FailRunningJob(i)
  <2> DEFINE s == IF status[job[i]] = "running" THEN "failed" ELSE status[job[i]]
  <2>1. \/ status' = [status EXCEPT ![job[i]] = s] /\ stale' = stale \ {job[i]}
        \/ UNCHANGED <<status, stale>>
    BY <1>12 DEF FailRunningJob
  <2>2. s \in Statuses
    BY <1>2 DEF TypeOK, JobsOK, Statuses
  <2>3. JobsOK'
    <3> HIDE DEF s
    <3>1. QED
      BY <1>1, <1>2, <2>1, <2>2, StatusType DEF TypeOK, JobsOK
  <2>4. WorkersOK' /\ faults' \in 0..MaxFaults
    BY <1>1, <1>12, ReplyType DEF FailRunningJob
  <2>5. QED
    BY <1>1, <1>12, <2>3, <2>4 DEF FailRunningJob, TypeOK, ResultsOK, ClientsOK, HistoryOK
<1>13. QED
  BY <1>3, <1>4, <1>5, <1>6, <1>7, <1>8, <1>9, <1>10, <1>11, <1>12 DEF Process

(* Clients keep the types.                                                 *)
LEMMA PatchType ==
  ASSUME TypeOK, NEW c \in Clients,
         PatchWrite(c) \/ \E j \in Jobs, to \in Statuses : PatchRead(c, j, to)
  PROVE  TypeOK'
<1>1. CASE PatchWrite(c)
  <2> DEFINE j == patch[c].job
  <2>1. j \in Jobs /\ patch[c].to \in Statuses
    BY <1>1 DEF PatchWrite, TypeOK, ClientsOK, Patches
  <2>2. JobsOK'
    <3>1. \/ UNCHANGED <<status, stale>>
          \/ status' = [status EXCEPT ![j] = patch[c].to] /\ stale' = stale \ {j}
      BY <1>1 DEF PatchWrite
    <3> HIDE DEF j
    <3>2. QED
      BY <1>1, <2>1, <3>1, StatusType DEF PatchWrite, TypeOK, JobsOK
  <2>3. ResultsOK' /\ WorkersOK' /\ ClientsOK'
    BY <1>1 DEF PatchWrite, TypeOK, ResultsOK, WorkersOK, worker, ClientsOK, Patches
  <2>4. HistoryOK'
    BY <1>1, <2>1, BoundsAssumption DEF PatchWrite, TypeOK, HistoryOK
  <2>5. QED
    BY <2>2, <2>3, <2>4 DEF TypeOK
<1>2. ASSUME NEW j \in Jobs, NEW to \in Statuses, PatchRead(c, j, to)
      PROVE  TypeOK'
  <2>1. ClientsOK'
    BY <1>2 DEF PatchRead, TypeOK, JobsOK, ClientsOK, Patches
  <2>2. QED
    BY <1>2, <2>1 DEF PatchRead, db, worker, history,
                      TypeOK, JobsOK, ResultsOK, WorkersOK, HistoryOK
<1>3. QED
  BY <1>1, <1>2

(* Every reachable state is well typed, and only running jobs are stale.   *)
THEOREM TypeCorrect == Spec => []TypeOK
<1>1. Init => TypeOK
  BY BoundsAssumption
     DEF Init, TypeOK, JobsOK, ResultsOK, WorkersOK, ClientsOK, HistoryOK,
         Statuses, AnalysisStatuses, Locations, Processing, Patches
<1>2. TypeOK /\ [Next]_vars => TypeOK'
  <2> SUFFICES ASSUME TypeOK, [Next]_vars PROVE TypeOK'
    OBVIOUS
  <2>1. ASSUME NEW j \in Jobs, Submit(j) PROVE TypeOK'
    <3>1. JobsOK'
      BY <2>1 DEF Submit, TypeOK, JobsOK, Statuses
    <3>2. QED
      BY <2>1, <3>1 DEF Submit, worker, history,
                        TypeOK, ResultsOK, WorkersOK, ClientsOK, HistoryOK
  <2>2. ASSUME NEW j \in Jobs, LeaseExpires(j) \/ LeaseLapses(j) PROVE TypeOK'
    <3>1. JobsOK'
      BY <2>2 DEF LeaseExpires, LeaseLapses, TypeOK, JobsOK
    <3>2. HistoryOK'
      BY <2>2, BoundsAssumption DEF LeaseExpires, LeaseLapses, Fault, history, TypeOK, HistoryOK
    <3>3. QED
      BY <2>2, <3>1, <3>2 DEF LeaseExpires, LeaseLapses, worker,
                              TypeOK, ResultsOK, WorkersOK, ClientsOK
  <2>3. ASSUME NEW i \in Instances, StartWorker(i) PROVE TypeOK'
    <3>1. JobsOK'
      BY <2>3, RecoverType DEF StartWorker, TypeOK, JobsOK
    <3>2. WorkersOK' /\ faults' \in 0..MaxFaults
      BY <2>3, ReplyType DEF StartWorker, Locations, Processing
    <3>3. QED
      BY <2>3, <3>1, <3>2 DEF StartWorker, TypeOK, ResultsOK, ClientsOK, HistoryOK
  <2>4. ASSUME NEW i \in Instances, RecoverTick(i) PROVE TypeOK'
    BY <2>4, RecoverType DEF RecoverTick, worker, history,
                             TypeOK, ResultsOK, WorkersOK, ClientsOK, HistoryOK
  <2>5. ASSUME NEW i \in Instances, Heartbeat(i) PROVE TypeOK'
    BY <2>5 DEF Heartbeat, worker, history,
                TypeOK, JobsOK, ResultsOK, WorkersOK, ClientsOK, HistoryOK
  <2>6. ASSUME NEW i \in Instances, Crash(i) PROVE TypeOK'
    <3>1. WorkersOK' /\ faults' \in 0..MaxFaults
      BY <2>6, ReplyType DEF Crash, Locations, Processing
    <3>2. QED
      BY <2>6, <3>1 DEF Crash, db, TypeOK, JobsOK, ResultsOK, ClientsOK, HistoryOK
  <2>7. CASE UNCHANGED vars
    BY <2>7 DEF vars, db, worker, history,
                TypeOK, JobsOK, ResultsOK, WorkersOK, ClientsOK, HistoryOK
  <2>8. QED
    BY <2>1, <2>2, <2>3, <2>4, <2>5, <2>6, <2>7, ClaimType, ProcessType, PatchType DEF Next
<1>3. QED
  BY <1>1, <1>2, PTL DEF Spec

-----------------------------------------------------------------------------
(* The lease, the retries and the election *)

(* The seven statements that touch neither the jobs table nor the clients  *)
(* and keep the worker inside ProcessNextJob.                              *)
Inside(i) ==
  \/ CreateAnalysisResult(i) \/ StartAnalysisResult(i) \/ RunAnalysis(i)
  \/ SaveAnalysisResultData(i) \/ CreateResult(i) \/ CompleteAnalysisResult(i)
  \/ AbortAnalysisResult(i)

LEMMA InsideStep ==
  ASSUME TypeOK, NEW i \in Instances, Inside(i)
  PROVE  /\ pc[i] \in Processing \ {"check", "commit", "fail"}
         /\ \E l \in Processing : pc' = [pc EXCEPT ![i] = l]
         /\ faults' \in {faults, faults + 1}
         /\ UNCHANGED <<status, stale, attempt_count, job, attempt, patch,
                        patches, lapsed, patched>>
<1> USE DEF Proceed, Err, Fault, Processing
<1>1. CASE CreateAnalysisResult(i) \/ StartAnalysisResult(i)
  BY <1>1 DEF CreateAnalysisResult, StartAnalysisResult
<1>2. CASE RunAnalysis(i) \/ SaveAnalysisResultData(i)
  BY <1>2 DEF RunAnalysis, AnalysisFails, db, SaveAnalysisResultData
<1>3. CASE CreateResult(i) \/ CompleteAnalysisResult(i)
  BY <1>3 DEF CreateResult, CompleteAnalysisResult
<1>4. CASE AbortAnalysisResult(i)
  BY <1>4 DEF AbortAnalysisResult
<1>5. QED
  BY <1>1, <1>2, <1>3, <1>4 DEF Inside

(* The steps of the specification, as the proofs below split them.         *)
LEMMA NextSplit ==
  ASSUME [Next]_vars
  PROVE  \/ \E j \in Jobs : Submit(j) \/ LeaseExpires(j) \/ LeaseLapses(j)
         \/ \E i \in Instances :
              \/ StartWorker(i) \/ RecoverTick(i) \/ Claim(i) \/ Inside(i)
              \/ CheckStatus(i) \/ CompleteJob(i) \/ FailRunningJob(i)
              \/ Heartbeat(i) \/ Crash(i)
         \/ \E c \in Clients : \/ \E j \in Jobs, to \in Statuses : PatchRead(c, j, to)
                               \/ PatchWrite(c)
         \/ UNCHANGED vars
  BY DEF Next, Process, Inside
-----------------------------------------------------------------------------
(* The lease of one job, as LeaseIsExclusive states it for all.            *)
LeaseHolds(j) ==
  /\ \A i, k \in Instances : Working(i, j) /\ Working(k, j) => i = k
  /\ \A i \in Instances : Working(i, j) =>
       /\ j \notin stale
       /\ attempt[i] = attempt_count[j]
       /\ status[j] = "running" \/ (pc[i] = "fail" /\ status[j] = "completed")

(* A job that was disturbed stays disturbed.                               *)
LEMMA DisturbedForGood ==
  ASSUME [Next]_vars, NEW j \in Jobs, Undisturbed(j)'
  PROVE  Undisturbed(j)
  BY NextSplit, InsideStep
     DEF Undisturbed, Submit, LeaseExpires, LeaseLapses, StartWorker, RecoverTick, Claim,
         Inside, CreateAnalysisResult, StartAnalysisResult, RunAnalysis,
         SaveAnalysisResultData, CreateResult, CompleteAnalysisResult, AbortAnalysisResult,
         CheckStatus, CompleteJob, FailRunningJob, Heartbeat, Crash, PatchRead, PatchWrite,
         vars, db, worker, history

(* The lease survives a step that changes neither the status nor the       *)
(* attempt_count of the job, makes its lease no older, and puts no new     *)
(* worker on it.                                                           *)
LEMMA LeaseKept ==
  ASSUME NEW j \in Jobs, LeaseHolds(j),
         status'[j] = status[j], attempt_count'[j] = attempt_count[j],
         j \in stale' => j \in stale,
         \A i \in Instances : Working(i, j)' =>
           Working(i, j) /\ attempt'[i] = attempt[i] /\ (pc[i] = "fail" => pc'[i] = "fail")
  PROVE  LeaseHolds(j)'
  BY DEF LeaseHolds

(* The lease survives a step after which nobody works on the job.          *)
LEMMA LeaseFree ==
  ASSUME NEW j \in Jobs, \A i \in Instances : ~Working(i, j)'
  PROVE  LeaseHolds(j)'
  BY DEF LeaseHolds

(* The claim finds the job pending, so that nobody works on it yet.        *)
LEMMA LeaseClaimed ==
  ASSUME TypeOK, TypeOK', NEW i \in Instances, Claim(i), NEW j \in Jobs, LeaseHolds(j)
  PROVE  LeaseHolds(j)'
<1>1. PICK m \in Jobs :
        /\ status[m] = "pending"
        /\ status' = [status EXCEPT ![m] = "running"]
        /\ attempt_count' = [attempt_count EXCEPT ![m] = @ + 1]
        /\ stale' = stale \ {m}
        /\ \/ /\ pc' = [pc EXCEPT ![i] = "create"]
              /\ job' = [job EXCEPT ![i] = m]
              /\ attempt' = [attempt EXCEPT ![i] = attempt_count'[m]]
           \/ pc' = [pc EXCEPT ![i] = "poll"] /\ UNCHANGED <<job, attempt>>
  BY DEF Claim, Proceed, Err
<1>2. pc[i] = "poll" /\ pc \in [Instances -> Locations] /\ job \in [Instances -> Jobs \cup {None}]
  BY DEF Claim, TypeOK, WorkersOK
<1>3. \A k \in Instances : k # i =>
        /\ Working(k, j)' => Working(k, j)
        /\ attempt'[k] = attempt[k] /\ pc'[k] = pc[k]
  BY <1>1, <1>2 DEF Working, TypeOK, WorkersOK
<1>4. ~Working(i, j)
  BY <1>2 DEF Working, Processing
<1>5. CASE j # m
  <2>1. ~Working(i, j)'
    BY <1>1, <1>2, <1>5 DEF Working, Processing
  <2>2. status'[j] = status[j] /\ attempt_count'[j] = attempt_count[j]
    BY <1>1, <1>5 DEF TypeOK, JobsOK
  <2>3. QED
    BY <1>1, <1>3, <2>1, <2>2, LeaseKept
<1>6. CASE j = m
  <2>1. \A k \in Instances : ~Working(k, j)
    BY <1>1, <1>6 DEF LeaseHolds
  <2>2. \A k \in Instances : Working(k, j)' => k = i /\ attempt'[i] = attempt_count'[j]
    BY <1>1, <1>2, <1>3, <1>6, <2>1 DEF Working, Processing, TypeOK, WorkersOK
  <2>3. status'[j] = "running" /\ j \notin stale'
    BY <1>1, <1>6 DEF TypeOK, JobsOK
  <2>4. QED
    BY <2>2, <2>3 DEF LeaseHolds
<1>7. QED
  BY <1>5, <1>6

(* A worker that stays on its own job, or leaves it, keeps the lease of    *)
(* every job whose row it does not change.                                 *)
LEMMA LeaseOfWorker ==
  ASSUME TypeOK, TypeOK', NEW i \in Instances, NEW l \in Locations, pc' = [pc EXCEPT ![i] = l],
         \/ UNCHANGED <<job, attempt>> /\ (pc[i] \in Processing \/ l \notin Processing)
         \/ Forget(i) /\ l \notin Processing,
         pc[i] = "fail" => l \notin Processing,
         NEW j \in Jobs, LeaseHolds(j), UNCHANGED attempt_count,
         status'[j] = status[j], j \in stale' => j \in stale
  PROVE  LeaseHolds(j)'
<1>1. \A k \in Instances : Working(k, j)' =>
        Working(k, j) /\ attempt'[k] = attempt[k] /\ (pc[k] = "fail" => pc'[k] = "fail")
  BY DEF Working, Forget, TypeOK, WorkersOK
<1>2. QED
  BY <1>1, LeaseKept

LEMMA LeaseOfProcess ==
  ASSUME TypeOK, TypeOK', NEW i \in Instances,
         Inside(i) \/ CheckStatus(i) \/ CompleteJob(i) \/ FailRunningJob(i) \/ Crash(i),
         NEW j \in Jobs, LeaseHolds(j)
  PROVE  LeaseHolds(j)'
<1> USE DEF Locations, Processing
<1>1. CASE Inside(i)
  BY <1>1, InsideStep, LeaseOfWorker
<1>2. CASE CheckStatus(i)
  <2>1. pc[i] = "check" /\ \E l \in Processing : pc' = [pc EXCEPT ![i] = l]
    BY <1>2 DEF CheckStatus, Proceed, Err
  <2>2. QED
    BY <1>2, <2>1, LeaseOfWorker DEF CheckStatus, db
<1>3. CASE CompleteJob(i)
  <2>1. /\ pc[i] = "commit"
        /\ \/ pc' = [pc EXCEPT ![i] = "poll"] /\ Forget(i)
           \/ pc' = [pc EXCEPT ![i] = "fail"] /\ UNCHANGED <<job, attempt>>
        /\ \/ status' = [status EXCEPT ![job[i]] = "completed"] /\ stale' = stale \ {job[i]}
           \/ UNCHANGED <<status, stale>>
        /\ UNCHANGED attempt_count
    BY <1>3 DEF CompleteJob, Proceed, Err
  <2>2. CASE status'[j] = status[j]
    BY <2>1, <2>2, LeaseOfWorker
  <2>3. CASE status'[j] # status[j]
    <3>1. j = job[i] /\ status'[j] = "completed" /\ stale' = stale \ {j}
      BY <2>1, <2>3 DEF TypeOK, JobsOK
    <3>2. Working(i, j)
      BY <2>1, <3>1 DEF Working
    <3>3. \A k \in Instances : Working(k, j)' => k = i /\ attempt'[k] = attempt[k] /\ pc'[k] = "fail"
      BY <2>1, <3>2 DEF LeaseHolds, Working, Forget, TypeOK, WorkersOK
    <3>4. QED
      BY <2>1, <3>1, <3>2, <3>3 DEF LeaseHolds
  <2>4. QED
    BY <2>2, <2>3
<1>4. CASE FailRunningJob(i)
  <2>1. /\ pc[i] = "fail" /\ pc' = [pc EXCEPT ![i] = "poll"] /\ Forget(i)
        /\ \/ /\ status' = [status EXCEPT ![job[i]] = IF @ = "running" THEN "failed" ELSE @]
              /\ stale' = stale \ {job[i]}
           \/ UNCHANGED <<status, stale>>
        /\ UNCHANGED attempt_count
    BY <1>4 DEF FailRunningJob, Proceed, Err
  <2>2. CASE status'[j] = status[j]
    BY <2>1, <2>2, LeaseOfWorker
  <2>3. CASE status'[j] # status[j]
    <3>1. Working(i, j)
      BY <2>1, <2>3 DEF Working, TypeOK, JobsOK
    <3>2. \A k \in Instances : ~Working(k, j)'
      BY <2>1, <3>1 DEF LeaseHolds, Working, Forget, TypeOK, WorkersOK
    <3>3. QED
      BY <3>2, LeaseFree
  <2>4. QED
    BY <2>2, <2>3
<1>5. CASE Crash(i)
  BY <1>5, LeaseOfWorker DEF Crash, Err, db
<1>6. QED
  BY <1>1, <1>2, <1>3, <1>4, <1>5

(* At most one worker holds an undisturbed job, with a fresh lease.        *)
THEOREM Exclusive == Spec => []LeaseIsExclusive
<1>1. Init => LeaseIsExclusive
  BY DEF Init, LeaseIsExclusive, Working, Processing
<1>2. TypeOK /\ TypeOK' /\ LeaseIsExclusive /\ [Next]_vars => LeaseIsExclusive'
  <2> SUFFICES ASSUME TypeOK, TypeOK', LeaseIsExclusive, [Next]_vars,
                      NEW j \in Jobs, Undisturbed(j)'
               PROVE  LeaseHolds(j)'
    BY DEF LeaseIsExclusive, LeaseHolds
  <2> Undisturbed(j) /\ LeaseHolds(j)
    BY DisturbedForGood DEF LeaseIsExclusive, LeaseHolds
  <2>1. ASSUME NEW m \in Jobs, Submit(m) PROVE LeaseHolds(j)'
    <3>1. CASE j # m
      BY <2>1, <3>1, LeaseKept DEF Submit, worker, Working, TypeOK, JobsOK
    <3>2. CASE j = m
      BY <2>1, <3>2, LeaseFree DEF Submit, worker, Working, LeaseHolds
    <3>3. QED
      BY <3>1, <3>2
  <2>2. ASSUME NEW m \in Jobs, LeaseExpires(m) \/ LeaseLapses(m) PROVE LeaseHolds(j)'
    <3>1. CASE j # m
      BY <2>2, <3>1, LeaseKept DEF LeaseExpires, LeaseLapses, worker, Working
    <3>2. CASE j = m
      BY <2>2, <3>2, LeaseFree
         DEF LeaseExpires, LeaseLapses, worker, Working, Beating, Undisturbed
    <3>3. QED
      BY <3>1, <3>2
  <2>3. ASSUME NEW i \in Instances, RecoverTick(i) \/ StartWorker(i) PROVE LeaseHolds(j)'
    <3>1. /\ UNCHANGED <<attempt_count, job, attempt>>
          /\ \A k \in Instances : Working(k, j)' => Working(k, j) /\ pc'[k] = pc[k]
      BY <2>3 DEF RecoverTick, StartWorker, worker, Proceed, Err, Working, Processing,
                  TypeOK, WorkersOK
    <3>2. RecoverStaleJobs \/ UNCHANGED <<status, stale>>
      BY <2>3 DEF RecoverTick, StartWorker
    <3>3. CASE j \in stale
      BY <3>1, <3>3, LeaseFree DEF LeaseHolds
    <3>4. CASE j \notin stale
      BY <3>1, <3>2, <3>4, LeaseKept DEF RecoverStaleJobs
    <3>5. QED
      BY <3>3, <3>4
  <2>4. ASSUME NEW i \in Instances, Heartbeat(i) PROVE LeaseHolds(j)'
    BY <2>4, LeaseKept DEF Heartbeat, worker, Working
  <2>5. ASSUME NEW c \in Clients, NEW m \in Jobs, NEW to \in Statuses, PatchRead(c, m, to)
        PROVE  LeaseHolds(j)'
    BY <2>5, LeaseKept DEF PatchRead, db, worker, Working
  <2>6. ASSUME NEW c \in Clients, PatchWrite(c) PROVE LeaseHolds(j)'
    <3>1. status'[j] = status[j] /\ (j \in stale' => j \in stale)
      BY <2>6 DEF PatchWrite, Undisturbed, TypeOK, JobsOK
    <3>2. QED
      BY <2>6, <3>1, LeaseKept DEF PatchWrite, worker, Working
  <2>7. CASE UNCHANGED vars
    BY <2>7, LeaseKept DEF vars, db, worker, Working
  <2>8. QED
    BY <2>1, <2>2, <2>3, <2>4, <2>5, <2>6, <2>7, NextSplit, LeaseClaimed, LeaseOfProcess
<1>3. QED
  BY <1>1, <1>2, TypeCorrect, PTL DEF Spec
-----------------------------------------------------------------------------
(* A client writes only legal moves, a job somebody works on exists, and a *)
(* job that was never submitted was never claimed.                         *)
JobsExist ==
  /\ \A c \in Clients : patch[c] # NoPatch => ValidTransition(patch[c].seen, patch[c].to)
  /\ \A i \in Instances : pc[i] \in Processing => status[job[i]] # "absent"
  /\ \A j \in Jobs : status[j] = "absent" => attempt_count[j] = 0

(* A worker inside ProcessNextJob was there before, on the same attempt of *)
(* the same job, or has just claimed it.                                   *)
LEMMA SameWork ==
  ASSUME TypeOK, TypeOK', [Next]_vars, NEW k \in Instances, pc'[k] \in Processing
  PROVE  \/ pc[k] \in Processing /\ job'[k] = job[k] /\ attempt'[k] = attempt[k]
         \/ Claim(k)
<1> USE DEF Locations, Processing, Proceed, Err
<1>1. ASSUME NEW j \in Jobs, Submit(j) \/ LeaseExpires(j) \/ LeaseLapses(j) PROVE UNCHANGED worker
  BY <1>1 DEF Submit, LeaseExpires, LeaseLapses, worker
<1>2. ASSUME NEW c \in Clients, PatchWrite(c) \/ \E j \in Jobs, to \in Statuses : PatchRead(c, j, to)
      PROVE  UNCHANGED worker
  BY <1>2 DEF PatchRead, PatchWrite, worker
<1>3. CASE UNCHANGED worker
  BY <1>3 DEF worker
<1>4. ASSUME NEW i \in Instances,
             StartWorker(i) \/ RecoverTick(i) \/ Claim(i) \/ Heartbeat(i) \/ Crash(i),
             ~Claim(k)
      PROVE  pc[k] \in Processing /\ job'[k] = job[k] /\ attempt'[k] = attempt[k]
  BY <1>4 DEF StartWorker, RecoverTick, Claim, Heartbeat, Crash, worker, Forget, TypeOK, WorkersOK
<1>5. ASSUME NEW i \in Instances,
             Inside(i) \/ CheckStatus(i) \/ CompleteJob(i) \/ FailRunningJob(i)
      PROVE  pc[k] \in Processing /\ job'[k] = job[k] /\ attempt'[k] = attempt[k]
  BY <1>5, InsideStep DEF CheckStatus, CompleteJob, FailRunningJob, Forget, TypeOK, WorkersOK
<1>6. QED
  BY <1>1, <1>2, <1>3, <1>4, <1>5, NextSplit DEF vars, worker

(* No step takes a job back to "absent", and only a claim counts.          *)
LEMMA NeverAbsentAgain ==
  ASSUME TypeOK, JobsExist, [Next]_vars, NEW j \in Jobs
  PROVE  /\ status'[j] = "absent" => status[j] = "absent"
         /\ attempt_count'[j] # attempt_count[j] => status'[j] = "running"
<1>1. ASSUME NEW m \in Jobs, Submit(m) \/ LeaseExpires(m) \/ LeaseLapses(m)
      PROVE  UNCHANGED attempt_count /\ (status'[j] = "absent" => status[j] = "absent")
  BY <1>1 DEF Submit, LeaseExpires, LeaseLapses, TypeOK, JobsOK
<1>2. ASSUME NEW i \in Instances, StartWorker(i) \/ RecoverTick(i) \/ Heartbeat(i) \/ Crash(i)
      PROVE  UNCHANGED attempt_count /\ (status'[j] = "absent" => status[j] = "absent")
  BY <1>2 DEF StartWorker, RecoverTick, RecoverStaleJobs, Heartbeat, Crash, db, TypeOK, JobsOK
<1>3. ASSUME NEW i \in Instances,
             Inside(i) \/ CheckStatus(i) \/ CompleteJob(i) \/ FailRunningJob(i)
      PROVE  UNCHANGED attempt_count /\ (status'[j] = "absent" => status[j] = "absent")
  BY <1>3, InsideStep DEF CheckStatus, db, CompleteJob, FailRunningJob, TypeOK, JobsOK
<1>4. ASSUME NEW i \in Instances, Claim(i)
      PROVE  \/ status'[j] = "running"
             \/ status'[j] = status[j] /\ attempt_count'[j] = attempt_count[j]
  BY <1>4 DEF Claim, TypeOK, JobsOK
<1>5. ASSUME NEW c \in Clients, PatchWrite(c) \/ \E m \in Jobs, to \in Statuses : PatchRead(c, m, to)
      PROVE  UNCHANGED attempt_count /\ (status'[j] = "absent" => status[j] = "absent")
  BY <1>5 DEF PatchRead, db, PatchWrite, JobsExist, ValidTransition, TypeOK, JobsOK
<1>6. QED
  BY <1>1, <1>2, <1>3, <1>4, <1>5, NextSplit DEF vars, db

LEMMA Existence == Spec => []JobsExist
<1>1. Init => JobsExist
  BY DEF Init, JobsExist, Processing
<1>2. TypeOK /\ TypeOK' /\ JobsExist /\ [Next]_vars => JobsExist'
  <2> SUFFICES ASSUME TypeOK, TypeOK', JobsExist, [Next]_vars PROVE JobsExist'
    OBVIOUS
  <2>1. ASSUME NEW c \in Clients, patch'[c] # NoPatch
        PROVE  ValidTransition(patch'[c].seen, patch'[c].to)
    <3>1. CASE patch'[c] = patch[c]
      BY <2>1, <3>1 DEF JobsExist
    <3>2. \/ patch' = patch
          \/ \E d \in Clients : patch' = [patch EXCEPT ![d] = NoPatch]
          \/ \E d \in Clients, m \in Jobs, to \in Statuses : PatchRead(d, m, to)
      BY NextSplit, InsideStep
         DEF Submit, LeaseExpires, LeaseLapses, StartWorker, RecoverTick, Claim, CheckStatus,
             CompleteJob, FailRunningJob, Heartbeat, Crash, PatchWrite, vars
    <3>3. CASE patch'[c] # patch[c]
      <4>1. PICK d \in Clients, m \in Jobs, to \in Statuses : PatchRead(d, m, to)
        BY <2>1, <3>2, <3>3 DEF TypeOK, ClientsOK
      <4>2. d = c /\ patch'[c] = [job |-> m, seen |-> status[m], to |-> to]
        BY <3>3, <4>1 DEF PatchRead, TypeOK, ClientsOK
      <4>3. QED
        BY <4>1, <4>2 DEF PatchRead
    <3>4. QED
      BY <3>1, <3>3
  <2>2. ASSUME NEW k \in Instances, pc'[k] \in Processing PROVE status'[job'[k]] # "absent"
    <3>1. CASE Claim(k)
      BY <2>2, <3>1 DEF Claim, Err, Processing, TypeOK, JobsOK, WorkersOK
    <3>2. CASE pc[k] \in Processing /\ job'[k] = job[k]
      BY <3>2, NeverAbsentAgain DEF JobsExist, TypeOK, WorkersOK
    <3>3. QED
      BY <2>2, <3>1, <3>2, SameWork
  <2>3. ASSUME NEW j \in Jobs, status'[j] = "absent" PROVE attempt_count'[j] = 0
    BY <2>3, NeverAbsentAgain DEF JobsExist
  <2>4. QED
    BY <2>1, <2>2, <2>3 DEF JobsExist
<1>3. QED
  BY <1>1, <1>2, TypeCorrect, PTL DEF Spec
-----------------------------------------------------------------------------
(* The account of one job, as AttemptsArePaidFor states it for all.        *)
PaidFor(j) ==
  attempt_count[j] + (IF Requeuable(j) THEN 1 ELSE 0) <= 1 + faults + patches

(* A step that claims nothing must pay if it makes a job requeuable.       *)
LEMMA PaidKept ==
  ASSUME TypeOK, TypeOK', NEW j \in Jobs, PaidFor(j), attempt_count'[j] = attempt_count[j],
         faults' >= faults, patches' >= patches,
         (Requeuable(j)' => Requeuable(j)) \/ faults' > faults \/ patches' > patches
  PROVE  PaidFor(j)'
<1>1. attempt_count[j] \in Nat /\ {faults, faults', patches, patches'} \subseteq Nat
  BY BoundsAssumption DEF TypeOK, JobsOK, HistoryOK
<1>2. faults' + patches' >= faults + patches
  BY <1>1
<1>3. CASE Requeuable(j)' => Requeuable(j)
  BY <1>1, <1>2, <1>3 DEF PaidFor
<1>4. CASE faults' > faults \/ patches' > patches
  <2>1. faults' + patches' >= faults + patches + 1
    BY <1>1, <1>4
  <2>2. QED
    BY <1>1, <2>1 DEF PaidFor
<1>5. QED
  BY <1>3, <1>4

LEMMA PaidClaim ==
  ASSUME TypeOK, TypeOK', NEW i \in Instances, Claim(i), NEW j \in Jobs, PaidFor(j)
  PROVE  PaidFor(j)'
<1>1. PICK m \in Jobs :
        /\ status[m] = "pending"
        /\ status' = [status EXCEPT ![m] = "running"]
        /\ attempt_count' = [attempt_count EXCEPT ![m] = @ + 1]
        /\ stale' = stale \ {m}
        /\ \/ /\ Proceed(i, "create")
              /\ job' = [job EXCEPT ![i] = m]
              /\ attempt' = [attempt EXCEPT ![i] = attempt_count'[m]]
           \/ Err(i, "poll") /\ UNCHANGED <<job, attempt>>
  BY DEF Claim
<1>2. pc[i] = "poll" /\ pc \in [Instances -> Locations] /\ job \in [Instances -> Jobs \cup {None}]
  BY DEF Claim, TypeOK, WorkersOK
<1>3. /\ attempt_count[j] \in Nat /\ {faults, patches} \subseteq Nat
      /\ patches' = patches /\ faults' \in {faults, faults + 1}
  BY <1>1, BoundsAssumption DEF TypeOK, JobsOK, HistoryOK, Claim, Proceed, Err, Fault
<1>4. CASE j # m
  <2>1. Beating(j) => Beating(j)'
    BY <1>1, <1>2, <1>4 DEF Beating, Proceed, Err, Processing
  <2>2. status'[j] = status[j] /\ attempt_count'[j] = attempt_count[j]
    BY <1>1, <1>4 DEF TypeOK, JobsOK
  <2>3. Requeuable(j)' => Requeuable(j)
    BY <1>1, <2>1, <2>2 DEF Requeuable
  <2>4. QED
    BY <1>3, <2>2, <2>3, PaidKept
<1>5. CASE j = m
  <2>1. Requeuable(j) /\ attempt_count'[j] = attempt_count[j] + 1
    BY <1>1, <1>5 DEF Requeuable, TypeOK, JobsOK
  <2>2. CASE Err(i, "poll")
    BY <1>3, <2>1, <2>2 DEF PaidFor, Err, Fault
  <2>3. CASE Proceed(i, "create") /\ job' = [job EXCEPT ![i] = m]
    <3>1. Beating(j)'
      BY <1>2, <1>5, <2>3 DEF Beating, Proceed, Processing
    <3>2. ~Requeuable(j)'
      BY <1>1, <1>5, <3>1 DEF Requeuable, TypeOK, JobsOK
    <3>3. QED
      BY <1>3, <2>1, <3>2 DEF PaidFor
  <2>4. QED
    BY <1>1, <2>2, <2>3
<1>6. QED
  BY <1>4, <1>5

LEMMA PaidProcess ==
  ASSUME TypeOK, TypeOK', NEW i \in Instances,
         Inside(i) \/ CheckStatus(i) \/ CompleteJob(i) \/ FailRunningJob(i) \/ Crash(i),
         NEW j \in Jobs, PaidFor(j)
  PROVE  PaidFor(j)'
<1> USE DEF Processing
<1>0. faults \in Nat /\ patches \in Nat
  BY BoundsAssumption DEF TypeOK, HistoryOK
<1>1. CASE Inside(i)
  <2>1. Beating(j) => Beating(j)'
    BY <1>1, InsideStep DEF Beating, TypeOK, WorkersOK
  <2>2. QED
    BY <1>0, <1>1, <2>1, InsideStep, PaidKept DEF Requeuable
<1>2. CASE CheckStatus(i)
  <2>1. Beating(j) => Beating(j)'
    BY <1>2 DEF CheckStatus, Proceed, Err, Beating, TypeOK, WorkersOK
  <2>2. UNCHANGED <<status, stale, attempt_count, patches>> /\ faults' \in {faults, faults + 1}
    BY <1>2 DEF CheckStatus, db, Proceed, Err, Fault
  <2>3. QED
    BY <1>0, <2>1, <2>2, PaidKept DEF Requeuable
<1>3. CASE CompleteJob(i)
  <2>1. UNCHANGED <<attempt_count, patches>> /\ faults' \in {faults, faults + 1}
    BY <1>3 DEF CompleteJob, Proceed, Err, Fault
  <2>2. CASE faults' = faults + 1
    BY <1>0, <2>1, <2>2, PaidKept
  <2>3. CASE faults' = faults
    <3>1. \/ /\ status' = [status EXCEPT ![job[i]] = "completed"]
             /\ stale' = stale \ {job[i]}
             /\ pc' = [pc EXCEPT ![i] = "poll"] /\ Forget(i)
          \/ UNCHANGED <<status, stale, job>> /\ pc' = [pc EXCEPT ![i] = "fail"]
      BY <1>0, <1>3, <2>3 DEF CompleteJob, Proceed, Err, Fault
    <3>2. (job[i] # j \/ pc' = [pc EXCEPT ![i] = "fail"]) => (Beating(j) => Beating(j)')
      BY <3>1 DEF Beating, Forget, TypeOK, WorkersOK
    <3>3. Requeuable(j)' => Requeuable(j)
      BY <3>1, <3>2 DEF Requeuable, TypeOK, JobsOK
    <3>4. QED
      BY <1>0, <2>1, <2>3, <3>3, PaidKept
  <2>4. QED
    BY <2>1, <2>2, <2>3
<1>4. CASE FailRunningJob(i)
  <2>1. UNCHANGED <<attempt_count, patches>> /\ faults' \in {faults, faults + 1}
    BY <1>4 DEF FailRunningJob, Proceed, Err, Fault
  <2>2. CASE faults' = faults + 1
    BY <1>0, <2>1, <2>2, PaidKept
  <2>3. CASE faults' = faults
    <3>1. /\ status' = [status EXCEPT ![job[i]] = IF @ = "running" THEN "failed" ELSE @]
          /\ stale' = stale \ {job[i]}
          /\ pc' = [pc EXCEPT ![i] = "poll"] /\ Forget(i)
      BY <1>0, <1>4, <2>3 DEF FailRunningJob, Proceed, Err, Fault
    <3>2. job[i] # j => (Beating(j) => Beating(j)')
      BY <3>1 DEF Beating, Forget, TypeOK, WorkersOK
    <3>3. Requeuable(j)' => Requeuable(j)
      BY <3>1, <3>2 DEF Requeuable, TypeOK, JobsOK
    <3>4. QED
      BY <1>0, <2>1, <2>3, <3>3, PaidKept
  <2>4. QED
    BY <2>1, <2>2, <2>3
<1>5. CASE Crash(i)
  BY <1>0, <1>5, PaidKept DEF Crash, Err, Fault, db
<1>6. QED
  BY <1>1, <1>2, <1>3, <1>4, <1>5

(* Every attempt after the first is paid for by a fault or a client.       *)
THEOREM RetriesHaveACause == Spec => []AttemptsArePaidFor
<1>1. Init => AttemptsArePaidFor
  BY DEF Init, AttemptsArePaidFor, Requeuable
<1>2. TypeOK /\ TypeOK' /\ JobsExist /\ AttemptsArePaidFor /\ [Next]_vars => AttemptsArePaidFor'
  <2> SUFFICES ASSUME TypeOK, TypeOK', JobsExist, AttemptsArePaidFor, [Next]_vars, NEW j \in Jobs
               PROVE  PaidFor(j)'
    BY DEF AttemptsArePaidFor, PaidFor
  <2>0. PaidFor(j) /\ {faults, patches} \subseteq Nat
    BY BoundsAssumption DEF AttemptsArePaidFor, PaidFor, TypeOK, HistoryOK
  <2>1. ASSUME NEW m \in Jobs, Submit(m) PROVE PaidFor(j)'
    <3>1. UNCHANGED <<attempt_count, stale, faults, patches>> /\ (Beating(j)' <=> Beating(j))
      BY <2>1 DEF Submit, worker, history, Beating
    <3>2. CASE j = m
      BY <2>0, <2>1, <3>1, <3>2 DEF JobsExist, Submit, PaidFor
    <3>3. CASE j # m
      BY <2>0, <2>1, <3>1, <3>3, PaidKept DEF Submit, Requeuable, TypeOK, JobsOK
    <3>4. QED
      BY <3>2, <3>3
  <2>2. ASSUME NEW m \in Jobs, LeaseExpires(m) PROVE PaidFor(j)'
    <3>1. UNCHANGED <<attempt_count, status, faults, patches>> /\ (Beating(j)' <=> Beating(j))
      BY <2>2 DEF LeaseExpires, worker, history, Beating
    <3>2. Requeuable(j)' => Requeuable(j)
      BY <2>2, <3>1 DEF LeaseExpires, Requeuable
    <3>3. QED
      BY <2>0, <3>1, <3>2, PaidKept
  <2>3. ASSUME NEW m \in Jobs, LeaseLapses(m) PROVE PaidFor(j)'
    BY <2>0, <2>3, PaidKept DEF LeaseLapses, Fault
  <2>4. ASSUME NEW i \in Instances, RecoverTick(i) \/ StartWorker(i) PROVE PaidFor(j)'
    <3>1. /\ UNCHANGED <<attempt_count, patches>> /\ faults' \in {faults, faults + 1}
          /\ RecoverStaleJobs \/ UNCHANGED <<status, stale>>
      BY <2>4 DEF RecoverTick, StartWorker, worker, history, Proceed, Err, Fault
    <3>2. Beating(j) => Beating(j)'
      BY <2>4 DEF RecoverTick, StartWorker, worker, Proceed, Err, Beating, Processing,
                  TypeOK, WorkersOK
    <3>3. Requeuable(j)' => Requeuable(j)
      BY <3>1, <3>2 DEF RecoverStaleJobs, Requeuable, TypeOK, JobsOK
    <3>4. QED
      BY <2>0, <3>1, <3>3, PaidKept
  <2>5. ASSUME NEW i \in Instances, Heartbeat(i) PROVE PaidFor(j)'
    <3>1. UNCHANGED <<attempt_count, status, faults, patches>> /\ (Beating(j)' <=> Beating(j))
      BY <2>5 DEF Heartbeat, worker, history, Beating
    <3>2. Requeuable(j)' => Requeuable(j)
      BY <2>5, <3>1 DEF Heartbeat, Requeuable
    <3>3. QED
      BY <2>0, <3>1, <3>2, PaidKept
  <2>6. ASSUME NEW c \in Clients, PatchWrite(c) PROVE PaidFor(j)'
    <3>1. UNCHANGED <<attempt_count, faults>> /\ (Beating(j)' <=> Beating(j))
      BY <2>6 DEF PatchWrite, worker, Beating
    <3>2. patches' = patches + 1 \/ UNCHANGED <<status, stale, patches>>
      BY <2>6 DEF PatchWrite
    <3>3. QED
      BY <2>0, <3>1, <3>2, PaidKept DEF Requeuable
  <2>7. CASE \/ \E c \in Clients, m \in Jobs, to \in Statuses : PatchRead(c, m, to)
             \/ UNCHANGED vars
    <3>1. UNCHANGED <<db, worker, history>>
      BY <2>7 DEF PatchRead, vars
    <3>2. UNCHANGED <<attempt_count, status, stale, faults, patches>> /\ (Beating(j)' <=> Beating(j))
      BY <3>1 DEF db, worker, history, Beating
    <3>3. QED
      BY <2>0, <3>2, PaidKept DEF Requeuable
  <2>8. QED
    BY <2>0, <2>1, <2>2, <2>3, <2>4, <2>5, <2>6, <2>7, NextSplit, PaidClaim, PaidProcess
<1>3. QED
  BY <1>1, <1>2, TypeCorrect, Existence, PTL DEF Spec
-----------------------------------------------------------------------------
(* What a step does to one row of analysis_results, to the data of the     *)
(* rows and to the results rows.                                           *)
LEMMA RowStep ==
  ASSUME TypeOK, [Next]_vars, NEW j \in Jobs, NEW a \in Attempts
  PROVE  /\ \/ analysis'[<<j, a>>] = analysis[<<j, a>>]
            \/ \E i \in Instances :
                 /\ Row(i) = <<j, a>>
                 /\ \/ pc[i] = "create" /\ analysis'[<<j, a>>] = "pending"
                    \/ /\ pc[i] \in {"start", "complete", "abort"}
                       /\ ValidAnalysisResultTransition(analysis[<<j, a>>], analysis'[<<j, a>>])
                       /\ analysis'[<<j, a>>] = "completed" => pc[i] = "complete"
         /\ result_data \subseteq result_data'
         /\ results[j] # None => results'[j] = results[j]
<1> USE DEF Processing
<1>1. ASSUME NEW i \in Instances, pc[i] \in Processing, NEW s \in {"running", "completed", "failed"},
             UpdateAnalysisResultStatus(i, s)
      PROVE  \/ analysis'[<<j, a>>] = analysis[<<j, a>>]
             \/ /\ Row(i) = <<j, a>> /\ analysis'[<<j, a>>] = s
                /\ ValidAnalysisResultTransition(analysis[<<j, a>>], s)
  BY <1>1, RowType DEF UpdateAnalysisResultStatus, TypeOK, ResultsOK
<1>2. ASSUME NEW i \in Instances, CreateAnalysisResult(i)
      PROVE  /\ UNCHANGED <<result_data, results>>
             /\ \/ analysis'[<<j, a>>] = analysis[<<j, a>>]
                \/ Row(i) = <<j, a>> /\ pc[i] = "create" /\ analysis'[<<j, a>>] = "pending"
  BY <1>2, RowType DEF CreateAnalysisResult, TypeOK, ResultsOK
<1>3. ASSUME NEW i \in Instances, StartAnalysisResult(i) \/ CompleteAnalysisResult(i) \/ AbortAnalysisResult(i)
      PROVE  /\ UNCHANGED <<result_data, results>>
             /\ \/ analysis'[<<j, a>>] = analysis[<<j, a>>]
                \/ /\ Row(i) = <<j, a>> /\ pc[i] \in {"start", "complete", "abort"}
                   /\ ValidAnalysisResultTransition(analysis[<<j, a>>], analysis'[<<j, a>>])
                   /\ analysis'[<<j, a>>] = "completed" => pc[i] = "complete"
  <2>1. CASE StartAnalysisResult(i)
    BY <1>1, <2>1 DEF StartAnalysisResult
  <2>2. CASE CompleteAnalysisResult(i)
    BY <1>1, <2>2 DEF CompleteAnalysisResult
  <2>3. CASE AbortAnalysisResult(i)
    BY <1>1, <2>3 DEF AbortAnalysisResult
  <2>4. QED
    BY <1>3, <2>1, <2>2, <2>3
<1>4. ASSUME NEW i \in Instances, SaveAnalysisResultData(i) \/ CreateResult(i)
      PROVE  /\ UNCHANGED analysis /\ result_data \subseteq result_data'
             /\ results[j] # None => results'[j] = results[j]
  BY <1>4, RowType DEF SaveAnalysisResultData, CreateResult, InsertResult, TypeOK, ResultsOK
<1>5. ASSUME NEW i \in Instances,
             \/ StartWorker(i) \/ RecoverTick(i) \/ Claim(i) \/ Heartbeat(i) \/ Crash(i)
             \/ RunAnalysis(i) \/ CheckStatus(i) \/ CompleteJob(i) \/ FailRunningJob(i)
      PROVE  UNCHANGED <<analysis, result_data, results>>
  BY <1>5 DEF StartWorker, RecoverTick, Claim, Heartbeat, Crash, RunAnalysis, CheckStatus,
              CompleteJob, FailRunningJob, db
<1>6. ASSUME NEW m \in Jobs, Submit(m) \/ LeaseExpires(m) \/ LeaseLapses(m)
      PROVE  UNCHANGED <<analysis, result_data, results>>
  BY <1>6 DEF Submit, LeaseExpires, LeaseLapses
<1>7. ASSUME NEW c \in Clients, PatchWrite(c) \/ \E m \in Jobs, to \in Statuses : PatchRead(c, m, to)
      PROVE  UNCHANGED <<analysis, result_data, results>>
  BY <1>7 DEF PatchRead, PatchWrite, db
<1>8. QED
  <2> HIDE DEF Processing
  <2>1. QED
    BY <1>2, <1>3, <1>4, <1>5, <1>6, <1>7, NextSplit DEF Inside, vars, db

(* What a worker has just done when it arrives at a statement.             *)
LEMMA PcStep ==
  ASSUME TypeOK, [Next]_vars, NEW i \in Instances, pc'[i] # pc[i]
  PROVE  /\ pc'[i] = "create" => Claim(i)
         /\ pc'[i] = "insert" => pc[i] = "save" /\ Row(i) \in result_data'
         /\ pc'[i] = "complete" => pc[i] = "insert" /\ results'[job[i]] = attempt[i]
         /\ pc'[i] = "check" => pc[i] = "complete" /\ analysis'[Row(i)] = "completed"
         /\ pc'[i] = "commit" => pc[i] = "check"
<1>1. ASSUME UNCHANGED pc PROVE FALSE
  BY <1>1
<1>2. ASSUME NEW k \in Instances, NEW l, pc' = [pc EXCEPT ![k] = l]
      PROVE  k = i /\ pc'[i] = l
  BY <1>2 DEF TypeOK, WorkersOK
<1>3. ASSUME NEW k \in Instances, NEW l, Proceed(k, l) \/ Err(k, l) PROVE k = i /\ pc'[i] = l
  BY <1>2, <1>3 DEF Proceed, Err
<1>4. ASSUME NEW k \in Instances, CreateAnalysisResult(k) \/ StartAnalysisResult(k) \/ RunAnalysis(k)
      PROVE  pc'[i] \in {"start", "analyze", "save", "abort", "fail"}
  BY <1>3, <1>4 DEF CreateAnalysisResult, StartAnalysisResult, RunAnalysis, AnalysisFails
<1>5. ASSUME NEW k \in Instances, AbortAnalysisResult(k) \/ CompleteJob(k) \/ FailRunningJob(k) \/ Crash(k) \/ StartWorker(k)
      PROVE  pc'[i] \in {"poll", "fail", "down", "stopped"}
  BY <1>3, <1>5 DEF AbortAnalysisResult, CompleteJob, FailRunningJob, Crash, StartWorker
<1>6. ASSUME NEW k \in Instances, SaveAnalysisResultData(k)
      PROVE  \/ pc'[i] = "insert" /\ pc[i] = "save" /\ Row(i) \in result_data'
             \/ pc'[i] = "abort"
  BY <1>3, <1>6 DEF SaveAnalysisResultData
<1>7. ASSUME NEW k \in Instances, CreateResult(k)
      PROVE  \/ pc'[i] = "complete" /\ pc[i] = "insert" /\ results'[job[i]] = attempt[i]
             \/ pc'[i] = "abort"
  BY <1>3, <1>7, RowType DEF CreateResult, InsertResult, Processing, TypeOK, ResultsOK
<1>8. ASSUME NEW k \in Instances, CompleteAnalysisResult(k)
      PROVE  \/ pc'[i] = "check" /\ pc[i] = "complete" /\ analysis'[Row(i)] = "completed"
             \/ pc'[i] = "fail"
  BY <1>3, <1>8, RowType
     DEF CompleteAnalysisResult, UpdateAnalysisResultStatus, Processing, TypeOK, ResultsOK
<1>9. ASSUME NEW k \in Instances, CheckStatus(k)
      PROVE  pc'[i] = "fail" \/ (pc'[i] = "commit" /\ pc[i] = "check")
  BY <1>3, <1>9 DEF CheckStatus
<1>10. ASSUME NEW k \in Instances, Claim(k)
       PROVE  pc'[i] \in {"create", "poll"} /\ Claim(i)
  BY <1>3, <1>10 DEF Claim
<1>11. ASSUME NEW j \in Jobs, Submit(j) \/ LeaseExpires(j) \/ LeaseLapses(j) PROVE FALSE
  BY <1>1, <1>11 DEF Submit, LeaseExpires, LeaseLapses, worker
<1>12. ASSUME NEW k \in Instances, RecoverTick(k) \/ Heartbeat(k) PROVE FALSE
  BY <1>1, <1>12 DEF RecoverTick, Heartbeat, worker
<1>13. ASSUME NEW c \in Clients, PatchWrite(c) \/ \E m \in Jobs, to \in Statuses : PatchRead(c, m, to)
       PROVE  FALSE
  BY <1>1, <1>13 DEF PatchRead, PatchWrite, worker
<1>14. ~UNCHANGED vars
  BY <1>1 DEF vars, worker
<1>15. QED
  BY <1>4, <1>5, <1>6, <1>7, <1>8, <1>9, <1>10, <1>11, <1>12, <1>13, <1>14 DEF Next, Process
-----------------------------------------------------------------------------
(* What the worker has when it stands between SaveAnalysisResultData and   *)
(* the completion of its row: the data, and then the results row.          *)
HoldsResult ==
  \A i \in Instances :
    /\ pc[i] \in {"insert", "complete"} => Row(i) \in result_data
    /\ pc[i] = "complete" => results[job[i]] = attempt[i]

(* A completed row has its data and is that of the attempt that inserted   *)
(* the results row; a worker about to complete its row has both.           *)
LEMMA Holding == Spec => [](HoldsResult /\ ResultRowElects)
<1> DEFINE IInv == HoldsResult /\ ResultRowElects
<1>1. Init => IInv
  BY DEF Init, HoldsResult, ResultRowElects
<1>2. TypeOK /\ TypeOK' /\ IInv /\ [Next]_vars => IInv'
  <2> SUFFICES ASSUME TypeOK, TypeOK', HoldsResult, ResultRowElects, [Next]_vars PROVE IInv'
    OBVIOUS
  <2>1. ASSUME NEW i \in Instances, pc'[i] \in {"insert", "complete"}
        PROVE  /\ Row(i)' \in result_data'
               /\ pc'[i] = "complete" => results'[job'[i]] = attempt'[i]
    <3>1. pc[i] \in Processing /\ job'[i] = job[i] /\ attempt'[i] = attempt[i]
      BY <2>1, SameWork, PcStep DEF Claim, Proceed, Err, Processing, TypeOK, WorkersOK
    <3>2. job[i] \in Jobs /\ attempt[i] \in Attempts /\ Row(i)' = Row(i)
      BY <3>1, RowType DEF Row
    <3>3. result_data \subseteq result_data' /\ (results[job[i]] # None => results'[job[i]] = results[job[i]])
      BY <3>2, RowStep
    <3>4. CASE pc'[i] = pc[i]
      BY <2>1, <3>1, <3>2, <3>3, <3>4 DEF HoldsResult, Attempts, None
    <3>5. CASE pc'[i] # pc[i]
      BY <2>1, <3>1, <3>2, <3>3, <3>5, PcStep DEF HoldsResult
    <3>6. QED
      BY <3>4, <3>5
  <2>2. ASSUME NEW j \in Jobs, NEW a \in Attempts, analysis'[<<j, a>>] = "completed"
        PROVE  results'[j] = a /\ <<j, a>> \in result_data'
    <3>1. results[j] = a /\ <<j, a>> \in result_data
      <4>1. CASE analysis[<<j, a>>] = "completed"
        BY <4>1 DEF ResultRowElects
      <4>2. CASE analysis[<<j, a>>] # "completed"
        <5>1. PICK i \in Instances : Row(i) = <<j, a>> /\ pc[i] = "complete"
          BY <2>2, <4>2, RowStep
        <5>2. QED
          BY <5>1 DEF HoldsResult, Row
      <4>3. QED
        BY <4>1, <4>2
    <3>2. QED
      BY <3>1, RowStep DEF Attempts, None
  <2>3. QED
    BY <2>1, <2>2 DEF HoldsResult, ResultRowElects
<1>3. QED
  BY <1>1, <1>2, TypeCorrect, PTL DEF Spec

(* The results row elects the attempt whose row may be completed.          *)
THEOREM Election == Spec => []ResultRowElects
  BY Holding, PTL
-----------------------------------------------------------------------------
(* No attempt number is used twice, so that no worker writes on the row of *)
(* another one, and no row is completed before its attempt.                *)
AttemptsAreFresh ==
  /\ \A i \in Instances : pc[i] \in Processing => attempt[i] <= attempt_count[job[i]]
  /\ \A i, k \in Instances :
       (pc[i] \in Processing /\ pc[k] \in Processing /\ Row(i) = Row(k)) => i = k
  /\ \A j \in Jobs, a \in Attempts :
       analysis[<<j, a>>] = "completed" => a <= attempt_count[j]
  /\ \A i \in Instances : pc[i] = "create" => analysis[Row(i)] # "completed"

(* A worker about to complete its job has completed its row.               *)
RowBeforeJob ==
  \A i \in Instances : pc[i] \in {"check", "commit"} => analysis[Row(i)] = "completed"

(* A claim takes the next attempt number and moves only its own worker.    *)
LEMMA ClaimStep ==
  ASSUME TypeOK, NEW i \in Instances, Claim(i)
  PROVE  /\ UNCHANGED <<analysis, result_data, results>> /\ pc'[i] \in {"create", "poll"}
         /\ \A k \in Instances \ {i} : pc'[k] = pc[k] /\ job'[k] = job[k] /\ attempt'[k] = attempt[k]
         /\ \A j \in Jobs : attempt_count'[j] \in {attempt_count[j], attempt_count[j] + 1}
         /\ pc'[i] = "create" =>
              /\ job'[i] \in Jobs
              /\ attempt'[i] = attempt_count'[job'[i]]
              /\ attempt'[i] = attempt_count[job'[i]] + 1
  BY DEF Claim, Proceed, Err, TypeOK, JobsOK, WorkersOK

LEMMA CountGrows ==
  ASSUME TypeOK, TypeOK', JobsExist, [Next]_vars, NEW j \in Jobs
  PROVE  attempt_count'[j] >= attempt_count[j]
<1>1. attempt_count[j] \in Nat
  BY DEF TypeOK, JobsOK
<1>2. ASSUME NEW i \in Instances, Claim(i) PROVE attempt_count'[j] >= attempt_count[j]
  BY <1>1, <1>2, ClaimStep
<1>3. ASSUME UNCHANGED attempt_count PROVE attempt_count'[j] >= attempt_count[j]
  BY <1>1, <1>3
<1>4. ASSUME NEW m \in Jobs, Submit(m) \/ LeaseExpires(m) \/ LeaseLapses(m)
      PROVE  UNCHANGED attempt_count
  BY <1>4 DEF Submit, LeaseExpires, LeaseLapses
<1>5. ASSUME NEW i \in Instances,
             \/ StartWorker(i) \/ RecoverTick(i) \/ Heartbeat(i) \/ Crash(i)
             \/ Inside(i) \/ CheckStatus(i) \/ CompleteJob(i) \/ FailRunningJob(i)
      PROVE  UNCHANGED attempt_count
  BY <1>5, InsideStep
     DEF StartWorker, RecoverTick, Heartbeat, Crash, CheckStatus, CompleteJob, FailRunningJob, db
<1>6. ASSUME NEW c \in Clients, PatchWrite(c) \/ \E m \in Jobs, to \in Statuses : PatchRead(c, m, to)
      PROVE  UNCHANGED attempt_count
  BY <1>6 DEF PatchRead, PatchWrite, db
<1>7. QED
  BY <1>2, <1>3, <1>4, <1>5, <1>6, NextSplit DEF vars, db

(* A row once completed stays completed.                                   *)
LEMMA CompletedStays ==
  ASSUME TypeOK, AttemptsAreFresh, [Next]_vars, NEW j \in Jobs, NEW a \in Attempts,
         analysis[<<j, a>>] = "completed"
  PROVE  analysis'[<<j, a>>] = "completed"
  BY RowStep DEF AttemptsAreFresh, ValidAnalysisResultTransition

LEMMA Freshness == Spec => []AttemptsAreFresh
<1>1. Init => AttemptsAreFresh
  BY DEF Init, AttemptsAreFresh, Processing
<1>2. TypeOK /\ TypeOK' /\ JobsExist /\ AttemptsAreFresh /\ [Next]_vars => AttemptsAreFresh'
  <2> SUFFICES ASSUME TypeOK, TypeOK', JobsExist, AttemptsAreFresh, [Next]_vars
               PROVE  AttemptsAreFresh'
    OBVIOUS
  <2> \A j \in Jobs : attempt_count[j] \in Nat /\ attempt_count'[j] \in Nat
    BY DEF TypeOK, JobsOK
  <2>1. ASSUME NEW k \in Instances, pc'[k] \in Processing
        PROVE  attempt'[k] <= attempt_count'[job'[k]]
    <3>1. CASE pc[k] \in Processing /\ job'[k] = job[k] /\ attempt'[k] = attempt[k]
      <4>1. job[k] \in Jobs /\ attempt[k] \in Nat /\ attempt[k] <= attempt_count[job[k]]
        BY <3>1, RowType DEF AttemptsAreFresh, Attempts
      <4>2. QED
        BY <3>1, <4>1, CountGrows
    <3>2. CASE Claim(k)
      BY <2>1, <3>2, ClaimStep DEF Processing
    <3>3. QED
      BY <2>1, <3>1, <3>2, SameWork
  <2>2. ASSUME NEW i \in Instances, NEW k \in Instances, i # k,
               pc'[i] \in Processing, pc'[k] \in Processing, Claim(i)
        PROVE  Row(i)' # Row(k)'
    <3>1. pc[k] \in Processing /\ job'[k] = job[k] /\ attempt'[k] = attempt[k]
      BY <2>2, ClaimStep
    <3>2. job[k] \in Jobs /\ attempt[k] \in Nat /\ attempt[k] <= attempt_count[job[k]]
      BY <3>1, RowType DEF AttemptsAreFresh, Attempts
    <3>3. attempt'[i] = attempt_count[job'[i]] + 1
      BY <2>2, ClaimStep DEF Processing
    <3>4. job'[i] = job'[k] => attempt'[i] # attempt'[k]
      BY <3>1, <3>2, <3>3
    <3>5. QED
      BY <3>4 DEF Row
  <2>3. ASSUME NEW i \in Instances, NEW k \in Instances,
               pc'[i] \in Processing, pc'[k] \in Processing, Row(i)' = Row(k)'
        PROVE  i = k
    <3>1. SUFFICES ASSUME i # k PROVE FALSE
      OBVIOUS
    <3>2. ~Claim(i) /\ ~Claim(k)
      BY <2>2, <2>3, <3>1
    <3>3. /\ pc[i] \in Processing /\ job'[i] = job[i] /\ attempt'[i] = attempt[i]
          /\ pc[k] \in Processing /\ job'[k] = job[k] /\ attempt'[k] = attempt[k]
      BY <2>3, <3>2, SameWork
    <3>4. Row(i) = Row(k)
      BY <2>3, <3>3 DEF Row
    <3>5. QED
      BY <3>1, <3>3, <3>4 DEF AttemptsAreFresh
  <2>4. ASSUME NEW j \in Jobs, NEW a \in Attempts, analysis'[<<j, a>>] = "completed"
        PROVE  a <= attempt_count'[j]
    <3>1. a <= attempt_count[j]
      <4>1. CASE analysis[<<j, a>>] = "completed"
        BY <4>1 DEF AttemptsAreFresh
      <4>2. CASE analysis[<<j, a>>] # "completed"
        <5>1. PICK i \in Instances : Row(i) = <<j, a>> /\ pc[i] = "complete"
          BY <2>4, <4>2, RowStep
        <5>2. QED
          BY <5>1 DEF AttemptsAreFresh, Row, Processing
      <4>3. QED
        BY <4>1, <4>2
    <3>2. QED
      BY <3>1, CountGrows DEF Attempts
  <2>5. ASSUME NEW i \in Instances, pc'[i] = "create" PROVE analysis'[Row(i)'] # "completed"
    <3>1. CASE Claim(i)
      <4>1. /\ UNCHANGED analysis
            /\ job'[i] \in Jobs /\ attempt'[i] \in Attempts
            /\ attempt'[i] = attempt_count[job'[i]] + 1
        BY <2>5, <3>1, ClaimStep DEF TypeOK, WorkersOK, Processing
      <4>2. analysis[<<job'[i], attempt'[i]>>] # "completed"
        BY <4>1 DEF AttemptsAreFresh, Attempts
      <4>3. QED
        BY <4>1, <4>2 DEF Row
    <3>2. CASE ~Claim(i)
      <4>1. pc[i] = "create" /\ job'[i] = job[i] /\ attempt'[i] = attempt[i]
        BY <2>5, <3>2, PcStep, SameWork DEF Processing
      <4>2. job[i] \in Jobs /\ attempt[i] \in Attempts /\ Row(i)' = Row(i) /\ Row(i) = <<job[i], attempt[i]>>
        BY <4>1, RowType DEF Row, Processing
      <4>3. ~\E k \in Instances : Row(k) = Row(i) /\ pc[k] = "complete"
        BY <4>1 DEF AttemptsAreFresh, Processing
      <4>4. analysis[Row(i)] # "completed"
        BY <4>1 DEF AttemptsAreFresh
      <4>5. QED
        BY <4>2, <4>3, <4>4, RowStep
    <3>3. QED
      BY <3>1, <3>2
  <2>6. QED
    BY <2>1, <2>3, <2>4, <2>5 DEF AttemptsAreFresh
<1>3. QED
  BY <1>1, <1>2, TypeCorrect, Existence, PTL DEF Spec

LEMMA RowFirst == Spec => []RowBeforeJob
<1>1. Init => RowBeforeJob
  BY DEF Init, RowBeforeJob
<1>2. TypeOK /\ TypeOK' /\ AttemptsAreFresh /\ RowBeforeJob /\ [Next]_vars => RowBeforeJob'
  <2> SUFFICES ASSUME TypeOK, TypeOK', AttemptsAreFresh, RowBeforeJob, [Next]_vars,
                      NEW i \in Instances, pc'[i] \in {"check", "commit"}
               PROVE  analysis'[Row(i)'] = "completed"
    BY DEF RowBeforeJob
  <2>1. pc[i] \in Processing /\ job'[i] = job[i] /\ attempt'[i] = attempt[i]
    BY SameWork, ClaimStep DEF Processing
  <2>2. job[i] \in Jobs /\ attempt[i] \in Attempts /\ Row(i)' = Row(i) /\ Row(i) = <<job[i], attempt[i]>>
    BY <2>1, RowType DEF Row
  <2>3. CASE pc[i] \in {"check", "commit"}
    <3>1. analysis[Row(i)] = "completed"
      BY <2>3 DEF RowBeforeJob
    <3>2. QED
      BY <2>2, <3>1, CompletedStays
  <2>4. CASE pc[i] \notin {"check", "commit"}
    BY <2>2, <2>4, PcStep
  <2>5. QED
    BY <2>3, <2>4
<1>3. QED
  BY <1>1, <1>2, TypeCorrect, Freshness, PTL DEF Spec

-----------------------------------------------------------------------------

(* The life cycle *)

(* All that the steps below rely on.                                       *)
Reachable == /\ TypeOK /\ JobsExist /\ AttemptsAreFresh
             /\ HoldsResult /\ ResultRowElects /\ RowBeforeJob

(* Only the completion of a row publishes, and nothing is unpublished.     *)
LEMMA PublishedStep ==
  ASSUME Reachable, [Next]_vars
  PROVE  /\ Published \subseteq Published'
         /\ \A j \in Published' \ Published :
              \E i \in Instances : pc[i] = "complete" /\ job[i] = j
<1>1. Published \subseteq Published'
  BY CompletedStays DEF Published, Reachable
<1>2. ASSUME NEW j \in Published', j \notin Published
      PROVE  \E i \in Instances : pc[i] = "complete" /\ job[i] = j
  <2>1. PICK a \in Attempts : j \in Jobs /\ analysis'[<<j, a>>] = "completed"
    BY <1>2 DEF Published
  <2>2. analysis[<<j, a>>] # "completed"
    BY <1>2, <2>1 DEF Published
  <2>3. PICK i \in Instances : Row(i) = <<j, a>> /\ pc[i] = "complete"
    BY <2>1, <2>2, RowStep DEF Reachable
  <2>4. QED
    BY <2>3 DEF Row
<1>3. QED
  BY <1>1, <1>2

(* A step that leaves the rows alone publishes nothing.                    *)
LEMMA PublishedSame ==
  ASSUME analysis' = analysis
  PROVE  Published' = Published
  BY DEF Published

(* The worker that completes its row publishes the first report of its job.*)
LEMMA CompletionPublishes ==
  ASSUME Reachable, Reachable', NEW i \in Instances, CompleteAnalysisResult(i)
  PROVE  [Lifecycle!Next]_(Lifecycle!vars)
<1>1. /\ job[i] \in Jobs /\ attempt[i] \in Attempts /\ pc[i] = "complete"
      /\ Row(i) = <<job[i], attempt[i]>>
  BY RowType DEF Reachable, CompleteAnalysisResult, Row, Processing
<1>2. UNCHANGED <<status, patched>>
  BY DEF CompleteAnalysisResult
<1>3. CASE UNCHANGED <<analysis, closed>>
  BY <1>2, <1>3, PublishedSame DEF Lifecycle!vars
<1>4. CASE UpdateAnalysisResultStatus(i, "completed")
  <2>1. /\ analysis[Row(i)] = "running"
        /\ analysis' = [analysis EXCEPT ![Row(i)] = "completed"]
    BY <1>4 DEF UpdateAnalysisResultStatus, ValidAnalysisResultTransition
  <2>2. job[i] \notin Published
    <3>1. ASSUME NEW a \in Attempts, analysis[<<job[i], a>>] = "completed" PROVE FALSE
      <4>1. results[job[i]] = a /\ results[job[i]] = attempt[i]
        BY <1>1, <3>1 DEF Reachable, ResultRowElects, HoldsResult
      <4>2. QED
        BY <1>1, <2>1, <3>1, <4>1
    <3>2. QED
      BY <3>1 DEF Published
  <2>3. Published' = Published \cup {job[i]}
    <3>1. \A j \in Jobs, a \in Attempts :
            analysis'[<<j, a>>] = "completed"
              <=> (analysis[<<j, a>>] = "completed" \/ (j = job[i] /\ a = attempt[i]))
      BY <1>1, <2>1 DEF Reachable, TypeOK, ResultsOK
    <3>2. QED
      BY <1>1, <3>1 DEF Published
  <2>4. status[job[i]] # "absent"
    BY <1>1 DEF Reachable, JobsExist, Processing
  <2>5. Lifecycle!Publish(job[i])
    BY <1>2, <2>2, <2>3, <2>4 DEF Lifecycle!Publish
  <2>6. QED
    BY <1>1, <2>5 DEF Lifecycle!Next
<1>5. QED
  BY <1>3, <1>4 DEF CompleteAnalysisResult

(* A worker's change of its job's status is a move of the service.         *)
LEMMA WorkerAdvances ==
  ASSUME NEW j \in Jobs, NEW s \in Statuses, ValidTransition(status[j], s),
         s = "completed" => j \in Published,
         status' = [status EXCEPT ![j] = s], UNCHANGED <<analysis, patched>>
  PROVE  [Lifecycle!Next]_(Lifecycle!vars)
<1>1. Lifecycle!Advance(j, s)
  BY PublishedSame
     DEF Lifecycle!Advance, Lifecycle!Set, Lifecycle!ValidTransition, Lifecycle!Settled, ValidTransition
<1>2. QED
  BY <1>1 DEF Lifecycle!Next, Lifecycle!Statuses, Statuses

(* The recovery of the stale jobs puts them back, or there are none.       *)
LEMMA RecoveryRequeues ==
  ASSUME TypeOK, RecoverStaleJobs \/ UNCHANGED status, UNCHANGED <<analysis, patched>>
  PROVE  [Lifecycle!Next]_(Lifecycle!vars)
<1>1. CASE UNCHANGED status
  BY <1>1, PublishedSame DEF Lifecycle!vars
<1>2. CASE RecoverStaleJobs
  <2>1. stale \subseteq Jobs /\ \A j \in stale : status[j] = "running"
    BY DEF TypeOK, JobsOK
  <2>2. status' = [j \in Jobs |-> IF j \in stale THEN "pending" ELSE status[j]]
    BY <1>2, <2>1 DEF RecoverStaleJobs
  <2>3. CASE stale = {}
    BY <2>2, <2>3, PublishedSame DEF Lifecycle!vars, TypeOK, JobsOK
  <2>4. CASE stale # {}
    <3>1. Lifecycle!Requeue(stale)
      BY <2>1, <2>2, <2>4, PublishedSame DEF Lifecycle!Requeue
    <3>2. QED
      BY <2>1, <3>1 DEF Lifecycle!Next
  <2>5. QED
    BY <2>3, <2>4
<1>3. QED
  BY <1>1, <1>2

(* Every step is a step of the life cycle, or changes nothing it shows.    *)
LEMMA StepRefines ==
  ASSUME Reachable, Reachable', [Next]_vars
  PROVE  [Lifecycle!Next]_(Lifecycle!vars)
<1> TypeOK
  BY DEF Reachable
<1>1. ASSUME UNCHANGED <<status, analysis, patched>> PROVE [Lifecycle!Next]_(Lifecycle!vars)
  BY <1>1, PublishedSame DEF Lifecycle!vars
<1>2. ASSUME NEW j \in Jobs, Submit(j) PROVE [Lifecycle!Next]_(Lifecycle!vars)
  <2>1. Lifecycle!Submit(j)
    BY <1>2, PublishedSame DEF Submit, history, Lifecycle!Submit, Lifecycle!Set
  <2>2. QED
    BY <2>1 DEF Lifecycle!Next
<1>3. ASSUME NEW j \in Jobs, LeaseExpires(j) \/ LeaseLapses(j)
      PROVE  [Lifecycle!Next]_(Lifecycle!vars)
  BY <1>1, <1>3 DEF LeaseExpires, LeaseLapses, history
<1>4. ASSUME NEW i \in Instances, StartWorker(i) \/ RecoverTick(i)
      PROVE  [Lifecycle!Next]_(Lifecycle!vars)
  BY <1>4, RecoveryRequeues DEF StartWorker, RecoverTick, history
<1>5. ASSUME NEW i \in Instances, Claim(i) PROVE [Lifecycle!Next]_(Lifecycle!vars)
  <2>1. PICK j \in Jobs : status[j] = "pending" /\ status' = [status EXCEPT ![j] = "running"]
    BY <1>5 DEF Claim
  <2>2. QED
    BY <1>5, <2>1, WorkerAdvances DEF Claim, ValidTransition, Statuses
<1>6. ASSUME NEW i \in Instances, CompleteJob(i) PROVE [Lifecycle!Next]_(Lifecycle!vars)
  <2>1. /\ pc[i] = "commit" /\ UNCHANGED <<analysis, patched>>
        /\ \/ UNCHANGED status
           \/ status[job[i]] = "running" /\ status' = [status EXCEPT ![job[i]] = "completed"]
    BY <1>6 DEF CompleteJob
  <2>2. job[i] \in Jobs /\ job[i] \in Published
    BY <2>1, RowType DEF Reachable, RowBeforeJob, Row, Published, Processing
  <2>3. QED
    BY <1>1, <2>1, <2>2, WorkerAdvances DEF ValidTransition, Statuses
<1>7. ASSUME NEW i \in Instances, FailRunningJob(i) PROVE [Lifecycle!Next]_(Lifecycle!vars)
  <2>1. /\ pc[i] = "fail" /\ UNCHANGED <<analysis, patched>>
        /\ \/ UNCHANGED status
           \/ status' = [status EXCEPT ![job[i]] = IF @ = "running" THEN "failed" ELSE @]
    BY <1>7 DEF FailRunningJob
  <2>2. job[i] \in Jobs
    BY <2>1, RowType DEF Processing
  <2>3. UNCHANGED status \/ (status[job[i]] = "running" /\ status' = [status EXCEPT ![job[i]] = "failed"])
    BY <2>1, <2>2 DEF TypeOK, JobsOK
  <2>4. QED
    BY <1>1, <2>1, <2>2, <2>3, WorkerAdvances DEF ValidTransition, Statuses
<1>8. ASSUME NEW i \in Instances,
             \/ CheckStatus(i) \/ Heartbeat(i) \/ Crash(i) \/ RunAnalysis(i)
             \/ SaveAnalysisResultData(i) \/ CreateResult(i)
      PROVE  [Lifecycle!Next]_(Lifecycle!vars)
  BY <1>1, <1>8 DEF CheckStatus, Heartbeat, Crash, RunAnalysis, SaveAnalysisResultData,
                    CreateResult, db, history
<1>9. ASSUME NEW i \in Instances,
             CreateAnalysisResult(i) \/ StartAnalysisResult(i) \/ AbortAnalysisResult(i)
      PROVE  [Lifecycle!Next]_(Lifecycle!vars)
  <2>1. UNCHANGED <<status, patched>>
    BY <1>9 DEF CreateAnalysisResult, StartAnalysisResult, AbortAnalysisResult
  <2>2. \A r \in Jobs \X Attempts : analysis'[r] = "completed" <=> analysis[r] = "completed"
    <3>1. PICK s \in {"pending", "running", "failed"} :
            \/ UNCHANGED analysis
            \/ analysis[Row(i)] # "completed" /\ analysis' = [analysis EXCEPT ![Row(i)] = s]
      BY <1>9 DEF CreateAnalysisResult, StartAnalysisResult, AbortAnalysisResult, AttemptsAreFresh,
                  Reachable, UpdateAnalysisResultStatus, ValidAnalysisResultTransition
    <3>2. QED
      BY <3>1 DEF TypeOK, ResultsOK
  <2>3. Published' = Published
    BY <2>2 DEF Published
  <2>4. QED
    BY <2>1, <2>3 DEF Lifecycle!vars
<1>10. ASSUME NEW c \in Clients, PatchWrite(c) PROVE [Lifecycle!Next]_(Lifecycle!vars)
  <2> DEFINE j == patch[c].job
             s == patch[c].to
  <2>1. UNCHANGED analysis /\ j \in Jobs /\ s \in Statuses /\ ValidTransition(patch[c].seen, s)
    BY <1>10 DEF PatchWrite, Reachable, JobsExist, TypeOK, ClientsOK, Patches
  <2>2. CASE UNCHANGED <<status, patched>>
    BY <1>1, <2>1, <2>2
  <2>3. CASE /\ status[j] = patch[c].seen
             /\ status' = [status EXCEPT ![j] = s] /\ patched' = patched \cup {j}
    <3>1. Lifecycle!Override(j, s)
      BY <2>1, <2>3, PublishedSame
         DEF Lifecycle!Override, Lifecycle!Set, Lifecycle!ValidTransition, Lifecycle!Settled, ValidTransition
    <3>2. QED
      BY <2>1, <3>1 DEF Lifecycle!Next, Lifecycle!Statuses, Statuses
  <2>4. QED
    BY <1>10, <2>2, <2>3 DEF PatchWrite, StillAsRead
<1>11. ASSUME NEW c \in Clients, \E m \in Jobs, to \in Statuses : PatchRead(c, m, to)
       PROVE  [Lifecycle!Next]_(Lifecycle!vars)
  BY <1>1, <1>11 DEF PatchRead, db, history
<1>12. CASE UNCHANGED vars
  BY <1>1, <1>12 DEF vars, db, history
<1>13. QED
  BY <1>2, <1>3, <1>4, <1>5, <1>6, <1>7, <1>8, <1>9, <1>10, <1>11, <1>12, CompletionPublishes
     DEF Next, Process

(* The tables implement the life cycle.                                    *)
THEOREM Implements == Spec => LifecycleSpec
<1>1. Init => Lifecycle!Init
  BY DEF Init, Lifecycle!Init, Published
<1>2. Reachable /\ Reachable' /\ [Next]_vars => [Lifecycle!Next]_(Lifecycle!vars)
  BY StepRefines
<1>3. TypeOK /\ JobsExist /\ AttemptsAreFresh /\ (HoldsResult /\ ResultRowElects) /\ RowBeforeJob
      => Reachable
  BY DEF Reachable
<1>4. QED
  BY <1>1, <1>2, <1>3, TypeCorrect, Existence, Freshness, Holding, RowFirst, PTL
     DEF Spec, Lifecycle!Spec, LifecycleSpec

(* A job is created pending, and moves as JobStatus says. *)
MovesArePromised ==
  \A j \in Jobs :
     \/ status'[j] = status[j]
     \/ status[j] = "absent" /\ status'[j] = "pending"
     \/ Lifecycle!ValidTransition(status[j], status'[j])

(* Every step of the life cycle makes such moves. *)
LEMMA LifecycleMoves ==
  ASSUME status \in [Jobs -> Statuses], Lifecycle!Next
  PROVE  MovesArePromised
<1> USE DEF Lifecycle!Set, MovesArePromised
<1>1. ASSUME NEW m \in Jobs, Lifecycle!Submit(m) \/ Lifecycle!Publish(m)
      PROVE  MovesArePromised
  BY <1>1 DEF Lifecycle!Submit, Lifecycle!Publish
<1>2. ASSUME NEW m \in Jobs, NEW s, Lifecycle!Advance(m, s) \/ Lifecycle!Override(m, s)
      PROVE  MovesArePromised
  BY <1>2 DEF Lifecycle!Advance, Lifecycle!Override
<1>3. ASSUME NEW S \in SUBSET Jobs, Lifecycle!Requeue(S)
      PROVE  MovesArePromised
  BY <1>3 DEF Lifecycle!Requeue, Lifecycle!ValidTransition, Lifecycle!Settled
<1>4. QED
  BY <1>1, <1>2, <1>3 DEF Lifecycle!Next

(* What the models of the browser assume of the service: no claim, lease,   *)
(* retry or PATCH makes a move that they do not allow for.                   *)
THEOREM ClientsSeeValidMoves == Spec => [][MovesArePromised]_status
<1>1. TypeOK /\ [Lifecycle!Next]_(Lifecycle!vars) => [MovesArePromised]_status
  BY LifecycleMoves DEF TypeOK, JobsOK, Lifecycle!vars
<1>2. QED
  BY <1>1, Implements, TypeCorrect, PTL DEF LifecycleSpec, Lifecycle!Spec

-----------------------------------------------------------------------------
(* Open rows and reports *)

(* One instance moves in a step.                                           *)
LEMMA OneMoves ==
  ASSUME TypeOK, [Next]_vars, NEW i \in Instances, NEW k \in Instances,
         pc'[i] # pc[i], pc'[k] # pc[k]
  PROVE  i = k
<1>1. ASSUME NEW o \in Instances, NEW l, pc' = [pc EXCEPT ![o] = l] PROVE i = o /\ k = o
  BY <1>1 DEF TypeOK, WorkersOK
<1>2. \/ UNCHANGED pc
      \/ \E o \in Instances : \E l \in Locations : pc' = [pc EXCEPT ![o] = l]
  <2> USE DEF Proceed, Err, Locations, Processing
  <2>1. ASSUME NEW j \in Jobs, Submit(j) \/ LeaseExpires(j) \/ LeaseLapses(j) PROVE UNCHANGED pc
    BY <2>1 DEF Submit, LeaseExpires, LeaseLapses, worker
  <2>2. ASSUME NEW c \in Clients, PatchWrite(c) \/ \E m \in Jobs, to \in Statuses : PatchRead(c, m, to)
        PROVE  UNCHANGED pc
    BY <2>2 DEF PatchRead, PatchWrite, worker
  <2>3. ASSUME NEW o \in Instances, RecoverTick(o) \/ Heartbeat(o) PROVE UNCHANGED pc
    BY <2>3 DEF RecoverTick, Heartbeat, worker
  <2>4. ASSUME NEW o \in Instances,
               \/ StartWorker(o) \/ Claim(o) \/ Crash(o)
               \/ CheckStatus(o) \/ CompleteJob(o) \/ FailRunningJob(o)
        PROVE  \E l \in Locations : pc' = [pc EXCEPT ![o] = l]
    BY <2>4 DEF StartWorker, Claim, Crash, CheckStatus, CompleteJob, FailRunningJob
  <2>5. ASSUME NEW o \in Instances, Inside(o)
        PROVE  \E l \in Locations : pc' = [pc EXCEPT ![o] = l]
    BY <2>5, InsideStep
  <2>6. UNCHANGED vars => UNCHANGED pc
    BY DEF vars, worker
  <2>7. QED
    BY <2>1, <2>2, <2>3, <2>4, <2>5, <2>6, NextSplit
<1>3. QED
  BY <1>1, <1>2

(* What has happened, has.                                                 *)
LEMMA HistoryGrows ==
  ASSUME TypeOK, [Next]_vars
  PROVE  /\ faults' \in {faults, faults + 1}
         /\ lapsed \subseteq lapsed' /\ patched \subseteq patched'
<1> USE DEF Proceed, Err, Fault
<1>1. ASSUME NEW j \in Jobs, Submit(j) \/ LeaseExpires(j) \/ LeaseLapses(j)
      PROVE  /\ faults' \in {faults, faults + 1}
             /\ lapsed \subseteq lapsed' /\ patched \subseteq patched'
  BY <1>1 DEF Submit, LeaseExpires, LeaseLapses, history
<1>2. ASSUME NEW i \in Instances,
             \/ StartWorker(i) \/ RecoverTick(i) \/ Claim(i) \/ Heartbeat(i) \/ Crash(i)
             \/ CheckStatus(i) \/ CompleteJob(i) \/ FailRunningJob(i) \/ Inside(i)
      PROVE  faults' \in {faults, faults + 1} /\ UNCHANGED <<lapsed, patched>>
  BY <1>2, InsideStep DEF StartWorker, RecoverTick, Claim, Heartbeat, Crash,
                          CheckStatus, CompleteJob, FailRunningJob, history
<1>3. ASSUME NEW c \in Clients, PatchWrite(c) \/ \E m \in Jobs, to \in Statuses : PatchRead(c, m, to)
      PROVE  UNCHANGED <<faults, lapsed>> /\ patched \subseteq patched'
  BY <1>3 DEF PatchRead, PatchWrite, history
<1>4. QED
  BY <1>1, <1>2, <1>3, NextSplit DEF vars, history
-----------------------------------------------------------------------------
(* A worker that turns from its row for good has closed it, or paid.       *)
LEMMA LeavingCosts ==
  ASSUME TypeOK, RowBeforeJob, [Next]_vars, NEW i \in Instances,
         pc[i] \in Processing \ {"fail"}, pc'[i] # pc[i],
         pc'[i] \notin Processing \ {"fail"}
  PROVE  faults' = faults + 1 \/ analysis'[Row(i)] \notin {"pending", "running"}
<1> USE DEF Processing
<1>1. ASSUME UNCHANGED pc PROVE FALSE
  BY <1>1
<1>2. ASSUME NEW k \in Instances, NEW l, Proceed(k, l) \/ Err(k, l)
      PROVE  k = i /\ pc'[i] = l /\ (pc' = [pc EXCEPT ![i] = l])
  BY <1>2 DEF TypeOK, WorkersOK, Proceed, Err
<1>3. Row(i) \in Jobs \X Attempts
  BY RowType
<1>4. ASSUME NEW k \in Instances, Crash(k) PROVE faults' = faults + 1
  BY <1>4 DEF Crash, Err, Fault
<1>5. ASSUME NEW k \in Instances, Inside(k)
      PROVE  faults' = faults + 1 \/ analysis'[Row(i)] \notin {"pending", "running"}
  <2>1. k = i /\ pc'[i] = "fail" /\ UNCHANGED <<job, attempt>>
    BY <1>2, <1>5, InsideStep DEF TypeOK, WorkersOK
  <2>2. CASE AbortAnalysisResult(i)
    <3>1. CASE UpdateAnalysisResultStatus(i, "failed")
      BY <1>3, <2>1, <3>1 DEF UpdateAnalysisResultStatus, TypeOK, ResultsOK
    <3>2. CASE Err(i, "fail")
      BY <3>2 DEF Err, Fault
    <3>3. QED
      BY <2>2, <3>1, <3>2 DEF AbortAnalysisResult
  <2>3. CASE CreateAnalysisResult(i) \/ StartAnalysisResult(i) \/ CompleteAnalysisResult(i)
    BY <1>2, <2>1, <2>3 DEF CreateAnalysisResult, StartAnalysisResult, CompleteAnalysisResult,
                            Err, Fault
  <2>4. CASE RunAnalysis(i) \/ SaveAnalysisResultData(i) \/ CreateResult(i)
    BY <1>2, <2>1, <2>4 DEF RunAnalysis, AnalysisFails, SaveAnalysisResultData, CreateResult
  <2>5. QED
    BY <1>5, <2>1, <2>2, <2>3, <2>4 DEF Inside
<1>6. ASSUME NEW k \in Instances, CheckStatus(k) \/ CompleteJob(k) PROVE analysis'[Row(i)] = "completed"
  <2>1. k = i /\ pc[i] \in {"check", "commit"} /\ UNCHANGED analysis
    BY <1>2, <1>6 DEF CheckStatus, CompleteJob, db
  <2>2. QED
    BY <2>1 DEF RowBeforeJob
<1>7. ASSUME NEW k \in Instances, StartWorker(k) \/ Claim(k) \/ FailRunningJob(k) PROVE FALSE
  BY <1>2, <1>7 DEF StartWorker, Claim, FailRunningJob
<1>8. ASSUME NEW j \in Jobs, Submit(j) \/ LeaseExpires(j) \/ LeaseLapses(j) PROVE FALSE
  BY <1>1, <1>8 DEF Submit, LeaseExpires, LeaseLapses, worker
<1>9. ASSUME NEW k \in Instances, RecoverTick(k) \/ Heartbeat(k) PROVE FALSE
  BY <1>1, <1>9 DEF RecoverTick, Heartbeat, worker
<1>10. ASSUME NEW c \in Clients, PatchWrite(c) \/ \E m \in Jobs, to \in Statuses : PatchRead(c, m, to)
       PROVE  FALSE
  BY <1>1, <1>10 DEF PatchRead, PatchWrite, worker
<1>11. ~UNCHANGED vars
  BY <1>1 DEF vars, worker
<1>12. QED
  BY <1>4, <1>5, <1>6, <1>7, <1>8, <1>9, <1>10, <1>11, NextSplit

(* A row is orphaned by the one worker that leaves it open, at a price.    *)
LEMMA OrphanedBy ==
  ASSUME TypeOK, TypeOK', RowBeforeJob, [Next]_vars,
         NEW j \in Jobs, NEW a \in Attempts, Orphan(j, a)', ~Orphan(j, a)
  PROVE  /\ \E i \in Instances : Row(i) = <<j, a>> /\ pc'[i] # pc[i]
         /\ faults' = faults + 1
<1>1. PICK i \in Instances :
        pc[i] \in Processing \ {"fail"} /\ job[i] = j /\ attempt[i] = a
  <2>1. CASE analysis[<<j, a>>] \in {"pending", "running"}
    BY <2>1 DEF Orphan, Working
  <2>2. CASE analysis[<<j, a>>] \notin {"pending", "running"}
    <3>1. analysis'[<<j, a>>] \in {"pending", "running"}
      BY DEF Orphan
    <3>2. PICK i \in Instances : Row(i) = <<j, a>> /\ pc[i] \in {"create", "start", "complete", "abort"}
      BY <2>2, <3>1, RowStep
    <3>3. QED
      BY <3>2 DEF Row, Processing
  <2>3. QED
    BY <2>1, <2>2
<1>2. Row(i) = <<j, a>>
  BY <1>1 DEF Row
<1>3. ASSUME pc'[i] \in Processing \ {"fail"} PROVE FALSE
  <2>1. ~Claim(i)
    BY <1>1 DEF Claim, Processing
  <2>2. job'[i] = j /\ attempt'[i] = a
    BY <1>1, <1>3, <2>1, SameWork
  <2>3. QED
    BY <1>3, <2>2 DEF Orphan, Working
<1>4. pc'[i] # pc[i]
  BY <1>1, <1>3
<1>5. analysis'[Row(i)] \in {"pending", "running"}
  BY <1>2 DEF Orphan
<1>6. QED
  BY <1>1, <1>2, <1>3, <1>4, <1>5, LeavingCosts

(* What is left open is left open by a fault.                              *)
THEOREM OrphansHaveACause == Spec => []OrphansArePaidFor
<1>1. Init => OrphansArePaidFor
  <2> SUFFICES ASSUME Init PROVE OrphansArePaidFor
    OBVIOUS
  <2>1. Orphans = {}
    BY DEF Init, Orphans, Orphan
  <2>2. QED
    BY <2>1, FS_EmptySet DEF Init, OrphansArePaidFor
<1>2. TypeOK /\ TypeOK' /\ RowBeforeJob /\ OrphansArePaidFor /\ [Next]_vars => OrphansArePaidFor'
  <2> SUFFICES ASSUME TypeOK, TypeOK', RowBeforeJob, OrphansArePaidFor, [Next]_vars
               PROVE  Cardinality(Orphans') <= faults'
    BY DEF OrphansArePaidFor
  <2>1. IsFiniteSet(Jobs \X Attempts)
    <3>1. IsFiniteSet(Jobs) /\ IsFiniteSet(Attempts)
      BY BoundsAssumption, FS_Interval DEF Jobs, Attempts
    <3>2. QED
      BY <3>1, FS_Product
  <2>2. /\ Orphans \in SUBSET (Jobs \X Attempts) /\ Orphans' \in SUBSET (Jobs \X Attempts)
    BY DEF Orphans
  <2>3. IsFiniteSet(Orphans) /\ Cardinality(Orphans) \in Nat /\ Cardinality(Orphans) <= faults
    BY <2>1, <2>2, FS_Subset, FS_CardinalityType DEF OrphansArePaidFor
  <2>4. faults \in Nat /\ faults' \in {faults, faults + 1}
    BY BoundsAssumption, HistoryGrows DEF TypeOK, HistoryOK
  <2>5. CASE Orphans' \subseteq Orphans
    <3>1. Cardinality(Orphans') <= Cardinality(Orphans) /\ Cardinality(Orphans') \in Nat
      BY <2>3, <2>5, FS_Subset, FS_CardinalityType
    <3>2. QED
      BY <2>3, <2>4, <3>1
  <2>6. ASSUME NEW r \in Orphans', r \notin Orphans PROVE Cardinality(Orphans') <= faults'
    <3>1. ASSUME NEW s \in Orphans', s \notin Orphans
          PROVE  /\ \E i \in Instances : Row(i) = s /\ pc'[i] # pc[i]
                 /\ faults' = faults + 1
      <4>1. PICK j \in Jobs, a \in Attempts : s = <<j, a>>
        BY <2>2, <3>1
      <4>2. Orphan(j, a)' /\ ~Orphan(j, a)
        BY <3>1, <4>1 DEF Orphans
      <4>3. QED
        BY <4>1, <4>2, OrphanedBy
    <3>2. ASSUME NEW s \in Orphans', s \notin Orphans PROVE s = r
      BY <2>6, <3>1, <3>2, OneMoves
    <3>3. Orphans' \subseteq Orphans \cup {r}
      BY <3>2
    <3>4. /\ IsFiniteSet(Orphans \cup {r})
          /\ Cardinality(Orphans \cup {r}) = Cardinality(Orphans) + 1
      BY <2>3, <2>6, FS_AddElement
    <3>5. Cardinality(Orphans') <= Cardinality(Orphans) + 1 /\ Cardinality(Orphans') \in Nat
      BY <3>3, <3>4, FS_Subset, FS_CardinalityType
    <3>6. faults' = faults + 1
      BY <2>6, <3>1
    <3>7. QED
      BY <2>3, <2>4, <3>5, <3>6
  <2>7. QED
    BY <2>5, <2>6
<1>3. QED
  BY <1>1, <1>2, TypeCorrect, RowFirst, PTL DEF Spec
-----------------------------------------------------------------------------
(* A row is closed by its worker, which goes on to another statement; the  *)
(* jobs table is not touched.                                              *)
LEMMA ClosedStep ==
  ASSUME TypeOK, [Next]_vars, NEW j \in Jobs
  PROVE  \/ closed'[j] = closed[j]
         \/ \E i \in Instances :
              /\ Working(i, j) /\ pc[i] \in {"complete", "abort"}
              /\ pc'[i] \in {"check", "fail"} /\ status' = status
<1>1. ASSUME NEW i \in Instances, CompleteAnalysisResult(i) \/ AbortAnalysisResult(i),
             closed'[j] # closed[j]
      PROVE  /\ Working(i, j) /\ pc[i] \in {"complete", "abort"}
             /\ pc'[i] \in {"check", "fail"} /\ status' = status
  <2>1. pc[i] \in {"complete", "abort"} /\ pc'[i] \in {"check", "fail"} /\ status' = status
    BY <1>1 DEF CompleteAnalysisResult, AbortAnalysisResult, Proceed, Err, TypeOK, WorkersOK
  <2>2. job[i] = j
    BY <1>1, RowType DEF CompleteAnalysisResult, AbortAnalysisResult, UpdateAnalysisResultStatus,
                         Processing, TypeOK, ResultsOK
  <2>3. QED
    BY <2>1, <2>2 DEF Working, Processing
<1>2. ASSUME NEW i \in Instances, CreateAnalysisResult(i) \/ StartAnalysisResult(i) PROVE UNCHANGED closed
  BY <1>2 DEF CreateAnalysisResult, StartAnalysisResult, UpdateAnalysisResultStatus, Settled
<1>3. ASSUME NEW i \in Instances,
             \/ StartWorker(i) \/ RecoverTick(i) \/ Claim(i) \/ Heartbeat(i) \/ Crash(i)
             \/ RunAnalysis(i) \/ CheckStatus(i) \/ CompleteJob(i) \/ FailRunningJob(i)
             \/ SaveAnalysisResultData(i) \/ CreateResult(i)
      PROVE  UNCHANGED closed
  BY <1>3 DEF StartWorker, RecoverTick, Claim, Heartbeat, Crash, RunAnalysis, CheckStatus,
              CompleteJob, FailRunningJob, SaveAnalysisResultData, CreateResult, db
<1>4. ASSUME NEW m \in Jobs, Submit(m) \/ LeaseExpires(m) \/ LeaseLapses(m) PROVE UNCHANGED closed
  BY <1>4 DEF Submit, LeaseExpires, LeaseLapses
<1>5. ASSUME NEW c \in Clients, PatchWrite(c) \/ \E m \in Jobs, to \in Statuses : PatchRead(c, m, to)
      PROVE  UNCHANGED closed
  BY <1>5 DEF PatchRead, PatchWrite, db
<1>6. QED
  BY <1>1, <1>2, <1>3, <1>4, <1>5, NextSplit DEF Inside, vars, db

(* Without a client, only a worker about to commit completes a job.        *)
LEMMA StatusStep ==
  ASSUME TypeOK, [Next]_vars, NEW j \in Jobs, j \notin patched',
         status'[j] = "completed", status[j] # "completed"
  PROVE  \E i \in Instances : Working(i, j) /\ pc[i] = "commit" /\ pc'[i] \in {"poll", "fail"}
<1>1. ASSUME NEW i \in Instances, CompleteJob(i)
      PROVE  Working(i, j) /\ pc[i] = "commit" /\ pc'[i] \in {"poll", "fail"}
  <2>1. pc[i] = "commit" /\ pc'[i] \in {"poll", "fail"}
    BY <1>1 DEF CompleteJob, Proceed, Err, TypeOK, WorkersOK
  <2>2. status' = status \/ status' = [status EXCEPT ![job[i]] = "completed"]
    BY <1>1 DEF CompleteJob
  <2>3. QED
    BY <2>1, <2>2 DEF Working, Processing, TypeOK, JobsOK
<1>2. ASSUME NEW i \in Instances,
             \/ StartWorker(i) \/ RecoverTick(i) \/ Claim(i) \/ Inside(i) \/ CheckStatus(i)
             \/ FailRunningJob(i) \/ Heartbeat(i) \/ Crash(i)
      PROVE  status'[j] # "completed" \/ status'[j] = status[j]
  BY <1>2, InsideStep
     DEF StartWorker, RecoverTick, RecoverStaleJobs, Claim, CheckStatus, FailRunningJob, Heartbeat,
         Crash, db, TypeOK, JobsOK
<1>3. ASSUME NEW m \in Jobs, Submit(m) \/ LeaseExpires(m) \/ LeaseLapses(m)
      PROVE  status'[j] # "completed" \/ status'[j] = status[j]
  BY <1>3 DEF Submit, LeaseExpires, LeaseLapses, TypeOK, JobsOK
<1>4. ASSUME NEW c \in Clients, PatchWrite(c) \/ \E m \in Jobs, to \in Statuses : PatchRead(c, m, to)
      PROVE  status'[j] = status[j]
  BY <1>4 DEF PatchRead, PatchWrite, db, TypeOK, JobsOK
<1>5. QED
  BY <1>1, <1>2, <1>3, <1>4, NextSplit DEF vars, db

(* A worker arrives at its job's completion by closing its row, and from   *)
(* FailRunningJob it leaves ProcessNextJob.                                *)
LEMMA Departure ==
  ASSUME TypeOK, [Next]_vars, NEW i \in Instances, pc'[i] # pc[i]
  PROVE  /\ pc[i] = "fail" => pc'[i] \notin Processing
         /\ pc'[i] = "check" => /\ pc[i] = "complete"
                                /\ closed' = [closed EXCEPT ![job[i]] = Append(@, attempt[i])]
<1>1. ASSUME UNCHANGED pc PROVE FALSE
  BY <1>1
<1>2. ASSUME NEW k \in Instances, NEW l, Proceed(k, l) \/ Err(k, l) PROVE k = i /\ pc'[i] = l
  BY <1>2 DEF TypeOK, WorkersOK, Proceed, Err
<1>3. ASSUME NEW k \in Instances, Inside(k)
      PROVE  /\ pc[i] # "fail"
             /\ pc'[i] = "check" => /\ pc[i] = "complete"
                                    /\ closed' = [closed EXCEPT ![job[i]] = Append(@, attempt[i])]
  <2>1. k = i /\ pc[i] # "fail"
    BY <1>3, InsideStep DEF TypeOK, WorkersOK
  <2>2. CASE CompleteAnalysisResult(i)
    BY <1>2, <2>2 DEF CompleteAnalysisResult, UpdateAnalysisResultStatus, Settled
  <2>3. CASE \/ CreateAnalysisResult(i) \/ StartAnalysisResult(i) \/ RunAnalysis(i)
             \/ SaveAnalysisResultData(i) \/ CreateResult(i) \/ AbortAnalysisResult(i)
    BY <1>2, <2>1, <2>3 DEF CreateAnalysisResult, StartAnalysisResult, RunAnalysis, AnalysisFails,
                            SaveAnalysisResultData, CreateResult, AbortAnalysisResult
  <2>4. QED
    BY <1>3, <2>1, <2>2, <2>3 DEF Inside
<1>4. ASSUME NEW k \in Instances, StartWorker(k) \/ Claim(k) \/ CheckStatus(k) \/ CompleteJob(k)
      PROVE  pc[i] # "fail" /\ pc'[i] # "check"
  BY <1>2, <1>4 DEF StartWorker, Claim, CheckStatus, CompleteJob
<1>5. ASSUME NEW k \in Instances, FailRunningJob(k) \/ Crash(k)
      PROVE  pc'[i] \notin Processing
  BY <1>2, <1>5 DEF FailRunningJob, Crash, Processing
<1>6. ASSUME NEW j \in Jobs, Submit(j) \/ LeaseExpires(j) \/ LeaseLapses(j) PROVE FALSE
  BY <1>1, <1>6 DEF Submit, LeaseExpires, LeaseLapses, worker
<1>7. ASSUME NEW k \in Instances, RecoverTick(k) \/ Heartbeat(k) PROVE FALSE
  BY <1>1, <1>7 DEF RecoverTick, Heartbeat, worker
<1>8. ASSUME NEW c \in Clients, PatchWrite(c) \/ \E m \in Jobs, to \in Statuses : PatchRead(c, m, to)
      PROVE  FALSE
  BY <1>1, <1>8 DEF PatchRead, PatchWrite, worker
<1>9. ~UNCHANGED vars
  BY <1>1 DEF vars, worker
<1>10. QED
  BY <1>3, <1>4, <1>5, <1>6, <1>7, <1>8, <1>9, NextSplit DEF Processing
-----------------------------------------------------------------------------
(* The jobs CompletedJobShowsItsReport speaks of.                          *)
Quiet(j) == j \notin patched /\ (Cardinality(Instances) = 1 \/ j \notin lapsed)

LastClosed(j, a) == closed[j] # <<>> /\ closed[j][Len(closed[j])] = a

(* From the completion of its row to the one of its job, a worker's row is *)
(* the last one closed; then nobody is left who would close another.       *)
ReportIsLast ==
  \A j \in Jobs : Quiet(j) =>
    /\ \A i \in Instances :
         Working(i, j) /\ pc[i] \in {"check", "commit"} => LastClosed(j, attempt[i])
    /\ status[j] = "completed" =>
         /\ \E a \in Attempts : LastClosed(j, a) /\ analysis[<<j, a>>] = "completed"
         /\ \A i \in Instances : Working(i, j) => pc[i] = "fail"

LEMMA Alone ==
  ASSUME LeaseIsExclusive, NEW j \in Jobs, Quiet(j),
         NEW i \in Instances, NEW k \in Instances, Working(i, j), Working(k, j)
  PROVE  i = k
<1>1. CASE Cardinality(Instances) = 1
  BY <1>1, BoundsAssumption, FS_Singleton
<1>2. CASE j \notin lapsed
  BY <1>2 DEF LeaseIsExclusive, Undisturbed, Quiet
<1>3. QED
  BY <1>1, <1>2 DEF Quiet

LEMMA ReportStaysLast == Spec => []ReportIsLast
<1>1. Init => ReportIsLast
  BY DEF Init, ReportIsLast, Working, Processing
<1>2. TypeOK /\ TypeOK' /\ LeaseIsExclusive /\ AttemptsAreFresh /\ RowBeforeJob /\ ReportIsLast
      /\ [Next]_vars => ReportIsLast'
  <2> SUFFICES ASSUME TypeOK, TypeOK', LeaseIsExclusive, AttemptsAreFresh, RowBeforeJob, ReportIsLast,
                      [Next]_vars, NEW j \in Jobs, Quiet(j)'
               PROVE  /\ \A i \in Instances :
                           Working(i, j)' /\ pc'[i] \in {"check", "commit"} => LastClosed(j, attempt[i])'
                      /\ status'[j] = "completed" =>
                           /\ \E a \in Attempts : LastClosed(j, a)' /\ analysis'[<<j, a>>] = "completed"
                           /\ \A i \in Instances : Working(i, j)' => pc'[i] = "fail"
    BY DEF ReportIsLast
  <2>1. Quiet(j) /\ j \notin patched'
    BY HistoryGrows DEF Quiet
  <2>2. ASSUME NEW i \in Instances, Working(i, j)', ~Claim(i)
        PROVE  Working(i, j) /\ attempt'[i] = attempt[i]
    BY <2>2, SameWork DEF Working
  <2>3. ASSUME NEW i \in Instances, Working(i, j)', Claim(i)
        PROVE  pc'[i] = "create" /\ status'[j] # "completed"
    <3>1. pc'[i] = "create"
      BY <2>3, ClaimStep DEF Working, Processing
    <3>2. PICK m \in Jobs : status' = [status EXCEPT ![m] = "running"] /\ job' = [job EXCEPT ![i] = m]
      BY <2>3, <3>1 DEF Claim, Err, TypeOK, WorkersOK
    <3>3. QED
      BY <2>3, <3>1, <3>2 DEF Working, TypeOK, JobsOK, WorkersOK
  <2>4. ASSUME NEW i \in Instances, Working(i, j)', pc'[i] \in {"check", "commit"}
        PROVE  LastClosed(j, attempt[i])'
    <3>1. Working(i, j) /\ attempt'[i] = attempt[i]
      BY <2>2, <2>3, <2>4
    <3>2. CASE pc[i] \in {"check", "commit"}
      <4>1. LastClosed(j, attempt[i])
        BY <2>1, <3>1, <3>2 DEF ReportIsLast
      <4>2. closed'[j] = closed[j]
        BY <2>1, <3>1, <3>2, ClosedStep, Alone
      <4>3. QED
        BY <3>1, <4>1, <4>2 DEF LastClosed
    <3>3. CASE pc[i] \notin {"check", "commit"}
      <4>1. pc'[i] = "check"
        BY <2>4, <3>3, PcStep
      <4>2. closed' = [closed EXCEPT ![job[i]] = Append(@, attempt[i])]
        BY <3>3, <4>1, Departure
      <4>3. job[i] = j /\ attempt[i] \in Attempts /\ closed[j] \in Seq(Attempts) /\ closed \in [Jobs -> Seq(Attempts)]
        BY <3>1, RowType DEF Working, TypeOK, ResultsOK
      <4>4. closed'[j] = Append(closed[j], attempt[i])
        BY <4>2, <4>3
      <4>5. /\ Append(closed[j], attempt[i]) # <<>>
            /\ Append(closed[j], attempt[i])[Len(Append(closed[j], attempt[i]))] = attempt[i]
        BY <4>3
      <4>6. QED
        BY <3>1, <4>4, <4>5 DEF LastClosed
    <3>4. QED
      BY <3>2, <3>3
  <2>5. ASSUME status'[j] = "completed", status[j] = "completed"
        PROVE  /\ \E a \in Attempts : LastClosed(j, a)' /\ analysis'[<<j, a>>] = "completed"
               /\ \A i \in Instances : Working(i, j)' => pc'[i] = "fail"
    <3>1. PICK a \in Attempts : LastClosed(j, a) /\ analysis[<<j, a>>] = "completed"
      BY <2>1, <2>5 DEF ReportIsLast
    <3>2. \A i \in Instances : Working(i, j) => pc[i] = "fail"
      BY <2>1, <2>5 DEF ReportIsLast
    <3>3. closed'[j] = closed[j]
      BY <3>2, ClosedStep
    <3>4. LastClosed(j, a)' /\ analysis'[<<j, a>>] = "completed"
      BY <3>1, <3>3, CompletedStays DEF LastClosed
    <3>5. ASSUME NEW i \in Instances, Working(i, j)' PROVE pc'[i] = "fail"
      <4>1. Working(i, j)
        BY <2>2, <2>3, <2>5, <3>5
      <4>2. QED
        BY <3>2, <3>5, <4>1, Departure DEF Working
    <3>6. QED
      BY <3>4, <3>5
  <2>6. ASSUME status'[j] = "completed", status[j] # "completed"
        PROVE  /\ \E a \in Attempts : LastClosed(j, a)' /\ analysis'[<<j, a>>] = "completed"
               /\ \A i \in Instances : Working(i, j)' => pc'[i] = "fail"
    <3>1. PICK i \in Instances : Working(i, j) /\ pc[i] = "commit" /\ pc'[i] \in {"poll", "fail"}
      BY <2>1, <2>6, StatusStep
    <3>2. job[i] = j /\ attempt[i] \in Attempts /\ Row(i) = <<j, attempt[i]>>
      BY <3>1, RowType DEF Working, Row
    <3>3. LastClosed(j, attempt[i]) /\ analysis[<<j, attempt[i]>>] = "completed"
      BY <2>1, <3>1, <3>2 DEF ReportIsLast, RowBeforeJob
    <3>4. closed'[j] = closed[j]
      BY <2>1, <3>1, ClosedStep, Alone
    <3>5. \E a \in Attempts : LastClosed(j, a)' /\ analysis'[<<j, a>>] = "completed"
      <4>1. PICK a \in Attempts : a = attempt[i]
        BY <3>2
      <4>2. LastClosed(j, a)
        BY <3>3, <4>1
      <4>3. LastClosed(j, a)'
        BY <3>4, <4>2 DEF LastClosed
      <4>4. QED
        BY <3>3, <4>1, <4>3, CompletedStays
    <3>6. ASSUME NEW k \in Instances, Working(k, j)' PROVE pc'[k] = "fail"
      <4>1. Working(k, j)
        BY <2>2, <2>3, <2>6, <3>6
      <4>2. k = i
        BY <2>1, <3>1, <4>1, Alone
      <4>3. QED
        BY <3>1, <3>6, <4>2 DEF Working, Processing
    <3>7. QED
      BY <3>5, <3>6
  <2>7. QED
    BY <2>4, <2>5, <2>6
<1>3. QED
  BY <1>1, <1>2, TypeCorrect, Exclusive, Freshness, RowFirst, PTL DEF Spec

(* A job its worker completed shows a completed report with data.          *)
THEOREM ReportIsShown == Spec => []CompletedJobShowsItsReport
<1>1. ReportIsLast /\ ResultRowElects => CompletedJobShowsItsReport
  BY DEF ReportIsLast, Quiet, LastClosed, ResultRowElects, CompletedJobShowsItsReport
<1>2. QED
  BY <1>1, ReportStaysLast, Election, PTL
=============================================================================
