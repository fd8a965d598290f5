------------------------------ MODULE DemoEngine ------------------------------
(***************************************************************************)
(* The client-side demo engine (frontend/src/demo/demoEngine.js): simulated *)
(* detonations driven by five timers, a job list and reports kept in        *)
(* localStorage, and progress subscriptions.                                *)
(*                                                                         *)
(* localStorage is shared by the tabs of a browser, the map of active       *)
(* simulations is memory of one tab and is lost when it is reloaded.  A     *)
(* function of the engine runs to its end within one task, so each is one   *)
(* action.  Any setItem may fail (quota); the code logs it and goes on.     *)
(* Names, dates and hashes are left out; a report is told by its score.     *)
(***************************************************************************)
EXTENDS Naturals, Sequences, SequencesExt

CONSTANTS Tabs,                 \* the open tabs of one browser
          DEMO_PROFILES,        \* the bundled reports: a sequence of [id, score]
          MAX_PERSISTED_JOBS,   \* 20 in the code
          MaxUploads,           \* bound: simulated uploads
          MaxFaults,            \* bound: reloads, resets and failed writes
          Null

Stages   == <<"QUEUED", "PREPARING_SANDBOX", "EXECUTING", "ANALYZING", "COMPLETED">>
JobIds   == 1 .. MaxUploads     \* demo-<time>-<random>: never used twice
Bundled  == {DEMO_PROFILES[i].id : i \in DOMAIN DEMO_PROFILES}

ASSUME ProfilesAssumption ==
    /\ MAX_PERSISTED_JOBS \in Nat \ {0} /\ MaxUploads \in Nat
    /\ DOMAIN DEMO_PROFILES = 1 .. Len(DEMO_PROFILES) /\ Len(DEMO_PROFILES) \in 1 .. MAX_PERSISTED_JOBS
    /\ \A i, j \in DOMAIN DEMO_PROFILES : DEMO_PROFILES[i].id = DEMO_PROFILES[j].id => i = j
    /\ Bundled \cap JobIds = {}

Answers == [status : {"pending", "running", "completed"}, result : BOOLEAN,
            score : {DEMO_PROFILES[i].score : i \in DOMAIN DEMO_PROFILES} \cup {Null}]

ASSUME NullAssumption == Null \notin Answers

VARIABLES jobs,         \* threatbox_demo_jobs_v1: Null (no item) or the headers, newest first
          reports,      \* threatbox_demo_reports_v1: ids of the stored reports, oldest first
          sims,         \* activeSimulations of each tab: id -> timers that have fired
          stream,       \* the open subscription: its tab, its job and who will end it
          uploads,      \* how many jobs were uploaded
          faults,       \* how many reloads, resets and failed writes there were
          interrupted,  \* history: uploads cut short by a reload, a reset or a failed write
          forgotten,    \* history: uploads that a reset came after
          elsewhere     \* history: those of them that ran in another tab at the reset

vars == <<jobs, reports, sims, stream, uploads, faults, interrupted, forgotten, elsewhere>>

-----------------------------------------------------------------------------
(* localStorage *)

Ids(list) == {list[i].id : i \in DOMAIN list}
Find(list, id) == list[CHOOSE i \in DOMAIN list : list[i].id = id]

getInitialDemoJobs == [i \in DOMAIN DEMO_PROFILES |->
    [id |-> DEMO_PROFILES[i].id, status |-> "completed", score |-> DEMO_PROFILES[i].score]]

(* Reading the list normalises every unfinished job to 'completed'. *)
getStoredDemoJobs ==
    IF jobs = Null THEN getInitialDemoJobs
    ELSE [i \in DOMAIN jobs |->
            IF jobs[i].status \in {"pending", "running"}
            THEN [jobs[i] EXCEPT !.status = "completed"] ELSE jobs[i]]

persistDemoJobs(list, written) ==
    jobs' = IF written
            THEN SubSeq(list, 1, IF Len(list) < MAX_PERSISTED_JOBS THEN Len(list) ELSE MAX_PERSISTED_JOBS)
            ELSE jobs

ReportsUncapped(id, written) ==
    reports' = IF written THEN Append(reports, id) ELSE reports

persistCustomReport(id, written) ==
    LET map == Append(reports, id)
    IN reports' = IF ~written THEN reports
                  ELSE IF Len(map) > MAX_PERSISTED_JOBS THEN Tail(map) ELSE map

(* A simulated report is a copy of the first profile with the names changed. *)
buildSimulatedReport == DEMO_PROFILES[1].score

-----------------------------------------------------------------------------
(* The lookups of the client. *)

Active(t) == DOMAIN sims[t]

demoGetJobs == getStoredDemoJobs

Answer(status, score, result) == [status |-> status, score |-> score, result |-> result]

getDemoJobDetailsById(id) ==
    LET p == CHOOSE i \in DOMAIN DEMO_PROFILES : DEMO_PROFILES[i].id = id
    IN Answer("completed", DEMO_PROFILES[p].score, TRUE)

(* In order: a simulation of this tab, a bundled profile, a stored report, *)
(* a placeholder for a listed job, and otherwise an error (Null).          *)
demoGetJobDetails(t, id) ==
    LET list == getStoredDemoJobs
    IN CASE id \in Active(t) ->
                Answer(IF id \in Ids(list) THEN Find(list, id).status ELSE "running", Null, FALSE)
         [] id \notin Active(t) /\ id \in Bundled -> getDemoJobDetailsById(id)
         [] id \notin Active(t) /\ id \notin Bundled
              /\ id \in ToSet(reports) \cup Ids(list) ->
                Answer("completed", buildSimulatedReport, TRUE)
         [] OTHER -> Null

-----------------------------------------------------------------------------

NoStream == [tab |-> Null, job |-> Null, mode |-> "none"]

HungUp(t) == IF stream.tab = t THEN NoStream ELSE stream

Init == /\ jobs = Null /\ reports = <<>> /\ uploads = 0
        /\ sims = [t \in Tabs |-> <<>>]
        /\ stream = NoStream /\ faults = 0
        /\ interrupted = {} /\ forgotten = {} /\ elsewhere = {}

(* A write that is not written is a fault. *)
MayFail(writes) ==
    /\ faults' = IF \A i \in DOMAIN writes : writes[i] THEN faults ELSE faults + 1
    /\ faults' <= MaxFaults

demoUploadSample(t) ==
    /\ uploads < MaxUploads
    /\ uploads' = uploads + 1
    /\ \E written \in BOOLEAN :
          /\ MayFail(<<written>>)
          /\ persistDemoJobs(<<[id |-> uploads', status |-> "pending", score |-> Null]>>
                               \o getStoredDemoJobs, written)
          /\ interrupted' = IF written THEN interrupted ELSE interrupted \cup {uploads'}
    /\ sims' = [sims EXCEPT ![t] = [id \in Active(t) \cup {uploads'} |->
                                       IF id = uploads' THEN 0 ELSE sims[t][id]]]
    /\ UNCHANGED <<reports, stream, forgotten, elsewhere>>

StageStatus(n) == CASE n = 1 -> "pending" [] n \in 2 .. 4 -> "running" [] OTHER -> "completed"

Updated(header, n) ==
    [header EXCEPT !.status = StageStatus(n),
                   !.score  = IF StageStatus(n) = "completed" THEN buildSimulatedReport ELSE header.score]

BroadcastRelists(id, n, written) ==
    LET list == getStoredDemoJobs
        new  == Updated([id |-> id, status |-> "pending", score |-> Null], n)
    IN persistDemoJobs(IF id \in Ids(list)
                       THEN [i \in DOMAIN list |-> IF list[i].id = id THEN Updated(list[i], n) ELSE list[i]]
                       ELSE <<new>> \o list, written)

UpdateKeepsScore(id, n, written) ==
    LET list == getStoredDemoJobs
    IN IF id \in Ids(list)
       THEN persistDemoJobs([i \in DOMAIN list |->
                IF list[i].id = id THEN [list[i] EXCEPT !.status = StageStatus(n)] ELSE list[i]], written)
       ELSE UNCHANGED jobs

(* The write of broadcastEvent: a job that is no longer listed stays so. *)
UpdateStored(id, n, written) ==
    LET list == getStoredDemoJobs
    IN IF id \in Ids(list)
       THEN persistDemoJobs([i \in DOMAIN list |->
                IF list[i].id = id THEN Updated(list[i], n) ELSE list[i]], written)
       ELSE UNCHANGED jobs

NotifiesNobody(t, id, n) == UNCHANGED stream

(* The listeners of broadcastEvent. *)
Notify(t, id, n) ==
    stream' = IF stream = [tab |-> t, job |-> id, mode |-> "live"] /\ n = Len(Stages)
              THEN NoStream ELSE stream

(* Timers with the same delay fire in the order in which they were set, so *)
(* an older simulation of the tab is always ahead.                         *)
MayFire(t, id) == \A older \in Active(t) : older < id => sims[t][older] > sims[t][id]

Fire(t, id) ==
    /\ id \in Active(t) /\ sims[t][id] < Len(Stages) - 1 /\ MayFire(t, id)
    /\ \E written \in BOOLEAN : MayFail(<<written>>) /\ UpdateStored(id, sims[t][id] + 1, written)
    /\ Notify(t, id, sims[t][id] + 1)
    /\ sims' = [sims EXCEPT ![t][id] = @ + 1]
    /\ UNCHANGED <<reports, uploads, interrupted, forgotten, elsewhere>>

CompleteKeepsSimulation(t, id) ==
    /\ id \in Active(t) /\ sims[t][id] = Len(Stages) - 1 /\ MayFire(t, id)
    /\ \E saved, written \in BOOLEAN :
          /\ MayFail(<<saved, written>>)
          /\ persistCustomReport(id, saved)
          /\ UpdateStored(id, Len(Stages), written)
          /\ interrupted' = IF saved /\ written THEN interrupted ELSE interrupted \cup {id}
    /\ Notify(t, id, Len(Stages))
    /\ UNCHANGED <<sims, uploads, forgotten, elsewhere>>

(* The last timer also saves the report and ends the simulation. *)
Complete(t, id) ==
    /\ id \in Active(t) /\ sims[t][id] = Len(Stages) - 1 /\ MayFire(t, id)
    /\ \E saved, written \in BOOLEAN :
          /\ MayFail(<<saved, written>>)
          /\ persistCustomReport(id, saved)
          /\ UpdateStored(id, Len(Stages), written)
          /\ interrupted' = IF saved /\ written THEN interrupted ELSE interrupted \cup {id}
    /\ Notify(t, id, Len(Stages))
    /\ sims' = [sims EXCEPT ![t] = [other \in Active(t) \ {id} |-> sims[t][other]]]
    /\ UNCHANGED <<uploads, forgotten, elsewhere>>

(* The page is reloaded: timers, listeners and active simulations are gone. *)
Reload(t) ==
    /\ faults < MaxFaults /\ faults' = faults + 1
    /\ sims' = [sims EXCEPT ![t] = <<>>]
    /\ stream' = HungUp(t)
    /\ interrupted' = interrupted \cup Active(t)
    /\ UNCHANGED <<jobs, reports, uploads, forgotten, elsewhere>>

(* The button of the sidebar: reset, then reload.  removeItem cannot fail. *)
resetDemoHistory(t) ==
    /\ faults < MaxFaults /\ faults' = faults + 1
    /\ jobs' = Null /\ reports' = <<>>
    /\ sims' = [sims EXCEPT ![t] = <<>>]
    /\ stream' = HungUp(t)
    /\ forgotten' = 1 .. uploads
    /\ interrupted' = interrupted \cup 1 .. uploads
    /\ elsewhere' = elsewhere \cup UNION {Active(u) : u \in Tabs \ {t}}
    /\ UNCHANGED uploads

(* A subscriber of a simulation of this tab hears its stages; any other is *)
(* told at once (50 ms) that the analysis is completed.                    *)
demoSubscribeJobStream(t, id) ==
    /\ stream = NoStream
    /\ id \in Bundled \cup 1 .. uploads
    /\ stream' = IF id \in Active(t) THEN [tab |-> t, job |-> id, mode |-> "live"]
                                     ELSE [tab |-> t, job |-> Null, mode |-> "late"]
    /\ UNCHANGED <<jobs, reports, sims, uploads, faults, interrupted, forgotten, elsewhere>>

LateEvent ==
    /\ stream.mode = "late"
    /\ stream' = NoStream
    /\ UNCHANGED <<jobs, reports, sims, uploads, faults, interrupted, forgotten, elsewhere>>

(* close() leaves the set of listeners; the late event is not taken back. *)
CloseStream ==
    /\ stream.mode = "live"
    /\ stream' = NoStream
    /\ UNCHANGED <<jobs, reports, sims, uploads, faults, interrupted, forgotten, elsewhere>>

Next == \/ LateEvent \/ CloseStream
        \/ \E t \in Tabs :
           \/ demoUploadSample(t) \/ Reload(t) \/ resetDemoHistory(t)
           \/ \E id \in JobIds : Fire(t, id) \/ Complete(t, id)
           \/ \E id \in JobIds \cup Bundled : demoSubscribeJobStream(t, id)

(* The browser runs due timers. *)
Fairness == /\ WF_vars(LateEvent)
            /\ \A t \in Tabs, id \in JobIds : WF_vars(Fire(t, id)) /\ WF_vars(Complete(t, id))

Spec == Init /\ [][Next]_vars /\ Fairness

-----------------------------------------------------------------------------
(* Properties *)

Header == [id : JobIds \cup Bundled, status : {"pending", "running", "completed"},
           score : {DEMO_PROFILES[i].score : i \in DOMAIN DEMO_PROFILES} \cup {Null}]

JobsOK == jobs = Null \/ (jobs \in Seq(Header) /\ Len(jobs) \in 1 .. MAX_PERSISTED_JOBS)

ReportsOK == reports \in Seq(JobIds) /\ Len(reports) <= MAX_PERSISTED_JOBS

SimsOK == \A t \in Tabs : Active(t) \subseteq 1 .. uploads /\ \A id \in Active(t) : sims[t][id] \in 0 .. 4

(* The shape of the state; both lists keep within their cap whatever order *)
(* tabs write in, and no job is simulated in two tabs.                     *)
TypeOK == /\ JobsOK /\ ReportsOK /\ SimsOK
          /\ uploads \in 0 .. MaxUploads
          /\ \A t, u \in Tabs : t # u => Active(t) \cap Active(u) = {}

(* The history table shows the score of the list, the dashboard that of the *)
(* details: wherever the list has a score, every tab's details have the     *)
(* same one, even when the report was evicted, its write failed or another  *)
(* tab made it (the lookup order of demoGetJobDetails).                     *)
ListMatchesReport ==
    \A i \in DOMAIN demoGetJobs : demoGetJobs[i].score # Null =>
        \A t \in Tabs : LET answer == demoGetJobDetails(t, demoGetJobs[i].id)
                        IN /\ answer # Null /\ answer.result
                           /\ answer.score = demoGetJobs[i].score

(* What a reset forgot stays forgotten: no later timer lists the job again, *)
(* and its report comes back only from a simulation that was running in     *)
(* another tab, whose timers the reset cannot clear.                        *)
ResetIsFinal ==
    /\ Ids(demoGetJobs) \cap forgotten = {}
    /\ (ToSet(reports) \cup UNION {Active(t) : t \in Tabs}) \cap forgotten \subseteq elsewhere

Settled(id) == \/ id \in ToSet(reports) /\ id \in Ids(demoGetJobs)
                     /\ Find(demoGetJobs, id).score # Null
               \/ id \notin Ids(demoGetJobs)
               \/ id \in interrupted

(* A running simulation gets its score and its report, unless newer jobs push it *)
(* out of the list or a reload, a reset or a full storage interrupts it:    *)
(* the timers of overlapping simulations do not undo each other's writes.   *)
EveryUploadSettles == \A id \in JobIds : (\E t \in Tabs : id \in Active(t)) ~> Settled(id)

(* Whoever subscribes to a job hears that it is completed, or hung up. *)
SubscriberHearsEnd == (stream # NoStream) ~> (stream = NoStream)

(* demoEngine.js:35 takes an unfinished job in the list for an interrupted *)
(* one, and :154 promises that a job progresses after 'pending'.  A job    *)
(* whose simulation is running is then not one to report as completed.     *)
RunningIsNotCompleted ==
    \A t \in Tabs : \A id \in Active(t) : demoGetJobDetails(t, id).status # "completed"
=============================================================================
