------------------------------ MODULE WebClient ------------------------------
(***************************************************************************)
(* The browser side of one analysis (live mode): the pages of App.jsx, the  *)
(* upload page that submits a sample and polls its job (Upload.jsx), and    *)
(* the dashboard that loads the selected job (Dashboard.jsx).               *)
(*                                                                         *)
(* Only one page is mounted at a time.  What a page started lives on when   *)
(* it is left: an upload or a poll whose answer is under way, an interval   *)
(* that nobody cleared, the 900 ms timer before the report is opened.  Each *)
(* callback is one task, and setState on an unmounted page does nothing.    *)
(* Every mount of the upload page has its own state and its own pollingRef. *)
(*                                                                         *)
(* The service moves jobs through the life cycle of JobLifecycle.  While    *)
(* the overlay is shown it covers the page and only Cancel can be clicked.  *)
(***************************************************************************)
EXTENDS JobStatus, Naturals, FiniteSets

CONSTANTS MaxUploads,   \* bound: jobs this browser creates
          MaxMounts,    \* bound: visits of the upload page
          MaxInFlight,  \* bound: polls of one job under way
          MaxFaults,    \* bound: failed calls and jobs put back to pending
          Null

Jobs   == 1 .. MaxUploads
Mounts == 1 .. MaxMounts
Slots  == 1 .. MaxInFlight
Sample == 0             \* a row of the built-in list of recent analyses: no job of the service
Pages  == {"home", "upload", "dashboard", "history"}
Statuses == {"pending", "running"} \cup Settled

ASSUME BoundsAssumption == MaxUploads \in Nat /\ MaxMounts \in Nat
                           /\ MaxInFlight \in Nat /\ MaxFaults \in Nat /\ Null \notin Nat

ASSUME NullAssumption == Null \notin [job : Jobs \cup {Null}]

VARIABLES
  server,       \* the status of each job in the service, "none" before it exists
  page,         \* App: currentPage
  selected,     \* App: selectedSample: Null or its id and whether it carries the analysis
  mount,        \* visits of the upload page so far; the last one is the mounted one
  detonation,   \* Upload: detonationState: Null or [job], its job Null if missing
  feedback,     \* Upload: Null, Failure or Exists(job)
  recent,       \* Upload: liveRecentAnalyses, Null until getJobs has answered
  listing,      \* Upload: getJobs is under way
  uploading,    \* the visits whose uploadSample is under way (isUploading of that visit)
  pollingRef,   \* pollingRef.current of each visit: the job its last interval polls
  loops,        \* the poll loop of each job: its visit, how it ended, and whether
                \* it began after its page was left
  polls,        \* the getJobDetails calls under way: answer "sent" or the status served
  timers,       \* the 900 ms timers that will open the report of a job
  loadedJob,    \* Dashboard: the fetched job, as selected
  fetches,      \* Dashboard: the jobs whose details the mounted dashboard waits for
  overtaken,    \* history: a timer replaced the selection of the mounted dashboard
  faults        \* failed calls and requeues so far

app     == <<page, selected>>
upload  == <<mount, detonation, feedback, recent, listing, uploading>>
polling == <<pollingRef, loops, polls, timers>>
dash    == <<loadedJob, fetches, overtaken>>
vars    == <<server, app, upload, polling, dash, faults>>

NoLoop == [mount |-> 0, end |-> "none", late |-> FALSE]

Init ==
  /\ server = [j \in Jobs |-> "none"]
  /\ page = "home" /\ selected = Null
  /\ mount = 0 /\ detonation = Null /\ feedback = Null
  /\ recent = Null /\ listing = FALSE /\ uploading = {}
  /\ pollingRef = [m \in Mounts |-> Null]
  /\ loops = [j \in Jobs |-> NoLoop] /\ polls = {} /\ timers = [j \in Jobs |-> 0]
  /\ loadedJob = Null /\ fetches = {} /\ overtaken = FALSE
  /\ faults = 0

Known     == {j \in Jobs : server[j] # "none"}
Ticking(j) == loops[j].end = "ticking"
Here(m)   == page = "upload" /\ m = mount
Failure   == [type |-> "error"]             \* the banners of the upload page
Exists(j) == [type |-> "info", existingJobId |-> j]
Fault     == faults < MaxFaults /\ faults' = faults + 1

-----------------------------------------------------------------------------
(* Mounting and leaving pages *)

(* clearInterval(pollingRef.current) of visit m, run for reason e.  *)
ClearInterval(m, e) ==
  LET j == pollingRef[m]
  IN IF j # Null /\ Ticking(j) THEN [loops EXCEPT ![j].end = e] ELSE loops

(* The cleanup of the upload page's effect, and the state it loses. *)
LeaveUpload ==
  /\ loops' = ClearInterval(mount, "left")
  /\ detonation' = Null /\ feedback' = Null

IdOf(sample) == IF sample = Null THEN Null ELSE sample.job

(* The dashboard's effect, run on mount and when the selected id changes. *)
Fetching(sample) == IF sample # Null /\ ~sample.full
                    THEN {sample.job} ELSE {}

DashboardFetchesSurvive(p, sample) ==
  CASE p # "dashboard" -> loadedJob' = Null /\ UNCHANGED fetches /\ overtaken' = FALSE
    [] p = "dashboard" /\ page # "dashboard" ->
         loadedJob' = Null /\ fetches' = fetches \cup Fetching(sample) /\ overtaken' = FALSE
    [] OTHER -> UNCHANGED <<loadedJob, fetches>> /\ overtaken' = TRUE

(* A dashboard that is left forgets its job and its calls; an open one only *)
(* gets a new sample, and keeps the job it has loaded.                      *)
DashboardEffect(p, sample) ==
  CASE p # "dashboard" -> loadedJob' = Null /\ fetches' = {} /\ overtaken' = FALSE
    [] p = "dashboard" /\ page # "dashboard" ->
         loadedJob' = Null /\ fetches' = Fetching(sample) /\ overtaken' = FALSE
    [] OTHER -> /\ loadedJob' = loadedJob /\ overtaken' = TRUE
                /\ fetches' = IF IdOf(sample) = IdOf(selected) THEN fetches
                              ELSE fetches \cup Fetching(sample)

ListingUnguarded(p) ==
  IF p = "upload" THEN mount < MaxMounts /\ mount' = mount + 1 /\ listing' = TRUE /\ recent' = Null
  ELSE mount' = mount /\ listing' = listing /\ recent' = Null

(* The upload page's effect on mount, getJobs; isMounted drops its answer. *)
UploadEffect(p) ==
  IF p = "upload" THEN mount < MaxMounts /\ mount' = mount + 1 /\ listing' = TRUE /\ recent' = Null
  ELSE mount' = mount /\ listing' = FALSE /\ recent' = Null

(* setCurrentPage and setSelectedSample, with the effects of the pages that *)
(* they mount and unmount.                                                  *)
Show(p, sample) ==
  /\ page' = p /\ selected' = sample
  /\ IF page = "upload" THEN LeaveUpload ELSE UNCHANGED <<loops, detonation, feedback>>
  /\ UploadEffect(p) /\ DashboardEffect(p, sample)

(* The buttons of the pages and of the sidebar; the home page only leads to *)
(* the upload page.                                                         *)
Links(p) == IF p = "home" THEN {"upload"} ELSE Pages \ {p}

handleSidebarNavigate(p) ==
  /\ p \in Links(page) /\ detonation = Null
  /\ Show(p, selected)
  /\ UNCHANGED <<server, uploading, pollingRef, polls, timers, faults>>

(* A row of the history, or of the recent analyses: only the id is known. *)
handleOpenSampleReport(j) ==
  /\ \/ page = "history" /\ j \in Known
     \/ /\ page = "upload" /\ detonation = Null
        /\ IF recent = Null THEN j = Sample ELSE j \in recent
     \/ page = "upload" /\ detonation = Null /\ feedback = Exists(j)
  /\ Show("dashboard", [job |-> j, full |-> FALSE])
  /\ UNCHANGED <<server, uploading, pollingRef, polls, timers, faults>>

-----------------------------------------------------------------------------
(* Upload *)

LoadRecent ==
  /\ listing /\ listing' = FALSE
  /\ \/ recent' = Known /\ UNCHANGED faults
     \/ Fault /\ UNCHANGED recent
  /\ UNCHANGED <<server, app, mount, detonation, feedback, uploading, polling, dash>>

handleStartDetonation ==
  /\ page = "upload" /\ detonation = Null /\ mount \notin uploading
  /\ uploading' = uploading \cup {mount} /\ feedback' = Null
  /\ UNCHANGED <<server, app, mount, detonation, recent, listing, polling, dash, faults>>

(* The service takes the sample, and the interval starts even when the page *)
(* was left while the call was under way.                                   *)
SampleAccepted(m) ==
  /\ m \in uploading /\ uploading' = uploading \ {m}
  /\ \E j \in Jobs :
       /\ server[j] = "none" /\ \A i \in Jobs : i < j => server[i] # "none"
       /\ server' = [server EXCEPT ![j] = "pending"]
       /\ loops' = [loops EXCEPT ![j] = [mount |-> m, end |-> "ticking", late |-> ~Here(m)]]
       /\ pollingRef' = [pollingRef EXCEPT ![m] = j]
       /\ detonation' = IF Here(m) THEN [job |-> j] ELSE detonation
  /\ UNCHANGED <<app, mount, feedback, recent, listing, polls, timers, dash, faults>>

(* The sample exists already, or the upload fails: a banner. *)
SampleRefused(m) ==
  /\ m \in uploading /\ uploading' = uploading \ {m}
  /\ \/ Fault /\ feedback' = IF Here(m) THEN Failure ELSE feedback
     \/ /\ UNCHANGED faults
        /\ \E j \in Known : feedback' = IF Here(m) THEN Exists(j) ELSE feedback
  /\ UNCHANGED <<server, app, mount, detonation, recent, listing, polling, dash>>

CancelOnlyHides ==
  /\ page = "upload" /\ detonation # Null
  /\ detonation' = Null
  /\ UNCHANGED <<server, app, mount, feedback, recent, listing, uploading, polling, dash, faults>>

handleCancelDetonation ==
  /\ page = "upload" /\ detonation # Null
  /\ loops' = ClearInterval(mount, "cancelled")
  /\ detonation' = Null
  /\ UNCHANGED <<server, app, mount, feedback, recent, listing, uploading,
                 pollingRef, polls, timers, dash, faults>>

-----------------------------------------------------------------------------
(* Polling: the interval does not wait for the answer of the poll before *)

Poll(j, n, a) == [job |-> j, slot |-> n, answer |-> a]

Tick(j, n) ==
  /\ Ticking(j) /\ \A p \in polls : p.job = j => p.slot # n
  /\ polls' = polls \cup {Poll(j, n, "sent")}
  /\ UNCHANGED <<server, app, upload, pollingRef, loops, timers, dash, faults>>

Serve(j, n) ==
  /\ Poll(j, n, "sent") \in polls
  /\ polls' = (polls \ {Poll(j, n, "sent")}) \cup {Poll(j, n, server[j])}
  /\ UNCHANGED <<server, app, upload, pollingRef, loops, timers, dash, faults>>

(* The catch of the poll only logs. *)
PollFails(j, n) ==
  /\ Poll(j, n, "sent") \in polls /\ Fault
  /\ polls' = polls \ {Poll(j, n, "sent")}
  /\ UNCHANGED <<server, app, upload, pollingRef, loops, timers, dash>>

Delivered(j, n, a) == Poll(j, n, a) \in polls /\ polls' = polls \ {Poll(j, n, a)}

(* setDetonationState(prev => ({...prev, step, statusText})), whatever prev *)
(* is; the step itself is not kept in the model.                            *)
ShowStep(j) ==
  detonation' = IF Here(loops[j].mount) /\ detonation = Null THEN [job |-> Null] ELSE detonation

PendingArrives(j, n) ==
  /\ Delivered(j, n, "pending")
  /\ UNCHANGED <<server, app, upload, pollingRef, loops, timers, dash, faults>>

RunningArrives(j, n) ==
  /\ Delivered(j, n, "running")
  /\ ShowStep(j)
  /\ UNCHANGED <<server, app, mount, feedback, recent, listing, uploading, pollingRef, loops, timers,
                 dash, faults>>

(* clearInterval(pollingRef.current) stops the last interval of the visit, *)
(* which need not be the one that this poll belongs to.                    *)
EndedBy(j, a) ==
  LET m == loops[j].mount IN ClearInterval(m, IF pollingRef[m] = j THEN a ELSE "stolen")

CompletedStaysOpen(j, n) ==
  /\ Delivered(j, n, "completed")
  /\ loops' = EndedBy(j, "completed") /\ ShowStep(j)
  /\ UNCHANGED <<server, app, mount, feedback, recent, listing, uploading, pollingRef, timers, dash, faults>>

CompletedArrives(j, n) ==
  /\ Delivered(j, n, "completed")
  /\ loops' = EndedBy(j, "completed") /\ ShowStep(j)
  /\ timers' = [timers EXCEPT ![j] = @ + 1]
  /\ UNCHANGED <<server, app, mount, feedback, recent, listing, uploading, pollingRef, dash, faults>>

FailedArrives(j, n) ==
  /\ Delivered(j, n, "failed")
  /\ loops' = EndedBy(j, "failed")
  /\ IF Here(loops[j].mount) THEN feedback' = Failure /\ detonation' = Null
     ELSE UNCHANGED <<feedback, detonation>>
  /\ UNCHANGED <<server, app, mount, recent, listing, uploading, pollingRef, timers, dash, faults>>

(* The 900 ms timer calls onSelectSample, on whatever page the user is. *)
OpenReport(j) ==
  /\ timers[j] > 0 /\ timers' = [timers EXCEPT ![j] = @ - 1]
  /\ Show("dashboard", [job |-> j, full |-> TRUE])
  /\ UNCHANGED <<server, uploading, pollingRef, polls, faults>>

-----------------------------------------------------------------------------
(* Dashboard *)

(* A late answer may be older than the job's completion. *)
FetchArrives(j) ==
  /\ j \in fetches \ {Sample} /\ fetches' = fetches \ {j}
  /\ \E full \in {FALSE, server[j] = "completed"} : loadedJob' = [job |-> j, full |-> full]
  /\ UNCHANGED <<server, app, upload, polling, overtaken, faults>>

(* An error, and always for a row that is no job, is only logged. *)
FetchFails(j) ==
  /\ j \in fetches /\ fetches' = fetches \ {j}
  /\ IF j = Sample THEN UNCHANGED faults ELSE Fault
  /\ UNCHANGED <<server, app, upload, polling, loadedJob, overtaken>>

(* sample: what the dashboard shows. *)
Shown == IF loadedJob # Null THEN loadedJob ELSE selected

-----------------------------------------------------------------------------
(* The service: a job makes each move that its clients are promised. *)

Progress(j) ==
  /\ \E s \in {"running"} \cup Settled :
        ValidTransition(server[j], s) /\ server' = [server EXCEPT ![j] = s]
  /\ UNCHANGED <<app, upload, polling, dash, faults>>

(* RecoverStaleJobs of the worker. *)
Requeue(j) ==
  /\ ValidTransition(server[j], "pending") /\ Fault
  /\ server' = [server EXCEPT ![j] = "pending"]
  /\ UNCHANGED <<app, upload, polling, dash>>

Arrives(j, n) == \/ PendingArrives(j, n) \/ RunningArrives(j, n)
                 \/ CompletedArrives(j, n) \/ FailedArrives(j, n)

(* One poll of the interval, from its tick to its answer: one of the three  *)
(* is enabled at a time.                                                    *)
Polling(j, n) == Tick(j, n) \/ Serve(j, n) \/ Arrives(j, n)

Next ==
  \/ \E p \in Pages : handleSidebarNavigate(p)
  \/ \E j \in Jobs \cup {Sample} : handleOpenSampleReport(j)
  \/ LoadRecent \/ handleStartDetonation \/ handleCancelDetonation
  \/ \E m \in Mounts : SampleAccepted(m) \/ SampleRefused(m)
  \/ \E j \in Jobs : OpenReport(j) \/ Progress(j) \/ Requeue(j)
  \/ \E j \in Jobs, n \in Slots : Polling(j, n) \/ PollFails(j, n)
  \/ \E j \in Jobs \cup {Sample} : FetchArrives(j) \/ FetchFails(j)

(* Timers fire, calls under way are answered, and jobs settle, which is     *)
(* JobQueue's EveryJobSettles.  Nothing is assumed of the user.             *)
Fairness ==
  /\ \A j \in Jobs : WF_vars(Progress(j)) /\ WF_vars(OpenReport(j))
  /\ \A j \in Jobs, n \in Slots : WF_vars(Polling(j, n))

Spec == Init /\ [][Next]_vars /\ Fairness

-----------------------------------------------------------------------------
(* Properties *)

Shape(sample) == sample = Null \/ sample \in [job : Jobs \cup {Sample}, full : BOOLEAN]

Ends == {"ticking", "left", "cancelled", "completed", "failed", "stolen"}

(* Types, and a page that is not mounted has no state. *)
TypeOK ==
  /\ server \in [Jobs -> Statuses \cup {"none"}]
  /\ page \in Pages /\ Shape(selected) /\ Shape(loadedJob)
  /\ mount \in 0 .. MaxMounts /\ uploading \subseteq 1 .. mount
  /\ detonation = Null \/ detonation \in [job : Jobs \cup {Null}]
  /\ feedback \in {Null, Failure} \cup {Exists(j) : j \in Jobs}
  /\ recent = Null \/ recent \subseteq Jobs
  /\ listing \in BOOLEAN
  /\ page # "upload" => detonation = Null /\ feedback = Null /\ recent = Null /\ ~listing
  /\ pollingRef \in [Mounts -> Jobs \cup {Null}]
  /\ loops \in [Jobs -> {NoLoop} \cup [mount : Mounts, end : Ends, late : BOOLEAN]]
  /\ \A p \in polls : p \in [job : Jobs, slot : Slots, answer : Statuses \cup {"sent"}]
  /\ timers \in [Jobs -> Nat]
  /\ fetches \subseteq Jobs \cup {Sample}
  /\ overtaken \in BOOLEAN /\ faults \in 0 .. MaxFaults

(* Nobody polls behind the user's back: an interval runs only under the     *)
(* overlay of its own visit, which offers Cancel, unless the upload's answer *)
(* came after the page was left (Upload.jsx:83-86 can only clear what exists *)
(* by then); and a visit never has two intervals, of which pollingRef would  *)
(* forget one.                                                               *)
NoInvisiblePolling ==
  \A j \in Jobs : Ticking(j) =>
    /\ pollingRef[loops[j].mount] = j
    /\ loops[j].late \/ (Here(loops[j].mount) /\ detonation # Null)

(* The dashboard shows the job that was selected, whatever calls of earlier *)
(* visits are still under way, unless a timer of the upload page replaced   *)
(* the selection under an open dashboard (it has no guard for that).        *)
DashboardShowsSelection ==
  page = "dashboard" /\ Shown # Null /\ ~overtaken => Shown.job = selected.job

(* A polled upload ends in its report, unless the user cancels it or leaves,*)
(* the analysis fails, or the answer of an older poll of the same visit     *)
(* stops its interval ("stolen").                                           *)
EveryUploadArrives ==
  [](\A j \in Jobs : Ticking(j) =>
       <>(\/ selected # Null /\ selected.job = j
          \/ loops[j].end \in {"cancelled", "left", "failed", "stolen"}))

(* Upload.jsx:20 gives the shape of the state: null or a record with jobId, *)
(* step, statusText and filename.                                           *)
DetonationStateShape == detonation # Null => detonation.job # Null
=============================================================================
