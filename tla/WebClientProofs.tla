--------------------------- MODULE WebClientProofs ---------------------------
(***************************************************************************)
(* The safety of the browser side, for any number of uploads, visits,       *)
(* overlapping polls and faults: the shape of the state, no polling behind  *)
(* the user's back, and a dashboard that shows what was selected.           *)
(***************************************************************************)
EXTENDS WebClient, TLAPS

USE BoundsAssumption, NullAssumption DEF BoundsAssumption

Loop == [mount : Mounts, end : Ends, late : BOOLEAN]

(* A loop belongs to an upload that its visit has finished; it is late only *)
(* if its visit had ended before it began.                                  *)
LoopFits(j) ==
  /\ loops[j] = NoLoop \/ (loops[j] \in Loop /\ server[j] # "none" /\ loops[j].mount <= mount)
  /\ Ticking(j) => /\ loops[j].mount \notin uploading
                   /\ loops[j].late => ~Here(loops[j].mount)

LoopsFit == \A j \in Jobs : LoopFits(j)

(* Only a job that has a loop is polled. *)
PollsFit == \A p \in polls : loops[p.job] # NoLoop

(* An open dashboard waits for the selected job only, until a timer puts    *)
(* another one under it.                                                    *)
DashFits ==
  /\ page # "dashboard" => loadedJob = Null /\ fetches = {}
  /\ page = "dashboard" /\ ~overtaken =>
       /\ \A j \in fetches : selected # Null /\ j = selected.job
       /\ loadedJob # Null => loadedJob.job = selected.job

IInv == /\ TypeOK /\ (page = "upload" => mount # 0)
        /\ LoopsFit /\ PollsFit /\ NoInvisiblePolling /\ DashFits

-----------------------------------------------------------------------------
(* Loops *)

(* clearInterval ends the loop that the visit's pollingRef names, and no    *)
(* other; with its types.                                                   *)
LEMMA Cleared ==
  ASSUME IInv, NEW m \in Mounts, NEW e \in Ends \ {"ticking"}, NEW j \in Jobs
  PROVE  /\ ClearInterval(m, e) \in [Jobs -> {NoLoop} \cup Loop]
         /\ ClearInterval(m, e)[j].mount = loops[j].mount
         /\ ClearInterval(m, e)[j].late = loops[j].late
         /\ ClearInterval(m, e)[j] = NoLoop <=> loops[j] = NoLoop
         /\ ClearInterval(m, e)[j].end = "ticking" => Ticking(j) /\ loops[j].mount # m
<1> DEFINE i == pollingRef[m]
<1>1. loops \in [Jobs -> {NoLoop} \cup Loop] /\ i \in Jobs \cup {Null}
  BY DEF IInv, TypeOK, Loop
<1>2. Ticking(j) => loops[j].mount \in Mounts /\ pollingRef[loops[j].mount] = j
  BY <1>1 DEF IInv, NoInvisiblePolling, Ticking, NoLoop, Loop
<1>3. CASE i # Null /\ Ticking(i)
  <2>1. ClearInterval(m, e) = [loops EXCEPT ![i].end = e]
    BY <1>3 DEF ClearInterval
  <2>2. loops[i] \in Loop
    BY <1>1, <1>3 DEF Ticking, NoLoop
  <2> DEFINE ended == [mount |-> loops[i].mount, end |-> e, late |-> loops[i].late]
  <2>3. [loops[i] EXCEPT !.end = e] = ended
    BY <2>2 DEF Loop
  <2>4. ClearInterval(m, e) = [loops EXCEPT ![i] = ended]
    BY <2>1, <2>3, Zenon
  <2>5. ended \in Loop /\ ended # NoLoop /\ loops[i] # NoLoop /\ ended.end # "ticking"
    BY <1>3, <2>2 DEF Loop, NoLoop, Ticking, Ends
  <2>6. Ticking(j) /\ loops[j].mount = m => j = i
    BY <1>2
  <2> HIDE DEF ended
  <2> QED
    BY <1>1, <1>3, <2>4, <2>5, <2>6 DEF Ticking, Jobs, ended
<1>4. CASE ~(i # Null /\ Ticking(i))
  <2>1. ClearInterval(m, e) = loops
    BY <1>4 DEF ClearInterval
  <2>2. Ticking(j) => loops[j].mount # m
    BY <1>2, <1>4 DEF Jobs
  <2> QED
    BY <1>1, <2>1, <2>2 DEF Ticking
<1> QED
  BY <1>3, <1>4

-----------------------------------------------------------------------------
(* Changing the page *)

(* Only late loops go on when the page changes, because those of the visit  *)
(* that is left are cleared.                                                *)
LEMMA LateLoopsGoOn ==
  ASSUME IInv, NEW p, NEW sample, Show(p, sample), NEW j \in Jobs
  PROVE  /\ loops' \in [Jobs -> {NoLoop} \cup Loop]
         /\ loops'[j].mount = loops[j].mount /\ loops'[j].late = loops[j].late
         /\ loops'[j] = NoLoop <=> loops[j] = NoLoop
         /\ loops'[j].end = "ticking" => Ticking(j) /\ loops[j].late
<1>1. loops \in [Jobs -> {NoLoop} \cup Loop] /\ mount \in 0 .. MaxMounts
  BY DEF IInv, TypeOK, Loop
<1>2. Ticking(j) => loops[j].late \/ Here(loops[j].mount)
  BY DEF IInv, NoInvisiblePolling
<1>3. Ticking(j) => loops[j].late \in BOOLEAN
  BY <1>1 DEF Ticking, NoLoop, Loop
<1>4. CASE page = "upload"
  <2>1. mount \in Mounts
    BY <1>1, <1>4 DEF IInv, Mounts
  <2>2. loops' = ClearInterval(mount, "left")
    BY <1>4 DEF Show, LeaveUpload
  <2>3. "left" \in Ends \ {"ticking"}
    BY DEF Ends
  <2> QED
    BY <1>2, <2>1, <2>2, <2>3, Cleared DEF Here
<1>5. CASE page # "upload"
  <2>1. loops' = loops
    BY <1>5 DEF Show
  <2> QED
    BY <1>1, <1>2, <1>5, <2>1 DEF Here, Ticking
<1> QED
  BY <1>4, <1>5

LEMMA DashboardFollows ==
  ASSUME IInv, NEW p \in Pages, NEW sample, Shape(sample), Show(p, sample)
  PROVE  /\ Shape(loadedJob') /\ fetches' \subseteq Jobs \cup {Sample} /\ overtaken' \in BOOLEAN
         /\ DashFits'
<1>1. /\ Shape(loadedJob) /\ fetches \subseteq Jobs \cup {Sample} /\ overtaken \in BOOLEAN
      /\ page' = p /\ selected' = sample /\ DashboardEffect(p, sample)
  BY DEF IInv, TypeOK, Show
<1>2. Fetching(sample) \subseteq Jobs \cup {Sample} /\ \A j \in Fetching(sample) : sample # Null /\ j = sample.job
  BY DEF Fetching, Shape
<1>3. CASE p # "dashboard"
  <2>1. loadedJob' = Null /\ fetches' = {} /\ overtaken' = FALSE
    BY <1>1, <1>3 DEF DashboardEffect
  <2> QED
    BY <1>1, <1>3, <2>1 DEF Shape, DashFits
<1>4. CASE p = "dashboard" /\ page # "dashboard"
  <2>1. loadedJob' = Null /\ fetches' = Fetching(sample) /\ overtaken' = FALSE
    BY <1>1, <1>4 DEF DashboardEffect
  <2> QED
    BY <1>1, <1>2, <1>4, <2>1 DEF Shape, DashFits
<1>5. CASE p = "dashboard" /\ page = "dashboard"
  <2>1. /\ loadedJob' = loadedJob /\ overtaken' = TRUE
        /\ fetches' = fetches \/ fetches' = fetches \cup Fetching(sample)
    BY <1>1, <1>5 DEF DashboardEffect
  <2> QED
    BY <1>1, <1>2, <1>5, <2>1 DEF Shape, DashFits
<1> QED
  BY <1>3, <1>4, <1>5

LEMMA ShowKeeps ==
  ASSUME IInv, NEW p \in Pages, NEW sample, Shape(sample), Show(p, sample),
         p = "upload" => page # "upload",
         UNCHANGED <<server, uploading, pollingRef, polls, faults>>, timers' \in [Jobs -> Nat]
  PROVE  IInv'
<1>1. /\ mount' \in 0 .. MaxMounts /\ mount \in 0 .. MaxMounts /\ mount <= mount'
      /\ p = "upload" => mount' = mount + 1
      /\ listing' \in BOOLEAN /\ recent' = Null
      /\ p # "upload" => listing' = FALSE
  <2>1. mount \in 0 .. MaxMounts /\ UploadEffect(p)
    BY DEF IInv, TypeOK, Show
  <2>2. CASE p = "upload"
    <3>1. mount < MaxMounts /\ mount' = mount + 1 /\ listing' = TRUE /\ recent' = Null
      BY <2>1, <2>2 DEF UploadEffect
    <3> QED
      BY <2>1, <2>2, <3>1
  <2>3. CASE p # "upload"
    <3>1. mount' = mount /\ listing' = FALSE /\ recent' = Null
      BY <2>1, <2>3 DEF UploadEffect
    <3>2. mount' \in 0 .. MaxMounts /\ mount \in 0 .. MaxMounts /\ mount <= mount'
      BY <2>1, <3>1
    <3> QED
      BY <2>3, <3>1, <3>2
  <2> QED
    BY <2>2, <2>3
<1>2. page' = p /\ selected' = sample /\ detonation' = Null /\ feedback' = Null
  BY DEF IInv, TypeOK, Show, LeaveUpload
<1>3. TypeOK'
  <2>1. loops' \in [Jobs -> {NoLoop} \cup Loop]
    <3>1. CASE Jobs = {}
      BY <3>1 DEF IInv, TypeOK, Loop, Show, LeaveUpload, ClearInterval
    <3>2. CASE Jobs # {}
      BY <3>2, LateLoopsGoOn
    <3> QED
      BY <3>1, <3>2
  <2>2. uploading' \subseteq 1 .. mount'
    BY <1>1 DEF IInv, TypeOK
  <2> QED
    BY <1>1, <1>2, <2>1, <2>2, DashboardFollows DEF IInv, TypeOK, Loop
<1>4. page' = "upload" => mount' # 0
  BY <1>1, <1>2
<1>5. LoopsFit' /\ NoInvisiblePolling'
  <2> SUFFICES ASSUME NEW j \in Jobs
               PROVE  LoopFits(j)' /\ (Ticking(j)' => /\ pollingRef'[loops'[j].mount] = j
                                                      /\ loops'[j].late)
    BY DEF LoopsFit, NoInvisiblePolling
  <2>1. LoopFits(j) /\ (Ticking(j) => pollingRef[loops[j].mount] = j)
    BY DEF IInv, LoopsFit, NoInvisiblePolling
  <2>2. /\ loops' \in [Jobs -> {NoLoop} \cup Loop]
        /\ loops'[j].mount = loops[j].mount /\ loops'[j].late = loops[j].late
        /\ loops'[j] = NoLoop <=> loops[j] = NoLoop
        /\ Ticking(j)' => Ticking(j) /\ loops[j].late
    BY LateLoopsGoOn DEF Ticking
  <2>3. Ticking(j)' => ~Here(loops[j].mount)'
    <3>1. loops[j] # NoLoop => loops[j].mount <= mount /\ loops[j].mount \in Nat
      BY <2>1 DEF LoopFits, Loop, Mounts
    <3>2. Ticking(j)' => loops'[j] # NoLoop
      BY DEF Ticking, NoLoop
    <3> QED
      BY <1>1, <1>2, <2>2, <3>1, <3>2 DEF Here
  <2> QED
    BY <1>1, <2>1, <2>2, <2>3 DEF LoopFits, Loop, Mounts
<1>6. PollsFit'
  BY LateLoopsGoOn DEF IInv, TypeOK, PollsFit
<1> QED
  BY <1>3, <1>4, <1>5, <1>6, DashboardFollows DEF IInv

-----------------------------------------------------------------------------
(* One lemma per group of actions *)

LEMMA NavigationKeeps ==
  ASSUME IInv,
         \/ \E p \in Pages : handleSidebarNavigate(p)
         \/ \E j \in Jobs \cup {Sample} : handleOpenSampleReport(j)
         \/ \E j \in Jobs : OpenReport(j)
  PROVE  IInv'
<1>1. ASSUME NEW p \in Pages, handleSidebarNavigate(p) PROVE IInv'
  <2>1. Shape(selected) /\ timers' \in [Jobs -> Nat] /\ p # page
    BY <1>1 DEF handleSidebarNavigate, Links, IInv, TypeOK, Pages
  <2> QED
    BY <1>1, <2>1, ShowKeeps DEF handleSidebarNavigate
<1>2. ASSUME NEW j \in Jobs \cup {Sample}, handleOpenSampleReport(j) PROVE IInv'
  <2>1. /\ Shape([job |-> j, full |-> FALSE]) /\ timers' \in [Jobs -> Nat]
        /\ "dashboard" \in Pages /\ "dashboard" # "upload"
    BY <1>2 DEF handleOpenSampleReport, Shape, IInv, TypeOK, Pages
  <2> QED
    BY <1>2, <2>1, ShowKeeps DEF handleOpenSampleReport
<1>3. ASSUME NEW j \in Jobs, OpenReport(j) PROVE IInv'
  <2>1. /\ Shape([job |-> j, full |-> TRUE]) /\ timers' \in [Jobs -> Nat]
        /\ "dashboard" \in Pages /\ "dashboard" # "upload"
    BY <1>3 DEF OpenReport, Shape, IInv, TypeOK, Pages
  <2> QED
    BY <1>3, <2>1, ShowKeeps DEF OpenReport
<1> QED
  BY <1>1, <1>2, <1>3

(* What changes none of the state that IInv relates. *)
LEMMA FrameKeeps ==
  ASSUME IInv, TypeOK',
         UNCHANGED <<page, selected, mount, pollingRef, loops, dash>>,
         uploading' \subseteq uploading,
         detonation # Null => detonation' # Null,
         \A j \in Jobs : server[j] # "none" => server'[j] # "none",
         \A p \in polls' : loops[p.job] # NoLoop
  PROVE  IInv'
<1>1. LoopsFit'
  BY DEF IInv, LoopsFit, LoopFits, Ticking, Here
<1>2. NoInvisiblePolling'
  BY DEF IInv, NoInvisiblePolling, Ticking, Here
<1>3. PollsFit' /\ DashFits'
  BY DEF IInv, PollsFit, DashFits, dash
<1> QED
  BY <1>1, <1>2, <1>3 DEF IInv

LEMMA FaultTyped == ASSUME TypeOK, Fault PROVE faults' \in 0 .. MaxFaults
  BY DEF TypeOK, Fault

LEMMA LoadRecentKeeps == ASSUME IInv, LoadRecent PROVE IInv'
<1>1. faults' \in 0 .. MaxFaults /\ (recent' = Known \/ recent' = recent) /\ listing' = FALSE
  BY FaultTyped DEF LoadRecent, IInv, TypeOK
<1>2. TypeOK'
  BY <1>1 DEF LoadRecent, IInv, TypeOK, app, polling, dash, Known
<1> QED
  BY <1>2, FrameKeeps DEF LoadRecent, app, polling, dash, IInv, PollsFit

LEMMA StartKeeps == ASSUME IInv, handleStartDetonation PROVE IInv'
<1>1. mount \in Mounts /\ uploading' = uploading \cup {mount}
  BY DEF handleStartDetonation, IInv, TypeOK, Mounts
<1>2. TypeOK'
  BY <1>1 DEF handleStartDetonation, IInv, TypeOK, app, polling, dash, Mounts
<1>3. \A j \in Jobs : Ticking(j) => loops[j].mount # mount
  BY DEF handleStartDetonation, IInv, NoInvisiblePolling, LoopsFit, LoopFits, Here
<1>4. LoopsFit'
  BY <1>1, <1>3 DEF handleStartDetonation, IInv, LoopsFit, LoopFits, Ticking, Here, app, polling
<1>5. NoInvisiblePolling'
  BY DEF handleStartDetonation, IInv, NoInvisiblePolling, Ticking, Here, app, polling
<1>6. PollsFit' /\ DashFits' /\ (page' = "upload" => mount' # 0)
  BY DEF handleStartDetonation, IInv, PollsFit, DashFits, app, polling, dash
<1> QED
  BY <1>2, <1>4, <1>5, <1>6 DEF IInv

LEMMA AcceptedKeeps == ASSUME IInv, NEW m \in Mounts, SampleAccepted(m) PROVE IInv'
<1>1. PICK j \in Jobs :
        /\ server[j] = "none"
        /\ server' = [server EXCEPT ![j] = "pending"]
        /\ loops' = [loops EXCEPT ![j] = [mount |-> m, end |-> "ticking", late |-> ~Here(m)]]
        /\ pollingRef' = [pollingRef EXCEPT ![m] = j]
        /\ detonation' = IF Here(m) THEN [job |-> j] ELSE detonation
  BY DEF SampleAccepted
<1>2. m \in uploading /\ uploading' = uploading \ {m} /\ m <= mount /\ mount \in 0 .. MaxMounts
  BY DEF SampleAccepted, IInv, TypeOK
<1>3. UNCHANGED <<page, selected, mount, feedback, recent, listing, polls, timers, loadedJob, fetches, overtaken, faults>>
  BY DEF SampleAccepted, app, dash
<1> DEFINE new == [mount |-> m, end |-> "ticking", late |-> ~Here(m)]
<1>4. new \in Loop /\ new # NoLoop
  BY DEF Loop, NoLoop, Ends, Here
<1>5. /\ loops \in [Jobs -> {NoLoop} \cup Loop] /\ pollingRef \in [Mounts -> Jobs \cup {Null}]
      /\ server \in [Jobs -> Statuses \cup {"none"}]
  BY DEF IInv, TypeOK, Loop
<1>6. TypeOK'
  <2>1. /\ loops' \in [Jobs -> {NoLoop} \cup Loop] /\ pollingRef' \in [Mounts -> Jobs \cup {Null}]
        /\ server' \in [Jobs -> Statuses \cup {"none"}]
    BY <1>1, <1>4, <1>5 DEF Statuses
  <2>2. detonation' = Null \/ detonation' \in [job : Jobs \cup {Null}]
    BY <1>1 DEF IInv, TypeOK
  <2>3. page # "upload" => detonation' = Null
    BY <1>1 DEF IInv, TypeOK, Here
  <2> QED
    BY <1>2, <1>3, <2>1, <2>2, <2>3 DEF IInv, TypeOK, Loop
<1>7. LoopsFit' /\ NoInvisiblePolling'
  <2> SUFFICES ASSUME NEW i \in Jobs
               PROVE  /\ LoopFits(i)'
                      /\ Ticking(i)' => /\ pollingRef'[loops'[i].mount] = i
                                        /\ loops'[i].late \/ (Here(loops'[i].mount) /\ detonation' # Null)
    BY <1>3 DEF LoopsFit, NoInvisiblePolling, Here
  <2>1. CASE i = j
    <3>1. loops'[i] = new /\ pollingRef'[m] = i /\ server'[i] = "pending"
      BY <1>1, <1>5, <2>1
    <3>2. Here(m) => detonation' # Null
      BY <1>1
    <3>3. loops'[i].mount = m /\ (loops'[i].late <=> ~Here(m))
      <4>1. CASE Here(m)
        <5>1. new = [mount |-> m, end |-> "ticking", late |-> FALSE]
          BY <4>1, Zenon
        <5> QED
          BY <3>1, <4>1, <5>1
      <4>2. CASE ~Here(m)
        <5>1. new = [mount |-> m, end |-> "ticking", late |-> TRUE]
          BY <4>2, Zenon
        <5> QED
          BY <3>1, <4>2, <5>1
      <4> QED
        BY <4>1, <4>2
    <3> HIDE DEF new
    <3>4. LoopFits(i)'
      BY <1>2, <1>3, <1>4, <3>1, <3>3 DEF LoopFits, Here
    <3> QED
      BY <3>1, <3>2, <3>3, <3>4
  <2>2. CASE i # j
    <3>1. loops'[i] = loops[i] /\ server'[i] = server[i]
      BY <1>1, <1>5, <2>2
    <3>2. /\ LoopFits(i)
          /\ Ticking(i) => /\ pollingRef[loops[i].mount] = i
                           /\ loops[i].late \/ (Here(loops[i].mount) /\ detonation # Null)
      BY DEF IInv, LoopsFit, NoInvisiblePolling
    <3>3. Ticking(i) => loops[i].mount # m /\ loops[i].mount \in Mounts
      BY <1>2, <1>5, <3>2 DEF LoopFits, Ticking, NoLoop, Loop
    <3>4. Ticking(i) => pollingRef'[loops[i].mount] = i
      BY <1>1, <1>5, <3>2, <3>3
    <3>5. detonation # Null => detonation' # Null
      BY <1>1
    <3> QED
      BY <1>2, <1>3, <3>1, <3>2, <3>4, <3>5 DEF LoopFits, Ticking, Here
  <2> QED
    BY <2>1, <2>2
<1>8. PollsFit'
  BY <1>1, <1>3, <1>4, <1>5 DEF IInv, TypeOK, PollsFit
<1>9. DashFits' /\ (page' = "upload" => mount' # 0)
  BY <1>3 DEF IInv, DashFits
<1> QED
  BY <1>6, <1>7, <1>8, <1>9 DEF IInv

LEMMA RefusedKeeps == ASSUME IInv, NEW m \in Mounts, SampleRefused(m) PROVE IInv'
<1>1. /\ faults' \in 0 .. MaxFaults /\ uploading' = uploading \ {m}
      /\ feedback' = feedback \/ (page = "upload" /\ feedback' \in {Null, Failure} \cup {Exists(j) : j \in Jobs})
  BY FaultTyped DEF SampleRefused, IInv, TypeOK, Here, Known
<1>2. TypeOK'
  BY <1>1 DEF SampleRefused, IInv, TypeOK, app, polling, dash
<1> QED
  BY <1>1, <1>2, FrameKeeps DEF SampleRefused, app, polling, dash, IInv, PollsFit

LEMMA CancelKeeps == ASSUME IInv, handleCancelDetonation PROVE IInv'
<1>1. /\ page = "upload" /\ mount \in Mounts
      /\ loops' = ClearInterval(mount, "cancelled") /\ detonation' = Null
      /\ UNCHANGED <<server, page, selected, mount, feedback, recent, listing, uploading,
                     pollingRef, polls, timers, loadedJob, fetches, overtaken, faults>>
  BY DEF handleCancelDetonation, IInv, TypeOK, Mounts, app, dash
<1>2. "cancelled" \in Ends \ {"ticking"}
  BY DEF Ends
<1>3. ASSUME NEW j \in Jobs
      PROVE  /\ loops' \in [Jobs -> {NoLoop} \cup Loop]
             /\ loops'[j].mount = loops[j].mount /\ loops'[j].late = loops[j].late
             /\ loops'[j] = NoLoop <=> loops[j] = NoLoop
             /\ loops'[j].end = "ticking" => Ticking(j) /\ loops[j].mount # mount
  BY <1>1, <1>2, Cleared
<1>4. TypeOK'
  <2>1. CASE Jobs = {}
    BY <1>1, <2>1 DEF IInv, TypeOK, ClearInterval
  <2>2. CASE Jobs # {}
    BY <1>1, <1>3, <2>2 DEF IInv, TypeOK, Loop
  <2> QED
    BY <2>1, <2>2
<1>5. LoopsFit' /\ NoInvisiblePolling'
  BY <1>1, <1>3 DEF IInv, LoopsFit, LoopFits, NoInvisiblePolling, Ticking, Here, Loop
<1>6. PollsFit' /\ DashFits' /\ (page' = "upload" => mount' # 0)
  BY <1>1, <1>3 DEF IInv, TypeOK, PollsFit, DashFits
<1> QED
  BY <1>4, <1>5, <1>6 DEF IInv

-----------------------------------------------------------------------------
(* Polls *)

LEMMA TickKeeps == ASSUME IInv, NEW j \in Jobs, NEW n \in Slots, Tick(j, n) PROVE IInv'
<1>1. /\ polls' = polls \cup {Poll(j, n, "sent")} /\ loops[j] # NoLoop
      /\ Poll(j, n, "sent") \in [job : Jobs, slot : Slots, answer : Statuses \cup {"sent"}]
      /\ Poll(j, n, "sent").job = j
  BY DEF Tick, Ticking, NoLoop, Poll
<1>2. TypeOK'
  BY <1>1 DEF Tick, IInv, TypeOK, app, upload, dash
<1> QED
  BY <1>1, <1>2, FrameKeeps DEF Tick, app, upload, dash, IInv, PollsFit

LEMMA ServeKeeps == ASSUME IInv, NEW j \in Jobs, NEW n \in Slots, Serve(j, n) PROVE IInv'
<1>1. polls' = (polls \ {Poll(j, n, "sent")}) \cup {Poll(j, n, server[j])} /\ Poll(j, n, "sent") \in polls
  BY DEF Serve
<1>2. Poll(j, n, "sent").job = j /\ Poll(j, n, server[j]).job = j
  BY DEF Poll
<1>3. loops[j] # NoLoop
  BY <1>1, <1>2 DEF IInv, PollsFit
<1>4. server[j] \in Statuses
  BY <1>3 DEF IInv, TypeOK, LoopsFit, LoopFits
<1>5. Poll(j, n, server[j]) \in [job : Jobs, slot : Slots, answer : Statuses \cup {"sent"}]
  BY <1>4 DEF Poll
<1>6. TypeOK'
  BY <1>1, <1>5 DEF Serve, IInv, TypeOK, app, upload, dash
<1> QED
  BY <1>1, <1>2, <1>3, <1>6, FrameKeeps DEF Serve, app, upload, dash, IInv, PollsFit

LEMMA PollFailsKeeps == ASSUME IInv, NEW j \in Jobs, NEW n \in Slots, PollFails(j, n) PROVE IInv'
<1>1. polls' \subseteq polls /\ faults' \in 0 .. MaxFaults
  BY FaultTyped DEF PollFails, IInv
<1>2. TypeOK'
  BY <1>1 DEF PollFails, IInv, TypeOK, app, upload, dash
<1> QED
  BY <1>1, <1>2, FrameKeeps DEF PollFails, app, upload, dash, IInv, PollsFit

(* The job of a poll that is delivered has a loop in some visit. *)
LEMMA DeliveredFits ==
  ASSUME IInv, NEW j \in Jobs, NEW n, NEW a, Delivered(j, n, a)
  PROVE  polls' \subseteq polls /\ loops[j] \in Loop /\ loops[j].mount \in Mounts
<1>1. Poll(j, n, a) \in polls /\ polls' \subseteq polls /\ Poll(j, n, a).job = j
  BY DEF Delivered, Poll
<1>2. loops[j] # NoLoop
  BY <1>1 DEF IInv, PollsFit
<1> QED
  BY <1>1, <1>2 DEF IInv, TypeOK, Loop

(* The overlay a poll's answer may show again keeps the types, and is not   *)
(* taken away by it.                                                        *)
LEMMA StepShown ==
  ASSUME IInv, NEW j \in Jobs, ShowStep(j)
  PROVE  /\ detonation' = Null \/ detonation' \in [job : Jobs \cup {Null}]
         /\ page # "upload" => detonation' = Null
         /\ detonation # Null => detonation' # Null
  BY DEF ShowStep, Here, IInv, TypeOK

(* An answer that ends a loop of a visit leaves no loop of that visit, as   *)
(* it clears what pollingRef names.                                         *)
LEMMA EndKeeps ==
  ASSUME IInv, NEW j \in Jobs, NEW e \in {"completed", "failed"},
         loops[j].mount \in Mounts, loops' = EndedBy(j, e), polls' \subseteq polls,
         UNCHANGED <<server, page, selected, mount, recent, listing, uploading, pollingRef,
                     loadedJob, fetches, overtaken, faults>>,
         timers' \in [Jobs -> Nat],
         feedback' = feedback \/ (page = "upload" /\ feedback' = Failure),
         detonation' = Null \/ detonation' \in [job : Jobs \cup {Null}],
         page # "upload" => detonation' = Null,
         detonation # Null => detonation' # Null \/ Here(loops[j].mount)
  PROVE  IInv'
<1> DEFINE m == loops[j].mount
           reason == IF pollingRef[m] = j THEN e ELSE "stolen"
<1>1. loops' = ClearInterval(m, reason) /\ reason \in Ends \ {"ticking"}
  BY DEF EndedBy, Ends
<1>2. ASSUME NEW i \in Jobs
      PROVE  /\ loops' \in [Jobs -> {NoLoop} \cup Loop]
             /\ loops'[i].mount = loops[i].mount /\ loops'[i].late = loops[i].late
             /\ loops'[i] = NoLoop <=> loops[i] = NoLoop
             /\ loops'[i].end = "ticking" => Ticking(i) /\ loops[i].mount # m
  BY <1>1, Cleared
<1>3. TypeOK'
  BY <1>2 DEF IInv, TypeOK, Loop
<1>4. LoopsFit'
  BY <1>2 DEF IInv, LoopsFit, LoopFits, Ticking, Here
<1>5. NoInvisiblePolling'
  BY <1>2 DEF IInv, NoInvisiblePolling, Ticking, Here
<1>6. PollsFit' /\ DashFits' /\ (page' = "upload" => mount' # 0)
  BY <1>2 DEF IInv, TypeOK, PollsFit, DashFits
<1> QED
  BY <1>3, <1>4, <1>5, <1>6 DEF IInv

LEMMA ArrivalKeeps == ASSUME IInv, NEW j \in Jobs, NEW n \in Slots, Arrives(j, n) PROVE IInv'
<1>1. CASE PendingArrives(j, n)
  <2>1. polls' \subseteq polls
    BY <1>1, DeliveredFits DEF PendingArrives
  <2>2. TypeOK'
    BY <1>1, <2>1 DEF PendingArrives, IInv, TypeOK, app, upload, dash
  <2> QED
    BY <1>1, <2>1, <2>2, FrameKeeps DEF PendingArrives, app, upload, dash, IInv, PollsFit
<1>2. CASE RunningArrives(j, n)
  <2>1. polls' \subseteq polls /\ ShowStep(j)
    BY <1>2, DeliveredFits DEF RunningArrives
  <2>2. TypeOK'
    BY <1>2, <2>1, StepShown DEF RunningArrives, IInv, TypeOK, app, dash
  <2> QED
    BY <1>2, <2>1, <2>2, StepShown, FrameKeeps DEF RunningArrives, app, dash, IInv, PollsFit
<1>3. CASE CompletedArrives(j, n)
  <2>1. polls' \subseteq polls /\ ShowStep(j) /\ loops[j].mount \in Mounts /\ loops' = EndedBy(j, "completed")
    BY <1>3, DeliveredFits DEF CompletedArrives
  <2>2. timers' \in [Jobs -> Nat]
    BY <1>3 DEF CompletedArrives, IInv, TypeOK
  <2> QED
    BY <1>3, <2>1, <2>2, StepShown, EndKeeps DEF CompletedArrives, app, dash
<1>4. CASE FailedArrives(j, n)
  <2>1. polls' \subseteq polls /\ loops[j].mount \in Mounts /\ loops' = EndedBy(j, "failed")
    BY <1>4, DeliveredFits DEF FailedArrives
  <2>2. /\ feedback' = feedback \/ (page = "upload" /\ feedback' = Failure)
        /\ detonation' = detonation \/ (Here(loops[j].mount) /\ detonation' = Null)
    BY <1>4 DEF FailedArrives, Here
  <2>3. /\ detonation' = Null \/ detonation' \in [job : Jobs \cup {Null}]
        /\ page # "upload" => detonation' = Null
        /\ timers' \in [Jobs -> Nat]
    BY <1>4, <2>2 DEF FailedArrives, IInv, TypeOK
  <2> QED
    BY <1>4, <2>1, <2>2, <2>3, EndKeeps DEF FailedArrives, app, dash
<1> QED
  BY <1>1, <1>2, <1>3, <1>4 DEF Arrives

-----------------------------------------------------------------------------
(* Dashboard and service *)

LEMMA FetchKeeps ==
  ASSUME IInv, NEW j \in Jobs \cup {Sample}, FetchArrives(j) \/ FetchFails(j)
  PROVE  IInv'
<1>1. /\ j \in fetches /\ fetches' = fetches \ {j}
      /\ UNCHANGED <<server, page, selected, mount, detonation, feedback, recent, listing, uploading,
                     pollingRef, loops, polls, timers, overtaken>>
      /\ loadedJob' = loadedJob \/ \E full \in BOOLEAN : loadedJob' = [job |-> j, full |-> full]
  BY DEF FetchArrives, FetchFails, app, upload, polling
<1>2. faults' \in 0 .. MaxFaults
  BY FaultTyped DEF FetchArrives, FetchFails, IInv, TypeOK
<1>3. Shape(loadedJob') /\ (loadedJob' = loadedJob \/ loadedJob'.job = j)
  BY <1>1 DEF Shape, IInv, TypeOK
<1>4. TypeOK'
  BY <1>1, <1>2, <1>3 DEF IInv, TypeOK
<1>5. DashFits'
  <2>1. page = "dashboard"
    BY <1>1 DEF IInv, DashFits
  <2> QED
    BY <1>1, <1>3, <2>1 DEF IInv, DashFits
<1>6. LoopsFit' /\ NoInvisiblePolling' /\ PollsFit'
  BY <1>1 DEF IInv, LoopsFit, LoopFits, NoInvisiblePolling, PollsFit, Ticking, Here
<1> QED
  BY <1>1, <1>4, <1>5, <1>6 DEF IInv

LEMMA ServiceKeeps == ASSUME IInv, NEW j \in Jobs, Progress(j) \/ Requeue(j) PROVE IInv'
<1>1. PICK s \in Statuses : server' = [server EXCEPT ![j] = s] /\ server[j] # "none"
  BY DEF Progress, Requeue, Statuses, Settled, ValidTransition
<1>2. faults' \in 0 .. MaxFaults
  BY FaultTyped DEF Progress, Requeue, IInv, TypeOK
<1>3. /\ server' \in [Jobs -> Statuses \cup {"none"}]
      /\ \A i \in Jobs : server[i] # "none" => server'[i] # "none"
  BY <1>1 DEF IInv, TypeOK, Statuses, Settled
<1>4. TypeOK'
  BY <1>2, <1>3 DEF Progress, Requeue, IInv, TypeOK, app, upload, polling, dash
<1> QED
  BY <1>3, <1>4, FrameKeeps DEF Progress, Requeue, app, upload, polling, dash, IInv, PollsFit

-----------------------------------------------------------------------------

LEMMA Begins == Init => IInv
<1> SUFFICES ASSUME Init PROVE IInv
  OBVIOUS
<1>1. TypeOK
  <2>1. /\ server \in [Jobs -> Statuses \cup {"none"}]
        /\ page \in Pages /\ Shape(selected) /\ Shape(loadedJob)
        /\ timers \in [Jobs -> Nat] /\ fetches \subseteq Jobs \cup {Sample}
    BY DEF Init, Pages, Shape
  <2>2. mount \in 0 .. MaxMounts /\ faults \in 0 .. MaxFaults /\ uploading \subseteq 1 .. mount
    BY DEF Init
  <2>3. /\ pollingRef \in [Mounts -> Jobs \cup {Null}]
        /\ loops \in [Jobs -> {NoLoop} \cup [mount : Mounts, end : Ends, late : BOOLEAN]]
    BY DEF Init
  <2>4. /\ detonation = Null \/ detonation \in [job : Jobs \cup {Null}]
        /\ feedback \in {Null, Failure} \cup {Exists(j) : j \in Jobs}
        /\ recent = Null \/ recent \subseteq Jobs
        /\ listing \in BOOLEAN /\ overtaken \in BOOLEAN
        /\ page # "upload" => detonation = Null /\ feedback = Null /\ recent = Null /\ ~listing
        /\ \A p \in polls : p \in [job : Jobs, slot : Slots, answer : Statuses \cup {"sent"}]
    BY DEF Init
  <2> QED
    BY <2>1, <2>2, <2>3, <2>4 DEF TypeOK
<1>2. LoopsFit /\ NoInvisiblePolling /\ PollsFit /\ DashFits
  BY DEF Init, LoopsFit, LoopFits, NoInvisiblePolling, PollsFit, DashFits, Ticking, NoLoop
<1> QED
  BY <1>1, <1>2 DEF Init, IInv

LEMMA Step == IInv /\ [Next]_vars => IInv'
<1> SUFFICES ASSUME IInv, [Next]_vars PROVE IInv'
  OBVIOUS
<1>1. CASE Next
  BY <1>1, NavigationKeeps, LoadRecentKeeps, StartKeeps, CancelKeeps, AcceptedKeeps, RefusedKeeps,
     TickKeeps, ServeKeeps, PollFailsKeeps, ArrivalKeeps, FetchKeeps, ServiceKeeps DEF Next, Polling
<1>2. CASE UNCHANGED vars
  <2>1. UNCHANGED <<server, page, selected, mount, detonation, feedback, recent, listing, uploading,
                    pollingRef, loops, polls, timers, dash, faults>>
    BY <1>2 DEF vars, app, upload, polling
  <2>2. TypeOK'
    BY <2>1 DEF IInv, TypeOK, dash
  <2> QED
    BY <2>1, <2>2, FrameKeeps DEF IInv, PollsFit
<1> QED
  BY <1>1, <1>2

(* The inductive invariant holds in every state of the web client, whose     *)
(* parts say where intervals, poll answers and fetches may still exist.      *)
THEOREM Invariant == Spec => []IInv
  BY Begins, Step, PTL DEF Spec

(* The state keeps its types, and a page that is not mounted has no state   *)
(* (App.jsx, Upload.jsx, Dashboard.jsx).                                    *)
THEOREM WebTypeCorrect == Spec => []TypeOK
<1>1. IInv => TypeOK
  BY DEF IInv
<1> QED
  BY <1>1, Invariant, PTL

(* However uploads, cancels, page changes and overlapping answers           *)
(* interleave, an interval runs only under its visit's overlay, or began    *)
(* after the page was left (Upload.jsx:83-87, 196, 252).                    *)
THEOREM PollingIsVisible == Spec => []NoInvisiblePolling
<1>1. IInv => NoInvisiblePolling
  BY DEF IInv
<1> QED
  BY <1>1, Invariant, PTL

(* Whatever fetches of earlier visits are under way, the dashboard shows    *)
(* the selected job until a timer replaces the selection under it           *)
(* (Dashboard.jsx:18-33, Upload.jsx:217).                                   *)
THEOREM SelectionIsShown == Spec => []DashboardShowsSelection
<1>1. IInv => DashboardShowsSelection
  BY DEF IInv, DashFits, DashboardShowsSelection, Shown
<1> QED
  BY <1>1, Invariant, PTL
=============================================================================
