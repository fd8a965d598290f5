-------------------------- MODULE DemoEngineProofs --------------------------
(***************************************************************************)
(* The safety of the demo engine, for any number of tabs, profiles, uploads *)
(* and faults and any cap: the shape of what localStorage holds, a list     *)
(* that agrees with the reports, and resets that last.                      *)
(***************************************************************************)
EXTENDS DemoEngine, SequenceTheorems, TLAPS

USE ProfilesAssumption DEF JobIds

(* A score stands in the list only for a bundled profile, or for a job that *)
(* no tab simulates any more; and no listed job was forgotten.              *)
HeaderFits(h) ==
  /\ h \in Header
  /\ h.id \in Bundled => h.score = getDemoJobDetailsById(h.id).score
  /\ h.id \in JobIds =>
       /\ h.id \in 1 .. uploads /\ h.id \notin forgotten
       /\ h.score # Null => h.score = buildSimulatedReport /\ \A t \in Tabs : h.id \notin Active(t)

ListFits(list) == /\ list \in Seq(Header) /\ Len(list) \in 1 .. MAX_PERSISTED_JOBS
                  /\ \A i \in DOMAIN list : HeaderFits(list[i])

(* A forgotten job goes on only where it was simulated in another tab. *)
ForgottenFits == /\ forgotten \subseteq 1 .. uploads
                 /\ (ToSet(reports) \cup UNION {Active(t) : t \in Tabs}) \cap forgotten \subseteq elsewhere

IInv == /\ TypeOK /\ DOMAIN sims = Tabs
        /\ jobs # Null => ListFits(jobs)
        /\ ForgottenFits

-----------------------------------------------------------------------------
(* The list *)

LEMMA Heads ==
  ASSUME NEW h \in Header
  PROVE  /\ h.id \in JobIds \cup Bundled /\ h.status \in {"pending", "running", "completed"}
         /\ h.score \in {DEMO_PROFILES[i].score : i \in DOMAIN DEMO_PROFILES} \cup {Null}
  BY DEF Header

LEMMA InitialFits == ASSUME NEW i \in DOMAIN DEMO_PROFILES PROVE HeaderFits(getInitialDemoJobs[i])
<1> DEFINE h == getInitialDemoJobs[i]
<1>1. h = [id |-> DEMO_PROFILES[i].id, status |-> "completed", score |-> DEMO_PROFILES[i].score]
  BY DEF getInitialDemoJobs
<1>2. h \in Header /\ h.id \in Bundled /\ h.id \notin JobIds
  BY <1>1 DEF Header, Bundled
<1>3. (CHOOSE j \in DOMAIN DEMO_PROFILES : DEMO_PROFILES[j].id = h.id) = i
  BY <1>1
<1>4. h.score = getDemoJobDetailsById(h.id).score
  BY <1>1, <1>3 DEF getDemoJobDetailsById, Answer
<1> QED
  BY <1>2, <1>4 DEF HeaderFits

(* Reading the list keeps what every header says but its status. *)
LEMMA StoredFits == ASSUME IInv PROVE ListFits(getStoredDemoJobs)
<1>1. CASE jobs = Null
  <2>1. getStoredDemoJobs = getInitialDemoJobs /\ DOMAIN getInitialDemoJobs = 1 .. Len(DEMO_PROFILES)
    BY <1>1 DEF getStoredDemoJobs, getInitialDemoJobs
  <2>2. \A i \in 1 .. Len(DEMO_PROFILES) : HeaderFits(getInitialDemoJobs[i])
    BY InitialFits
  <2>3. getInitialDemoJobs \in [1 .. Len(DEMO_PROFILES) -> Header]
    BY <2>2 DEF HeaderFits, getInitialDemoJobs
  <2>4. getInitialDemoJobs \in Seq(Header) /\ Len(getInitialDemoJobs) = Len(DEMO_PROFILES)
    BY <2>3
  <2> QED
    BY <2>1, <2>2, <2>4 DEF ListFits
<1>2. CASE jobs # Null
  <2> DEFINE list == getStoredDemoJobs
  <2>1. jobs \in Seq(Header) /\ Len(jobs) \in 1 .. MAX_PERSISTED_JOBS /\ DOMAIN jobs = 1 .. Len(jobs)
    BY <1>2 DEF IInv, ListFits
  <2>2. /\ DOMAIN list = 1 .. Len(jobs)
        /\ \A i \in 1 .. Len(jobs) :
             list[i] = IF jobs[i].status \in {"pending", "running"}
                       THEN [jobs[i] EXCEPT !.status = "completed"] ELSE jobs[i]
    BY <1>2, <2>1 DEF getStoredDemoJobs
  <2>3. ASSUME NEW i \in 1 .. Len(jobs) PROVE HeaderFits(list[i])
    <3>1. jobs[i] \in Header /\ HeaderFits(jobs[i])
      BY <1>2, <2>1 DEF IInv, ListFits
    <3>2. list[i] \in Header /\ list[i].id = jobs[i].id /\ list[i].score = jobs[i].score
      BY <2>2, <3>1 DEF Header
    <3> QED
      BY <3>1, <3>2 DEF HeaderFits
  <2>4. list \in [1 .. Len(jobs) -> Header]
    BY <1>2, <2>1, <2>2, <2>3 DEF HeaderFits, getStoredDemoJobs
  <2>5. list \in Seq(Header) /\ Len(list) = Len(jobs)
    BY <2>1, <2>4
  <2> QED
    BY <2>1, <2>2, <2>3, <2>5 DEF ListFits
<1> QED
  BY <1>1, <1>2

(* What persistDemoJobs leaves is the old item, or a beginning of the list. *)
LEMMA Persisted ==
  ASSUME NEW list \in Seq(Header), Len(list) >= 1, NEW written \in BOOLEAN, persistDemoJobs(list, written)
  PROVE  \/ jobs' = jobs
         \/ /\ jobs' \in Seq(Header) /\ Len(jobs') \in 1 .. MAX_PERSISTED_JOBS
            /\ \A i \in DOMAIN jobs' : i \in DOMAIN list /\ jobs'[i] = list[i]
<1> DEFINE n == IF Len(list) < MAX_PERSISTED_JOBS THEN Len(list) ELSE MAX_PERSISTED_JOBS
<1>1. n \in 1 .. Len(list) /\ n \in 1 .. MAX_PERSISTED_JOBS
  OBVIOUS
<1>2. SubSeq(list, 1, n) \in Seq(Header) /\ Len(SubSeq(list, 1, n)) = n
      /\ \A i \in 1 .. n : SubSeq(list, 1, n)[i] = list[i]
  BY <1>1, SubSeqProperties
<1>3. jobs' = IF written THEN SubSeq(list, 1, n) ELSE jobs
  BY DEF persistDemoJobs
<1> QED
  BY <1>1, <1>2, <1>3

(* A list that fits the next state is stored so that the next state fits. *)
LEMMA PersistKeeps ==
  ASSUME IInv, NEW list \in Seq(Header), Len(list) >= 1, NEW written \in BOOLEAN,
         persistDemoJobs(list, written),
         \A i \in DOMAIN list : HeaderFits(list[i])',
         \A h \in Header : HeaderFits(h) => HeaderFits(h)'
  PROVE  jobs' # Null => ListFits(jobs)'
<1> SUFFICES ASSUME jobs' # Null PROVE ListFits(jobs)'
  OBVIOUS
<1>1. CASE jobs' = jobs
  <2>1. jobs \in Seq(Header) /\ \A i \in DOMAIN jobs : jobs[i] \in Header /\ HeaderFits(jobs[i])
    BY <1>1 DEF IInv, ListFits
  <2>2. \A i \in DOMAIN jobs' : HeaderFits(jobs[i])'
    BY <1>1, <2>1 DEF HeaderFits
  <2> QED
    BY <1>1, <2>1, <2>2 DEF IInv, ListFits
<1>2. CASE /\ jobs' \in Seq(Header) /\ Len(jobs') \in 1 .. MAX_PERSISTED_JOBS
           /\ \A i \in DOMAIN jobs' : i \in DOMAIN list /\ jobs'[i] = list[i]
  <2>1. \A i \in DOMAIN jobs' : HeaderFits(jobs[i])'
    BY <1>2 DEF HeaderFits
  <2> QED
    BY <1>2, <2>1 DEF ListFits
<1> QED
  BY <1>1, <1>2, Persisted

(* A header goes on fitting when no simulation begins and nothing is forgotten. *)
LEMMA HeaderKept ==
  ASSUME uploads' = uploads, forgotten' = forgotten,
         \A u \in Tabs : Active(u)' \subseteq Active(u),
         NEW h \in Header, HeaderFits(h)
  PROVE  HeaderFits(h)'
  BY DEF HeaderFits

(* A timer changes the header of its job only, and gives it a score only as *)
(* the simulation ends.                                                     *)
LEMMA UpdateKeeps ==
  ASSUME IInv, NEW id \in JobIds, NEW n \in 1 .. 5, NEW written \in BOOLEAN,
         UpdateStored(id, n, written),
         uploads' = uploads, forgotten' = forgotten,
         \A u \in Tabs : Active(u)' \subseteq Active(u),
         n = 5 => \A u \in Tabs : id \notin Active(u)'
  PROVE  jobs' # Null => ListFits(jobs)'
<1>1. PICK stored : stored = getStoredDemoJobs
  OBVIOUS
<1>2. ListFits(stored) /\ DOMAIN stored = 1 .. Len(stored)
  BY <1>1, StoredFits DEF ListFits
<1>3. \A h \in Header : HeaderFits(h) => HeaderFits(h)'
  BY HeaderKept
<1>4. CASE id \in Ids(stored)
  <2>1. PICK list : list = [i \in DOMAIN stored |-> IF stored[i].id = id THEN Updated(stored[i], n) ELSE stored[i]]
    OBVIOUS
  <2>2. ASSUME NEW i \in DOMAIN stored PROVE list[i] \in Header /\ HeaderFits(list[i])'
    <3>1. stored[i] \in Header /\ HeaderFits(stored[i])
      BY <1>2 DEF ListFits
    <3>2. CASE stored[i].id # id
      BY <1>3, <2>1, <3>1, <3>2
    <3>3. CASE stored[i].id = id
      <4>1. list[i] = [stored[i] EXCEPT !.status = StageStatus(n),
                          !.score = IF StageStatus(n) = "completed" THEN buildSimulatedReport ELSE stored[i].score]
        BY <2>1, <3>3 DEF Updated
      <4>2. StageStatus(n) \in {"pending", "running", "completed"} /\ (StageStatus(n) = "completed" => n = 5)
        BY DEF StageStatus
      <4>3. buildSimulatedReport \in {DEMO_PROFILES[j].score : j \in DOMAIN DEMO_PROFILES}
        BY DEF buildSimulatedReport
      <4>4. /\ list[i] \in Header /\ list[i].id = id
            /\ list[i].score = IF StageStatus(n) = "completed" THEN buildSimulatedReport ELSE stored[i].score
        <5>1. PICK score : score = IF StageStatus(n) = "completed" THEN buildSimulatedReport ELSE stored[i].score
          OBVIOUS
        <5>2. score \in {DEMO_PROFILES[j].score : j \in DOMAIN DEMO_PROFILES} \cup {Null}
          BY <3>1, <4>3, <5>1 DEF Header
        <5>3. list[i] = [stored[i] EXCEPT !.status = StageStatus(n), !.score = score]
          BY <4>1, <5>1
        <5>4. list[i] \in Header /\ list[i].id = stored[i].id /\ list[i].score = score
          <6>1. PICK old : old = stored[i]
            OBVIOUS
          <6>2. /\ old = [id |-> old.id, status |-> old.status, score |-> old.score]
                /\ old.id \in JobIds \cup Bundled
            BY <3>1, <6>1 DEF Header
          <6>3. list[i] = [id |-> old.id, status |-> StageStatus(n), score |-> score]
            BY <5>3, <6>1, <6>2
          <6> QED
            BY <4>2, <5>2, <6>1, <6>2, <6>3 DEF Header
        <5> QED
          BY <3>3, <5>1, <5>4
      <4>5. id \notin Bundled
        OBVIOUS
      <4> QED
        BY <1>3, <3>1, <3>3, <4>2, <4>4, <4>5 DEF HeaderFits
    <3> QED
      BY <3>2, <3>3
  <2>3. list \in Seq(Header) /\ Len(list) = Len(stored)
    <3>1. list \in [1 .. Len(stored) -> Header] /\ Len(stored) \in Nat
      BY <1>2, <2>1, <2>2 DEF ListFits
    <3> QED
      BY <3>1
  <2>4. persistDemoJobs(list, written)
    BY <1>1, <1>4, <2>1 DEF UpdateStored
  <2>5. Len(list) >= 1 /\ \A i \in DOMAIN list : HeaderFits(list[i])'
    BY <1>2, <2>1, <2>2, <2>3 DEF ListFits
  <2> QED
    BY <1>3, <2>3, <2>4, <2>5, PersistKeeps
<1>5. CASE id \notin Ids(stored)
  <2>1. jobs' = jobs
    BY <1>1, <1>5 DEF UpdateStored
  <2> QED
    <3>1. ASSUME jobs # Null PROVE ListFits(jobs)'
      <4>1. \A i \in DOMAIN jobs : jobs[i] \in Header /\ HeaderFits(jobs[i])
        BY <3>1 DEF IInv, ListFits
      <4>2. \A i \in DOMAIN jobs' : HeaderFits(jobs[i])'
        BY <1>3, <2>1, <4>1 DEF HeaderFits
      <4> QED
        BY <2>1, <3>1, <4>2 DEF IInv, ListFits
    <3> QED
      BY <2>1, <3>1
<1> QED
  BY <1>4, <1>5

(* Reports: one more, the oldest gives way. *)
LEMMA ReportKept ==
  ASSUME ReportsOK, NEW id \in JobIds, NEW written \in BOOLEAN, persistCustomReport(id, written)
  PROVE  ReportsOK' /\ ToSet(reports)' \subseteq ToSet(reports) \cup {id}
<1> DEFINE map == Append(reports, id)
<1>1. reports \in Seq(JobIds) /\ Len(reports) <= MAX_PERSISTED_JOBS /\ Len(reports) \in Nat
  BY DEF ReportsOK
<1>2. /\ map \in Seq(JobIds) /\ Len(map) = Len(reports) + 1
      /\ \A i \in 1 .. Len(map) : map[i] \in ToSet(reports) \cup {id}
  BY <1>1, AppendProperties DEF ToSet
<1>3. map # <<>> /\ Tail(map) \in Seq(JobIds) /\ Len(Tail(map)) = Len(map) - 1
      /\ \A i \in 1 .. Len(Tail(map)) : Tail(map)[i] = map[i + 1]
  BY <1>2, HeadTailProperties
<1>4. reports' = IF ~written THEN reports ELSE IF Len(map) > MAX_PERSISTED_JOBS THEN Tail(map) ELSE map
  BY DEF persistCustomReport
<1> HIDE DEF map
<1>5. CASE reports' = reports
  BY <1>5 DEF ReportsOK, ToSet
<1>6. CASE reports' = map /\ Len(map) <= MAX_PERSISTED_JOBS
  BY <1>2, <1>6 DEF ReportsOK, ToSet
<1>7. CASE reports' = Tail(map)
  <2>1. ASSUME NEW i \in 1 .. Len(Tail(map)) PROVE Tail(map)[i] \in ToSet(reports) \cup {id}
    <3>1. i + 1 \in 1 .. Len(map) /\ Tail(map)[i] = map[i + 1]
      BY <1>1, <1>2, <1>3
    <3> QED
      BY <1>2, <3>1
  <2> QED
    BY <1>1, <1>2, <1>3, <1>7, <2>1 DEF ReportsOK, ToSet
<1> QED
  BY <1>1, <1>2, <1>4, <1>5, <1>6, <1>7

-----------------------------------------------------------------------------
(* One lemma per group of actions *)

LEMMA UploadKeeps == ASSUME IInv, NEW t \in Tabs, demoUploadSample(t) PROVE IInv'
<1>a. PICK new : new = uploads + 1
  OBVIOUS
<1>b. PICK header : header = [id |-> new, status |-> "pending", score |-> Null]
  OBVIOUS
<1>1. uploads \in 0 .. MaxUploads /\ new \in JobIds /\ uploads' = new /\ new \notin 1 .. uploads
  BY <1>a DEF demoUploadSample, IInv, TypeOK
<1>2. PICK stored : stored = getStoredDemoJobs
  OBVIOUS
<1>3. PICK written \in BOOLEAN : persistDemoJobs(<<header>> \o stored, written)
  BY <1>1, <1>2, <1>b DEF demoUploadSample
<1>4. /\ UNCHANGED <<reports, forgotten, elsewhere>> /\ DOMAIN sims' = Tabs
      /\ \A u \in Tabs \ {t} : sims'[u] = sims[u]
      /\ sims'[t] = [id \in Active(t) \cup {new} |-> IF id = new THEN 0 ELSE sims[t][id]]
  BY <1>1 DEF demoUploadSample, IInv
<1>5. \A u \in Tabs : Active(u)' = IF u = t THEN Active(u) \cup {new} ELSE Active(u)
  BY <1>4 DEF Active
<1>6. \A u \in Tabs : Active(u) \subseteq 1 .. uploads /\ \A id \in Active(u) : sims[u][id] \in 0 .. 4
  BY DEF IInv, TypeOK, SimsOK
<1>7. SimsOK'
  BY <1>1, <1>4, <1>5, <1>6 DEF SimsOK, Active
<1>8. \A u, v \in Tabs : u # v => (Active(u) \cap Active(v))' = {}
  BY <1>1, <1>5, <1>6 DEF IInv, TypeOK
<1>9. \A h \in Header : HeaderFits(h) => HeaderFits(h)'
  BY <1>1, <1>4, <1>5 DEF HeaderFits
<1>10. header \in Header /\ HeaderFits(header)'
  <2>1. header \in Header /\ header.id = new /\ header.score = Null
    BY <1>1, <1>b DEF Header
  <2>2. new \notin forgotten' /\ new \notin Bundled
    BY <1>1, <1>4 DEF IInv, ForgottenFits
  <2> QED
    BY <1>1, <2>1, <2>2 DEF HeaderFits
<1>11. jobs' # Null => ListFits(jobs)'
  <2>1. PICK list : list = <<header>> \o stored
    OBVIOUS
  <2>2. stored \in Seq(Header) /\ Len(stored) \in Nat /\ \A i \in DOMAIN stored : HeaderFits(stored[i])
    BY <1>2, StoredFits DEF ListFits
  <2>3. <<header>> \in Seq(Header) /\ Len(<<header>>) = 1 /\ <<header>>[1] = header
    BY <1>10
  <2>4. /\ list \in Seq(Header) /\ Len(list) = 1 + Len(stored)
        /\ list[1] = header /\ \A i \in 2 .. Len(list) : list[i] = stored[i - 1] /\ i - 1 \in DOMAIN stored
    BY <2>1, <2>2, <2>3, ConcatProperties
  <2>5. ASSUME NEW i \in 1 .. Len(list) PROVE HeaderFits(list[i])'
    <3>1. CASE i = 1
      BY <1>10, <2>4, <3>1
    <3>2. CASE i \in 2 .. Len(list)
      <4>1. list[i] \in Header /\ HeaderFits(list[i])
        BY <2>2, <2>4, <3>2
      <4> QED
        BY <1>9, <4>1
    <3> QED
      BY <2>4, <3>1, <3>2
  <2>6. \A i \in DOMAIN list : HeaderFits(list[i])'
    <3>1. DOMAIN list = 1 .. Len(list)
      BY <2>4
    <3> QED
      BY <2>5, <3>1
  <2>7. persistDemoJobs(list, written) /\ Len(list) >= 1
    BY <1>3, <2>1, <2>2, <2>4
  <2> QED
    BY <1>9, <2>4, <2>6, <2>7, PersistKeeps
<1>12. ForgottenFits'
  BY <1>1, <1>4, <1>5 DEF IInv, ForgottenFits
<1>13. JobsOK' /\ ReportsOK'
  BY <1>4, <1>11 DEF JobsOK, ListFits, ReportsOK, IInv, TypeOK
<1> QED
  BY <1>1, <1>4, <1>7, <1>8, <1>11, <1>12, <1>13 DEF IInv, TypeOK

LEMMA FireKeeps == ASSUME IInv, NEW t \in Tabs, NEW id \in JobIds, Fire(t, id) PROVE IInv'
<1>1. /\ id \in Active(t) /\ sims[t][id] \in 0 .. 3
      /\ sims' = [sims EXCEPT ![t][id] = @ + 1]
      /\ UNCHANGED <<reports, uploads, forgotten, elsewhere>>
  BY DEF Fire, Stages, IInv, TypeOK, SimsOK
<1>2. PICK written \in BOOLEAN : UpdateStored(id, sims[t][id] + 1, written)
  BY DEF Fire
<1>3. DOMAIN sims' = Tabs /\ \A u \in Tabs : Active(u)' = Active(u)
  BY <1>1 DEF IInv, Active
<1>4. SimsOK'
  BY <1>1, <1>3 DEF IInv, TypeOK, SimsOK, Active
<1>5. jobs' # Null => ListFits(jobs)'
  <2>1. PICK n \in 1 .. 4 : n = sims[t][id] + 1
    BY <1>1
  <2> QED
    BY <1>1, <1>2, <1>3, <2>1, UpdateKeeps
<1>6. JobsOK' /\ ReportsOK' /\ ForgottenFits'
  BY <1>1, <1>3, <1>5 DEF JobsOK, ListFits, ReportsOK, ForgottenFits, IInv, TypeOK
<1> QED
  BY <1>1, <1>3, <1>4, <1>5, <1>6 DEF IInv, TypeOK

LEMMA CompleteKeeps == ASSUME IInv, NEW t \in Tabs, NEW id \in JobIds, Complete(t, id) PROVE IInv'
<1>1. /\ id \in Active(t)
      /\ sims' = [sims EXCEPT ![t] = [other \in Active(t) \ {id} |-> sims[t][other]]]
      /\ UNCHANGED <<uploads, forgotten, elsewhere>>
  BY DEF Complete
<1>2. PICK saved \in BOOLEAN, written \in BOOLEAN :
        persistCustomReport(id, saved) /\ UpdateStored(id, 5, written)
  BY DEF Complete, Stages
<1>3. /\ DOMAIN sims' = Tabs
      /\ \A u \in Tabs : Active(u)' = IF u = t THEN Active(u) \ {id} ELSE Active(u)
      /\ \A u \in Tabs : \A other \in Active(u)' : sims'[u][other] = sims[u][other]
  BY <1>1 DEF IInv, Active
<1>4. \A u \in Tabs : id \notin Active(u)'
  BY <1>1, <1>3 DEF IInv, TypeOK
<1>5. SimsOK'
  BY <1>1, <1>3 DEF IInv, TypeOK, SimsOK
<1>6. ReportsOK' /\ ToSet(reports)' \subseteq ToSet(reports) \cup {id}
  BY <1>2, ReportKept DEF IInv, TypeOK
<1>7. jobs' # Null => ListFits(jobs)'
  <2>1. \A u \in Tabs : Active(u)' \subseteq Active(u)
    BY <1>3
  <2> QED
    BY <1>1, <1>2, <1>4, <2>1, UpdateKeeps
<1>8. JobsOK' /\ ForgottenFits'
  BY <1>1, <1>3, <1>6, <1>7 DEF JobsOK, ListFits, ForgottenFits, IInv
<1> QED
  BY <1>1, <1>3, <1>5, <1>6, <1>7, <1>8 DEF IInv, TypeOK

LEMMA ReloadKeeps == ASSUME IInv, NEW t \in Tabs, Reload(t) PROVE IInv'
<1>1. /\ sims' = [sims EXCEPT ![t] = <<>>]
      /\ UNCHANGED <<jobs, reports, uploads, forgotten, elsewhere>>
  BY DEF Reload
<1>2. /\ DOMAIN sims' = Tabs
      /\ \A u \in Tabs : Active(u)' = IF u = t THEN {} ELSE Active(u)
      /\ \A u \in Tabs : \A other \in Active(u)' : sims'[u][other] = sims[u][other]
  BY <1>1 DEF IInv, Active
<1>3. SimsOK'
  BY <1>1, <1>2 DEF IInv, TypeOK, SimsOK
<1>4. ASSUME jobs' # Null PROVE ListFits(jobs)'
  <2>1. \A h \in Header : HeaderFits(h) => HeaderFits(h)'
    BY <1>1, <1>2, HeaderKept
  <2>2. \A i \in DOMAIN jobs : jobs[i] \in Header /\ HeaderFits(jobs[i])
    BY <1>1, <1>4 DEF IInv, ListFits
  <2>3. \A i \in DOMAIN jobs' : HeaderFits(jobs[i])'
    BY <1>1, <2>1, <2>2 DEF HeaderFits
  <2> QED
    BY <1>1, <1>4, <2>3 DEF IInv, ListFits
<1>5. JobsOK' /\ ReportsOK' /\ ForgottenFits'
  BY <1>1, <1>2 DEF JobsOK, ReportsOK, ForgottenFits, IInv, TypeOK
<1> QED
  BY <1>1, <1>2, <1>3, <1>4, <1>5 DEF IInv, TypeOK

LEMMA ResetKeeps == ASSUME IInv, NEW t \in Tabs, resetDemoHistory(t) PROVE IInv'
<1>1. /\ sims' = [sims EXCEPT ![t] = <<>>]
      /\ jobs' = Null /\ reports' = <<>> /\ uploads' = uploads /\ forgotten' = 1 .. uploads
      /\ elsewhere' = elsewhere \cup UNION {Active(u) : u \in Tabs \ {t}}
  BY DEF resetDemoHistory
<1>2. /\ DOMAIN sims' = Tabs
      /\ \A u \in Tabs : Active(u)' = IF u = t THEN {} ELSE Active(u)
      /\ \A u \in Tabs : \A other \in Active(u)' : sims'[u][other] = sims[u][other]
  BY <1>1 DEF IInv, Active
<1>3. SimsOK'
  BY <1>1, <1>2 DEF IInv, TypeOK, SimsOK
<1>4. ForgottenFits'
  <2>1. ToSet(reports)' = {}
    BY <1>1 DEF ToSet
  <2> QED
    BY <1>1, <1>2, <2>1 DEF ForgottenFits
<1>5. JobsOK' /\ ReportsOK'
  BY <1>1 DEF JobsOK, ReportsOK
<1> QED
  BY <1>1, <1>2, <1>3, <1>4, <1>5 DEF IInv, TypeOK

LEMMA FrameKeeps ==
  ASSUME IInv, UNCHANGED <<jobs, reports, sims, uploads, forgotten, elsewhere>>
  PROVE  IInv'
<1>1. ListFits(jobs) => ListFits(jobs)'
  BY DEF ListFits, HeaderFits, Active
<1> QED
  BY <1>1 DEF IInv, TypeOK, JobsOK, ReportsOK, SimsOK, Active, ForgottenFits

-----------------------------------------------------------------------------

LEMMA Begins == Init => IInv
<1> SUFFICES ASSUME Init PROVE IInv
  OBVIOUS
<1>1. /\ jobs = Null /\ reports = <<>> /\ uploads = 0 /\ DOMAIN sims = Tabs
      /\ forgotten = {} /\ \A t \in Tabs : Active(t) = {}
  BY DEF Init, Active
<1>2. JobsOK /\ ReportsOK /\ SimsOK /\ ForgottenFits
  BY <1>1 DEF JobsOK, ReportsOK, SimsOK, ForgottenFits
<1> QED
  BY <1>1, <1>2 DEF IInv, TypeOK

LEMMA Step == ASSUME IInv, [Next]_vars PROVE IInv'
<1>1. CASE LateEvent \/ CloseStream \/ UNCHANGED vars
  BY <1>1, FrameKeeps DEF LateEvent, CloseStream, vars
<1>2. CASE \E t \in Tabs, id \in JobIds \cup Bundled : demoSubscribeJobStream(t, id)
  BY <1>2, FrameKeeps DEF demoSubscribeJobStream
<1>3. CASE \E t \in Tabs : demoUploadSample(t) \/ Reload(t) \/ resetDemoHistory(t)
  BY <1>3, UploadKeeps, ReloadKeeps, ResetKeeps
<1>4. CASE \E t \in Tabs, id \in JobIds : Fire(t, id) \/ Complete(t, id)
  BY <1>4, FireKeeps, CompleteKeeps
<1> QED
  BY <1>1, <1>2, <1>3, <1>4 DEF Next

(* The inductive invariant holds in every state of the demo engine: headers *)
(* and forgotten jobs fit the simulations of all tabs.                      *)
THEOREM Invariant == Spec => []IInv
<1>1. IInv /\ [Next]_vars => IInv'
  BY Step
<1> QED
  BY Begins, <1>1, PTL DEF Spec

(* List and reports keep their shape and their cap, and no job is simulated *)
(* in two tabs (demoEngine.js:52-92).                                       *)
THEOREM DemoTypeCorrect == Spec => []TypeOK
<1>1. IInv => TypeOK
  BY DEF IInv
<1> QED
  BY <1>1, Invariant, PTL

(* Where the list has a score, the details of every tab have a report with  *)
(* this score, whatever was evicted, lost or made in another tab            *)
(* (demoEngine.js:283-322).                                                 *)
THEOREM ListAgrees == Spec => []ListMatchesReport
<1>1. ASSUME IInv PROVE ListMatchesReport
  <2>1. SUFFICES ASSUME NEW i \in DOMAIN demoGetJobs, demoGetJobs[i].score # Null, NEW t \in Tabs
        PROVE LET answer == demoGetJobDetails(t, demoGetJobs[i].id)
              IN answer # Null /\ answer.result /\ answer.score = demoGetJobs[i].score
    BY DEF ListMatchesReport
  <2>2. PICK h : h = demoGetJobs[i]
    OBVIOUS
  <2>3. h \in Header /\ HeaderFits(h) /\ h.score # Null /\ h.id \in Ids(getStoredDemoJobs)
    BY <1>1, <2>1, <2>2, StoredFits DEF ListFits, demoGetJobs, Ids
  <2>4. h.id \notin Active(t)
    BY <1>1, <2>3 DEF HeaderFits, IInv, TypeOK, SimsOK
  <2>5. demoGetJobDetails(t, h.id) = Answer("completed", h.score, TRUE)
    <3>1. CASE h.id \in Bundled
      <4>1. demoGetJobDetails(t, h.id) = getDemoJobDetailsById(h.id)
        BY <2>4, <3>1 DEF demoGetJobDetails
      <4>2. h.score = getDemoJobDetailsById(h.id).score
        BY <2>3, <3>1 DEF HeaderFits
      <4>3. PICK score : getDemoJobDetailsById(h.id) = Answer("completed", score, TRUE)
        BY DEF getDemoJobDetailsById
      <4> QED
        BY <4>1, <4>2, <4>3 DEF Answer
    <3>2. CASE h.id \notin Bundled
      <4>1. demoGetJobDetails(t, h.id) = Answer("completed", buildSimulatedReport, TRUE)
        BY <2>3, <2>4, <3>2 DEF demoGetJobDetails
      <4>2. h.score = buildSimulatedReport
        BY <2>3, <3>2, Heads DEF HeaderFits
      <4> QED
        BY <4>1, <4>2
    <3> QED
      BY <3>1, <3>2
  <2>6. Answer("completed", h.score, TRUE) \in Answers
    BY <2>3, Heads DEF Answer, Answers
  <2>7. Answer("completed", h.score, TRUE).result /\ Answer("completed", h.score, TRUE).score = h.score
    BY DEF Answer
  <2> QED
    BY <2>2, <2>5, <2>6, <2>7, NullAssumption
<1>2. IInv => ListMatchesReport
  BY <1>1
<1> QED
  BY <1>2, Invariant, PTL

(* No timer, of whatever tab, brings a forgotten job back into the list     *)
(* (demoEngine.js:97-111, 190-205).                                         *)
THEOREM ResetHolds == Spec => []ResetIsFinal
<1>1. ASSUME IInv PROVE ResetIsFinal
  <2>1. ASSUME NEW h \in Header, HeaderFits(h) PROVE h.id \notin forgotten
    <3>1. forgotten \subseteq JobIds
      BY <1>1 DEF IInv, ForgottenFits, TypeOK
    <3>2. h.id \in JobIds => h.id \notin forgotten
      BY <2>1 DEF HeaderFits
    <3> QED
      BY <3>1, <3>2
  <2>2. Ids(demoGetJobs) \cap forgotten = {}
    BY <1>1, <2>1, StoredFits DEF ListFits, demoGetJobs, Ids
  <2> QED
    BY <1>1, <2>2 DEF IInv, ForgottenFits, ResetIsFinal
<1>2. IInv => ResetIsFinal
  BY <1>1
<1> QED
  BY <1>2, Invariant, PTL
=============================================================================
