----------------------------- MODULE SampleStore -----------------------------
(***************************************************************************)
(* How a sample comes into the service: the handler CreateSample, of which   *)
(* one goroutine runs per upload (samples.go), the directory of files named  *)
(* by their SHA-256 (filesystem.go), the unique hash of the samples table,   *)
(* and the copy of the file that an analysis makes (windows.go).            *)
(*                                                                         *)
(* A file is the set of its chunks that hold what was uploaded: io.Copy      *)
(* writes and reads one after the other.  os.Create empties a file under     *)
(* those who have it open; a writer goes on where it was and leaves a hole   *)
(* of zeros before it, a reader finds the end of the file early.  Nobody     *)
(* compares a file with its name again.                                     *)
(***************************************************************************)
EXTENDS Naturals, FiniteSets

CONSTANTS Requests,     \* uploads, and the jobs they may create
          Hashes,       \* the bytes that are uploaded, known by their SHA-256
          Copies,       \* runs of CopySample
          Chunks,       \* what io.Copy needs for a file
          MaxFaults,    \* bound: failed calls and statements, lost replies, crashes
          Null

ASSUME StoreAssumption ==
    /\ Chunks \in Nat \ {0} /\ MaxFaults \in Nat
    /\ Null \notin Requests \cup Hashes /\ "failed" \notin Requests \cup {Null}

VARIABLES
    pc,         \* what the handler of an upload does next
    hash,       \* its bytes
    offset,     \* the chunks that it has written
    reply,      \* its answer: a job, "failed" (a status of 500), or Null
    stored,     \* the chunks of the file that hold what was uploaded
    opener,     \* the upload whose os.Create was the last on the file, Null if there is no file
    owner,      \* samples: the upload that inserted the row with a hash, or Null
    jobs,       \* jobs: of each sample, named by the uploads that inserted them
    copyState,  \* a run of CopySample
    copyOf,     \* the sample it copies
    copyAt,     \* the chunks it has read
    copied,     \* those of them that held what was uploaded
    faults,     \* how many there have been
    hit         \* history: the uploads that one of them ended

upload == <<pc, hash, offset, reply>>
disk   == <<stored, opener>>
db     == <<owner, jobs>>
copy   == <<copyState, copyOf, copyAt, copied>>
vars   == <<upload, disk, db, copy, faults, hit>>

-----------------------------------------------------------------------------
Whole == 1 .. Chunks

Before      == {"idle", "check", "find", "create"}
Transaction == {"job", "commit"}          \* behind the INSERT of the sample
Over        == {"answered", "dead"}
Places      == Before \cup {"copy", "insert"} \cup Transaction \cup Over

Handling(r) == pc[r] \notin {"idle"} \cup Over

InsertWaitsForNone(r) == FALSE

InsertWaitsForEver(r) ==
    \E s \in Requests \ {r} : pc[s] \in Transaction \cup Over /\ offset[s] = Chunks /\ hash[s] = hash[r]

(* PostgreSQL lets an INSERT of the same unique value wait until the         *)
(* transaction that inserted it before has ended.                           *)
InsertWaits(r) == \E s \in Requests \ {r} : pc[s] \in Transaction /\ hash[s] = hash[r]

Init ==
    /\ pc = [r \in Requests |-> "idle"] /\ hash = [r \in Requests |-> Null]
    /\ offset = [r \in Requests |-> 0] /\ reply = [r \in Requests |-> Null]
    /\ stored = [h \in Hashes |-> {}] /\ opener = [h \in Hashes |-> Null]
    /\ owner = [h \in Hashes |-> Null] /\ jobs = [h \in Hashes |-> {}]
    /\ copyState = [c \in Copies |-> "idle"] /\ copyOf = [c \in Copies |-> Null]
    /\ copyAt = [c \in Copies |-> 0] /\ copied = [c \in Copies |-> {}]
    /\ faults = 0 /\ hit = {}

Fault == faults < MaxFaults /\ faults' = faults + 1

Goto(r, place) == pc' = [pc EXCEPT ![r] = place] /\ UNCHANGED reply

Answer(r, what) == pc' = [pc EXCEPT ![r] = "answered"] /\ reply' = [reply EXCEPT ![r] = what]

(* A call or statement returns an error; an open transaction is rolled back. *)
Fails(r) == Answer(r, "failed") /\ Fault /\ hit' = hit \cup {r}

(* io.Copy returns when it has reached the end, or with an error. *)
LastChunkLost(k) == IF k = Chunks - 1 THEN "insert" ELSE "copy"

OneChunkTooMany(k) == IF k > Chunks THEN "insert" ELSE "copy"

AfterChunk(k) == IF k = Chunks THEN "insert" ELSE "copy"

CopyErrorIgnored(r) == Goto(r, "insert") /\ Fault /\ hit' = hit \cup {r}

CopyFails(r) == Fails(r)

-----------------------------------------------------------------------------
(* CreateSample *)

(* The form is read and hashed before anything else; a bad one is refused.   *)
Arrive(r) ==
    /\ pc[r] = "idle"
    /\ \E h \in Hashes : hash' = [hash EXCEPT ![r] = h]
    /\ Goto(r, "check")
    /\ UNCHANGED <<offset, disk, db, copy, faults, hit>>

CheckDuplicate(r) ==
    /\ pc[r] = "check"
    /\ \/ Goto(r, IF owner[hash[r]] # Null THEN "find" ELSE "create") /\ UNCHANGED <<faults, hit>>
       \/ Fails(r)
    /\ UNCHANGED <<hash, offset, disk, db, copy>>

(* The sample exists: the answer is its latest job. *)
FindJob(r) ==
    /\ pc[r] = "find"
    /\ \/ /\ IF jobs[hash[r]] = {} THEN Answer(r, "failed") ELSE \E j \in jobs[hash[r]] : Answer(r, j)
          /\ UNCHANGED <<faults, hit>>
       \/ Fails(r)
    /\ UNCHANGED <<hash, offset, disk, db, copy>>

(* Save: the directories and os.Create. *)
CreateFile(r) ==
    /\ pc[r] = "create"
    /\ \/ /\ stored' = [stored EXCEPT ![hash[r]] = {}]
          /\ opener' = [opener EXCEPT ![hash[r]] = r]
          /\ Goto(r, "copy") /\ UNCHANGED <<faults, hit>>
       \/ Fails(r) /\ UNCHANGED disk
    /\ UNCHANGED <<hash, offset, db, copy>>

(* Save: io.Copy. *)
WriteChunk(r) ==
    /\ pc[r] = "copy"
    /\ \/ LET k == offset[r] + 1
          IN /\ stored' = [stored EXCEPT ![hash[r]] = @ \cup {k}]
             /\ offset' = [offset EXCEPT ![r] = k]
             /\ Goto(r, AfterChunk(k)) /\ UNCHANGED <<faults, hit>>
       \/ CopyFails(r) /\ UNCHANGED <<stored, offset>>
    /\ UNCHANGED <<hash, opener, db, copy>>

(* The INSERT of the sample, once no other transaction holds its hash. *)
InsertSample(r) ==
    /\ pc[r] = "insert"
    /\ \/ /\ ~InsertWaits(r)
          /\ IF owner[hash[r]] # Null THEN Answer(r, "failed") ELSE Goto(r, "job")
          /\ UNCHANGED <<faults, hit>>
       \/ Fails(r)
    /\ UNCHANGED <<hash, offset, disk, db, copy>>

InsertJob(r) ==
    /\ pc[r] = "job"
    /\ \/ Goto(r, "commit") /\ UNCHANGED <<faults, hit>>
       \/ Fails(r)
    /\ UNCHANGED <<hash, offset, disk, db, copy>>

(* Both rows become visible at once, even if the reply is lost. *)
Committed(r) ==
    /\ owner' = [owner EXCEPT ![hash[r]] = r]
    /\ jobs' = [jobs EXCEPT ![hash[r]] = @ \cup {r}]

Commit(r) ==
    /\ pc[r] = "commit"
    /\ \/ Committed(r) /\ Answer(r, r) /\ UNCHANGED <<faults, hit>>
       \/ (Committed(r) \/ UNCHANGED db) /\ Fails(r)
    /\ UNCHANGED <<hash, offset, disk, copy>>

-----------------------------------------------------------------------------
(* CopySample, for an analysis of a job of the sample *)

OpenSample(c) ==
    /\ copyState[c] = "idle"
    /\ \E h \in Hashes : /\ jobs[h] # {}
                         /\ copyOf' = [copyOf EXCEPT ![c] = h]
                         /\ copyState' = [copyState EXCEPT ![c] = IF opener[h] = Null THEN "failed" ELSE "reading"]
    /\ UNCHANGED <<upload, disk, db, copyAt, copied, faults, hit>>

(* The next chunk, or a hole where it should be. *)
ReadChunk(c) ==
    /\ copyState[c] = "reading"
    /\ LET k    == copyAt[c] + 1
           file == stored[copyOf[c]]
       IN /\ \E m \in file : k <= m
          /\ copyAt' = [copyAt EXCEPT ![c] = k]
          /\ copied' = [copied EXCEPT ![c] = @ \cup ({k} \cap file)]
    /\ UNCHANGED <<upload, disk, db, copyState, copyOf, faults, hit>>

(* The end of the file, as it is now. *)
EndCopy(c) ==
    /\ copyState[c] = "reading"
    /\ \A m \in stored[copyOf[c]] : m <= copyAt[c]
    /\ copyState' = [copyState EXCEPT ![c] = "done"]
    /\ UNCHANGED <<upload, disk, db, copyOf, copyAt, copied, faults, hit>>

AbortCopy(c) ==
    /\ copyState[c] = "reading" /\ Fault
    /\ copyState' = [copyState EXCEPT ![c] = "failed"]
    /\ UNCHANGED <<upload, disk, db, copyOf, copyAt, copied, hit>>

(* The service dies, with its handlers and copies, and is started again;     *)
(* what they had not committed is rolled back, what they had written stays.  *)
Crash ==
    /\ \E r \in Requests : Handling(r)
    /\ Fault
    /\ pc' = [r \in Requests |-> IF Handling(r) THEN "dead" ELSE pc[r]]
    /\ copyState' = [c \in Copies |-> IF copyState[c] = "reading" THEN "failed" ELSE copyState[c]]
    /\ hit' = hit \cup {r \in Requests : Handling(r)}
    /\ UNCHANGED <<hash, offset, reply, disk, db, copyOf, copyAt, copied>>

Handle(r) == \/ CheckDuplicate(r) \/ FindJob(r) \/ CreateFile(r) \/ WriteChunk(r)
             \/ InsertSample(r) \/ InsertJob(r) \/ Commit(r)

Next ==
    \/ \E r \in Requests : Arrive(r) \/ Handle(r)
    \/ \E c \in Copies : OpenSample(c) \/ ReadChunk(c) \/ EndCopy(c) \/ AbortCopy(c)
    \/ Crash

Spec == Init /\ [][Next]_vars

(* A call or a statement that waits for nothing returns; no fault is owed. *)
FairSpec == Spec /\ \A r \in Requests : WF_vars(Handle(r) /\ UNCHANGED faults)

-----------------------------------------------------------------------------
(* Properties *)

(* Types; who has a file open has bytes, and writes within them. *)
TypeOK ==
    /\ pc \in [Requests -> Places] /\ hash \in [Requests -> Hashes \cup {Null}]
    /\ \A r \in Requests : pc[r] # "idle" => hash[r] \in Hashes
    /\ offset \in [Requests -> 0 .. Chunks]
    /\ reply \in [Requests -> Requests \cup {"failed", Null}]
    /\ stored \in [Hashes -> SUBSET Whole] /\ opener \in [Hashes -> Requests \cup {Null}]
    /\ owner \in [Hashes -> Requests \cup {Null}] /\ jobs \in [Hashes -> SUBSET Requests]
    /\ copyState \in [Copies -> {"idle", "reading", "done", "failed"}]
    /\ copyOf \in [Copies -> Hashes \cup {Null}]
    /\ \A c \in Copies : copyState[c] # "idle" => copyOf[c] \in Hashes
    /\ copyAt \in [Copies -> 0 .. Chunks] /\ copied \in [Copies -> SUBSET Whole]
    /\ faults \in 0 .. MaxFaults /\ hit \in SUBSET Requests

(* However uploads of the same bytes overlap and fail, a sample has one job, *)
(* and all of them that are answered with a job are answered with that one,  *)
(* also long after it has failed.  An upload that is refused although        *)
(* nothing failed lost a race: its bytes have a job, of another upload.      *)
OneJobPerSample ==
    /\ \A h \in Hashes : jobs[h] = IF owner[h] = Null THEN {} ELSE {owner[h]}
    /\ \A r \in Requests :
          /\ reply[r] \in Requests => jobs[hash[r]] = {reply[r]}
          /\ reply[r] = "failed" /\ r \notin hit => jobs[hash[r]] \notin {{}, {r}}

(* The file of a sample is whole, unless another upload of the same bytes,   *)
(* which saw no sample when it checked, has emptied it since and is still     *)
(* copying or was ended by a fault.                                         *)
StoredFileIsWhole ==
    \A h \in Hashes :
        owner[h] # Null /\ stored[h] # Whole =>
            \E r \in Requests \ {owner[h]} : hash[r] = h /\ opener[h] = r /\ (pc[r] = "copy" \/ r \in hit)

(* An analysis gets all of its sample, unless another upload of the same     *)
(* bytes has emptied the file after the one that made the job.              *)
SampleIsReadWhole ==
    \A c \in Copies :
        copyState[c] = "done" /\ copied[c] # Whole =>
            opener[copyOf[c]] \notin {Null, owner[copyOf[c]]}

(* Uploads that wait for each other's transactions all end: every upload is  *)
(* answered or dies with the service.                                       *)
EveryUploadIsAnswered == \A r \in Requests : pc[r] = "check" ~> pc[r] \in Over
=============================================================================
