-------------------------- MODULE SampleStoreProofs ---------------------------
(***************************************************************************)
(* Types and safety of SampleStore, for any number of uploads, samples,      *)
(* copies, chunks and faults.                                               *)
(***************************************************************************)
EXTENDS SampleStore, TLAPS

(* What an upload has done by the place it is at. *)
UploadFits ==
  \A r \in Requests :
     /\ pc[r] \in Before => offset[r] = 0
     /\ pc[r] \in {"insert"} \cup Transaction => offset[r] = Chunks
     /\ pc[r] = "copy" => offset[r] < Chunks
     /\ pc[r] = "find" => owner[hash[r]] # Null
     /\ reply[r] # Null <=> pc[r] = "answered"
     /\ pc[r] \in {"idle"} => hash[r] = Null
     /\ pc[r] = "dead" => r \in hit

(* One transaction at a time holds a hash that has no row yet. *)
TransactionsFit ==
  \A r \in Requests : pc[r] \in Transaction =>
     /\ owner[hash[r]] = Null
     /\ \A s \in Requests : pc[s] \in Transaction /\ hash[s] = hash[r] => s = r

(* A row was inserted by an upload of these bytes that had copied all of     *)
(* them, together with its job.                                             *)
RowsFit ==
  \A h \in Hashes :
     /\ jobs[h] = IF owner[h] = Null THEN {} ELSE {owner[h]}
     /\ owner[h] # Null => /\ hash[owner[h]] = h /\ offset[owner[h]] = Chunks /\ opener[h] # Null
                           /\ pc[owner[h]] \in Over

(* What uploads are told: the job of the row, or that they failed, without a *)
(* fault only because of another's row.                                     *)
RepliesFit ==
  \A r \in Requests :
     /\ reply[r] \in Requests => owner[hash[r]] = reply[r]
     /\ reply[r] = "failed" /\ r \notin hit => owner[hash[r]] \notin {Null, r}

(* What the last to empty a file has written since is in it; if that is not  *)
(* all, it is still copying or a fault has ended it.                        *)
FilesFit ==
  /\ \A h \in Hashes : opener[h] # Null =>
        /\ hash[opener[h]] = h
        /\ 1 .. offset[opener[h]] \subseteq stored[h]
        /\ pc[opener[h]] \notin Before
        /\ offset[opener[h]] < Chunks => pc[opener[h]] = "copy" \/ opener[h] \in hit
  /\ \A r \in Requests : pc[r] \in {"copy", "insert"} \cup Transaction => opener[hash[r]] # Null

(* A copy that has missed something was overtaken by another upload. *)
CopiesFit ==
  \A c \in Copies :
     /\ copyState[c] = "idle" => copyAt[c] = 0
     /\ copyState[c] # "idle" =>
          LET h == copyOf[c]
          IN /\ owner[h] # Null
             /\ opener[h] = owner[h] =>
                  /\ 1 .. copyAt[c] \subseteq copied[c]
                  /\ copyState[c] = "done" => copyAt[c] = Chunks

IInv == /\ TypeOK /\ UploadFits /\ TransactionsFit /\ RowsFit
        /\ RepliesFit /\ FilesFit /\ CopiesFit

USE StoreAssumption DEF Whole, Before, Transaction, Over, Places

LEMMA OneMore == ASSUME NEW n \in Nat PROVE 1 .. n + 1 = (1 .. n) \cup {n + 1}
  OBVIOUS

(* The start *)
LEMMA Starts == Init => IInv
  BY DEF Init, IInv, TypeOK, UploadFits, TransactionsFit, RowsFit, RepliesFit, FilesFit, CopiesFit

-----------------------------------------------------------------------------
(* Steps of a handler that move it, or answer, and do nothing else *)

(* What allows upload r to be at a place with an answer. *)
MayBe(r, place, what) ==
  /\ place \in Places \ {"idle", "copy", "dead"}
  /\ what \in Requests \cup {"failed", Null} /\ (what # Null <=> place = "answered")
  /\ place \in Before => pc[r] \in Before
  /\ place = "find" => owner[hash[r]] # Null
  /\ place \in {"insert"} \cup Transaction => pc[r] \in {"insert"} \cup Transaction
  /\ place \in Transaction =>
       /\ owner[hash[r]] = Null
       /\ \A s \in Requests \ {r} : ~(pc[s] \in Transaction /\ hash[s] = hash[r])
  /\ what \in Requests => owner[hash[r]] = what
  /\ what = "failed" /\ r \notin hit' => owner[hash[r]] # Null

LEMMA HandlerMoves ==
  ASSUME IInv, NEW r \in Requests, Handling(r), NEW place, NEW what,
         pc' = [pc EXCEPT ![r] = place], reply' = [reply EXCEPT ![r] = what],
         hit' = hit \/ hit' = hit \cup {r},
         pc[r] = "copy" => r \in hit',
         MayBe(r, place, what),
         faults' \in 0 .. MaxFaults,
         UNCHANGED <<hash, offset, disk, db, copy>>
  PROVE  IInv'
<1> USE DEF IInv, Handling, MayBe, disk, db, copy
<1>1. TypeOK'
  BY DEF TypeOK
<1>2. UploadFits'
  BY DEF UploadFits, TypeOK
<1>3. TransactionsFit'
  BY DEF TransactionsFit, TypeOK
<1>4. RowsFit'
  BY DEF RowsFit, TypeOK
<1>5. RepliesFit'
  <2>1. owner[hash[r]] # r
    BY DEF RowsFit, TypeOK
  <2> QED
    BY <2>1 DEF RepliesFit, TypeOK
<1>6. FilesFit'
  BY DEF FilesFit, UploadFits, TypeOK
<1>7. CopiesFit'
  BY DEF CopiesFit
<1> QED
  BY <1>1, <1>2, <1>3, <1>4, <1>5, <1>6, <1>7

(* What an upload is told when it fails: nothing was done. *)
LEMMA FailsKeeps ==
  ASSUME IInv, NEW r \in Requests, Handling(r), Fails(r), UNCHANGED <<hash, offset, disk, db, copy>>
  PROVE  IInv'
<1>1. faults' \in 0 .. MaxFaults
  BY DEF IInv, TypeOK, Fails, Fault
<1>2. MayBe(r, "answered", "failed")
  BY DEF MayBe, Fails
<1> QED
  BY <1>1, <1>2, HandlerMoves DEF Fails, Answer

-----------------------------------------------------------------------------
(* The handler, step by step *)

LEMMA ArriveKeeps == ASSUME IInv, NEW r \in Requests, Arrive(r) PROVE IInv'
<1> USE DEF IInv, Arrive, Goto, disk, db, copy
<1>1. PICK h \in Hashes : hash' = [hash EXCEPT ![r] = h]
  OBVIOUS
<1>2. TypeOK'
  BY <1>1 DEF TypeOK
<1>3. UploadFits'
  BY <1>1 DEF UploadFits, TypeOK
<1>4. TransactionsFit'
  BY <1>1 DEF TransactionsFit, TypeOK
<1>5. RowsFit'
  BY <1>1 DEF RowsFit, TypeOK
<1>6. RepliesFit'
  BY <1>1 DEF RepliesFit, UploadFits, TypeOK
<1>7. FilesFit'
  BY <1>1 DEF FilesFit, TypeOK
<1>8. CopiesFit'
  BY DEF CopiesFit
<1> QED
  BY <1>2, <1>3, <1>4, <1>5, <1>6, <1>7, <1>8

LEMMA CheckDuplicateKeeps == ASSUME IInv, NEW r \in Requests, CheckDuplicate(r) PROVE IInv'
<1>1. Handling(r)
  BY DEF CheckDuplicate, Handling
<1>2. CASE Fails(r)
  BY <1>1, <1>2, FailsKeeps DEF CheckDuplicate
<1>3. CASE Goto(r, IF owner[hash[r]] # Null THEN "find" ELSE "create") /\ UNCHANGED <<faults, hit>>
  <2> DEFINE place == IF owner[hash[r]] # Null THEN "find" ELSE "create"
  <2>1. MayBe(r, place, Null)
    BY DEF CheckDuplicate, MayBe
  <2>2. pc' = [pc EXCEPT ![r] = place] /\ reply' = [reply EXCEPT ![r] = Null]
    BY <1>3 DEF Goto, IInv, TypeOK, UploadFits, CheckDuplicate
  <2>3. faults' \in 0 .. MaxFaults /\ hit' = hit /\ pc[r] # "copy"
    BY <1>3 DEF IInv, TypeOK, CheckDuplicate
  <2> QED
    BY <1>1, <2>1, <2>2, <2>3, HandlerMoves DEF CheckDuplicate
<1> QED
  BY <1>2, <1>3 DEF CheckDuplicate

LEMMA FindJobKeeps == ASSUME IInv, NEW r \in Requests, FindJob(r) PROVE IInv'
<1>1. Handling(r)
  BY DEF FindJob, Handling
<1>2. CASE Fails(r)
  BY <1>1, <1>2, FailsKeeps DEF FindJob
<1>3. CASE ~Fails(r)
  <2>1. hash[r] \in Hashes /\ owner[hash[r]] # Null /\ jobs[hash[r]] = {owner[hash[r]]}
    BY DEF FindJob, IInv, TypeOK, UploadFits, RowsFit
  <2>2. Answer(r, owner[hash[r]]) /\ UNCHANGED <<faults, hit>>
    BY <1>3, <2>1 DEF FindJob
  <2>3. MayBe(r, "answered", owner[hash[r]])
    BY <2>1 DEF IInv, TypeOK, MayBe
  <2>4. faults' \in 0 .. MaxFaults /\ hit' = hit /\ pc[r] # "copy"
    BY <2>2 DEF IInv, TypeOK, FindJob
  <2> QED
    BY <1>1, <2>2, <2>3, <2>4, HandlerMoves DEF FindJob, Answer
<1> QED
  BY <1>2, <1>3

LEMMA CreateFileKeeps == ASSUME IInv, NEW r \in Requests, CreateFile(r) PROVE IInv'
<1>1. Handling(r)
  BY DEF CreateFile, Handling
<1>2. CASE Fails(r) /\ UNCHANGED disk
  BY <1>1, <1>2, FailsKeeps DEF CreateFile, disk
<1>3. CASE /\ stored' = [stored EXCEPT ![hash[r]] = {}]
           /\ opener' = [opener EXCEPT ![hash[r]] = r]
           /\ Goto(r, "copy") /\ UNCHANGED <<faults, hit>>
  <2> USE <1>3 DEF IInv, CreateFile, Goto, db, copy
  <2>1. hash[r] \in Hashes /\ offset[r] = 0 /\ reply[r] = Null /\ owner[hash[r]] # r
    BY DEF TypeOK, UploadFits, RowsFit
  <2>2. TypeOK'
    BY <2>1 DEF TypeOK
  <2>3. UploadFits'
    BY <2>1 DEF UploadFits, TypeOK
  <2>4. TransactionsFit'
    BY DEF TransactionsFit, TypeOK
  <2>5. RowsFit'
    BY <2>1 DEF RowsFit, TypeOK
  <2>6. RepliesFit'
    BY DEF RepliesFit, TypeOK
  <2>7. FilesFit'
    <3>1. ASSUME NEW h \in Hashes, opener'[h] # Null
          PROVE  /\ hash'[opener'[h]] = h
                 /\ 1 .. offset'[opener'[h]] \subseteq stored'[h]
                 /\ pc'[opener'[h]] \notin Before
                 /\ offset'[opener'[h]] < Chunks => pc'[opener'[h]] = "copy" \/ opener'[h] \in hit'
      <4>1. CASE h = hash[r]
        BY <2>1, <4>1 DEF TypeOK
      <4>2. CASE h # hash[r]
        BY <3>1, <4>2 DEF TypeOK, FilesFit
      <4> QED
        BY <4>1, <4>2
    <3>2. \A s \in Requests : pc'[s] \in {"copy", "insert"} \cup Transaction => opener'[hash'[s]] # Null
      BY DEF TypeOK, FilesFit
    <3> QED
      BY <3>1, <3>2 DEF FilesFit
  <2>8. CopiesFit'
    BY <2>1 DEF CopiesFit, TypeOK
  <2> QED
    BY <2>2, <2>3, <2>4, <2>5, <2>6, <2>7, <2>8
<1> QED
  BY <1>2, <1>3 DEF CreateFile

LEMMA WriteChunkKeeps == ASSUME IInv, NEW r \in Requests, WriteChunk(r) PROVE IInv'
<1>1. Handling(r)
  BY DEF WriteChunk, Handling
<1>2. CASE CopyFails(r) /\ UNCHANGED <<stored, offset>>
  BY <1>1, <1>2, FailsKeeps DEF WriteChunk, CopyFails, disk
<1>3. CASE /\ stored' = [stored EXCEPT ![hash[r]] = @ \cup {offset[r] + 1}]
           /\ offset' = [offset EXCEPT ![r] = offset[r] + 1]
           /\ Goto(r, AfterChunk(offset[r] + 1)) /\ UNCHANGED <<faults, hit>>
  <2> DEFINE k == offset[r] + 1
             place == IF k = Chunks THEN "insert" ELSE "copy"
  <2> USE DEF IInv, db, copy
  <2>1. /\ pc[r] = "copy" /\ hash[r] \in Hashes /\ offset[r] \in Nat /\ k \in 1 .. Chunks
        /\ reply[r] = Null /\ owner[hash[r]] # r
    BY DEF WriteChunk, TypeOK, UploadFits, RowsFit
  <2>2. /\ stored' = [stored EXCEPT ![hash[r]] = @ \cup {k}] /\ offset' = [offset EXCEPT ![r] = k]
        /\ pc' = [pc EXCEPT ![r] = place]
        /\ UNCHANGED <<hash, reply, opener, owner, jobs, copyState, copyOf, copyAt, copied, faults, hit>>
    BY <1>3 DEF WriteChunk, Goto, AfterChunk
  <2>3. TypeOK'
    BY <2>1, <2>2 DEF TypeOK
  <2>4. UploadFits'
    BY <2>1, <2>2 DEF UploadFits, TypeOK
  <2>5. TransactionsFit'
    BY <2>1, <2>2 DEF TransactionsFit, TypeOK
  <2>6. RowsFit'
    BY <2>1, <2>2 DEF RowsFit, TypeOK
  <2>7. RepliesFit'
    BY <2>1, <2>2 DEF RepliesFit, TypeOK
  <2>8. FilesFit'
    <3>1. ASSUME NEW h \in Hashes, opener[h] # Null
          PROVE  /\ hash'[opener[h]] = h
                 /\ 1 .. offset'[opener[h]] \subseteq stored'[h]
                 /\ pc'[opener[h]] \notin Before
                 /\ offset'[opener[h]] < Chunks => pc'[opener[h]] = "copy" \/ opener[h] \in hit
      <4>1. /\ opener[h] \in Requests /\ hash[opener[h]] = h /\ 1 .. offset[opener[h]] \subseteq stored[h]
            /\ pc[opener[h]] \notin Before
            /\ offset[opener[h]] < Chunks => pc[opener[h]] = "copy" \/ opener[h] \in hit
        BY <3>1 DEF FilesFit, TypeOK
      <4>2. stored[h] \subseteq stored'[h]
        BY <2>1, <2>2 DEF TypeOK
      <4>3. CASE opener[h] = r
        <5>1. offset'[r] = k /\ h = hash[r]
          BY <2>1, <2>2, <4>1, <4>3 DEF TypeOK
        <5>4. 1 .. k = (1 .. offset[r]) \cup {k}
          BY <2>1, OneMore
        <5>2. k \in stored'[h]
          BY <2>1, <2>2, <5>1 DEF TypeOK
        <5>3. pc'[r] = place /\ hash'[r] = hash[r]
          BY <2>2 DEF TypeOK
        <5> QED
          BY <2>1, <4>1, <4>2, <4>3, <5>1, <5>2, <5>3, <5>4
      <4>4. CASE opener[h] # r
        BY <2>2, <4>1, <4>2, <4>4 DEF TypeOK
      <4> QED
        BY <4>3, <4>4
    <3>2. \A s \in Requests : pc'[s] \in {"copy", "insert"} \cup Transaction => opener[hash[s]] # Null
      BY <2>1, <2>2 DEF TypeOK, FilesFit
    <3> QED
      BY <2>2, <3>1, <3>2 DEF FilesFit
  <2>9. CopiesFit'
    BY <2>2 DEF CopiesFit
  <2> QED
    BY <2>3, <2>4, <2>5, <2>6, <2>7, <2>8, <2>9
<1> QED
  BY <1>2, <1>3 DEF WriteChunk

LEMMA InsertSampleKeeps == ASSUME IInv, NEW r \in Requests, InsertSample(r) PROVE IInv'
<1>1. Handling(r)
  BY DEF InsertSample, Handling
<1>2. CASE Fails(r)
  BY <1>1, <1>2, FailsKeeps DEF InsertSample
<1>3. CASE /\ ~InsertWaits(r)
           /\ IF owner[hash[r]] # Null THEN Answer(r, "failed") ELSE Goto(r, "job")
           /\ UNCHANGED <<faults, hit>>
  <2>1. faults' \in 0 .. MaxFaults /\ hit' = hit /\ pc[r] = "insert" /\ reply[r] = Null
    BY <1>3 DEF IInv, TypeOK, UploadFits, InsertSample
  <2>2. CASE owner[hash[r]] # Null
    <3>1. MayBe(r, "answered", "failed")
      BY <2>2 DEF MayBe
    <3> QED
      BY <1>1, <1>3, <2>1, <2>2, <3>1, HandlerMoves DEF InsertSample, Answer
  <2>3. CASE owner[hash[r]] = Null
    <3>1. MayBe(r, "job", Null)
      BY <1>3, <2>1, <2>3 DEF MayBe, InsertWaits
    <3>2. pc' = [pc EXCEPT ![r] = "job"] /\ reply' = [reply EXCEPT ![r] = Null]
      BY <1>3, <2>1, <2>3 DEF Goto, IInv, TypeOK
    <3> QED
      BY <1>1, <2>1, <3>1, <3>2, HandlerMoves DEF InsertSample
  <2> QED
    BY <2>2, <2>3
<1> QED
  BY <1>2, <1>3 DEF InsertSample

LEMMA InsertJobKeeps == ASSUME IInv, NEW r \in Requests, InsertJob(r) PROVE IInv'
<1>1. Handling(r)
  BY DEF InsertJob, Handling
<1>2. CASE Fails(r)
  BY <1>1, <1>2, FailsKeeps DEF InsertJob
<1>3. CASE Goto(r, "commit") /\ UNCHANGED <<faults, hit>>
  <2>1. faults' \in 0 .. MaxFaults /\ hit' = hit /\ pc[r] = "job" /\ reply[r] = Null
    BY <1>3 DEF IInv, TypeOK, UploadFits, InsertJob
  <2>2. MayBe(r, "commit", Null)
    BY <2>1 DEF MayBe, IInv, TransactionsFit
  <2>3. pc' = [pc EXCEPT ![r] = "commit"] /\ reply' = [reply EXCEPT ![r] = Null]
    BY <1>3, <2>1 DEF Goto, IInv, TypeOK
  <2> QED
    BY <1>1, <2>1, <2>2, <2>3, HandlerMoves DEF InsertJob
<1> QED
  BY <1>2, <1>3 DEF InsertJob

(* A commit finds no row with its hash, and makes one for a file that was    *)
(* written to its end.                                                      *)
LEMMA CommitKeeps == ASSUME IInv, NEW r \in Requests, Commit(r) PROVE IInv'
<1>1. Handling(r)
  BY DEF Commit, Handling
<1>2. CASE UNCHANGED db /\ Fails(r)
  BY <1>1, <1>2, FailsKeeps DEF Commit
<1>3. CASE /\ Committed(r)
           /\ \/ Answer(r, r) /\ UNCHANGED <<faults, hit>>
              \/ Fails(r)
  <2> USE DEF IInv, disk, copy
  <2>1. /\ pc[r] = "commit" /\ hash[r] \in Hashes /\ owner[hash[r]] = Null /\ jobs[hash[r]] = {}
        /\ offset[r] = Chunks /\ opener[hash[r]] # Null
    BY DEF Commit, TypeOK, UploadFits, TransactionsFit, RowsFit, FilesFit
  <2>2. PICK what \in {r, "failed"} :
          /\ pc' = [pc EXCEPT ![r] = "answered"] /\ reply' = [reply EXCEPT ![r] = what]
          /\ hit \subseteq hit' /\ hit' \subseteq hit \cup {r} /\ (what = "failed" => r \in hit')
          /\ faults' \in 0 .. MaxFaults
    BY <1>3 DEF Answer, Fails, Fault, TypeOK
  <2>3. /\ owner' = [owner EXCEPT ![hash[r]] = r] /\ jobs' = [jobs EXCEPT ![hash[r]] = {r}]
        /\ UNCHANGED <<hash, offset, stored, opener, copyState, copyOf, copyAt, copied>>
    BY <1>3, <2>1 DEF Commit, Committed
  <2>4. TypeOK'
    BY <2>1, <2>2, <2>3 DEF TypeOK
  <2>5. UploadFits'
    BY <2>1, <2>2, <2>3 DEF UploadFits, TypeOK
  <2>6. TransactionsFit'
    BY <2>1, <2>2, <2>3 DEF TransactionsFit, TypeOK
  <2>7. RowsFit'
    <3> SUFFICES ASSUME NEW h \in Hashes
        PROVE  /\ jobs'[h] = IF owner'[h] = Null THEN {} ELSE {owner'[h]}
               /\ owner'[h] # Null => /\ hash[owner'[h]] = h /\ offset[owner'[h]] = Chunks
                                      /\ opener[h] # Null /\ pc'[owner'[h]] \in Over
      BY <2>3 DEF RowsFit
    <3>1. CASE h = hash[r]
      BY <2>1, <2>2, <2>3, <3>1 DEF TypeOK
    <3>2. CASE h # hash[r]
      <4>1. owner'[h] = owner[h] /\ jobs'[h] = jobs[h]
        BY <2>3, <3>2 DEF TypeOK
      <4>2. owner[h] # Null => pc'[owner[h]] \in Over
        BY <2>2, <3>2 DEF RowsFit, TypeOK
      <4> QED
        BY <4>1, <4>2 DEF RowsFit
    <3> QED
      BY <3>1, <3>2
  <2>8. RepliesFit'
    <3> SUFFICES ASSUME NEW s \in Requests
        PROVE  /\ reply'[s] \in Requests => owner'[hash[s]] = reply'[s]
               /\ reply'[s] = "failed" /\ s \notin hit' => owner'[hash[s]] \notin {Null, s}
      BY <2>3 DEF RepliesFit
    <3>1. CASE s = r
      BY <2>1, <2>2, <2>3, <3>1 DEF TypeOK
    <3>2. CASE s # r
      <4>1. reply'[s] = reply[s] /\ (s \in hit' <=> s \in hit)
        BY <2>2, <3>2 DEF TypeOK
      <4>2. CASE reply[s] \in Requests
        <5>1. owner[hash[s]] = reply[s]
          BY <4>2 DEF RepliesFit
        <5>2. hash[s] # hash[r]
          BY <2>1, <4>2, <5>1
        <5> QED
          BY <2>3, <4>1, <4>2, <5>1, <5>2 DEF TypeOK
      <4>3. CASE reply[s] = "failed" /\ s \notin hit
        BY <2>1, <2>3, <4>1, <4>3 DEF RepliesFit, TypeOK
      <4> QED
        BY <4>1, <4>2, <4>3
    <3> QED
      BY <3>1, <3>2
  <2>9. FilesFit'
    BY <2>1, <2>2, <2>3 DEF FilesFit, TypeOK
  <2>10. CopiesFit'
    <3>1. ASSUME NEW c \in Copies, copyState[c] # "idle" PROVE owner'[copyOf[c]] = owner[copyOf[c]]
      BY <2>1, <2>3, <3>1 DEF CopiesFit, TypeOK
    <3> QED
      BY <2>3, <3>1 DEF CopiesFit
  <2> QED
    BY <2>4, <2>5, <2>6, <2>7, <2>8, <2>9, <2>10
<1> QED
  BY <1>2, <1>3 DEF Commit

-----------------------------------------------------------------------------
(* Copies and crashes *)

(* A file whose last opener is the owner of the row is all there. *)
LEMMA OwnersFile ==
  ASSUME IInv, NEW h \in Hashes, owner[h] # Null, opener[h] = owner[h]
  PROVE  stored[h] = Whole
<1>1. offset[opener[h]] = Chunks
  BY DEF IInv, RowsFit
<1>2. 1 .. offset[opener[h]] \subseteq stored[h]
  BY DEF IInv, FilesFit
<1>3. stored[h] \subseteq Whole
  BY DEF IInv, TypeOK
<1> QED
  BY <1>1, <1>2, <1>3

LEMMA CopyKeeps ==
  ASSUME IInv, NEW c \in Copies, OpenSample(c) \/ ReadChunk(c) \/ EndCopy(c) \/ AbortCopy(c)
  PROVE  IInv'
<1> USE DEF IInv, upload, disk, db
<1>1. /\ UNCHANGED <<pc, hash, offset, reply, stored, opener, owner, jobs, hit>>
      /\ faults' \in 0 .. MaxFaults
  BY DEF OpenSample, ReadChunk, EndCopy, AbortCopy, Fault, TypeOK
<1>2. UploadFits' /\ TransactionsFit' /\ RowsFit' /\ RepliesFit' /\ FilesFit'
  BY <1>1 DEF UploadFits, TransactionsFit, RowsFit, RepliesFit, FilesFit
<1>3. TypeOK' /\ CopiesFit'
  <2>1. CASE OpenSample(c)
    <3>1. PICK h \in Hashes :
            /\ jobs[h] # {} /\ copyOf' = [copyOf EXCEPT ![c] = h]
            /\ copyState' = [copyState EXCEPT ![c] = IF opener[h] = Null THEN "failed" ELSE "reading"]
            /\ UNCHANGED <<copyAt, copied>> /\ copyState[c] = "idle"
      BY <2>1 DEF OpenSample
    <3>2. owner[h] # Null
      BY <3>1 DEF RowsFit
    <3>3. TypeOK'
      BY <1>1, <3>1 DEF TypeOK
    <3>4. copyAt[c] = 0
      BY <3>1 DEF CopiesFit
    <3> QED
      BY <1>1, <3>1, <3>2, <3>3, <3>4 DEF CopiesFit, TypeOK
  <2>2. CASE ReadChunk(c)
    <3> DEFINE k == copyAt[c] + 1
               h == copyOf[c]
    <3>1. /\ copyState[c] = "reading" /\ h \in Hashes /\ copyAt[c] \in Nat
          /\ UNCHANGED <<copyState, copyOf>>
          /\ copyAt' = [copyAt EXCEPT ![c] = k]
          /\ copied' = [copied EXCEPT ![c] = @ \cup ({k} \cap stored[h])]
      BY <2>2 DEF ReadChunk, TypeOK
    <3>2. k \in 1 .. Chunks
      BY <2>2, <3>1 DEF ReadChunk, TypeOK
    <3>3. TypeOK'
      BY <1>1, <3>1, <3>2 DEF TypeOK
    <3>4. ASSUME opener[h] = owner[h] PROVE 1 .. k \subseteq copied'[c]
      <4>1. 1 .. copyAt[c] \subseteq copied[c] /\ owner[h] # Null
        BY <3>1, <3>4 DEF CopiesFit
      <4>2. k \in stored[h]
        BY <3>1, <3>2, <3>4, <4>1, OwnersFile
      <4>3. copied'[c] = copied[c] \cup {k}
        BY <3>1, <4>2 DEF TypeOK
      <4>4. 1 .. k = (1 .. copyAt[c]) \cup {k}
        BY <3>1, OneMore
      <4> QED
        BY <4>1, <4>3, <4>4
    <3> QED
      BY <1>1, <3>1, <3>3, <3>4 DEF CopiesFit, TypeOK
  <2>3. CASE EndCopy(c)
    <3> DEFINE h == copyOf[c]
    <3>1. /\ copyState[c] = "reading" /\ h \in Hashes /\ copyAt[c] \in 0 .. Chunks
          /\ UNCHANGED <<copyOf, copyAt, copied>>
          /\ copyState' = [copyState EXCEPT ![c] = "done"]
          /\ \A m \in stored[h] : m <= copyAt[c]
      BY <2>3 DEF EndCopy, TypeOK
    <3>2. TypeOK'
      BY <1>1, <3>1 DEF TypeOK
    <3>3. ASSUME opener[h] = owner[h] PROVE copyAt[c] = Chunks
      <4>1. owner[h] # Null
        BY <3>1 DEF CopiesFit
      <4>2. Chunks \in stored[h]
        BY <3>1, <3>3, <4>1, OwnersFile
      <4> QED
        BY <3>1, <4>2
    <3> QED
      BY <1>1, <3>1, <3>2, <3>3 DEF CopiesFit, TypeOK
  <2>4. CASE AbortCopy(c)
    <3>1. /\ copyState[c] = "reading" /\ UNCHANGED <<copyOf, copyAt, copied>>
          /\ copyState' = [copyState EXCEPT ![c] = "failed"]
      BY <2>4 DEF AbortCopy
    <3> QED
      BY <1>1, <3>1 DEF CopiesFit, TypeOK
  <2> QED
    BY <2>1, <2>2, <2>3, <2>4
<1> QED
  BY <1>2, <1>3

LEMMA CrashKeeps == ASSUME IInv, Crash PROVE IInv'
<1> DEFINE down == {r \in Requests : Handling(r)}
<1> USE DEF IInv, disk, db
<1>1. /\ pc' = [r \in Requests |-> IF r \in down THEN "dead" ELSE pc[r]]
      /\ copyState' = [c \in Copies |-> IF copyState[c] = "reading" THEN "failed" ELSE copyState[c]]
      /\ hit' = hit \cup down /\ down \subseteq Requests
      /\ UNCHANGED <<hash, offset, reply, stored, opener, owner, jobs, copyOf, copyAt, copied>>
      /\ faults' \in 0 .. MaxFaults
  BY DEF Crash, Fault, TypeOK
<1>2. \A r \in Requests : r \in down <=> pc[r] \notin {"idle"} \cup Over
  BY DEF Handling
<1> HIDE DEF down
<1>3. TypeOK'
  BY <1>1, <1>2 DEF TypeOK
<1>4. UploadFits'
  BY <1>1, <1>2 DEF UploadFits, TypeOK
<1>5. TransactionsFit'
  BY <1>1, <1>2 DEF TransactionsFit, TypeOK
<1>6. RowsFit'
  BY <1>1, <1>2 DEF RowsFit, TypeOK
<1>7. RepliesFit'
  BY <1>1 DEF RepliesFit
<1>8. FilesFit'
  BY <1>1, <1>2 DEF FilesFit, TypeOK
<1>9. CopiesFit'
  BY <1>1 DEF CopiesFit, TypeOK
<1> QED
  BY <1>3, <1>4, <1>5, <1>6, <1>7, <1>8, <1>9

LEMMA StutterKeeps == ASSUME IInv, UNCHANGED vars PROVE IInv'
  BY DEF IInv, TypeOK, UploadFits, TransactionsFit, RowsFit, RepliesFit, FilesFit, CopiesFit,
         vars, upload, disk, db, copy

LEMMA Invariance == Spec => []IInv
<1>1. IInv /\ [Next]_vars => IInv'
  <2> SUFFICES ASSUME IInv, [Next]_vars PROVE IInv'
    OBVIOUS
  <2>1. ASSUME NEW r \in Requests, Arrive(r) \/ Handle(r) PROVE IInv'
    BY <2>1, ArriveKeeps, CheckDuplicateKeeps, FindJobKeeps, CreateFileKeeps, WriteChunkKeeps,
       InsertSampleKeeps, InsertJobKeeps, CommitKeeps DEF Handle
  <2> QED
    BY <2>1, CopyKeeps, CrashKeeps, StutterKeeps DEF Next
<1> QED
  BY <1>1, Starts, PTL DEF Spec

-----------------------------------------------------------------------------
(* Theorems *)

(* The types of the handlers, the files, the rows and the copies. *)
THEOREM StoreTypeCorrect == Spec => []TypeOK
<1>1. IInv => TypeOK
  BY DEF IInv
<1> QED
  BY <1>1, Invariance, PTL

(* The unique hash makes one job of all uploads of the same bytes; every     *)
(* answer names it, and who is refused without a fault lost its INSERT to    *)
(* another upload (samples.go:75-98, 122-173).                              *)
THEOREM OneJob == Spec => []OneJobPerSample
<1>1. IInv => OneJobPerSample
  <2> SUFFICES ASSUME IInv, NEW r \in Requests
               PROVE  /\ reply[r] \in Requests => jobs[hash[r]] = {reply[r]}
                      /\ reply[r] = "failed" /\ r \notin hit => jobs[hash[r]] \notin {{}, {r}}
    BY DEF OneJobPerSample, IInv, RowsFit
  <2>1. reply[r] \in Requests \cup {"failed"} => hash[r] \in Hashes
    BY DEF IInv, TypeOK, UploadFits
  <2>2. ASSUME reply[r] \in Requests PROVE jobs[hash[r]] = {reply[r]}
    <3>1. owner[hash[r]] = reply[r]
      BY <2>2 DEF IInv, RepliesFit
    <3> QED
      BY <2>1, <2>2, <3>1 DEF IInv, RowsFit
  <2>3. ASSUME reply[r] = "failed", r \notin hit PROVE jobs[hash[r]] \notin {{}, {r}}
    <3>1. owner[hash[r]] \notin {Null, r}
      BY <2>3 DEF IInv, RepliesFit
    <3>2. jobs[hash[r]] = {owner[hash[r]]}
      BY <2>1, <2>3, <3>1 DEF IInv, RowsFit
    <3> QED
      BY <3>1, <3>2
  <2> QED
    BY <2>2, <2>3
<1> QED
  BY <1>1, Invariance, PTL

(* Only an upload that passed the duplicate check before the row was there   *)
(* can leave the file of a sample in pieces (filesystem.go:26-34).           *)
THEOREM FileIsWhole == Spec => []StoredFileIsWhole
<1>1. IInv => StoredFileIsWhole
  <2> SUFFICES ASSUME IInv, NEW h \in Hashes, owner[h] # Null, stored[h] # Whole
               PROVE  \E r \in Requests \ {owner[h]} :
                         hash[r] = h /\ opener[h] = r /\ (pc[r] = "copy" \/ r \in hit)
    BY DEF StoredFileIsWhole
  <2>1. opener[h] \in Requests
    BY DEF IInv, TypeOK, RowsFit
  <2>2. opener[h] # owner[h]
    BY OwnersFile
  <2>3. /\ hash[opener[h]] = h /\ 1 .. offset[opener[h]] \subseteq stored[h]
        /\ offset[opener[h]] < Chunks => pc[opener[h]] = "copy" \/ opener[h] \in hit
    BY <2>1 DEF IInv, FilesFit
  <2>4. offset[opener[h]] < Chunks
    <3>1. offset[opener[h]] \in 0 .. Chunks /\ stored[h] \in SUBSET Whole
      BY <2>1 DEF IInv, TypeOK
    <3>2. offset[opener[h]] # Chunks
      BY <2>3, <3>1
    <3> QED
      BY <3>1, <3>2
  <2> QED
    BY <2>1, <2>2, <2>3, <2>4
<1> QED
  BY <1>1, Invariance, PTL

(* An analysis whose copy lacks a part of its sample read it while or after  *)
(* another upload emptied the file (windows.go:102-126).                    *)
THEOREM ReadWhole == Spec => []SampleIsReadWhole
<1>1. IInv => SampleIsReadWhole
  <2> SUFFICES ASSUME IInv, NEW c \in Copies, copyState[c] = "done", copied[c] # Whole
               PROVE  opener[copyOf[c]] \notin {Null, owner[copyOf[c]]}
    BY DEF SampleIsReadWhole
  <2>1. copyOf[c] \in Hashes /\ owner[copyOf[c]] # Null
    BY DEF IInv, TypeOK, CopiesFit
  <2>2. opener[copyOf[c]] # Null
    BY <2>1 DEF IInv, RowsFit
  <2>3. ASSUME opener[copyOf[c]] = owner[copyOf[c]] PROVE FALSE
    <3>1. 1 .. copyAt[c] \subseteq copied[c] /\ copyAt[c] = Chunks
      BY <2>3 DEF IInv, CopiesFit
    <3>2. copied[c] \in SUBSET Whole
      BY DEF IInv, TypeOK
    <3> QED
      BY <3>1, <3>2
  <2> QED
    BY <2>2, <2>3
<1> QED
  BY <1>1, Invariance, PTL
=============================================================================
