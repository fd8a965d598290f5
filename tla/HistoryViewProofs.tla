-------------------------- MODULE HistoryViewProofs --------------------------
(***************************************************************************)
(* The history list never goes back, and its pages show the jobs that match *)
(* the filters, for any number of jobs and calls and any page size.  What    *)
(* filters and paging make of a list is taken from ListLemmas.               *)
(***************************************************************************)
EXTENDS HistoryView, ListLemmas

(* What a call was served lies between the table and the service. *)
CallFits(a) == a.served => a.asOf \in asOf .. changes

(* The buttons let a call begin only when none is under way: Refresh looks  *)
(* at loading and refreshing, Retry is there only after a failure.          *)
OneCall ==
  /\ \A a, b \in answers : a = b
  /\ answers # {} => loading \/ refreshing
  /\ error \/ calls = 0 => answers = {}

IInv == /\ changes \in Nat /\ asOf \in 0 .. changes /\ calls \in Nat
        /\ OneCall /\ \A a \in answers : CallFits(a)

-----------------------------------------------------------------------------

(* The page is mounted without a call. *)
LEMMA Begins == Init => IInv
<1> SUFFICES ASSUME Init PROVE IInv
  OBVIOUS
<1>1. answers = {} /\ asOf = 0 /\ changes = 0 /\ calls = 0 /\ loading
  BY Zenon DEF Init
<1>2. OneCall
  BY <1>1, Zenon DEF OneCall
<1> QED
  BY <1>1, <1>2 DEF IInv

(* The service moves on, which only widens what an answer may show. *)
LEMMA ServiceKeeps ==
  ASSUME IInv, changes' = changes + 1, UNCHANGED fetch
  PROVE  IInv' /\ asOf' >= asOf
<1>1. \A a \in answers : CallFits(a)'
  BY DEF IInv, CallFits, fetch
<1> QED
  BY <1>1 DEF IInv, OneCall, fetch

(* Filters and paging do not touch the calls. *)
LEMMA TableKeeps ==
  ASSUME IInv, UNCHANGED <<changes, fetch>>
  PROVE  IInv' /\ asOf' >= asOf
  BY DEF IInv, OneCall, CallFits, fetch

(* A call begins alone. *)
LEMMA CallKeeps ==
  ASSUME IInv, NEW manual \in BOOLEAN, answers = {}, Call(manual)
  PROVE  IInv' /\ asOf' >= asOf
<1>1. PICK a : answers' = {a} /\ ~a.served /\ UNCHANGED <<changes, asOf>>
  <2> DEFINE a == [call |-> calls', served |-> FALSE, jobs |-> <<>>, asOf |-> 0]
  <2>1. answers' = {a} /\ UNCHANGED <<changes, asOf>>
    BY DEF Call, service
  <2>2. ~a.served
    OBVIOUS
  <2> HIDE DEF a
  <2> QED
    BY <2>1, <2>2
<1>2. \A b \in answers' : CallFits(b)'
  BY <1>1 DEF CallFits
<1>3. ~error' /\ (loading' \/ refreshing')
  BY Zenon DEF Call
<1>4. calls' = calls + 1 /\ calls \in Nat /\ calls' \in Nat /\ calls' # 0
  BY DEF Call, IInv
<1>5. OneCall'
  BY <1>1, <1>3, <1>4, Zenon DEF OneCall
<1> QED
  BY <1>1, <1>2, <1>4, <1>5 DEF IInv

(* The service answers with its jobs of this moment. *)
LEMMA ServeKeeps ==
  ASSUME IInv, NEW a \in answers, Serve(a)
  PROVE  IInv' /\ asOf' >= asOf
<1>1. PICK b : /\ answers = {a} /\ answers' = {b} /\ b.asOf = changes
               /\ UNCHANGED <<changes, asOf, calls, loading, refreshing, error>>
  BY DEF IInv, OneCall, Serve, service
<1>2. \A c \in answers' : CallFits(c)'
  BY <1>1 DEF IInv, CallFits
<1>3. OneCall'
  <2>1. answers # {} /\ answers' # {} /\ (\A c, d \in answers' : c = d)
    BY <1>1
  <2>2. (loading \/ refreshing) /\ ~error /\ calls # 0
    BY <2>1, Zenon DEF IInv, OneCall
  <2> QED
    BY <1>1, <2>1, <2>2, Zenon DEF OneCall
<1> QED
  BY <1>1, <1>2, <1>3 DEF IInv

(* The one call ends; its answer is not older than the table. *)
LEMMA EndKeeps ==
  ASSUME IInv, NEW a \in answers, AnswerArrives(a) \/ CallFails(a)
  PROVE  IInv' /\ asOf' >= asOf
<1>1. answers' = {} /\ changes' = changes /\ calls' = calls
  BY DEF IInv, OneCall, AnswerArrives, CallFails, service
<1>2. asOf' \in asOf .. changes
  BY DEF IInv, CallFits, AnswerArrives, CallFails
<1> QED
  BY <1>1, <1>2 DEF IInv, OneCall

(* Every step keeps the invariant, and the table does not go back. *)
LEMMA Step == ASSUME IInv, [Next]_vars PROVE IInv' /\ asOf' >= asOf
<1>1. CASE CreateJob \/ \E i \in DOMAIN server : AdvanceJob(i)
  BY <1>1, ServiceKeeps DEF CreateJob, AdvanceJob
<1>2. CASE FetchOnMount \/ Retry \/ Refresh
  BY <1>2, CallKeeps DEF FetchOnMount, Retry, Refresh, IInv, OneCall
<1>3. CASE \E a \in answers : Serve(a) \/ AnswerArrives(a) \/ CallFails(a)
  BY <1>3, ServeKeeps, EndKeeps
<1>4. CASE \/ \E f \in Filters : SetFilter(f)
           \/ \E d \in Dates : SetDate(d)
           \/ \E q \in Queries \cup {NoQuery} : SetSearch(q)
           \/ ClearFilters \/ PreviousPage \/ NextPage
           \/ \E n \in 1 .. MaxJobs : PageNumber(n)
  BY <1>4, TableKeeps
     DEF SetFilter, SetDate, SetSearch, ClearFilters, PreviousPage, NextPage, PageNumber, GoTo, service
<1>5. CASE UNCHANGED vars
  BY <1>5, TableKeeps DEF vars, service
<1> QED
  BY <1>1, <1>2, <1>3, <1>4, <1>5 DEF Next

(* No answer shows an older state of the service than the table does,      *)
(* because no two calls are ever under way (History.jsx:43-61, 373-420).    *)
THEOREM NeverOlder == Spec => ListNeverOlder
<1>1. IInv /\ [Next]_vars => IInv'
  BY Step
<1>2. IInv /\ [Next]_vars => [asOf' >= asOf]_vars
  BY Step
<1> QED
  BY Begins, <1>1, <1>2, PTL DEF Spec, ListNeverOlder

-----------------------------------------------------------------------------
(* Types *)

(* The answers under way carry lists of jobs too. *)
TInv == TypeOK /\ \A a \in answers : a.jobs \in Seq(JobRows)

(* A filtered list has its pages, the first one even if it is empty. *)
LEMMA Filtered ==
  ASSUME TypeOK
  PROVE  /\ filteredAnalyses \in Seq(JobRows)
         /\ totalPages \in Nat \ {0}
         /\ safeCurrentPage \in 1 .. totalPages
<1>1. filteredAnalyses \in Seq(JobRows)
  <2>1. rawJobs \in Seq(JobRows)
    BY DEF TypeOK
  <2>2. {i \in DOMAIN rawJobs : Matches(rawJobs[i])} \in SUBSET (1 .. Len(rawJobs))
    BY <2>1
  <2> QED
    BY <2>1, <2>2, KeepMembers DEF filteredAnalyses
<1>2. totalPages \in Nat \ {0}
  BY <1>1, PagesCover, HistoryAssumption DEF totalPages
<1> QED
  BY <1>1, <1>2 DEF TypeOK, safeCurrentPage, Lesser

(* The page is mounted with an empty table. *)
LEMMA TypeBegins == Init => TInv
<1> SUFFICES ASSUME Init PROVE TInv
  OBVIOUS
<1>1. server = <<>> /\ rawJobs = <<>> /\ answers = {}
  BY Zenon DEF Init
<1>2. loading \in BOOLEAN /\ refreshing \in BOOLEAN /\ error \in BOOLEAN
  BY Zenon DEF Init
<1>3. changes = 0 /\ asOf = 0 /\ calls = 0 /\ currentPageNum = 1
  BY Zenon DEF Init
<1>4. activeFilter = "All" /\ dateFilter = "All Time" /\ searchQuery = NoQuery
  BY Zenon DEF Init
<1>5. server \in Seq(JobRows) /\ rawJobs \in Seq(JobRows) /\ \A a \in answers : a.jobs \in Seq(JobRows)
  BY <1>1
<1>6. changes \in Nat /\ asOf \in 0 .. changes /\ calls \in 0 .. MaxCalls /\ currentPageNum \in Nat \ {0}
  BY <1>3, HistoryAssumption
<1>7. activeFilter \in Filters \cup {"All"} /\ dateFilter \in Dates /\ searchQuery \in Queries \cup {NoQuery}
  BY <1>4 DEF Dates
<1> QED
  BY <1>2, <1>5, <1>6, <1>7, Zenon DEF TInv, TypeOK

(* Jobs are created and advanced as rows of the list. *)
LEMMA ServiceTypes ==
  ASSUME TInv, CreateJob \/ \E i \in DOMAIN server : AdvanceJob(i)
  PROVE  TInv'
<1>1. server' \in Seq(JobRows)
  <2>1. CASE CreateJob
    <3> DEFINE job == [id |-> Len(server) + 1, status |-> "pending", score |-> Null]
    <3>1. job \in JobRows
      BY <2>1, HistoryAssumption DEF CreateJob, TInv, TypeOK, JobRows, Jobs
    <3>2. server' = <<job>> \o server
      BY <2>1 DEF CreateJob
    <3> HIDE DEF job
    <3> QED
      BY <3>1, <3>2 DEF TInv, TypeOK
  <2>2. ASSUME NEW i \in DOMAIN server, AdvanceJob(i) PROVE server' \in Seq(JobRows)
    <3>1. server \in Seq(JobRows) /\ server[i] \in JobRows
      BY DEF TInv, TypeOK
    <3>2. PICK job \in JobRows : server' = [server EXCEPT ![i] = job]
      <4>1. PICK s \in {"pending", "running"} \cup Settled, score \in Scores \cup {Null} :
               server' = [server EXCEPT ![i].status = s, ![i].score = score]
        BY <2>2 DEF AdvanceJob
      <4>2. [[server[i] EXCEPT !.status = s] EXCEPT !.score = score] \in JobRows
        BY <3>1 DEF JobRows
      <4>3. server' = [server EXCEPT ![i] = [[server[i] EXCEPT !.status = s] EXCEPT !.score = score]]
        BY <3>1, <4>1
      <4> QED
        BY <4>2, <4>3
    <3> QED
      BY <3>1, <3>2
  <2> QED
    BY <2>1, <2>2
<1>2. changes' = changes + 1 /\ UNCHANGED <<fetch, table>>
  BY DEF CreateJob, AdvanceJob
<1> QED
  BY <1>1, <1>2 DEF TInv, TypeOK, fetch, table

(* A call begins with an empty answer. *)
LEMMA CallTypes ==
  ASSUME TInv, FetchOnMount \/ Retry \/ Refresh
  PROVE  TInv'
<1>1. PICK manual \in BOOLEAN : Call(manual)
  BY DEF FetchOnMount, Retry, Refresh
<1>2. ASSUME NEW a \in answers' PROVE a.jobs \in Seq(JobRows)
  <2>1. CASE a \in answers
    BY <2>1 DEF TInv
  <2>2. CASE a = [call |-> calls', served |-> FALSE, jobs |-> <<>>, asOf |-> 0]
    BY <2>2
  <2> QED
    BY <1>1, <2>1, <2>2 DEF Call
<1>3. calls' \in 0 .. MaxCalls /\ refreshing' \in BOOLEAN /\ loading' \in BOOLEAN /\ error' \in BOOLEAN
  <2>1. calls' \in 0 .. MaxCalls
    BY <1>1, HistoryAssumption DEF Call, TInv, TypeOK
  <2>2. refreshing' \in BOOLEAN /\ loading' \in BOOLEAN /\ error' \in BOOLEAN
    BY <1>1, Zenon DEF Call, TInv, TypeOK
  <2> QED
    BY <2>1, <2>2
<1>4. UNCHANGED <<service, rawJobs, asOf, table>>
  BY <1>1 DEF Call
<1> QED
  BY <1>2, <1>3, <1>4 DEF TInv, TypeOK, service, table

(* Answers bring rows, and no change that is still to come. *)
LEMMA AnswerTypes ==
  ASSUME TInv, IInv, NEW a \in answers, Serve(a) \/ AnswerArrives(a) \/ CallFails(a)
  PROVE  TInv'
<1>1. CASE Serve(a)
  <2>1. ASSUME NEW b \in answers' PROVE b.jobs \in Seq(JobRows)
    BY <1>1 DEF Serve, TInv, TypeOK
  <2>2. UNCHANGED <<service, rawJobs, asOf, calls, loading, refreshing, error, table>>
    BY <1>1 DEF Serve
  <2> QED
    BY <2>1, <2>2 DEF TInv, TypeOK, service, table
<1>2. CASE AnswerArrives(a)
  <2>1. /\ answers' \subseteq answers /\ rawJobs' = a.jobs /\ asOf' = a.asOf
        /\ loading' = FALSE /\ refreshing' = FALSE
        /\ UNCHANGED <<service, calls, error, table>>
    BY <1>2 DEF AnswerArrives, CallEnds
  <2>2. asOf' \in 0 .. changes'
    <3>1. asOf' \in asOf .. changes
      BY <1>2, <2>1 DEF AnswerArrives, IInv, CallFits
    <3> QED
      BY <2>1, <3>1 DEF IInv, service
  <2> QED
    BY <2>1, <2>2 DEF TInv, TypeOK, service, table
<1>3. CASE CallFails(a)
  BY <1>3 DEF CallFails, CallEnds, TInv, TypeOK, service, table
<1> QED
  BY <1>1, <1>2, <1>3

(* The controls set the page to one or to a page the table has. *)
LEMMA ControlTypes ==
  ASSUME TInv,
         \/ \E f \in Filters : SetFilter(f)
         \/ \E d \in Dates : SetDate(d)
         \/ \E q \in Queries \cup {NoQuery} : SetSearch(q)
         \/ ClearFilters \/ PreviousPage \/ NextPage
         \/ \E n \in 1 .. MaxJobs : PageNumber(n)
  PROVE  TInv'
<1> USE DEF TInv, TypeOK, service, fetch
<1>1. CASE \E f \in Filters : SetFilter(f)
  BY <1>1 DEF SetFilter
<1>2. CASE \E d \in Dates : SetDate(d)
  BY <1>2 DEF SetDate
<1>3. CASE \E q \in Queries \cup {NoQuery} : SetSearch(q)
  BY <1>3 DEF SetSearch
<1>4. CASE ClearFilters
  BY <1>4 DEF ClearFilters, Dates
<1>5. CASE PreviousPage
  BY <1>5 DEF PreviousPage, GoTo
<1>6. CASE NextPage
  <2>1. currentPageNum' = Lesser(totalPages, currentPageNum + 1)
    BY <1>6 DEF NextPage, GoTo
  <2>2. currentPageNum' \in Nat \ {0}
    BY <2>1, Filtered DEF Lesser
  <2> QED
    BY <1>6, <2>2 DEF NextPage, GoTo
<1>7. CASE \E n \in 1 .. MaxJobs : PageNumber(n)
  BY <1>7, HistoryAssumption DEF PageNumber, GoTo
<1> QED
  BY <1>1, <1>2, <1>3, <1>4, <1>5, <1>6, <1>7

(* Every step keeps the types. *)
LEMMA TypeStep == ASSUME TInv, IInv, [Next]_vars PROVE TInv'
<1>1. CASE UNCHANGED vars
  BY <1>1 DEF TInv, TypeOK, vars, service, fetch, table
<1> QED
  BY <1>1, ServiceTypes, CallTypes, AnswerTypes, ControlTypes DEF Next

(* The page number is never zero and the list is never from the future      *)
(* (History.jsx:26-61, 121-165, 540-745).                                    *)
THEOREM HistoryTypeCorrect == Spec => []TypeOK
<1>1. Init => TInv /\ IInv
  BY TypeBegins, Begins
<1>2. TInv /\ IInv /\ [Next]_vars => (TInv /\ IInv)'
  BY TypeStep, Step
<1>3. TInv => TypeOK
  BY DEF TInv
<1> QED
  BY <1>1, <1>2, <1>3, PTL DEF Spec

-----------------------------------------------------------------------------

(* The page the table clamps to is full, or has the rest of the list. *)
LEMMA Fills == TypeOK => PageIsFilled
<1> SUFFICES ASSUME TypeOK, filteredAnalyses # <<>>
             PROVE  Len(paginatedAnalyses) = IF safeCurrentPage < totalPages THEN PageSize
                      ELSE Len(filteredAnalyses) - (totalPages - 1) * PageSize
  BY DEF PageIsFilled
<1> QED
  BY Filtered, PageBounds, HistoryAssumption DEF paginatedAnalyses, totalPages

(* Whatever a refresh or Clear Filters leaves in currentPageNum, the table   *)
(* has the rows its counter announces.                                       *)
THEOREM TableIsFilled == Spec => []PageIsFilled
  BY HistoryTypeCorrect, Fills, PTL

(* A row matches exactly if one of the pages has it. *)
LEMMA Shows == TypeOK => PagesShowMatches
<1> DEFINE places == {i \in DOMAIN rawJobs : Matches(rawJobs[i])}
<1> SUFFICES ASSUME TypeOK, NEW i \in DOMAIN rawJobs
             PROVE  Matches(rawJobs[i]) <=>
                      \E p \in 1 .. totalPages : \E k \in DOMAIN PageOf(filteredAnalyses, p, PageSize) :
                         PageOf(filteredAnalyses, p, PageSize)[k] = rawJobs[i]
  BY Fills DEF PagesShowMatches
<1>1. /\ filteredAnalyses \in Seq(JobRows)
      /\ \A k \in 1 .. Len(filteredAnalyses) : \E j \in places : filteredAnalyses[k] = rawJobs[j]
      /\ \A j \in places : \E k \in 1 .. Len(filteredAnalyses) : filteredAnalyses[k] = rawJobs[j]
  <2>1. rawJobs \in Seq(JobRows) /\ places \in SUBSET (1 .. Len(rawJobs))
    BY DEF TypeOK
  <2> HIDE DEF places
  <2>2. filteredAnalyses = Keep(rawJobs, places)
    BY DEF filteredAnalyses, places
  <2> QED
    BY <2>1, <2>2, KeepMembers
<1>2. ASSUME Matches(rawJobs[i])
      PROVE  \E p \in 1 .. totalPages : \E k \in DOMAIN PageOf(filteredAnalyses, p, PageSize) :
                PageOf(filteredAnalyses, p, PageSize)[k] = rawJobs[i]
  <2>1. PICK l \in 1 .. Len(filteredAnalyses) : filteredAnalyses[l] = rawJobs[i]
    BY <1>1, <1>2
  <2>2. PICK p \in 1 .. totalPages : \E k \in 1 .. Len(PageOf(filteredAnalyses, p, PageSize)) :
           PageOf(filteredAnalyses, p, PageSize)[k] = filteredAnalyses[l]
    <3>1. filteredAnalyses \in Seq(JobRows) /\ PageSize \in Nat \ {0}
      BY <1>1, HistoryAssumption
    <3>2. PICK p, k : OnPage(filteredAnalyses, PageSize, l, p, k)
      BY <3>1, PagesPartition
    <3> QED
      BY <3>2, Zenon DEF OnPage, totalPages
  <2>3. PageOf(filteredAnalyses, p, PageSize) \in Seq(JobRows)
    BY <1>1, <2>1, PageBounds, HistoryAssumption DEF totalPages
  <2> QED
    BY <2>1, <2>2, <2>3
<1>3. ASSUME NEW p \in 1 .. totalPages, NEW k \in DOMAIN PageOf(filteredAnalyses, p, PageSize),
             PageOf(filteredAnalyses, p, PageSize)[k] = rawJobs[i]
      PROVE  Matches(rawJobs[i])
  <2>1. PICK l \in 1 .. Len(filteredAnalyses) : filteredAnalyses[l] = rawJobs[i]
    BY <1>1, <1>3, PageElements, HistoryAssumption DEF totalPages
  <2> QED
    BY <1>1, <2>1
<1> QED
  BY <1>2, <1>3

(* The filters and the paging together show each job that matches, and no   *)
(* job that does not.                                                        *)
THEOREM TableShowsMatches == Spec => []PagesShowMatches
  BY HistoryTypeCorrect, Shows, PTL
=============================================================================
