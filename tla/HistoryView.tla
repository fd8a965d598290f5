----------------------------- MODULE HistoryView -----------------------------
(***************************************************************************)
(* The analysis history (History.jsx): the list it fetches while jobs move  *)
(* on in the service, and what filters, search and paging make of it.  A    *)
(* row has a status and a score; what else a search or the date filter      *)
(* looks at never changes and is a constant of the job.                     *)
(***************************************************************************)
EXTENDS Lists, JobStatus

CONSTANTS MaxJobs,      \* bound: jobs of the service
          PageSize,     \* pageSize, 10 in the code
          MaxCalls,     \* bound: calls of getJobs
          MaxChanges,   \* bound: changes of the service
          Scores,       \* the scores that occur
          Filters,      \* the status pills that are clicked
          Queries,      \* the searches that are typed
          NameOf,       \* of each job, the search that finds its name, hash or type
          Recent        \* the jobs submitted in the last 24 hours

Jobs    == 1 .. MaxJobs
Pills   == {"All", "Malicious", "Suspicious", "Clean", "Completed", "Failed"}
Dates   == {"All Time", "Today"}        \* the other options only differ in the limit
NoQuery == "no query"

ASSUME HistoryAssumption ==
    /\ MaxJobs \in Nat /\ PageSize \in Nat \ {0} /\ MaxCalls \in Nat \ {0} /\ MaxChanges \in Nat
    /\ Scores \subseteq 0 .. 100 /\ Filters \subseteq Pills /\ NoQuery \notin Queries

VARIABLES server,       \* the jobs of the service, newest first
          changes,      \* how often the service has changed
          rawJobs,      \* the jobs of the last answer
          asOf,         \* the change that rawJobs shows
          answers,      \* the getJobs calls under way
          calls,        \* calls made so far
          loading, refreshing, error,
          activeFilter, dateFilter, searchQuery, currentPageNum

service == <<server, changes>>
fetch   == <<rawJobs, asOf, answers, calls, loading, refreshing, error>>
table   == <<activeFilter, dateFilter, searchQuery, currentPageNum>>
vars    == <<service, fetch, table>>

-----------------------------------------------------------------------------
(* What the table shows *)

(* The status column of allAnalyses. *)
Verdict(job) ==
    CASE job.status = "failed"  -> "Failed"
      [] job.status = "running" -> "Running"
      [] job.status = "pending" -> "Pending"
      [] job.status = "completed" /\ job.score = Null -> "Completed"
      [] OTHER -> IF job.score >= 80 THEN "Malicious" ELSE IF job.score >= 40 THEN "Suspicious" ELSE "Clean"

MatchesStatus(job) ==
    \/ activeFilter \in {"All", Verdict(job)}
    \/ activeFilter = "Completed" /\ Verdict(job) \in {"Malicious", "Suspicious", "Clean"}

(* The search also looks at the status column. *)
MatchesSearch(job) == searchQuery \in {NoQuery, NameOf[job.id], Verdict(job)}

Matches(job) ==
    /\ MatchesStatus(job) /\ MatchesSearch(job)
    /\ dateFilter = "Today" => job.id \in Recent

filteredAnalyses == Keep(rawJobs, {i \in DOMAIN rawJobs : Matches(rawJobs[i])})

totalPages == PageCount(filteredAnalyses, PageSize)

(* Refreshing and clearing the filters keep currentPageNum, so it may lie *)
(* behind the last page.                                                  *)
safeCurrentPage == Lesser(currentPageNum, totalPages)

paginatedAnalyses == PageOf(filteredAnalyses, safeCurrentPage, PageSize)

-----------------------------------------------------------------------------

Init ==
    /\ server = <<>> /\ changes = 0
    /\ rawJobs = <<>> /\ asOf = 0 /\ answers = {} /\ calls = 0
    /\ loading = TRUE /\ refreshing = FALSE /\ error = FALSE
    /\ activeFilter = "All" /\ dateFilter = "All Time" /\ searchQuery = NoQuery
    /\ currentPageNum = 1

(* The service: a new job comes first, and each makes the moves its clients *)
(* are promised; requeued, it starts anew.                                  *)
CreateJob ==
    /\ Len(server) < MaxJobs /\ changes < MaxChanges
    /\ server' = <<[id |-> Len(server) + 1, status |-> "pending", score |-> Null]>> \o server
    /\ changes' = changes + 1
    /\ UNCHANGED <<fetch, table>>

AdvanceJob(i) ==
    /\ changes < MaxChanges
    /\ \E s \in {"pending", "running"} \cup Settled :
          /\ ValidTransition(server[i].status, s)
          /\ \E score \in IF s = "completed" THEN Scores \cup {Null} ELSE {Null} :
                server' = [server EXCEPT ![i].status = s, ![i].score = score]
    /\ changes' = changes + 1
    /\ UNCHANGED <<fetch, table>>

-----------------------------------------------------------------------------
(* fetchAnalyses: the effect on mount, then Retry and Refresh *)

Call(manual) ==
    /\ calls < MaxCalls /\ calls' = calls + 1
    /\ answers' = answers \cup {[call |-> calls', served |-> FALSE, jobs |-> <<>>, asOf |-> 0]}
    /\ refreshing' = (manual \/ refreshing) /\ loading' = (~manual \/ loading)
    /\ error' = FALSE
    /\ UNCHANGED <<service, rawJobs, asOf, table>>

FetchOnMount == calls = 0 /\ Call(FALSE)

Retry == error /\ Call(TRUE)

RefreshAnyTime == calls > 0 /\ Call(TRUE)

(* disabled={refreshing || loading} *)
Refresh == calls > 0 /\ ~refreshing /\ ~loading /\ Call(TRUE)

Serve(a) ==
    /\ a \in answers /\ ~a.served
    /\ answers' = (answers \ {a})
                     \cup {[call |-> a.call, served |-> TRUE, jobs |-> server, asOf |-> changes]}
    /\ UNCHANGED <<service, rawJobs, asOf, calls, loading, refreshing, error, table>>

OnlyLoadingEnds == loading' = FALSE /\ refreshing' = refreshing

(* finally *)
CallEnds == loading' = FALSE /\ refreshing' = FALSE

AnswerArrives(a) ==
    /\ a \in answers /\ a.served
    /\ answers' = answers \ {a}
    /\ rawJobs' = a.jobs /\ asOf' = a.asOf
    /\ CallEnds
    /\ UNCHANGED <<service, calls, error, table>>

CallFails(a) ==
    /\ a \in answers /\ ~a.served
    /\ answers' = answers \ {a}
    /\ error' = TRUE
    /\ CallEnds
    /\ UNCHANGED <<service, rawJobs, asOf, calls, table>>

-----------------------------------------------------------------------------
(* Filters and paging *)

FilterToPageZero(f) ==
    /\ activeFilter' = f /\ currentPageNum' = 0
    /\ UNCHANGED <<service, fetch, dateFilter, searchQuery>>

(* A pill, a date or a typed search also goes back to the first page. *)
SetFilter(f) ==
    /\ activeFilter' = f /\ currentPageNum' = 1
    /\ UNCHANGED <<service, fetch, dateFilter, searchQuery>>

SetDate(d) ==
    /\ dateFilter' = d /\ currentPageNum' = 1
    /\ UNCHANGED <<service, fetch, activeFilter, searchQuery>>

SetSearch(q) ==
    /\ searchQuery' = q /\ currentPageNum' = 1
    /\ UNCHANGED <<service, fetch, activeFilter, dateFilter>>

(* The button of an empty result. *)
ClearFilters ==
    /\ ~loading /\ rawJobs # <<>> /\ filteredAnalyses = <<>>
    /\ activeFilter' = "All" /\ dateFilter' = "All Time" /\ searchQuery' = NoQuery
    /\ UNCHANGED <<service, fetch, currentPageNum>>

(* The footer: the buttons look at the clamped page, Previous steps from the *)
(* page as it was last clicked.                                              *)
GoTo(n) == /\ ~loading /\ filteredAnalyses # <<>>
           /\ currentPageNum' = n
           /\ UNCHANGED <<service, fetch, activeFilter, dateFilter, searchQuery>>

PreviousPage == safeCurrentPage > 1 /\ GoTo(IF currentPageNum > 1 THEN currentPageNum - 1 ELSE 1)

NextPage == safeCurrentPage < totalPages /\ GoTo(Lesser(totalPages, currentPageNum + 1))

PageNumber(n) == n \in 1 .. totalPages /\ GoTo(n)

Next ==
    \/ CreateJob \/ \E i \in DOMAIN server : AdvanceJob(i)
    \/ FetchOnMount \/ Retry \/ Refresh
    \/ \E a \in answers : Serve(a) \/ AnswerArrives(a) \/ CallFails(a)
    \/ \E f \in Filters : SetFilter(f)
    \/ \E d \in Dates : SetDate(d)
    \/ \E q \in Queries \cup {NoQuery} : SetSearch(q)
    \/ ClearFilters \/ PreviousPage \/ NextPage
    \/ \E n \in 1 .. MaxJobs : PageNumber(n)

(* The effect runs, and a call is answered or fails. *)
Fairness == /\ WF_vars(FetchOnMount)
            /\ WF_vars(\E a \in answers : Serve(a) \/ AnswerArrives(a) \/ CallFails(a))

Spec == Init /\ [][Next]_vars /\ Fairness

-----------------------------------------------------------------------------
(* Properties *)

JobRows == [id : Jobs, status : {"pending", "running"} \cup Settled, score : Scores \cup {Null}]

(* Types; pages are counted from one, and the list is never from the future. *)
TypeOK ==
    /\ server \in Seq(JobRows) /\ rawJobs \in Seq(JobRows)
    /\ changes \in Nat /\ asOf \in 0 .. changes /\ calls \in 0 .. MaxCalls
    /\ loading \in BOOLEAN /\ refreshing \in BOOLEAN /\ error \in BOOLEAN
    /\ activeFilter \in Filters \cup {"All"} /\ dateFilter \in Dates
    /\ searchQuery \in Queries \cup {NoQuery} /\ currentPageNum \in Nat \ {0}

(* The list never goes back to an older state of the service, although      *)
(* answers carry no sequence number: Refresh is disabled during a call, and  *)
(* the banner with Retry, which is not, disappears when a call begins.       *)
ListNeverOlder == [][asOf' >= asOf]_vars

(* Wherever a refresh, a filter or Clear Filters leaves the page number, a *)
(* non-empty result shows a full page of its rows, and the last page its   *)
(* rest: the table is never empty under a counter that says it is not.     *)
PageIsFilled ==
    filteredAnalyses # <<>> =>
        Len(paginatedAnalyses) = IF safeCurrentPage < totalPages THEN PageSize
                                 ELSE Len(filteredAnalyses) - (totalPages - 1) * PageSize

(* Paging from the first page to the last shows the jobs that match, and no *)
(* others: none falls between two pages, or behind a last page that the     *)
(* counter does not have; and the page that is shown is full.               *)
PagesShowMatches ==
    /\ PageIsFilled
    /\ LET pages == [p \in 1 .. totalPages |-> PageOf(filteredAnalyses, p, PageSize)]
       IN \A i \in DOMAIN rawJobs :
             Matches(rawJobs[i]) <=>
                 \E p \in 1 .. totalPages : \E k \in DOMAIN pages[p] : pages[p][k] = rawJobs[i]

(* The table leaves its loading state, and Refresh is enabled again. *)
LoadingEnds == (loading \/ refreshing) ~> (~loading /\ ~refreshing)
=============================================================================
