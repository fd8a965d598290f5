---------------------------- MODULE DashboardView ----------------------------
(***************************************************************************)
(* One visit of the dashboard (Dashboard.jsx): the sample it is opened on,  *)
(* the report it may still have to fetch, and the search, filter, pages and *)
(* selection of its tables.  The tables share nothing but the sample, so a  *)
(* behaviour uses the controls of one of them.                              *)
(*                                                                         *)
(* Every render computes the rows of every table.  A search that reads a    *)
(* text that is not there throws in it; nothing catches that, and React     *)
(* takes the whole page down.  What the rows are is left to the constant    *)
(* TableRows, which DashboardReports defines from the reports.              *)
(***************************************************************************)
EXTENDS Lists

CONSTANTS Jobs,             \* the jobs a dashboard may be opened on, as getJobDetails answers
          Queries,          \* the searches that are typed
          PageSize,         \* 10 in the code
          RawPageSize,      \* 12 in the code
          NumberedPages,    \* 5 in the code: pages that have a button
          TableRows(_, _)   \* the rows of a table, for a job or for Null

Paged     == {"File System", "Network", "DNS", "Modules", "MITRE ATT&CK", "Raw Events"}
Tables    == Paged \cup {"Behavior", "Processes", "IOCs"}
Selecting == Tables \ {"Behavior", "Network", "DNS"}
Closing   == {"File System", "IOCs"}    \* the tables whose details have a close button
All       == "All"
NoQuery   == "no query"

Header(job) == [job EXCEPT !.analysis_result = Null]    \* as the history passes it

Samples == {Null} \cup Jobs \cup {Header(job) : job \in Jobs}

ASSUME DashboardAssumption ==
    /\ PageSize \in Nat \ {0} /\ RawPageSize \in Nat \ {0} /\ NumberedPages \in Nat \ {0}
    /\ NoQuery \notin Queries

(* Ids are keys of the jobs table. *)
ASSUME JobsAssumption ==
    /\ \A job \in Jobs : {"id", "analysis_result"} \subseteq DOMAIN job
    /\ Null \notin Jobs \cup {Header(job) : job \in Jobs}
    /\ \A j, k \in Jobs : j.id = k.id => j = k

(* The rows of a table are a list, in which no two have the same key: the    *)
(* extractor lists a PID once, the mapper a technique.  The result of a job  *)
(* adds rows after those it has without: at most its hash, an indicator.     *)
ASSUME RowsAssumption ==
    \A t \in Tables :
       /\ \A job \in Samples :
             LET list == TableRows(t, job)
             IN /\ list \in Seq(Values(list))
                /\ \A i, j \in DOMAIN list : list[i].key = list[j].key => i = j
       /\ \A job \in Jobs :
             LET early == TableRows(t, Header(job))
             IN /\ Len(early) <= Len(TableRows(t, job))
                /\ \A i \in DOMAIN early : TableRows(t, job)[i] = early[i]

VARIABLES
    sampleData,     \* the prop: a job without its result, a whole job, or Null
    loadedJob,      \* the fetched job
    details,        \* what the call of getJobDetails will answer, Null if there is none
    activeTab,
    table,          \* the table whose controls are used
    rows,           \* its rows, as the last change of the sample left them
    filter, menuOpen, query, page, selected,
    blank,          \* a render has thrown
    clicked         \* history: the row that was clicked last, by its place in the report

load     == <<sampleData, loadedJob, details>>
controls == <<filter, menuOpen, query, page, selected, clicked>>
vars     == <<load, rows, activeTab, table, controls, blank>>

-----------------------------------------------------------------------------
(* A row of a table is a record: the key a click selects, the searches that *)
(* find it, whether it lacks a text a search reads, and the filter options   *)
(* that show it.                                                            *)

shown == IF loadedJob # Null THEN loadedJob ELSE sampleData

Options ==
    [t \in Tables |->
        CASE t = "Behavior"     -> {"High", "Medium", "Low"}
          [] t = "Processes"    -> {"High / Suspicious Risk", "Root Processes", "Child Processes"}
          [] t = "File System"  -> {"Created", "Modified", "Deleted", "Read"}
          [] t = "Network"      -> {"TCP", "UDP", "HTTPS", "HTTP", "DNS"}
          [] t = "DNS"          -> {"A", "AAAA", "CNAME", "PTR", "MX"}
          [] t = "Modules"      -> {"Unsigned / High Risk", "System Modules"}
          [] t = "MITRE ATT&CK" -> {"execution", "persistence", "defense evasion", "discovery",
                                    "command and control", "initial access"}
          [] t = "IOCs"         -> {"File Hash (SHA256)", "IP Address", "Domain", "Registry Key", "Suspicious File"}
          [] t = "Raw Events"   -> {"process_create", "file_create", "file_modify", "file_delete",
                                    "network_connect", "dns_query", "registry_set", "module_load"}]

-----------------------------------------------------------------------------
(* What is shown of them *)

PassesFilter(row) == filter = All \/ filter \in row.options

Passes(row) == /\ PassesFilter(row)
               /\ query # NoQuery => query \in row.found

Places(list) == {i \in DOMAIN list : Passes(list[i])}

filtered == Keep(rows, Places(rows))

PageLength == IF table = "Raw Events" THEN RawPageSize ELSE PageSize

totalPages == PageCount(filtered, PageLength)

paginated == IF table \in {"Behavior", "Processes"} THEN filtered
             ELSE PageOf(filtered, page, PageLength)

(* The first row of the list that is selected, the first row, the default. *)
SelectedIn(list, default) ==
    Find(list, {i \in DOMAIN list : list[i].key = selected},
         IF list = <<>> THEN default ELSE Head(list))

FirstRow == IF rows = <<>> THEN Null ELSE Head(rows)

InspectedOnPage == SelectedIn(paginated, FirstRow)

(* The details card shows the selected row if the filters leave it there,  *)
(* else the first row.  The process inspector does not ask the filters.    *)
Inspected == IF table = "Processes" THEN SelectedIn(rows, Null) ELSE SelectedIn(filtered, FirstRow)

(* A search calls toLowerCase() on the texts of every row the filter leaves. *)
Throws == query # NoQuery /\ \E row \in Values(rows) : PassesFilter(row) /\ row.unreadable

-----------------------------------------------------------------------------
(* The visit begins; without a result the effect fetches the whole job. *)

DashboardEffect ==
    details = IF sampleData # Null /\ sampleData.analysis_result = Null
              THEN CHOOSE job \in Jobs : job.id = sampleData.id ELSE Null

Init ==
    /\ sampleData \in Samples
    /\ loadedJob = Null /\ DashboardEffect
    /\ activeTab = "Overview" /\ table \in Tables
    /\ rows = TableRows(table, sampleData)
    /\ filter = All /\ menuOpen = FALSE /\ query = NoQuery /\ page = 1
    /\ selected = IF table \in {"File System", "Modules"} THEN 1 ELSE Null
    /\ clicked = Null /\ blank = FALSE

(* Every change renders the page again. *)
Render == blank' = Throws'

DetailsArrive ==
    /\ ~blank /\ details # Null
    /\ loadedJob' = details /\ details' = Null
    /\ rows' = TableRows(table, details)
    /\ UNCHANGED <<sampleData, activeTab, table, controls>>
    /\ Render

DetailsFail ==
    /\ ~blank /\ details # Null
    /\ details' = Null
    /\ UNCHANGED <<sampleData, loadedJob, rows, activeTab, table, controls, blank>>

(* The tab bar, and the View All buttons of the overview. *)
SetActiveTab(tab) ==
    /\ ~blank /\ tab # activeTab
    /\ activeTab' = tab
    /\ UNCHANGED <<load, rows, table, controls, blank>>

-----------------------------------------------------------------------------
(* The controls, common to the tables *)

Using(t) == ~blank /\ activeTab = t /\ table = t

SetQuery(q) ==
    /\ query' = q /\ page' = 1
    /\ UNCHANGED <<load, rows, activeTab, table, filter, menuOpen, selected, clicked>>
    /\ Render

ToggleMenu ==
    /\ menuOpen' = ~menuOpen
    /\ UNCHANGED <<load, rows, activeTab, table, filter, query, page, selected, clicked, blank>>

ChooseFilter(f) ==
    /\ menuOpen /\ filter' = f /\ menuOpen' = FALSE /\ page' = 1
    /\ UNCHANGED <<load, rows, activeTab, table, query, selected, clicked>>
    /\ Render

Turn(n) == /\ page' = n
           /\ UNCHANGED <<load, rows, activeTab, table, filter, menuOpen, query, selected, clicked, blank>>

(* The buttons of the pager: the pages they lead to from page p of last. *)
LeftUnchecked(p) == {p - 1}

LeftArrow(p) == IF p > 1 THEN {p - 1} ELSE {}

RightNumbered(p, last) == IF p < last /\ p < NumberedPages THEN {p + 1} ELSE {}

RightArrow(p, last) == IF p < last THEN {p + 1} ELSE {}

PageNumbers(last) == {n \in 1 .. NumberedPages : n <= last}

Buttons(p, last) == LeftArrow(p) \cup PageNumbers(last) \cup RightArrow(p, last)

Pager == \E n \in Buttons(page, totalPages) : Turn(n)

Tools == \/ \E q \in Queries \cup {NoQuery} : SetQuery(q)
         \/ ToggleMenu
         \/ \E f \in Options[table] \cup {All} : ChooseFilter(f)

SelectRow ==
    LET list == paginated
    IN \E i \in DOMAIN list, place \in DOMAIN rows :
        /\ rows[place] = list[i]
        /\ selected' = list[i].key /\ clicked' = place
        /\ UNCHANGED <<load, rows, activeTab, table, filter, menuOpen, query, page, blank>>

CloseDetails ==
    /\ Inspected # Null
    /\ selected' = Null /\ clicked' = Null
    /\ UNCHANGED <<load, rows, activeTab, table, filter, menuOpen, query, page, blank>>

(* Show All of the process table. *)
ShowAll ==
    /\ query' = NoQuery /\ filter' = All
    /\ UNCHANGED <<load, rows, activeTab, table, menuOpen, page, selected, clicked>>
    /\ Render

-----------------------------------------------------------------------------
(* The tabs *)

TimelineMenu   == Using("Behavior") /\ (ToggleMenu \/ \E f \in Options["Behavior"] \cup {All} : ChooseFilter(f))
ProcessTools   == Using("Processes") /\ (Tools \/ ShowAll)
ProcessTable   == Using("Processes") /\ SelectRow
FileTools      == Using("File System") /\ Tools
FileTable      == Using("File System") /\ (SelectRow \/ Pager)
FileDetails    == Using("File System") /\ CloseDetails
NetworkTools   == Using("Network") /\ Tools
NetworkTable   == Using("Network") /\ Pager
DnsTools       == Using("DNS") /\ Tools
DnsTable       == Using("DNS") /\ Pager
ModuleTools    == Using("Modules") /\ Tools
ModuleTable    == Using("Modules") /\ (SelectRow \/ Pager)
TechniqueTools == Using("MITRE ATT&CK") /\ Tools
TechniqueTable == Using("MITRE ATT&CK") /\ (SelectRow \/ Pager)
IocTools       == Using("IOCs") /\ Tools
IocTable       == Using("IOCs") /\ SelectRow     \* its footer has no pager
IocDetails     == Using("IOCs") /\ CloseDetails
RawTools       == Using("Raw Events") /\ Tools
RawTable       == Using("Raw Events") /\ (SelectRow \/ Pager)

Next ==
    \/ DetailsArrive \/ DetailsFail
    \/ \E tab \in {"Overview", table} : SetActiveTab(tab)
    \/ TimelineMenu
    \/ ProcessTools \/ ProcessTable
    \/ FileTools \/ FileTable \/ FileDetails
    \/ NetworkTools \/ NetworkTable
    \/ DnsTools \/ DnsTable
    \/ ModuleTools \/ ModuleTable
    \/ TechniqueTools \/ TechniqueTable
    \/ IocTools \/ IocTable \/ IocDetails
    \/ RawTools \/ RawTable

Spec == Init /\ [][Next]_vars

-----------------------------------------------------------------------------
(* Properties *)

(* Types; there is no page before the first, and the job that is fetched is the one shown. *)
TypeOK ==
    /\ loadedJob # Null => loadedJob.id = sampleData.id /\ details = Null
    /\ details # Null => details.id = sampleData.id
    /\ activeTab \in {"Overview", table} /\ table \in Tables
    /\ filter \in Options[table] \cup {All} /\ menuOpen \in BOOLEAN
    /\ query \in Queries \cup {NoQuery} /\ page \in Nat \ {0}
    /\ blank \in BOOLEAN

(* Pages are cut without clamping the page number, so a page behind the last *)
(* one would be empty under a counter that says otherwise.  It stays in      *)
(* range because every search and filter goes back to the first page, and    *)
(* because there are no pages before the report has arrived.                 *)
PageInRange == ~blank => page \in 1 .. totalPages

(* The details card shows the row that was clicked for as long as the search *)
(* and the filter leave it in the table, on whatever page, through a report  *)
(* that arrives late; and never a row they hide while they leave another.    *)
SelectionSticks ==
    (table \in Selecting /\ ~blank) =>
        /\ clicked # Null =>
             LET row == rows[clicked]
             IN (table = "Processes" \/ Passes(row)) => Inspected = row
        /\ (table # "Processes" /\ filtered # <<>>) => Inspected \in Values(filtered)

(* The pages that clicks on the pager lead to. *)
PagesWithin ==
    LET last == totalPages
        reached[clicks \in 0 .. last] ==
          IF clicks = 0 THEN {page}
          ELSE reached[clicks - 1] \cup UNION {Buttons(p, last) : p \in reached[clicks - 1]}
    IN reached[last]

(* Every row the search and the filter leave can be brought up by clicks on  *)
(* the pager, from any page: the numbered buttons end at the fifth page, the *)
(* arrows lead on and back, and the slices leave no row out.  The table of   *)
(* indicators is not among them, it has no pager.  And no page that is shown *)
(* is empty while there are rows.                                           *)
EveryRowIsReachable ==
    /\ PageInRange
    /\ (table \in Paged /\ ~blank) =>
          LET list == filtered
          IN {rows[i] : i \in Places(rows)}
                \subseteq UNION {Values(PageOf(list, p, PageLength)) : p \in PagesWithin \cap 1 .. totalPages}

=============================================================================
