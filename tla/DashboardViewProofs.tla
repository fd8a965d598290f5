------------------------ MODULE DashboardViewProofs ------------------------
(***************************************************************************)
(* The pager and the details card of the dashboard, for every report, every *)
(* page size and every search: the page number never leaves the pages, and  *)
(* the card shows the row that was clicked.  Both have to survive a report   *)
(* that arrives while the tables are in use.                                *)
(***************************************************************************)
EXTENDS ReportRows, ListLemmas

(* The rows are those of the job shown; a report under way is of the job the *)
(* visit was opened on, which was passed without its result or is whole.    *)
LoadFits ==
  /\ table \in Tables /\ shown \in Samples /\ rows = TableRows(table, shown)
  /\ details # Null => details \in Jobs /\ loadedJob = Null /\ sampleData \in {details, Header(details)}
  /\ loadedJob # Null => loadedJob \in Jobs /\ details = Null /\ loadedJob.id = sampleData.id

(* Tables without a pager stay on their first page: they are not cut, and   *)
(* Show All of the process table does not go back.                          *)
PageFits == page \in 1 .. totalPages /\ (table \notin Paged => page = 1)

(* The row clicked last is still there, and it is the one selected. *)
ClickFits == clicked # Null => clicked \in DOMAIN rows /\ rows[clicked].key = selected

(* The values the controls take. *)
ControlsFit ==
  /\ activeTab \in {"Overview", table} /\ filter \in Options[table] \cup {All}
  /\ menuOpen \in BOOLEAN /\ query \in Queries \cup {NoQuery} /\ blank \in BOOLEAN

IInv == LoadFits /\ PageFits /\ ClickFits /\ ControlsFit

-----------------------------------------------------------------------------
(* Facts about the rows and what the filters leave of them *)

(* The rows are a list, and no two have the same key. *)
LEMMA RowsAreATable ==
  ASSUME LoadFits
  PROVE  /\ rows \in Seq(Values(rows))
         /\ \A i, j \in DOMAIN rows : rows[i].key = rows[j].key => i = j
  BY RowsAssumption DEF LoadFits

(* The filters leave the rows that pass them, and these have pages. *)
LEMMA FilteredRows ==
  ASSUME LoadFits
  PROVE  /\ filtered \in Seq(Values(rows))
         /\ \A k \in 1 .. Len(filtered) : \E i \in Places(rows) : filtered[k] = rows[i]
         /\ \A i \in Places(rows) : \E k \in 1 .. Len(filtered) : filtered[k] = rows[i]
         /\ Len(filtered) = Cardinality(Places(rows))
         /\ Places(rows) \in SUBSET (1 .. Len(rows)) /\ IsFiniteSet(Places(rows))
         /\ PageLength \in Nat \ {0} /\ totalPages \in Nat \ {0}
<1>1. rows \in Seq(Values(rows)) /\ Places(rows) \in SUBSET (1 .. Len(rows))
  BY RowsAreATable DEF Places
<1>2. /\ filtered \in Seq(Values(rows))
      /\ \A k \in 1 .. Len(filtered) : \E i \in Places(rows) : filtered[k] = rows[i]
      /\ \A i \in Places(rows) : \E k \in 1 .. Len(filtered) : filtered[k] = rows[i]
  BY <1>1, KeepMembers DEF filtered
<1>3. IsFiniteSet(Places(rows)) /\ Len(filtered) = Cardinality(Places(rows))
  BY <1>1, KeepLength DEF filtered
<1>4. PageLength \in Nat \ {0}
  BY DashboardAssumption DEF PageLength
<1>5. totalPages \in Nat \ {0}
  BY <1>2, <1>4, PagesCover DEF totalPages
<1> QED
  BY <1>1, <1>2, <1>3, <1>4, <1>5

(* FilteredRows in the next state. *)
HasPages == totalPages \in Nat \ {0}

(* In the next state too there is a page. *)
LEMMA PagesLater == LoadFits' => HasPages'
<1>1. LoadFits => HasPages
  BY FilteredRows DEF HasPages
<1> QED
  BY <1>1, PTL

(* The pages depend on the rows, the filter and the search alone. *)
LEMMA SameRows ==
  ASSUME UNCHANGED <<table, rows, filter, query>>
  PROVE  totalPages' = totalPages
  BY DEF totalPages, PageLength, filtered, Places, Passes, PassesFilter

(* More elements have no fewer pages. *)
LEMMA PagesGrow ==
  ASSUME NEW m \in Nat, NEW n \in Nat, m <= n, NEW s \in Nat \ {0}
  PROVE  (m + s - 1) \div s <= (n + s - 1) \div s
  OBVIOUS

(* What does not touch the sample leaves its rows in place. *)
LEMMA LoadSame ==
  ASSUME LoadFits, UNCHANGED <<load, table, rows>>
  PROVE  LoadFits'
  BY DEF LoadFits, load, shown

(* A render throws or does not. *)
LEMMA ThrowsIsBoolean == Throws' \in BOOLEAN
  BY Zenon DEF Throws

-----------------------------------------------------------------------------
(* The late report *)

(* The report that arrives late only adds rows: those that passed the       *)
(* filters still do, at their places, so there are no fewer pages.           *)
LEMMA ArriveKeeps ==
  ASSUME IInv, DetailsArrive
  PROVE  IInv'
<1>1. /\ details \in Jobs /\ loadedJob = Null /\ sampleData \in {details, Header(details)}
      /\ shown = sampleData /\ table' = table /\ UNCHANGED controls /\ activeTab' = activeTab
      /\ loadedJob' = details /\ details' = Null /\ sampleData' = sampleData
      /\ rows' = TableRows(table, details) /\ rows = TableRows(table, sampleData)
      /\ table \in Tables /\ blank' \in BOOLEAN
  BY ThrowsIsBoolean DEF IInv, LoadFits, DetailsArrive, Render, shown
<1>2. LoadFits'
  <2>1. details # Null /\ details.id = sampleData.id
    <3>1. details # Null
      BY <1>1, JobsAssumption
    <3>2. Header(details).id = details.id
      BY <1>1, JobsAssumption DEF Header
    <3> QED
      BY <1>1, <3>1, <3>2
  <2>2. shown' = details /\ details \in Samples
    BY <1>1, <2>1 DEF shown, Samples
  <2> QED
    BY <1>1, <2>1, <2>2 DEF LoadFits
<1>3. /\ rows \in Seq(Values(rows)) /\ Len(rows) <= Len(rows')
      /\ \A i \in DOMAIN rows : rows'[i] = rows[i]
  <2>1. rows \in Seq(Values(rows))
    BY RowsAreATable DEF IInv
  <2>2. CASE sampleData = details
    BY <1>1, <2>1, <2>2
  <2>3. CASE sampleData = Header(details)
    BY <1>1, <2>1, <2>3, RowsAssumption
  <2> QED
    BY <1>1, <2>1, <2>2, <2>3
<1>4. rows' \in Seq(Values(rows'))
  BY <1>1, RowsAssumption DEF Samples
<1>5. DOMAIN rows \subseteq DOMAIN rows'
  BY <1>3, <1>4
<1>6. PageFits'
  <2>1. Places(rows) \subseteq Places(rows)'
    BY <1>1, <1>3, <1>5 DEF Places, Passes, PassesFilter, controls
  <2>2. /\ Len(filtered) = Cardinality(Places(rows)) /\ IsFiniteSet(Places(rows))
        /\ Places(rows)' \in SUBSET (1 .. Len(rows')) /\ PageLength \in Nat \ {0}
        /\ filtered \in Seq(Values(rows)) /\ totalPages \in Nat \ {0}
    BY <1>4, FilteredRows DEF IInv, Places
  <2>3. /\ filtered' \in Seq(Values(rows')) /\ IsFiniteSet(Places(rows)')
        /\ Len(filtered') = Cardinality(Places(rows)')
    BY <1>4, <2>2, KeepMembers, KeepLength DEF filtered
  <2>4. Len(filtered) <= Len(filtered')
    BY <2>1, <2>2, <2>3, FS_Subset
  <2>5. PageLength' = PageLength
    BY <1>1 DEF PageLength
  <2>6. totalPages <= totalPages' /\ totalPages' \in Nat
    <3>1. PICK m \in Nat, n \in Nat : m = Len(filtered) /\ n = Len(filtered') /\ m <= n
      BY <2>2, <2>3, <2>4
    <3>2. (m + PageLength - 1) \div PageLength <= (n + PageLength - 1) \div PageLength
      BY <2>2, <3>1, PagesGrow
    <3> QED
      BY <2>2, <2>5, <3>1, <3>2 DEF totalPages, PageCount
  <2> QED
    BY <1>1, <2>2, <2>6 DEF IInv, PageFits, controls
<1>7. ClickFits'
  BY <1>1, <1>3, <1>5 DEF IInv, ClickFits, controls
<1>8. ControlsFit'
  BY <1>1 DEF IInv, ControlsFit, controls
<1> QED
  BY <1>2, <1>6, <1>7, <1>8 DEF IInv

(* A report that does not arrive changes nothing that is shown. *)
LEMMA FailKeeps ==
  ASSUME IInv, DetailsFail
  PROVE  IInv'
<1>1. /\ details' = Null /\ UNCHANGED <<sampleData, loadedJob, rows, activeTab, table, controls, blank>>
  BY DEF DetailsFail
<1>2. LoadFits'
  BY <1>1 DEF IInv, LoadFits, shown
<1>3. totalPages' = totalPages
  BY <1>1, SameRows DEF controls
<1> QED
  BY <1>1, <1>2, <1>3 DEF IInv, PageFits, ClickFits, ControlsFit, controls

-----------------------------------------------------------------------------
(* The controls *)

(* A control that changes neither rows nor what is left of them. *)
LEMMA StillFits ==
  ASSUME IInv, UNCHANGED <<load, rows, table, filter, query>>
  PROVE  LoadFits' /\ totalPages' = totalPages
  BY LoadSame, SameRows DEF IInv

(* A control that goes back to the first page, or has no other. *)
LEMMA FirstPageFits ==
  ASSUME IInv, UNCHANGED <<load, rows, table, selected, clicked>>,
         page' = 1
  PROVE  LoadFits' /\ PageFits' /\ ClickFits'
<1>1. LoadFits'
  BY LoadSame DEF IInv
<1>2. totalPages' \in Nat \ {0}
  BY <1>1, PagesLater DEF HasPages
<1> QED
  BY <1>1, <1>2 DEF IInv, PageFits, ClickFits

(* A tab only changes what is looked at. *)
LEMMA TabKeeps ==
  ASSUME IInv, NEW tab \in {"Overview", table}, SetActiveTab(tab)
  PROVE  IInv'
  BY StillFits DEF SetActiveTab, IInv, PageFits, ClickFits, ControlsFit, controls

(* A search goes back to the first page. *)
LEMMA QueryKeeps ==
  ASSUME IInv, NEW q \in Queries \cup {NoQuery}, SetQuery(q)
  PROVE  IInv'
<1>1. LoadFits' /\ PageFits' /\ ClickFits'
  BY FirstPageFits DEF SetQuery
<1>2. ControlsFit'
  BY ThrowsIsBoolean DEF SetQuery, Render, IInv, ControlsFit
<1> QED
  BY <1>1, <1>2 DEF IInv

(* The menu opens and closes over the same rows. *)
LEMMA MenuKeeps ==
  ASSUME IInv, ToggleMenu
  PROVE  IInv'
<1>1. LoadFits' /\ totalPages' = totalPages
  BY StillFits DEF ToggleMenu
<1>2. ControlsFit'
  BY Zenon DEF ToggleMenu, IInv, ControlsFit
<1> QED
  BY <1>1, <1>2 DEF IInv, ToggleMenu, PageFits, ClickFits

(* A filter goes back to the first page. *)
LEMMA FilterKeeps ==
  ASSUME IInv, NEW f \in Options[table] \cup {All}, ChooseFilter(f)
  PROVE  IInv'
<1>1. LoadFits' /\ PageFits' /\ ClickFits'
  BY FirstPageFits DEF ChooseFilter
<1>2. ControlsFit'
  BY ThrowsIsBoolean DEF ChooseFilter, Render, IInv, ControlsFit
<1> QED
  BY <1>1, <1>2 DEF IInv

(* From a page, the buttons lead to pages, and to both its neighbours. *)
LEMMA ButtonsLead ==
  ASSUME NEW last \in Nat \ {0}, NEW p \in 1 .. last
  PROVE  /\ Buttons(p, last) \in SUBSET (1 .. last)
         /\ p > 1 => p - 1 \in Buttons(p, last)
         /\ p < last => p + 1 \in Buttons(p, last)
<1>1. LeftArrow(p) \in SUBSET (1 .. last) /\ (p > 1 => p - 1 \in LeftArrow(p))
  BY DEF LeftArrow
<1>2. RightArrow(p, last) \in SUBSET (1 .. last) /\ (p < last => p + 1 \in RightArrow(p, last))
  BY DEF RightArrow
<1>3. PageNumbers(last) \in SUBSET (1 .. last)
  BY DashboardAssumption DEF PageNumbers
<1> QED
  BY <1>1, <1>2, <1>3 DEF Buttons

(* The arrows and the numbered buttons stay within the pages. *)
LEMMA PagerKeeps ==
  ASSUME IInv, table \in Paged, Pager
  PROVE  IInv'
<1>1. PICK n \in 1 .. totalPages : Turn(n)
  <2>1. page \in 1 .. totalPages /\ totalPages \in Nat
    BY FilteredRows DEF IInv, PageFits
  <2> QED
    BY <2>1, ButtonsLead DEF Pager
<1>2. LoadFits' /\ totalPages' = totalPages
  BY <1>1, StillFits DEF Turn
<1> QED
  BY <1>1, <1>2 DEF IInv, Turn, PageFits, ClickFits, ControlsFit

(* A click selects a row of the table, the close button none. *)
LEMMA SelectKeeps ==
  ASSUME IInv, SelectRow \/ CloseDetails
  PROVE  IInv'
<1>1. LoadFits' /\ totalPages' = totalPages
  BY StillFits DEF SelectRow, CloseDetails
<1>2. ClickFits'
  BY DEF SelectRow, CloseDetails, ClickFits
<1>3. UNCHANGED <<load, rows, activeTab, table, filter, menuOpen, query, page, blank>>
  BY DEF SelectRow, CloseDetails
<1> QED
  BY <1>1, <1>2, <1>3 DEF IInv, PageFits, ControlsFit

(* Show All has no page to go back to. *)
LEMMA ShowAllKeeps ==
  ASSUME IInv, table = "Processes", ShowAll
  PROVE  IInv'
<1>1. page' = 1
  BY DEF IInv, PageFits, Paged, ShowAll
<1>2. LoadFits' /\ PageFits' /\ ClickFits'
  BY <1>1, FirstPageFits DEF ShowAll
<1>3. ControlsFit'
  BY ThrowsIsBoolean DEF ShowAll, Render, IInv, ControlsFit
<1> QED
  BY <1>2, <1>3 DEF IInv

-----------------------------------------------------------------------------

(* The tabs give each table some of the controls. *)
LEMMA NextSplit ==
  ASSUME Next
  PROVE  /\ ~blank
         /\ \/ DetailsArrive \/ DetailsFail
            \/ \E tab \in {"Overview", table} : SetActiveTab(tab)
            \/ \E q \in Queries \cup {NoQuery} : SetQuery(q)
            \/ ToggleMenu
            \/ \E f \in Options[table] \cup {All} : ChooseFilter(f)
            \/ table \in Paged /\ Pager
            \/ SelectRow \/ CloseDetails
            \/ table = "Processes" /\ ShowAll
<1> USE DEF Using, Tools
<1>1. CASE TimelineMenu \/ ProcessTools \/ ProcessTable
  BY <1>1 DEF TimelineMenu, ProcessTools, ProcessTable
<1>2. CASE FileTools \/ FileTable \/ FileDetails \/ NetworkTools \/ NetworkTable
  BY <1>2 DEF FileTools, FileTable, FileDetails, NetworkTools, NetworkTable, Paged
<1>3. CASE DnsTools \/ DnsTable \/ ModuleTools \/ ModuleTable
  BY <1>3 DEF DnsTools, DnsTable, ModuleTools, ModuleTable, Paged
<1>4. CASE TechniqueTools \/ TechniqueTable \/ IocTools \/ IocTable \/ IocDetails
  BY <1>4 DEF TechniqueTools, TechniqueTable, IocTools, IocTable, IocDetails, Paged
<1>5. CASE RawTools \/ RawTable
  BY <1>5 DEF RawTools, RawTable, Paged
<1>6. ~blank
  BY DEF Next, DetailsArrive, DetailsFail, SetActiveTab, TimelineMenu, ProcessTools, ProcessTable,
         FileTools, FileTable, FileDetails, NetworkTools, NetworkTable, DnsTools, DnsTable, ModuleTools,
         ModuleTable, TechniqueTools, TechniqueTable, IocTools, IocTable, IocDetails, RawTools, RawTable
<1>7. CASE DetailsArrive \/ DetailsFail \/ \E tab \in {"Overview", table} : SetActiveTab(tab)
  BY <1>6, <1>7
<1> QED
  BY <1>1, <1>2, <1>3, <1>4, <1>5, <1>6, <1>7 DEF Next

(* The visit begins on the first page, with nothing clicked. *)
LEMMA Begins == Init => IInv
<1> SUFFICES ASSUME Init PROVE IInv
  OBVIOUS
<1>1. LoadFits
  <2>1. /\ table \in Tables /\ shown = sampleData /\ sampleData \in Samples
        /\ rows = TableRows(table, sampleData) /\ loadedJob = Null
    BY DEF Init, shown
  <2>2. ASSUME details # Null
        PROVE  details \in Jobs /\ sampleData \in {details, Header(details)}
    <3>1. sampleData # Null /\ details = CHOOSE job \in Jobs : job.id = sampleData.id
      BY <2>2 DEF Init, DashboardEffect
    <3>2. PICK job \in Jobs : sampleData \in {job, Header(job)}
      BY <2>1, <3>1 DEF Samples
    <3>3. job.id = sampleData.id
      BY <3>2, JobsAssumption DEF Header
    <3>4. details \in Jobs /\ details.id = sampleData.id
      BY <3>1, <3>3
    <3>5. details = job
      BY <3>3, <3>4, JobsAssumption
    <3> QED
      BY <3>2, <3>5
  <2> QED
    BY <2>1, <2>2 DEF LoadFits
<1>2. PageFits
  <2>1. page = 1 /\ totalPages \in Nat \ {0}
    BY <1>1, FilteredRows DEF Init
  <2> QED
    BY <2>1 DEF PageFits
<1>3. ClickFits
  BY DEF Init, ClickFits
<1>4. ControlsFit
  <2>1. menuOpen \in BOOLEAN /\ blank \in BOOLEAN
    BY Zenon DEF Init
  <2>2. activeTab = "Overview" /\ filter = All /\ query = NoQuery
    BY Zenon DEF Init
  <2> QED
    BY <2>1, <2>2, Zenon DEF ControlsFit
<1> QED
  BY <1>1, <1>2, <1>3, <1>4 DEF IInv

(* Every step keeps the invariant. *)
LEMMA Step == ASSUME IInv, [Next]_vars PROVE IInv'
<1>1. CASE UNCHANGED vars
  <2>1. LoadFits' /\ totalPages' = totalPages
    BY <1>1, StillFits DEF vars, controls
  <2> QED
    BY <1>1, <2>1 DEF vars, controls, IInv, PageFits, ClickFits, ControlsFit
<1>2. CASE Next
  BY <1>2, NextSplit, ArriveKeeps, FailKeeps, TabKeeps, QueryKeeps, MenuKeeps, FilterKeeps,
     PagerKeeps, SelectKeeps, ShowAllKeeps
<1> QED
  BY <1>1, <1>2

(* The invariant holds in every reachable state. *)
LEMMA Invariance == Spec => []IInv
  BY Begins, Step, PTL DEF Spec

(* The types follow from the invariant. *)
LEMMA Types == IInv => TypeOK
<1> SUFFICES ASSUME IInv PROVE TypeOK
  OBVIOUS
<1>1. details # Null => details.id = sampleData.id
  BY JobsAssumption DEF IInv, LoadFits, Header
<1>2. page \in Nat \ {0}
  BY FilteredRows DEF IInv, PageFits
<1>3. loadedJob # Null => loadedJob.id = sampleData.id /\ details = Null
  BY DEF IInv, LoadFits
<1> QED
  BY <1>1, <1>2, <1>3, Zenon DEF IInv, LoadFits, ControlsFit, TypeOK

(* No page before the first, and the job that is fetched is the one shown   *)
(* (Dashboard.jsx:13-48, 528-572).                                           *)
THEOREM DashboardTypeCorrect == Spec => []TypeOK
  BY Invariance, Types, PTL

(* No search, filter, arrow or late report leaves the page number behind    *)
(* the last page, although nothing clamps it (Dashboard.jsx:562-563).        *)
THEOREM PageStaysInRange == Spec => []PageInRange
<1>1. IInv => PageInRange
  BY DEF IInv, PageFits, PageInRange
<1> QED
  BY <1>1, Invariance, PTL

-----------------------------------------------------------------------------
(* The selection *)

(* find stops at a row that is selected, if there is one; and without one   *)
(* the default is the first row of the list.                                *)
LEMMA FindFinds ==
  ASSUME NEW S, NEW list \in Seq(S), NEW default
  PROVE  /\ (\E i \in DOMAIN list : list[i].key = selected) =>
               \E i \in DOMAIN list : SelectedIn(list, default) = list[i] /\ list[i].key = selected
         /\ list # <<>> => SelectedIn(list, default) \in Values(list)
<1> DEFINE picked == {i \in DOMAIN list : list[i].key = selected}
<1>1. picked \in SUBSET Nat
  OBVIOUS
<1>2. CASE picked # {}
  <2>1. First(picked) \in picked
    BY <1>1, <1>2, FirstIsIn
  <2>2. SelectedIn(list, default) = list[First(picked)]
    BY <1>2 DEF SelectedIn, Find
  <2> QED
    BY <2>1, <2>2 DEF Values
<1>3. CASE picked = {}
  <2>1. list # <<>> => SelectedIn(list, default) = list[1] /\ 1 \in DOMAIN list
    BY <1>3 DEF SelectedIn, Find
  <2> QED
    BY <1>3, <2>1 DEF Values
<1> QED
  BY <1>2, <1>3

(* Keys tell the rows apart, so the selected row is the one clicked. *)
LEMMA Sticks == IInv => SelectionSticks
<1> SUFFICES ASSUME IInv, table \in Selecting PROVE
        /\ clicked # Null =>
             ((table = "Processes" \/ Passes(rows[clicked])) => Inspected = rows[clicked])
        /\ (table # "Processes" /\ filtered # <<>>) => Inspected \in Values(filtered)
  BY DEF SelectionSticks
<1>1. /\ rows \in Seq(Values(rows)) /\ filtered \in Seq(Values(rows))
      /\ \A i, j \in DOMAIN rows : rows[i].key = rows[j].key => i = j
      /\ \A k \in 1 .. Len(filtered) : \E i \in Places(rows) : filtered[k] = rows[i]
      /\ \A i \in Places(rows) : \E k \in 1 .. Len(filtered) : filtered[k] = rows[i]
  BY RowsAreATable, FilteredRows DEF IInv
<1>2. ASSUME clicked # Null, table = "Processes" \/ Passes(rows[clicked])
      PROVE  Inspected = rows[clicked]
  <2>1. clicked \in DOMAIN rows /\ rows[clicked].key = selected
    BY <1>2 DEF IInv, ClickFits
  <2>2. CASE table = "Processes"
    <3>1. PICK i \in DOMAIN rows : Inspected = rows[i] /\ rows[i].key = selected
      BY <1>1, <2>1, <2>2, FindFinds DEF Inspected
    <3> QED
      BY <1>1, <2>1, <3>1
  <2>3. CASE table # "Processes"
    <3>1. clicked \in Places(rows)
      BY <1>2, <2>1, <2>3 DEF Places
    <3>2. PICK k \in DOMAIN filtered : filtered[k].key = selected
      BY <1>1, <2>1, <3>1
    <3>3. PICK l \in DOMAIN filtered : Inspected = filtered[l] /\ filtered[l].key = selected
      BY <1>1, <2>3, <3>2, FindFinds DEF Inspected
    <3>4. PICK i \in Places(rows) : filtered[l] = rows[i]
      BY <1>1, <3>3
    <3>5. i \in DOMAIN rows
      BY DEF Places
    <3> QED
      BY <1>1, <2>1, <3>3, <3>4, <3>5
  <2> QED
    BY <2>2, <2>3
<1>3. ASSUME table # "Processes", filtered # <<>>
      PROVE  Inspected \in Values(filtered)
  BY <1>1, <1>3, FindFinds DEF Inspected
<1> QED
  BY <1>2, <1>3

(* The details card shows the row that was clicked as long as the filters   *)
(* leave it in the table, and never a hidden one (Dashboard.jsx:564-568).    *)
THEOREM DetailsStick == Spec => []SelectionSticks
  BY Invariance, Sticks, PTL

-----------------------------------------------------------------------------
(* The arrows of the pager *)

(* Rows behind the page mean a page behind it, and no row is behind the last. *)
ArrowFollowsRows == Len(filtered) > page * PageLength <=> page < totalPages

(* The arithmetic of the pager makes the two comparisons one. *)
LEMMA RowsBehind == LoadFits /\ page \in 1 .. totalPages /\ filtered # <<>> => ArrowFollowsRows
<1> SUFFICES ASSUME LoadFits, page \in 1 .. totalPages, filtered # <<>> PROVE ArrowFollowsRows
  OBVIOUS
<1> DEFINE n == Len(filtered)
           size == PageLength
           last == totalPages
<1>1. filtered \in Seq(Values(rows)) /\ n \in Nat /\ size \in Nat \ {0} /\ last \in Nat \ {0}
  BY FilteredRows
<1>2. n <= last * size /\ (last - 1) * size < n
  BY <1>1, PagesCover DEF totalPages
<1>3. page \in Nat \ {0}
  BY <1>1
<1> HIDE DEF n, size, last
<1>4. ASSUME n > page * size PROVE page < last
  <2>1. SUFFICES ASSUME last <= page PROVE FALSE
    BY <1>1, <1>3
  <2>2. last * size <= page * size /\ last * size \in Nat /\ page * size \in Nat
    BY <1>1, <1>3, <2>1, Times
  <2> QED
    BY <1>1, <1>2, <1>4, <2>2
<1>5. ASSUME page < last PROVE n > page * size
  <2>1. page <= last - 1 /\ last - 1 \in Nat
    BY <1>1, <1>3, <1>5
  <2>2. page * size \in Nat /\ page * size <= (last - 1) * size
    BY <1>1, <1>3, <2>1, Times
  <2>3. (last - 1) * size \in Nat
    BY <1>1, <2>1, Times, last - 1 <= last - 1
  <2> QED
    BY <1>1, <1>2, <2>2, <2>3
<1> QED
  BY <1>4, <1>5 DEF ArrowFollowsRows, n, size, last

(* The right arrow, which asks for page < totalPages, is active exactly      *)
(* while there are filtered rows behind the page (Dashboard.jsx:2386).    *)
THEOREM ArrowLeadsOn == Spec => [](filtered # <<>> => ArrowFollowsRows)
<1>1. IInv => (filtered # <<>> => ArrowFollowsRows)
  BY RowsBehind DEF IInv, PageFits
<1> QED
  BY <1>1, Invariance, PTL

-----------------------------------------------------------------------------
(* What clicks on the pager lead to *)

(* The clicks, as a function that says what one more click leads to. *)
Clicks(reached, last, n) ==
  reached = [k \in 0 .. n |-> IF k = 0 THEN {page}
                              ELSE reached[k - 1] \cup UNION {Buttons(p, last) : p \in reached[k - 1]}]

(* One more click can always be counted. *)
LEMMA OneMoreClick ==
  ASSUME NEW last, NEW n \in Nat, NEW f, Clicks(f, last, n)
  PROVE  \E g : Clicks(g, last, n + 1)
<1> DEFINE After(S) == S \cup UNION {Buttons(p, last) : p \in S}
           g == [k \in 0 .. n + 1 |-> IF k \in 0 .. n THEN f[k] ELSE After(f[n])]
<1>1. \A k \in 0 .. n : f[k] = IF k = 0 THEN {page} ELSE After(f[k - 1])
  BY DEF Clicks
<1>2. /\ g = [k \in 0 .. n + 1 |-> g[k]]
      /\ \A k \in 0 .. n : g[k] = f[k]
      /\ g[n + 1] = After(f[n])
  OBVIOUS
<1> HIDE DEF g, After
<1>3. ASSUME NEW k \in 0 .. n + 1 PROVE g[k] = IF k = 0 THEN {page} ELSE After(g[k - 1])
  <2>1. CASE k = 0
    <3>1. 0 \in 0 .. n
      OBVIOUS
    <3>2. f[0] = {page}
      BY <1>1, <3>1
    <3> QED
      BY <1>2, <2>1, <3>1, <3>2
  <2>2. CASE k \in 1 .. n
    <3>1. k - 1 \in 0 .. n /\ k \in 0 .. n /\ k # 0
      BY <2>2
    <3> QED
      BY <1>1, <1>2, <3>1
  <2>3. CASE k = n + 1
    <3>1. k - 1 = n /\ n \in 0 .. n /\ k # 0
      BY <2>3
    <3> QED
      BY <1>2, <2>3, <3>1
  <2> QED
    BY <2>1, <2>2, <2>3
<1>4. g = [k \in 0 .. n + 1 |-> IF k = 0 THEN {page} ELSE After(g[k - 1])]
  BY <1>2, <1>3
<1>5. Clicks(g, last, n + 1)
  BY <1>4 DEF Clicks, After
<1> QED
  BY <1>5

(* The recursive function of PagesWithin is defined. *)
LEMMA ClicksAreCounted ==
  ASSUME totalPages \in Nat
  PROVE  \E f : Clicks(f, totalPages, totalPages) /\ PagesWithin = f[totalPages]
<1> DEFINE last == totalPages
           T == {n \in Nat : \E f : Clicks(f, last, n)}
<1>1. 0 \in T
  <2>1. Clicks([k \in 0 .. 0 |-> {page}], last, 0)
    BY DEF Clicks
  <2> QED
    BY <2>1
<1>2. ASSUME NEW n \in T PROVE n + 1 \in T
  BY <1>2, OneMoreClick
<1>3. T = Nat
  <2>1. T \in SUBSET Nat
    OBVIOUS
  <2> HIDE DEF T
  <2> QED
    BY <1>1, <1>2, <2>1, Induction
<1>4. PICK f : f = CHOOSE g : Clicks(g, last, last)
  OBVIOUS
<1>5. PagesWithin = f[last]
  BY <1>4 DEF PagesWithin, Clicks
<1>6. \E g : Clicks(g, last, last)
  BY <1>3
<1>7. Clicks(f, last, last)
  BY <1>4, <1>6, Zenon
<1> QED
  BY <1>5, <1>7

(* The arrows alone lead from a page to any other, one page for each click. *)
LEMMA AllPagesWithin ==
  ASSUME NEW last \in Nat \ {0}, last = totalPages, page \in 1 .. last
  PROVE  1 .. last \in SUBSET PagesWithin
<1>1. PICK f : Clicks(f, last, last) /\ PagesWithin = f[last]
  BY ClicksAreCounted
<1>2. f[0] = {page}
  BY <1>1 DEF Clicks
<1>3. ASSUME NEW k \in 1 .. last
      PROVE  f[k] = f[k - 1] \cup UNION {Buttons(p, last) : p \in f[k - 1]}
  BY <1>1 DEF Clicks
<1> DEFINE Near(k) == {q \in 1 .. last : q - page <= k /\ page - q <= k}
           T == {k \in Nat : k <= last => Near(k) \in SUBSET f[k]}
<1>4. 0 \in T
  BY <1>2
<1>5. ASSUME NEW k \in T PROVE k + 1 \in T
  <2> SUFFICES ASSUME k + 1 <= last, NEW q \in Near(k + 1) PROVE q \in f[k + 1]
    OBVIOUS
  <2>1. k + 1 \in 1 .. last /\ Near(k) \in SUBSET f[k]
    BY <1>5
  <2>2. f[k + 1] = f[k] \cup UNION {Buttons(p, last) : p \in f[k]}
    <3>1. (k + 1) - 1 = k
      OBVIOUS
    <3> QED
      BY <1>3, <2>1, <3>1
  <2>3. CASE q \in Near(k)
    BY <2>1, <2>2, <2>3
  <2>4. CASE q - page = k + 1
    <3>1. q - 1 \in Near(k) /\ q - 1 < last /\ q - 1 \in 1 .. last
      BY <2>4
    <3>2. q \in Buttons(q - 1, last)
      BY <3>1, ButtonsLead, (q - 1) + 1 = q
    <3> QED
      BY <2>1, <2>2, <3>1, <3>2
  <2>5. CASE page - q = k + 1
    <3>1. q + 1 \in Near(k) /\ q + 1 > 1 /\ q + 1 \in 1 .. last
      BY <2>5
    <3>2. q \in Buttons(q + 1, last)
      BY <3>1, ButtonsLead, (q + 1) - 1 = q
    <3> QED
      BY <2>1, <2>2, <3>1, <3>2
  <2> QED
    BY <2>3, <2>4, <2>5
<1>6. last \in T
  <2>1. T \in SUBSET Nat
    OBVIOUS
  <2>2. T = Nat
    <3> HIDE DEF T
    <3> QED
      BY <1>4, <1>5, <2>1, Induction
  <2> QED
    BY <2>2
<1>7. 1 .. last \in SUBSET Near(last)
  OBVIOUS
<1> QED
  BY <1>1, <1>6, <1>7

(* A row the filters leave is on one of the pages. *)
LEMMA RowIsOnAPage ==
  ASSUME LoadFits, NEW i \in Places(rows)
  PROVE  \E p \in 1 .. totalPages : rows[i] \in Values(PageOf(filtered, p, PageLength))
<1>1. PICK k \in 1 .. Len(filtered) : filtered[k] = rows[i]
  BY FilteredRows
<1>2. filtered \in Seq(Values(rows)) /\ PageLength \in Nat \ {0}
  BY FilteredRows
<1>3. PICK p, l : OnPage(filtered, PageLength, k, p, l)
  BY <1>2, PagesPartition
<1>4. /\ p \in 1 .. totalPages /\ l \in 1 .. Len(PageOf(filtered, p, PageLength))
      /\ PageOf(filtered, p, PageLength)[l] = rows[i]
  BY <1>1, <1>3 DEF OnPage, totalPages
<1>5. PageOf(filtered, p, PageLength) \in Seq(Values(rows))
  BY <1>2, <1>4, PageBounds DEF totalPages
<1> QED
  BY <1>4, <1>5 DEF Values

(* Every row the filters leave can be brought up by clicks on the pager      *)
(* (Dashboard.jsx:2357-2394): the clicks reach every page, and the pages are  *)
(* all of the filtered rows.                                                 *)
THEOREM EveryRowIsReached == Spec => []EveryRowIsReachable
<1>1. IInv => EveryRowIsReachable
  <2>4. IInv => PageInRange
    BY DEF IInv, PageFits, PageInRange
  <2> SUFFICES ASSUME IInv, NEW i \in Places(rows)
               PROVE  rows[i] \in UNION {Values(PageOf(filtered, p, PageLength)) :
                                            p \in PagesWithin \cap 1 .. totalPages}
    BY <2>4 DEF EveryRowIsReachable
  <2>1. PICK p \in 1 .. totalPages : rows[i] \in Values(PageOf(filtered, p, PageLength))
    BY RowIsOnAPage DEF IInv
  <2>2. totalPages \in Nat \ {0}
    BY FilteredRows DEF IInv
  <2>3. p \in PagesWithin
    BY <2>2, AllPagesWithin DEF IInv, PageFits
  <2> QED
    BY <2>1, <2>3
<1> QED
  BY <1>1, Invariance, PTL

-----------------------------------------------------------------------------
(* Only the network table can throw *)

(* A page is taken down by a row that lacks a text, and stays as it was. *)
BlankFits == blank => \E row \in Values(rows) : row.unreadable

(* Only a render of an unreadable row takes the page down. *)
LEMMA BlankStep == ASSUME BlankFits, [Next]_vars PROVE BlankFits'
<1>1. CASE UNCHANGED vars
  BY <1>1 DEF vars, BlankFits, Values
<1>2. CASE Next
  <2>1. ~blank
    BY <1>2, NextSplit
  <2>2. blank' = blank \/ blank' = Throws'
    <3>1. CASE DetailsArrive \/ DetailsFail
      BY <3>1 DEF DetailsArrive, DetailsFail, Render
    <3>2. CASE \E tab \in {"Overview", table} : SetActiveTab(tab)
      BY <3>2 DEF SetActiveTab
    <3>3. CASE \E q \in Queries \cup {NoQuery} : SetQuery(q)
      BY <3>3 DEF SetQuery, Render
    <3>4. CASE ToggleMenu \/ \E f \in Options[table] \cup {All} : ChooseFilter(f)
      BY <3>4 DEF ToggleMenu, ChooseFilter, Render
    <3>5. CASE table \in Paged /\ Pager
      BY <3>5 DEF Pager, Turn
    <3>6. CASE SelectRow \/ CloseDetails
      BY <3>6 DEF SelectRow, CloseDetails
    <3>7. CASE table = "Processes" /\ ShowAll
      BY <3>7 DEF ShowAll, Render
    <3> QED
      BY <1>2, NextSplit, <3>1, <3>2, <3>3, <3>4, <3>5, <3>6, <3>7
  <2>3. Throws' => (\E row \in Values(rows) : row.unreadable)'
    BY DEF Throws
  <2> QED
    BY <2>1, <2>2, <2>3 DEF BlankFits
<1> QED
  BY <1>1, <1>2

(* A text with a default that is there is there. *)
LEMMA TextIsThere ==
  ASSUME NEW object, NEW names, DOMAIN names \subseteq Nat, NEW default, default # Null
  PROVE  Text(object, names, default) # Null
<1> DEFINE found == {i \in DOMAIN names : names[i] \in DOMAIN object /\ object[names[i]] \notin {"", Null}}
<1>1. CASE found = {}
  BY <1>1 DEF Text
<1>2. CASE found # {}
  <2>1. found \in SUBSET Nat
    <3>1. found \subseteq DOMAIN names
      OBVIOUS
    <3> QED
      BY <3>1
  <2>2. First(found) \in found
    BY <1>2, <2>1, FirstIsIn
  <2> QED
    BY <1>2, <2>2 DEF Text
<1> QED
  BY <1>1, <1>2

(* The rows of a table of one entry for each of a list. *)
LEMMA MappedList ==
  ASSUME NEW n \in Nat, NEW list, list = [i \in 1 .. n |-> list[i]]
  PROVE  IsList(list) /\ Len(list) = n /\ DOMAIN list = 1 .. n
<1>1. list \in [1 .. n -> Values(list)]
  BY DEF Values
<1> QED
  BY <1>1 DEF IsList

(* Joined lists are a list, with the entries of both. *)
LEMMA JoinedList ==
  ASSUME NEW a, NEW b, IsList(a), IsList(b)
  PROVE  /\ IsList(a \o b) /\ Len(a \o b) = Len(a) + Len(b)
         /\ \A x \in Values(a \o b) : x \in Values(a) \/ x \in Values(b)
<1> DEFINE S == Values(a) \cup Values(b)
<1>1. a \in Seq(S) /\ b \in Seq(S)
  BY DEF IsList
<1>2. a \o b \in Seq(S) /\ Len(a \o b) = Len(a) + Len(b)
  BY <1>1
<1>3. \A i \in 1 .. Len(a \o b) : (a \o b)[i] \in S
  BY <1>2
<1>4. IsList(a \o b)
  <2>1. PICK c \in Seq(S) : c = a \o b
    BY <1>2
  <2>2. PICK n \in Nat : n = Len(c) /\ c \in [1 .. n -> S]
    OBVIOUS
  <2>3. c = [i \in 1 .. n |-> c[i]]
    BY <2>2
  <2> QED
    BY <2>1, <2>3, MappedList
<1> QED
  BY <1>2, <1>3, <1>4 DEF Values

(* What is known of a sample: its parts are lists, its processes are named.  *)
Parts(s) ==
  /\ IsList(s.files) /\ IsList(s.network) /\ IsList(s.registry)
  /\ IsList(s.dns) /\ IsList(s.images) /\ IsList(s.techniques)
  /\ IsList(FlatProcesses(s))
  /\ \A p \in Values(FlatProcesses(s)) : Null \notin {p.name, p.Command}

(* The parts of a report that has not arrived are empty lists. *)
LEMMA SampleParts == ASSUME NEW job \in Samples PROVE Parts(transformAnalysisData(job))
<1> DEFINE s == transformAnalysisData(job)
           res == IF job = Null THEN Null ELSE job.analysis_result
<1>1. IsList(<<>>)
  BY DEF IsList
<1>2. res # Null => job \in Jobs
  BY JobsAssumption DEF Samples, Header
<1>3. \A part \in {"files", "network", "registry", "dns", "images", "techniques"} :
        IsList(IF res = Null THEN <<>> ELSE res[part])
  BY <1>1, <1>2, ResultsAssumption
<1>4. /\ s.files = IF res = Null THEN <<>> ELSE res["files"]
      /\ s.network = IF res = Null THEN <<>> ELSE res["network"]
      /\ s.registry = IF res = Null THEN <<>> ELSE res["registry"]
      /\ s.dns = IF res = Null THEN <<>> ELSE res["dns"]
      /\ s.images = IF res = Null THEN <<>> ELSE res["images"]
      /\ s.techniques = IF res = Null THEN <<>> ELSE res["techniques"]
  BY DEF transformAnalysisData
<1>5. /\ IsList(s.files) /\ IsList(s.network) /\ IsList(s.registry)
      /\ IsList(s.dns) /\ IsList(s.images) /\ IsList(s.techniques)
  BY <1>3, <1>4
<1> QED
  BY <1>5, ProcessesAssumption DEF Parts

(* A row lacks a text if one of the texts that are searched is missing. *)
LEMMA RowReads == \A key, texts, options : Row(key, texts, options).unreadable <=> Null \in texts
  BY DEF Row

(* The defaults and the kinds are texts. *)
LEMMA OwnTextsRead == \A text \in OwnTexts : text # Null
  BY NoTextAssumption

(* The alternatives of a name are numbered. *)
LEMMA NamesAreNumbered ==
  /\ \A a, b : DOMAIN <<a, b>> \subseteq Nat
  /\ \A a, b, c, d : DOMAIN <<a, b, c, d>> \subseteq Nat
  OBVIOUS

(* No text of a file, an address, a query, a module or a technique is missing. *)
LEMMA TextsRead ==
  ASSUME NEW s
  PROVE  /\ \A i \in DOMAIN s.files : normFiles(s)[i].path # Null
         /\ \A i \in DOMAIN s.network : normNetwork(s)[i].destIp # Null
         /\ \A i \in DOMAIN s.dns : normDns(s)[i].domain # Null
         /\ \A i \in DOMAIN s.images : normModules(s)[i].path # Null
         /\ \A i \in DOMAIN s.techniques :
               Null \notin {normTechniques(s)[i].id, normTechniques(s)[i].name, normTechniques(s)[i].tactic}
<1>1. /\ "C:/Unknown" # Null /\ "0.0.0.0" # Null /\ "unknown.domain" # Null /\ "Unknown.dll" # Null
      /\ "T100" # Null /\ "Unknown Technique" # Null /\ "Execution" # Null
  BY OwnTextsRead DEF OwnTexts
<1>2. ASSUME NEW i \in DOMAIN s.files PROVE normFiles(s)[i].path # Null
  <2>1. normFiles(s)[i].path = Text(s.files[i], <<"Path", "path", "FileName", "file_name">>, "C:/Unknown")
    BY DEF normFiles
  <2> QED
    BY <1>1, <2>1, TextIsThere, NamesAreNumbered
<1>3. ASSUME NEW i \in DOMAIN s.network PROVE normNetwork(s)[i].destIp # Null
  <2>1. normNetwork(s)[i].destIp = Text(s.network[i], <<"DestIP", "dest_ip">>, "0.0.0.0")
    BY DEF normNetwork
  <2> QED
    BY <1>1, <2>1, TextIsThere, NamesAreNumbered
<1>4. ASSUME NEW i \in DOMAIN s.dns PROVE normDns(s)[i].domain # Null
  <2>1. normDns(s)[i].domain = Text(s.dns[i], <<"QueryName", "query_name">>, "unknown.domain")
    BY DEF normDns, QueryName
  <2> QED
    BY <1>1, <2>1, TextIsThere, NamesAreNumbered
<1>5. ASSUME NEW i \in DOMAIN s.images PROVE normModules(s)[i].path # Null
  <2>1. normModules(s)[i].path = Text(s.images[i], <<"Path", "path">>, "Unknown.dll")
    BY DEF normModules
  <2> QED
    BY <1>1, <2>1, TextIsThere, NamesAreNumbered
<1>6. ASSUME NEW i \in DOMAIN s.techniques
      PROVE  Null \notin {normTechniques(s)[i].id, normTechniques(s)[i].name, normTechniques(s)[i].tactic}
  <2>1. /\ normTechniques(s)[i].id = Text(s.techniques[i], <<"TechniqueID", "technique_id">>, "T100")
        /\ normTechniques(s)[i].name = Text(s.techniques[i], <<"Name", "name">>, "Unknown Technique")
        /\ normTechniques(s)[i].tactic = Text(s.techniques[i], <<"Tactic", "tactic">>, "Execution")
    BY DEF normTechniques
  <2>2. normTechniques(s)[i].id # Null
    BY <1>1, <2>1, TextIsThere, NamesAreNumbered
  <2>3. normTechniques(s)[i].name # Null
    BY <1>1, <2>1, TextIsThere, NamesAreNumbered
  <2>4. normTechniques(s)[i].tactic # Null
    BY <1>1, <2>1, TextIsThere, NamesAreNumbered
  <2> QED
    BY <2>2, <2>3, <2>4
<1> QED
  BY <1>2, <1>3, <1>4, <1>5, <1>6

-----------------------------------------------------------------------------
(* The indicators *)

(* A list of indicators of one kind, each with an id of its own.            *)
Kind(list, kind) ==
  \A i \in DOMAIN list : list[i].type = kind /\ list[i].id[1] = kind /\ list[i].value # Null

Distinct(list) == \A i, j \in DOMAIN list : list[i].id = list[j].id => i = j

Fits(list, kind) == IsList(list) /\ Kind(list, kind) /\ Distinct(list)

(* filter leaves such a list one. *)
LEMMA KeepFits ==
  ASSUME NEW list, NEW kind, Fits(list, kind), NEW places \in SUBSET (1 .. Len(list))
  PROVE  Fits(Keep(list, places), kind)
<1> DEFINE S == Values(list)
           kept == Keep(list, places)
<1>1. list \in Seq(S) /\ DOMAIN list = 1 .. Len(list) /\ Len(list) \in Nat
  BY DEF Fits, IsList
<1>2. PICK e : kept \in Seq(S) /\ Enumerates(e, places, list, Len(list), kept)
  BY <1>1, KeepFilters
<1>3. places \cap (1 .. Len(list)) = places
  OBVIOUS
<1> HIDE DEF kept
<1>4. PICK n \in Nat : n = Len(kept) /\ kept \in [1 .. n -> S]
  BY <1>2
<1>5. /\ e \in [1 .. n -> places]
      /\ \A k, l \in 1 .. n : k < l => e[k] < e[l]
      /\ \A k \in 1 .. n : kept[k] = list[e[k]] /\ e[k] \in DOMAIN list
  BY <1>1, <1>2, <1>3, <1>4 DEF Enumerates
<1>6. IsList(kept) /\ DOMAIN kept = 1 .. n
  <2>1. kept = [i \in 1 .. n |-> kept[i]]
    BY <1>4
  <2> QED
    BY <2>1, MappedList
<1>7. Kind(kept, kind)
  BY <1>5, <1>6 DEF Kind, Fits
<1>8. ASSUME NEW k \in 1 .. n, NEW l \in 1 .. n, kept[k].id = kept[l].id PROVE k = l
  <2>1. e[k] = e[l]
    BY <1>5, <1>8 DEF Fits, Distinct
  <2>2. e[k] \in Nat /\ e[l] \in Nat
    BY <1>5
  <2> QED
    BY <1>5, <2>1, <2>2
<1> QED
  BY <1>6, <1>7, <1>8 DEF Fits, Distinct, kept

(* Indicators made one for each place of a list are such a list. *)
LEMMA NumberedFit ==
  ASSUME NEW n \in Nat, NEW kind, NEW list, NEW value,
         list = [i \in 1 .. n |-> Indicator(kind, i, value[i])],
         \A i \in 1 .. n : value[i] # Null
  PROVE  Fits(list, kind) /\ Len(list) = n /\ DOMAIN list = 1 .. n
<1>1. list = [i \in 1 .. n |-> list[i]]
  OBVIOUS
<1>2. IsList(list) /\ Len(list) = n /\ DOMAIN list = 1 .. n
  BY <1>1, MappedList
<1>3. \A i \in 1 .. n : list[i].id = <<kind, i>> /\ list[i].type = kind /\ list[i].value = value[i]
  BY DEF Indicator
<1> QED
  BY <1>2, <1>3 DEF Fits, Kind, Distinct

(* So is a single indicator. *)
LEMMA SingleFits ==
  ASSUME NEW kind, NEW x, x.type = kind, x.id[1] = kind, x.value # Null
  PROVE  Fits(<<x>>, kind)
<1>1. DOMAIN <<x>> = 1 .. 1 /\ <<x>>[1] = x
  OBVIOUS
<1>2. <<x>> = [i \in 1 .. 1 |-> <<x>>[i]]
  OBVIOUS
<1>3. IsList(<<x>>)
  BY <1>2, MappedList
<1>4. \A i \in DOMAIN <<x>> : i = 1
  BY <1>1
<1> QED
  BY <1>1, <1>3, <1>4 DEF Fits, Kind, Distinct

(* Each of the five lists of indicators is such a list. *)
LEMMA IndicatorsFit ==
  ASSUME NEW s, Parts(s)
  PROVE  /\ Fits(HashIndicator(s), "File Hash (SHA256)")
         /\ Fits(IpsWithRepeats(s), "IP Address") /\ DOMAIN IpsWithRepeats(s) = DOMAIN s.network
         /\ Fits(IpIndicators(s), "IP Address")
         /\ Fits(DomainIndicators(s), "Domain")
         /\ Fits(RegistryIndicators(s), "Registry Key")
         /\ Fits(FileIndicators(s), "Suspicious File")
<1>1. Fits(HashIndicator(s), "File Hash (SHA256)")
  <2>1. CASE s.sha256 = Null
    BY <2>1 DEF HashIndicator, Fits, Kind, Distinct, IsList
  <2>2. CASE s.sha256 # Null
    <3>1. HashIndicator(s) = <<Indicator("File Hash (SHA256)", 0, s.sha256)>>
      BY <2>2 DEF HashIndicator
    <3>2. /\ Indicator("File Hash (SHA256)", 0, s.sha256).type = "File Hash (SHA256)"
          /\ Indicator("File Hash (SHA256)", 0, s.sha256).id[1] = "File Hash (SHA256)"
          /\ Indicator("File Hash (SHA256)", 0, s.sha256).value # Null
      BY <2>2 DEF Indicator
    <3> QED
      BY <3>1, <3>2, SingleFits
  <2> QED
    BY <2>1, <2>2
<1>2. PICK n \in Nat : n = Len(s.network) /\ DOMAIN s.network = 1 .. n
  BY DEF Parts, IsList
<1>3. /\ Fits(IpsWithRepeats(s), "IP Address") /\ Len(IpsWithRepeats(s)) = n
      /\ DOMAIN IpsWithRepeats(s) = 1 .. n /\ DOMAIN normNetwork(s) = 1 .. n
  <2> DEFINE value == [i \in 1 .. n |-> normNetwork(s)[i].destIp]
             list == [i \in 1 .. n |-> Indicator("IP Address", i, value[i])]
  <2>1. DOMAIN normNetwork(s) = 1 .. n
    BY <1>2 DEF normNetwork
  <2>2. IpsWithRepeats(s) = list
    BY <2>1 DEF IpsWithRepeats
  <2>3. \A i \in 1 .. n : value[i] # Null
    BY <1>2, TextsRead
  <2>4. DOMAIN list = 1 .. n
    OBVIOUS
  <2>5. Fits(list, "IP Address") /\ Len(list) = n
    <3> HIDE DEF value
    <3>1. Fits(list, "IP Address")
      BY <2>3, NumberedFit
    <3>2. Len(list) = n
      OBVIOUS
    <3> QED
      BY <3>1, <3>2
  <2> HIDE DEF list
  <2> QED
    BY <2>1, <2>2, <2>4, <2>5
<1>4. Fits(IpIndicators(s), "IP Address")
  BY <1>3, KeepFits DEF IpIndicators, Firsts
<1>5. Fits(DomainIndicators(s), "Domain")
  <2> DEFINE value == [i \in 1 .. Len(s.dns) |-> normDns(s)[i].domain]
             list == [i \in 1 .. Len(s.dns) |-> Indicator("Domain", i, value[i])]
  <2>1. Len(s.dns) \in Nat /\ DOMAIN s.dns = 1 .. Len(s.dns) /\ DOMAIN normDns(s) = 1 .. Len(s.dns)
    BY DEF Parts, IsList, normDns
  <2>2. \A i \in 1 .. Len(s.dns) : value[i] # Null
    BY <2>1, TextsRead
  <2>3. DomainIndicators(s) = Keep(list, Firsts(value))
    BY <2>1 DEF DomainIndicators
  <2>4. Firsts(value) \in SUBSET (1 .. Len(s.dns))
    BY DEF Firsts
  <2>5. Fits(list, "Domain") /\ Len(list) = Len(s.dns)
    <3> HIDE DEF value
    <3> QED
      BY <2>1, <2>2, NumberedFit
  <2> HIDE DEF list, value
  <2> QED
    BY <2>3, <2>4, <2>5, KeepFits
<1>6. Fits(RegistryIndicators(s), "Registry Key")
  <2> DEFINE run == Where(s.registry, LAMBDA r : Has(RegistryKey(r), "Run"))
             value == [k \in 1 .. Len(run) |-> RegistryKey(run[k])]
  <2>1. run \in Seq(Values(s.registry))
    BY KeepMembers DEF Parts, IsList, Where
  <2>2. Len(run) \in Nat /\ DOMAIN run = 1 .. Len(run)
    BY <2>1
  <2>3. \A k \in 1 .. Len(run) : value[k] # Null
    BY OwnTextsRead, TextIsThere, NamesAreNumbered DEF RegistryKey, OwnTexts
  <2>4. RegistryIndicators(s) = [k \in 1 .. Len(run) |-> Indicator("Registry Key", k, value[k])]
    BY <2>2 DEF RegistryIndicators
  <2> HIDE DEF run, value
  <2> QED
    BY <2>2, <2>3, <2>4, NumberedFit
<1>7. Fits(FileIndicators(s), "Suspicious File")
  <2> DEFINE suspicious == Where(normFiles(s), LAMBDA f : f.isSuspicious)
             value == [k \in 1 .. Len(suspicious) |-> suspicious[k].path]
             places == {i \in DOMAIN normFiles(s) : normFiles(s)[i].isSuspicious}
  <2>1. IsList(normFiles(s)) /\ DOMAIN normFiles(s) = DOMAIN s.files
    <3>1. PICK m \in Nat : DOMAIN s.files = 1 .. m
      BY DEF Parts, IsList
    <3>2. normFiles(s) = [i \in 1 .. m |-> normFiles(s)[i]] /\ DOMAIN normFiles(s) = DOMAIN s.files
      BY <3>1 DEF normFiles
    <3> QED
      BY <3>2, MappedList
  <2>2. /\ suspicious \in Seq(Values(normFiles(s)))
        /\ \A k \in 1 .. Len(suspicious) : \E i \in DOMAIN normFiles(s) : suspicious[k] = normFiles(s)[i]
    <3>1. suspicious = Keep(normFiles(s), places)
      BY DEF Where
    <3>2. normFiles(s) \in Seq(Values(normFiles(s))) /\ places \in SUBSET (1 .. Len(normFiles(s)))
      BY <2>1 DEF IsList
    <3>3. places \subseteq DOMAIN normFiles(s)
      OBVIOUS
    <3> HIDE DEF suspicious, places
    <3> QED
      BY <3>1, <3>2, <3>3, KeepMembers
  <2>3. Len(suspicious) \in Nat /\ DOMAIN suspicious = 1 .. Len(suspicious)
    BY <2>2
  <2>4. \A k \in 1 .. Len(suspicious) : value[k] # Null
    BY <2>1, <2>2, TextsRead
  <2>5. FileIndicators(s) = [k \in 1 .. Len(suspicious) |-> Indicator("Suspicious File", k, value[k])]
    BY <2>3 DEF FileIndicators
  <2> HIDE DEF suspicious, value
  <2> QED
    BY <2>3, <2>4, <2>5, NumberedFit
<1> QED
  BY <1>1, <1>2, <1>3, <1>4, <1>5, <1>6, <1>7

-----------------------------------------------------------------------------
(* What a search reads in each table *)

Readable(list) == \A row \in Values(list) : ~row.unreadable

(* Every text of these tables has a default. *)
LEMMA PlainRowsRead ==
  ASSUME NEW s
  PROVE  Readable(FileRows(s)) /\ Readable(DnsRows(s)) /\ Readable(ModuleRows(s)) /\ Readable(TechniqueRows(s))
<1>1. ASSUME NEW row \in Values(FileRows(s)) PROVE ~row.unreadable
  <2>1. PICK i \in DOMAIN s.files :
          row = Row(i, {normFiles(s)[i].path}, {normFiles(s)[i].action})
    <3>1. DOMAIN FileRows(s) = DOMAIN s.files
          /\ \A i \in DOMAIN s.files :
               FileRows(s)[i] = Row(i, {normFiles(s)[i].path}, {normFiles(s)[i].action})
      BY DEF FileRows, normFiles
    <3> QED
      BY <3>1 DEF Values
  <2> QED
    BY <2>1, TextsRead, RowReads
<1>2. ASSUME NEW row \in Values(DnsRows(s)) PROVE ~row.unreadable
  <2>1. PICK i \in DOMAIN s.dns :
          row = Row(i, {normDns(s)[i].domain} \cup normDns(s)[i].resolvedIp, {"A"})
    BY DEF DnsRows, normDns, Values
  <2>2. Null \notin normDns(s)[i].resolvedIp
    BY OwnTextsRead DEF OwnTexts, normDns, ResolvedIp
  <2> QED
    BY <2>1, <2>2, TextsRead, RowReads
<1>3. ASSUME NEW row \in Values(ModuleRows(s)) PROVE ~row.unreadable
  <2>1. PICK i \in DOMAIN s.images :
          row = Row(i, {normModules(s)[i].path},
                    {IF normModules(s)[i].isSystem THEN "System Modules" ELSE "Unsigned / High Risk"})
    <3>1. DOMAIN ModuleRows(s) = DOMAIN s.images
          /\ \A i \in DOMAIN s.images :
               ModuleRows(s)[i] = Row(i, {normModules(s)[i].path},
                    {IF normModules(s)[i].isSystem THEN "System Modules" ELSE "Unsigned / High Risk"})
      BY DEF ModuleRows, normModules
    <3> QED
      BY <3>1 DEF Values
  <2>2. Null \notin {normModules(s)[i].path}
    BY <2>1, TextsRead
  <2> QED
    BY <2>1, <2>2, RowReads, Zenon
<1>4. ASSUME NEW row \in Values(TechniqueRows(s)) PROVE ~row.unreadable
  <2>1. PICK i \in DOMAIN s.techniques : \E options :
          row = Row(normTechniques(s)[i].id,
                    {normTechniques(s)[i].id, normTechniques(s)[i].name, normTechniques(s)[i].tactic}, options)
    <3>1. DOMAIN TechniqueRows(s) = DOMAIN s.techniques
          /\ \A i \in DOMAIN s.techniques : \E options :
               TechniqueRows(s)[i] = Row(normTechniques(s)[i].id,
                    {normTechniques(s)[i].id, normTechniques(s)[i].name, normTechniques(s)[i].tactic}, options)
      BY DEF TechniqueRows, normTechniques
    <3> QED
      BY <3>1 DEF Values
  <2>2. Null \notin {normTechniques(s)[i].id, normTechniques(s)[i].name, normTechniques(s)[i].tactic}
    BY <2>1, TextsRead
  <2> QED
    BY <2>1, <2>2, RowReads, Zenon
<1> QED
  BY <1>1, <1>2, <1>3, <1>4 DEF Readable

(* The timeline is not searched, and processes are named. *)
LEMMA TreeRowsRead ==
  ASSUME NEW s, Parts(s)
  PROVE  Readable(TimelineRows(s)) /\ Readable(ProcessRows(s))
<1>1. ASSUME NEW row \in Values(TimelineRows(s)) PROVE ~row.unreadable
  <2>1. \E i, options : row = Row(i, {}, options)
    BY DEF TimelineRows, Values
  <2> QED
    BY <2>1, RowReads
<1>2. ASSUME NEW row \in Values(ProcessRows(s)) PROVE ~row.unreadable
  <2>1. \E i \in DOMAIN FlatProcesses(s) : \E options :
          row = Row(FlatProcesses(s)[i].PID, {FlatProcesses(s)[i].name, FlatProcesses(s)[i].Command}, options)
    BY DEF ProcessRows, Values
  <2> QED
    BY <2>1, RowReads DEF Parts, Values
<1> QED
  BY <1>1, <1>2 DEF Readable

(* An indicator has a value and a kind. *)
LEMMA IocRowsRead == ASSUME NEW s, Parts(s) PROVE Readable(IocRows(s))
<1> DEFINE a == HashIndicator(s)
           b == IpIndicators(s)
           c == DomainIndicators(s)
           d == RegistryIndicators(s)
           e == FileIndicators(s)
           Good(x) == Null \notin {x.value, x.type}
<1>1. /\ IsList(a) /\ IsList(b) /\ IsList(c) /\ IsList(d) /\ IsList(e)
      /\ \A x \in Values(a) : Good(x)
      /\ \A x \in Values(b) : Good(x)
      /\ \A x \in Values(c) : Good(x)
      /\ \A x \in Values(d) : Good(x)
      /\ \A x \in Values(e) : Good(x)
  <2>1. /\ "File Hash (SHA256)" # Null /\ "IP Address" # Null /\ "Domain" # Null
        /\ "Registry Key" # Null /\ "Suspicious File" # Null
    BY OwnTextsRead DEF OwnTexts
  <2>2. ASSUME NEW list, NEW kind, Fits(list, kind), kind # Null
        PROVE  IsList(list) /\ \A x \in Values(list) : Good(x)
    BY <2>2 DEF Fits, Kind, Values
  <2> HIDE DEF a, b, c, d, e, Good
  <2>3. /\ Fits(a, "File Hash (SHA256)") /\ Fits(b, "IP Address") /\ Fits(c, "Domain")
        /\ Fits(d, "Registry Key") /\ Fits(e, "Suspicious File")
    BY IndicatorsFit DEF a, b, c, d, e
  <2> QED
    BY <2>1, <2>2, <2>3
<1>2. allIOCs(s) = (((a \o b) \o c) \o d) \o e
  BY DEF allIOCs
<1> HIDE DEF a, b, c, d, e, Good
<1>3. \A x \in Values((((a \o b) \o c) \o d) \o e) : Good(x)
  <2>1. IsList(a \o b) /\ \A x \in Values(a \o b) : Good(x)
    BY <1>1, JoinedList
  <2>2. IsList((a \o b) \o c) /\ \A x \in Values((a \o b) \o c) : Good(x)
    BY <1>1, <2>1, JoinedList
  <2>3. IsList(((a \o b) \o c) \o d) /\ \A x \in Values(((a \o b) \o c) \o d) : Good(x)
    BY <1>1, <2>2, JoinedList
  <2> QED
    BY <1>1, <2>3, JoinedList
<1>4. ASSUME NEW row \in Values(IocRows(s)) PROVE ~row.unreadable
  <2>1. \E x \in Values(allIOCs(s)) : \E key, options : row = Row(key, {x.value, x.type}, options)
    BY DEF IocRows, Values
  <2> QED
    BY <1>2, <1>3, <2>1, RowReads DEF Good
<1> QED
  BY <1>4 DEF Readable

(* A raw event has a type, a source and details; a missing target is the     *)
(* word undefined in them.                                                  *)
Whole(x) == Null \notin x.details \cup {x.eventType, x.source}

Events(list) == IsList(list) /\ \A x \in Values(list) : Whole(x)

(* An event made of texts that are there is whole. *)
LEMMA WholeEvent ==
  ASSUME NEW kind, NEW i, NEW type, NEW source, NEW texts, Null \notin texts \cup {type, source}
  PROVE  Whole(RawEvent(kind, i, type, source, texts))
  BY DEF RawEvent, Whole

(* Events made one for each place of a list are a list of events. *)
LEMMA EventsOf ==
  ASSUME NEW n \in Nat, NEW list, list = [i \in 1 .. n |-> list[i]], \A i \in 1 .. n : Whole(list[i])
  PROVE  Events(list)
  BY MappedList DEF Events, Values

(* So are two lists of them joined. *)
LEMMA EventsJoin == ASSUME NEW a, NEW b, Events(a), Events(b) PROVE Events(a \o b)
  BY JoinedList DEF Events

(* All six kinds of raw events are made of such texts. *)
LEMMA RawRowsRead == ASSUME NEW s, Parts(s) PROVE Readable(RawRows(s))
<1> DEFINE flat == FlatProcesses(s)
           files == normFiles(s)
           network == normNetwork(s)
           dns == normDns(s)
           modules == normModules(s)
           a == [i \in DOMAIN flat |->
                   RawEvent("proc", i, "process_create", "kernel-process", {flat[i].name})]
           b == [i \in DOMAIN files |->
                   RawEvent("file", i, RawFileType[files[i].action], "kernel-file", {files[i].action, files[i].path})]
           c == [i \in DOMAIN network |->
                   RawEvent("net", i, "network_connect", "kernel-network",
                            {IF network[i].isInbound THEN "Inbound from" ELSE "Outbound to",
                             Template(network[i].target), network[i].protocol})]
           d == [i \in DOMAIN dns |->
                   RawEvent("dns", i, "dns_query", "dns-client", {dns[i].domain} \cup dns[i].resolvedIp)]
           e == [i \in DOMAIN s.registry |->
                   RawEvent("reg", i, "registry_set", "kernel-registry",
                            {Text(s.registry[i], <<"Action", "action">>, "Registry action"), RegistryKey(s.registry[i])})]
           f == [i \in DOMAIN modules |->
                   RawEvent("mod", i, "module_load", "kernel-image", {modules[i].path})]
<1>1. allRawEvents(s) = ((((a \o b) \o c) \o d) \o e) \o f
  BY DEF allRawEvents
<1>2. \A text \in OwnTexts : text # Null
  BY OwnTextsRead
<1>3. Events(a)
  <2>1. PICK n \in Nat : DOMAIN flat = 1 .. n
    BY DEF Parts, IsList
  <2>2. a = [i \in 1 .. n |-> a[i]]
    BY <2>1
  <2>3. ASSUME NEW i \in 1 .. n PROVE Whole(a[i])
    <3>1. a[i] = RawEvent("proc", i, "process_create", "kernel-process", {flat[i].name})
      BY <2>1
    <3>2. Null \notin {flat[i].name} \cup {"process_create", "kernel-process"}
      BY <1>2, <2>1 DEF Parts, Values, OwnTexts
    <3> HIDE DEF a
    <3> QED
      BY <3>1, <3>2, WholeEvent
  <2> HIDE DEF a
  <2> QED
    BY <2>2, <2>3, EventsOf
<1>4. Events(b)
  <2>1. PICK n \in Nat : DOMAIN s.files = 1 .. n /\ DOMAIN files = 1 .. n
    BY DEF Parts, IsList, normFiles
  <2>2. b = [i \in 1 .. n |-> b[i]]
    BY <2>1
  <2>3. ASSUME NEW i \in 1 .. n PROVE Whole(b[i])
    <3>1. b[i] = RawEvent("file", i, RawFileType[files[i].action], "kernel-file", {files[i].action, files[i].path})
      BY <2>1
    <3>2. files[i].action \in {"Created", "Modified", "Deleted", "Read"} /\ files[i].path # Null
      BY <2>1, TextsRead DEF normFiles, DisplayAction
    <3>3. RawFileType[files[i].action] \in {"file_create", "file_modify", "file_delete"}
      BY <3>2 DEF RawFileType
    <3>4. Null \notin {files[i].action, files[i].path} \cup {RawFileType[files[i].action], "kernel-file"}
      BY <1>2, <3>2, <3>3 DEF OwnTexts
    <3> HIDE DEF b, files
    <3> QED
      BY <3>1, <3>4, WholeEvent
  <2> HIDE DEF b
  <2> QED
    BY <2>2, <2>3, EventsOf
<1>5. Events(c)
  <2>1. PICK n \in Nat : DOMAIN s.network = 1 .. n /\ DOMAIN network = 1 .. n
    BY DEF Parts, IsList, normNetwork
  <2>2. c = [i \in 1 .. n |-> c[i]]
    BY <2>1
  <2>3. ASSUME NEW i \in 1 .. n PROVE Whole(c[i])
    <3> DEFINE way == IF network[i].isInbound THEN "Inbound from" ELSE "Outbound to"
               target == Template(network[i].target)
               protocol == Text(s.network[i], <<"Protocol", "protocol">>, "TCP")
               dest == Field(s.network[i], <<"DestPort", "dest_port">>, 0)
               origin == Field(s.network[i], <<"SourcePort", "source_port">>, 0)
    <3>1. c[i] = RawEvent("net", i, "network_connect", "kernel-network", {way, target, network[i].protocol})
      BY <2>1
    <3>2. network[i].protocol = DisplayProtocol(protocol, dest, origin)
      BY <2>1 DEF normNetwork
    <3>3. way # Null
      BY <1>2 DEF OwnTexts
    <3>4. target # Null
      BY <1>2 DEF Template, OwnTexts
    <3>5. protocol # Null
      <4>1. "TCP" # Null
        BY <1>2 DEF OwnTexts
      <4> QED
        BY <4>1, TextIsThere, NamesAreNumbered
    <3>6. network[i].protocol # Null
      <4> HIDE DEF protocol, dest, origin
      <4>1. DisplayProtocol(protocol, dest, origin) \in {"HTTPS", "HTTP", "DNS", "NTP", protocol}
        BY DEF DisplayProtocol
      <4> QED
        BY <1>2, <3>2, <3>5, <4>1 DEF OwnTexts
    <3>7. Null \notin {"network_connect", "kernel-network"}
      BY <1>2 DEF OwnTexts
    <3> HIDE DEF c, way, target
    <3> QED
      BY <3>1, <3>3, <3>4, <3>6, <3>7, WholeEvent
  <2> HIDE DEF c
  <2> QED
    BY <2>2, <2>3, EventsOf
<1>6. Events(d)
  <2>1. PICK n \in Nat : DOMAIN s.dns = 1 .. n /\ DOMAIN dns = 1 .. n
    BY DEF Parts, IsList, normDns
  <2>2. d = [i \in 1 .. n |-> d[i]]
    BY <2>1
  <2>3. ASSUME NEW i \in 1 .. n PROVE Whole(d[i])
    <3>1. d[i] = RawEvent("dns", i, "dns_query", "dns-client", {dns[i].domain} \cup dns[i].resolvedIp)
      BY <2>1
    <3>2. dns[i].domain # Null /\ Null \notin dns[i].resolvedIp
      BY <1>2, <2>1, TextsRead DEF normDns, ResolvedIp, OwnTexts
    <3>3. Null \notin {"dns_query", "dns-client"}
      BY <1>2 DEF OwnTexts
    <3> HIDE DEF d, dns
    <3> QED
      BY <3>1, <3>2, <3>3, WholeEvent
  <2> HIDE DEF d
  <2> QED
    BY <2>2, <2>3, EventsOf
<1>7. Events(e)
  <2>1. PICK n \in Nat : DOMAIN s.registry = 1 .. n
    BY DEF Parts, IsList
  <2>2. e = [i \in 1 .. n |-> e[i]]
    BY <2>1
  <2>3. ASSUME NEW i \in 1 .. n PROVE Whole(e[i])
    <3> DEFINE action == Text(s.registry[i], <<"Action", "action">>, "Registry action")
               key == RegistryKey(s.registry[i])
    <3>1. e[i] = RawEvent("reg", i, "registry_set", "kernel-registry", {action, key})
      BY <2>1
    <3>2. Null \notin {"registry_set", "kernel-registry", "Registry action", ""}
      BY <1>2 DEF OwnTexts
    <3>3. action # Null
      BY <3>2, TextIsThere, NamesAreNumbered
    <3>4. key # Null
      BY <3>2, TextIsThere, NamesAreNumbered DEF RegistryKey
    <3> HIDE DEF e, action, key
    <3> QED
      BY <3>1, <3>2, <3>3, <3>4, WholeEvent
  <2> HIDE DEF e
  <2> QED
    BY <2>2, <2>3, EventsOf
<1>8. Events(f)
  <2>1. PICK n \in Nat : DOMAIN s.images = 1 .. n /\ DOMAIN modules = 1 .. n
    BY DEF Parts, IsList, normModules
  <2>2. f = [i \in 1 .. n |-> f[i]]
    BY <2>1
  <2>3. ASSUME NEW i \in 1 .. n PROVE Whole(f[i])
    <3>1. f[i] = RawEvent("mod", i, "module_load", "kernel-image", {modules[i].path})
      BY <2>1
    <3>2. modules[i].path # Null
      BY <2>1, TextsRead
    <3>3. Null \notin {"module_load", "kernel-image"}
      BY <1>2 DEF OwnTexts
    <3> HIDE DEF f, modules
    <3> QED
      BY <3>1, <3>2, <3>3, WholeEvent
  <2> HIDE DEF f
  <2> QED
    BY <2>2, <2>3, EventsOf
<1> HIDE DEF a, b, c, d, e, f
<1>9. Events(((((a \o b) \o c) \o d) \o e) \o f)
  <2>1. Events((a \o b) \o c)
    BY <1>3, <1>4, <1>5, EventsJoin
  <2>2. Events((((a \o b) \o c) \o d) \o e)
    BY <1>6, <1>7, <2>1, EventsJoin
  <2> QED
    BY <1>8, <2>2, EventsJoin
<1>10. ASSUME NEW row \in Values(RawRows(s)) PROVE ~row.unreadable
  <2>1. \E x \in Values(allRawEvents(s)) : \E key, options :
          row = Row(key, x.details \cup {x.eventType, x.source}, options)
    BY DEF RawRows, Values
  <2> QED
    BY <1>1, <1>9, <2>1, RowReads DEF Events, Whole
<1> QED
  BY <1>10 DEF Readable

(* A connection is shown by its address, which is there, or by the name of a *)
(* query that resolved it.                                                  *)
LEMMA NetworkRowsRead ==
  ASSUME NEW s, NEW row \in Values(NetworkRows(s)), row.unreadable
  PROVE  \E n \in Values(s.network), d \in Values(s.dns) :
            Text(n, <<"DestIP", "dest_ip">>, "0.0.0.0") \in Values(Results(d))
<1> DEFINE net == normNetwork(s)
           ip(i) == Text(s.network[i], <<"DestIP", "dest_ip">>, "0.0.0.0")
           matched(i) == {k \in DOMAIN s.dns : ip(i) \in Values(Results(s.dns[k]))}
<1>1. PICK i \in DOMAIN s.network : \E options : row = Row(i, {net[i].target, net[i].destIp}, options)
  <2>1. DOMAIN NetworkRows(s) = DOMAIN s.network
        /\ \A i \in DOMAIN s.network : NetworkRows(s)[i] = Row(i, {net[i].target, net[i].destIp}, {net[i].protocol})
    BY DEF NetworkRows, normNetwork
  <2> HIDE DEF net
  <2> QED
    BY <2>1 DEF Values
<1>2. net[i].target = Null
  BY <1>1, RowReads, TextsRead
<1>3. /\ net[i].destIp = ip(i)
      /\ net[i].target = IF matched(i) = {} THEN ip(i) ELSE QueryName(s.dns[First(matched(i))], Null)
  BY DEF normNetwork
<1>4. matched(i) # {}
  BY <1>2, <1>3, TextsRead
<1>5. PICK k \in DOMAIN s.dns : ip(i) \in Values(Results(s.dns[k]))
  BY <1>4
<1>6. s.network[i] \in Values(s.network) /\ s.dns[k] \in Values(s.dns)
  BY DEF Values
<1> QED
  BY <1>5, <1>6

(* The page is down only if a row of its table is unreadable, and there are  *)
(* unreadable rows in the network table alone.                              *)
LEMMA Throwing == LoadFits /\ BlankFits => OnlyResolvedTargetsThrow
<1> SUFFICES ASSUME LoadFits, BlankFits, blank PROVE
      /\ table = "Network"
      /\ \E n \in Values(sample.network), d \in Values(sample.dns) :
            Text(n, <<"DestIP", "dest_ip">>, "0.0.0.0") \in Values(Results(d))
  BY DEF OnlyResolvedTargetsThrow
<1>1. PICK row \in Values(rows) : row.unreadable
  BY DEF BlankFits
<1>2. shown \in Samples /\ table \in Tables /\ rows = RowsOf(table, shown)
  BY TablesAssumption DEF LoadFits
<1>3. Parts(sample)
  BY <1>2, SampleParts DEF sample
<1>4. /\ table = "Behavior" => rows = TimelineRows(sample)
      /\ table = "Processes" => rows = ProcessRows(sample)
      /\ table = "File System" => rows = FileRows(sample)
      /\ table = "Network" => rows = NetworkRows(sample)
      /\ table = "DNS" => rows = DnsRows(sample)
      /\ table = "Modules" => rows = ModuleRows(sample)
      /\ table = "MITRE ATT&CK" => rows = TechniqueRows(sample)
      /\ table = "IOCs" => rows = IocRows(sample)
      /\ table = "Raw Events" => rows = RawRows(sample)
  BY <1>2 DEF RowsOf, sample
<1>5. table = "Network"
  <2>1. ASSUME Readable(rows) PROVE FALSE
    BY <1>1, <2>1 DEF Readable
  <2> QED
    BY <1>2, <1>3, <1>4, <2>1, PlainRowsRead, TreeRowsRead, IocRowsRead, RawRowsRead DEF Tables, Paged
<1> QED
  BY <1>1, <1>4, <1>5, NetworkRowsRead

(* A search takes the page down only in the network table, and only with a  *)
(* connection to an address that a query of the report resolved; every other *)
(* text that a search reads has a default (Dashboard.jsx:645-700).           *)
THEOREM OnlyTargetsThrow == Spec => []OnlyResolvedTargetsThrow
<1>1. Init => BlankFits
  BY DEF Init, BlankFits
<1>2. Spec => []BlankFits
  BY <1>1, BlankStep, PTL DEF Spec
<1>3. IInv => LoadFits
  BY DEF IInv
<1> QED
  BY <1>2, <1>3, Invariance, Throwing, PTL

-----------------------------------------------------------------------------
(* One indicator for each address and each domain *)

(* The places where a value is seen first are as many as there are values,   *)
(* with or without those that are skipped.                                  *)
LEMMA FirstsCount ==
  ASSUME NEW n \in Nat, NEW value, DOMAIN value = 1 .. n, NEW X
  PROVE  Cardinality(Firsts(value) \ {i \in DOMAIN value : value[i] \in X}) = Cardinality(Values(value) \ X)
<1> DEFINE places == Firsts(value) \ {i \in DOMAIN value : value[i] \in X}
           f == [i \in places |-> value[i]]
<1>1. places \subseteq 1 .. n /\ places \subseteq Firsts(value)
  BY DEF Firsts
<1>2. \A i \in places : value[i] \notin X
  BY DEF Firsts
<1>3. f \in [places -> Values(value) \ X]
  <2>1. \A i \in places : value[i] \in Values(value) \ X
    BY <1>1, <1>2 DEF Values
  <2> QED
    BY <2>1
<1>4. ASSUME NEW i \in places, NEW j \in places, f[i] = f[j] PROVE i = j
  <2>1. i \in Nat /\ j \in Nat /\ value[i] = value[j]
    BY <1>1, <1>4
  <2>2. ~(i < j) /\ ~(j < i)
    BY <1>1, <2>1 DEF Firsts
  <2> QED
    BY <2>1, <2>2
<1>5. ASSUME NEW v \in Values(value) \ X PROVE \E i \in places : f[i] = v
  <2> DEFINE T == {i \in 1 .. n : value[i] = v}
  <2>1. T \in SUBSET Nat /\ T # {}
    BY <1>5 DEF Values
  <2>2. PICK i \in T : \A j \in T : i <= j
    <3> HIDE DEF T
    <3> QED
      BY <2>1, Least
  <2>3. \A j \in 1 .. i - 1 : value[j] # value[i]
    <3> SUFFICES ASSUME NEW j \in 1 .. i - 1, value[j] = value[i] PROVE FALSE
      OBVIOUS
    <3>1. j \in T /\ j < i
      BY <2>2
    <3> QED
      BY <2>2, <3>1
  <2>4. i \in places
    BY <1>5, <2>2, <2>3 DEF Firsts
  <2> QED
    BY <2>2, <2>4
<1>6. IsFiniteSet(places)
  <2>1. IsFiniteSet(1 .. n)
    BY FS_Interval
  <2> HIDE DEF places
  <2> QED
    BY <1>1, <2>1, FS_Subset
<1> HIDE DEF places, f
<1>7. f \in Bijection(places, Values(value) \ X)
  BY <1>3, <1>4, <1>5, Fun_IsBij
<1>8. ExistsBijection(places, Values(value) \ X)
  BY <1>7 DEF ExistsBijection
<1>9. Cardinality(places) = Cardinality(Values(value) \ X)
  BY <1>6, <1>8, FS_Bijection
<1> QED
  BY <1>9 DEF places

(* The places of a list that have the entries of one type. *)
PlacesOf(list, type) == {i \in DOMAIN list : list[i].type = type}

CountOf(list, type) == Cardinality(PlacesOf(list, type))

(* Joined lists have the entries of a type that each of them has. *)
LEMMA JoinCount ==
  ASSUME NEW a, NEW b, IsList(a), IsList(b), NEW type
  PROVE  /\ CountOf(a \o b, type) = CountOf(a, type) + CountOf(b, type)
         /\ CountOf(a, type) \in Nat /\ CountOf(b, type) \in Nat
<1>1. PICK m \in Nat, n \in Nat : /\ m = Len(a) /\ n = Len(b)
                                  /\ DOMAIN a = 1 .. m /\ DOMAIN b = 1 .. n
  BY DEF IsList
<1>2. PICK c : c = a \o b
  OBVIOUS
<1>3. /\ DOMAIN c = 1 .. m + n
      /\ \A i \in 1 .. m : c[i] = a[i]
      /\ \A i \in 1 .. n : c[m + i] = b[i]
  <2>1. a \in Seq(Values(a) \cup Values(b)) /\ b \in Seq(Values(a) \cup Values(b))
    BY DEF IsList
  <2> QED
    BY <1>1, <1>2, <2>1
<1> DEFINE A == PlacesOf(a, type)
           B == PlacesOf(b, type)
           C == {m + i : i \in B}
           f == [i \in B |-> m + i]
<1>4. A \subseteq 1 .. m /\ B \subseteq 1 .. n
  BY <1>1 DEF PlacesOf
<1>5. PlacesOf(c, type) = A \cup C
  <2>1. ASSUME NEW i \in PlacesOf(c, type) PROVE i \in A \cup C
    <3>1. i \in 1 .. m + n /\ c[i].type = type
      BY <1>3, <2>1 DEF PlacesOf
    <3>2. CASE i \in 1 .. m
      BY <1>1, <1>3, <3>1, <3>2 DEF PlacesOf
    <3>3. CASE i \notin 1 .. m
      <4>1. PICK j \in 1 .. n : i = m + j
        BY <3>1, <3>3, i - m \in 1 .. n
      <4>2. j \in B
        BY <1>1, <1>3, <3>1, <4>1 DEF PlacesOf
      <4> QED
        BY <4>1, <4>2
    <3> QED
      BY <3>2, <3>3
  <2>2. ASSUME NEW i \in A PROVE i \in PlacesOf(c, type)
    BY <1>1, <1>3, <2>2 DEF PlacesOf
  <2>3. ASSUME NEW j \in B PROVE m + j \in PlacesOf(c, type)
    <3>1. j \in 1 .. n /\ b[j].type = type
      BY <1>1, <2>3 DEF PlacesOf
    <3>2. m + j \in 1 .. m + n /\ c[m + j].type = type
      BY <1>3, <3>1
    <3> QED
      BY <1>3, <3>2 DEF PlacesOf
  <2> QED
    BY <2>1, <2>2, <2>3
<1> HIDE DEF A, B
<1>6. IsFiniteSet(A) /\ IsFiniteSet(B)
  <2>1. IsFiniteSet(1 .. m) /\ IsFiniteSet(1 .. n)
    BY FS_Interval
  <2> QED
    BY <1>4, <2>1, FS_Subset
<1>7. IsFiniteSet(C) /\ Cardinality(C) = Cardinality(B)
  <2>1. f \in [B -> C]
    OBVIOUS
  <2>2. \A i, j \in B : f[i] = f[j] => i = j
    BY <1>4
  <2>3. \A k \in C : \E i \in B : f[i] = k
    OBVIOUS
  <2> HIDE DEF f, C
  <2>4. f \in Bijection(B, C)
    BY <2>1, <2>2, <2>3, Fun_IsBij
  <2>5. ExistsBijection(B, C)
    BY <2>4 DEF ExistsBijection
  <2> QED
    BY <1>6, <2>5, FS_Bijection
<1>8. A \cap C = {}
  BY <1>4
<1> HIDE DEF C
<1>9. /\ Cardinality(A \cup C) = Cardinality(A) + Cardinality(C) - Cardinality(A \cap C)
      /\ Cardinality(A \cap C) = 0 /\ Cardinality(A) \in Nat /\ Cardinality(C) \in Nat
  BY <1>6, <1>7, <1>8, FS_Union, FS_EmptySet, FS_CardinalityType
<1> QED
  BY <1>2, <1>5, <1>7, <1>9 DEF CountOf, A, B

(* A list of indicators of one kind has that type alone. *)
LEMMA KindCount ==
  ASSUME NEW list, NEW kind, Fits(list, kind), NEW type
  PROVE  /\ Len(list) \in Nat
         /\ CountOf(list, type) = IF type = kind THEN Len(list) ELSE 0
<1>1. Len(list) \in Nat /\ DOMAIN list = 1 .. Len(list)
  BY DEF Fits, IsList
<1>2. PlacesOf(list, type) = IF type = kind THEN 1 .. Len(list) ELSE {}
  BY <1>1 DEF PlacesOf, Fits, Kind
<1>3. Cardinality(1 .. Len(list)) = Len(list)
  <2>1. \A n \in Nat : Cardinality(1 .. n) = n
    BY FS_Interval
  <2> QED
    BY <1>1, <2>1
<1> QED
  BY <1>1, <1>2, <1>3, FS_EmptySet DEF CountOf

(* Indicators of several kinds, each with an id of its own. *)
Mixed(list, kinds) == IsList(list) /\ Distinct(list) /\ \A x \in Values(list) : x.id[1] \in kinds

(* Those of one kind are such a list. *)
LEMMA FitsMixes == ASSUME NEW list, NEW kind, Fits(list, kind) PROVE Mixed(list, {kind})
  BY DEF Fits, Kind, Mixed, Values

(* Lists without a kind in common can be joined. *)
LEMMA MixedJoin ==
  ASSUME NEW a, NEW b, NEW K, NEW L, Mixed(a, K), Mixed(b, L), K \cap L = {}
  PROVE  Mixed(a \o b, K \cup L)
<1>1. PICK m \in Nat, n \in Nat : /\ m = Len(a) /\ n = Len(b)
                                  /\ DOMAIN a = 1 .. m /\ DOMAIN b = 1 .. n
  BY DEF Mixed, IsList
<1>2. PICK c : c = a \o b
  OBVIOUS
<1>3. /\ DOMAIN c = 1 .. m + n
      /\ \A i \in 1 .. m : c[i] = a[i]
      /\ \A i \in 1 .. n : c[m + i] = b[i]
  <2>1. a \in Seq(Values(a) \cup Values(b)) /\ b \in Seq(Values(a) \cup Values(b))
    BY DEF Mixed, IsList
  <2> QED
    BY <1>1, <1>2, <2>1
<1>4. /\ \A i \in 1 .. m : c[i].id[1] \in K
      /\ \A i \in 1 .. n : c[m + i].id[1] \in L
  BY <1>1, <1>3 DEF Mixed, Values
<1>5. ASSUME NEW i \in 1 .. m + n, NEW j \in 1 .. m + n, c[i].id = c[j].id PROVE i = j
  <2>1. CASE i \in 1 .. m /\ j \in 1 .. m
    <3>1. i \in DOMAIN a /\ j \in DOMAIN a /\ a[i].id = a[j].id
      BY <1>1, <1>3, <1>5, <2>1
    <3> QED
      BY <3>1 DEF Mixed, Distinct
  <2>2. CASE i \notin 1 .. m /\ j \notin 1 .. m
    <3>1. PICK k \in 1 .. n, l \in 1 .. n : i = m + k /\ j = m + l
      BY <2>2, i - m \in 1 .. n, j - m \in 1 .. n
    <3>2. b[k].id = b[l].id /\ k \in DOMAIN b /\ l \in DOMAIN b
      BY <1>1, <1>3, <1>5, <3>1
    <3>3. k = l
      BY <3>2 DEF Mixed, Distinct
    <3> QED
      BY <3>1, <3>3
  <2>3. CASE i \in 1 .. m /\ j \notin 1 .. m
    <3>1. PICK l \in 1 .. n : j = m + l
      BY <2>3, j - m \in 1 .. n
    <3> QED
      BY <1>4, <1>5, <2>3, <3>1
  <2>4. CASE i \notin 1 .. m /\ j \in 1 .. m
    <3>1. PICK k \in 1 .. n : i = m + k
      BY <2>4, i - m \in 1 .. n
    <3> QED
      BY <1>4, <1>5, <2>4, <3>1
  <2> QED
    BY <2>1, <2>2, <2>3, <2>4
<1>6. IsList(c) /\ \A x \in Values(c) : x.id[1] \in K \cup L
  BY <1>2, JoinedList DEF Mixed
<1> QED
  BY <1>2, <1>3, <1>5, <1>6 DEF Mixed, Distinct

(* The indicators: one list of each kind. *)
LEMMA AllIndicators ==
  ASSUME NEW s, Parts(s)
  PROVE  /\ IsList(allIOCs(s)) /\ Distinct(allIOCs(s))
         /\ CountOf(allIOCs(s), "IP Address") = Len(IpIndicators(s))
         /\ CountOf(allIOCs(s), "Domain") = Len(DomainIndicators(s))
<1> DEFINE a == HashIndicator(s)
           b == IpIndicators(s)
           c == DomainIndicators(s)
           d == RegistryIndicators(s)
           e == FileIndicators(s)
<1>1. /\ Fits(a, "File Hash (SHA256)") /\ Fits(b, "IP Address") /\ Fits(c, "Domain")
      /\ Fits(d, "Registry Key") /\ Fits(e, "Suspicious File")
  BY IndicatorsFit
<1>2. allIOCs(s) = (((a \o b) \o c) \o d) \o e
  BY DEF allIOCs
<1> HIDE DEF a, b, c, d, e
<1>3. /\ Mixed(a, {"File Hash (SHA256)"}) /\ Mixed(b, {"IP Address"}) /\ Mixed(c, {"Domain"})
      /\ Mixed(d, {"Registry Key"}) /\ Mixed(e, {"Suspicious File"})
  BY <1>1, FitsMixes
<1>4. Mixed(a \o b, {"File Hash (SHA256)"} \cup {"IP Address"})
  BY <1>3, MixedJoin
<1>5. Mixed((a \o b) \o c, {"File Hash (SHA256)"} \cup {"IP Address"} \cup {"Domain"})
  BY <1>3, <1>4, MixedJoin
<1>6. Mixed(((a \o b) \o c) \o d,
            {"File Hash (SHA256)"} \cup {"IP Address"} \cup {"Domain"} \cup {"Registry Key"})
  BY <1>3, <1>5, MixedJoin
<1>7. Mixed((((a \o b) \o c) \o d) \o e,
            {"File Hash (SHA256)"} \cup {"IP Address"} \cup {"Domain"} \cup {"Registry Key"}
              \cup {"Suspicious File"})
  BY <1>3, <1>6, MixedJoin
<1>8. ASSUME NEW type
      PROVE  CountOf((((a \o b) \o c) \o d) \o e, type)
               = CountOf(a, type) + CountOf(b, type) + CountOf(c, type) + CountOf(d, type) + CountOf(e, type)
  <2>1. /\ IsList(a) /\ IsList(b) /\ IsList(c) /\ IsList(d) /\ IsList(e)
        /\ IsList(a \o b) /\ IsList((a \o b) \o c) /\ IsList(((a \o b) \o c) \o d)
    BY <1>3, <1>4, <1>5, <1>6, Zenon DEF Mixed
  <2>2. CountOf(a \o b, type) = CountOf(a, type) + CountOf(b, type)
    BY <2>1, JoinCount, Zenon
  <2>3. CountOf((a \o b) \o c, type) = CountOf(a \o b, type) + CountOf(c, type)
    BY <2>1, JoinCount, Zenon
  <2>4. CountOf(((a \o b) \o c) \o d, type) = CountOf((a \o b) \o c, type) + CountOf(d, type)
    BY <2>1, JoinCount, Zenon
  <2>5. CountOf((((a \o b) \o c) \o d) \o e, type) = CountOf(((a \o b) \o c) \o d, type) + CountOf(e, type)
    BY <2>1, JoinCount, Zenon
  <2> QED
    BY <2>2, <2>3, <2>4, <2>5
<1>9. /\ CountOf(a, "IP Address") = 0 /\ CountOf(b, "IP Address") = Len(b) /\ CountOf(c, "IP Address") = 0
      /\ CountOf(d, "IP Address") = 0 /\ CountOf(e, "IP Address") = 0 /\ Len(b) \in Nat
  BY <1>1, KindCount
<1>10. /\ CountOf(a, "Domain") = 0 /\ CountOf(b, "Domain") = 0 /\ CountOf(c, "Domain") = Len(c)
       /\ CountOf(d, "Domain") = 0 /\ CountOf(e, "Domain") = 0 /\ Len(c) \in Nat
  BY <1>1, KindCount
<1>11. /\ CountOf((((a \o b) \o c) \o d) \o e, "IP Address") = Len(b)
       /\ CountOf((((a \o b) \o c) \o d) \o e, "Domain") = Len(c)
  <2>1. CountOf((((a \o b) \o c) \o d) \o e, "IP Address") = 0 + Len(b) + 0 + 0 + 0
    BY <1>8, <1>9, Zenon
  <2>2. CountOf((((a \o b) \o c) \o d) \o e, "Domain") = 0 + 0 + Len(c) + 0 + 0
    BY <1>8, <1>10, Zenon
  <2>3. \A m \in Nat : 0 + m + 0 + 0 + 0 = m /\ 0 + 0 + m + 0 + 0 = m
    OBVIOUS
  <2>4. Len(b) \in Nat /\ Len(c) \in Nat
    BY <1>9, <1>10, Zenon
  <2> QED
    BY <2>1, <2>2, <2>3, <2>4, Zenon
<1> QED
  BY <1>2, <1>7, <1>11 DEF Mixed, b, c

(* There are as many as the cards count. *)
LEMMA IndicatorCounts ==
  ASSUME NEW s, Parts(s)
  PROVE  /\ Len(IpIndicators(s)) = Cardinality(netSummary(s).netIpMap)
         /\ Len(DomainIndicators(s)) = dnsSummary(s).dnsUniqueDomains
<1>1. Len(IpIndicators(s)) = Cardinality(netSummary(s).netIpMap)
  <2> DEFINE net == normNetwork(s)
             value == [i \in DOMAIN net |-> net[i].destIp]
             places == Firsts(value) \ {i \in DOMAIN net : net[i].destIp = "0.0.0.0"}
  <2>1. PICK n \in Nat : DOMAIN net = 1 .. n /\ DOMAIN s.network = 1 .. n /\ n = Len(s.network)
    BY DEF Parts, IsList, normNetwork
  <2>2. places = Firsts(value) \ {i \in DOMAIN value : value[i] \in {"0.0.0.0"}}
    OBVIOUS
  <2>3. netSummary(s).netIpMap = Values(value) \ {"0.0.0.0"}
    BY DEF netSummary, Values
  <2>4. IsList(IpsWithRepeats(s)) /\ DOMAIN IpsWithRepeats(s) = 1 .. n
    BY <2>1, IndicatorsFit DEF Fits
  <2>5. places \in SUBSET (1 .. n) /\ Len(IpsWithRepeats(s)) = n
    BY <2>1, <2>4 DEF Firsts, IsList
  <2>6. IpIndicators(s) = Keep(IpsWithRepeats(s), places)
    BY DEF IpIndicators
  <2>7. DOMAIN value = 1 .. n
    BY <2>1
  <2> HIDE DEF value, places
  <2>8. Len(Keep(IpsWithRepeats(s), places)) = Cardinality(places)
    BY <2>4, <2>5, KeepLength DEF IsList
  <2>9. Cardinality(places) = Cardinality(Values(value) \ {"0.0.0.0"})
    BY <2>2, <2>7, FirstsCount
  <2> QED
    BY <2>3, <2>6, <2>8, <2>9
<1>2. Len(DomainIndicators(s)) = dnsSummary(s).dnsUniqueDomains
  <2> DEFINE dns == normDns(s)
             value == [i \in DOMAIN dns |-> dns[i].domain]
             list == [i \in DOMAIN dns |-> Indicator("Domain", i, dns[i].domain)]
             places == Firsts(value)
  <2>1. PICK n \in Nat : DOMAIN dns = 1 .. n
    BY DEF Parts, IsList, normDns
  <2>2. places = Firsts(value) \ {i \in DOMAIN value : value[i] \in {}}
    OBVIOUS
  <2>3. dnsSummary(s).dnsUniqueDomains = Cardinality(Values(value) \ {})
    <3>1. {x.domain : x \in Values(normDns(s))} = Values(value) \ {}
      BY DEF Values
    <3> HIDE DEF value
    <3> QED
      BY <3>1 DEF dnsSummary
  <2>4. list = [i \in 1 .. n |-> list[i]] /\ DOMAIN value = 1 .. n
    BY <2>1
  <2>5. DomainIndicators(s) = Keep(list, places)
    BY DEF DomainIndicators
  <2> HIDE DEF value, list
  <2>6. IsList(list) /\ Len(list) = n
    BY <2>4, MappedList
  <2>7. places \in SUBSET (1 .. n)
    BY <2>4 DEF Firsts
  <2> HIDE DEF places
  <2>8. Len(Keep(list, places)) = Cardinality(places)
    BY <2>6, <2>7, KeepLength DEF IsList
  <2>9. Cardinality(places) = Cardinality(Values(value) \ {})
    BY <2>2, <2>4, FirstsCount
  <2> QED
    BY <2>3, <2>5, <2>8, <2>9
<1> QED
  BY <1>1, <1>2

(* Filtering the indicators by a type finds those that were taken once each. *)
LEMMA Uniqueness == LoadFits => IndicatorsAreUnique
<1> SUFFICES ASSUME LoadFits PROVE IndicatorsAreUnique
  OBVIOUS
<1>1. Parts(sample)
  BY SampleParts DEF LoadFits, sample
<1>2. PICK all : all = allIOCs(sample)
  OBVIOUS
<1>3. /\ IsList(all) /\ Distinct(all)
      /\ CountOf(all, "IP Address") = Cardinality(netSummary(sample).netIpMap)
      /\ CountOf(all, "Domain") = dnsSummary(sample).dnsUniqueDomains
  BY <1>1, <1>2, AllIndicators, IndicatorCounts
<1>4. ASSUME NEW type
      PROVE  Len(Where(all, LAMBDA ioc : ioc.type = type)) = CountOf(all, type)
  <2>1. PlacesOf(all, type) \in SUBSET (1 .. Len(all)) /\ all \in Seq(Values(all))
    <3>1. DOMAIN all = 1 .. Len(all)
      <4>1. IsList(all)
        BY <1>3, Zenon
      <4> QED
        BY <4>1 DEF IsList
    <3>2. PlacesOf(all, type) \subseteq DOMAIN all
      BY DEF PlacesOf
    <3> QED
      BY <1>3, <3>1, <3>2 DEF IsList
  <2>2. Where(all, LAMBDA ioc : ioc.type = type) = Keep(all, PlacesOf(all, type))
    BY DEF Where, PlacesOf
  <2> QED
    BY <2>1, <2>2, KeepLength DEF CountOf
<1> QED
  BY <1>2, <1>3, <1>4 DEF IndicatorsAreUnique, Distinct

(* The indicators have one row for each address and each domain that the     *)
(* other tabs count, although the report repeats them, and no two rows share *)
(* the id that a click selects by (Dashboard.jsx:887-998).                   *)
THEOREM IndicatorsOnce == Spec => []IndicatorsAreUnique
<1>1. IInv => IndicatorsAreUnique
  BY Uniqueness DEF IInv
<1> QED
  BY <1>1, Invariance, PTL

-----------------------------------------------------------------------------
(* One raw event for each activity *)

(* Entries made one for each place of a list, with an id of their own. *)
LEMMA NumberedMix ==
  ASSUME NEW n \in Nat, NEW kind, NEW list, list = [i \in 1 .. n |-> list[i]],
         \A i \in 1 .. n : list[i].id = <<kind, i>>
  PROVE  Mixed(list, {kind}) /\ Len(list) = n
<1>1. IsList(list) /\ Len(list) = n /\ DOMAIN list = 1 .. n
  BY MappedList
<1>2. Distinct(list) /\ \A x \in Values(list) : x.id[1] \in {kind}
  BY <1>1 DEF Distinct, Values
<1> QED
  BY <1>1, <1>2 DEF Mixed

(* The six kinds of raw events: one for each entry of a part of the report. *)
LEMMA RawParts ==
  ASSUME NEW s, Parts(s)
  PROVE  /\ Distinct(allRawEvents(s))
         /\ Len(allRawEvents(s)) = Len(FlatProcesses(s)) + Len(s.files) + Len(s.network)
                                   + Len(s.dns) + Len(s.registry) + Len(s.images)
<1> DEFINE flat == FlatProcesses(s)
           files == normFiles(s)
           network == normNetwork(s)
           dns == normDns(s)
           modules == normModules(s)
           a == [i \in DOMAIN flat |->
                   RawEvent("proc", i, "process_create", "kernel-process", {flat[i].name})]
           b == [i \in DOMAIN files |->
                   RawEvent("file", i, RawFileType[files[i].action], "kernel-file", {files[i].action, files[i].path})]
           c == [i \in DOMAIN network |->
                   RawEvent("net", i, "network_connect", "kernel-network",
                            {IF network[i].isInbound THEN "Inbound from" ELSE "Outbound to",
                             Template(network[i].target), network[i].protocol})]
           d == [i \in DOMAIN dns |->
                   RawEvent("dns", i, "dns_query", "dns-client", {dns[i].domain} \cup dns[i].resolvedIp)]
           e == [i \in DOMAIN s.registry |->
                   RawEvent("reg", i, "registry_set", "kernel-registry",
                            {Text(s.registry[i], <<"Action", "action">>, "Registry action"), RegistryKey(s.registry[i])})]
           f == [i \in DOMAIN modules |->
                   RawEvent("mod", i, "module_load", "kernel-image", {modules[i].path})]
<1>1. allRawEvents(s) = ((((a \o b) \o c) \o d) \o e) \o f
  BY DEF allRawEvents
<1>2. PICK p \in Nat, q \in Nat, r \in Nat, u \in Nat, v \in Nat, w \in Nat :
        /\ p = Len(flat) /\ q = Len(s.files) /\ r = Len(s.network)
        /\ u = Len(s.dns) /\ v = Len(s.registry) /\ w = Len(s.images)
        /\ DOMAIN flat = 1 .. p /\ DOMAIN s.files = 1 .. q /\ DOMAIN s.network = 1 .. r
        /\ DOMAIN s.dns = 1 .. u /\ DOMAIN s.registry = 1 .. v /\ DOMAIN s.images = 1 .. w
  <2>1. \A list : IsList(list) => Len(list) \in Nat /\ DOMAIN list = 1 .. Len(list)
    BY DEF IsList
  <2>2. /\ IsList(flat) /\ IsList(s.files) /\ IsList(s.network)
        /\ IsList(s.dns) /\ IsList(s.registry) /\ IsList(s.images)
    BY DEF Parts
  <2> HIDE DEF flat
  <2> QED
    BY <2>1, <2>2
<1>3. /\ DOMAIN files = 1 .. q /\ DOMAIN network = 1 .. r /\ DOMAIN dns = 1 .. u /\ DOMAIN modules = 1 .. w
  BY <1>2 DEF normFiles, normNetwork, normDns, normModules
<1> HIDE DEF files, network, dns, modules
<1>4. Mixed(a, {"proc"}) /\ Len(a) = p
  <2>1. a = [i \in 1 .. p |-> a[i]] /\ \A i \in 1 .. p : a[i].id = <<"proc", i>>
    BY <1>2 DEF RawEvent
  <2> HIDE DEF a
  <2> QED
    BY <2>1, NumberedMix
<1>5. Mixed(b, {"file"}) /\ Len(b) = q
  <2>1. b = [i \in 1 .. q |-> b[i]] /\ \A i \in 1 .. q : b[i].id = <<"file", i>>
    BY <1>3 DEF RawEvent
  <2> HIDE DEF b
  <2> QED
    BY <2>1, NumberedMix
<1>6. Mixed(c, {"net"}) /\ Len(c) = r
  <2>1. c = [i \in 1 .. r |-> c[i]] /\ \A i \in 1 .. r : c[i].id = <<"net", i>>
    BY <1>3 DEF RawEvent
  <2> HIDE DEF c
  <2> QED
    BY <2>1, NumberedMix
<1>7. Mixed(d, {"dns"}) /\ Len(d) = u
  <2>1. d = [i \in 1 .. u |-> d[i]] /\ \A i \in 1 .. u : d[i].id = <<"dns", i>>
    BY <1>3 DEF RawEvent
  <2> HIDE DEF d
  <2> QED
    BY <2>1, NumberedMix
<1>8. Mixed(e, {"reg"}) /\ Len(e) = v
  <2>1. e = [i \in 1 .. v |-> e[i]] /\ \A i \in 1 .. v : e[i].id = <<"reg", i>>
    BY <1>2 DEF RawEvent
  <2> HIDE DEF e
  <2> QED
    BY <2>1, NumberedMix
<1>9. Mixed(f, {"mod"}) /\ Len(f) = w
  <2>1. f = [i \in 1 .. w |-> f[i]] /\ \A i \in 1 .. w : f[i].id = <<"mod", i>>
    BY <1>3 DEF RawEvent
  <2> HIDE DEF f
  <2> QED
    BY <2>1, NumberedMix
<1> HIDE DEF a, b, c, d, e, f
<1>10. Mixed(a \o b, {"proc"} \cup {"file"})
  BY <1>4, <1>5, MixedJoin
<1>11. Mixed((a \o b) \o c, {"proc"} \cup {"file"} \cup {"net"})
  BY <1>6, <1>10, MixedJoin
<1>12. Mixed(((a \o b) \o c) \o d, {"proc"} \cup {"file"} \cup {"net"} \cup {"dns"})
  BY <1>7, <1>11, MixedJoin
<1>13. Mixed((((a \o b) \o c) \o d) \o e, {"proc"} \cup {"file"} \cup {"net"} \cup {"dns"} \cup {"reg"})
  BY <1>8, <1>12, MixedJoin
<1>14. Mixed(((((a \o b) \o c) \o d) \o e) \o f,
             {"proc"} \cup {"file"} \cup {"net"} \cup {"dns"} \cup {"reg"} \cup {"mod"})
  BY <1>9, <1>13, MixedJoin
<1>15. Len(((((a \o b) \o c) \o d) \o e) \o f) = p + q + r + u + v + w
  <2>1. /\ IsList(a) /\ IsList(b) /\ IsList(c) /\ IsList(d) /\ IsList(e) /\ IsList(f)
        /\ IsList(a \o b) /\ IsList((a \o b) \o c) /\ IsList(((a \o b) \o c) \o d)
        /\ IsList((((a \o b) \o c) \o d) \o e)
    BY <1>4, <1>5, <1>6, <1>7, <1>8, <1>9, <1>10, <1>11, <1>12, <1>13, Zenon DEF Mixed
  <2>2. Len(a \o b) = Len(a) + Len(b)
    BY <2>1, JoinedList, Zenon
  <2>3. Len((a \o b) \o c) = Len(a \o b) + Len(c)
    BY <2>1, JoinedList, Zenon
  <2>4. Len(((a \o b) \o c) \o d) = Len((a \o b) \o c) + Len(d)
    BY <2>1, JoinedList, Zenon
  <2>5. Len((((a \o b) \o c) \o d) \o e) = Len(((a \o b) \o c) \o d) + Len(e)
    BY <2>1, JoinedList, Zenon
  <2>6. Len(((((a \o b) \o c) \o d) \o e) \o f) = Len((((a \o b) \o c) \o d) \o e) + Len(f)
    BY <2>1, JoinedList, Zenon
  <2> QED
    BY <1>4, <1>5, <1>6, <1>7, <1>8, <1>9, <2>2, <2>3, <2>4, <2>5, <2>6, Zenon
<1>16. Distinct(allRawEvents(s)) /\ Len(allRawEvents(s)) = p + q + r + u + v + w
  BY <1>1, <1>14, <1>15, Zenon DEF Mixed
<1> QED
  BY <1>2, <1>16

(* Techniques that are filtered by their tactic are as many as the places of *)
(* such a tactic.                                                           *)
LEMMA TacticCount ==
  ASSUME NEW s, Parts(s), NEW places, places \subseteq DOMAIN s.techniques
  PROVE  /\ Len(s.techniques) \in Nat
         /\ Len(Keep(normTechniques(s), places)) = 0 <=> places = {}
         /\ Len(Keep(normTechniques(s), places)) = Len(s.techniques) <=> places = DOMAIN s.techniques
<1> DEFINE norm == normTechniques(s)
<1>1. PICK n \in Nat : n = Len(s.techniques) /\ DOMAIN s.techniques = 1 .. n
  BY DEF Parts, IsList
<1>2. norm = [i \in 1 .. n |-> norm[i]]
  BY <1>1 DEF normTechniques
<1> HIDE DEF norm
<1>3. norm \in Seq(Values(norm)) /\ Len(norm) = n
  BY <1>2, MappedList DEF IsList
<1>4. places \in SUBSET (1 .. n)
  BY <1>1
<1>5. Len(Keep(norm, places)) = Cardinality(places) /\ IsFiniteSet(places)
  BY <1>3, <1>4, KeepLength
<1>6. Cardinality(places) = 0 <=> places = {}
  BY <1>5, FS_EmptySet
<1>7. IsFiniteSet(1 .. n) /\ Cardinality(1 .. n) = n
  BY <1>1, FS_Interval
<1>8. Cardinality(places) = n <=> places = 1 .. n
  BY <1>4, <1>7, FS_Subset
<1> QED
  BY <1>1, <1>5, <1>6, <1>8 DEF norm

(* A tactic has a word of no card if and only if it is on none. *)
LEMMA OtherTactics ==
  ASSUME NEW s, Parts(s)
  PROVE  otherTacticCount(s) = Len(s.techniques)
           <=> \A card \in DOMAIN TacticWords : tacticCounts(s)[card] = 0
<1> DEFINE norm == normTechniques(s)
           words == UNION {TacticWords[card] : card \in DOMAIN TacticWords}
           On(card) == {i \in DOMAIN norm : HasAny(norm[i].tactic, TacticWords[card])}
           Others == {i \in DOMAIN norm : ~HasAny(norm[i].tactic, words)}
<1>1. DOMAIN norm = DOMAIN s.techniques
  BY DEF normTechniques
<1>2. otherTacticCount(s) = Len(Keep(norm, Others))
  BY DEF otherTacticCount, Where
<1>3. \A card \in DOMAIN TacticWords : tacticCounts(s)[card] = Len(Keep(norm, On(card)))
  BY DEF tacticCounts, Where
<1>4. ASSUME NEW text
      PROVE  HasAny(text, words) <=> \E card \in DOMAIN TacticWords : HasAny(text, TacticWords[card])
  BY DEF HasAny
<1>5. Others = DOMAIN norm <=> \A card \in DOMAIN TacticWords : On(card) = {}
  <2> HIDE DEF norm, words
  <2> QED
    BY <1>4
<1>6. Others \subseteq DOMAIN s.techniques /\ \A card \in DOMAIN TacticWords : On(card) \subseteq DOMAIN s.techniques
  BY <1>1
<1> HIDE DEF On, Others
<1>7. Len(Keep(norm, Others)) = Len(s.techniques) <=> Others = DOMAIN s.techniques
  BY <1>6, TacticCount
<1>8. \A card \in DOMAIN TacticWords : Len(Keep(norm, On(card))) = 0 <=> On(card) = {}
  BY <1>6, TacticCount
<1> QED
  BY <1>1, <1>2, <1>3, <1>5, <1>7, <1>8

(* The cards of the network and DNS tabs count one for each entry. *)
LEMMA MappedCounts ==
  ASSUME NEW s, Parts(s)
  PROVE  Len(normNetwork(s)) = Len(s.network) /\ Len(normDns(s)) = Len(s.dns)
<1>1. PICK m \in Nat, n \in Nat : /\ m = Len(s.network) /\ DOMAIN s.network = 1 .. m
                                  /\ n = Len(s.dns) /\ DOMAIN s.dns = 1 .. n
  BY DEF Parts, IsList
<1>2. /\ normNetwork(s) = [i \in 1 .. m |-> normNetwork(s)[i]]
      /\ normDns(s) = [i \in 1 .. n |-> normDns(s)[i]]
  BY <1>1 DEF normNetwork, normDns
<1> QED
  BY <1>1, <1>2, MappedList

(* The raw events tab lists every activity of the report once, as many as the *)
(* cards of the other tabs count, no two rows share the id that a click      *)
(* selects by (Dashboard.jsx:1015-1153), and the cards of the technique tab  *)
(* leave none out (Dashboard.jsx:856-867).                                   *)
THEOREM EveryActivityIsListed == Spec => []EveryActivityIsCounted
<1>1. IInv => EveryActivityIsCounted
  <2> SUFFICES ASSUME IInv PROVE EveryActivityIsCounted
    OBVIOUS
  <2>1. Parts(sample)
    BY SampleParts DEF IInv, LoadFits, sample
  <2>2. /\ sample.fileCount = Len(sample.files) /\ sample.networkCount = Len(sample.network)
        /\ sample.dnsCount = Len(sample.dns) /\ sample.registryCount = Len(sample.registry)
        /\ sample.imageCount = Len(sample.images) /\ sample.techniqueCount = Len(sample.techniques)
    BY DEF sample, transformAnalysisData
  <2>3. /\ netSummary(sample).totalNetConnections = sample.networkCount
        /\ dnsSummary(sample).dnsTotalQueries = sample.dnsCount
    BY <2>1, <2>2, MappedCounts DEF netSummary, dnsSummary
  <2>4. /\ Len(allRawEvents(sample)) = Len(FlatProcesses(sample)) + sample.fileCount + sample.networkCount
                     + sample.dnsCount + sample.registryCount + sample.imageCount
        /\ \A i, j \in DOMAIN allRawEvents(sample) : allRawEvents(sample)[i].id = allRawEvents(sample)[j].id => i = j
    BY <2>1, <2>2, RawParts DEF Distinct
  <2>5. otherTacticCount(sample) = sample.techniqueCount
          <=> \A card \in DOMAIN TacticWords : tacticCounts(sample)[card] = 0
    BY <2>1, <2>2, OtherTactics
  <2> QED
    BY <2>3, <2>4, <2>5 DEF EveryActivityIsCounted
<1> QED
  BY <1>1, Invariance, PTL
=============================================================================
