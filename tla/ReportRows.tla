----------------------------- MODULE ReportRows -----------------------------
(***************************************************************************)
(* The rows that a report gives the nine tables of the dashboard.           *)
(***************************************************************************)
EXTENDS DashboardView, ReportData

(* A row: its key, the searches that find it, whether a search throws on it, *)
(* and the filter options that show it.                                      *)
Row(key, texts, options) ==
    [key |-> key, found |-> {q \in Queries : \E text \in texts : Has(text, q)},
     unreadable |-> Null \in texts, options |-> options]

(* The timeline has no search and no selection. *)
TimelineRows(s) ==
    LET events == allTimelineEvents(s)
    IN [i \in DOMAIN events |-> Row(i, {}, {events[i].severity})]

ProcessRows(s) ==
    LET all == FlatProcesses(s)
        Shows(p) == {IF p.level = 0 THEN "Root Processes" ELSE "Child Processes"}
                    \cup (IF p.risk \in {"High", "Suspicious"} THEN {"High / Suspicious Risk"} ELSE {})
    IN [i \in DOMAIN all |-> Row(all[i].PID, {all[i].name, all[i].Command}, Shows(all[i]))]

(* A file name is the end of its path, so a search finds it in the path. *)
FileRows(s) == LET all == normFiles(s)
            IN [i \in DOMAIN all |-> Row(i, {all[i].path}, {all[i].action})]

NetworkRows(s) == LET all == normNetwork(s)
               IN [i \in DOMAIN all |-> Row(i, {all[i].target, all[i].destIp}, {all[i].protocol})]

DnsRows(s) == LET all == normDns(s)
           IN [i \in DOMAIN all |-> Row(i, {all[i].domain} \cup all[i].resolvedIp, {"A"})]

ModuleRows(s) ==
    LET all == normModules(s)
    IN [i \in DOMAIN all |->
          Row(i, {all[i].path}, {IF all[i].isSystem THEN "System Modules" ELSE "Unsigned / High Risk"})]

TechniqueRows(s) ==
    LET all == normTechniques(s)
    IN [i \in DOMAIN all |-> Row(all[i].id, {all[i].id, all[i].name, all[i].tactic},
                                 {o \in Options["MITRE ATT&CK"] : Has(all[i].tactic, o)})]

IocRows(s) == LET all == allIOCs(s)
           IN [i \in DOMAIN all |-> Row(all[i].id, {all[i].value, all[i].type}, {all[i].type})]

RawRows(s) ==
    LET all == allRawEvents(s)
    IN [i \in DOMAIN all |-> Row(all[i].id, all[i].details \cup {all[i].eventType, all[i].source},
                                 {all[i].eventType})]

RowsOf(t, job) ==
    LET s == transformAnalysisData(job)
    IN CASE t = "Behavior"     -> TimelineRows(s)
         [] t = "Processes"    -> ProcessRows(s)
         [] t = "File System"  -> FileRows(s)
         [] t = "Network"      -> NetworkRows(s)
         [] t = "DNS"          -> DnsRows(s)
         [] t = "Modules"      -> ModuleRows(s)
         [] t = "MITRE ATT&CK" -> TechniqueRows(s)
         [] t = "IOCs"         -> IocRows(s)
         [] t = "Raw Events"   -> RawRows(s)

sample == transformAnalysisData(shown)

-----------------------------------------------------------------------------
(* A missing text is no text; the controls work on these rows; the parts of  *)
(* a result are lists, and so are the processes of a sample, which have a    *)
(* name and a command.                                                       *)

(* The texts that the rows have by themselves. *)
OwnTexts ==
    {"", "None", "C:/Unknown", "0.0.0.0", "unknown.domain", "Unknown.dll", "T100", "Unknown Technique", "Execution",
     "TCP", "HTTPS", "HTTP", "DNS", "NTP", "Inbound from", "Outbound to", "undefined", "Registry action",
     "Created", "Modified", "Deleted", "Read",
     "File Hash (SHA256)", "IP Address", "Domain", "Registry Key", "Suspicious File",
     "process_create", "file_create", "file_modify", "file_delete", "network_connect", "dns_query",
     "registry_set", "module_load", "kernel-process", "kernel-file", "kernel-network", "dns-client",
     "kernel-registry", "kernel-image"}

ASSUME NoTextAssumption == Null \notin OwnTexts

ASSUME TablesAssumption == \A t \in Tables, job \in Samples : TableRows(t, job) = RowsOf(t, job)

ASSUME ResultsAssumption ==
    \A job \in Jobs : job.analysis_result # Null =>
        \A part \in {"files", "network", "registry", "dns", "images", "techniques"} :
            part \in DOMAIN job.analysis_result /\ IsList(job.analysis_result[part])

ASSUME ProcessesAssumption ==
    \A job \in Samples :
        LET flat == FlatProcesses(transformAnalysisData(job))
        IN IsList(flat) /\ \A p \in Values(flat) : Null \notin {p.name, p.Command}

-----------------------------------------------------------------------------
(* Properties *)

(* Only one text can be missing: the name of a query that resolved the       *)
(* address of a connection.  Searching the network table then takes the page *)
(* down, and nothing else does.                                              *)
OnlyResolvedTargetsThrow ==
    blank => /\ table = "Network"
             /\ \E n \in Values(sample.network), d \in Values(sample.dns) :
                    Text(n, <<"DestIP", "dest_ip">>, "0.0.0.0") \in Values(Results(d))

(* One indicator for each address and each domain that the cards of the     *)
(* network and DNS tabs count, and none has the id of another, which is what *)
(* the selection and React tell the rows of the table apart by.              *)
IndicatorsAreUnique ==
    LET all == allIOCs(sample)
        OfType(type) == Where(all, LAMBDA ioc : ioc.type = type)
    IN /\ Len(OfType("IP Address")) = Cardinality(netSummary(sample).netIpMap)
       /\ Len(OfType("Domain")) = dnsSummary(sample).dnsUniqueDomains
       /\ \A i, j \in DOMAIN all : all[i].id = all[j].id => i = j

(* The raw events list every activity that the cards of the other tabs       *)
(* count, one row for each and none with the id of another, though the six   *)
(* lists they come from are normalized one by one; the cards of the network  *)
(* and DNS tabs count all of theirs; and the technique cards, whose words    *)
(* are repeated for the card of the others, leave no technique uncounted.    *)
EveryActivityIsCounted ==
    LET all == allRawEvents(sample)
    IN /\ Len(all) = Len(FlatProcesses(sample)) + sample.fileCount + sample.networkCount
                     + sample.dnsCount + sample.registryCount + sample.imageCount
       /\ \A i, j \in DOMAIN all : all[i].id = all[j].id => i = j
       /\ netSummary(sample).totalNetConnections = sample.networkCount
       /\ dnsSummary(sample).dnsTotalQueries = sample.dnsCount
       /\ otherTacticCount(sample) = sample.techniqueCount
            <=> \A card \in DOMAIN TacticWords : tacticCounts(sample)[card] = 0
=============================================================================
