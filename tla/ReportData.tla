------------------------------ MODULE ReportData ------------------------------
(***************************************************************************)
(* From the activities of an analysis to the rows of the dashboard: what    *)
(* the engine puts into the report (extractor.go), what the dashboard takes *)
(* out of it (formatAnalysis.js) and the rows of its nine tables            *)
(* (Dashboard.jsx).                                                         *)
(*                                                                         *)
(* A JSON object is a record with the names its producer writes, and a name *)
(* it lacks reads as undefined, here Null.  A text is a token; Words[text]  *)
(* are the words that includes() finds in it, whatever their case.  Values  *)
(* that are only displayed (times, sizes, icons, badge classes, reputation, *)
(* address and signature of a module) are left out.  No producer writes the *)
(* count of a connection or a query, so each entry counts as one.           *)
(*                                                                         *)
(* What the dashboard makes of a tree of processes is left to the constant  *)
(* FlatProcesses, which ProcessTree defines.                                *)
(***************************************************************************)
EXTENDS Lists, FiniteSets, TLC

CONSTANTS Words,              \* text -> the words found in it
          TimelineCap,        \* 8 in the code: activities of a kind on the timeline
          FlatProcesses(_)    \* the rows of the process table, for a sample

ASSUME TextAssumption == TimelineCap \in Nat

Has(text, word) == text = word \/ (text \in DOMAIN Words /\ word \in Words[text])
HasAny(text, words) == \E w \in words : Has(text, w)

(* object.A || object.b || default, on texts. *)
Text(object, names, default) ==
    LET found == {i \in DOMAIN names : names[i] \in DOMAIN object /\ object[names[i]] \notin {"", Null}}
    IN IF found = {} THEN default ELSE object[names[First(found)]]

(* object.A ?? object.b ?? default: an empty text or a zero is a value. *)
Field(object, names, default) ==
    LET found == {i \in DOMAIN names : names[i] \in DOMAIN object /\ object[names[i]] # Null}
    IN IF found = {} THEN default ELSE object[names[First(found)]]

(* The places where a value is seen first. *)
Firsts(values) == {i \in DOMAIN values : \A j \in 1 .. i - 1 : values[j] # values[i]}

-----------------------------------------------------------------------------
(* The report of the engine: an activity is a record with its kind, those    *)
(* of kind process are the relevant processes.  Names but not command lines. *)

OfKind(activities, kind) == Where(activities, LAMBDA a : a.kind = kind)

fileType == [CREATE |-> "created", WRITE |-> "modified", DELETE |-> "deleted", RENAME |-> "renamed"]

(* Unnamed files and other actions are skipped. *)
FileIOCs(activities) ==
    LET kept == Where(OfKind(activities, "file"),
                      LAMBDA a : a.path # "FI_UNKNOWN" /\ a.action \in DOMAIN fileType)
    IN [i \in DOMAIN kept |-> [path |-> kept[i].path, type |-> fileType[kept[i].action], pid |-> kept[i].pid]]

Extract(activities) ==
    LET network   == OfKind(activities, "network")
        registry  == OfKind(activities, "registry")
        dns       == OfKind(activities, "dns")
        images    == OfKind(activities, "image")
        processes == SortSeq(OfKind(activities, "process"), LAMBDA a, b : a.pid < b.pid)
    IN [files     |-> FileIOCs(activities),
        network   |-> [i \in DOMAIN network |->
                         [type |-> network[i].type, protocol |-> network[i].protocol, pid |-> network[i].pid,
                          dest_ip |-> network[i].ip, dest_port |-> network[i].port]],
        registry  |-> [i \in DOMAIN registry |->
                         [action |-> registry[i].action, key |-> registry[i].key, pid |-> registry[i].pid]],
        dns       |-> [i \in DOMAIN dns |->   \* results,omitempty
                         IF dns[i].results = <<>> THEN [domain |-> dns[i].domain, pid |-> dns[i].pid]
                         ELSE [domain |-> dns[i].domain, pid |-> dns[i].pid, results |-> dns[i].results]],
        images    |-> [i \in DOMAIN images |-> [path |-> images[i].path, pid |-> images[i].pid]],
        processes |-> [i \in DOMAIN processes |-> [name |-> processes[i].name, pid |-> processes[i].pid]]]

-----------------------------------------------------------------------------
(* transformAnalysisData *)

Verdict(score) == IF score >= 80 THEN "Malicious" ELSE IF score >= 40 THEN "Suspicious" ELSE "Clean"

(* Without a sample the page shows the default one, which has no lists. *)
transformAnalysisData(job) ==
    LET res   == IF job = Null THEN Null ELSE job.analysis_result
        List(name) == IF res = Null THEN <<>> ELSE res[name]
        score == IF res # Null THEN res.threat_score
                 ELSE IF job # Null /\ job.score # Null THEN job.score ELSE 0
    IN [score |-> score, status |-> Verdict(score),
        sha256 |-> IF job = Null THEN Null ELSE job.sha256,
        processes |-> List("processes"),
        files |-> List("files"), fileCount |-> Len(List("files")),
        network |-> List("network"), networkCount |-> Len(List("network")),
        registry |-> List("registry"), registryCount |-> Len(List("registry")),
        dns |-> List("dns"), dnsCount |-> Len(List("dns")),
        images |-> List("images"), imageCount |-> Len(List("images")),
        techniques |-> List("techniques"), techniqueCount |-> Len(List("techniques"))]

-----------------------------------------------------------------------------
(* Files, connections, queries, modules, techniques *)

DisplayAction(action) ==
    IF Has(action, "del") THEN "Deleted"
    ELSE IF HasAny(action, {"mod", "write"}) THEN "Modified"
    ELSE IF Has(action, "read") THEN "Read" ELSE "Created"

normFiles(s) ==
    LET Norm(f) == LET path == Text(f, <<"Path", "path", "FileName", "file_name">>, "C:/Unknown")
                   IN [path |-> path,
                       action |-> DisplayAction(Text(f, <<"Action", "action">>, "created")),
                       isSuspicious |-> \/ HasAny(path, {".exe", ".dll", ".ps1", ".bat", "startup", "hosts"})
                                        \/ s.score >= 50 /\ HasAny(path, {"temp", "appdata"})]
    IN [i \in DOMAIN s.files |-> Norm(s.files[i])]

DisplayProtocol(protocol, dest, source) ==
    IF 443 \in {dest, source} THEN "HTTPS" ELSE IF 80 \in {dest, source} THEN "HTTP"
    ELSE IF 53 \in {dest, source} THEN "DNS" ELSE IF dest = 123 THEN "NTP" ELSE protocol

(* The addresses a query answered, under the name either producer could use. *)
Results(d) == Field(d, <<"Results", "results">>, <<>>)

QueryName(d, default) == Text(d, <<"QueryName", "query_name">>, default)

(* A connection to an address that a query resolved is shown by the name of *)
(* that query, without a default.                                          *)
normNetwork(s) ==
    LET Norm(n) ==
          LET ip      == Text(n, <<"DestIP", "dest_ip">>, "0.0.0.0")
              matched == {i \in DOMAIN s.dns : ip \in Values(Results(s.dns[i]))}
          IN [destIp |-> ip,
              target |-> IF matched = {} THEN ip ELSE QueryName(s.dns[First(matched)], Null),
              protocol |-> DisplayProtocol(Text(n, <<"Protocol", "protocol">>, "TCP"),
                                           Field(n, <<"DestPort", "dest_port">>, 0),
                                           Field(n, <<"SourcePort", "source_port">>, 0)),
              isInbound |-> HasAny(Text(n, <<"Type", "type">>, "connect"), {"accept", "recv", "inbound"})]
    IN [i \in DOMAIN s.network |-> Norm(s.network[i])]

(* The answers of a query joined into one text, which has each of them. *)
ResolvedIp(d) == IF Results(d) = <<>> THEN {"None"} ELSE Values(Results(d)) \ {Null}

NormDnsBare(s) ==
    [i \in DOMAIN s.dns |-> [domain |-> QueryName(s.dns[i], Null), resolvedIp |-> ResolvedIp(s.dns[i])]]

normDns(s) ==
    [i \in DOMAIN s.dns |-> [domain |-> QueryName(s.dns[i], "unknown.domain"), resolvedIp |-> ResolvedIp(s.dns[i])]]

NormModulesUnsigned(s) ==
    LET listed == Where(s.images, LAMBDA m : ~HasAny(Text(m, <<"Path", "path">>, "Unknown.dll"), {"system32"}))
    IN [i \in DOMAIN listed |-> [path |-> Text(listed[i], <<"Path", "path">>, "Unknown.dll"), isSystem |-> FALSE]]

normModules(s) ==
    LET Norm(m) == LET path == Text(m, <<"Path", "path">>, "Unknown.dll")
                   IN [path |-> path, isSystem |-> HasAny(path, {"system32", "syswow64", "winsxs"})]
    IN [i \in DOMAIN s.images |-> Norm(s.images[i])]

normTechniques(s) ==
    LET Norm(t) == [id |-> Text(t, <<"TechniqueID", "technique_id">>, "T100"),
                    name |-> Text(t, <<"Name", "name">>, "Unknown Technique"),
                    tactic |-> Text(t, <<"Tactic", "tactic">>, "Execution")]
    IN [i \in DOMAIN s.techniques |-> Norm(s.techniques[i])]

(* The cards of the technique tab. *)
TacticWords == [InitialAccess |-> {"initial", "access"}, Execution |-> {"execution"},
                Persistence |-> {"persistence"}, DefenseEvasion |-> {"evasion", "defense"},
                Discovery |-> {"discovery"}, CommandAndControl |-> {"command", "control", "c2"}]

tacticCounts(s) ==
    [card \in DOMAIN TacticWords |->
        Len(Where(normTechniques(s), LAMBDA t : HasAny(t.tactic, TacticWords[card])))]

otherTacticCount(s) ==
    Len(Where(normTechniques(s),
              LAMBDA t : ~HasAny(t.tactic, UNION {TacticWords[card] : card \in DOMAIN TacticWords})))

-----------------------------------------------------------------------------
(* Indicators *)

Indicator(kind, n, value) == [id |-> <<kind, n>>, type |-> kind, value |-> value]

RegistryKey(r) == Text(r, <<"Key", "key">>, "")

HashIndicator(s) == IF s.sha256 = Null THEN <<>> ELSE <<Indicator("File Hash (SHA256)", 0, s.sha256)>>

IpsWithRepeats(s) ==
    LET net == normNetwork(s)
    IN [i \in DOMAIN net |-> Indicator("IP Address", i, net[i].destIp)]

(* Addresses and domains once each. *)
IpIndicators(s) ==
    LET net == normNetwork(s)
    IN Keep(IpsWithRepeats(s),
            Firsts([i \in DOMAIN net |-> net[i].destIp]) \ {i \in DOMAIN net : net[i].destIp = "0.0.0.0"})

DomainIndicators(s) ==
    LET dns == normDns(s)
    IN Keep([i \in DOMAIN dns |-> Indicator("Domain", i, dns[i].domain)],
            Firsts([i \in DOMAIN dns |-> dns[i].domain]))

RegistryIndicators(s) ==
    LET run == Where(s.registry, LAMBDA r : Has(RegistryKey(r), "Run"))
    IN [k \in DOMAIN run |-> Indicator("Registry Key", k, RegistryKey(run[k]))]

FileIndicators(s) ==
    LET suspicious == Where(normFiles(s), LAMBDA f : f.isSuspicious)
    IN [k \in DOMAIN suspicious |-> Indicator("Suspicious File", k, suspicious[k].path)]

allIOCs(s) == HashIndicator(s) \o IpIndicators(s) \o DomainIndicators(s)
              \o RegistryIndicators(s) \o FileIndicators(s)

-----------------------------------------------------------------------------
(* Cards of the network and DNS tabs *)

netSummary(s) ==
    [totalNetConnections |-> Len(normNetwork(s)),
     uniqueNetDomains |-> Cardinality({QueryName(d, Null) : d \in Values(s.dns)} \ {Null}),
     uniqueNetIps |-> Cardinality({n.destIp : n \in Values(normNetwork(s))}),
     netIpMap |-> {n.destIp : n \in Values(normNetwork(s))} \ {"0.0.0.0"}]

dnsSummary(s) ==
    [dnsTotalQueries |-> Len(normDns(s)),
     dnsUniqueDomains |-> Cardinality({d.domain : d \in Values(normDns(s))}),
     dnsUniqueIps |-> Cardinality(UNION {Values(Results(d)) : d \in Values(s.dns)} \ {"", Null})]

-----------------------------------------------------------------------------
(* The timeline and the raw events go through the activities kind by kind. *)

FirstOf(list, n) == SubSeq(list, 1, IF Len(list) < n THEN Len(list) ELSE n)

allTimelineEvents(s) ==
    LET Events(list, Severity(_)) == [i \in DOMAIN list |-> [of |-> list[i], severity |-> Severity(list[i])]]
    IN Events(FlatProcesses(s), LAMBDA p : p.risk)
       \o Events(s.techniques, LAMBDA t : "High")
       \o Events(FirstOf(s.network, TimelineCap), LAMBDA n : "Medium")
       \o Events(FirstOf(s.registry, TimelineCap), LAMBDA r :
                    IF HasAny(RegistryKey(r), {"Run", "Services", "Policies"}) THEN "High" ELSE "Medium")
       \o Events(FirstOf(s.files, TimelineCap), LAMBDA f : "Low")

RawEvent(kind, i, type, source, details) ==
    [id |-> <<kind, i>>, eventType |-> type, source |-> source, details |-> details]

RawFileType == [Created |-> "file_create", Deleted |-> "file_delete",
                Modified |-> "file_modify", Read |-> "file_modify"]

(* A missing target becomes the word undefined in the text. *)
Template(value) == IF value = Null THEN "undefined" ELSE value

allRawEvents(s) ==
    LET processes == FlatProcesses(s)  files == normFiles(s)    network == normNetwork(s)
        dns       == normDns(s)           modules == normModules(s)
    IN [i \in DOMAIN processes |->
            RawEvent("proc", i, "process_create", "kernel-process", {processes[i].name})]
       \o [i \in DOMAIN files |->
            RawEvent("file", i, RawFileType[files[i].action], "kernel-file", {files[i].action, files[i].path})]
       \o [i \in DOMAIN network |->
            RawEvent("net", i, "network_connect", "kernel-network",
                     {IF network[i].isInbound THEN "Inbound from" ELSE "Outbound to",
                      Template(network[i].target), network[i].protocol})]
       \o [i \in DOMAIN dns |->
            RawEvent("dns", i, "dns_query", "dns-client", {dns[i].domain} \cup dns[i].resolvedIp)]
       \o [i \in DOMAIN s.registry |->
            RawEvent("reg", i, "registry_set", "kernel-registry",
                     {Text(s.registry[i], <<"Action", "action">>, "Registry action"), RegistryKey(s.registry[i])})]
       \o [i \in DOMAIN modules |->
            RawEvent("mod", i, "module_load", "kernel-image", {modules[i].path})]
=============================================================================
