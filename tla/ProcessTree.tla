----------------------------- MODULE ProcessTree -----------------------------
(***************************************************************************)
(* What the dashboard makes of the processes of a report, each of which may *)
(* have children: their number (formatAnalysis.js), the tree of the         *)
(* overview, the rows of the process table and the categories of the        *)
(* behavior tab (Dashboard.jsx).                                            *)
(***************************************************************************)
EXTENDS ReportData, SequencesExt

Children(node) == IF "Children" \in DOMAIN node THEN node.Children ELSE <<>>

RECURSIVE countNodes(_)
countNodes(nodes) == FoldLeft(LAMBDA n, node : n + 1 + countNodes(Children(node)), 0, nodes)

TopLevelCount(s) == Len(s.processes)

processCount(s) == countNodes(s.processes)

-----------------------------------------------------------------------------
(* Processes *)

ParentPid(node) == Field(node, <<"PPID", "ppid">>, 0)
Pid(node)       == Field(node, <<"PID", "pid">>, 0)

(* A process is a root if its parent is not in the list itself. *)
rootProcesses(s) ==
    LET pids  == {Pid(s.processes[i]) : i \in DOMAIN s.processes}
        roots == Where(s.processes, LAMBDA p : ParentPid(p) = 0 \/ ParentPid(p) \notin pids)
    IN IF roots # <<>> THEN roots ELSE s.processes

(* No producer writes Image, which would come first. *)
ProcessName(node) == Text(node, <<"name">>, "process.exe")

(* The tree of the overview. *)
RECURSIVE renderProcessTreeNodes(_, _)
renderProcessTreeNodes(nodes, level) ==
    FoldLeft(LAMBDA shown, n : shown \o <<[PID |-> Pid(n), name |-> ProcessName(n), level |-> level]>>
                                    \o renderProcessTreeNodes(Children(n), level + 1),
             <<>>, nodes)

Monitored == {"powershell", "cmd.exe", "rundll32", "regsvr32", "wscript", "cscript", "certutil"}

Risk(s, level, name) ==
    IF level = 0 /\ s.score >= 80 THEN "High"
    ELSE IF level = 0 /\ s.score >= 40 THEN "Suspicious"
    ELSE IF HasAny(name, Monitored) THEN "High" ELSE "Low"

RECURSIVE flattenProcessesHierarchy(_, _, _)
flattenProcessesHierarchy(s, nodes, level) ==
    LET Item(n) == [PID |-> Pid(n), name |-> ProcessName(n), level |-> level,
                    Command |-> Field(n, <<"Command", "command", "CommandLine">>, ProcessName(n)),
                    risk |-> Risk(s, level, ProcessName(n))]
    IN FoldLeft(LAMBDA rows, n : rows \o <<Item(n)>> \o flattenProcessesHierarchy(s, Children(n), level + 1),
                <<>>, nodes)

allFlatProcesses(s) == flattenProcessesHierarchy(s, rootProcesses(s), 0)

-----------------------------------------------------------------------------
(* The behavior tab *)

(* Only the categories with a count are shown. *)
displayBehaviorCategories(s) ==
    LET Techniques(words) == Len(Where(s.techniques, LAMBDA t :
                                    HasAny(Text(t, <<"tactic", "Tactic">>, ""), words)))
        RunKeys == Len(Where(s.registry, LAMBDA r : Has(RegistryKey(r), "Run")))
        count   == [Execution |-> processCount(s), Persistence |-> Techniques({"persistence"}) + RunKeys,
                    DefenseEvasion |-> Techniques({"evasion"}), Discovery |-> Techniques({"discovery"}),
                    CommandAndControl |-> Techniques({"command", "control"})
                                          + (IF s.networkCount > 0 THEN 1 ELSE 0),
                    FileOperations |-> s.fileCount, RegistryActivity |-> s.registryCount,
                    NetworkActivity |-> s.networkCount]
    IN [c \in {k \in DOMAIN count : count[k] > 0} |-> count[c]]
=============================================================================
