--------------------------- MODULE MCDashboardView ---------------------------
(* Model values for DashboardView: the bundled reports, and reports the      *)
(* engine makes of up to three activities of a kind or a few of all kinds.   *)
EXTENDS DashboardReports, DemoReports

MCWords == [t \in {"deleted"} |-> {"del"}] @@ [t \in {"modified"} |-> {"mod"}]
    @@ [t \in {"temp/evil.exe"} |-> {"temp", "evil", ".exe"}]
    @@ [t \in {"evil.net"} |-> {"evil"}] @@ [t \in {"TCP_ACCEPT"} |-> {"accept"}]
    @@ [t \in {"HKCU/Run/evil"} |-> {"Run", "evil"}]
    @@ [t \in {"temp/evil.dll"} |-> {"temp", "evil", ".dll"}]
    @@ [t \in {"system32/ntdll.dll", "System32/ntdll.dll", "System32/kernel32.dll", "System32/cryptsp.dll",
               "System32/crypt32.dll", "System32/vaultcli.dll", "System32/ws2_32.dll"} |-> {"system32", ".dll"}]
    @@ [t \in {"powershell.exe"} |-> {"powershell"}] @@ [t \in {"certutil.exe"} |-> {"certutil"}]
    @@ [t \in {"drivers/etc/hosts"} |-> {"hosts"}]
    @@ [t \in {"AppData/Temp/svchost_update.exe"} |-> {"temp", "appdata", ".exe"}]
    @@ [t \in {"AppData/Temp/system_summary_log.tmp", "AppData/Temp/diag_log.txt"} |-> {"temp", "appdata"}]
    @@ [t \in {"AppData/Chrome/Login Data", "AppData/Discord/leveldb"} |-> {"appdata"}]
    @@ [t \in {"CurrentVersion/Run/CryptNotification"} |-> {"Run"}] @@ [t \in {"Services/VSS"} |-> {"Services"}]
    @@ [t \in {"defense-evasion"} |-> {"defense", "evasion"}]
    @@ [t \in {"Defense Evasion"} |-> {"defense", "evasion", "defense evasion"}]
    @@ [t \in {"execution", "Execution"} |-> {"execution"}] @@ [t \in {"Persistence"} |-> {"persistence"}]
    @@ [t \in {"Command and Control"} |-> {"command", "control", "command and control"}]
    @@ [t \in {"Credential Access"} |-> {"access"}]

FileA(action, path) == [kind |-> "file", action |-> action, path |-> path, pid |-> 10]
NetA(type, ip, port) == [kind |-> "network", type |-> type, protocol |-> "TCP", ip |-> ip, port |-> port, pid |-> 10]
DnsA(domain, results) == [kind |-> "dns", domain |-> domain, results |-> results, pid |-> 10]
RegA(key) == [kind |-> "registry", action |-> "SET_VALUE", key |-> key, pid |-> 10]
ImageA(path) == [kind |-> "image", path |-> path, pid |-> 10]
ProcA(pid, name) == [kind |-> "process", pid |-> pid, name |-> name]

Files  == {FileA("CREATE", "temp/evil.exe"), FileA("DELETE", "docs/plan"), FileA("READ", "docs/plan")}
Nets   == {NetA("TCP_CONNECT", "5.5.5.5", 443), NetA("TCP_ACCEPT", "6.6.6.6", 123)}
Domains == {DnsA("evil.net", <<"5.5.5.5">>), DnsA("evil.net", <<>>)}
Procs  == {ProcA(10, "evil"), ProcA(11, "powershell.exe"), ProcA(12, "other")}

Everything == << FileA("CREATE", "temp/evil.exe"), FileA("WRITE", "FI_UNKNOWN"), RegA("HKCU/Run/evil"), RegA("other"),
                 ImageA("temp/evil.dll"), ImageA("system32/ntdll.dll"), ProcA(11, "powershell.exe"), ProcA(10, "evil"),
                 NetA("TCP_CONNECT", "6.6.6.6", 80), DnsA("evil.net", <<"5.5.5.5">>) >>

Traces == UNION {[1 .. 2 -> S] : S \in {Files, Nets \cup Domains}}
          \cup {SetToSeq(Procs), Everything, <<>>}

Tactics == <<[technique_id |-> "T1059", name |-> "Scripting", tactic |-> "execution"],
             [technique_id |-> "T1562", name |-> "Impair", tactic |-> "defense-evasion"]>>

Engine(trace, score) == Extract(trace) @@ [threat_score |-> score, techniques |-> IF score > 0 THEN Tactics ELSE <<>>]

Reports == {Ransomware, Stealer, Dropper, Benign}
           \cup {Engine(trace, 90) : trace \in Traces} \cup {Engine(Everything, 50), Engine(Everything, 0)}

ReportList == FoldSet(LAMBDA report, list : Append(list, report), <<>>, Reports)

MCJobs == {[id |-> i, score |-> ReportList[i].threat_score, sha256 |-> "abc", analysis_result |-> ReportList[i]] :
              i \in DOMAIN ReportList}
          \cup {[id |-> 0, score |-> Null, sha256 |-> "abc", analysis_result |-> Null]}
=============================================================================
