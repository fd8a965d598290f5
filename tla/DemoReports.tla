----------------------------- MODULE DemoReports -----------------------------
(***************************************************************************)
(* The four bundled reports (demoData.js) as the dashboard receives them:   *)
(* JSON records with the names the fixtures really use, texts shortened to  *)
(* the part that tells them apart.  Times, sizes, hashes, signatures and    *)
(* other values that are only displayed are left out.                       *)
(***************************************************************************)
EXTENDS Naturals, Sequences

DemoProcess(pid, ppid, name, children) ==
    [PID |-> pid, PPID |-> ppid, Name |-> name, CommandLine |-> name, Children |-> children]

DemoFile(path, operation) == [Path |-> path, Operation |-> operation, PID |-> 1]

DemoConnection(ip, port, from) ==
    [Protocol |-> "TCP", DestIP |-> ip, DestPort |-> port, SourcePort |-> from, PID |-> 1]

DemoQuery(domain, address) == [Domain |-> domain, Resolution |-> address, PID |-> 1]

DemoRegistry(key, operation) == [Key |-> key, Operation |-> operation, PID |-> 1]

DemoImage(path) == [FileName |-> path, PID |-> 1]

DemoTechnique(id, name, tactic) == [technique_id |-> id, name |-> name, tactic |-> tactic]

Ransomware ==
    [threat_score |-> 96,
     processes |-> <<DemoProcess(4820, 1040, "CryptLocker_Sample.exe", <<
                       DemoProcess(5104, 4820, "cmd.exe", <<
                          DemoProcess(5388, 5104, "vssadmin.exe", <<>>),
                          DemoProcess(5412, 5104, "bcdedit.exe", <<>>) >>),
                       DemoProcess(6028, 4820, "taskkill.exe", <<>>) >>) >>,
     files     |-> << DemoFile("Financial_Q3.xlsx.locked", "WriteFile / Rename"),
                      DemoFile("Employee_Records.docx.locked", "WriteFile / Rename"),
                      DemoFile("HOW_TO_RECOVER_FILES.txt", "CreateFile"),
                      DemoFile("drivers/etc/hosts", "QueryInformation") >>,
     network   |-> << DemoConnection("198.51.100.44", 443, 49820), DemoConnection("192.168.100.1", 445, 49824) >>,
     dns       |-> << DemoQuery("sync-check-resolver99.org", "198.51.100.44"),
                      DemoQuery("time.windows.com", "51.145.123.29") >>,
     registry  |-> << DemoRegistry("CurrentVersion/Run/CryptNotification", "RegSetValue"),
                      DemoRegistry("Services/VSS", "RegOpenKey") >>,
     images    |-> << DemoImage("System32/ntdll.dll"), DemoImage("System32/kernel32.dll"), DemoImage("System32/cryptsp.dll") >>,
     techniques |-> << DemoTechnique("T1490", "Inhibit System Recovery", "Impact"),
                       DemoTechnique("T1486", "Data Encrypted for Impact", "Impact"),
                       DemoTechnique("T1547.001", "Registry Run Keys", "Persistence"),
                       DemoTechnique("T1562.001", "Disable or Modify Tools", "Defense Evasion") >>]

Stealer ==
    [threat_score |-> 89,
     processes |-> <<DemoProcess(3912, 1104, "ClientCredential_Setup.exe", <<
                       DemoProcess(4420, 3912, "vbc.exe", <<>>) >>) >>,
     files     |-> << DemoFile("AppData/Chrome/Login Data", "ReadFile / Open"),
                      DemoFile("AppData/Discord/leveldb", "DirectoryScan"),
                      DemoFile("AppData/Temp/system_summary_log.tmp", "WriteFile") >>,
     network   |-> << DemoConnection("203.0.113.88", 8080, 51200) >>,
     dns       |-> << DemoQuery("gate-relay-cdn31.xyz", "203.0.113.88"), DemoQuery("api.ipify.org", "104.26.12.205") >>,
     registry  |-> << DemoRegistry("Explorer/User Shell Folders", "RegQueryValue") >>,
     images    |-> << DemoImage("System32/crypt32.dll"), DemoImage("System32/vaultcli.dll") >>,
     techniques |-> << DemoTechnique("T1555.003", "Credentials from Web Browsers", "Credential Access"),
                       DemoTechnique("T1055", "Process Injection", "Defense Evasion"),
                       DemoTechnique("T1048", "Exfiltration Over Alternative Protocol", "Exfiltration") >>]

Dropper ==
    [threat_score |-> 72,
     processes |-> <<DemoProcess(2608, 1024, "WINWORD.EXE", <<
                       DemoProcess(3124, 2608, "powershell.exe", <<
                          DemoProcess(3480, 3124, "certutil.exe", <<>>) >>) >>) >>,
     files     |-> << DemoFile("AppData/Temp/svchost_update.exe", "CreateFile / Write") >>,
     network   |-> << DemoConnection("198.51.100.210", 80, 52140) >>,
     dns       |-> << DemoQuery("stage-update-host.cc", "198.51.100.210") >>,
     registry  |-> << >>,
     images    |-> << DemoImage("System32/crypt32.dll") >>,
     techniques |-> << DemoTechnique("T1059.001", "PowerShell", "Execution"),
                       DemoTechnique("T1105", "Ingress Tool Transfer", "Command and Control") >>]

Benign ==
    [threat_score |-> 12,
     processes |-> <<DemoProcess(1980, 980, "NetworkDiagnostic_v2.4.exe", <<>>) >>,
     files     |-> << DemoFile("AppData/Temp/diag_log.txt", "CreateFile / Write") >>,
     network   |-> << DemoConnection("1.1.1.1", 443, 54100) >>,
     dns       |-> << DemoQuery("cloudflare-dns.com", "1.1.1.1") >>,
     registry  |-> << DemoRegistry("GlobalNet/Diagnostic/Settings", "RegCreateKey") >>,
     images    |-> << DemoImage("System32/ws2_32.dll") >>,
     techniques |-> << >>]
=============================================================================
