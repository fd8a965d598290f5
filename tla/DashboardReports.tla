-------------------------- MODULE DashboardReports --------------------------
(***************************************************************************)
(* The dashboard with the trees of processes of its reports: what the cards *)
(* and tabs say of one report.                                              *)
(***************************************************************************)
EXTENDS ReportRows, ProcessTree

(* The count of processes, the tree of the overview and the process table    *)
(* agree, though each goes through the tree by a recursion of its own, the   *)
(* table only from the roots; and where no category of behavior has a count, *)
(* the timeline has at most techniques.                                     *)
CardsAgreeWithTables ==
    LET s    == sample
        flat == allFlatProcesses(s)
    IN /\ Len(flat) = processCount(s)
       /\ renderProcessTreeNodes(rootProcesses(s), 0)
            = [i \in DOMAIN flat |-> [PID |-> flat[i].PID, name |-> flat[i].name, level |-> flat[i].level]]
       /\ DOMAIN displayBehaviorCategories(s) = {} =>
            allTimelineEvents(s) = <<>> \/ s.techniques # <<>>
=============================================================================
