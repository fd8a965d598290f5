----------------------------- MODULE RunProtocol -----------------------------
(***************************************************************************)
(* What one analysis in the sandbox promises the worker that waits for it. *)
(* The guest announces the phases of protocol.go, never going back.  The   *)
(* host decides once, and success means that the guest announced           *)
(* completion and that the sandbox is gone, so that nobody writes to the   *)
(* telemetry any more.                                                     *)
(***************************************************************************)
EXTENDS Naturals

VARIABLES announced,    \* the last phase the guest has announced, or "none"
          sandbox,      \* "none", "on" or "off"
          outcome       \* what the host decided: "none", "success" or "failed"

vars == <<announced, sandbox, outcome>>

(* protocol.go, in the order of a run. *)
Rank == [none |-> 0, agent_started |-> 1, collector_starting |-> 2,
         collector_ready |-> 3, sample_running |-> 4, sample_exited |-> 5,
         collector_stopped |-> 6, completed |-> 7, failed |-> 8]

Init == announced = "none" /\ sandbox = "none" /\ outcome = "none"

Start == /\ sandbox = "none" /\ sandbox' = "on"
         /\ UNCHANGED <<announced, outcome>>

(* A phase may be skipped only to fail. *)
Announce(p) == /\ sandbox = "on"
               /\ IF p = "failed" THEN announced # "failed" ELSE Rank[p] = Rank[announced] + 1
               /\ announced' = p
               /\ UNCHANGED <<sandbox, outcome>>

Stop == /\ sandbox = "on" /\ sandbox' = "off"
        /\ UNCHANGED <<announced, outcome>>

Decide(o) == /\ outcome = "none" /\ outcome' = o
             /\ o = "success" => sandbox = "off" /\ announced = "completed"
             /\ UNCHANGED <<announced, sandbox>>

Next == \/ Start \/ Stop
        \/ \E p \in DOMAIN Rank : Announce(p)
        \/ \E o \in {"success", "failed"} : Decide(o)

Spec == Init /\ [][Next]_vars
=============================================================================
