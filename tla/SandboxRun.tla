----------------------------- MODULE SandboxRun -----------------------------
(***************************************************************************)
(* One analysis in Windows Sandbox: the host's runner and driver           *)
(* (analysis_runner.go, windows.go), the guest agent (sandbox-agent), the  *)
(* collector as far as the agent sees it, and the sample.  Host and guest  *)
(* share the file status.json (protocol.go), which the guest truncates and *)
(* then writes; agent and collector share two marker files.                *)
(*                                                                         *)
(* A timer that runs may fire at any time, so that the results hold for    *)
(* every setting of the time limits.                                       *)
(***************************************************************************)
EXTENDS Naturals

CONSTANT MaxFaults  \* bound: failed writes, and processes that die unbidden

ASSUME FaultsAssumption == MaxFaults \in Nat

VARIABLES
  \* the host
  host,        \* where Execute or Destroy is
  lastPhase,   \* the guest phase Execute read last
  fired,       \* the timers of Execute that have fired
  outcome,     \* what RunAnalysisForJob returns
  cleanup,     \* what Destroy returned
  \* shared
  sandbox,     \* the WindowsSandbox process
  file,        \* status.json: "none", a phase, or "torn"
  markers,     \* the marker files etw-ready and collector.stop
  \* the guest
  agent,       \* where the agent is
  phase,       \* a.status.Phase, the phase it announces next
  failing,     \* execute has returned an error
  collector, sample,
  \* history
  announced,   \* the last phase written to status.json completely
  faults

hostVars  == <<host, lastPhase, fired, outcome, cleanup>>
guestVars == <<agent, phase, failing, collector, sample>>
vars == <<hostVars, sandbox, file, markers, guestVars, announced, faults>>
-----------------------------------------------------------------------------
Phases == {"agent_started", "collector_starting", "collector_ready", "sample_running",
           "sample_exited", "collector_stopped", "completed", "failed"}

(* What the agent does once it has announced a phase.                      *)
After == [agent_started |-> "stat", collector_starting |-> "launch",
          collector_ready |-> "sample", sample_running |-> "run",
          sample_exited |-> "stop", collector_stopped |-> "finish",
          completed |-> "shutdown", failed |-> "shutdown"]

Live  == {"starting", "opening", "serving"}
Ended == {"flushed", "broken"}    \* exit code 0, and any other

HostOK ==
  /\ host \in {"create", "execute", "poll", "select", "collect", "destroy", "kill", "reap", "done"}
  /\ lastPhase \in Phases \cup {"none"}
  /\ fired \in SUBSET {"overall", "shutdown"}
  /\ outcome \in {"none", "success", "failed"}
  /\ cleanup \in {"none", "ok", "error"}
  /\ sandbox \in {"none", "on", "off"}
  /\ sandbox = "none" => host \in {"create", "done"}    \* nothing to poll, nothing to destroy

StatusOK ==
  /\ file \in Phases \cup {"none", "torn"}
  /\ announced \in Phases \cup {"none"}
  /\ faults \in 0..MaxFaults

GuestOK ==
  /\ markers \in SUBSET {"ready", "stop"}
  /\ agent \in {"boot", "open", "write", "stat", "launch", "await", "sample", "run",
                "stop", "stopping", "kill", "reap", "finish", "shutdown", "gone", "dead"}
  /\ phase \in Phases \cup {"none"}
  /\ failing \in BOOLEAN
  /\ collector \in {"none"} \cup Live \cup Ended
  /\ sample \in {"none", "running", "exited", "killed"}
  /\ agent \in {"open", "write"} => phase # "none"

TypeOK == HostOK /\ StatusOK /\ GuestOK

Init ==
  /\ host = "create" /\ lastPhase = "none" /\ fired = {}
  /\ outcome = "none" /\ cleanup = "none"
  /\ sandbox = "none" /\ file = "none" /\ markers = {}
  /\ agent = "boot" /\ phase = "none" /\ failing = FALSE
  /\ collector = "none" /\ sample = "none"
  /\ announced = "none" /\ faults = 0

Fault == faults < MaxFaults /\ faults' = faults + 1
-----------------------------------------------------------------------------
(* The host.                                                               *)

Guest == <<file, markers, guestVars, announced>>    \* what the host never writes

(* A variant with a plausible defect: Destroy is deferred before Create.   *)
CreateDefersFirst ==
  /\ host = "create"
  /\ \/ host' = "execute" /\ sandbox' = "on" /\ UNCHANGED outcome
     \/ host' = "destroy" /\ outcome' = "failed" /\ UNCHANGED sandbox
  /\ UNCHANGED <<lastPhase, fired, cleanup, Guest, faults>>

(* RunAnalysisForJob up to Create; an error here needs no cleanup.         *)
Create ==
  /\ host = "create"
  /\ \/ host' = "execute" /\ sandbox' = "on" /\ UNCHANGED outcome
     \/ host' = "done" /\ outcome' = "failed" /\ UNCHANGED sandbox
  /\ UNCHANGED <<lastPhase, fired, cleanup, Guest, faults>>

(* ReadAgentStatus: an unreadable or half written file leaves lastPhase.   *)
ReadStatus == lastPhase' = IF file \in Phases THEN file ELSE lastPhase

(* Execute returns, and the deferred Destroy or Collect comes next.        *)
Return(next, o) == host' = next /\ outcome' = o

(* Execute up to its loop: the sample's copy may be missing by now.        *)
Execute ==
  /\ host = "execute"
  /\ \/ Return("poll", outcome) /\ UNCHANGED faults
     \/ Return("destroy", "failed") /\ Fault
  /\ UNCHANGED <<lastPhase, fired, cleanup, sandbox, Guest>>

(* More variants with one plausible defect each, named for it.             *)
PollTakesTornForFailure ==
  /\ host = "poll"
  /\ ReadStatus
  /\ IF file \in {"failed", "torn"} THEN Return("destroy", "failed")
                                    ELSE Return("select", outcome)
  /\ UNCHANGED <<fired, cleanup, sandbox, Guest, faults>>

PollStartsTimerAnew ==
  /\ host = "poll"
  /\ ReadStatus
  /\ IF file = "failed" THEN Return("destroy", "failed") ELSE Return("select", outcome)
  /\ fired' = {}
  /\ UNCHANGED <<cleanup, sandbox, Guest, faults>>

ExitIsSuccess == file \in Phases \ {"failed"}
LastPhaseIsEnough == lastPhase = "completed" \/ file = "completed"

(* Execute, the head of its loop.                                          *)
Poll ==
  /\ host = "poll"
  /\ ReadStatus
  /\ IF file = "failed" THEN Return("destroy", "failed") ELSE Return("select", outcome)
  /\ UNCHANGED <<fired, cleanup, sandbox, Guest, faults>>

(* Execute, its select: any case that is ready may be taken.               *)
SelectTick ==
  /\ host = "select"
  /\ Return("poll", outcome)
  /\ UNCHANGED <<lastPhase, fired, cleanup, sandbox, Guest, faults>>

FinalStatusIsSuccess == file = "completed"

SelectDone ==
  /\ host = "select"
  /\ sandbox = "off"
  /\ IF FinalStatusIsSuccess THEN Return("collect", outcome) ELSE Return("destroy", "failed")
  /\ ReadStatus
  /\ UNCHANGED <<fired, cleanup, sandbox, Guest, faults>>

SelectTimer ==
  /\ host = "select"
  /\ fired # {}
  /\ Return("destroy", "failed")
  /\ UNCHANGED <<lastPhase, fired, cleanup, sandbox, Guest, faults>>

(* The overall timer runs from the start, the shutdown timer from the first *)
(* time that Execute has read "completed".                                 *)
TimerFires ==
  /\ host \in {"poll", "select"}
  /\ \E t \in {"overall", "shutdown"} \ fired :
       /\ t = "shutdown" => lastPhase = "completed"
       /\ fired' = fired \cup {t}
  /\ UNCHANGED <<host, lastPhase, outcome, cleanup, sandbox, Guest, faults>>

(* Collect, the check that there is telemetry, and the analysis of it.     *)
Collect ==
  /\ host = "collect"
  /\ \/ Return("destroy", "success") /\ UNCHANGED faults
     \/ Return("destroy", "failed") /\ Fault
  /\ UNCHANGED <<lastPhase, fired, cleanup, sandbox, Guest>>

(* Destroy waits, kills, and waits again; each wait has a timer.           *)
Finish(result) == host' = "done" /\ cleanup' = result

Destroy ==
  /\ host = "destroy"
  /\ \/ sandbox = "off" /\ Finish("ok")
     \/ host' = "kill" /\ UNCHANGED cleanup
  /\ UNCHANGED <<lastPhase, fired, outcome, sandbox, Guest, faults>>

Kill ==
  /\ host = "kill"
  /\ host' = "reap"
  /\ sandbox' \in {sandbox, "off"}
  /\ UNCHANGED <<lastPhase, fired, outcome, cleanup, Guest, faults>>

Reap ==
  /\ host = "reap"
  /\ \/ sandbox = "off" /\ Finish("ok")
     \/ Finish("error")
  /\ UNCHANGED <<lastPhase, fired, outcome, sandbox, Guest, faults>>

HostStep == Create \/ Execute \/ Poll \/ SelectTick \/ SelectDone \/ SelectTimer
            \/ Collect \/ Destroy \/ Kill \/ Reap
-----------------------------------------------------------------------------
(* The guest agent.                                                        *)

Goto(place) == agent' = place /\ UNCHANGED <<phase, failing>>

(* setPhase, up to the first write: the next phase is in a.status.         *)
SetPhase(p) == agent' = "open" /\ phase' = p

(* An error is returned to run, whose deferred function stops the collector *)
(* and announces the failure.                                              *)
Fail == agent' = "stop" /\ failing' = TRUE /\ UNCHANGED phase

(* The end of a sample by Process.Kill, whose error is ignored.            *)
KillSample == sample' \in IF sample = "running" THEN {"running", "killed"} ELSE {sample}

AgentFrame == UNCHANGED <<hostVars, sandbox>>
NoStatus   == UNCHANGED <<file, announced, faults>>

Boot ==
  /\ agent = "boot"
  /\ \/ SetPhase("agent_started") /\ UNCHANGED failing
     \/ Goto("shutdown")
  /\ NoStatus /\ UNCHANGED <<markers, collector, sample>>

(* setPhase cannot write: nobody looks further when it was the failure     *)
(* itself, and a sample just started is killed.                            *)
StatusFails ==
  /\ Fault
  /\ IF phase = "failed" THEN Goto("shutdown") ELSE Fail
  /\ IF phase = "sample_running" THEN KillSample ELSE UNCHANGED sample

(* WriteAgentStatus, os.OpenFile with O_TRUNC: the old status is gone.     *)
OpenStatus ==
  /\ agent = "open"
  /\ \/ file' = "torn" /\ Goto("write") /\ UNCHANGED <<sample, faults>>
     \/ StatusFails /\ UNCHANGED file
  /\ UNCHANGED <<markers, collector, announced>>

(* WriteAgentStatus, Write to Close: an error of Sync or Close may leave a *)
(* complete status behind.                                                 *)
WriteStatus ==
  /\ agent = "write"
  /\ \/ file' = phase /\ Goto(After[phase]) /\ UNCHANGED <<sample, faults>>
     \/ file' \in {"torn", phase} /\ StatusFails
  /\ announced' = IF file' = phase THEN phase ELSE announced
  /\ UNCHANGED <<markers, collector>>

StatSample ==
  /\ agent = "stat"
  /\ \/ SetPhase("collector_starting") /\ UNCHANGED failing
     \/ Fail
  /\ NoStatus /\ UNCHANGED <<markers, collector, sample>>

StartCollector ==
  /\ agent = "launch"
  /\ markers' = {}
  /\ \/ collector' = "starting" /\ Goto("await")
     \/ Fail /\ UNCHANGED collector
  /\ NoStatus /\ UNCHANGED sample

(* Without its timer: it ends only with the marker or with the collector.  *)
WaitsForEver ==
  /\ agent = "await"
  /\ \/ "ready" \in markers /\ SetPhase("collector_ready") /\ UNCHANGED failing
     \/ collector \in Ended /\ Fail
  /\ NoStatus /\ UNCHANGED <<markers, collector, sample>>

(* waitForCollectorReady: the marker, the end of the collector (Fail), or  *)
(* the timer, which may always have fired (Fail).                          *)
WaitForCollectorReady ==
  /\ agent = "await"
  /\ \/ "ready" \in markers /\ SetPhase("collector_ready") /\ UNCHANGED failing
     \/ Fail
  /\ NoStatus /\ UNCHANGED <<markers, collector, sample>>

StartSample ==
  /\ agent = "sample"
  /\ \/ sample' = "running" /\ SetPhase("sample_running") /\ UNCHANGED failing
     \/ Fail /\ UNCHANGED sample
  /\ NoStatus /\ UNCHANGED <<markers, collector>>

(* execute, the select: the sample has exited; or the collector has ended  *)
(* or the timer has fired, and the sample is killed.                       *)
WaitForSample ==
  /\ agent = "run"
  /\ \/ sample = "exited" /\ SetPhase("sample_exited") /\ UNCHANGED <<failing, sample>>
     \/ KillSample /\ Fail
  /\ NoStatus /\ UNCHANGED <<markers, collector>>
-----------------------------------------------------------------------------
(* stopCollector, and what its caller makes of the result.                 *)

StopErrorIgnored(err) ==
  IF failing THEN SetPhase("failed") /\ UNCHANGED failing
             ELSE SetPhase("collector_stopped") /\ UNCHANGED failing

StopReturns(err) ==
  CASE failing          -> SetPhase("failed") /\ UNCHANGED failing
    [] err /\ ~failing  -> Fail
    [] ~err /\ ~failing -> SetPhase("collector_stopped") /\ UNCHANGED failing

(* exitError, read once the collector's channel is closed.                 *)
ExitCode == /\ collector \in Ended
            /\ StopReturns(collector = "broken")

StopCollector ==
  /\ agent = "stop"
  /\ \/ collector = "none" /\ StopReturns(FALSE) /\ UNCHANGED markers
     \/ ExitCode /\ UNCHANGED markers
     \/ /\ collector # "none"    \* an end that Wait has not reported yet goes unnoticed
        /\ \/ markers' = markers \cup {"stop"} /\ Goto("stopping")
           \/ markers' \in {markers, markers \cup {"stop"}} /\ StopReturns(TRUE)
  /\ NoStatus /\ UNCHANGED <<collector, sample>>

AwaitStop ==
  /\ agent = "stopping"
  /\ ExitCode \/ Goto("kill")
  /\ NoStatus /\ UNCHANGED <<markers, collector, sample>>

(* Kill of a process that has ended is refused until Wait has returned     *)
(* ("access denied", not os.ErrProcessDone), and then the code asks only   *)
(* whether the channel is closed by now.                                   *)
KillCollector ==
  /\ agent = "kill"
  /\ \/ collector' = (IF collector \in Live THEN "broken" ELSE collector) /\ Goto("reap")
     \/ StopReturns(TRUE) /\ UNCHANGED collector
     \/ collector \in Ended /\ StopReturns(FALSE) /\ UNCHANGED collector
  /\ NoStatus /\ UNCHANGED <<markers, sample>>

ReapCollector ==
  /\ agent = "reap"
  /\ StopReturns(TRUE)
  /\ NoStatus /\ UNCHANGED <<markers, collector, sample>>

Conclude ==
  /\ agent = "finish"
  /\ SetPhase("completed") /\ UNCHANGED failing
  /\ NoStatus /\ UNCHANGED <<markers, collector, sample>>

(* shutdownGuest; its error is ignored, as is that of the log's close.     *)
ShutdownGuest ==
  /\ agent = "shutdown"
  /\ Goto("gone")
  /\ NoStatus /\ UNCHANGED <<markers, collector, sample>>

AgentStep ==
  /\ sandbox = "on"
  /\ \/ Boot \/ OpenStatus \/ WriteStatus \/ StatSample \/ StartCollector
     \/ WaitForCollectorReady \/ StartSample \/ WaitForSample
     \/ StopCollector \/ AwaitStop \/ KillCollector \/ ReapCollector
     \/ Conclude \/ ShutdownGuest
  /\ AgentFrame
-----------------------------------------------------------------------------
(* The collector as far as the agent sees it, and the sample.              *)

CollectorOpens ==       \* removes both markers first
  /\ collector = "starting" /\ collector' = "opening"
  /\ markers' = {}

CollectorReady ==
  /\ collector = "opening" /\ collector' = "serving"
  /\ markers' = markers \cup {"ready"}

CollectorStops ==       \* finds the stop marker, and stops every stage in time
  /\ collector = "serving" /\ "stop" \in markers
  /\ collector' = "flushed"
  /\ UNCHANGED markers

CollectorBreaks ==      \* a failed start, an incomplete stop, a crash
  /\ collector \in Live /\ collector' = "broken"
  /\ UNCHANGED markers

CollectorStep ==
  /\ sandbox = "on"
  /\ CollectorOpens \/ CollectorReady \/ CollectorStops \/ CollectorBreaks
  /\ UNCHANGED <<hostVars, sandbox, file, agent, phase, failing, sample, announced, faults>>

SampleExits ==
  /\ sandbox = "on"
  /\ sample = "running" /\ sample' = "exited"
  /\ UNCHANGED <<hostVars, sandbox, file, markers, agent, phase, failing, collector,
                 announced, faults>>

AgentDies ==
  /\ sandbox = "on"
  /\ agent \notin {"gone", "dead"} /\ agent' = "dead"
  /\ Fault
  /\ UNCHANGED <<hostVars, sandbox, file, markers, phase, failing, collector, sample, announced>>

(* Windows shuts down when asked to, or unbidden.                          *)
SandboxEnds ==
  /\ sandbox = "on" /\ sandbox' = "off"
  /\ IF agent = "gone" THEN UNCHANGED faults ELSE Fault
  /\ UNCHANGED <<hostVars, Guest>>

Next == HostStep \/ TimerFires \/ AgentStep \/ CollectorStep \/ SampleExits
        \/ AgentDies \/ SandboxEnds

Spec == Init /\ [][Next]_vars

(* The loops of both sides come round, a statement returns, the overall    *)
(* timer expires, and Go's select, which chooses among the ready cases at  *)
(* random, does not pass over a fired timer for ever.  Nothing is assumed  *)
(* of the collector, the sample, or the shutdown of Windows.               *)
FairSpec == /\ Spec
            /\ WF_vars(HostStep) /\ WF_vars(AgentStep) /\ WF_vars(TimerFires)
            /\ SF_vars(SelectTimer)
-----------------------------------------------------------------------------
(* An analysis counts as successful only if the sandbox is gone, so that   *)
(* nobody writes to the telemetry that is read, the last thing the guest   *)
(* said is "completed", the sample ended by itself and no collector ran on *)
(* (windows.go:199-213, main.go:150-298): whatever writes fail, whoever    *)
(* dies and whichever timers fire.                                         *)
SuccessIsEarned ==
  outcome = "success" => /\ sandbox = "off" /\ file = "completed"
                         /\ sample = "exited" /\ collector \in Ended

(* A failure the agent has noticed is not reported as success.  One fault  *)
(* alone cannot hide it, not even a status "completed" that was written    *)
(* and then reported as not written: it takes a second one, which keeps    *)
(* the agent from writing "failed" after it (main.go:89-104).              *)
FailureIsNotHidden == failing /\ faults <= 1 => outcome # "success"

(* When nothing goes wrong but the clock, a run that the guest completed   *)
(* is reported as failed only because a timer of the host fired: neither a *)
(* status read while the guest rewrites it (protocol.go:85-94) nor the     *)
(* moment at which the sandbox ends can lose it.                           *)
CompletionCounts ==
  outcome = "failed" /\ announced = "completed" => fired # {} \/ faults > 0

(* The run keeps the promise of RunProtocol to the worker.                 *)
Run == INSTANCE RunProtocol
RunSpec == Run!Spec

(* RunAnalysisForJob returns, even if the guest or Windows hangs: the      *)
(* worker is single and would otherwise never claim another job.           *)
RunEnds == <>(host = "done")

(* The guest always comes to the point where it shuts Windows down         *)
(* (main.go:115), unless it dies: none of its waits depends on the         *)
(* collector or on the sample.                                             *)
GuestWindsUp == sandbox = "on" ~> sandbox = "off" \/ agent \in {"gone", "dead"}

(* What the agent says with phase collector_stopped: "ETW collector        *)
(* stopped and flushed" (main.go:287).                                     *)
StoppedMeansFlushed == announced = "collector_stopped" => collector = "flushed"
=============================================================================
