-------------------------- MODULE SandboxRunProofs --------------------------
(***************************************************************************)
(* Theorems about SandboxRun, for any number of faults.                    *)
(***************************************************************************)
EXTENDS SandboxRun, TLAPS

(* Each side leaves the other side's variables alone.                      *)
LEMMA HostFrame ==
  ASSUME HostStep \/ TimerFires
  PROVE  UNCHANGED <<file, markers, agent, phase, failing, collector, sample, announced>>
  BY DEF HostStep, TimerFires, Create, Execute, Poll, SelectTick, SelectDone, SelectTimer, Collect,
         Destroy, Kill, Reap, Guest, guestVars

LEMMA GuestFrame ==
  ASSUME AgentStep \/ CollectorStep \/ SampleExits \/ AgentDies
  PROVE  sandbox = "on" /\ UNCHANGED <<host, lastPhase, fired, outcome, cleanup, sandbox>>
  BY DEF AgentStep, CollectorStep, SampleExits, AgentDies, AgentFrame, hostVars
-----------------------------------------------------------------------------
(* Type correctness.                                                       *)

LEMMA HostType == ASSUME TypeOK, HostStep \/ TimerFires PROVE TypeOK'
<1>1. GuestOK' /\ (file \in Phases \cup {"none", "torn"} /\ announced \in Phases \cup {"none"})'
  BY HostFrame DEF TypeOK, GuestOK, StatusOK
<1>2. faults' \in 0..MaxFaults
  <2>1. UNCHANGED faults \/ Fault
    BY DEF HostStep, TimerFires, Create, Execute, Poll, SelectTick, SelectDone, SelectTimer, Collect,
           Destroy, Kill, Reap
  <2>2. QED
    BY <2>1, FaultsAssumption DEF Fault, TypeOK, StatusOK
<1>3. HostOK'
  <2> USE DEF TypeOK, HostOK, Return, ReadStatus, Finish
  <2>1. CASE Create \/ Execute \/ Poll \/ SelectTick \/ SelectTimer
    BY <2>1 DEF Create, Execute, Poll, SelectTick, SelectTimer
  <2>2. CASE SelectDone \/ Collect
    BY <2>2 DEF SelectDone, Collect
  <2>3. CASE Destroy \/ Kill \/ Reap
    BY <2>3 DEF Destroy, Kill, Reap
  <2>4. CASE TimerFires
    BY <2>4 DEF TimerFires
  <2>5. QED
    BY <2>1, <2>2, <2>3, <2>4 DEF HostStep
<1>4. QED
  BY <1>1, <1>2, <1>3 DEF TypeOK, StatusOK

LEMMA AgentType == ASSUME TypeOK, AgentStep PROVE TypeOK'
<1>1. HostOK'
  BY GuestFrame DEF TypeOK, HostOK
<1>2. StatusOK'
  <2>1. UNCHANGED <<file, announced, faults>> \/ OpenStatus \/ WriteStatus
    BY DEF AgentStep, NoStatus, Boot, StatSample, WaitForCollectorReady, Conclude,
           ShutdownGuest, StartCollector, StartSample, WaitForSample, StopCollector,
           AwaitStop, KillCollector, ReapCollector
  <2>2. agent \in {"open", "write"} => phase \in Phases
    BY DEF TypeOK, GuestOK
  <2>3. QED
    BY <2>1, <2>2, FaultsAssumption
       DEF TypeOK, StatusOK, OpenStatus, WriteStatus, StatusFails, Fault
<1>3. GuestOK'
  <2> USE DEF TypeOK, GuestOK, Goto, SetPhase, Fail, KillSample, Phases
  <2>1. CASE Boot \/ StatSample \/ WaitForCollectorReady \/ Conclude \/ ShutdownGuest
    BY <2>1 DEF Boot, StatSample, WaitForCollectorReady, Conclude, ShutdownGuest
  <2>2. CASE OpenStatus
    BY <2>2 DEF OpenStatus, StatusFails
  <2>3. CASE WriteStatus
    <3>1. phase \in Phases
      BY <2>3 DEF WriteStatus
    <3>2. After[phase] \in {"stat", "launch", "sample", "run", "stop", "finish", "shutdown"}
      BY <3>1 DEF After
    <3>3. UNCHANGED <<markers, collector>>
      BY <2>3 DEF WriteStatus
    <3>4. CASE agent' = After[phase] /\ UNCHANGED <<phase, failing, sample>>
      <4>1. agent' \in {"stat", "launch", "sample", "run", "stop", "finish", "shutdown"}
        BY <3>2, <3>4
      <4> QED
        BY <3>3, <3>4, <4>1
    <3>5. CASE StatusFails
      BY <3>3, <3>5 DEF StatusFails
    <3>6. QED
      BY <2>3, <3>4, <3>5 DEF WriteStatus
  <2>4. CASE StartCollector \/ StartSample \/ WaitForSample
    BY <2>4 DEF StartCollector, StartSample, WaitForSample, Live
  <2>5. CASE StopCollector \/ AwaitStop \/ KillCollector \/ ReapCollector
    <3>1. ASSUME NEW err \in BOOLEAN, StopReturns(err)
          PROVE  /\ \/ agent' = "open" /\ phase' \in Phases
                    \/ agent' = "stop" /\ UNCHANGED phase
                 /\ failing' \in BOOLEAN
      BY <3>1 DEF StopReturns
    <3>2. CASE ExitCode /\ UNCHANGED <<markers, collector, sample>>
      <4>1. PICK err \in BOOLEAN : StopReturns(err)
        BY <3>2 DEF ExitCode
      <4> QED
        BY <3>1, <3>2, <4>1
    <3>3. CASE /\ UNCHANGED <<collector, sample>>
               /\ \/ Goto("stopping") /\ markers' = markers \cup {"stop"}
                  \/ StopReturns(TRUE) /\ markers' \in {markers, markers \cup {"stop"}}
                  \/ StopReturns(FALSE) /\ UNCHANGED markers
      BY <3>1, <3>3
    <3>4. CASE Goto("kill") /\ UNCHANGED <<markers, collector, sample>>
      BY <3>4
    <3>5. CASE KillCollector
      <4>1. collector' \in {"none"} \cup Live \cup Ended /\ UNCHANGED <<markers, sample>>
        BY <3>5 DEF KillCollector, Live, Ended
      <4>2. Goto("reap") \/ StopReturns(TRUE) \/ StopReturns(FALSE)
        BY <3>5 DEF KillCollector
      <4> QED
        BY <3>1, <4>1, <4>2
    <3>6. CASE StopCollector
      BY <3>2, <3>3, <3>6 DEF StopCollector
    <3>7. CASE AwaitStop \/ ReapCollector
      BY <3>1, <3>2, <3>4, <3>7 DEF AwaitStop, ReapCollector
    <3> QED
      BY <2>5, <3>5, <3>6, <3>7
  <2>6. QED
    BY <2>1, <2>2, <2>3, <2>4, <2>5 DEF AgentStep
<1>4. QED
  BY <1>1, <1>2, <1>3 DEF TypeOK

LEMMA WorldType ==
  ASSUME TypeOK, CollectorStep \/ SampleExits \/ AgentDies \/ SandboxEnds
  PROVE  TypeOK'
<1>1. CASE CollectorStep \/ SampleExits
  <2>1. HostOK' /\ StatusOK'
    BY <1>1, GuestFrame DEF TypeOK, HostOK, StatusOK, CollectorStep, SampleExits
  <2>2. CASE CollectorStep
    <3>1. markers' \in SUBSET {"ready", "stop"} /\ collector' \in Live \cup Ended
      BY <2>2 DEF CollectorStep, CollectorOpens, CollectorReady, CollectorStops,
                  CollectorBreaks, TypeOK, GuestOK, Live, Ended
    <3>2. QED
      BY <2>1, <2>2, <3>1 DEF CollectorStep, TypeOK, GuestOK
  <2>3. CASE SampleExits
    BY <2>1, <2>3 DEF SampleExits, TypeOK, GuestOK
  <2>4. QED
    BY <1>1, <2>2, <2>3
<1>2. CASE AgentDies
  <2>1. HostOK'
    BY <1>2, GuestFrame DEF TypeOK, HostOK
  <2>2. StatusOK'
    BY <1>2, FaultsAssumption DEF AgentDies, Fault, TypeOK, StatusOK
  <2>3. GuestOK'
    BY <1>2 DEF AgentDies, TypeOK, GuestOK
  <2>4. QED
    BY <2>1, <2>2, <2>3 DEF TypeOK
<1>3. CASE SandboxEnds
  <2>1. /\ UNCHANGED <<host, lastPhase, fired, outcome, cleanup, file, markers, agent, phase,
                       failing, collector, sample, announced>>
        /\ sandbox' = "off"
    BY <1>3 DEF SandboxEnds, hostVars, Guest, guestVars
  <2>2. faults' \in 0..MaxFaults
    BY <1>3, FaultsAssumption DEF SandboxEnds, Fault, TypeOK, StatusOK
  <2>3. HostOK'
    BY <2>1 DEF TypeOK, HostOK
  <2>4. GuestOK'
    BY <2>1 DEF TypeOK, GuestOK
  <2>5. QED
    BY <2>1, <2>2, <2>3, <2>4 DEF TypeOK, StatusOK
<1>4. QED
  BY <1>1, <1>2, <1>3

(* Every reachable state is well typed, and no sandbox is polled or        *)
(* destroyed before there is one.                                          *)
THEOREM RunTypeCorrect == Spec => []TypeOK
<1>1. Init => TypeOK
  <2>1. Init => HostOK
    BY DEF Init, HostOK
  <2>2. Init => StatusOK
    BY FaultsAssumption DEF Init, StatusOK
  <2>3. Init => GuestOK
    BY DEF Init, GuestOK
  <2>4. QED
    BY <2>1, <2>2, <2>3 DEF TypeOK
<1>2. TypeOK /\ UNCHANGED vars => TypeOK'
  BY DEF TypeOK, HostOK, StatusOK, GuestOK, vars, hostVars, guestVars
<1>3. TypeOK /\ [Next]_vars => TypeOK'
  BY <1>2, HostType, AgentType, WorldType DEF Next
<1>4. QED
  BY <1>1, <1>3, PTL DEF Spec
-----------------------------------------------------------------------------
(* What is true of the guest wherever it is: which phase it is in, which   *)
(* it announces next, and what the sample and the collector have gone      *)
(* through by then.                                                        *)

Waiting == {"boot", "stat", "launch", "await", "sample", "run", "finish"}
Stopping == {"stop", "stopping", "kill", "reap"}

PlaceFits ==
  /\ agent \in Waiting => ~failing
  /\ agent = "boot" => phase = "none"
  /\ agent = "stat" => phase = "agent_started"
  /\ agent \in {"launch", "await"} => phase = "collector_starting"
  /\ agent = "sample" => phase = "collector_ready"
  /\ agent = "run" => phase = "sample_running"
  /\ agent \in Stopping /\ ~failing => phase = "sample_exited"
  /\ agent = "finish" => phase = "collector_stopped"
  /\ agent \in {"open", "write"} => (failing <=> phase = "failed")

(* Every phase but the failure is announced right after the one before it. *)
AnnouncedFits ==
  /\ agent \in Waiting \/ (agent \in Stopping /\ ~failing) => announced = phase
  /\ agent \in {"open", "write"} /\ ~failing => Run!Rank[phase] = Run!Rank[announced] + 1
  /\ file \in Phases => announced = file

Evidence ==
  /\ agent = "await" \/ phase \in {"collector_ready", "sample_running", "sample_exited"}
     => collector # "none"
  /\ phase \in {"sample_exited", "collector_stopped", "completed"} => sample = "exited"
  /\ phase \in {"collector_stopped", "completed"} => collector \in Ended
  /\ file = "completed" => /\ phase \in {"completed", "failed"}
                           /\ sample = "exited" /\ collector \in Ended

(* What the host has decided, and on what grounds.                         *)
HostFits ==
  /\ host \in {"create", "execute", "poll", "select", "collect"} => outcome = "none"
  /\ host = "create" => sandbox = "none"
  /\ host = "collect" \/ outcome = "success" => sandbox = "off" /\ file = "completed"

GuestFits == PlaceFits /\ AnnouncedFits /\ Evidence

IInv == TypeOK /\ GuestFits /\ HostFits

LEMMA Ranks ==
  /\ Run!Rank["none"] = 0 /\ Run!Rank["agent_started"] = 1
  /\ Run!Rank["collector_starting"] = 2 /\ Run!Rank["collector_ready"] = 3
  /\ Run!Rank["sample_running"] = 4 /\ Run!Rank["sample_exited"] = 5
  /\ Run!Rank["collector_stopped"] = 6 /\ Run!Rank["completed"] = 7
  BY DEF Run!Rank

(* The host, the sandbox's end and the death of the agent disturb nothing  *)
(* of the guest.                                                           *)
LEMMA GuestUndisturbed ==
  ASSUME PlaceFits, AnnouncedFits, Evidence,
         UNCHANGED <<file, phase, failing, collector, sample, announced>>,
         agent' \in {agent, "dead"}
  PROVE  PlaceFits' /\ AnnouncedFits' /\ Evidence'
<1>1. PlaceFits'
  BY DEF PlaceFits, Waiting, Stopping
<1>2. AnnouncedFits'
  BY DEF AnnouncedFits, Waiting, Stopping
<1>3. Evidence'
  BY DEF Evidence
<1>4. QED
  BY <1>1, <1>2, <1>3

LEMMA AgentPlaces ==
  ASSUME TypeOK, PlaceFits, AgentStep
  PROVE  PlaceFits'
<1> USE DEF PlaceFits, Waiting, Stopping, Goto, SetPhase, Fail
<1>1. CASE Boot \/ StatSample \/ WaitForCollectorReady \/ Conclude \/ ShutdownGuest
  BY <1>1 DEF Boot, StatSample, WaitForCollectorReady, Conclude, ShutdownGuest
<1>2. CASE OpenStatus
  BY <1>2 DEF OpenStatus, StatusFails
<1>3. CASE WriteStatus
  <2>1. phase \in Phases /\ (failing <=> phase = "failed")
    BY <1>3 DEF WriteStatus, TypeOK, GuestOK
  <2>2. CASE StatusFails
    BY <2>2 DEF StatusFails
  <2>3. CASE agent' = After[phase] /\ UNCHANGED <<phase, failing>>
    BY <2>1, <2>3 DEF After, Phases
  <2>4. QED
    BY <1>3, <2>2, <2>3 DEF WriteStatus
<1>4. CASE StartCollector \/ StartSample \/ WaitForSample
  BY <1>4 DEF StartCollector, StartSample, WaitForSample
<1>5. CASE StopCollector \/ AwaitStop \/ KillCollector \/ ReapCollector
  BY <1>5 DEF StopCollector, AwaitStop, KillCollector, ReapCollector, StopReturns, ExitCode
<1>6. QED
  BY <1>1, <1>2, <1>3, <1>4, <1>5 DEF AgentStep

LEMMA AgentAnnounces ==
  ASSUME TypeOK, PlaceFits, AnnouncedFits, AgentStep
  PROVE  AnnouncedFits'
<1> USE Ranks DEF PlaceFits, AnnouncedFits, Waiting, Stopping, Goto, SetPhase, Fail, NoStatus
<1>1. CASE Boot \/ StatSample \/ WaitForCollectorReady \/ Conclude \/ ShutdownGuest
  BY <1>1 DEF Boot, StatSample, WaitForCollectorReady, Conclude, ShutdownGuest
<1>2. CASE OpenStatus
  BY <1>2 DEF OpenStatus, StatusFails, Phases
<1>3. CASE WriteStatus
  <2>1. phase \in Phases /\ (failing <=> phase = "failed")
    BY <1>3 DEF WriteStatus, TypeOK, GuestOK
  <2>2. (file \in Phases => announced = file)'
    BY <1>3 DEF WriteStatus, Phases
  <2>3. CASE StatusFails
    BY <2>2, <2>3 DEF StatusFails
  <2>4. CASE file' = phase /\ agent' = After[phase] /\ UNCHANGED <<phase, failing>>
    <3>1. announced' = phase
      BY <1>3, <2>4 DEF WriteStatus
    <3>2. QED
      BY <2>1, <2>2, <2>4, <3>1 DEF After, Phases
  <2>5. QED
    BY <1>3, <2>3, <2>4 DEF WriteStatus
<1>4. CASE StartCollector \/ StartSample \/ WaitForSample
  BY <1>4 DEF StartCollector, StartSample, WaitForSample
<1>5. CASE StopCollector \/ AwaitStop \/ KillCollector \/ ReapCollector
  <2>1. /\ agent \in Stopping /\ UNCHANGED <<file, announced>>
        /\ \/ agent' \in Stopping /\ UNCHANGED <<phase, failing>>
           \/ agent' = "stop" /\ failing'
           \/ failing /\ failing' /\ agent' = "open"
           \/ ~failing /\ agent' = "open" /\ phase' = "collector_stopped"
    BY <1>5 DEF StopCollector, AwaitStop, KillCollector, ReapCollector, StopReturns, ExitCode
  <2>2. QED
    BY <2>1
<1>6. QED
  BY <1>1, <1>2, <1>3, <1>4, <1>5 DEF AgentStep

LEMMA AgentEvidence ==
  ASSUME TypeOK, PlaceFits, Evidence, AgentStep
  PROVE  Evidence'
<1> USE DEF PlaceFits, Evidence, Waiting, Stopping, Goto, SetPhase, Fail, NoStatus, KillSample
<1>1. CASE Boot \/ StatSample \/ WaitForCollectorReady \/ Conclude \/ ShutdownGuest
  BY <1>1 DEF Boot, StatSample, WaitForCollectorReady, Conclude, ShutdownGuest
<1>2. CASE OpenStatus
  BY <1>2 DEF OpenStatus, StatusFails
<1>3. CASE WriteStatus
  <2>1. phase \in Phases /\ (failing <=> phase = "failed")
    BY <1>3 DEF WriteStatus, TypeOK, GuestOK
  <2>2. file' \in {"torn", phase} /\ UNCHANGED <<phase, collector>>
    BY <1>3 DEF WriteStatus, StatusFails
  <2>3. CASE StatusFails
    BY <2>2, <2>3 DEF StatusFails
  <2>4. CASE agent' = After[phase] /\ UNCHANGED sample
    BY <2>1, <2>2, <2>4 DEF After, Phases
  <2>5. QED
    BY <1>3, <2>3, <2>4 DEF WriteStatus
<1>4. CASE StartCollector \/ StartSample \/ WaitForSample
  BY <1>4 DEF StartCollector, StartSample, WaitForSample, Ended
<1>5. CASE StopCollector \/ AwaitStop \/ KillCollector \/ ReapCollector
  BY <1>5 DEF StopCollector, AwaitStop, KillCollector, ReapCollector, StopReturns, ExitCode,
              TypeOK, GuestOK, Live, Ended
<1>6. QED
  BY <1>1, <1>2, <1>3, <1>4, <1>5 DEF AgentStep

LEMMA GuestInductive ==
  ASSUME TypeOK, GuestFits, [Next]_vars
  PROVE  GuestFits'
<1> USE DEF GuestFits
<1>1. CASE AgentStep
  BY <1>1, AgentPlaces, AgentAnnounces, AgentEvidence
<1>2. CASE CollectorStep
  <2>1. /\ UNCHANGED <<file, agent, phase, failing, sample, announced>>
        /\ collector \in Live /\ collector' \in Live \cup Ended
    BY <1>2 DEF CollectorStep, CollectorOpens, CollectorReady, CollectorStops, CollectorBreaks,
                Live, Ended
  <2>2. PlaceFits' /\ AnnouncedFits'
    BY <2>1 DEF PlaceFits, AnnouncedFits, Waiting, Stopping
  <2>3. Evidence'
    BY <2>1 DEF Evidence, Live, Ended
  <2>4. QED
    BY <2>2, <2>3
<1>3. CASE SampleExits
  <2>1. /\ UNCHANGED <<file, agent, phase, failing, collector, announced>>
        /\ sample' = "exited"
    BY <1>3 DEF SampleExits
  <2>2. PlaceFits' /\ AnnouncedFits'
    BY <2>1 DEF PlaceFits, AnnouncedFits, Waiting, Stopping
  <2>3. Evidence'
    BY <2>1 DEF Evidence
  <2>4. QED
    BY <2>2, <2>3
<1>4. CASE HostStep \/ TimerFires
  BY <1>4, HostFrame, GuestUndisturbed
<1>5. CASE AgentDies
  BY <1>5, GuestUndisturbed DEF AgentDies
<1>6. CASE SandboxEnds \/ UNCHANGED vars
  BY <1>6, GuestUndisturbed DEF SandboxEnds, Guest, guestVars, vars
<1>7. QED
  BY <1>1, <1>2, <1>3, <1>4, <1>5, <1>6 DEF Next

LEMMA HostInductive ==
  ASSUME TypeOK, HostFits, [Next]_vars
  PROVE  HostFits'
<1> USE DEF HostFits
<1>1. CASE AgentStep \/ CollectorStep \/ SampleExits \/ AgentDies
  <2>1. sandbox = "on" /\ UNCHANGED <<host, outcome, sandbox>>
    BY <1>1, GuestFrame
  <2>2. QED
    BY <2>1
<1>2. CASE SandboxEnds \/ UNCHANGED vars
  <2>1. UNCHANGED <<host, outcome, file>> /\ (UNCHANGED sandbox \/ (sandbox = "on" /\ sandbox' = "off"))
    BY <1>2 DEF SandboxEnds, hostVars, Guest, vars
  <2>2. QED
    BY <2>1
<1>3. CASE HostStep \/ TimerFires
  <2>1. UNCHANGED file
    BY <1>3, HostFrame
  <2>2. CASE Create \/ Execute \/ Poll \/ SelectTick \/ SelectTimer \/ TimerFires
    BY <2>1, <2>2 DEF Create, Execute, Poll, SelectTick, SelectTimer, TimerFires, Return
  <2>3. CASE SelectDone \/ Collect
    BY <2>1, <2>3 DEF SelectDone, FinalStatusIsSuccess, Collect, Return
  <2>4. CASE Destroy \/ Kill \/ Reap
    BY <2>1, <2>4 DEF Destroy, Kill, Reap, Finish
  <2>5. QED
    BY <1>3, <2>2, <2>3, <2>4 DEF HostStep
<1>4. QED
  BY <1>1, <1>2, <1>3 DEF Next

LEMMA Inductive == Spec => []IInv
<1>1. Init => GuestFits
  BY Ranks DEF Init, GuestFits, PlaceFits, AnnouncedFits, Evidence, Waiting, Stopping, Phases
<1>2. Init => HostFits
  BY DEF Init, HostFits
<1>3. TypeOK /\ GuestFits /\ [Next]_vars => GuestFits'
  BY GuestInductive
<1>4. TypeOK /\ HostFits /\ [Next]_vars => HostFits'
  BY HostInductive
<1>5. IInv <=> TypeOK /\ GuestFits /\ HostFits
  BY DEF IInv
<1>6. QED
  BY <1>1, <1>2, <1>3, <1>4, <1>5, RunTypeCorrect, PTL DEF Spec

(* Success is earned: the guest completed, the sample ended by itself, the *)
(* collector had ended, and the sandbox was gone before anything was read. *)
THEOREM Earned == Spec => []SuccessIsEarned
<1>1. IInv => SuccessIsEarned
  BY DEF IInv, GuestFits, HostFits, Evidence, SuccessIsEarned
<1>2. QED
  BY <1>1, Inductive, PTL
-----------------------------------------------------------------------------
(* The refinement of RunProtocol.                                          *)

LEMMA StepRefinesRun ==
  ASSUME IInv, [Next]_vars
  PROVE  [Run!Next]_(Run!vars)
<1> USE DEF Run!vars
<1>1. CASE AgentStep
  <2>1. sandbox = "on" /\ UNCHANGED <<sandbox, outcome>>
    BY <1>1, GuestFrame
  <2>2. UNCHANGED announced \/ WriteStatus
    BY <1>1 DEF AgentStep, NoStatus, Boot, OpenStatus, StatSample, WaitForCollectorReady,
           Conclude, ShutdownGuest, StartCollector, StartSample, WaitForSample, StopCollector,
           AwaitStop, KillCollector, ReapCollector
  <2>3. CASE WriteStatus /\ announced' # announced
    <3>1. /\ announced' = phase /\ phase \in Phases
          /\ phase # "failed" => Run!Rank[phase] = Run!Rank[announced] + 1
      BY <2>3 DEF WriteStatus, IInv, GuestFits, PlaceFits, AnnouncedFits, TypeOK, GuestOK
    <3>2. phase \in DOMAIN Run!Rank
      BY <3>1 DEF Phases, Run!Rank
    <3>3. Run!Announce(phase)
      BY <2>1, <2>3, <3>1 DEF Run!Announce
    <3>4. QED
      BY <3>2, <3>3 DEF Run!Next
  <2>4. QED
    BY <2>1, <2>2, <2>3
<1>2. CASE CollectorStep \/ SampleExits \/ AgentDies
  <2>1. UNCHANGED <<sandbox, outcome>>
    BY <1>2, GuestFrame
  <2>2. UNCHANGED announced
    BY <1>2 DEF CollectorStep, SampleExits, AgentDies
  <2>3. QED
    BY <2>1, <2>2
<1>3. CASE SandboxEnds \/ Kill
  <2>1. UNCHANGED <<announced, outcome>> /\ (UNCHANGED sandbox \/ sandbox' = "off")
    BY <1>3 DEF SandboxEnds, Kill, hostVars, Guest
  <2>2. sandbox \in {"on", "off"}
    BY <1>3 DEF IInv, TypeOK, HostOK, SandboxEnds, Kill
  <2>3. QED
    BY <2>1, <2>2 DEF Run!Next, Run!Stop
<1>4. CASE Create
  <2>1. UNCHANGED announced /\ sandbox = "none" /\ outcome = "none"
    BY <1>4 DEF Create, Guest, IInv, HostFits
  <2>2. \/ sandbox' = "on" /\ UNCHANGED outcome
        \/ outcome' = "failed" /\ UNCHANGED sandbox
    BY <1>4 DEF Create
  <2>3. QED
    BY <2>1, <2>2 DEF Run!Next, Run!Start, Run!Decide
<1>5. CASE Execute \/ Poll \/ SelectTick \/ SelectDone \/ SelectTimer \/ Collect
  <2>1. UNCHANGED <<announced, sandbox>> /\ outcome = "none"
    BY <1>5 DEF Execute, Poll, SelectTick, SelectDone, SelectTimer, Collect, Guest, IInv, HostFits
  <2>2. outcome' \in {"none", "failed"} \/ (Collect /\ outcome' = "success")
    BY <1>5, <2>1 DEF Execute, Poll, SelectTick, SelectDone, SelectTimer, Collect, Return
  <2>3. Collect => sandbox = "off" /\ announced = "completed"
    BY DEF Collect, IInv, HostFits, GuestFits, AnnouncedFits, Phases
  <2>4. QED
    BY <2>1, <2>2, <2>3 DEF Run!Next, Run!Decide
<1>6. CASE Destroy \/ Reap \/ TimerFires \/ UNCHANGED vars
  BY <1>6 DEF Destroy, Reap, TimerFires, vars, hostVars, Guest
<1>7. QED
  BY <1>1, <1>2, <1>3, <1>4, <1>5, <1>6 DEF Next, HostStep

(* A run of the sandbox keeps the promise of RunProtocol: phases in order, *)
(* one decision, and success only after completion and the sandbox's end.  *)
THEOREM RunImplements == Spec => RunSpec
<1>1. Init => Run!Init
  BY DEF Init, Run!Init
<1>2. IInv /\ [Next]_vars => [Run!Next]_(Run!vars)
  BY StepRefinesRun
<1>3. QED
  BY <1>1, <1>2, Inductive, PTL DEF Spec, RunSpec, Run!Spec
-----------------------------------------------------------------------------
(* What a failure that looks like a completion has cost.                   *)

Concluded == {"shutdown", "gone", "dead"}

(* The host looks at the final status only of a sandbox that has ended     *)
(* while it was in Execute.                                                *)
EndSeen == sandbox = "off" /\ (host \in {"execute", "poll", "select", "collect"} \/ outcome = "success")

Costs ==
  /\ failing /\ announced = "completed" => faults >= 1
  /\ failing /\ file = "completed" /\ (agent \in Concluded \/ EndSeen) => faults >= 2
  /\ announced = "completed" => file = "completed" \/ faults >= 1
  /\ announced = "failed" => agent \in Concluded

(* Why the host may have decided on failure.                               *)
Excuses ==
  /\ sandbox = "none" => announced = "none"
  /\ outcome = "failed" => \/ fired # {} \/ faults >= 1 \/ announced = "failed"
                           \/ sandbox = "none"
                           \/ sandbox = "off" /\ announced # "completed"

(* After "completed" the agent writes only if something failed.            *)
LEMMA NothingFollows ==
  ASSUME IInv, announced = "completed", ~failing, agent \notin Concluded
  PROVE  FALSE
<1>1. phase # "completed" => agent \notin Waiting \cup Stopping
  BY DEF IInv, GuestFits, AnnouncedFits
<1>2. phase = "completed" => agent \notin Waiting \cup Stopping
  BY DEF IInv, GuestFits, PlaceFits, Waiting, Stopping
<1>3. agent \in {"open", "write"}
  BY <1>1, <1>2 DEF IInv, TypeOK, GuestOK, Waiting, Stopping, Concluded
<1>4. phase \in Phases /\ phase # "failed" /\ Run!Rank[phase] = 8
  BY <1>3, Ranks DEF IInv, GuestFits, PlaceFits, AnnouncedFits, TypeOK, GuestOK
<1>5. QED
  BY <1>4, Ranks DEF Phases

LEMMA AgentCosts ==
  ASSUME IInv, Costs, AgentStep
  PROVE  Costs'
<1>1. sandbox = "on" /\ ~EndSeen' /\ faults \in Nat
  BY GuestFrame, FaultsAssumption DEF EndSeen, IInv, TypeOK, StatusOK
<1>2. file = "completed" => announced = "completed"
  BY DEF IInv, GuestFits, AnnouncedFits, Phases
<1>3. announced = "completed" => failing \/ agent \in Concluded
  BY NothingFollows
<1>4. CASE /\ \/ Boot \/ StatSample \/ WaitForCollectorReady \/ Conclude \/ ShutdownGuest
              \/ StartCollector \/ StartSample \/ WaitForSample
              \/ StopCollector \/ AwaitStop \/ KillCollector \/ ReapCollector
           /\ UNCHANGED <<file, announced, faults>>
  <2>1. \/ agent = "shutdown" /\ agent' = "gone" /\ UNCHANGED failing
        \/ agent = "boot"
        \/ agent \notin Concluded /\ agent' \notin Concluded
    <3>1. CASE ShutdownGuest \/ Boot
      BY <3>1 DEF ShutdownGuest, Boot, Goto
    <3>2. CASE StatSample \/ WaitForCollectorReady \/ Conclude \/ StartCollector
               \/ StartSample \/ WaitForSample
      BY <3>2 DEF StatSample, WaitForCollectorReady, Conclude, StartCollector, StartSample,
                  WaitForSample, Goto, SetPhase, Fail, Concluded
    <3>3. CASE StopCollector \/ AwaitStop \/ KillCollector \/ ReapCollector
      BY <3>3 DEF StopCollector, AwaitStop, KillCollector, ReapCollector, StopReturns,
                  ExitCode, Goto, SetPhase, Fail, Concluded
    <3>4. QED
      BY <1>4, <3>1, <3>2, <3>3
  <2>2. agent = "boot" => announced = "none" /\ file # "completed"
    BY <1>2 DEF IInv, GuestFits, PlaceFits, AnnouncedFits, Waiting
  <2>3. CASE agent = "shutdown" /\ agent' = "gone" /\ UNCHANGED failing
    BY <1>1, <1>4, <2>3 DEF Costs, Concluded
  <2>4. CASE agent = "boot"
    BY <1>1, <1>4, <2>2, <2>4 DEF Costs, Concluded
  <2>5. CASE agent \notin Concluded /\ agent' \notin Concluded
    BY <1>1, <1>3, <1>4, <2>5 DEF Costs
  <2>6. QED
    BY <2>1, <2>3, <2>4, <2>5
<1>5. CASE OpenStatus
  <2>1. agent = "open" /\ UNCHANGED announced /\ announced # "failed"
    BY <1>5 DEF OpenStatus, Costs, Concluded
  <2>2. CASE file' = "torn" /\ Goto("write") /\ UNCHANGED faults
    BY <1>3, <2>1, <2>2 DEF Costs, Goto, Concluded
  <2>3. CASE StatusFails /\ UNCHANGED file
    BY <1>1, <1>2, <1>3, <2>1, <2>3
       DEF Costs, StatusFails, Fault, Goto, Fail, Concluded
  <2>4. QED
    BY <1>5, <2>2, <2>3 DEF OpenStatus
<1>6. CASE WriteStatus
  <2>1. /\ agent = "write" /\ phase \in Phases /\ (failing <=> phase = "failed")
        /\ announced # "failed"
    BY <1>6 DEF WriteStatus, Costs, Concluded, IInv, TypeOK, GuestOK, GuestFits, PlaceFits
  <2>2. announced' = IF file' = phase THEN phase ELSE announced
    BY <1>6 DEF WriteStatus
  <2>3. CASE file' = phase /\ Goto(After[phase]) /\ UNCHANGED faults
    BY <2>1, <2>2, <2>3 DEF Costs, Goto, After, Phases, Concluded
  <2>4. CASE file' \in {"torn", phase} /\ StatusFails
    <3>1. faults' = faults + 1
      BY <2>4 DEF StatusFails, Fault
    <3>2. CASE phase = "failed"
      BY <1>1, <2>1, <2>2, <2>4, <3>1, <3>2 DEF Costs, StatusFails, Goto, Concluded
    <3>3. CASE phase # "failed" /\ agent' = "stop" /\ failing'
      BY <1>1, <2>1, <2>2, <2>4, <3>1, <3>3 DEF Costs, Concluded
    <3>4. QED
      BY <2>4, <3>2, <3>3 DEF StatusFails, Fail
  <2>5. QED
    BY <1>6, <2>3, <2>4 DEF WriteStatus
<1>7. QED
  BY <1>4, <1>5, <1>6 DEF AgentStep, NoStatus, Boot, StatSample, WaitForCollectorReady,
     Conclude, ShutdownGuest, StartCollector, StartSample, WaitForSample, StopCollector,
     AwaitStop, KillCollector, ReapCollector

LEMMA CostsInductive ==
  ASSUME IInv, Costs, [Next]_vars
  PROVE  Costs'
<1>0. faults \in Nat
  BY FaultsAssumption DEF IInv, TypeOK, StatusOK
<1>1. CASE AgentStep
  BY <1>1, AgentCosts
<1>2. CASE CollectorStep \/ SampleExits \/ UNCHANGED vars
  <2>1. UNCHANGED <<host, outcome, sandbox, file, agent, failing, announced, faults>>
    BY <1>2, GuestFrame DEF CollectorStep, SampleExits, vars, hostVars, guestVars
  <2>2. QED
    BY <2>1 DEF Costs, EndSeen
<1>3. CASE AgentDies
  <2>1. /\ UNCHANGED <<host, outcome, sandbox, file, failing, announced>>
        /\ agent' = "dead" /\ faults' = faults + 1
    BY <1>3, GuestFrame DEF AgentDies, Fault
  <2>2. file = "completed" => announced = "completed"
    BY DEF IInv, GuestFits, AnnouncedFits, Phases
  <2>3. QED
    BY <1>0, <2>1, <2>2 DEF Costs, Concluded
<1>4. CASE SandboxEnds
  <2>1. /\ UNCHANGED <<host, outcome, file, agent, failing, announced>>
        /\ (agent = "gone" /\ UNCHANGED faults) \/ faults' = faults + 1
    BY <1>4 DEF SandboxEnds, Fault, hostVars, Guest, guestVars
  <2>2. file = "completed" => announced = "completed"
    BY DEF IInv, GuestFits, AnnouncedFits, Phases
  <2>3. QED
    BY <1>0, <2>1, <2>2 DEF Costs, Concluded
<1>5. CASE HostStep \/ TimerFires
  <2>1. UNCHANGED <<file, agent, failing, announced>>
    BY <1>5, HostFrame
  <2>2. faults' \in {faults, faults + 1}
    BY <1>5 DEF HostStep, TimerFires, Create, Execute, Poll, SelectTick, SelectDone, SelectTimer,
                Collect, Destroy, Kill, Reap, Fault
  <2>3. EndSeen' => EndSeen
    <3>1. CASE Create
      BY <3>1 DEF Create, EndSeen, IInv, HostFits
    <3>2. CASE Kill
      BY <3>2 DEF Kill, EndSeen, IInv, HostFits
    <3>3. CASE Execute \/ Poll \/ SelectTick \/ SelectDone \/ SelectTimer \/ Collect
      BY <3>3 DEF Execute, Poll, SelectTick, SelectDone, SelectTimer, Collect, Return, EndSeen,
                  IInv, HostFits
    <3>4. CASE Destroy \/ Reap \/ TimerFires
      BY <3>4 DEF Destroy, Reap, TimerFires, Finish, EndSeen
    <3>5. QED
      BY <1>5, <3>1, <3>2, <3>3, <3>4 DEF HostStep
  <2>4. QED
    BY <1>0, <2>1, <2>2, <2>3 DEF Costs
<1>6. QED
  BY <1>1, <1>2, <1>3, <1>4, <1>5 DEF Next

LEMMA Priced == Spec => []Costs
<1>1. Init => Costs
  BY DEF Init, Costs, EndSeen
<1>2. IInv /\ Costs /\ [Next]_vars => Costs'
  BY CostsInductive
<1>3. QED
  BY <1>1, <1>2, Inductive, PTL DEF Spec

(* One fault alone never turns a failure that the agent has noticed into a *)
(* success.                                                                *)
THEOREM NotHidden == Spec => []FailureIsNotHidden
<1>1. IInv /\ Costs => FailureIsNotHidden
  <2>1. IInv /\ outcome = "success" => EndSeen /\ file = "completed"
    BY DEF IInv, HostFits, EndSeen
  <2>2. IInv => faults \in Nat
    BY FaultsAssumption DEF IInv, TypeOK, StatusOK
  <2>3. QED
    BY <2>1, <2>2 DEF Costs, FailureIsNotHidden
<1>2. QED
  BY <1>1, Inductive, Priced, PTL

LEMMA ExcusesInductive ==
  ASSUME IInv, Costs, Excuses, [Next]_vars
  PROVE  Excuses'
<1>0. faults \in Nat
  BY FaultsAssumption DEF IInv, TypeOK, StatusOK
<1>1. CASE AgentStep \/ CollectorStep \/ SampleExits \/ AgentDies
  <2>1. sandbox = "on" /\ UNCHANGED <<fired, outcome, sandbox>>
    BY <1>1, GuestFrame
  <2>2. UNCHANGED announced \/ (agent = "write" /\ sandbox = "on")
    BY <1>1 DEF AgentStep, CollectorStep, SampleExits, AgentDies, NoStatus, Boot, OpenStatus,
           WriteStatus, StatSample, WaitForCollectorReady, Conclude, ShutdownGuest,
           StartCollector, StartSample, WaitForSample, StopCollector, AwaitStop,
           KillCollector, ReapCollector
  <2>3. faults' \in {faults, faults + 1}
    BY <1>1 DEF AgentStep, CollectorStep, SampleExits, AgentDies, NoStatus, Boot, OpenStatus,
           WriteStatus, StatSample, WaitForCollectorReady, Conclude, ShutdownGuest,
           StartCollector, StartSample, WaitForSample, StopCollector, AwaitStop,
           KillCollector, ReapCollector, StatusFails, Fault
  <2>4. announced = "failed" => announced' = "failed"
    BY <2>2 DEF Costs, Concluded
  <2>5. QED
    BY <1>0, <2>1, <2>3, <2>4 DEF Excuses
<1>2. CASE SandboxEnds \/ UNCHANGED vars
  <2>1. /\ UNCHANGED <<fired, outcome, announced>> /\ faults' \in {faults, faults + 1}
        /\ UNCHANGED sandbox \/ (sandbox = "on" /\ sandbox' = "off")
    BY <1>2 DEF SandboxEnds, Fault, vars, hostVars, Guest
  <2>2. QED
    BY <1>0, <2>1 DEF Excuses
<1>3. CASE HostStep \/ TimerFires
  <2>1. UNCHANGED <<file, announced>>
    BY <1>3, HostFrame
  <2>2. CASE Create
    BY <2>1, <2>2 DEF Create, Excuses, IInv, HostFits
  <2>3. CASE Poll
    <3>1. file = "failed" => announced = "failed"
      BY DEF IInv, GuestFits, AnnouncedFits, Phases
    <3>2. QED
      BY <2>1, <2>3, <3>1 DEF Poll, Return, Excuses
  <2>4. CASE SelectDone
    <3>1. file # "completed" => announced # "completed" \/ faults >= 1
      BY DEF Costs
    <3>2. QED
      BY <2>1, <2>4, <3>1 DEF SelectDone, FinalStatusIsSuccess, Return, Excuses
  <2>5. CASE SelectTick \/ SelectTimer \/ TimerFires
    BY <2>1, <2>5 DEF SelectTick, SelectTimer, TimerFires, Return, Excuses
  <2>6. CASE Execute \/ Collect
    BY <1>0, <2>1, <2>6 DEF Execute, Collect, Return, Fault, Excuses
  <2>7. CASE Destroy \/ Kill \/ Reap
    <3>1. /\ UNCHANGED <<fired, outcome, announced, faults>>
          /\ sandbox # "none" /\ sandbox' \in {sandbox, "off"}
      BY <2>1, <2>7 DEF Destroy, Kill, Reap, IInv, TypeOK, HostOK
    <3>2. QED
      BY <3>1 DEF Excuses
  <2>8. QED
    BY <1>3, <2>2, <2>3, <2>4, <2>5, <2>6, <2>7 DEF HostStep
<1>4. QED
  BY <1>1, <1>2, <1>3 DEF Next

LEMMA Excused == Spec => []Excuses
<1>1. Init => Excuses
  BY DEF Init, Excuses
<1>2. IInv /\ Costs /\ Excuses /\ [Next]_vars => Excuses'
  BY ExcusesInductive
<1>3. QED
  BY <1>1, <1>2, Inductive, Priced, PTL DEF Spec

(* A completed run is lost only to a fault or to a timer of the host.      *)
THEOREM Counts == Spec => []CompletionCounts
<1>1. TypeOK /\ Excuses => CompletionCounts
  BY FaultsAssumption DEF TypeOK, StatusOK, Excuses, CompletionCounts
<1>2. QED
  BY <1>1, RunTypeCorrect, Excused, PTL
=============================================================================
