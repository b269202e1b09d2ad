---------------------------- MODULE SidecarProofs ----------------------------
(***************************************************************************)
(* What the supervision of the runtime keeps, for any number of backends,  *)
(* bootstrap tasks, restarts, commands and faults.                         *)
(***************************************************************************)
EXTENDS Sidecar, TLAPS

\* Typing, by who owns the state.
BackendsTyped == backends \in [Backends -> Process]
MainTyped     == main \in [step : MainStep, for : {"none", "expose", "restore", "exit"},
                           previous : Modes \cup {Null}]
Task          == [step : BootStep, launch : Launch \cup {Null}, child : Backends \cup {Null},
                  ok : BOOLEAN]
BootTyped     == boot \in [Tasks -> Task]
MonitorTyped  == monitor \in [step : MonitorStep, launch : Launch \cup {Null},
                              child : Backends \cup {Null}, attempt : 0..MaxRestarts]
RuntimeTyped  == runtime \in [backend : Backends \cup {Null}, launch : Launch \cup {Null},
                              postgres : BOOLEAN]
StateTyped    == /\ postgres \in BOOLEAN /\ exposure \in Modes /\ astray \in BOOLEAN
                 /\ status \in Phase
                 /\ flags \in [bootstrapping : BOOLEAN, shuttingDown : BOOLEAN]
                 /\ token \in Nat
                 /\ budget \in [commands : 0..MaxCommands, faults : 0..MaxFaults]

Typed == /\ BackendsTyped /\ MainTyped /\ BootTyped /\ MonitorTyped /\ RuntimeTyped
         /\ StateTyped

\* The main thread is about to shut the runtime down, or to start it again.
Busy == main.step \in {"drain", "restore", "start", "closed"}

\* What the main thread is doing, and what it has found out before.
MainInv ==
    /\ main.for = "expose" => main.previous \in Modes
    /\ main.step \in {"check", "poll", "takeback"} => main.for = "expose"
    /\ flags.shuttingDown => Busy
    /\ main.step \in {"backup", "restore", "start"} => ~flags.bootstrapping
    /\ main.step = "drain" /\ main.for # "exit" => ~flags.bootstrapping
    /\ main.step = "closed" => monitor.step = "none" /\ \A t \in Tasks : boot[t].step = "none"

Draining == {"drain", "prepare"}
Launched == {"launch", "await", "register"}
Working  == Draining \cup Launched \cup {"clear"}

\* One bootstrap is at work, beside one that reports its result; the latter is through
\* before the former launches anything.
TaskInv ==
    /\ \A t \in Tasks : boot[t].ok => boot[t].step \in {"clear", "report"}
    /\ \A t \in Tasks : boot[t].step \in Working => flags.bootstrapping
    /\ \A t, u \in Tasks : boot[t].step \in Working /\ boot[u].step \in Working => t = u
    /\ \A t, u \in Tasks : boot[t].step \in Launched \cup {"clear"} => boot[u].step # "report"
    /\ \A t, u \in Tasks : boot[t].step = "report" /\ boot[u].step = "report" => t = u

\* A bootstrap is at work that has launched nothing, or one that has failed.
StatusIsOld == \E t \in Tasks : \/ boot[t].step \in Draining
                                \/ boot[t].step \in {"clear", "report"} /\ ~boot[t].ok

\* A monitor leaves for a shutdown only, and before the next bootstrap launches anything.
WatchInv ==
    /\ monitor.step = "leave" => \/ flags.shuttingDown
                                 \/ \E t \in Tasks : boot[t].step \in Draining
    /\ status = "ready" /\ monitor.step \in {"none", "leave"} => Busy \/ StatusIsOld

NoFaults == budget.faults = MaxFaults

\* While nothing fails the monitor has nothing to recover, and what the runtime has
\* registered listens.
ServedInv ==
    /\ monitor.step \in {"none", "check", "leave", "inspect"}
    /\ runtime.backend # Null => /\ Listening(runtime.backend)
                                 /\ backends[runtime.backend].launch = runtime.launch
    /\ \A t \in Tasks : boot[t].step \in Launched \cup {"prepare"} => runtime.backend = Null

\* Every backend that runs has been launched with a token of its own.
TokenInv ==
    /\ \A b \in Backends : Running(b) => /\ backends[b].launch \in Launch
                                         /\ backends[b].launch.token <= token
    /\ \A t \in Tasks : boot[t].step \in Launched =>
           /\ boot[t].launch \in Launch /\ boot[t].launch.token <= token
           /\ \A b \in Backends :
                  Running(b) /\ backends[b].launch.token = boot[t].launch.token =>
                      /\ boot[t].step # "launch" /\ b = boot[t].child
                      /\ backends[b].launch = boot[t].launch
    /\ \A t \in Tasks : boot[t].step = "register" =>
           boot[t].child \in Backends /\ Listening(boot[t].child)
               /\ backends[boot[t].child].launch = boot[t].launch

\* The mode that counts: one that may yet be refused, or is to be taken back, does not.
SettledMode == IF main.step \in {"check", "takeback"} THEN main.previous ELSE exposure

\* The registered backend has been launched with the mode that counts.
InForce == /\ runtime.backend # Null /\ runtime.launch \in Launch
           /\ runtime.launch.mode = SettledMode

\* Whatever is reported ready has that mode, unless it is about to be replaced.
ModeAgrees ==
    /\ \A t \in Tasks : boot[t].step \in Launched =>
           boot[t].launch.mode = SettledMode /\ status # "failed"
    /\ \A t \in Tasks : boot[t].ok =>
           /\ status # "failed"
           /\ Busy \/ InForce \/ \E u \in Tasks : boot[u].step \in Draining
    /\ status = "ready" => Busy \/ InForce \/ StatusIsOld

ModeInv == ~astray => ModeAgrees

CalmInv == NoFaults => ServedInv /\ TokenInv /\ ModeInv

IInv == Typed /\ MainInv /\ TaskInv /\ WatchInv /\ CalmInv

-----------------------------------------------------------------------------

\* The initial states satisfy the invariant.
LEMMA InitIInv == ASSUME Init PROVE IInv
<1>1. /\ backends = [b \in Backends |-> NoProcess] /\ postgres = FALSE
      /\ exposure = DefaultMode /\ astray = FALSE
      /\ main = Opening /\ boot = [t \in Tasks |-> NoTask]
      /\ monitor = NoMonitor /\ status = "starting"
      /\ flags = [bootstrapping |-> FALSE, shuttingDown |-> FALSE]
      /\ runtime = NoRuntime /\ token = 0
      /\ budget = [commands |-> MaxCommands, faults |-> MaxFaults]
    BY DEF Init
<1>2. \A t \in Tasks : boot[t] = NoTask
    BY <1>1
<1>3. \A b \in Backends : backends[b] = NoProcess
    BY <1>1
<1>4. main.step = "start" /\ main.for = "none"
    BY <1>1 DEF Opening, MainIdle
<1>a. Typed
  <2>1. BackendsTyped
      BY <1>1 DEF BackendsTyped, Process, ProcessState, NoProcess
  <2>2. MainTyped
      BY <1>1 DEF MainTyped, Opening, MainIdle, MainStep
  <2>3. BootTyped
      BY <1>1 DEF BootTyped, Task, NoTask, BootStep
  <2>4. MonitorTyped
      BY <1>1, SidecarAssumption DEF MonitorTyped, NoMonitor, MonitorStep
  <2>5. RuntimeTyped
      BY <1>1 DEF RuntimeTyped, NoRuntime
  <2>6. StateTyped
    <3>1. /\ postgres \in BOOLEAN /\ exposure \in Modes /\ astray \in BOOLEAN
          /\ status \in Phase /\ token \in Nat
        BY <1>1, SidecarAssumption DEF Phase
    <3>2. flags \in [bootstrapping : BOOLEAN, shuttingDown : BOOLEAN]
        BY <1>1
    <3>3. budget \in [commands : 0..MaxCommands, faults : 0..MaxFaults]
        BY <1>1, SidecarAssumption
    <3> QED BY <3>1, <3>2, <3>3 DEF StateTyped
  <2> QED BY <2>1, <2>2, <2>3, <2>4, <2>5, <2>6 DEF Typed
<1>b. MainInv
    BY <1>1, <1>4 DEF MainInv, Busy
<1>c. TaskInv
    BY <1>1, <1>2 DEF TaskInv, NoTask, Working, Draining, Launched
<1>d. WatchInv
    BY <1>1 DEF WatchInv, NoMonitor
<1>e. CalmInv
  <2>1. ServedInv
      BY <1>1, <1>2 DEF ServedInv, NoMonitor, NoRuntime, NoTask, Launched
  <2>2. TokenInv
      BY <1>1, <1>2, <1>3 DEF TokenInv, Running, NoProcess, NoTask, Launched
  <2>3. ModeInv
      BY <1>1, <1>2 DEF ModeInv, ModeAgrees, NoTask, Launched
  <2> QED BY <2>1, <2>2, <2>3 DEF CalmInv
<1> QED BY <1>a, <1>b, <1>c, <1>d, <1>e DEF IInv

-----------------------------------------------------------------------------
(***************************************************************************)
(* What an assignment does to the records.                                 *)
(***************************************************************************)

\* A task takes a step.
LEMMA TaskGoes ==
    ASSUME BootTyped, NEW t \in Tasks, NEW s \in BootStep, boot' = [boot EXCEPT ![t].step = s]
    PROVE  /\ BootTyped' /\ boot'[t].step = s /\ boot'[t].launch = boot[t].launch
           /\ boot'[t].child = boot[t].child /\ boot'[t].ok = boot[t].ok
           /\ \A u \in Tasks \ {t} : boot'[u] = boot[u]
BY DEF BootTyped, Task

\* A task is given what it launches.
LEMMA TaskPrepared ==
    ASSUME BootTyped, NEW t \in Tasks, NEW s \in BootStep, NEW l \in Launch \cup {Null},
           boot' = [boot EXCEPT ![t].step = s, ![t].launch = l]
    PROVE  /\ BootTyped' /\ boot'[t].step = s /\ boot'[t].launch = l
           /\ boot'[t].child = boot[t].child /\ boot'[t].ok = boot[t].ok
           /\ \A u \in Tasks \ {t} : boot'[u] = boot[u]
BY DEF BootTyped, Task

\* A task takes a child or lets it go.
LEMMA TaskChild ==
    ASSUME BootTyped, NEW t \in Tasks, NEW s \in BootStep, NEW c \in Backends \cup {Null},
           boot' = [boot EXCEPT ![t].step = s, ![t].child = c]
    PROVE  /\ BootTyped' /\ boot'[t].step = s /\ boot'[t].child = c
           /\ boot'[t].launch = boot[t].launch /\ boot'[t].ok = boot[t].ok
           /\ \A u \in Tasks \ {t} : boot'[u] = boot[u]
BY DEF BootTyped, Task

\* A task has registered its child.
LEMMA TaskDone ==
    ASSUME BootTyped, NEW t \in Tasks, NEW s \in BootStep,
           boot' = [boot EXCEPT ![t].step = s, ![t].child = Null, ![t].ok = TRUE]
    PROVE  /\ BootTyped' /\ boot'[t].step = s /\ boot'[t].ok
           /\ \A u \in Tasks \ {t} : boot'[u] = boot[u]
BY DEF BootTyped, Task

\* A task ends.
LEMMA TaskEnds ==
    ASSUME BootTyped, NEW t \in Tasks, boot' = [boot EXCEPT ![t] = NoTask]
    PROVE  /\ BootTyped' /\ boot'[t].step = "none" /\ ~boot'[t].ok
           /\ \A u \in Tasks \ {t} : boot'[u] = boot[u]
BY DEF BootTyped, Task, NoTask, BootStep

\* A fault is spent: nothing more is promised of a run without one.
LEMMA FaultSpends ==
    ASSUME StateTyped, Fault
    PROVE  /\ budget' \in [commands : 0..MaxCommands, faults : 0..MaxFaults]
           /\ ~NoFaults'
BY SidecarAssumption DEF StateTyped, Fault, NoFaults

-----------------------------------------------------------------------------
(***************************************************************************)
(* What a step keeps by leaving alone what a part of the invariant is      *)
(* about.                                                                  *)
(***************************************************************************)

LEMMA TaskInvKept ==
    ASSUME TaskInv, boot' = boot, flags'.bootstrapping = flags.bootstrapping
    PROVE  TaskInv'
BY DEF TaskInv

LEMMA ServedKept ==
    ASSUME ServedInv, UNCHANGED <<backends, boot, monitor, runtime>>
    PROVE  ServedInv'
BY DEF ServedInv, Listening

LEMMA TokenKept ==
    ASSUME TokenInv, UNCHANGED <<backends, boot, token>>
    PROVE  TokenInv'
BY DEF TokenInv, Running, Listening

LEMMA ModeKept ==
    ASSUME ModeInv, UNCHANGED <<boot, runtime, astray, status>>, SettledMode' = SettledMode,
           Busy => Busy'
    PROVE  ModeInv'
BY DEF ModeInv, ModeAgrees, InForce, SettledMode, StatusIsOld

\* A run that has met no fault yet had met none before.
LEMMA CalmBefore ==
    ASSUME StateTyped, budget'.faults = budget.faults \/ Fault, NoFaults'
    PROVE  NoFaults /\ ~Fault
BY SidecarAssumption DEF StateTyped, Fault, NoFaults

\* A step of the main thread that touches neither the processes nor the other threads.
LEMMA MainStepKeeps ==
    ASSUME IInv, UNCHANGED <<backends, boot, monitor, runtime, token, astray, status>>,
           SettledMode' = SettledMode,
           flags'.bootstrapping = flags.bootstrapping,
           budget'.faults = budget.faults \/ Fault,
           flags.shuttingDown => flags'.shuttingDown \/ monitor.step # "leave",
           Busy => Busy'
    PROVE  BackendsTyped' /\ BootTyped' /\ MonitorTyped' /\ RuntimeTyped' /\ TaskInv'
               /\ WatchInv' /\ CalmInv'
<1>1. BackendsTyped' /\ BootTyped' /\ MonitorTyped' /\ RuntimeTyped'
    BY DEF IInv, Typed, BackendsTyped, BootTyped, MonitorTyped, RuntimeTyped
<1>2. TaskInv'
    BY TaskInvKept DEF IInv
<1>3. WatchInv'
    BY DEF IInv, WatchInv, StatusIsOld
<1>4. CalmInv'
  <2> SUFFICES ASSUME NoFaults' PROVE (ServedInv /\ TokenInv /\ ModeInv)'
      BY DEF CalmInv
  <2>1. ServedInv /\ TokenInv /\ ModeInv
      BY CalmBefore DEF IInv, Typed, CalmInv
  <2> QED BY <2>1, ServedKept, TokenKept, ModeKept
<1> QED BY <1>1, <1>2, <1>3, <1>4

\* What a command, or the exit, spends.
LEMMA CommandSpends ==
    ASSUME StateTyped, Command
    PROVE  /\ main.step = "idle"
           /\ budget' \in [commands : 0..MaxCommands, faults : 0..MaxFaults]
           /\ budget'.faults = budget.faults
BY SidecarAssumption DEF StateTyped, Command

\* While the main thread is idle, waits or takes a backup, nothing shuts down.
LEMMA NotBusyNotShutting ==
    ASSUME IInv, main.step \in {"idle", "check", "poll", "takeback", "backup"}
    PROVE  ~Busy /\ ~flags.shuttingDown
BY DEF IInv, MainInv, Busy

-----------------------------------------------------------------------------
(***************************************************************************)
(* The steps of the main thread.                                           *)
(***************************************************************************)

\* A bootstrap that is started holds back every promise about the one before.
LEMMA StartKeeps ==
    ASSUME IInv, StartRuntimeBootstrap, ~flags.bootstrapping,
           UNCHANGED <<backends, exposure, astray, monitor, runtime, token>>,
           budget'.faults = budget.faults \/ Fault
    PROVE  /\ BackendsTyped' /\ BootTyped' /\ MonitorTyped' /\ RuntimeTyped'
           /\ TaskInv' /\ WatchInv' /\ CalmInv'
           /\ flags' = [bootstrapping |-> TRUE, shuttingDown |-> FALSE]
           /\ status' = "starting"
<1>1. PICK t \in FreeTask : /\ flags' = [bootstrapping |-> TRUE, shuttingDown |-> FALSE]
                            /\ status' = "starting"
                            /\ boot' = [boot EXCEPT ![t].step = "drain"]
    BY DEF StartRuntimeBootstrap
<1>2. t \in Tasks /\ boot[t].step = "none"
    BY DEF FreeTask
<1>3. /\ BootTyped' /\ boot'[t].step = "drain" /\ boot'[t].ok = boot[t].ok
      /\ boot'[t].launch = boot[t].launch /\ \A u \in Tasks \ {t} : boot'[u] = boot[u]
    BY <1>1, <1>2, TaskGoes DEF IInv, Typed, BootStep
<1>4. /\ ~boot'[t].ok /\ \A u \in Tasks : boot[u].step \notin Working
    BY <1>2, <1>3 DEF IInv, TaskInv
<1>5. BackendsTyped' /\ MonitorTyped' /\ RuntimeTyped'
    BY DEF IInv, Typed, BackendsTyped, MonitorTyped, RuntimeTyped
<1>6. \A u \in Tasks : boot'[u].step \in Working => u = t
    BY <1>3, <1>4
<1>7. TaskInv'
    BY <1>1, <1>3, <1>4, <1>6 DEF IInv, TaskInv, Working, Launched
<1>8. WatchInv'
    BY <1>1, <1>2, <1>3 DEF IInv, WatchInv, Draining
<1>9. CalmInv'
  <2> SUFFICES ASSUME NoFaults' PROVE (ServedInv /\ TokenInv /\ ModeInv)'
      BY DEF CalmInv
  <2>1. ServedInv /\ TokenInv /\ ModeInv
      BY CalmBefore DEF IInv, Typed, CalmInv
  <2>2. \A u \in Tasks : boot'[u].step \notin Launched \cup {"prepare"}
      BY <1>3, <1>6 DEF Working, Launched, Draining
  <2>3. ServedInv'
      BY <2>1, <2>2 DEF ServedInv, Listening
  <2>4. TokenInv'
      BY <2>1, <2>2 DEF TokenInv, Running, Launched
  <2>5. ModeInv'
      BY <1>1, <1>2, <1>3, <2>2 DEF ModeInv, ModeAgrees, Draining
  <2> QED BY <2>3, <2>4, <2>5
<1> QED BY <1>1, <1>3, <1>5, <1>7, <1>8, <1>9

LEMMA RetryKeeps == ASSUME IInv, RetryBootstrap PROVE IInv'
<1>1. /\ Command /\ ~flags.bootstrapping /\ StartRuntimeBootstrap
      /\ UNCHANGED <<backends, postgres, exposure, astray, main, monitor, runtime, token>>
    BY DEF RetryBootstrap, processes, settings
<1>2. /\ main.step = "idle" /\ budget'.faults = budget.faults
      /\ budget' \in [commands : 0..MaxCommands, faults : 0..MaxFaults]
    BY <1>1, CommandSpends DEF IInv, Typed
<1>3. /\ BackendsTyped' /\ BootTyped' /\ MonitorTyped' /\ RuntimeTyped'
      /\ TaskInv' /\ WatchInv' /\ CalmInv'
      /\ flags' = [bootstrapping |-> TRUE, shuttingDown |-> FALSE] /\ status' = "starting"
    BY <1>1, <1>2, StartKeeps
<1>4. MainTyped' /\ StateTyped'
    BY <1>1, <1>2, <1>3 DEF IInv, Typed, MainTyped, StateTyped, Phase
<1>5. MainInv'
    BY <1>1, <1>2, <1>3 DEF IInv, MainInv
<1> QED BY <1>3, <1>4, <1>5 DEF IInv, Typed

LEMMA MainStartKeeps == ASSUME IInv, MainStart PROVE IInv'
<1>1. /\ main.step = "start" /\ StartRuntimeBootstrap
      /\ main' = IF main.for = "expose" THEN [main EXCEPT !.step = "poll"] ELSE MainIdle
      /\ UNCHANGED <<backends, postgres, exposure, astray, monitor, runtime, token, budget>>
    BY DEF MainStart, processes, settings
<1>2. ~flags.bootstrapping
    BY <1>1 DEF IInv, MainInv
<1>3. /\ BackendsTyped' /\ BootTyped' /\ MonitorTyped' /\ RuntimeTyped'
      /\ TaskInv' /\ WatchInv' /\ CalmInv'
      /\ flags' = [bootstrapping |-> TRUE, shuttingDown |-> FALSE] /\ status' = "starting"
    BY <1>1, <1>2, StartKeeps
<1>4. /\ MainTyped' /\ main'.step \in {"poll", "idle"} /\ main'.for \in {"expose", "none"}
      /\ main'.for = "expose" => main'.previous = main.previous /\ main.for = "expose"
      /\ main'.step = "poll" => main'.for = "expose"
  <2>1. CASE main.for = "expose"
      BY <1>1, <2>1 DEF IInv, Typed, MainTyped, MainStep
  <2>2. CASE main.for # "expose"
      BY <1>1, <2>2 DEF MainTyped, MainStep, MainIdle
  <2> QED BY <2>1, <2>2
<1>5. StateTyped'
    BY <1>1, <1>3 DEF IInv, Typed, StateTyped, Phase
<1>6. MainInv'
    BY <1>3, <1>4 DEF IInv, MainInv
<1> QED BY <1>3, <1>4, <1>5, <1>6 DEF IInv, Typed

\* The main thread takes a step.
LEMMA MainGoes ==
    ASSUME MainTyped, NEW s \in MainStep, main' = [main EXCEPT !.step = s]
    PROVE  MainTyped' /\ main'.step = s /\ main'.for = main.for /\ main'.previous = main.previous
BY DEF MainTyped

\* The main thread takes a step for a purpose.
LEMMA MainGoesFor ==
    ASSUME MainTyped, NEW s \in MainStep, NEW f \in {"restore", "exit"},
           main' = [main EXCEPT !.step = s, !.for = f]
    PROVE  MainTyped' /\ main'.step = s /\ main'.for = f
BY DEF MainTyped

\* The main thread is through with a command.
LEMMA MainRests ==
    ASSUME main' = MainIdle
    PROVE  MainTyped' /\ main'.step = "idle" /\ main'.for = "none"
BY DEF MainTyped, MainIdle, MainStep

LEMMA ApplyExposureKeeps ==
    ASSUME IInv, NEW mode \in Modes, ApplyExposureMode(mode) PROVE IInv'
<1>1. /\ Command /\ exposure' = mode
      /\ main' = [step |-> "check", for |-> "expose", previous |-> exposure]
      /\ UNCHANGED <<backends, postgres, astray, boot, monitor, status, flags, runtime, token>>
    BY DEF ApplyExposureMode, processes
<1>2. /\ main.step = "idle" /\ budget'.faults = budget.faults
      /\ budget' \in [commands : 0..MaxCommands, faults : 0..MaxFaults]
    BY <1>1, CommandSpends DEF IInv, Typed
<1>3. ~Busy /\ ~flags.shuttingDown
    BY <1>2, NotBusyNotShutting
<1>4. exposure \in Modes
    BY DEF IInv, Typed, StateTyped
<1>5. /\ MainTyped' /\ main'.step = "check" /\ main'.for = "expose"
      /\ main'.previous = exposure
    BY <1>1, <1>4 DEF MainTyped, MainStep
<1>6. SettledMode' = SettledMode
    BY <1>2, <1>5 DEF SettledMode
<1>7. /\ BackendsTyped' /\ BootTyped' /\ MonitorTyped' /\ RuntimeTyped'
      /\ TaskInv' /\ WatchInv' /\ CalmInv'
    BY <1>1, <1>2, <1>3, <1>6, MainStepKeeps
<1>8. StateTyped'
    BY <1>1, <1>2 DEF IInv, Typed, StateTyped
<1>9. MainInv'
    BY <1>1, <1>3, <1>4, <1>5 DEF MainInv
<1> QED BY <1>5, <1>7, <1>8, <1>9 DEF IInv, Typed

LEMMA ExposureCheckedKeeps == ASSUME IInv, ExposureChecked PROVE IInv'
<1>1. /\ main.step = "check"
      /\ UNCHANGED <<backends, postgres, exposure, astray, boot, monitor, status, runtime, token,
                     budget>>
    BY DEF ExposureChecked, processes, settings
<1>2. ~Busy /\ ~flags.shuttingDown
    BY <1>1, NotBusyNotShutting
<1>3. main.for = "expose" /\ main.previous \in Modes
    BY <1>1 DEF IInv, MainInv
<1>4. CASE flags.bootstrapping
  <2>1. main' = [main EXCEPT !.step = "takeback"] /\ UNCHANGED flags
      BY <1>4 DEF ExposureChecked
  <2>2. /\ MainTyped' /\ main'.step = "takeback" /\ main'.for = main.for
        /\ main'.previous = main.previous
      BY <2>1, MainGoes DEF IInv, Typed, MainStep
  <2>3. SettledMode' = SettledMode
      BY <1>1, <2>2 DEF SettledMode
  <2>4. /\ BackendsTyped' /\ BootTyped' /\ MonitorTyped' /\ RuntimeTyped'
        /\ TaskInv' /\ WatchInv' /\ CalmInv'
      BY <1>1, <1>2, <2>1, <2>3, MainStepKeeps
  <2>5. StateTyped'
      BY <1>1, <2>1 DEF IInv, Typed, StateTyped
  <2>6. MainInv'
      BY <1>2, <1>3, <2>1, <2>2 DEF MainInv
  <2> QED BY <2>2, <2>4, <2>5, <2>6 DEF IInv, Typed
<1>5. CASE ~flags.bootstrapping
  <2>1. /\ main' = [main EXCEPT !.step = "drain"]
        /\ flags' = [flags EXCEPT !.shuttingDown = TRUE]
      BY <1>5 DEF ExposureChecked
  <2>2. /\ MainTyped' /\ main'.step = "drain" /\ main'.for = main.for
        /\ main'.previous = main.previous
      BY <2>1, MainGoes DEF IInv, Typed, MainStep
  <2>3. /\ flags' \in [bootstrapping : BOOLEAN, shuttingDown : BOOLEAN]
        /\ flags'.bootstrapping = flags.bootstrapping
      BY <2>1 DEF IInv, Typed, StateTyped
  <2>4. StateTyped'
      BY <1>1, <2>3 DEF IInv, Typed, StateTyped
  <2>5. BackendsTyped' /\ BootTyped' /\ MonitorTyped' /\ RuntimeTyped'
      BY <1>1 DEF IInv, Typed, BackendsTyped, BootTyped, MonitorTyped, RuntimeTyped
  <2>6. Busy'
      BY <2>2 DEF Busy
  <2>7. MainInv'
      BY <1>3, <1>5, <2>2, <2>3, <2>6 DEF IInv, MainInv
  <2>8. TaskInv'
      BY <1>1, <2>3, TaskInvKept DEF IInv
  <2>9. WatchInv'
      BY <1>1, <1>2, <2>6 DEF IInv, WatchInv
  <2>10. CalmInv'
    <3> SUFFICES ASSUME NoFaults' PROVE (ServedInv /\ TokenInv /\ ModeInv)'
        BY DEF CalmInv
    <3>1. ServedInv /\ TokenInv /\ ModeInv
        BY <1>1, CalmBefore DEF IInv, Typed, CalmInv
    <3>2. \A t \in Tasks : boot[t].step \notin Launched
        BY <1>5 DEF IInv, TaskInv, Working
    <3>3. ModeInv'
        BY <1>1, <2>6, <3>1, <3>2 DEF ModeInv, ModeAgrees
    <3> QED BY <1>1, <3>1, <3>3, ServedKept, TokenKept
  <2> QED BY <2>2, <2>4, <2>5, <2>7, <2>8, <2>9, <2>10 DEF IInv, Typed
<1> QED BY <1>4, <1>5

LEMMA TakenBackKeeps == ASSUME IInv, ExposureTakenBack PROVE IInv'
<1>1. /\ main.step = "takeback" /\ exposure' = main.previous /\ main' = MainIdle
      /\ UNCHANGED <<backends, postgres, astray, boot, monitor, status, flags, runtime, token,
                     budget>>
    BY DEF ExposureTakenBack, processes
<1>2. ~Busy /\ ~flags.shuttingDown
    BY <1>1, NotBusyNotShutting
<1>3. MainTyped' /\ main'.step = "idle" /\ main'.for = "none"
    BY <1>1, MainRests
<1>4. SettledMode' = SettledMode
    BY <1>1, <1>3 DEF SettledMode
<1>5. /\ BackendsTyped' /\ BootTyped' /\ MonitorTyped' /\ RuntimeTyped'
      /\ TaskInv' /\ WatchInv' /\ CalmInv'
    BY <1>1, <1>2, <1>4, MainStepKeeps
<1>6. main.previous \in Modes
    BY <1>1 DEF IInv, MainInv
<1>7. StateTyped'
    BY <1>1, <1>6 DEF IInv, Typed, StateTyped
<1>8. MainInv'
    BY <1>1, <1>2, <1>3 DEF IInv, MainInv
<1> QED BY <1>3, <1>5, <1>7, <1>8 DEF IInv, Typed

LEMMA SetExposureKeeps == ASSUME IInv, NEW mode \in Modes, SetExposureMode(mode) PROVE IInv'
<1>1. /\ Command /\ exposure' = mode /\ astray' = (astray \/ mode # exposure)
      /\ UNCHANGED <<backends, postgres, main, boot, monitor, status, flags, runtime, token>>
    BY DEF SetExposureMode, processes
<1>2. /\ main.step = "idle" /\ budget'.faults = budget.faults
      /\ budget' \in [commands : 0..MaxCommands, faults : 0..MaxFaults]
    BY <1>1, CommandSpends DEF IInv, Typed
<1>3. /\ MainTyped' /\ BackendsTyped' /\ BootTyped' /\ MonitorTyped' /\ RuntimeTyped'
    BY <1>1 DEF IInv, Typed, MainTyped, BackendsTyped, BootTyped, MonitorTyped, RuntimeTyped
<1>4. StateTyped'
  <2>1. astray' \in BOOLEAN
      BY <1>1
  <2> QED BY <1>1, <1>2, <2>1 DEF IInv, Typed, StateTyped
<1>5. MainInv' /\ TaskInv' /\ WatchInv'
    BY <1>1, TaskInvKept DEF IInv, MainInv, WatchInv, StatusIsOld, Busy
<1>6. CalmInv'
  <2> SUFFICES ASSUME NoFaults' PROVE (ServedInv /\ TokenInv /\ ModeInv)'
      BY DEF CalmInv
  <2>1. ServedInv /\ TokenInv /\ ModeInv
      BY <1>2, CalmBefore DEF IInv, Typed, CalmInv
  <2>2. ModeInv'
    <3>1. CASE mode # exposure
        BY <1>1, <3>1 DEF ModeInv
    <3>2. CASE mode = exposure
      <4>1. SettledMode' = SettledMode /\ (Busy => Busy')
          BY <1>1, <3>2 DEF SettledMode, Busy
      <4>2. CASE astray
          BY <1>1, <4>2 DEF ModeInv
      <4>3. CASE ~astray
        <5>1. astray' = FALSE /\ astray = FALSE
            BY <1>1, <3>2, <4>3 DEF IInv, Typed, StateTyped
        <5> QED BY <1>1, <2>1, <4>1, <5>1, ModeKept
      <4> QED BY <4>2, <4>3
    <3> QED BY <3>1, <3>2
  <2> QED BY <1>1, <2>1, <2>2, ServedKept, TokenKept
<1> QED BY <1>3, <1>4, <1>5, <1>6 DEF IInv, Typed

LEMMA RestoreBackupKeeps == ASSUME IInv, RestoreBackup PROVE IInv'
<1>1. /\ Command /\ ~flags.bootstrapping /\ status' = "recovering"
      /\ main' = [main EXCEPT !.step = "backup", !.for = "restore"]
      /\ UNCHANGED <<backends, postgres, exposure, astray, boot, monitor, flags, runtime, token>>
    BY DEF RestoreBackup, processes, settings
<1>2. /\ main.step = "idle" /\ budget'.faults = budget.faults
      /\ budget' \in [commands : 0..MaxCommands, faults : 0..MaxFaults]
    BY <1>1, CommandSpends DEF IInv, Typed
<1>3. ~Busy /\ ~flags.shuttingDown
    BY <1>2, NotBusyNotShutting
<1>4. MainTyped' /\ main'.step = "backup" /\ main'.for = "restore"
    BY <1>1, MainGoesFor DEF IInv, Typed, MainStep
<1>5. BackendsTyped' /\ BootTyped' /\ MonitorTyped' /\ RuntimeTyped'
    BY <1>1 DEF IInv, Typed, BackendsTyped, BootTyped, MonitorTyped, RuntimeTyped
<1>6. StateTyped'
    BY <1>1, <1>2 DEF IInv, Typed, StateTyped, Phase
<1>7. MainInv'
    BY <1>1, <1>3, <1>4 DEF IInv, MainInv
<1>8. TaskInv'
    BY <1>1, TaskInvKept DEF IInv
<1>9. WatchInv'
    BY <1>1 DEF IInv, WatchInv
<1>10. CalmInv'
  <2> SUFFICES ASSUME NoFaults' PROVE (ServedInv /\ TokenInv /\ ModeInv)'
      BY DEF CalmInv
  <2>1. ServedInv /\ TokenInv /\ ModeInv
      BY <1>2, CalmBefore DEF IInv, Typed, CalmInv
  <2>2. SettledMode' = SettledMode
      BY <1>1, <1>2, <1>4 DEF SettledMode
  <2>3. ModeInv'
      BY <1>1, <1>3, <2>1, <2>2 DEF ModeInv, ModeAgrees, InForce
  <2> QED BY <1>1, <2>1, <2>3, ServedKept, TokenKept
<1> QED BY <1>4, <1>5, <1>6, <1>7, <1>8, <1>9, <1>10 DEF IInv, Typed

LEMMA RestoreCheckedKeeps == ASSUME IInv, RestoreChecked PROVE IInv'
<1>1. /\ main.step = "backup" /\ main' = [main EXCEPT !.step = "drain"]
      /\ flags' = [flags EXCEPT !.shuttingDown = TRUE]
      /\ UNCHANGED <<backends, postgres, exposure, astray, boot, monitor, status, runtime,
                     token, budget>>
    BY DEF RestoreChecked, processes, settings
<1>2. /\ flags' \in [bootstrapping : BOOLEAN, shuttingDown : BOOLEAN]
      /\ flags'.bootstrapping = flags.bootstrapping /\ flags'.shuttingDown
    BY <1>1 DEF IInv, Typed, StateTyped
<1>3. /\ MainTyped' /\ main'.step = "drain" /\ main'.for = main.for
      /\ main'.previous = main.previous
    BY <1>1, MainGoes DEF IInv, Typed, MainStep
<1>4. Busy'
    BY <1>3 DEF Busy
<1>5. SettledMode' = SettledMode
    BY <1>1, <1>3 DEF SettledMode
<1>6. /\ BackendsTyped' /\ BootTyped' /\ MonitorTyped' /\ RuntimeTyped'
      /\ TaskInv' /\ WatchInv' /\ CalmInv'
    BY <1>1, <1>2, <1>4, <1>5, MainStepKeeps
<1>7. StateTyped'
    BY <1>1, <1>2 DEF IInv, Typed, StateTyped
<1>8. MainInv'
    BY <1>1, <1>2, <1>3, <1>4 DEF IInv, MainInv
<1> QED BY <1>3, <1>6, <1>7, <1>8 DEF IInv, Typed

LEMMA RestoreRefusedKeeps == ASSUME IInv, RestoreRefused PROVE IInv'
<1>1. /\ main.step = "backup" /\ Fault /\ main' = MainIdle
      /\ UNCHANGED <<backends, postgres, exposure, astray, boot, monitor, status, flags,
                     runtime, token>>
    BY DEF RestoreRefused, processes, settings
<1>2. ~Busy /\ ~flags.shuttingDown
    BY <1>1, NotBusyNotShutting
<1>3. MainTyped' /\ main'.step = "idle" /\ main'.for = "none"
    BY <1>1, MainRests
<1>4. SettledMode' = SettledMode
    BY <1>1, <1>3 DEF SettledMode
<1>5. /\ BackendsTyped' /\ BootTyped' /\ MonitorTyped' /\ RuntimeTyped'
      /\ TaskInv' /\ WatchInv' /\ CalmInv'
    BY <1>1, <1>2, <1>4, MainStepKeeps
<1>6. StateTyped'
    BY <1>1, FaultSpends DEF IInv, Typed, StateTyped
<1>7. MainInv'
    BY <1>1, <1>2, <1>3 DEF IInv, MainInv
<1> QED BY <1>3, <1>5, <1>6, <1>7 DEF IInv, Typed

LEMMA ExitKeeps == ASSUME IInv, ExitApplication PROVE IInv'
<1>1. /\ Command /\ main' = [main EXCEPT !.step = "drain", !.for = "exit"]
      /\ flags' = [flags EXCEPT !.shuttingDown = TRUE]
      /\ UNCHANGED <<backends, postgres, exposure, astray, boot, monitor, status, runtime, token>>
    BY DEF ExitApplication, processes, settings
<1>2. /\ main.step = "idle" /\ budget'.faults = budget.faults
      /\ budget' \in [commands : 0..MaxCommands, faults : 0..MaxFaults]
    BY <1>1, CommandSpends DEF IInv, Typed
<1>3. /\ flags' \in [bootstrapping : BOOLEAN, shuttingDown : BOOLEAN]
      /\ flags'.bootstrapping = flags.bootstrapping /\ flags'.shuttingDown
    BY <1>1 DEF IInv, Typed, StateTyped
<1>4. MainTyped' /\ main'.step = "drain" /\ main'.for = "exit"
    BY <1>1, MainGoesFor DEF IInv, Typed, MainStep
<1>5. Busy'
    BY <1>4 DEF Busy
<1>6. SettledMode' = SettledMode
    BY <1>1, <1>2, <1>4 DEF SettledMode
<1>7. /\ BackendsTyped' /\ BootTyped' /\ MonitorTyped' /\ RuntimeTyped'
      /\ TaskInv' /\ WatchInv' /\ CalmInv'
    BY <1>1, <1>2, <1>3, <1>5, <1>6, MainStepKeeps
<1>8. StateTyped'
    BY <1>1, <1>2, <1>3 DEF IInv, Typed, StateTyped
<1>9. MainInv'
    BY <1>4, <1>5 DEF IInv, MainInv
<1> QED BY <1>4, <1>7, <1>8, <1>9 DEF IInv, Typed

LEMMA PollReadyKeeps == ASSUME IInv, PollReady PROVE IInv'
<1>1. /\ main.step = "poll" /\ main' = MainIdle
      /\ UNCHANGED <<backends, postgres, exposure, astray, boot, monitor, status, flags,
                     runtime, token,
                     budget>>
    BY DEF PollReady, processes, settings
<1>2. ~Busy /\ ~flags.shuttingDown
    BY <1>1, NotBusyNotShutting
<1>3. MainTyped' /\ main'.step = "idle" /\ main'.for = "none"
    BY <1>1, MainRests
<1>4. SettledMode' = SettledMode
    BY <1>1, <1>3 DEF SettledMode
<1>5. /\ BackendsTyped' /\ BootTyped' /\ MonitorTyped' /\ RuntimeTyped'
      /\ TaskInv' /\ WatchInv' /\ CalmInv'
    BY <1>1, <1>2, <1>4, MainStepKeeps
<1>6. StateTyped'
    BY <1>1 DEF IInv, Typed, StateTyped
<1>7. MainInv'
    BY <1>1, <1>2, <1>3 DEF IInv, MainInv
<1> QED BY <1>3, <1>5, <1>6, <1>7 DEF IInv, Typed

LEMMA PollFailedKeeps == ASSUME IInv, PollFailed PROVE IInv'
<1>1. /\ main.step = "poll" /\ main' = [main EXCEPT !.step = "takeback"]
      /\ \/ status = "failed" /\ UNCHANGED budget
         \/ Fault
      /\ UNCHANGED <<backends, postgres, exposure, astray, boot, monitor, status, flags, runtime,
                     token>>
    BY DEF PollFailed, processes, settings
<1>2. ~Busy /\ ~flags.shuttingDown
    BY <1>1, NotBusyNotShutting
<1>3. /\ MainTyped' /\ main'.step = "takeback" /\ main'.for = main.for
      /\ main'.previous = main.previous
    BY <1>1, MainGoes DEF IInv, Typed, MainStep
<1>4. BackendsTyped' /\ BootTyped' /\ MonitorTyped' /\ RuntimeTyped'
    BY <1>1 DEF IInv, Typed, BackendsTyped, BootTyped, MonitorTyped, RuntimeTyped
<1>5. StateTyped'
    BY <1>1, FaultSpends DEF IInv, Typed, StateTyped
<1>6. MainInv'
    BY <1>1, <1>2, <1>3 DEF IInv, MainInv
<1>7. TaskInv'
    BY <1>1, TaskInvKept DEF IInv
<1>8. WatchInv'
    BY <1>1, <1>2 DEF IInv, WatchInv, StatusIsOld
<1>9. CalmInv'
  <2> SUFFICES ASSUME NoFaults' PROVE (ServedInv /\ TokenInv /\ ModeInv)'
      BY DEF CalmInv
  <2>1. status = "failed" /\ ServedInv /\ TokenInv /\ ModeInv
      BY <1>1, CalmBefore DEF IInv, Typed, CalmInv
  <2>2. ModeInv'
      BY <1>1, <2>1 DEF ModeInv, ModeAgrees
  <2> QED BY <1>1, <2>1, <2>2, ServedKept, TokenKept
<1> QED BY <1>3, <1>4, <1>5, <1>6, <1>7, <1>8, <1>9 DEF IInv, Typed

\* A backend that runs has been left alone, unless it is started in this step.
Spared == \A b \in Backends : Running(b)' => Running(b) /\ backends'[b] = backends[b]

\* What is terminated is the registered backend, and nothing else.
LEMMA TerminatedSpares ==
    ASSUME BackendsTyped, backends' = Terminated
    PROVE  /\ BackendsTyped' /\ Spared
           /\ \A b \in Backends : b # runtime.backend => backends'[b] = backends[b]
<1>1. CASE runtime.backend # Null /\ Running(runtime.backend)
  <2>1. backends' = [backends EXCEPT ![runtime.backend] = Exit(runtime.backend)]
      BY <1>1 DEF Terminated
  <2>2. \A b \in Backends : Exit(b) \in Process /\ Exit(b).state = "exited"
      BY DEF Exit, BackendsTyped, Process, ProcessState
  <2>3. BackendsTyped' /\ \A b \in Backends : b # runtime.backend => backends'[b] = backends[b]
      BY <2>1, <2>2 DEF BackendsTyped
  <2>4. runtime.backend \in Backends => backends'[runtime.backend].state = "exited"
      BY <2>1, <2>2 DEF BackendsTyped
  <2> QED BY <2>3, <2>4 DEF Spared, Running
<1>2. CASE ~(runtime.backend # Null /\ Running(runtime.backend))
  <2>1. backends' = backends
      BY <1>2 DEF Terminated
  <2> QED BY <2>1 DEF Spared, Running, BackendsTyped
<1> QED BY <1>1, <1>2

\* The shell that ends leaves only processes behind.
LEMMA ShellEndsKeeps ==
    ASSUME IInv, ShellEnds, BackendsTyped', StateTyped', Spared, token' = token,
           budget'.faults = budget.faults \/ Fault
    PROVE  IInv'
<1>1. /\ main' = [MainIdle EXCEPT !.step = "closed"] /\ boot' = [t \in Tasks |-> NoTask]
      /\ monitor' = NoMonitor /\ runtime' = NoRuntime
    BY DEF ShellEnds
<1>2. MainTyped' /\ main'.step = "closed" /\ main'.for = "none"
    BY <1>1 DEF MainTyped, MainIdle, MainStep
<1>3. BootTyped' /\ \A t \in Tasks : boot'[t].step = "none" /\ ~boot'[t].ok
    BY <1>1 DEF BootTyped, Task, NoTask, BootStep
<1>4. MonitorTyped' /\ monitor'.step = "none"
    BY <1>1, SidecarAssumption DEF MonitorTyped, NoMonitor, MonitorStep
<1>5. RuntimeTyped' /\ runtime'.backend = Null
    BY <1>1 DEF RuntimeTyped, NoRuntime
<1>6. Busy'
    BY <1>2 DEF Busy
<1>7. MainInv'
    BY <1>2, <1>3, <1>4, <1>6 DEF MainInv
<1>8. TaskInv'
    BY <1>3 DEF TaskInv, Working, Launched, Draining
<1>9. WatchInv'
    BY <1>4, <1>6 DEF WatchInv
<1>10. CalmInv'
  <2> SUFFICES ASSUME NoFaults' PROVE (ServedInv /\ TokenInv /\ ModeInv)'
      BY DEF CalmInv
  <2>1. TokenInv
      BY CalmBefore DEF IInv, Typed, CalmInv
  <2>2. ServedInv'
      BY <1>3, <1>4, <1>5 DEF ServedInv, Launched
  <2>3. TokenInv'
      BY <1>3, <2>1 DEF TokenInv, Launched, Spared
  <2>4. ModeInv'
      BY <1>3, <1>6 DEF ModeInv, ModeAgrees, Launched
  <2> QED BY <2>2, <2>3, <2>4
<1> QED BY <1>2, <1>3, <1>4, <1>5, <1>7, <1>8, <1>9, <1>10 DEF IInv, Typed

\* Stopping PostgreSQL, or failing to.
LEMMA PostgresTyped ==
    ASSUME StateTyped, (PostgresStopped /\ UNCHANGED budget) \/ PostgresKept
    PROVE  /\ postgres' \in BOOLEAN
           /\ budget' \in [commands : 0..MaxCommands, faults : 0..MaxFaults]
           /\ budget'.faults = budget.faults \/ Fault
<1>1. CASE PostgresStopped /\ UNCHANGED budget
  <2>1. postgres' \in BOOLEAN
    <3>1. postgres' = (postgres /\ ~runtime.postgres)
        BY <1>1 DEF PostgresStopped
    <3>2. CASE postgres /\ ~runtime.postgres
        BY <3>1, <3>2
    <3>3. CASE ~(postgres /\ ~runtime.postgres)
        BY <3>1, <3>3
    <3> QED BY <3>2, <3>3
  <2> QED BY <1>1, <2>1 DEF StateTyped
<1>2. CASE PostgresKept
    BY <1>2, FaultSpends DEF PostgresKept, StateTyped
<1> QED BY <1>1, <1>2

LEMMA MainDrainKeeps == ASSUME IInv, MainDrain PROVE IInv'
<1>1. /\ main.step = "drain" /\ backends' = Terminated
      /\ (PostgresStopped /\ UNCHANGED budget) \/ PostgresKept
      /\ UNCHANGED <<exposure, astray, status, flags, token>>
    BY DEF MainDrain, settings
<1>2. /\ BackendsTyped' /\ Spared
      /\ \A b \in Backends : b # runtime.backend => backends'[b] = backends[b]
    BY <1>1, TerminatedSpares DEF IInv, Typed
<1>3. /\ postgres' \in BOOLEAN
      /\ budget'.faults = budget.faults \/ Fault
      /\ budget' \in [commands : 0..MaxCommands, faults : 0..MaxFaults]
    BY <1>1, PostgresTyped DEF IInv, Typed
<1>4. StateTyped'
  <2>1. /\ exposure' \in Modes /\ astray' \in BOOLEAN /\ status' \in Phase /\ token' \in Nat
        /\ flags' \in [bootstrapping : BOOLEAN, shuttingDown : BOOLEAN]
      BY <1>1 DEF IInv, Typed, StateTyped
  <2>2. /\ postgres' \in BOOLEAN
        /\ budget' \in [commands : 0..MaxCommands, faults : 0..MaxFaults]
      BY <1>3
  <2> QED BY <2>1, <2>2 DEF StateTyped
<1>5. CASE main.for = "exit" /\ ShellEnds
    BY <1>1, <1>2, <1>3, <1>4, <1>5, ShellEndsKeeps
<1>6. CASE /\ main.for # "exit" /\ runtime' = NoRuntime /\ UNCHANGED <<boot, monitor>>
           /\ main' = [main EXCEPT !.step = IF main.for = "restore" THEN "restore" ELSE "start"]
  <2>1. /\ MainTyped' /\ main'.step \in {"restore", "start"} /\ main'.for = main.for
        /\ main'.previous = main.previous
      BY <1>6, MainGoes DEF IInv, Typed, MainStep
  <2>2. Busy'
      BY <2>1 DEF Busy
  <2>3. BootTyped' /\ MonitorTyped'
      BY <1>6 DEF IInv, Typed, BootTyped, MonitorTyped
  <2>4. RuntimeTyped' /\ runtime'.backend = Null
      BY <1>6 DEF RuntimeTyped, NoRuntime
  <2>5. MainInv'
      BY <1>1, <1>6, <2>1, <2>2 DEF IInv, MainInv
  <2>6. TaskInv'
      BY <1>1, <1>6, TaskInvKept DEF IInv
  <2>7. WatchInv'
      BY <1>1, <1>6, <2>2 DEF IInv, WatchInv
  <2>8. CalmInv'
    <3> SUFFICES ASSUME NoFaults' PROVE (ServedInv /\ TokenInv /\ ModeInv)'
        BY DEF CalmInv
    <3>1. ServedInv /\ TokenInv /\ ModeInv
        BY <1>3, CalmBefore DEF IInv, Typed, CalmInv
    <3>2. ServedInv'
        BY <1>6, <2>4, <3>1 DEF ServedInv
    <3>3. TokenInv'
      <4>1. \A t \in Tasks : boot[t].step = "register" => runtime.backend = Null
          BY <3>1 DEF ServedInv, Launched
      <4>2. \A t \in Tasks : boot[t].step = "register" => backends'[boot[t].child]
                                                            = backends[boot[t].child]
          BY <1>2, <3>1, <4>1, SidecarAssumption DEF TokenInv
      <4> QED BY <1>1, <1>2, <1>6, <3>1, <4>2 DEF TokenInv, Spared, Listening
    <3>4. ModeInv'
      <4>1. SettledMode' = SettledMode
          BY <1>1, <2>1 DEF SettledMode
      <4> QED BY <1>1, <1>6, <2>2, <3>1, <4>1 DEF ModeInv, ModeAgrees
    <3> QED BY <3>2, <3>3, <3>4
  <2> QED BY <1>2, <1>4, <2>1, <2>3, <2>4, <2>5, <2>6, <2>7, <2>8 DEF IInv, Typed
<1> QED BY <1>5, <1>6 DEF MainDrain

LEMMA RestoreAppliedKeeps == ASSUME IInv, RestoreApplied PROVE IInv'
<1>1. /\ main.step = "restore" /\ main' = [main EXCEPT !.step = "start"]
      /\ \/ postgres' = FALSE /\ UNCHANGED budget
         \/ postgres' = TRUE /\ Fault
      /\ UNCHANGED <<backends, exposure, astray, boot, monitor, status, flags, runtime, token>>
    BY DEF RestoreApplied, settings
<1>2. /\ postgres' \in BOOLEAN
      /\ budget'.faults = budget.faults \/ Fault
      /\ budget' \in [commands : 0..MaxCommands, faults : 0..MaxFaults]
    BY <1>1, FaultSpends DEF IInv, Typed, StateTyped
<1>3. /\ MainTyped' /\ main'.step = "start" /\ main'.for = main.for
      /\ main'.previous = main.previous
    BY <1>1, MainGoes DEF IInv, Typed, MainStep
<1>4. Busy'
    BY <1>3 DEF Busy
<1>5. SettledMode' = SettledMode
    BY <1>1, <1>3 DEF SettledMode
<1>6. /\ BackendsTyped' /\ BootTyped' /\ MonitorTyped' /\ RuntimeTyped'
      /\ TaskInv' /\ WatchInv' /\ CalmInv'
    BY <1>1, <1>2, <1>4, <1>5, MainStepKeeps
<1>7. StateTyped'
    BY <1>1, <1>2 DEF IInv, Typed, StateTyped
<1>8. MainInv'
    BY <1>1, <1>3, <1>4 DEF IInv, MainInv
<1> QED BY <1>3, <1>6, <1>7, <1>8 DEF IInv, Typed

LEMMA CrashKeeps == ASSUME IInv, Crash PROVE IInv'
<1>1. /\ Fault /\ ShellEnds
      /\ UNCHANGED <<backends, postgres, exposure, astray, status, flags, token>>
    BY DEF Crash, processes, settings
<1>2. BackendsTyped' /\ Spared
    BY <1>1 DEF IInv, Typed, BackendsTyped, Spared, Running
<1>3. StateTyped'
    BY <1>1, FaultSpends DEF IInv, Typed, StateTyped
<1> QED BY <1>1, <1>2, <1>3, ShellEndsKeeps

LEMMA OpenKeeps == ASSUME IInv, Open PROVE IInv'
<1>1. /\ main.step = "closed" /\ main' = Opening /\ status' = "starting"
      /\ flags' = [bootstrapping |-> FALSE, shuttingDown |-> FALSE]
      /\ UNCHANGED <<backends, postgres, exposure, astray, boot, monitor, runtime, token, budget>>
    BY DEF Open, processes, settings
<1>2. monitor.step = "none" /\ \A t \in Tasks : boot[t].step = "none"
    BY <1>1 DEF IInv, MainInv
<1>3. MainTyped' /\ main'.step = "start" /\ main'.for = "none"
    BY <1>1 DEF MainTyped, Opening, MainIdle, MainStep
<1>4. BackendsTyped' /\ BootTyped' /\ MonitorTyped' /\ RuntimeTyped'
    BY <1>1 DEF IInv, Typed, BackendsTyped, BootTyped, MonitorTyped, RuntimeTyped
<1>5. StateTyped'
    BY <1>1 DEF IInv, Typed, StateTyped, Phase
<1>6. MainInv'
    BY <1>1, <1>3 DEF MainInv
<1>7. TaskInv'
    BY <1>1, <1>2 DEF IInv, TaskInv, Working, Launched, Draining
<1>8. WatchInv'
    BY <1>1, <1>2 DEF WatchInv
<1>9. CalmInv'
  <2> SUFFICES ASSUME NoFaults' PROVE (ServedInv /\ TokenInv /\ ModeInv)'
      BY DEF CalmInv
  <2>1. ServedInv /\ TokenInv /\ ModeInv
      BY <1>1, CalmBefore DEF IInv, Typed, CalmInv
  <2>2. ModeInv'
      BY <1>1, <1>2, <2>1 DEF IInv, TaskInv, ModeInv, ModeAgrees, Launched
  <2> QED BY <1>1, <2>1, <2>2, ServedKept, TokenKept
<1> QED BY <1>3, <1>4, <1>5, <1>6, <1>7, <1>8, <1>9 DEF IInv, Typed

\* Every step of the main thread keeps the invariant.
LEMMA MainKeeps == ASSUME IInv, Main PROVE IInv'
BY RetryKeeps, ApplyExposureKeeps, RestoreBackupKeeps, RestoreCheckedKeeps, RestoreRefusedKeeps,
   ExitKeeps, ExposureCheckedKeeps, TakenBackKeeps, SetExposureKeeps, MainDrainKeeps,
       RestoreAppliedKeeps, MainStartKeeps, PollReadyKeeps,
   PollFailedKeeps, CrashKeeps, OpenKeeps DEF Main

-----------------------------------------------------------------------------
(***************************************************************************)
(* The steps of a bootstrap task.                                          *)
(***************************************************************************)

\* The shell is open as long as a task exists, and the main thread may do what it does.
LEMMA TaskMainInv ==
    ASSUME IInv, NEW t \in Tasks, boot[t].step # "none", UNCHANGED main,
           flags'.shuttingDown = flags.shuttingDown,
           flags'.bootstrapping => flags.bootstrapping
    PROVE  MainInv'
BY DEF IInv, MainInv, Busy

\* The task at work is the only one.
LEMMA OneWorks ==
    ASSUME IInv, NEW t \in Tasks, boot[t].step \in Working
    PROVE  /\ \A u \in Tasks \ {t} : boot[u].step \notin Working
           /\ flags.bootstrapping
           /\ boot[t].step # "clear" => ~boot[t].ok
           /\ \A u \in Tasks \ {t} : boot[u].ok => boot[u].step = "report"
BY DEF IInv, TaskInv, Working, Launched, Draining

\* A step of the task at work, to another step of its work.
LEMMA WorkGoesOn ==
    ASSUME IInv, NEW t \in Tasks, boot[t].step \in Working, boot'[t].step \in Working,
           \A u \in Tasks \ {t} : boot'[u] = boot[u],
           boot'[t].ok => boot'[t].step = "clear",
           boot'[t].step \in Launched \cup {"clear"} =>
               \/ boot[t].step \in Launched \cup {"clear"}
               \/ \A u \in Tasks : boot[u].step # "report",
           UNCHANGED flags
    PROVE  TaskInv'
<1>1. \A u \in Tasks \ {t} : boot[u].step \notin Working
    BY OneWorks
<1>2. \A u \in Tasks \ {t} : boot'[u].step \notin Working
    BY <1>1
<1>3. \A u \in Tasks : boot'[u].ok => boot'[u].step \in {"clear", "report"}
    BY DEF IInv, TaskInv
<1>4. \A u \in Tasks : boot'[u].step \in Working => flags'.bootstrapping
    BY <1>2, OneWorks
<1>5. \A u, v \in Tasks : boot'[u].step \in Working /\ boot'[v].step \in Working => u = v
    BY <1>2
<1>6. \A u, v \in Tasks : boot'[u].step \in Launched \cup {"clear"} => boot'[v].step # "report"
  <2> SUFFICES ASSUME NEW u \in Tasks, NEW v \in Tasks,
                      boot'[u].step \in Launched \cup {"clear"}
               PROVE  boot'[v].step # "report"
      OBVIOUS
  <2>1. u = t
      BY <1>2 DEF Working
  <2>2. "report" \notin Working
      BY DEF Working, Launched, Draining
  <2>3. \A w \in Tasks : boot[w].step # "report"
      BY <2>1 DEF IInv, TaskInv
  <2> QED BY <2>2, <2>3
<1>7. \A u, v \in Tasks : boot'[u].step = "report" /\ boot'[v].step = "report" => u = v
  <2>1. "report" \notin Working
      BY DEF Working, Launched, Draining
  <2> QED BY <2>1 DEF IInv, TaskInv
<1> QED BY <1>3, <1>4, <1>5, <1>6, <1>7 DEF TaskInv

LEMMA BootDrainKeeps == ASSUME IInv, NEW t \in Tasks, BootDrain(t) PROVE IInv'
<1>1. /\ boot[t].step = "drain" /\ backends' = Terminated /\ runtime' = NoRuntime
      /\ UNCHANGED <<exposure, astray, main, monitor, status, flags, token>>
    BY DEF BootDrain, settings
<1>2. \/ PostgresStopped /\ UNCHANGED budget /\ Go(t, "prepare")
      \/ PostgresKept /\ Prompt /\ Go(t, "clear")
    BY DEF BootDrain
<1>3. /\ BackendsTyped' /\ Spared
      /\ \A b \in Backends : b # runtime.backend => backends'[b] = backends[b]
    BY <1>1, TerminatedSpares DEF IInv, Typed
<1>4. /\ postgres' \in BOOLEAN
      /\ budget'.faults = budget.faults \/ Fault
      /\ budget' \in [commands : 0..MaxCommands, faults : 0..MaxFaults]
    BY <1>2, PostgresTyped DEF IInv, Typed
<1>5. StateTyped'
  <2>1. /\ exposure' \in Modes /\ astray' \in BOOLEAN /\ status' \in Phase /\ token' \in Nat
        /\ flags' \in [bootstrapping : BOOLEAN, shuttingDown : BOOLEAN]
      BY <1>1 DEF IInv, Typed, StateTyped
  <2> QED BY <1>4, <2>1 DEF StateTyped
<1>6. MainTyped' /\ MonitorTyped'
    BY <1>1 DEF IInv, Typed, MainTyped, MonitorTyped
<1>7. RuntimeTyped' /\ runtime'.backend = Null
    BY <1>1 DEF RuntimeTyped, NoRuntime
<1>8. /\ BootTyped' /\ boot'[t].ok = boot[t].ok
      /\ \A u \in Tasks \ {t} : boot'[u] = boot[u]
      /\ boot'[t].step = "prepare" \/ (boot'[t].step = "clear" /\ PostgresKept /\ Prompt)
    BY <1>2, TaskGoes DEF IInv, Typed, BootStep, Go
<1>9. /\ boot[t].step \in Working /\ ~boot'[t].ok
    BY <1>1, <1>8, OneWorks DEF Working, Draining
<1>10. MainInv'
    BY <1>1, TaskMainInv
<1>11. TaskInv'
  <2>1. boot'[t].step \in Working
      BY <1>8 DEF Working, Draining
  <2>2. boot'[t].step \in Launched \cup {"clear"} => \A u \in Tasks : boot[u].step # "report"
      BY <1>8 DEF Launched, Prompt
  <2> QED BY <1>1, <1>8, <1>9, <2>1, <2>2, WorkGoesOn
<1>12. WatchInv'
  <2>1. StatusIsOld'
      BY <1>8, <1>9 DEF StatusIsOld, Draining
  <2>2. monitor.step = "leave" => boot'[t].step \in Draining
      BY <1>8 DEF Prompt, Draining
  <2> QED BY <1>1, <2>1, <2>2 DEF WatchInv
<1>13. CalmInv'
  <2> SUFFICES ASSUME NoFaults' PROVE (ServedInv /\ TokenInv /\ ModeInv)'
      BY DEF CalmInv
  <2>1. ServedInv /\ TokenInv /\ ModeInv /\ ~Fault
      BY <1>4, CalmBefore DEF IInv, Typed, CalmInv
  <2>2. boot'[t].step = "prepare"
      BY <1>8, <2>1 DEF PostgresKept
  <2>3. \A u \in Tasks : boot'[u].step \notin Launched
      BY <1>8, <1>9, <2>2, OneWorks DEF Working, Launched
  <2>4. ServedInv'
      BY <1>1, <1>7, <2>1 DEF ServedInv
  <2>5. TokenInv'
      BY <1>1, <1>3, <2>1, <2>3 DEF TokenInv, Spared, Launched
  <2>6. boot'[t].step \in Draining
      BY <2>2 DEF Draining
  <2>7. ModeInv'
      BY <1>1, <1>8, <1>9, <2>1, <2>3, <2>6 DEF ModeInv, ModeAgrees, StatusIsOld
  <2> QED BY <2>4, <2>5, <2>7
<1> QED BY <1>3, <1>5, <1>6, <1>7, <1>8, <1>10, <1>11, <1>12, <1>13 DEF IInv, Typed

LEMMA BootPrepareKeeps == ASSUME IInv, NEW t \in Tasks, BootPrepare(t) PROVE IInv'
<1> DEFINE l == [token |-> token', mode |-> exposure]
<1>1. /\ boot[t].step = "prepare" /\ Prompt /\ token' = token + 1 /\ status' = "starting"
      /\ astray' = (main.step \in {"check", "takeback"} /\ exposure # main.previous)
      /\ UNCHANGED <<backends, exposure, main, monitor, flags, runtime>>
    BY DEF BootPrepare
<1>2. \/ /\ postgres' = TRUE
         /\ boot' = [boot EXCEPT ![t].step = "launch", ![t].launch = l]
         /\ UNCHANGED budget
      \/ postgres' \in {postgres, TRUE} /\ Fault /\ Go(t, "clear")
    BY DEF BootPrepare
<1>3. token \in Nat /\ exposure \in Modes
    BY DEF IInv, Typed, StateTyped
<1>4. l \in Launch /\ l.token = token + 1 /\ l.mode = exposure
    BY <1>1, <1>3 DEF Launch
<1> HIDE DEF l
<1>5. /\ BootTyped' /\ boot'[t].ok = boot[t].ok
      /\ \A u \in Tasks \ {t} : boot'[u] = boot[u]
      /\ \/ boot'[t].step = "launch" /\ boot'[t].launch = l /\ UNCHANGED budget
         \/ boot'[t].step = "clear" /\ Fault
    BY <1>2, <1>4, TaskGoes, TaskPrepared DEF IInv, Typed, BootStep, Go
<1>6. StateTyped'
  <2>1. /\ exposure' \in Modes /\ status' \in Phase /\ token' \in Nat
        /\ flags' \in [bootstrapping : BOOLEAN, shuttingDown : BOOLEAN]
      BY <1>1, <1>3 DEF IInv, Typed, StateTyped, Phase
  <2>2. postgres' \in BOOLEAN
      BY <1>2 DEF IInv, Typed, StateTyped
  <2>3. budget' \in [commands : 0..MaxCommands, faults : 0..MaxFaults]
      BY <1>5, FaultSpends DEF IInv, Typed, StateTyped
  <2>4. astray' \in BOOLEAN
      BY <1>1
  <2> QED BY <2>1, <2>2, <2>3, <2>4 DEF StateTyped
<1>7. MainTyped' /\ MonitorTyped' /\ BackendsTyped' /\ RuntimeTyped'
    BY <1>1 DEF IInv, Typed, MainTyped, MonitorTyped, BackendsTyped, RuntimeTyped
<1>8. boot[t].step \in Working /\ boot'[t].step \in Working /\ ~boot'[t].ok
    BY <1>1, <1>5, OneWorks DEF Working, Draining, Launched
<1>9. MainInv'
    BY <1>1, TaskMainInv
<1>10. TaskInv'
  <2>1. \A u \in Tasks : boot[u].step # "report"
      BY <1>1 DEF Prompt
  <2> QED BY <1>1, <1>5, <1>8, <2>1, WorkGoesOn
<1>11. WatchInv'
    BY <1>1 DEF WatchInv, Prompt
<1>12. CalmInv'
  <2> SUFFICES ASSUME NoFaults' PROVE (ServedInv /\ TokenInv /\ ModeInv)'
      BY DEF CalmInv
  <2>0. budget'.faults = budget.faults \/ Fault
      BY <1>5
  <2>1. ServedInv /\ TokenInv /\ ModeInv /\ ~Fault
      BY <2>0, CalmBefore DEF IInv, Typed, CalmInv
  <2>2. boot'[t].step = "launch" /\ boot'[t].launch = l
      BY <1>5, <2>1
  <2>3. \A u \in Tasks \ {t} : boot'[u].step \notin Launched \cup {"prepare"} /\ ~boot'[u].ok
      BY <1>1, <1>5, <1>8, OneWorks DEF Working, Launched, Draining, Prompt
  <2>4. ServedInv'
      BY <1>1, <2>1, <2>3 DEF ServedInv, Listening
  <2>5. TokenInv'
    <3>1. \A b \in Backends : Running(b)' =>
              /\ Running(b) /\ backends'[b].launch \in Launch
              /\ backends'[b].launch.token <= token
        BY <1>1, <2>1 DEF TokenInv, Running
    <3>2. \A b \in Backends : Running(b)' => /\ backends'[b].launch.token <= token'
                                             /\ backends'[b].launch.token # l.token
        BY <1>1, <1>3, <1>4, <3>1 DEF Launch
    <3> QED BY <1>1, <1>4, <2>2, <2>3, <3>1, <3>2, <1>3 DEF TokenInv, Launched
  <2>6. ModeInv'
    <3>1. ~astray' => SettledMode' = exposure
        BY <1>1 DEF SettledMode
    <3> QED BY <1>1, <1>4, <1>8, <2>2, <2>3, <3>1 DEF ModeInv, ModeAgrees
  <2> QED BY <2>4, <2>5, <2>6
<1> QED BY <1>5, <1>6, <1>7, <1>9, <1>10, <1>11, <1>12 DEF IInv, Typed

\* The backend that is started, once whoever held the port has been killed.
LEMMA StartedSpares ==
    ASSUME BackendsTyped, NEW b \in FreeIds, NEW l \in Launch \cup {Null},
           backends' = [FreedPort EXCEPT ![b] = [state |-> "starting", launch |-> l]]
    PROVE  /\ BackendsTyped' /\ b \in Backends /\ backends'[b].launch = l
           /\ \A c \in Backends : c # b /\ Running(c)' => Running(c) /\ backends'[c] = backends[c]
<1>1. b \in Backends
    BY DEF FreeIds
<1>2. FreedPort \in [Backends -> Process]
    BY DEF FreedPort, Exit, BackendsTyped, Process, ProcessState
<1>3. \A c \in Backends : FreedPort[c] = backends[c] \/ FreedPort[c].state = "exited"
    BY DEF FreedPort, Exit, BackendsTyped, Process
<1>4. BackendsTyped' /\ backends'[b].launch = l
    BY <1>1, <1>2 DEF BackendsTyped, Process, ProcessState
<1>5. \A c \in Backends : c # b => backends'[c] = FreedPort[c]
    BY <1>1, <1>2
<1> QED BY <1>1, <1>3, <1>4, <1>5 DEF Running

LEMMA BootLaunchKeeps == ASSUME IInv, NEW t \in Tasks, BootLaunch(t) PROVE IInv'
<1>1. /\ boot[t].step = "launch" /\ status' = "starting"
      /\ UNCHANGED <<postgres, exposure, astray, main, monitor, flags, runtime, token>>
    BY DEF BootLaunch, settings
<1>2. boot[t] \in Task /\ boot[t].launch \in Launch \cup {Null}
    BY DEF IInv, Typed, BootTyped, Task
<1>3. MainTyped' /\ MonitorTyped' /\ RuntimeTyped'
    BY <1>1 DEF IInv, Typed, MainTyped, MonitorTyped, RuntimeTyped
<1>4. MainInv'
    BY <1>1, TaskMainInv
<1>5. /\ boot[t].step \in Working /\ ~boot[t].ok
      /\ \A u \in Tasks \ {t} : boot[u].step \notin Working
      /\ \A u \in Tasks : boot[u].step # "report" /\ ~boot[u].ok
  <2>1. boot[t].step \in Working /\ boot[t].step \in Launched
      BY <1>1 DEF Working, Launched
  <2> QED BY <1>1, <2>1, OneWorks DEF IInv, TaskInv
<1>6. WatchInv' /\ TaskInv' /\ StateTyped' /\ BootTyped' /\ BackendsTyped'
      /\ CalmInv'
  <2>1. ASSUME NEW b \in FreeIds, UNCHANGED budget,
               backends' = [FreedPort EXCEPT ![b] = [state |-> "starting",
                                                     launch |-> boot[t].launch]],
               boot' = [boot EXCEPT ![t].step = "await", ![t].child = b]
        PROVE  WatchInv' /\ TaskInv' /\ StateTyped' /\ BootTyped' /\ BackendsTyped' /\ CalmInv'
    <3>1. /\ BackendsTyped' /\ b \in Backends /\ backends'[b].launch = boot[t].launch
          /\ \A c \in Backends : c # b /\ Running(c)' =>
                 Running(c) /\ backends'[c] = backends[c]
        BY <1>2, <2>1, StartedSpares DEF IInv, Typed
    <3>2. /\ BootTyped' /\ boot'[t].step = "await" /\ boot'[t].child = b
          /\ boot'[t].launch = boot[t].launch /\ boot'[t].ok = boot[t].ok
          /\ \A u \in Tasks \ {t} : boot'[u] = boot[u]
        BY <2>1, <3>1, TaskChild DEF IInv, Typed, BootStep
    <3>3. StateTyped'
        BY <1>1, <2>1 DEF IInv, Typed, StateTyped, Phase
    <3>4. TaskInv'
      <4>1. boot'[t].step \in Working
          BY <3>2 DEF Working, Launched
      <4> QED BY <1>1, <1>5, <3>2, <4>1, WorkGoesOn
    <3>5. WatchInv'
        BY <1>1, <3>2 DEF IInv, WatchInv, Draining
    <3>6. CalmInv'
      <4> SUFFICES ASSUME NoFaults' PROVE (ServedInv /\ TokenInv /\ ModeInv)'
          BY DEF CalmInv
      <4>1. ServedInv /\ TokenInv /\ ModeInv
          BY <2>1, CalmBefore DEF IInv, Typed, CalmInv
      <4>2. boot[t].step \in Launched /\ \A u \in Tasks \ {t} :
                boot'[u].step \notin Launched \cup {"prepare"} /\ ~boot'[u].ok
          BY <1>1, <1>5, <3>2 DEF Launched, Working, Draining
      <4>3. ServedInv'
        <5>1. runtime.backend = Null
            BY <4>1, <4>2 DEF ServedInv
        <5> QED BY <1>1, <4>1, <5>1 DEF ServedInv
      <4>4. TokenInv'
        <5>1. /\ boot[t].launch \in Launch /\ boot[t].launch.token <= token
              /\ \A c \in Backends : Running(c) =>
                     backends[c].launch.token # boot[t].launch.token
            BY <1>1, <4>1, <4>2 DEF TokenInv
        <5>2. \A c \in Backends : Running(c)' => /\ backends'[c].launch \in Launch
                                                 /\ backends'[c].launch.token <= token'
            BY <1>1, <3>1, <4>1, <5>1 DEF TokenInv
        <5>3. \A c \in Backends :
                  Running(c)' /\ backends'[c].launch.token = boot'[t].launch.token => c = b
            BY <3>1, <3>2, <5>1
        <5> QED BY <1>1, <3>1, <3>2, <4>2, <5>1, <5>2, <5>3 DEF TokenInv, Launched
      <4>5. ModeInv'
          BY <1>1, <1>5, <3>2, <4>1, <4>2 DEF ModeInv, ModeAgrees, SettledMode
      <4> QED BY <4>3, <4>4, <4>5
    <3> QED BY <3>1, <3>2, <3>3, <3>4, <3>5, <3>6
  <2>2. ASSUME Fault, Go(t, "clear"), UNCHANGED backends
        PROVE  WatchInv' /\ TaskInv' /\ StateTyped' /\ BootTyped' /\ BackendsTyped' /\ CalmInv'
    <3>1. /\ BootTyped' /\ boot'[t].step = "clear" /\ boot'[t].ok = boot[t].ok
          /\ \A u \in Tasks \ {t} : boot'[u] = boot[u]
        BY <2>2, TaskGoes DEF IInv, Typed, BootStep, Go
    <3>2. StateTyped' /\ BackendsTyped'
        BY <1>1, <2>2, FaultSpends DEF IInv, Typed, StateTyped, Phase, BackendsTyped
    <3>3. TaskInv'
      <4>1. boot'[t].step \in Working
          BY <3>1 DEF Working
      <4> QED BY <1>1, <1>5, <3>1, <4>1, WorkGoesOn
    <3>4. WatchInv'
        BY <1>1, <3>1 DEF IInv, WatchInv, Draining
    <3>5. CalmInv'
        BY <2>2, FaultSpends DEF IInv, Typed, CalmInv
    <3> QED BY <3>1, <3>2, <3>3, <3>4, <3>5
  <2> QED BY <2>1, <2>2 DEF BootLaunch
<1> QED BY <1>3, <1>4, <1>6 DEF IInv, Typed

\* Who is healthy with the token of a launch is the child that was launched with it.
LEMMA HealthyIsChild ==
    ASSUME TokenInv, NEW t \in Tasks, boot[t].step \in Launched, Healthy(boot[t].launch)
    PROVE  /\ boot[t].child \in Backends /\ Listening(boot[t].child)
           /\ backends[boot[t].child].launch = boot[t].launch
<1>1. PICK b \in Backends : Listening(b) /\ backends[b].launch.token = boot[t].launch.token
    BY DEF Healthy
<1>2. Running(b)
    BY <1>1 DEF Running, Listening
<1> QED BY <1>1, <1>2 DEF TokenInv

LEMMA BootAwaitKeeps == ASSUME IInv, NEW t \in Tasks, BootAwait(t) PROVE IInv'
<1>1. /\ boot[t].step = "await"
      /\ UNCHANGED <<backends, postgres, exposure, astray, main, monitor, status, flags,
                     runtime, token>>
    BY DEF BootAwait, processes, settings
<1>2. \/ Healthy(boot[t].launch) /\ Go(t, "register") /\ UNCHANGED budget
      \/ /\ boot' = [boot EXCEPT ![t].step = "clear", ![t].child = Null]
         /\ Fault \/ UNCHANGED budget
    BY DEF BootAwait
<1>3. /\ BootTyped' /\ boot'[t].launch = boot[t].launch /\ boot'[t].ok = boot[t].ok
      /\ \A u \in Tasks \ {t} : boot'[u] = boot[u]
      /\ \/ /\ boot'[t].step = "register" /\ Healthy(boot[t].launch)
            /\ boot'[t].child = boot[t].child
         \/ boot'[t].step = "clear"
    BY <1>2, TaskGoes, TaskChild DEF IInv, Typed, BootStep, Go
<1>4. MainTyped' /\ MonitorTyped' /\ RuntimeTyped' /\ BackendsTyped'
    BY <1>1 DEF IInv, Typed, MainTyped, MonitorTyped, RuntimeTyped, BackendsTyped
<1>5. StateTyped'
    BY <1>1, <1>2, FaultSpends DEF IInv, Typed, StateTyped
<1>6. /\ boot[t].step \in Working /\ boot[t].step \in Launched /\ ~boot[t].ok
      /\ \A u \in Tasks \ {t} : boot[u].step \notin Working
      /\ boot'[t].step \in Working
    BY <1>1, <1>3, OneWorks DEF Working, Launched
<1>7. MainInv'
    BY <1>1, TaskMainInv
<1>8. TaskInv'
    BY <1>1, <1>3, <1>6, WorkGoesOn
<1>9. WatchInv'
    BY <1>1, <1>3 DEF IInv, WatchInv, StatusIsOld, Draining, Busy
<1>10. CalmInv'
  <2> SUFFICES ASSUME NoFaults' PROVE (ServedInv /\ TokenInv /\ ModeInv)'
      BY DEF CalmInv
  <2>0. budget'.faults = budget.faults \/ Fault
      BY <1>2
  <2>1. ServedInv /\ TokenInv /\ ModeInv
      BY <2>0, CalmBefore DEF IInv, Typed, CalmInv
  <2>2. \A u \in Tasks \ {t} : boot'[u].step \notin Launched
      BY <1>3, <1>6 DEF Working
  <2>3. ServedInv'
      BY <1>1, <1>3, <1>6, <2>1 DEF ServedInv, Listening
  <2>4. TokenInv'
    <3>1. boot'[t].step = "register" =>
              /\ boot'[t].child \in Backends /\ backends'[boot'[t].child].state = "listening"
              /\ backends'[boot'[t].child].launch = boot'[t].launch
        BY <1>1, <1>3, <1>6, <2>1, HealthyIsChild DEF Listening
    <3>2. boot'[t].step \in Launched =>
              /\ boot'[t].launch \in Launch /\ boot'[t].launch.token <= token'
              /\ \A b \in Backends :
                     Running(b)' /\ backends'[b].launch.token = boot'[t].launch.token =>
                         b = boot'[t].child /\ backends'[b].launch = boot'[t].launch
        BY <1>1, <1>3, <1>6, <2>1 DEF TokenInv, Running, Launched
    <3>3. boot'[t].step # "launch"
        BY <1>3
    <3>4. \A b \in Backends : Running(b)' => /\ backends'[b].launch \in Launch
                                             /\ backends'[b].launch.token <= token'
        BY <1>1, <2>1 DEF TokenInv, Running
    <3>5. \A u \in Tasks : boot'[u].step \in Launched => u = t
        BY <2>2
    <3>6. \A u \in Tasks : boot'[u].step = "register" => u = t
        BY <3>5 DEF Launched
    <3> QED BY <3>1, <3>2, <3>3, <3>4, <3>5, <3>6 DEF TokenInv, Listening
  <2>5. ModeInv'
      BY <1>1, <1>3, <1>6, <2>1, <2>2
      DEF ModeInv, ModeAgrees, InForce, SettledMode, StatusIsOld, Draining, Busy
  <2> QED BY <2>3, <2>4, <2>5
<1> QED BY <1>3, <1>4, <1>5, <1>7, <1>8, <1>9, <1>10 DEF IInv, Typed

LEMMA BootRegisterKeeps == ASSUME IInv, NEW t \in Tasks, BootRegister(t) PROVE IInv'
<1>1. /\ boot[t].step = "register"
      /\ runtime' = [backend |-> boot[t].child, launch |-> boot[t].launch, postgres |-> TRUE]
      /\ boot' = [boot EXCEPT ![t].step = "clear", ![t].child = Null, ![t].ok = TRUE]
      /\ UNCHANGED <<backends, postgres, exposure, astray, main, monitor, status, flags, token,
                     budget>>
    BY DEF BootRegister, processes, settings
<1>2. boot[t].child \in Backends \cup {Null} /\ boot[t].launch \in Launch \cup {Null}
    BY DEF IInv, Typed, BootTyped, Task
<1>3. /\ BootTyped' /\ boot'[t].step = "clear" /\ boot'[t].ok
      /\ \A u \in Tasks \ {t} : boot'[u] = boot[u]
    BY <1>1, TaskDone DEF IInv, Typed, BootStep
<1>4. MainTyped' /\ MonitorTyped' /\ BackendsTyped' /\ StateTyped'
    BY <1>1 DEF IInv, Typed, MainTyped, MonitorTyped, BackendsTyped, StateTyped
<1>5. RuntimeTyped'
    BY <1>1, <1>2 DEF RuntimeTyped
<1>6. /\ boot[t].step \in Working /\ boot[t].step \in Launched
      /\ \A u \in Tasks \ {t} : boot[u].step \notin Working
      /\ boot'[t].step \in Working
    BY <1>1, <1>3, OneWorks DEF Working, Launched
<1>7. MainInv'
    BY <1>1, TaskMainInv
<1>8. TaskInv'
    BY <1>1, <1>3, <1>6, WorkGoesOn
<1>9. WatchInv'
    BY <1>1, <1>3 DEF IInv, WatchInv, StatusIsOld, Draining, Busy
<1>10. CalmInv'
  <2> SUFFICES ASSUME NoFaults' PROVE (ServedInv /\ TokenInv /\ ModeInv)'
      BY DEF CalmInv
  <2>1. ServedInv /\ TokenInv /\ ModeInv
      BY <1>1, CalmBefore DEF IInv, Typed, CalmInv
  <2>2. \A u \in Tasks : boot'[u].step \notin Launched \cup {"prepare"}
      BY <1>3, <1>6 DEF Working, Launched, Draining
  <2>3. /\ boot[t].child \in Backends /\ Listening(boot[t].child)
        /\ backends[boot[t].child].launch = boot[t].launch
        /\ boot[t].launch \in Launch
        /\ ~astray => boot[t].launch.mode = SettledMode /\ status # "failed"
      BY <1>1, <1>6, <2>1 DEF TokenInv, ModeInv, ModeAgrees
  <2>4. ServedInv'
      BY <1>1, <2>1, <2>2, <2>3 DEF ServedInv, Listening
  <2>5. TokenInv'
      BY <1>1, <2>1, <2>2 DEF TokenInv, Launched, Running
  <2>6. ~astray => InForce'
      BY <1>1, <2>3, SidecarAssumption DEF InForce, SettledMode
  <2>7. ModeInv'
      BY <1>1, <2>2, <2>3, <2>6 DEF ModeInv, ModeAgrees
  <2> QED BY <2>4, <2>5, <2>7
<1> QED BY <1>3, <1>4, <1>5, <1>7, <1>8, <1>9, <1>10 DEF IInv, Typed

LEMMA BootClearKeeps == ASSUME IInv, NEW t \in Tasks, BootClear(t) PROVE IInv'
<1>1. /\ boot[t].step = "clear" /\ flags' = [flags EXCEPT !.bootstrapping = FALSE]
      /\ Go(t, "report")
      /\ UNCHANGED <<backends, postgres, exposure, astray, main, monitor, status, runtime,
                     token, budget>>
    BY DEF BootClear, processes, settings
<1>2. /\ BootTyped' /\ boot'[t].step = "report" /\ boot'[t].ok = boot[t].ok
      /\ boot'[t].launch = boot[t].launch /\ \A u \in Tasks \ {t} : boot'[u] = boot[u]
    BY <1>1, TaskGoes DEF IInv, Typed, BootStep, Go
<1>3. /\ flags' \in [bootstrapping : BOOLEAN, shuttingDown : BOOLEAN]
      /\ flags'.shuttingDown = flags.shuttingDown /\ ~flags'.bootstrapping
    BY <1>1 DEF IInv, Typed, StateTyped
<1>4. MainTyped' /\ MonitorTyped' /\ BackendsTyped' /\ RuntimeTyped' /\ StateTyped'
    BY <1>1, <1>3
    DEF IInv, Typed, MainTyped, MonitorTyped, BackendsTyped, RuntimeTyped, StateTyped
<1>5. /\ \A u \in Tasks \ {t} : boot[u].step \notin Working
      /\ \A u \in Tasks : boot[u].step # "report"
    BY <1>1, OneWorks DEF IInv, TaskInv, Working
<1>6. \A u \in Tasks : boot'[u].step \notin Working
    BY <1>2, <1>5 DEF Working, Launched, Draining
<1>7. MainInv'
    BY <1>1, <1>3, TaskMainInv
<1>8. TaskInv'
    BY <1>2, <1>5, <1>6 DEF IInv, TaskInv, Working
<1>9. WatchInv'
    BY <1>1, <1>2, <1>3 DEF IInv, WatchInv, StatusIsOld, Draining, Busy
<1>10. CalmInv'
  <2> SUFFICES ASSUME NoFaults' PROVE (ServedInv /\ TokenInv /\ ModeInv)'
      BY DEF CalmInv
  <2>1. ServedInv /\ TokenInv /\ ModeInv
      BY <1>1, CalmBefore DEF IInv, Typed, CalmInv
  <2>2. \A u \in Tasks : boot'[u].step \notin Launched \cup {"prepare"}
      BY <1>6 DEF Working, Draining
  <2>3. ServedInv'
      BY <1>1, <2>1, <2>2 DEF ServedInv, Listening
  <2>4. TokenInv'
      BY <1>1, <2>1, <2>2 DEF TokenInv, Launched, Running
  <2>5. ModeInv'
      BY <1>1, <1>2, <2>1, <2>2
      DEF ModeInv, ModeAgrees, InForce, SettledMode, StatusIsOld, Draining, Busy
  <2> QED BY <2>3, <2>4, <2>5
<1> QED BY <1>2, <1>4, <1>7, <1>8, <1>9, <1>10 DEF IInv, Typed

LEMMA BootReportKeeps == ASSUME IInv, NEW t \in Tasks, BootReport(t) PROVE IInv'
<1>1. /\ boot[t].step = "report" /\ status' = IF boot[t].ok THEN "ready" ELSE "failed"
      /\ monitor' = IF boot[t].ok /\ monitor.step = "none"
                      THEN [NoMonitor EXCEPT !.step = "check"] ELSE monitor
      /\ boot' = [boot EXCEPT ![t] = NoTask]
      /\ UNCHANGED <<backends, postgres, exposure, astray, main, flags, runtime, token, budget>>
    BY DEF BootReport, processes, settings
<1>2. /\ BootTyped' /\ boot'[t].step = "none" /\ ~boot'[t].ok
      /\ \A u \in Tasks \ {t} : boot'[u] = boot[u]
    BY <1>1, TaskEnds DEF IInv, Typed
<1>3. /\ MonitorTyped'
      /\ \/ boot[t].ok /\ monitor.step = "none" /\ monitor'.step = "check"
         \/ ~(boot[t].ok /\ monitor.step = "none") /\ monitor' = monitor
  <2>1. CASE boot[t].ok /\ monitor.step = "none"
      BY <1>1, <2>1, SidecarAssumption DEF MonitorTyped, NoMonitor, MonitorStep
  <2>2. CASE ~(boot[t].ok /\ monitor.step = "none")
      BY <1>1, <2>2 DEF IInv, Typed, MonitorTyped
  <2> QED BY <2>1, <2>2
<1>4. MainTyped' /\ BackendsTyped' /\ RuntimeTyped' /\ StateTyped'
    BY <1>1
    DEF IInv, Typed, MainTyped, BackendsTyped, RuntimeTyped, StateTyped, Phase
<1>5. MainInv'
  <2>1. main.step # "closed"
      BY <1>1 DEF IInv, MainInv
  <2> QED BY <1>1, <2>1 DEF IInv, MainInv, Busy
<1>6. TaskInv'
    BY <1>1, <1>2 DEF IInv, TaskInv, Working, Launched, Draining
<1>7. \A u \in Tasks : boot[u].step \in Draining => boot'[u].step \in Draining
    BY <1>1, <1>2 DEF Draining
<1>8. WatchInv'
  <2>1. monitor'.step = "leave" => \/ flags'.shuttingDown
                                   \/ \E u \in Tasks : boot'[u].step \in Draining
      BY <1>1, <1>3, <1>7 DEF IInv, WatchInv
  <2>2. status' = "ready" /\ monitor'.step \in {"none", "leave"} => monitor'.step = "leave"
      BY <1>1, <1>3
  <2>3. flags'.shuttingDown => Busy'
      BY <1>5 DEF MainInv
  <2> QED BY <2>1, <2>2, <2>3 DEF WatchInv, StatusIsOld
<1>9. CalmInv'
  <2> SUFFICES ASSUME NoFaults' PROVE (ServedInv /\ TokenInv /\ ModeInv)'
      BY DEF CalmInv
  <2>1. ServedInv /\ TokenInv /\ ModeInv
      BY <1>1, CalmBefore DEF IInv, Typed, CalmInv
  <2>2. \A u \in Tasks : boot[u].step \notin Launched \cup {"clear"}
      BY <1>1 DEF IInv, TaskInv
  <2>3. \A u \in Tasks : boot'[u].step \notin Launched /\ ~boot'[u].ok
      BY <1>1, <1>2, <2>2 DEF IInv, TaskInv, Launched
  <2>4. ServedInv'
      BY <1>1, <1>2, <1>3, <2>1, <2>3 DEF ServedInv, Listening
  <2>5. TokenInv'
      BY <1>1, <2>1, <2>3 DEF TokenInv, Launched, Running
  <2>6. ~astray /\ status' = "ready" => Busy' \/ InForce' \/ StatusIsOld'
      BY <1>1, <1>7, <2>1 DEF ModeInv, ModeAgrees, InForce, SettledMode, StatusIsOld, Busy
  <2>7. ModeInv'
      BY <1>1, <2>3, <2>6 DEF ModeInv, ModeAgrees
  <2> QED BY <2>4, <2>5, <2>7
<1> QED BY <1>2, <1>3, <1>4, <1>5, <1>6, <1>8, <1>9 DEF IInv, Typed

\* Every step of a bootstrap task keeps the invariant.
LEMMA BootstrapKeeps == ASSUME IInv, NEW t \in Tasks, BootstrapRuntime(t) PROVE IInv'
BY BootDrainKeeps, BootPrepareKeeps, BootLaunchKeeps, BootAwaitKeeps, BootRegisterKeeps,
   BootClearKeeps, BootReportKeeps DEF BootstrapRuntime

-----------------------------------------------------------------------------
(***************************************************************************)
(* The steps of the monitor, and what happens to the processes.            *)
(***************************************************************************)

\* The monitor takes a step.
LEMMA MonitorGoes ==
    ASSUME MonitorTyped, NEW s \in MonitorStep, MonitorGo(s)
    PROVE  MonitorTyped' /\ monitor'.step = s
BY DEF MonitorTyped, MonitorGo

\* The monitor begins again.
LEMMA MonitorBegins ==
    ASSUME MonitorAgain
    PROVE  MonitorTyped' /\ monitor'.step = "check"
BY SidecarAssumption DEF MonitorTyped, MonitorAgain, NoMonitor, MonitorStep

\* A recovery, which a run without a fault never sees, disturbs no other thread.
LEMMA RecoveryKeeps ==
    ASSUME IInv, monitor.step \in {"recover", "attempt", "await", "adopt"},
           monitor'.step \notin {"none", "leave"}, UNCHANGED <<main, boot, flags>>,
           budget'.faults = budget.faults \/ Fault
    PROVE  MainTyped' /\ BootTyped' /\ MainInv' /\ TaskInv' /\ WatchInv' /\ CalmInv'
<1>1. MainTyped' /\ BootTyped'
    BY DEF IInv, Typed, MainTyped, BootTyped
<1>2. MainInv'
    BY DEF IInv, MainInv, Busy
<1>3. TaskInv'
    BY TaskInvKept DEF IInv
<1>4. WatchInv'
    BY DEF WatchInv
<1>5. CalmInv'
  <2>1. ~NoFaults'
      BY CalmBefore DEF IInv, Typed, CalmInv, ServedInv
  <2> QED BY <2>1 DEF CalmInv
<1> QED BY <1>1, <1>2, <1>3, <1>4, <1>5

\* A step of the monitor that finds nothing to recover.
LEMMA WatchKeeps ==
    ASSUME IInv, MonitorTyped', monitor.step # "none",
           monitor'.step \in {"none", "check", "leave", "inspect"},
           monitor'.step = "leave" => flags.shuttingDown,
           monitor'.step = "leave" /\ status = "ready" => Busy,
           monitor'.step = "none" => monitor.step = "leave",
           UNCHANGED <<backends, postgres, exposure, astray, main, boot, status, flags, runtime,
                       token,
                       budget>>
    PROVE  IInv'
<1>1. MainTyped' /\ BackendsTyped' /\ RuntimeTyped' /\ StateTyped' /\ BootTyped'
    BY DEF IInv, Typed, MainTyped, BackendsTyped, RuntimeTyped, StateTyped, BootTyped
<1>2. MainInv'
    BY DEF IInv, MainInv, Busy
<1>3. TaskInv'
    BY TaskInvKept DEF IInv
<1>4. WatchInv'
    BY DEF IInv, WatchInv, StatusIsOld, Busy
<1>5. CalmInv'
  <2> SUFFICES ASSUME NoFaults' PROVE (ServedInv /\ TokenInv /\ ModeInv)'
      BY DEF CalmInv
  <2>1. ServedInv /\ TokenInv /\ ModeInv
      BY CalmBefore DEF IInv, Typed, CalmInv
  <2>2. ServedInv'
      BY <2>1 DEF ServedInv, Listening
  <2>3. (Busy => Busy') /\ SettledMode' = SettledMode
      BY DEF Busy, SettledMode
  <2> QED BY <2>1, <2>2, <2>3, TokenKept, ModeKept
<1> QED BY <1>1, <1>2, <1>3, <1>4, <1>5 DEF IInv, Typed

LEMMA MonitorCheckKeeps == ASSUME IInv, MonitorCheck PROVE IInv'
<1>1. /\ monitor.step = "check"
      /\ UNCHANGED <<backends, postgres, exposure, astray, main, boot, status, flags, runtime,
                     token,
                     budget>>
    BY DEF MonitorCheck, processes, settings
<1>2. /\ MonitorTyped'
      /\ \/ flags.shuttingDown /\ monitor'.step = "leave"
         \/ monitor'.step = "inspect"
  <2>1. \/ flags.shuttingDown /\ MonitorGo("leave")
        \/ MonitorGo("inspect")
      BY DEF MonitorCheck
  <2> QED BY <2>1, MonitorGoes DEF IInv, Typed, MonitorStep
<1>3. flags.shuttingDown => Busy
    BY DEF IInv, MainInv
<1> QED BY <1>1, <1>2, <1>3, WatchKeeps

LEMMA MonitorLeaveKeeps == ASSUME IInv, MonitorLeave PROVE IInv'
<1>1. /\ monitor.step = "leave" /\ monitor' = NoMonitor
      /\ UNCHANGED <<backends, postgres, exposure, astray, main, boot, status, flags, runtime,
                     token,
                     budget>>
    BY DEF MonitorLeave, processes, settings
<1>2. MonitorTyped' /\ monitor'.step = "none"
    BY <1>1, SidecarAssumption DEF MonitorTyped, NoMonitor, MonitorStep
<1> QED BY <1>1, <1>2, WatchKeeps

LEMMA MonitorInspectKeeps == ASSUME IInv, MonitorInspect PROVE IInv'
<1>1. /\ monitor.step = "inspect"
      /\ UNCHANGED <<backends, postgres, exposure, astray, main, boot, status, flags, token>>
    BY DEF MonitorInspect, processes, settings
<1>2. CASE /\ MonitorGo("recover")
           /\ \/ /\ runtime.backend # Null /\ ~Running(runtime.backend) /\ UNCHANGED budget
                 /\ runtime' = [runtime EXCEPT !.backend = Null]
              \/ Fault /\ UNCHANGED runtime
  <2>1. RuntimeTyped'
      BY <1>2 DEF IInv, Typed, RuntimeTyped
  <2>2. MonitorTyped' /\ monitor'.step = "recover"
      BY <1>2, MonitorGoes DEF IInv, Typed, MonitorStep
  <2>3. MainTyped' /\ BackendsTyped' /\ BootTyped'
      BY <1>1 DEF IInv, Typed, MainTyped, BackendsTyped, BootTyped
  <2>4. StateTyped'
      BY <1>1, <1>2, FaultSpends DEF IInv, Typed, StateTyped
  <2>5. MainInv'
      BY <1>1, <2>2 DEF IInv, MainInv, Busy
  <2>6. TaskInv'
      BY <1>1, TaskInvKept DEF IInv
  <2>7. WatchInv'
      BY <2>2 DEF WatchInv
  <2>8. CalmInv'
    <3>1. CASE Fault
        BY <3>1, FaultSpends DEF IInv, Typed, CalmInv
    <3>2. CASE runtime.backend # Null /\ ~Running(runtime.backend) /\ UNCHANGED budget
      <4>1. ~ServedInv
          BY <3>2 DEF ServedInv, Listening, Running
      <4>2. ~NoFaults'
          BY <3>2, <4>1, CalmBefore DEF IInv, Typed, CalmInv
      <4> QED BY <4>2 DEF CalmInv
    <3> QED BY <1>2, <3>1, <3>2
  <2> QED BY <2>1, <2>2, <2>3, <2>4, <2>5, <2>6, <2>7, <2>8 DEF IInv, Typed
<1>3. CASE UNCHANGED <<runtime, budget>> /\ MonitorAgain
  <2>1. MonitorTyped' /\ monitor'.step = "check"
      BY <1>3, MonitorBegins
  <2> QED BY <1>1, <1>3, <2>1, WatchKeeps
<1> QED BY <1>2, <1>3 DEF MonitorInspect

LEMMA MonitorRecoverKeeps == ASSUME IInv, MonitorRecover PROVE IInv'
<1>1. /\ monitor.step = "recover"
      /\ UNCHANGED <<backends, postgres, exposure, astray, main, boot, flags, runtime, token,
                     budget>>
    BY DEF MonitorRecover, processes, settings
<1>2. BackendsTyped' /\ RuntimeTyped'
    BY <1>1 DEF IInv, Typed, BackendsTyped, RuntimeTyped
<1>3. MonitorTyped' /\ monitor'.step \in {"check", "attempt"} /\ status' \in Phase
  <2>1. CASE runtime.launch = Null
      BY <2>1, MonitorBegins DEF MonitorRecover, IInv, Typed, StateTyped
  <2>2. CASE runtime.launch # Null
    <3>1. /\ status' = "recovering"
          /\ monitor' = [monitor EXCEPT !.step = "attempt", !.launch = runtime.launch,
                                        !.attempt = 1]
        BY <2>2 DEF MonitorRecover
    <3>2. runtime.launch \in Launch \cup {Null} /\ 1 \in 0..MaxRestarts
        BY SidecarAssumption DEF IInv, Typed, RuntimeTyped
    <3> QED BY <3>1, <3>2 DEF IInv, Typed, MonitorTyped, MonitorStep, Phase
  <2> QED BY <2>1, <2>2
<1>4. StateTyped'
    BY <1>1, <1>3 DEF IInv, Typed, StateTyped
<1>5. MainTyped' /\ BootTyped' /\ MainInv' /\ TaskInv' /\ WatchInv' /\ CalmInv'
    BY <1>1, <1>3, RecoveryKeeps
<1> QED BY <1>2, <1>3, <1>4, <1>5 DEF IInv, Typed

LEMMA MonitorAttemptKeeps == ASSUME IInv, MonitorAttempt PROVE IInv'
<1>1. /\ monitor.step = "attempt"
      /\ UNCHANGED <<postgres, exposure, astray, main, boot, flags, runtime, token>>
    BY DEF MonitorAttempt, settings
<1>2. RuntimeTyped'
    BY <1>1 DEF IInv, Typed, RuntimeTyped
<1>3. /\ MonitorTyped' /\ monitor'.step \in {"check", "await"} /\ BackendsTyped'
      /\ status' \in Phase /\ UNCHANGED budget
  <2>1. CASE /\ MonitorAgain /\ UNCHANGED <<backends, budget>>
             /\ status' \in {status, "failed"}
      BY <2>1, MonitorBegins DEF IInv, Typed, StateTyped, BackendsTyped, Phase
  <2>2. ASSUME NEW b \in FreeIds, UNCHANGED <<status, budget>>,
               backends' = [FreedPort EXCEPT ![b] = [state |-> "starting",
                                                     launch |-> monitor.launch]],
               monitor' = [monitor EXCEPT !.step = "await", !.child = b]
        PROVE  /\ MonitorTyped' /\ monitor'.step \in {"check", "await"} /\ BackendsTyped'
               /\ status' \in Phase /\ UNCHANGED budget
    <3>1. monitor.launch \in Launch \cup {Null}
        BY DEF IInv, Typed, MonitorTyped
    <3>2. BackendsTyped' /\ b \in Backends
        BY <2>2, <3>1, StartedSpares DEF IInv, Typed
    <3>3. MonitorTyped' /\ monitor'.step = "await"
        BY <2>2, <3>2 DEF IInv, Typed, MonitorTyped, MonitorStep
    <3> QED BY <2>2, <3>2, <3>3 DEF IInv, Typed, StateTyped
  <2> QED BY <2>1, <2>2 DEF MonitorAttempt
<1>4. StateTyped'
    BY <1>1, <1>3 DEF IInv, Typed, StateTyped
<1>5. MainTyped' /\ BootTyped' /\ MainInv' /\ TaskInv' /\ WatchInv' /\ CalmInv'
    BY <1>1, <1>3, RecoveryKeeps
<1> QED BY <1>2, <1>3, <1>4, <1>5 DEF IInv, Typed

LEMMA MonitorAwaitKeeps == ASSUME IInv, MonitorAwait PROVE IInv'
<1>1. /\ monitor.step = "await"
      /\ UNCHANGED <<backends, postgres, exposure, astray, main, boot, flags, runtime, token>>
    BY DEF MonitorAwait, processes, settings
<1>2. RuntimeTyped' /\ BackendsTyped'
    BY <1>1 DEF IInv, Typed, RuntimeTyped, BackendsTyped
<1>3. Fault \/ UNCHANGED budget
    BY DEF MonitorAwait
<1>4. /\ MonitorTyped' /\ monitor'.step \in {"check", "await", "attempt", "adopt"}
      /\ status' \in Phase
  <2>1. CASE MonitorGo("adopt") /\ UNCHANGED status
      BY <2>1, MonitorGoes DEF IInv, Typed, StateTyped, MonitorStep
  <2>2. CASE /\ monitor.attempt < MaxRestarts /\ UNCHANGED status
             /\ monitor' = [monitor EXCEPT !.step = "attempt", !.child = Null,
                                           !.attempt = @ + 1]
    <3>1. monitor.attempt + 1 \in 0..MaxRestarts
        BY <2>2, SidecarAssumption DEF IInv, Typed, MonitorTyped
    <3> QED BY <2>2, <3>1 DEF IInv, Typed, MonitorTyped, StateTyped, MonitorStep
  <2>3. CASE MonitorAgain /\ status' = "failed"
      BY <2>3, MonitorBegins DEF Phase
  <2> QED BY <2>1, <2>2, <2>3 DEF MonitorAwait
<1>5. StateTyped'
    BY <1>1, <1>3, <1>4, FaultSpends DEF IInv, Typed, StateTyped
<1>6. MainTyped' /\ BootTyped' /\ MainInv' /\ TaskInv' /\ WatchInv' /\ CalmInv'
    BY <1>1, <1>3, <1>4, RecoveryKeeps
<1> QED BY <1>2, <1>4, <1>5, <1>6 DEF IInv, Typed

LEMMA MonitorAdoptKeeps == ASSUME IInv, MonitorAdopt PROVE IInv'
<1>1. /\ monitor.step = "adopt" /\ runtime' = [runtime EXCEPT !.backend = monitor.child]
      /\ status' = "ready" /\ MonitorAgain
      /\ UNCHANGED <<backends, postgres, exposure, astray, main, boot, flags, token, budget>>
    BY DEF MonitorAdopt, processes, settings
<1>2. MonitorTyped' /\ monitor'.step = "check"
    BY <1>1, MonitorBegins
<1>3. RuntimeTyped' /\ BackendsTyped' /\ StateTyped'
    BY <1>1 DEF IInv, Typed, RuntimeTyped, BackendsTyped, StateTyped, Phase, MonitorTyped
<1>4. MainTyped' /\ BootTyped' /\ MainInv' /\ TaskInv' /\ WatchInv' /\ CalmInv'
    BY <1>1, <1>2, RecoveryKeeps
<1> QED BY <1>2, <1>3, <1>4 DEF IInv, Typed

\* Every step of the monitor keeps the invariant.
LEMMA MonitorKeeps == ASSUME IInv, Monitor PROVE IInv'
BY MonitorCheckKeeps, MonitorLeaveKeeps, MonitorInspectKeeps, MonitorRecoverKeeps,
   MonitorAttemptKeeps, MonitorAwaitKeeps, MonitorAdoptKeeps DEF Monitor

\* Only the processes change.
LEMMA OthersKept ==
    ASSUME IInv, UNCHANGED <<postgres, exposure, astray, main, boot, monitor, status, flags,
                             runtime,
                             token>>,
           budget' \in [commands : 0..MaxCommands, faults : 0..MaxFaults]
    PROVE  /\ MainTyped' /\ BootTyped' /\ MonitorTyped' /\ RuntimeTyped' /\ StateTyped'
           /\ MainInv' /\ TaskInv' /\ WatchInv'
<1>1. MainTyped' /\ BootTyped' /\ MonitorTyped' /\ RuntimeTyped' /\ StateTyped'
    BY DEF IInv, Typed, MainTyped, BootTyped, MonitorTyped, RuntimeTyped, StateTyped
<1>2. MainInv'
    BY DEF IInv, MainInv, Busy
<1>3. TaskInv'
    BY TaskInvKept DEF IInv
<1>4. WatchInv'
    BY DEF IInv, WatchInv, StatusIsOld, Busy
<1> QED BY <1>1, <1>2, <1>3, <1>4

LEMMA BindKeeps == ASSUME IInv, NEW b \in Backends, Bind(b) PROVE IInv'
<1>1. /\ backends[b].state = "starting"
      /\ backends' = [backends EXCEPT ![b] = IF PortTaken THEN Exit(b)
                                             ELSE [@ EXCEPT !.state = "listening"]]
      /\ UNCHANGED <<postgres, exposure, astray, main, boot, monitor, status, flags, runtime,
                     token,
                     budget>>
    BY DEF Bind, settings
<1>2. /\ BackendsTyped' /\ \A c \in Backends \ {b} : backends'[c] = backends[c]
      /\ \/ backends'[b].state = "exited"
         \/ backends'[b].state = "listening" /\ backends'[b].launch = backends[b].launch
    BY <1>1 DEF IInv, Typed, BackendsTyped, Process, ProcessState, Exit
<1>3. /\ MainTyped' /\ BootTyped' /\ MonitorTyped' /\ RuntimeTyped' /\ StateTyped'
      /\ MainInv' /\ TaskInv' /\ WatchInv'
    BY <1>1, OthersKept DEF IInv, Typed, StateTyped
<1>4. CalmInv'
  <2> SUFFICES ASSUME NoFaults' PROVE (ServedInv /\ TokenInv /\ ModeInv)'
      BY DEF CalmInv
  <2>1. ServedInv /\ TokenInv /\ ModeInv
      BY <1>1, CalmBefore DEF IInv, Typed, CalmInv
  <2>2. \A c \in Backends : Listening(c) => Listening(c)' /\ backends'[c] = backends[c]
      BY <1>1, <1>2 DEF Listening
  <2>3. \A c \in Backends : Running(c)' => Running(c) /\ backends'[c].launch = backends[c].launch
      BY <1>1, <1>2 DEF Running
  <2>4. ServedInv'
    <3>1. runtime.backend # Null => runtime.backend \in Backends
        BY DEF IInv, Typed, RuntimeTyped
    <3> QED BY <1>1, <2>1, <2>2, <3>1 DEF ServedInv, Listening
  <2>5. TokenInv'
      BY <1>1, <2>1, <2>2, <2>3 DEF TokenInv, Listening
  <2>6. (Busy => Busy') /\ SettledMode' = SettledMode
      BY <1>1 DEF Busy, SettledMode
  <2> QED BY <1>1, <2>1, <2>4, <2>5, <2>6, ModeKept
<1> QED BY <1>2, <1>3, <1>4 DEF IInv, Typed

LEMMA DieKeeps == ASSUME IInv, NEW b \in Backends, Die(b) PROVE IInv'
<1>1. /\ Fault /\ backends' = [backends EXCEPT ![b] = Exit(b)]
      /\ UNCHANGED <<postgres, exposure, astray, main, boot, monitor, status, flags, runtime,
                     token>>
    BY DEF Die, settings
<1>2. BackendsTyped'
    BY <1>1 DEF IInv, Typed, BackendsTyped, Process, ProcessState, Exit
<1>3. /\ MainTyped' /\ BootTyped' /\ MonitorTyped' /\ RuntimeTyped' /\ StateTyped'
      /\ MainInv' /\ TaskInv' /\ WatchInv'
    BY <1>1, OthersKept, FaultSpends DEF IInv, Typed
<1>4. CalmInv'
    BY <1>1, FaultSpends DEF IInv, Typed, CalmInv
<1> QED BY <1>2, <1>3, <1>4 DEF IInv, Typed

-----------------------------------------------------------------------------
(***************************************************************************)
(* The theorems.                                                           *)
(***************************************************************************)

\* A step that changes nothing keeps the invariant.
LEMMA StutterKeeps == ASSUME IInv, UNCHANGED vars PROVE IInv'
<1>1. UNCHANGED <<backends, postgres, exposure, astray, main, boot, monitor, status, flags,
                  runtime,
                  token, budget>>
    BY DEF vars, processes, settings
<1>2. BackendsTyped'
    BY <1>1 DEF IInv, Typed, BackendsTyped
<1>3. /\ MainTyped' /\ BootTyped' /\ MonitorTyped' /\ RuntimeTyped' /\ StateTyped'
      /\ MainInv' /\ TaskInv' /\ WatchInv'
    BY <1>1, OthersKept DEF IInv, Typed, StateTyped
<1>4. CalmInv'
  <2> SUFFICES ASSUME NoFaults' PROVE (ServedInv /\ TokenInv /\ ModeInv)'
      BY DEF CalmInv
  <2>1. ServedInv /\ TokenInv /\ ModeInv
      BY <1>1, CalmBefore DEF IInv, Typed, CalmInv
  <2>2. (Busy => Busy') /\ SettledMode' = SettledMode
      BY <1>1 DEF Busy, SettledMode
  <2> QED BY <1>1, <2>1, <2>2, ServedKept, TokenKept, ModeKept
<1> QED BY <1>2, <1>3, <1>4 DEF IInv, Typed

\* Every step keeps the invariant.
LEMMA NextKeepsIInv == IInv /\ [Next]_vars => IInv'
<1> SUFFICES ASSUME IInv, [Next]_vars PROVE IInv'
    OBVIOUS
<1>1. CASE Main
    BY <1>1, MainKeeps
<1>2. CASE \E t \in Tasks : BootstrapRuntime(t)
    BY <1>2, BootstrapKeeps
<1>3. CASE Monitor
    BY <1>3, MonitorKeeps
<1>4. CASE \E b \in Backends : Bind(b) \/ Die(b)
    BY <1>4, BindKeeps, DieKeeps
<1>5. CASE UNCHANGED vars
    BY <1>5, StutterKeeps
<1> QED BY <1>1, <1>2, <1>3, <1>4, <1>5 DEF Next

\* The invariant holds in every state that can be reached.
LEMMA IInvHolds == Spec => []IInv
BY InitIInv, NextKeepsIInv, PTL DEF Spec

\* Every state the threads of the shell reach is one of the types of sidecar.rs: no
\* thread is ever at a step, or holds a process or a launch, that it cannot have.
THEOREM SidecarTypeCorrect == Spec => []TypeOK
<1>1. IInv => TypeOK
  <2> SUFFICES ASSUME IInv PROVE TypeOK
      OBVIOUS
  <2>1. /\ BackendsTyped /\ MainTyped /\ BootTyped /\ MonitorTyped /\ RuntimeTyped /\ StateTyped
      BY DEF IInv, Typed
  <2>2. /\ postgres \in BOOLEAN /\ exposure \in Modes /\ astray \in BOOLEAN
        /\ status \in Phase /\ token \in Nat
        /\ flags \in [bootstrapping : BOOLEAN, shuttingDown : BOOLEAN]
        /\ budget \in [commands : 0..MaxCommands, faults : 0..MaxFaults]
      BY <2>1 DEF StateTyped
  <2> QED BY <2>1, <2>2
      DEF TypeOK, BackendsTyped, MainTyped, BootTyped, MonitorTyped, RuntimeTyped, Task
<1> QED BY <1>1, IInvHolds, PTL

\* A runtime that is ready and left alone is watched, however often it was shut down and
\* started again while the monitor was about to leave (start_monitor_loop).
THEOREM ReadyRuntimeIsWatched == Spec => []ReadyIsWatched
<1>1. IInv => ReadyIsWatched
    BY DEF IInv, WatchInv, ReadyIsWatched, Quiet, Busy, StatusIsOld, Draining
<1> QED BY <1>1, IInvHolds, PTL

\* While nothing has failed, a runtime that is ready and left alone serves with the mode of
\* the settings, whatever commands overlapped its bootstraps, unless its bootstrap read a
\* mode before it was taken back or a mode was saved with no restart
\* (desktop_apply_backend_exposure_mode, desktop_set_backend_exposure_mode).
THEOREM SavedExposureServed == Spec => []ExposureInForce
<1>1. IInv => ExposureInForce
  <2> SUFFICES ASSUME IInv, budget.faults = MaxFaults, ~astray, Quiet, status = "ready"
               PROVE  \E b \in Backends : Listening(b) /\ backends[b].launch.mode = exposure
      BY DEF ExposureInForce
  <2>1. ServedInv /\ ModeInv
      BY DEF IInv, CalmInv, NoFaults
  <2>2. InForce
      BY <2>1 DEF ModeInv, ModeAgrees, Quiet, Busy, StatusIsOld, Draining
  <2>3. SettledMode = exposure
      BY DEF Quiet, SettledMode
  <2>4. runtime.backend \in Backends
      BY <2>2 DEF IInv, Typed, RuntimeTyped, InForce
  <2> QED BY <2>1, <2>2, <2>3, <2>4 DEF ServedInv, InForce
<1> QED BY <1>1, IInvHolds, PTL

=============================================================================
