------------------------------- MODULE Sidecar ------------------------------
(***************************************************************************)
(* The supervision of PostgreSQL and the backend by the desktop shell      *)
(* (apps/desktop/src-tauri/src/sidecar.rs).  Three kinds of threads share  *)
(* the runtime state:                                                      *)
(*   - the main thread runs the commands of the window one at a time, and  *)
(*     the exit of the application;                                        *)
(*   - a bootstrap task starts PostgreSQL and the backend; a second one    *)
(*     may be started while the first is about to report its result;       *)
(*   - the monitor restarts a backend that has exited.                     *)
(* The processes themselves, PostgreSQL and backends, outlive the shell.   *)
(***************************************************************************)
EXTENDS Integers, FiniteSets

CONSTANTS
    Backends,       \* process ids for backends
    Modes,          \* BackendExposureMode: the addresses a backend may bind
    DefaultMode,    \* the mode of a fresh installation
    Tasks,          \* slots for bootstrap tasks
    MaxRestarts,    \* MAX_BACKEND_RESTARTS
    MaxCommands,    \* bound: commands given and exits of the shell
    MaxFaults,      \* bound: backends that exit by themselves, operations that fail or
                    \* exceed their time, crashes of the shell
    Null            \* an Option that is None

ASSUME SidecarAssumption ==
    /\ DefaultMode \in Modes
    /\ MaxRestarts \in Nat \ {0} /\ MaxCommands \in Nat /\ MaxFaults \in Nat
    /\ Null \notin Backends \cup Modes

VARIABLES
    backends,       \* the backend processes of the machine
    postgres,       \* is PostgreSQL running
    exposure,       \* the exposure mode in its file
    astray,         \* auxiliary: the mode in the file is not the one the last bootstrap was
                    \* meant to use; it read a mode that is taken back, or a mode was
                    \* saved with no restart
    main,           \* what the main thread is doing
    boot,           \* what each bootstrap task is doing
    monitor,        \* what the monitor thread is doing
    status,         \* RuntimeStateInner.status, its phase
    flags,          \* is_bootstrapping and shutting_down
    runtime,        \* ManagedRuntime, behind its mutex
    token,          \* the bootstrap token generated last
    budget          \* the commands and faults still to come

processes == <<backends, postgres>>
settings  == <<exposure, astray>>
vars == <<processes, settings, main, boot, monitor, status, flags, runtime, token, budget>>

-----------------------------------------------------------------------------

Phase == {"starting", "recovering", "ready", "failed"}

Launch == [token : Nat, mode : Modes]

ProcessState == {"none", "starting", "listening", "exited"}

Process == [state : ProcessState, launch : Launch \cup {Null}]

MainStep == {"idle", "check", "drain", "start", "poll", "takeback", "backup", "restore",
             "closed"}
BootStep == {"none", "drain", "prepare", "launch", "await", "register", "clear", "report"}
MonitorStep == {"none", "check", "leave", "inspect", "recover", "attempt", "await", "adopt"}

NoProcess == [state |-> "none", launch |-> Null]
NoTask    == [step |-> "none", launch |-> Null, child |-> Null, ok |-> FALSE]
NoMonitor == [step |-> "none", launch |-> Null, child |-> Null, attempt |-> 0]
NoRuntime == [backend |-> Null, launch |-> Null, postgres |-> FALSE]
MainIdle  == [step |-> "idle", for |-> "none", previous |-> Null]
\* The setup of the application has the first bootstrap started, before the window
\* can give a command.
Opening   == [MainIdle EXCEPT !.step = "start"]

TypeOK ==
    /\ backends \in [Backends -> Process]
    /\ postgres \in BOOLEAN
    /\ exposure \in Modes /\ astray \in BOOLEAN
    /\ main \in [step : MainStep, for : {"none", "expose", "restore", "exit"},
                 previous : Modes \cup {Null}]
    /\ boot \in [Tasks -> [step : BootStep, launch : Launch \cup {Null},
                           child : Backends \cup {Null}, ok : BOOLEAN]]
    /\ monitor \in [step : MonitorStep, launch : Launch \cup {Null},
                    child : Backends \cup {Null}, attempt : 0..MaxRestarts]
    /\ status \in Phase
    /\ flags \in [bootstrapping : BOOLEAN, shuttingDown : BOOLEAN]
    /\ runtime \in [backend : Backends \cup {Null}, launch : Launch \cup {Null},
                    postgres : BOOLEAN]
    /\ token \in Nat
    /\ budget \in [commands : 0..MaxCommands, faults : 0..MaxFaults]

Init ==
    /\ backends = [b \in Backends |-> NoProcess]
    /\ postgres = FALSE
    /\ exposure = DefaultMode /\ astray = FALSE
    /\ main = Opening
    /\ boot = [t \in Tasks |-> NoTask]
    /\ monitor = NoMonitor
    /\ status = "starting"
    /\ flags = [bootstrapping |-> FALSE, shuttingDown |-> FALSE]
    /\ runtime = NoRuntime
    /\ token = 0
    /\ budget = [commands |-> MaxCommands, faults |-> MaxFaults]

-----------------------------------------------------------------------------
(***************************************************************************)
(* Processes.  Only one can listen on the backend port: a backend that     *)
(* finds it taken exits.                                                   *)
(***************************************************************************)

Listening(b) == backends[b].state = "listening"
Running(b)   == backends[b].state \in {"starting", "listening"}

PortTaken == \E b \in Backends : Listening(b)

\* A process id is free again once its exit has been noticed or its handle dropped.
Held == {runtime.backend, monitor.child} \cup {boot[t].child : t \in Tasks}
FreeIds == {b \in Backends : ~Running(b)} \ Held

Exit(b) == [backends[b] EXCEPT !.state = "exited", !.launch = Null]

\* is_local_port_listening and try_free_port: whoever holds the port is killed.
FreedPort == [b \in Backends |-> IF Listening(b) THEN Exit(b) ELSE backends[b]]

\* health_request: the process on the port answers, with the token expected.
Healthy(launch) == \E b \in Backends : Listening(b) /\ backends[b].launch.token = launch.token

\* The one assumption about time.  Starting a process, stopping one in vain, waiting
\* in vain, a backup and a restore take seconds: by then every thread whose next
\* step only touches memory has taken it.
Prompt == /\ \A t \in Tasks : boot[t].step \notin {"register", "clear", "report"}
          /\ monitor.step \notin {"leave", "recover", "adopt"}
          /\ main.step # "drain"

\* The backend comes up, or exits: because the port is taken, or by a fault.
Bind(b) ==
    /\ backends[b].state = "starting"
    /\ Prompt
    /\ backends' = [backends EXCEPT ![b] = IF PortTaken THEN Exit(b)
                                           ELSE [@ EXCEPT !.state = "listening"]]
    /\ UNCHANGED <<postgres, settings, main, boot, monitor, status, flags, runtime, token,
                   budget>>

Fault == /\ budget.faults > 0
         /\ budget' = [budget EXCEPT !.faults = @ - 1]

Die(b) ==
    /\ Running(b)
    /\ Fault
    /\ backends' = [backends EXCEPT ![b] = Exit(b)]
    /\ UNCHANGED <<postgres, settings, main, boot, monitor, status, flags, runtime, token>>

-----------------------------------------------------------------------------
(***************************************************************************)
(* Starting and draining the runtime.                                      *)
(***************************************************************************)

FreeTask == {t \in Tasks : boot[t].step = "none"}

\* start_runtime_bootstrap: nothing if a bootstrap is under way.
StartRuntimeBootstrap ==
    IF flags.bootstrapping
      THEN UNCHANGED <<boot, status, flags>>
      ELSE \E t \in FreeTask :
             /\ flags' = [bootstrapping |-> TRUE, shuttingDown |-> FALSE]
             /\ status' = "starting"
             /\ boot' = [boot EXCEPT ![t].step = "drain"]

\* drain_runtime_for_shutdown: the registered backend is terminated, if it still runs.
Terminated == IF runtime.backend # Null /\ Running(runtime.backend)
                THEN [backends EXCEPT ![runtime.backend] = Exit(runtime.backend)]
                ELSE backends

\* PostgreSQL is stopped only if the runtime knows of it.
PostgresStopped == postgres' = (postgres /\ ~runtime.postgres)

\* pg_ctl stop fails or exceeds its time.
PostgresKept == Fault /\ postgres /\ runtime.postgres /\ UNCHANGED postgres

-----------------------------------------------------------------------------
(***************************************************************************)
(* The main thread: the application's start and exit and its commands.     *)
(***************************************************************************)

Command ==
    /\ main.step = "idle"
    /\ budget.commands > 0
    /\ budget' = [budget EXCEPT !.commands = @ - 1]

\* retry_bootstrap; the repairs and the reset differ from it in what they
\* request of the bootstrap they start.
RetryBootstrap ==
    /\ Command
    /\ ~flags.bootstrapping
    /\ StartRuntimeBootstrap
    /\ UNCHANGED <<processes, settings, main, monitor, runtime, token>>

\* Seeded fault: the mode it replaces is not read.
ApplyExposureModeBlind(mode) ==
    /\ Command
    /\ exposure' = mode
    /\ main' = [main EXCEPT !.step = "check", !.for = "expose"]
    /\ UNCHANGED <<processes, astray, boot, monitor, status, flags, runtime, token>>

\* desktop_apply_backend_exposure_mode: the mode is saved before anything is
\* checked, and saved back when the command fails.
ApplyExposureMode(mode) ==
    /\ Command
    /\ exposure' = mode
    /\ main' = [step |-> "check", for |-> "expose", previous |-> exposure]
    /\ UNCHANGED <<processes, astray, boot, monitor, status, flags, runtime, token>>

\* A bootstrap under way refuses it, and may read the mode before it is saved back.
ExposureChecked ==
    /\ main.step = "check"
    /\ IF flags.bootstrapping
         THEN main' = [main EXCEPT !.step = "takeback"] /\ UNCHANGED flags
         ELSE /\ main' = [main EXCEPT !.step = "drain"]
              /\ flags' = [flags EXCEPT !.shuttingDown = TRUE]
    /\ UNCHANGED <<processes, settings, boot, monitor, status, runtime, token, budget>>

\* Seeded fault: a mode that is refused or fails stays in its file.
ExposureKept ==
    /\ main.step = "takeback"
    /\ main' = MainIdle
    /\ UNCHANGED <<processes, settings, boot, monitor, status, flags, runtime, token, budget>>

ExposureTakenBack ==
    /\ main.step = "takeback"
    /\ exposure' = main.previous
    /\ main' = MainIdle
    /\ UNCHANGED <<processes, astray, boot, monitor, status, flags, runtime, token, budget>>

\* desktop_set_backend_exposure_mode, and desktop_set_backend_connection with a mode.
SetExposureMode(mode) ==
    /\ Command
    /\ exposure' = mode
    /\ astray' = (astray \/ mode # exposure)
    /\ UNCHANGED <<processes, main, boot, monitor, status, flags, runtime, token>>

\* desktop_restore_backup, up to the safety backup.
RestoreBackup ==
    /\ Command
    /\ ~flags.bootstrapping
    /\ status' = "recovering"
    /\ main' = [main EXCEPT !.step = "backup", !.for = "restore"]
    /\ UNCHANGED <<processes, settings, boot, monitor, flags, runtime, token>>

\* The safety backup and the archive are good: the runtime is shut down.
RestoreChecked ==
    /\ main.step = "backup"
    /\ Prompt
    /\ main' = [main EXCEPT !.step = "drain"]
    /\ flags' = [flags EXCEPT !.shuttingDown = TRUE]
    /\ UNCHANGED <<processes, settings, boot, monitor, status, runtime, token, budget>>

\* The safety backup fails, or the archive cannot be read: the command ends.
RestoreRefused ==
    /\ main.step = "backup"
    /\ Fault
    /\ main' = MainIdle
    /\ UNCHANGED <<processes, settings, boot, monitor, status, flags, runtime, token>>

\* RunEvent::Exit.
ExitApplication ==
    /\ Command
    /\ main' = [main EXCEPT !.step = "drain", !.for = "exit"]
    /\ flags' = [flags EXCEPT !.shuttingDown = TRUE]
    /\ UNCHANGED <<processes, settings, boot, monitor, status, runtime, token>>

\* With the shell its threads and its memory end; the processes go on.
ShellEnds ==
    /\ main' = [MainIdle EXCEPT !.step = "closed"]
    /\ boot' = [t \in Tasks |-> NoTask]
    /\ monitor' = NoMonitor
    /\ runtime' = NoRuntime

\* The rest of shutdown_runtime, whose result nobody looks at.
MainDrain ==
    /\ main.step = "drain"
    /\ backends' = Terminated
    /\ \/ PostgresStopped /\ UNCHANGED budget
       \/ PostgresKept
    /\ \/ main.for = "exit" /\ ShellEnds
       \/ /\ main.for # "exit"
          /\ main' = [main EXCEPT !.step = IF main.for = "restore" THEN "restore" ELSE "start"]
          /\ runtime' = NoRuntime
          /\ UNCHANGED <<boot, monitor>>
    /\ UNCHANGED <<settings, status, flags, token>>

\* apply_restore_from_backup between its shutdown and its start: PostgreSQL runs
\* for the restore and is stopped again, whatever fails.
RestoreApplied ==
    /\ main.step = "restore"
    /\ Prompt
    /\ \/ postgres' = FALSE /\ UNCHANGED budget
       \/ postgres' = TRUE /\ Fault
    /\ main' = [main EXCEPT !.step = "start"]
    /\ UNCHANGED <<backends, settings, boot, monitor, status, flags, runtime, token>>

MainStart ==
    /\ main.step = "start"
    /\ StartRuntimeBootstrap
    /\ main' = IF main.for = "expose" THEN [main EXCEPT !.step = "poll"] ELSE MainIdle
    /\ UNCHANGED <<processes, settings, monitor, runtime, token, budget>>

\* The exposure command waits for the result of the bootstrap.
PollReady ==
    /\ main.step = "poll"
    /\ status = "ready"
    /\ main' = MainIdle
    /\ UNCHANGED <<processes, settings, boot, monitor, status, flags, runtime, token, budget>>

PollFailed ==
    /\ main.step = "poll"
    /\ \/ status = "failed" /\ UNCHANGED budget
       \/ status \notin {"ready", "failed"} /\ Fault
    /\ main' = [main EXCEPT !.step = "takeback"]
    /\ UNCHANGED <<processes, settings, boot, monitor, status, flags, runtime, token>>

\* The shell is killed.
Crash ==
    /\ main.step # "closed"
    /\ Fault
    /\ ShellEnds
    /\ UNCHANGED <<processes, settings, status, flags, token>>

\* The application is started again.
Open ==
    /\ main.step = "closed"
    /\ main' = Opening
    /\ status' = "starting"
    /\ flags' = [bootstrapping |-> FALSE, shuttingDown |-> FALSE]
    /\ UNCHANGED <<processes, settings, boot, monitor, runtime, token, budget>>

-----------------------------------------------------------------------------
(***************************************************************************)
(* bootstrap_runtime.  A failure ends it where it is: neither PostgreSQL   *)
(* nor a backend it started is stopped.                                    *)
(***************************************************************************)

Go(t, step) == boot' = [boot EXCEPT ![t].step = step]

\* shutdown_existing_runtime.
BootDrain(t) ==
    /\ boot[t].step = "drain"
    /\ backends' = Terminated
    /\ runtime' = NoRuntime
    /\ \/ PostgresStopped /\ UNCHANGED budget /\ Go(t, "prepare")
       \/ PostgresKept /\ Prompt /\ Go(t, "clear")
    /\ UNCHANGED <<settings, main, monitor, status, flags, token>>

\* The configuration with a new token and the exposure mode, read at any moment of a
\* command that has saved one and may take it back; then ensure_postgres_ready and the
\* migrations, which may fail on the way.
BootPrepare(t) ==
    /\ boot[t].step = "prepare"
    /\ Prompt
    /\ token' = token + 1
    /\ \/ /\ postgres' = TRUE
          /\ boot' = [boot EXCEPT ![t].step = "launch",
                                  ![t].launch = [token |-> token', mode |-> exposure]]
          /\ UNCHANGED budget
       \/ /\ postgres' \in {postgres, TRUE}
          /\ Fault
          /\ Go(t, "clear")
    /\ astray' = (main.step \in {"check", "takeback"} /\ exposure # main.previous)
    /\ status' = "starting"
    /\ UNCHANGED <<backends, exposure, main, monitor, flags, runtime>>

\* A backend that is healthy with the new token does not exist; one with another
\* token is a stale process and loses the port.
BootLaunch(t) ==
    /\ boot[t].step = "launch"
    /\ \/ \E b \in FreeIds :
            /\ backends' = [FreedPort EXCEPT ![b] = [state |-> "starting",
                                                     launch |-> boot[t].launch]]
            /\ boot' = [boot EXCEPT ![t].step = "await", ![t].child = b]
            /\ UNCHANGED budget
       \/ Fault /\ Go(t, "clear") /\ UNCHANGED backends
    /\ status' = "starting"
    /\ UNCHANGED <<postgres, settings, main, monitor, flags, runtime, token>>

\* wait_for_backend_health: the child is forgotten if the time is over.
BootAwait(t) ==
    /\ boot[t].step = "await"
    /\ \/ Healthy(boot[t].launch) /\ Go(t, "register") /\ UNCHANGED budget
       \/ /\ ~Healthy(boot[t].launch) /\ Prompt
          /\ IF Running(boot[t].child) THEN Fault ELSE UNCHANGED budget
          /\ boot' = [boot EXCEPT ![t].step = "clear", ![t].child = Null]
    /\ UNCHANGED <<processes, settings, main, monitor, status, flags, runtime, token>>

\* Seeded fault: the launch is not recorded for the monitor.
BootRegisterNoLaunch(t) ==
    /\ boot[t].step = "register"
    /\ runtime' = [backend |-> boot[t].child, launch |-> Null, postgres |-> TRUE]
    /\ boot' = [boot EXCEPT ![t].step = "clear", ![t].child = Null, ![t].ok = TRUE]
    /\ UNCHANGED <<processes, settings, main, monitor, status, flags, token, budget>>

BootRegister(t) ==
    /\ boot[t].step = "register"
    /\ runtime' = [backend |-> boot[t].child, launch |-> boot[t].launch, postgres |-> TRUE]
    /\ boot' = [boot EXCEPT ![t].step = "clear", ![t].child = Null, ![t].ok = TRUE]
    /\ UNCHANGED <<processes, settings, main, monitor, status, flags, token, budget>>

\* The rest of the task of start_runtime_bootstrap: other commands may start a
\* bootstrap before the result of this one is reported.
BootClear(t) ==
    /\ boot[t].step = "clear"
    /\ flags' = [flags EXCEPT !.bootstrapping = FALSE]
    /\ Go(t, "report")
    /\ UNCHANGED <<processes, settings, main, monitor, status, runtime, token, budget>>

\* Seeded fault: the monitor is started by the first bootstrap only.
BootReportFirst(t) ==
    /\ boot[t].step = "report"
    /\ status' = IF boot[t].ok THEN "ready" ELSE "failed"
    /\ monitor' = IF boot[t].ok /\ token = 1
                    THEN [NoMonitor EXCEPT !.step = "check"] ELSE monitor
    /\ boot' = [boot EXCEPT ![t] = NoTask]
    /\ UNCHANGED <<processes, settings, main, flags, runtime, token, budget>>

\* start_monitor_loop leaves a running monitor alone.
BootReport(t) ==
    /\ boot[t].step = "report"
    /\ status' = IF boot[t].ok THEN "ready" ELSE "failed"
    /\ monitor' = IF boot[t].ok /\ monitor.step = "none"
                    THEN [NoMonitor EXCEPT !.step = "check"] ELSE monitor
    /\ boot' = [boot EXCEPT ![t] = NoTask]
    /\ UNCHANGED <<processes, settings, main, flags, runtime, token, budget>>

-----------------------------------------------------------------------------
(***************************************************************************)
(* start_monitor_loop and recover_backend.  is_monitoring is TRUE from the *)
(* start of the thread until it leaves.                                    *)
(***************************************************************************)

MonitorGo(step) == monitor' = [monitor EXCEPT !.step = step]

MonitorAgain == monitor' = [NoMonitor EXCEPT !.step = "check"]

MonitorCheck ==
    /\ monitor.step = "check"
    /\ IF flags.shuttingDown THEN MonitorGo("leave")
                             ELSE ~flags.bootstrapping /\ MonitorGo("inspect")
    /\ UNCHANGED <<processes, settings, main, boot, status, flags, runtime, token, budget>>

MonitorLeave ==
    /\ monitor.step = "leave"
    /\ monitor' = NoMonitor
    /\ UNCHANGED <<processes, settings, main, boot, status, flags, runtime, token, budget>>

\* Under the mutex: a backend that has exited is taken out of the runtime, and one that
\* cannot be inspected is recovered as it is.
MonitorInspect ==
    /\ monitor.step = "inspect"
    /\ \/ /\ IF runtime.backend # Null /\ ~Running(runtime.backend)
               THEN runtime' = [runtime EXCEPT !.backend = Null] /\ MonitorGo("recover")
               ELSE UNCHANGED runtime /\ MonitorAgain
          /\ UNCHANGED budget
       \/ /\ runtime.backend # Null /\ Fault
          /\ MonitorGo("recover") /\ UNCHANGED runtime
    /\ UNCHANGED <<processes, settings, main, boot, status, flags, token>>

\* The launch is copied under the mutex again; without one there is no recovery.
MonitorRecover ==
    /\ monitor.step = "recover"
    /\ IF runtime.launch = Null
         THEN MonitorAgain /\ UNCHANGED status
         ELSE /\ status' = "recovering"
              /\ monitor' = [monitor EXCEPT !.step = "attempt", !.launch = runtime.launch,
                                            !.attempt = 1]
    /\ UNCHANGED <<processes, settings, main, boot, flags, runtime, token, budget>>

\* An attempt, given up without a status when the shell shuts down, and with a
\* failure when the holder of the port cannot be killed.
MonitorAttempt ==
    /\ monitor.step = "attempt"
    /\ IF flags.shuttingDown
         THEN MonitorAgain /\ UNCHANGED <<backends, status, budget>>
         ELSE \/ \E b \in FreeIds :
                   /\ backends' = [FreedPort EXCEPT ![b] = [state |-> "starting",
                                                            launch |-> monitor.launch]]
                   /\ monitor' = [monitor EXCEPT !.step = "await", !.child = b]
                   /\ UNCHANGED <<status, budget>>
              \/ /\ PortTaken
                 /\ status' = "failed"
                 /\ MonitorAgain
                 /\ UNCHANGED <<backends, budget>>
    /\ UNCHANGED <<postgres, settings, main, boot, flags, runtime, token>>

MonitorAwait ==
    /\ monitor.step = "await"
    /\ \/ /\ Healthy(monitor.launch)
          /\ MonitorGo("adopt")
          /\ UNCHANGED <<status, budget>>
       \/ /\ ~Healthy(monitor.launch) /\ Prompt
          /\ IF Running(monitor.child) THEN Fault ELSE UNCHANGED budget
          /\ IF monitor.attempt < MaxRestarts
               THEN /\ monitor' = [monitor EXCEPT !.step = "attempt", !.child = Null,
                                                  !.attempt = @ + 1]
                    /\ UNCHANGED status
               ELSE MonitorAgain /\ status' = "failed"
    /\ UNCHANGED <<processes, settings, main, boot, flags, runtime, token>>

\* Under the mutex.
MonitorAdopt ==
    /\ monitor.step = "adopt"
    /\ runtime' = [runtime EXCEPT !.backend = monitor.child]
    /\ status' = "ready"
    /\ MonitorAgain
    /\ UNCHANGED <<processes, settings, main, boot, flags, token, budget>>

-----------------------------------------------------------------------------

Main == \/ RetryBootstrap
        \/ \E mode \in Modes : ApplyExposureMode(mode) \/ SetExposureMode(mode)
        \/ ExposureChecked \/ ExposureTakenBack
        \/ RestoreBackup \/ RestoreChecked \/ RestoreRefused
        \/ ExitApplication \/ MainDrain \/ RestoreApplied \/ MainStart
        \/ PollReady \/ PollFailed \/ Crash \/ Open

BootstrapRuntime(t) ==
    \/ BootDrain(t) \/ BootPrepare(t) \/ BootLaunch(t) \/ BootAwait(t)
    \/ BootRegister(t) \/ BootClear(t) \/ BootReport(t)

Monitor == \/ MonitorCheck \/ MonitorLeave \/ MonitorInspect \/ MonitorRecover
           \/ MonitorAttempt \/ MonitorAwait \/ MonitorAdopt

Next == \/ Main
        \/ \E t \in Tasks : BootstrapRuntime(t)
        \/ Monitor
        \/ \E b \in Backends : Bind(b) \/ Die(b)

Spec == Init /\ [][Next]_vars

\* Every thread goes on, and a backend that starts comes up or exits.  Nobody
\* must give a command, and nothing must fail.
Fairness ==
    /\ WF_vars(ExposureChecked \/ ExposureTakenBack \/ RestoreChecked \/ MainDrain
               \/ RestoreApplied \/ MainStart \/ PollReady \/ PollFailed)
    /\ \A t \in Tasks : WF_vars(BootstrapRuntime(t))
    /\ WF_vars(Monitor)
    /\ \A b \in Backends : WF_vars(Bind(b))

FairSpec == Spec /\ Fairness

-----------------------------------------------------------------------------
(***************************************************************************)
(* Properties.                                                             *)
(***************************************************************************)

\* Nothing is under way in the shell.
Quiet == /\ main.step = "idle"
         /\ \A t \in Tasks : boot[t].step = "none"
         /\ monitor.step \in {"none", "check", "leave", "inspect"}

\* A runtime that is ready and left alone is watched: the monitor runs.  A monitor
\* that leaves for a shutdown while the next start is under way must be replaced.
ReadyIsWatched == Quiet /\ status = "ready" => monitor.step # "none"

\* While nothing has failed, a runtime that is ready and left alone serves with the
\* exposure mode of the settings, whatever commands overlapped its bootstraps: a mode
\* that was refused or could not be applied has been taken back.  The two exceptions of
\* the code are astray: a bootstrap that read the mode before it was taken back, and a
\* mode that a command saved with no restart, until the next bootstrap.
ExposureInForce ==
    budget.faults = MaxFaults /\ ~astray /\ Quiet /\ status = "ready"
        => \E b \in Backends : Listening(b) /\ backends[b].launch.mode = exposure

\* In the end ready is true: the registered backend is the one that listens.  One
\* that exits, at any moment of a bootstrap or a recovery, is replaced or the
\* status is failed.
ReadyIsServed ==
    <>[](main.step # "closed" /\ status = "ready"
            => runtime.backend # Null /\ Listening(runtime.backend))

=============================================================================
