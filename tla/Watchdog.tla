------------------------------ MODULE Watchdog ------------------------------
(***************************************************************************)
(* The Windows service watchdog (MSWindowsWatchdog) inside the daemon      *)
(* (DaemonApp), with the processes it launches.                            *)
(*                                                                         *)
(* Three threads of the service share the watchdog's members without a    *)
(* lock (only m_ready is guarded by m_mutex):                              *)
(*   - the monitor thread, mainLoop, whose program counter is mpc;         *)
(*   - the output thread, outputLoop, whose program counter is opc;        *)
(*   - the daemon's event thread, which runs handleIpcMessage (setCommand) *)
(*     and, when the service stops, stop(); its program counter is epc.   *)
(* The operating system is the environment: workers exit (crash, or obey   *)
(* the IPC shutdown request), write log chunks to the shared output pipe,  *)
(* the syntool probe prints the active desktop and exits, and the login    *)
(* screen (logonui.exe) comes and goes.                                    *)
(*                                                                         *)
(* Each step is one access, or a run of accesses no other thread can tell  *)
(* apart, of the shared members.  Sleeps, logging, handles and tokens are  *)
(* left out; a thread may be preempted between any two steps.              *)
(***************************************************************************)
EXTENDS Naturals, Sequences, FiniteSets

CONSTANTS
    Commands,           \* non-empty command lines (model values)
    Empty,              \* the empty command line
    Quotes,             \* the command line "" (two quote characters)
    SentCommands,       \* command lines the GUI may send over IPC
    Elevations,         \* elevate flags the GUI and the settings may give
    StoredCommand,      \* command lines the "Command" setting may hold at start
    MaxCommands,        \* bound on IPC command messages
    MaxPid,             \* the OS hands out process ids 1..MaxPid
    FailCap,            \* m_processFailures saturates here (see Fail)
    OsFailures,         \* OS calls that may fail in this model
    Texts,              \* output chunks that may be read from the pipe
    WorkerText,         \* chunks a worker may write
    SyntoolText,        \* [BOOLEAN -> SUBSET Texts]: syntool's chunks, by login screen
    PipeCap,            \* chunks the pipe buffers before writers block
    CharSize,           \* sizeof(wchar_t), for testOutput
    MaxRestarts         \* bound on crashes of the service that it restarts from

ASSUME /\ Empty \notin Commands
       /\ Quotes \notin Commands \cup {Empty}
       /\ SentCommands \subseteq Commands \cup {Empty, Quotes}
       /\ StoredCommand \subseteq Commands \cup {Empty}
       /\ Elevations \subseteq BOOLEAN /\ Elevations # {}
       /\ MaxCommands \in Nat /\ MaxRestarts \in Nat /\ MaxPid \in Nat /\ PipeCap \in Nat \ {0}
       /\ FailCap \in Nat \ {0}
       /\ OsFailures \subseteq {"snapshot", "pipe", "winlogon", "token", "environment",
                             "create", "settings"}
       /\ WorkerText \subseteq Texts
       /\ SyntoolText \in [BOOLEAN -> SUBSET Texts]

\* MAXIMUM_WAIT_TIME: condition-variable waits in getActiveDesktop.
MAXIMUM_WAIT_TIME == 3

Pids == 1..MaxPid
NoPid == 0                    \* a zeroed PROCESS_INFORMATION

VARIABLES
    \* MSWindowsWatchdog members
    command,            \* m_command
    commandChanged,     \* m_commandChanged
    elevateProcess,     \* m_elevateProcess
    autoElevated,       \* m_autoElevated
    processFailures,    \* m_processFailures
    processRunning,     \* m_processRunning
    monitoring,         \* m_monitoring
    ready,              \* m_ready (under m_mutex)
    handle,             \* m_processInfo.dwProcessId
    \* locals of the monitor thread
    mpc,                \* program counter of mainLoop
    savedElevate,       \* local elevateProcess in getActiveDesktop
    waitTime,           \* local waitTime in getActiveDesktop
    \* output thread
    opc,                \* program counter of outputLoop
    pipe,               \* chunks buffered in the m_stdOutRead pipe
    \* event thread
    epc,                \* program counter of the daemon's event thread
    sent,               \* IPC command messages handled so far
    restarts,           \* times the service crashed and was started again
    \* operating system
    kind,               \* [Pids -> {"free", "worker", "syntool"}]
    alive,              \* pids of processes that have not exited
    atLogin,            \* logonui.exe runs in the active session
    setting,            \* the "Command" and "Elevate" settings in the registry
    \* history, for properties
    requested,          \* elevate flag of the last setCommand
    autoLatched,        \* startProcess copied m_autoElevated into m_elevateProcess
                        \* since the last setCommand
    autoOwed            \* testOutput raised m_autoElevated and neither a
                        \* startProcess has folded it in nor a setCommand
                        \* has overridden it since

LOCAL Sentinel == INSTANCE DesktopSentinel

member  == <<command, commandChanged, elevateProcess, autoElevated, processFailures,
             processRunning, monitoring, ready, handle>>
monitor == <<mpc, savedElevate, waitTime>>
output  == <<opc, pipe>>
events  == <<epc, sent, restarts>>
os      == <<kind, alive, atLogin, setting>>
history == <<requested, autoLatched, autoOwed>>
vars    == <<member, monitor, output, events, os, history>>

Workers == {p \in Pids : kind[p] = "worker"}
LiveWorkers == alive \cap Workers
FreePids == {p \in Pids : kind[p] = "free"}

\* The id the OS gives the next process: which one is irrelevant, so the
\* lowest free one.
NewPid == CHOOSE p \in FreePids : \A q \in FreePids : p <= q

-----------------------------------------------------------------------------
(* Helpers shared by several steps.                                        *)

\* The catch blocks of mainLoop (lines 236-247): count the failure, forget
\* the process, and go round the loop.  The count saturates at FailCap:
\* mainLoop only tests it against 0 and backs off min(2f, 10) seconds,
\* and sleeps are not modelled, so counts >= 1 differ only in the log.
Fail == /\ processFailures' = IF processFailures < FailCap
                                 THEN processFailures + 1 ELSE FailCap
        /\ processRunning' = FALSE
        /\ mpc' = "loop"

\* shutdownProcess (lines 441-477) on a process: if it is still active the
\* worker is asked over IPC to stop, and is waited for or, after the timeout,
\* terminated.  Either way it has exited when the call returns.
shutdownProcess(p) == alive' = alive \ {p}

\* setCommand (lines 375-383).
setCommand(c, e) == /\ command' = c
                    /\ elevateProcess' = e
                    /\ commandChanged' = TRUE
                    /\ processFailures' = 0

\* getUserToken (lines 136-161) takes the elevated path, which needs a
\* token from winlogon.exe.
ElevatedPath == elevateProcess \/ autoElevated \/ atLogin

WinlogonMissing == "winlogon" \in OsFailures

\* duplicateProcessToken (lines 104-134) on winlogon's process: XArch when
\* OpenProcessToken or DuplicateTokenEx fails.
duplicateProcessTokenFails == "token" \in OsFailures

\* Mutant of isProcessActive: the exit-code test inverted.
isProcessActiveInverted == handle \notin alive

\* isProcessActive (lines 257-263): GetExitCodeProcess on m_processInfo
\* gives STILL_ACTIVE.
isProcessActive == handle \in alive

-----------------------------------------------------------------------------
(* Initial state: DaemonApp::mainLoop has built the watchdog (constructor) *)
(* and passed it the last known command before startAsync.                *)

\* DaemonApp::mainLoop, lines 233-238: the command and elevation the last
\* kIpcCommand saved are read back from the settings and handed to the
\* watchdog's setCommand before startAsync, unless the command is empty.
\* (Line 234 as written lacks a parenthesis; it is read as
\* setting(L"Elevate") == L"1", the form line 368 saves.)
LastKnownCommand ==
    LET restored == setting.command # Empty
    IN  /\ command = setting.command
        /\ elevateProcess = (restored /\ setting.elevate)
        /\ commandChanged = restored
        /\ requested = (restored /\ setting.elevate)

\* The constructor (lines 49-70) and mainLoop's start-up in DaemonApp: the
\* members, the threads' first steps, and the command from the settings.
WatchdogCreated ==
    /\ LastKnownCommand
    /\ autoElevated = FALSE
    /\ processFailures = 0
    /\ processRunning = FALSE
    /\ monitoring = TRUE
    /\ ready = FALSE
    /\ handle = NoPid
    /\ mpc = "sweep"
    /\ savedElevate = FALSE
    /\ waitTime = 0
    /\ opc = "check"
    /\ pipe = <<>>
    /\ epc = "events"
    /\ autoLatched = FALSE
    /\ autoOwed = FALSE

Init ==
    /\ \E c \in StoredCommand, e \in Elevations :
          setting = [command |-> c, elevate |-> e]
    /\ WatchdogCreated
    /\ sent = 0
    /\ kind = [p \in Pids |-> "free"]
    /\ alive = {}
    /\ atLogin \in BOOLEAN
    /\ restarts = 0

-----------------------------------------------------------------------------
(* Monitor thread: mainLoop (lines 163-256) and what it calls.             *)

\* Lines 166-184: shutdownExistingProcesses shuts down every synergyc/synergys
\* process, then the output pipe is created.  A failed snapshot or pipe
\* throws out of mainLoop, outside its try block: the thread ends.
StartupSweep ==
    /\ mpc = "sweep"
    /\ \/ /\ alive' = alive \ Workers
          /\ processRunning' = FALSE
          /\ mpc' = "loop"
       \/ /\ "pipe" \in OsFailures
          /\ alive' = alive \ Workers
          /\ processRunning' = FALSE
          /\ mpc' = "done"
       \/ /\ "snapshot" \in OsFailures
          /\ \E stopped \in SUBSET LiveWorkers : alive' = alive \ stopped
          /\ mpc' = "done"
          /\ UNCHANGED processRunning
    /\ UNCHANGED <<command, commandChanged, elevateProcess, autoElevated,
                   processFailures, monitoring, ready, handle, savedElevate, waitTime,
                   output, events, kind, atLogin, setting, history>>

\* Lines 186-206: the loop test, the empty-command check, the backoff and
\* the decision to start.  m_session.hasChanged() is the environment's.
LoopHead ==
    /\ mpc = "loop"
    /\ mpc' = CASE ~monitoring                         -> "exit"
                [] processRunning /\ command = Empty   -> "sweepLoop"
                [] command # Empty /\ (processFailures # 0 \/ commandChanged)
                                                       -> "start"
                [] OTHER                               -> "check"
    /\ UNCHANGED <<member, savedElevate, waitTime, output, events, os, history>>

\* The session may have changed (line 203): start even without a failure or
\* a new command.
SessionChanged ==
    /\ mpc = "loop"
    /\ monitoring
    /\ ~(processRunning /\ command = Empty)
    /\ command # Empty
    /\ mpc' = "start"
    /\ UNCHANGED <<member, savedElevate, waitTime, output, events, os, history>>

\* Lines 189-193: command cleared while running: shut down every worker.
\* A failing snapshot throws into the catch block after shutting down some.
SweepInLoop ==
    /\ mpc = "sweepLoop"
    /\ \/ /\ alive' = alive \ Workers
          /\ processRunning' = FALSE
          /\ mpc' = "loop"
          /\ UNCHANGED processFailures
       \/ /\ "snapshot" \in OsFailures
          /\ \E stopped \in SUBSET LiveWorkers : alive' = alive \ stopped
          /\ Fail
    /\ UNCHANGED <<command, commandChanged, elevateProcess, autoElevated, monitoring,
                   ready, handle, savedElevate, waitTime, output, events, kind,
                   atLogin, setting, history>>

\* Mutant of StartProcess: m_processRunning is left set after the shutdown.
StartProcessKeepsRunning ==
    /\ mpc = "start"
    /\ \/ /\ command = Empty
          /\ Fail
          /\ UNCHANGED <<commandChanged, alive>>
       \/ /\ command # Empty
          /\ commandChanged' = FALSE
          /\ IF processRunning THEN shutdownProcess(handle) ELSE UNCHANGED alive
          /\ mpc' = "probe"
          /\ UNCHANGED <<processFailures, processRunning>>
    /\ UNCHANGED <<command, elevateProcess, autoElevated, monitoring, ready, handle,
                   savedElevate, waitTime, output, events, kind, atLogin, setting, history>>

\* startProcess, lines 275-287: refuse an empty m_command, clear
\* m_commandChanged and shut down the running process.
StartProcess ==
    /\ mpc = "start"
    /\ \/ /\ command = Empty
          /\ Fail
          /\ UNCHANGED <<commandChanged, alive>>
       \/ /\ command # Empty
          /\ commandChanged' = FALSE
          /\ IF processRunning THEN shutdownProcess(handle) ELSE UNCHANGED alive
          /\ processRunning' = FALSE
          /\ mpc' = "probe"
          /\ UNCHANGED processFailures
    /\ UNCHANGED <<command, elevateProcess, autoElevated, monitoring, ready, handle,
                   savedElevate, waitTime, output, events, kind, atLogin, setting, history>>

\* getActiveDesktop, lines 546-548: remember m_elevateProcess and force it.
ProbeElevate ==
    /\ mpc = "probe"
    /\ savedElevate' = elevateProcess
    /\ elevateProcess' = TRUE
    /\ mpc' = "probeToken"
    /\ UNCHANGED <<command, commandChanged, autoElevated, processFailures,
                   processRunning, monitoring, ready, handle, waitTime,
                   output, events, os, history>>

\* getActiveDesktop, lines 549-561: get a token (winlogon.exe may be
\* missing: the exception skips the restore of line 550), restore
\* m_elevateProcess, and launch syntool with doStartProcess (which zeroes
\* m_processInfo, may fail to build the environment block, and may fail to
\* create the process).
ProbeLaunch ==
    /\ mpc = "probeToken"
    /\ savedElevate' = FALSE             \* the local goes out of scope
    /\ \/ /\ ElevatedPath /\ (WinlogonMissing \/ duplicateProcessTokenFails)
          /\ Fail
          /\ UNCHANGED <<elevateProcess, handle, kind, alive>>
       \/ /\ elevateProcess' = savedElevate
          /\ handle' = NoPid
          /\ "environment" \in OsFailures
          /\ Fail
          /\ UNCHANGED <<kind, alive>>
       \/ /\ elevateProcess' = savedElevate
          /\ \/ /\ FreePids # {}
                /\ kind' = [kind EXCEPT ![NewPid] = "syntool"]
                /\ alive' = alive \cup {NewPid}
                /\ handle' = NewPid
             \/ /\ "create" \in OsFailures \/ FreePids = {}
                /\ handle' = NoPid
                /\ UNCHANGED <<kind, alive>>
          /\ mpc' = "probeWait"
          /\ UNCHANGED <<processFailures, processRunning>>
    /\ UNCHANGED <<command, commandChanged, autoElevated, monitoring, ready,
                   waitTime, output, events, atLogin, setting, history>>

\* Mutant of ProbeWait: the timeout test is off by one.
ProbeWaitOneMore ==
    /\ mpc = "probeWait"
    /\ IF ready \/ waitTime > MAXIMUM_WAIT_TIME
       THEN /\ ready' = FALSE
            /\ mpc' = "token"
            /\ waitTime' = 0
       ELSE /\ waitTime' = waitTime + 1
            /\ UNCHANGED <<ready, mpc>>
    /\ UNCHANGED <<command, commandChanged, elevateProcess, autoElevated,
                   processFailures, processRunning, monitoring, handle,
                   savedElevate, output, events, os, history>>

\* getActiveDesktop, lines 562-573: wait on m_condVar (1 s each) until
\* m_ready or MAXIMUM_WAIT_TIME waits, then clear m_ready.
ProbeWait ==
    /\ mpc = "probeWait"
    /\ IF ready \/ waitTime >= MAXIMUM_WAIT_TIME
       THEN /\ ready' = FALSE
            /\ mpc' = "token"
            /\ waitTime' = 0             \* the local goes out of scope
       ELSE /\ waitTime' = waitTime + 1
            /\ UNCHANGED <<ready, mpc>>
    /\ UNCHANGED <<command, commandChanged, elevateProcess, autoElevated,
                   processFailures, processRunning, monitoring, handle,
                   savedElevate, output, events, os, history>>

\* startProcess, lines 294-296: the worker's token, elevated or not; then
\* m_autoElevated is read and folded into m_elevateProcess.
GetToken ==
    /\ mpc = "token"
    /\ \/ /\ ElevatedPath /\ (WinlogonMissing \/ duplicateProcessTokenFails)
          /\ Fail
          /\ UNCHANGED <<elevateProcess, autoLatched, autoOwed>>
       \/ /\ elevateProcess' = (autoElevated \/ elevateProcess)
          /\ autoLatched' = (autoLatched \/ autoElevated)
          /\ autoOwed' = (autoOwed /\ ~autoElevated)
          /\ mpc' = "clearAuto"
          /\ UNCHANGED <<processFailures, processRunning>>
    /\ UNCHANGED <<command, commandChanged, autoElevated, monitoring, ready, handle,
                   savedElevate, waitTime, output, events, os, requested>>

\* startProcess, line 297: m_autoElevated is cleared, in a store of its own;
\* the output thread may have set it again since line 296 read it.
ClearAutoElevated ==
    /\ mpc = "clearAuto"
    /\ autoElevated' = FALSE
    /\ mpc' = "launch"
    /\ UNCHANGED <<command, commandChanged, elevateProcess, processFailures,
                   processRunning, monitoring, ready, handle, savedElevate, waitTime,
                   output, events, os, history>>

\* startProcess, lines 303-313, with doStartProcess (lines 331-373): launch
\* the worker for the current m_command.  CreateProcessAsUserW fails for an
\* empty command line.
Launch ==
    /\ mpc = "launch"
    /\ \/ /\ "environment" \in OsFailures
          /\ handle' = NoPid
          /\ Fail
          /\ UNCHANGED <<kind, alive>>
       \/ /\ "create" \in OsFailures \/ FreePids = {} \/ command = Empty
          /\ handle' = NoPid
          /\ Fail
          /\ UNCHANGED <<kind, alive>>
       \/ /\ command # Empty
          /\ FreePids # {}
          /\ kind' = [kind EXCEPT ![NewPid] = "worker"]
          /\ alive' = alive \cup {NewPid}
          /\ handle' = NewPid
          /\ mpc' = "started"
          /\ UNCHANGED <<processFailures, processRunning>>
    /\ UNCHANGED <<command, commandChanged, elevateProcess, autoElevated, monitoring,
                   ready, savedElevate, waitTime, output, events, atLogin, setting, history>>

\* startProcess, lines 315-328: after a second the process must be active.
Started ==
    /\ mpc = "started"
    /\ IF isProcessActive
       THEN /\ processRunning' = TRUE
            /\ processFailures' = 0
            /\ mpc' = "check"
       ELSE Fail
    /\ UNCHANGED <<command, commandChanged, elevateProcess, autoElevated, monitoring,
                   ready, handle, savedElevate, waitTime, output, events, os, history>>

\* Mutant of CheckActive: the dead worker is not counted as a failure.
CheckActiveNoCount ==
    /\ mpc = "check"
    /\ IF processRunning /\ ~isProcessActive
       THEN processRunning' = FALSE
       ELSE UNCHANGED processRunning
    /\ mpc' = "loop"
    /\ UNCHANGED <<command, commandChanged, elevateProcess, autoElevated, monitoring,
                   ready, handle, processFailures, savedElevate, waitTime, output,
                   events, os, history>>

\* Lines 207-233: a running process that is no longer active is a failure;
\* then the SendSAS wait or sleep ends the iteration.
CheckActive ==
    /\ mpc = "check"
    /\ IF processRunning /\ ~isProcessActive
       THEN /\ processFailures' = IF processFailures < FailCap
                                     THEN processFailures + 1 ELSE FailCap
            /\ processRunning' = FALSE
       ELSE UNCHANGED <<processFailures, processRunning>>
    /\ mpc' = "loop"
    /\ UNCHANGED <<command, commandChanged, elevateProcess, autoElevated, monitoring,
                   ready, handle, savedElevate, waitTime, output, events, os, history>>

\* Mutant of MonitorExit: the running process is left alive.
MonitorExitKeepsWorker ==
    /\ mpc = "exit"
    /\ mpc' = "done"
    /\ UNCHANGED <<member, savedElevate, waitTime, output, events, os, history>>

\* Lines 250-256: on leaving the loop, shut down the running process.
MonitorExit ==
    /\ mpc = "exit"
    /\ IF processRunning THEN shutdownProcess(handle) ELSE UNCHANGED alive
    /\ mpc' = "done"
    /\ UNCHANGED <<member, savedElevate, waitTime, output, events, kind, atLogin, setting,
                   history>>

-----------------------------------------------------------------------------
(* Output thread: outputLoop (lines 411-439) with testOutput.              *)

\* Line 416: the loop test.
OutputLoopTest ==
    /\ opc = "check"
    /\ opc' = IF monitoring THEN "read" ELSE "done"
    /\ UNCHANGED <<member, monitor, pipe, events, os, history>>

\* Lines 418-437: ReadFile blocks until a chunk is in the pipe (the service
\* holds the write end m_stdOutWrite open, so the read never fails or
\* returns 0 bytes); testOutput scans it; the chunk is relayed to the IPC and
\* file logs.  std::out_of_range from testOutput ends the thread.
OutputRead ==
    /\ opc = "read"
    /\ pipe # <<>>
    /\ pipe' = Tail(pipe)
    /\ Sentinel!testOutput(Head(pipe))
    /\ opc' = IF Sentinel!ChunkOutcome(Head(pipe)) = "out_of_range" THEN "dead"
                                                                    ELSE "check"
    /\ autoOwed' = (autoOwed \/ Sentinel!ChunkOutcome(Head(pipe)) = "elevate")
    /\ UNCHANGED <<command, commandChanged, elevateProcess, processFailures,
                   processRunning, monitoring, handle, monitor, events, os,
                   requested, autoLatched>>

-----------------------------------------------------------------------------
(* Event thread: DaemonApp::handleIpcMessage and the end of               *)
(* DaemonApp::mainLoop.                                                   *)

\* DaemonApp.cpp lines 295-381: a kIpcCommand message.  "" clears the
\* command.  The parsing of a non-empty command (log level, log file) only
\* touches the log and the command's text, which the model leaves opaque.
\* The settings are saved for the next start (a failure to save is logged
\* and ignored), then the watchdog gets the command.
Received(c) == IF c = Quotes THEN Empty ELSE c

HandleIpcCommand ==
    /\ epc = "events"
    /\ sent < MaxCommands
    /\ \E c \in SentCommands, e \in Elevations :
          /\ \/ setting' = [command |-> Received(c), elevate |-> e]
             \/ /\ "settings" \in OsFailures
                /\ UNCHANGED setting
          /\ setCommand(Received(c), e)
          /\ requested' = e
    /\ autoLatched' = FALSE
    /\ autoOwed' = FALSE
    /\ sent' = sent + 1
    /\ UNCHANGED <<autoElevated, processRunning, monitoring, ready, handle, monitor,
                   output, epc, restarts, kind, alive, atLogin>>

\* DaemonApp.cpp line 242-245, MSWindowsWatchdog::stop line 96: the event
\* loop ends and m_monitoring is cleared.
Stop ==
    /\ epc = "events"
    /\ monitoring' = FALSE
    /\ epc' = "joinMonitor"
    /\ UNCHANGED <<command, commandChanged, elevateProcess, autoElevated,
                   processFailures, processRunning, ready, handle, monitor, output,
                   sent, restarts, os, history>>

\* stop, lines 98-99 and 101-102: wait at most 5 s for each thread, then
\* delete it whether or not it has finished.
JoinMonitor ==
    /\ epc = "joinMonitor"
    /\ epc' = "joinOutput"
    /\ UNCHANGED <<member, monitor, output, sent, restarts, os, history>>

JoinOutput ==
    /\ epc = "joinOutput"
    /\ epc' = "deleted"
    /\ UNCHANGED <<member, monitor, output, sent, restarts, os, history>>

\* DaemonApp.cpp lines 246-256: the watchdog is deleted and the service
\* returns; the service process ends, and with it any thread still running.
ServiceExit ==
    /\ epc = "deleted"
    /\ epc' = "exited"
    /\ mpc' = IF mpc = "done" THEN "done" ELSE "killed"
    /\ opc' = IF opc \in {"done", "dead"} THEN opc ELSE "killed"
    /\ UNCHANGED <<member, savedElevate, waitTime, pipe, sent, restarts, os, history>>

-----------------------------------------------------------------------------
(* Operating system.                                                       *)

\* A worker exits: it crashed, or it obeyed the IPC shutdown request.
WorkerExit ==
    /\ \E p \in LiveWorkers : alive' = alive \ {p}
    /\ UNCHANGED <<member, monitor, output, events, kind, atLogin, setting, history>>

\* A worker writes a log chunk to its inherited stdout/stderr pipe.
WorkerWrite ==
    /\ epc # "exited"
    /\ LiveWorkers # {}
    /\ Len(pipe) < PipeCap
    /\ \E t \in WorkerText : pipe' = Append(pipe, t)
    /\ UNCHANGED <<member, monitor, opc, events, os, history>>

\* syntool --get-active-desktop (ToolApp.cpp) prints what it finds and exits.
SyntoolRun ==
    /\ \E p \in alive :
          /\ kind[p] = "syntool"
          /\ alive' = alive \ {p}
          /\ IF epc = "exited"
             THEN UNCHANGED pipe
             ELSE /\ Len(pipe) < PipeCap
                  /\ \E t \in SyntoolText[atLogin] : pipe' = Append(pipe, t)
    /\ UNCHANGED <<member, monitor, opc, events, kind, atLogin, setting, history>>

\* The session goes to or leaves the login screen.
LoginScreen ==
    /\ epc # "exited"
    /\ atLogin' = ~atLogin
    /\ UNCHANGED <<member, monitor, output, events, kind, alive, setting, history>>

\* The service process crashes, and its three threads with it; workers and
\* the probe are processes of their own and live on.  The service manager
\* starts it again, and DaemonApp::mainLoop builds a new watchdog from the
\* saved settings, with a new output pipe: the state of WatchdogCreated.
ServiceRestart ==
    /\ epc # "exited"
    /\ restarts < MaxRestarts
    /\ restarts' = restarts + 1
    /\ command' = setting.command
    /\ commandChanged' = (setting.command # Empty)
    /\ elevateProcess' = (setting.command # Empty /\ setting.elevate)
    /\ requested' = elevateProcess'
    /\ autoElevated' = FALSE /\ processFailures' = 0 /\ processRunning' = FALSE
    /\ monitoring' = TRUE /\ ready' = FALSE /\ handle' = NoPid
    /\ mpc' = "sweep" /\ savedElevate' = FALSE /\ waitTime' = 0
    /\ opc' = "check" /\ pipe' = <<>> /\ epc' = "events"
    /\ autoLatched' = FALSE /\ autoOwed' = FALSE
    /\ UNCHANGED <<sent, os>>

\* The service has exited: nothing of it runs any more.
Finished ==
    /\ epc = "exited"
    /\ UNCHANGED vars

-----------------------------------------------------------------------------

MonitorStep == \/ StartupSweep \/ LoopHead \/ SessionChanged \/ SweepInLoop
               \/ StartProcess \/ ProbeElevate \/ ProbeLaunch \/ ProbeWait
               \/ GetToken \/ ClearAutoElevated \/ Launch \/ Started \/ CheckActive \/ MonitorExit

OutputStep == OutputLoopTest \/ OutputRead

EventStep == HandleIpcCommand \/ Stop \/ JoinMonitor \/ JoinOutput \/ ServiceExit

Environment == WorkerExit \/ WorkerWrite \/ SyntoolRun \/ LoginScreen \/ ServiceRestart

Next == MonitorStep \/ OutputStep \/ EventStep \/ Environment \/ Finished

\* Both watchdog threads are preemptively scheduled OS threads: a thread
\* that can take a step keeps getting the CPU.  The GUI, the service manager
\* and the processes owe the watchdog nothing.
Fairness == WF_vars(MonitorStep) /\ WF_vars(OutputStep)

Spec == Init /\ [][Next]_vars /\ Fairness

-----------------------------------------------------------------------------
(* Properties.                                                             *)

MonitorPcs == {"sweep", "loop", "sweepLoop", "start", "probe", "probeToken",
               "probeWait", "token", "clearAuto", "launch", "started", "check", "exit",
               "done", "killed"}

TypeOK ==
    /\ command \in Commands \cup {Empty}
    /\ {commandChanged, elevateProcess, autoElevated, processRunning, monitoring,
        ready, savedElevate, atLogin, requested, autoLatched, autoOwed} \subseteq BOOLEAN
    /\ processFailures \in 0..FailCap
    /\ handle \in Pids \cup {NoPid}
    /\ mpc \in MonitorPcs
    /\ waitTime \in 0..MAXIMUM_WAIT_TIME
    /\ opc \in {"check", "read", "dead", "done", "killed"}
    /\ pipe \in Seq(Texts) /\ Len(pipe) <= PipeCap
    /\ epc \in {"events", "joinMonitor", "joinOutput", "deleted", "exited"}
    /\ sent \in 0..MaxCommands
    /\ restarts \in 0..MaxRestarts
    /\ kind \in [Pids -> {"free", "worker", "syntool"}]
    /\ alive \subseteq {p \in Pids : kind[p] # "free"}
    /\ setting \in [command : Commands \cup {Empty}, elevate : BOOLEAN]

\* The specification's invariant for startProcess: at most one worker
\* process runs at a time, because the previous one is shut down before a
\* new one is launched.  Takes the running flag, the crash checks, the
\* catch blocks and the GUI's commands to get right together.
AtMostOneWorker == Cardinality(LiveWorkers) <= 1

\* No worker escapes the watchdog: every live worker is the process
\* m_processInfo names, so that shutdownProcess can still reach it.  The
\* probe launches into m_processInfo (line 552), so this needs startProcess to
\* have shut the old worker down before the probe overwrites the handle,
\* and every path that clears m_processRunning to leave no worker alive.
WorkerTracked == LiveWorkers \subseteq {handle}

\* A worker outlives the service only when stop() gave up on the monitor
\* thread: its 5-second wait (line 98) can end while mainLoop is still
\* starting, checking or shutting down the worker, and the thread then
\* dies with the service.  A monitor thread that ran to its end leaves no
\* worker behind, which takes mainLoop's exit path (lines 250-256) and the
\* running flag to agree on every path that launches or loses a worker.
WorkerStopsWithService ==
    (epc = "exited" /\ LiveWorkers # {}) => mpc = "killed"

\* m_processRunning only ever vouches for a worker: while it is set,
\* m_processInfo names the worker launched last, never the syntool probe
\* that getActiveDesktop launches through the same m_processInfo.
RunningTracksWorker == processRunning => handle \in Workers

\* While the service runs, m_elevateProcess is what the GUI asked for in
\* its last setCommand, or TRUE because startProcess latched an
\* auto-elevation since then; getActiveDesktop forces it to TRUE only for
\* the probe's own token.
ElevationHonoured ==
    (epc # "exited" /\ mpc # "probeToken") =>
        elevateProcess = (requested \/ autoLatched)

\* An auto-elevation is never dropped: once testOutput has set
\* m_autoElevated for a chunk naming a secure desktop, the flag stays set
\* until startProcess reads it into m_elevateProcess (line 296) or the GUI's
\* setCommand overrides the elevation, whatever the monitor thread's
\* line-297 store and the output thread's line-587 store do in between.
AutoElevationNotLost == autoOwed => autoElevated

\* A worker found dead while a command is set is relaunched: mainLoop
\* re-enters startProcess, unless the command was cleared or the
\* watchdog is stopping.
DeadWorkerRestarted ==
    (processRunning /\ handle \notin alive)
        ~> (mpc = "start" \/ ~monitoring \/ command = Empty)
=============================================================================
