# TLA+ models of the Synergy service watchdog and its helpers

These modules model the process-supervision part of the repository: the
Windows service (`DaemonApp`), its watchdog (`MSWindowsWatchdog`), the watchdog's
output relay, and the `syntool` probe it launches. They also model the helpers
that part depends on: the file log sink, the command-line parser the daemon
uses to rewrite worker commands, and the string formatter. More helpers are
modelled: KeyInfo's screen lists, the drag-and-drop file list, the Windows
registry key walk and busy-state mask, and the Windows path helpers. The TLC
runs listed in `PROJECT.json` check them. Source paths below are relative to
`src/src/lib/`.

## 1. The system

### Components, state and operations

| Component | Source | State | Operations |
|---|---|---|---|
| Watchdog monitor thread | `platform/MSWindowsWatchdog.cpp` `mainLoop`, `startProcess`, `getActiveDesktop`, `doStartProcess`, `shutdownProcess`, `shutdownExistingProcesses` | `m_command`, `m_commandChanged`, `m_elevateProcess`, `m_autoElevated`, `m_processFailures`, `m_processRunning`, `m_monitoring`, `m_processInfo` | startup sweep; loop head; empty-command sweep; start (shut down old, probe, token, launch, immediate-exit check); crash check; exit |
| Output relay thread | `MSWindowsWatchdog.cpp` `outputLoop`, `testOutput` | `m_ready` (under `m_mutex`, with `m_condVar`), `m_autoElevated` | read a chunk from the pipe; scan it for `activeDesktop:`; signal the probe |
| Daemon application | `synergy/DaemonApp.cpp` `run` | none (pure) | argument loop (`/f`, `/install`, `/uninstall`), the catch clauses, exit code |
| Daemon event thread | `synergy/DaemonApp.cpp` `handleIpcMessage`, `mainLoop`; `MSWindowsWatchdog::setCommand`, `stop` | registry settings `Command`, `Elevate` | kIpcCommand: clear `""`, save settings, `setCommand`; stop: clear `m_monitoring`, join each thread for 5 s, delete, exit |
| syntool | `synergy/ToolApp.cpp` | none | print `activeDesktop: <name>` or an error, exit |
| Argument parser | `synergy/ArgParser.cpp` | none (pure) | split, quote, assemble, parse argv |
| String utilities | `base/String.cpp` | none (pure) | format, sprintf's retry loop, replace, split, case-insensitive compare |
| Log outputters | `base/log_outputters.cpp` | file name; bounded deque | file append + rotate at the size limit; buffered ring |
| Architecture helpers | `arch/win32/ArchMiscWindows.cpp`, `ArchFileWindows.cpp`, `arch/ArchDaemonNone.cpp` | busy-state mask; registry keys and values; directories | registry keys and values, busy state, paths, no-op daemon |
| Small helpers | `synergy/IKeyState.cpp` (KeyInfo screen lists), `DragInformation.cpp`, `DropHelper.cpp`, `XBase.cpp`, `XSocket.cpp`, `XScreen.cpp`, `MSWindowsUtil.cpp` | none | parse / format |

### How they interact

The service runs three threads that share the watchdog's members. Only
`m_ready` is protected, by `m_mutex`/`m_condVar`.

- The **monitor thread** (`mainLoop`) starts, checks and restarts the worker
  (`synergyc`/`synergys`). Before each launch it runs `getActiveDesktop`. That
  function forces `m_elevateProcess` to true, launches `syntool
  --get-active-desktop` into the same `m_processInfo` the worker uses, and waits
  up to 3 times 1 s on the condition variable.
- The **output thread** (`outputLoop`) reads the pipe that worker and syntool
  both write to. `testOutput` looks for `activeDesktop:`: it latches
  `m_autoElevated` and sets `m_ready`.
- The **event thread** runs `handleIpcMessage`: the GUI's kIpcCommand calls
  `setCommand`, which writes `m_command`, `m_elevateProcess`, `m_commandChanged`
  and `m_processFailures` without a lock. When the service stops, the event
  thread calls `stop()`.
- The **operating system** is the environment. It:
  - lets workers crash;
  - delivers their output;
  - runs syntool;
  - shows or hides the login screen (`logonui.exe`);
  - decides `m_session.hasChanged()`;
  - may fail any of the OS calls.

### Hard behaviours

- Unsynchronised read-modify-write of `m_elevateProcess` (save/force/restore in
  `getActiveDesktop`) against `setCommand`.
- `m_autoElevated` is read (line 296) and cleared (line 297) by the monitor in
  two stores, and set by the output thread in between.
- A check-then-act gap: `getCommand()` is tested at line 203, and `m_command` is
  tested again at line 275. An exception path forgets the live worker.
- `m_processInfo` is shared by the probe and the worker.
- `testOutput`'s offset `i + sizeof(g_activeDesktop) - 1` counts bytes, not
  `wchar_t` characters. `std::out_of_range` escapes and ends the output thread.
- Failures of the snapshot, pipe, winlogon token, environment block, process
  creation and the settings save, each on its own code path.
- Bounded waits:
  - the probe waits 3 × 1 s;
  - `stop()` joins each thread for 5 s;
  - `shutdownProcess` waits 20 s before it terminates the process.
- Relaunch must eventually happen after a crash.
- The service itself may crash. Its workers live on, and the restarted
  service must sweep them before it launches its own.

### Properties, by component

- Monitor:
  - every live worker is the one `m_processInfo` names (`WorkerTracked`);
    with an empty command, at most one worker alive (`AtMostOneWorker`)
    fails;
  - a worker outlives the service only when `stop()` gave up on the monitor
    thread (`WorkerStopsWithService`);
  - the running flag vouches only for a worker (`RunningTracksWorker`);
  - a dead worker is relaunched (`DeadWorkerRestarted`);
  - the GUI's elevation request is honoured (`ElevationHonoured`);
  - an auto-elevation raised by the relay is never dropped
    (`AutoElevationNotLost`).
- Relay: the scan agrees with the specification's examples (`RelayMatchesSpec`).
- Buffered log: the latest messages since the last close are kept
  (`BufferKeepsLatest`).
- File log: the most recent lines survive every rotation (`RecentLinesKept`),
  and the locked sink implements the atomic rotating log (`RotatesAtomically`).
- Command rewrite:
  - the split agrees with the unit tests' quoting (`SplitMatchesTests`);
  - the rebuilt command keeps every other argument (`RewriteKeepsArguments`);
  - the worker's command no longer names a log file (`LogArgumentRemoved`).
- Library operators, each against an independent reference:
  - `vformat`, on formats inside the header's contract
    (`FormatMatchesReference`);
  - `splitString` (`SplitStringPieces`);
  - `findReplaceAll` (`FindReplaceAllMatches`);
  - `CaselessCmp` (`CaselessStrictWeakOrder`);
  - `sprintf`, which deletes each heap buffer once and never the stack one
    (`SprintfFreesEachBuffer`);
  - KeyInfo's `join`/`split` (`KeyScreensKept`) and `contains`
    (`ContainsMatchesDestinations`);
  - DragInformation's write and read back (`DragFilesKept`).
- Architecture helpers:
  - the registry key walk opens what it may and leaks no handle
    (`OpenKeyWalksPath`);
  - every busy mode still held is in force in the OS (`BusyModesInForce`);
  - an executable's directory and name put back together give its path
    (`ModulePathSplits`).
- Daemon application: `run` starts the service only on foreground flags,
  and shows every error it exits with `kExitFailed` on, except the service
  manager's false positive (`RunFailsLoudly`).

## 2. Modules

| Module | Models | State ↔ code |
|---|---|---|
| `DesktopSentinel` | `testOutput` (lines 577-595) on one chunk | `autoElevated`, `ready`; `ChunkOutcome` is the code's find/substr/compare, with `CharSize` = `sizeof(wchar_t)`; `SpecOutcome` is the specification's reading (§ Output Relay, and the example in § Testable properties) |
| `MCDesktopSentinel` | feeds chunks to `testOutput` | `chunk`, `relay` |
| `Watchdog` | the monitor, output and event threads, and the OS | see below |
| `MCWatchdog` | texts and constants for TLC | — |
| `FileLog` | `FileLogOutputter::write` (lines 256-281) with several writers | `file`, `present` (the log and `.1` on disk), `wpc` per writer, `next` line, `owner` of CLOG's mutex |
| `RotatingLog` | what a file sink promises: each write appends a line, and a log past the limit becomes `.1` in the same step | `log`, `old`, `next` |
| `ArgParser` | `splitCommandString`, `searchDoubleQuotes`, `removeDoubleQuotes`, `assembleCommand`, `isArg`, and the option loops of `parseServerArgs`/`parseClientArgs` with `parsePlatformArg`, `parseGenericArgs`, `parseDeprecatedArgs` | pure operators |
| `DaemonCommand` | the kIpcCommand branch of `DaemonApp::handleIpcMessage` (lines 295-357) | pure operator `HandleIpcCommand`: the command stored, its words, the log file parsed |
| `StringFormat` | `vformat`, `sprintf` with both `vsnprintf` contracts, `splitString`, `findReplaceAll`, `CaselessCmp` (`base/String.cpp`) | pure operators |
| `DaemonRun` | `DaemonApp::run` (lines 99-192) | pure operator `run`: the call the arguments lead to, the exit code, the message shown |
| `KeyInfo` | `KeyInfo::isDefault`, `join`, `split`, `contains` (`synergy/IKeyState.cpp`) | pure operators |
| `DragInfo` | `DragInformation::setupDragInfo`, `parseDragInfo`, `stringToNum`, `getFileSize`'s text | pure operators |
| `ArchMiscWindows` | `openKey`/`addKey` (lines 107-167), the value calls `setValue`, `setValueBinary`, `deleteValue`, `hasValue`, `typeOfValue`, `readBinaryOrString`, `readValueString`/`Binary`/`Int` (lines 186-325), and `addBusyState`, `removeBusyState`, `setThreadExecutionState`, `wakeupDisplay` (lines 351-425) | pure operators on a registry record (`keys`, `denied`, `open` handles as a bag, `result`), on the values below one key (a type and the bytes stored, per name) and on a busy record (`busyState`, `stes`, the OS's continuous requirements `os`) |
| `WatchdogCommand` | `MSWindowsWatchdog::getCommand` (lines 385-409), auto-detect mode included | pure operators: `find`, `replaceEmpty`, the strip loop |
| `BufferedLog` | `BufferedLogOutputter`'s constructor, `write` and `close` (lines 183-237) | pure operators on `[max, buffer]` |
| `ArchFile` | `ArchFileWindows::getBasename`, `concatPath`, and the string part of `getInstalledDirectory` | pure operators |
| `MCLibrary` | one call of a library operator, or of the command rewrite, per behaviour | `kind`, `input`, `out`, `returned` |

The `Watchdog` variables correspond to the code as follows:

- Members: `command`, `commandChanged`, `elevateProcess`, `autoElevated`,
  `processFailures`, `processRunning`, `monitoring`, `ready`, and `handle` (the
  pid in `m_processInfo`; 0 when zeroed).
- Locals of the monitor thread: `mpc`, the program counter of `mainLoop`;
  `savedElevate`, the local in `getActiveDesktop`; `waitTime`.
- The output thread: `opc` and the pipe's buffered chunks `pipe`.
- The event thread: `epc`, and `sent`, the IPC messages handled so far;
  `restarts`, the crashes of the service so far.
- The OS:
  - `kind` and `alive` for processes by pid, with pids handed out lowest-free
    first;
  - `atLogin`;
  - `setting`, the registry `Command`/`Elevate`.
- History variables used by properties: `requested`, `autoLatched`, and
  `autoOwed` (the relay raised `m_autoElevated` and neither a `startProcess`
  read nor a `setCommand` has answered it yet).

The initial state is the one `DaemonApp::mainLoop` hands to `startAsync`:
the watchdog is freshly built, and `LastKnownCommand` has passed it the
command and elevation saved in `setting` (lines 233-238), unless that
command is empty. `WatchdogCreated` is that state of the watchdog's members
and threads.

Each monitor action is one run of statements between two accesses another
thread can observe. It is named for its place in `mainLoop`/`startProcess`:

- `StartupSweep`;
- `LoopHead`, and `SessionChanged` (line 203's `hasChanged()` returning true);
- `SweepInLoop`;
- `StartProcess`;
- `ProbeElevate`, `ProbeLaunch` and `ProbeWait` (`getActiveDesktop`);
- `GetToken` (lines 294-296), `ClearAutoElevated` (line 297), `Launch` and
  `Started`;
- `CheckActive`;
- `MonitorExit`.

Every OS call that can fail is a disjunct of the action that makes it, enabled
when the failure is in `OsFailures`. The failure leads into the catch block
(`Fail`), or out of `mainLoop` where the code is outside the `try`.

The output thread has two actions: `OutputLoopTest` and `OutputRead`. The event
thread has `HandleIpcCommand`, `Stop`, `JoinMonitor`, `JoinOutput` and
`ServiceExit`. The environment has `WorkerExit`, `WorkerWrite`, `SyntoolRun`,
`LoginScreen` and `ServiceRestart`. `ServiceRestart` is a crash of the service
process: its three threads die, the workers and the probe live on, and the
service manager starts the service again. The new watchdog is the state of
`WatchdogCreated`, built from the saved `setting`, with a new, empty pipe. It
is bounded by `MaxRestarts`: 1 in `os_failures`, 0 elsewhere. A leftover
worker that writes goes on appending to `pipe` in the model, although its
real stdout is the crashed service's pipe. The core run's workers write only
plain log lines, which change nothing.

Abstractions:

- Command lines are model values. `Quotes` stands for the literal `""`.
- `m_processFailures` saturates at `FailCap`. The code only tests it against 0
  and uses it for the backoff sleep, and sleeps are not modelled.
- `shutdownProcess` returns with the process gone: either it obeyed the IPC
  shutdown or it was terminated.
- Log texts are TLA+ strings, because `testOutput` depends on character
  positions.
- A failing OS call is named in `OsFailures`. `"winlogon"` and `"token"` are
  the two ways `getUserToken`'s elevated path throws: winlogon.exe is
  missing, or `duplicateProcessToken` fails.

### The file log

`FileLog` splits `write` into the three steps between which another writer
can run:

- `write`: open, append the line, close, and note whether the file is past
  the limit;
- `RemoveOld`: remove `.1`;
- `RenameLog`: rename the log to `.1`.

A line is its number, and the limit `kFileSizeLimit` is counted in lines.
Writers in `Locked` go through CLOG, which holds its mutex for the whole
call. The watchdog's output thread is not in `Locked`: `outputLoop` calls
`m_fileLogOutputter->write` directly. `RenameReplaces` chooses between the
two behaviours of `rename` onto an existing file: POSIX replaces it, and the
Windows C runtime fails.

The abstract `RotatingLog` is what the sink promises its callers. `FileLog`
is shown to implement it: the property `RotatesAtomically` is
`RotatingLog!Spec` under a refinement mapping. While no writer is inside a
rotation, `log` and `old` are the two files; while one is (between its
append and its rename), the abstract log has already rotated, so `log` is
empty and `old` is the file still named `log`. The locked configuration
satisfies it. In the relay configuration a second writer breaks
`RecentLinesKept` first.

### The command rewrite

`DaemonCommand!HandleIpcCommand` is the handler as one operator: it clears
`""`, splits the command, runs the parse, and calls
`assembleCommand(argsArray, L"--log", 1)` when the parse set a log file. The
handler touches no state that another thread reads before it returns, so
`MCLibrary` checks it as one step from a command to what is stored.

The parse is modelled by the words each option consumes. The option words
are constants, each with one stand-in word in `MCLibrary`:

- `LongLog` and `ShortLog` store their parameter as `m_logFile`;
- `ValueOptions` and the server's or client's own options skip one;
- `Flags` and `PlatformFlags` take none;
- `DeprecatedOptions` skip the next word whether or not there is one.

Any other word ends the loop, as both parsers do. `assembleCommand`
stepping past `end()` is undefined behaviour: the model records it as `defined = FALSE`
and properties do not judge that outcome.

### The library operators

`StringFormat`, `KeyInfo` and `DragInfo` translate loops into RECURSIVE
operators over sequences of one-character strings. Offsets are 0-based as
in the code. `DragInfo` keeps `size_t` arithmetic, modulo `2^30` with npos as
`2^30 - 1`: every comparison it makes behaves the same under any modulus
larger than the text. `MCLibrary` turns each call into one step from an input
to its output, so that TLC checks each property on every input in a bounded
set.

Each property compares the code's operator with a reference written
differently, as a one-pass or set-level definition:

- `vformat`'s scan-and-splice against `Render`, a one-pass reading of
  String.h's contract: `%%` is `%`, `%{n}` with `n` a positive integer is
  argument `n`, and any other text is copied. Formats with an index of 0,
  an empty one or a negative one are outside that contract, and the
  property does not speak of them: the code prints `%` for `%{}` and
  `%{0}` (hazard at String.cpp line 72);
- `splitString` against `Trim`/`JoinWith`;
- `findReplaceAll` against `ReplaceRef`;
- `CaselessCmp` against the strict weak order `std::set` requires;
- `split(join(d))` against `d`;
- `contains` against set membership;
- `parseDragInfo(setupDragInfo(f))` against the file names and sizes;
- `openKey`/`addKey` against the path walk read from the key set: the
  first missing or refused subkey ends it, and only the returned handle is
  left open;
- the busy mask against the last call naming each mode, over up to three
  add, remove and `wakeupDisplay` calls (a wake names no mode and leaves the
  requirements in force as they are);
- `concatPath(getInstalledDirectory(f), getBasename(f))` against `f`;
- the buffered log against the last messages since the last close;
- `sprintf`'s deletes against the buffers it allocated: each heap buffer
  once, in order, and never the stack buffer;
- `DaemonApp::run` against what its arguments ask for: the service starts
  exactly when every argument is `/f` or `-f`, an unrecognized argument
  exits with `kExitArgs`, and a `kExitFailed` exit shows its message unless
  it is the "has not been started" false positive.

The registry values are modelled at the level of the bytes stored, since
the code's one piece of logic is a byte count. A wide character of the
names modelled is the character and a zero byte. A string value keeps
`value.size() + 1` bytes. `readBinaryOrString` appends one zero byte in a
buffer one byte longer than that. Decoding stops at the first zero wide
character. A wide character that reaches the byte never written, or the
memory past the buffer, is undefined: it may end the string or be anything
(`Garbage`). `readValueString` therefore returns a set of outcomes.
No property is stated on the value calls. The full round trip fails for
every string of three characters or more (the hazard at line 236), which
would need a violation run of its own; the other reads each restate one
branch of the code. The calls are still run, so that every step of the
model is exercised.

`sprintf` wraps `ARCH->vsnprintf`, which is outside this code, so
`vsnprintf` gives both contracts as outcomes. C99 returns the full length
and keeps `len - 1` characters. `_vsnwprintf` returns -1 when the output is
longer, and leaves an output of exactly `len` characters unterminated, so
`result = buffer` reads on (`Overread`). The 1024-character stack buffer is
cut to `TmpLen = 2`. Outputs of up to nine characters then retry three
times and hit each of the sizes 2, 4 and 8 exactly. The buffers are numbered,
0 for the stack buffer, and `deleted` lists the ones `delete[]` was called
on. That an output of exactly a buffer's length loses its last character
(C99) or reads on (`_vsnwprintf`) is reachable, and contradicts String.h's
"Equivalent to sprintf()"; it is recorded as the hazard at line 141, as
the project has no run left to state it.

`DaemonRun!run` keeps the order of `run`: the first argument that is not
`/f` or `-f` decides the outcome, and if there is none, `mainLoop(false)`
or `daemonize` runs. The calls that throw, and the text of the `XArch`, are
inputs. `mainLoop` catches every error itself, so its failure reaches no
catch clause of `run`.

`ArchMiscWindows` keeps `~` on a DWORD as `2^30 - 1 - x`: TLC's integers
are 32-bit, and the mask only ever holds the two mode bits. The OS side of
`SetThreadExecutionState` is modelled by its documented contract: a call
with `ES_CONTINUOUS` replaces the requirements the thread holds, and one
without it leaves them in force.

## 3. Runs

| Run | Cfg | Expect | Checks | Shows |
|---|---|---|---|---|
| core | `MCWatchdog_core.cfg` | pass | `TypeOK`, `WorkerTracked`, `WorkerStopsWithService`, `DeadWorkerRestarted` | With non-empty commands no worker escapes `m_processInfo` (so there are never two). A worker outlives the service only when `stop()`'s 5-second wait ended before the monitor thread finished; TLC reaches such an exit. And a crashed worker is relaunched under weak fairness of the two watchdog threads. |
| os_failures | `MCWatchdog_failures.cfg` | pass | `RunningTracksWorker` | Under every OS failure, a clearing GUI and one crash and restart of the service, `m_processRunning` never vouches for the syntool probe. |
| orphan_worker | `MCWatchdog_orphan.cfg` | violation | `AtMostOneWorker` | Clearing the command during the start decision orphans the worker; the next command starts a second one. |
| auto_elevation_lost | `MCWatchdog_autoelevate.cfg` | violation | `AutoElevationNotLost` | A late syntool line read between lines 296 and 297 sets `m_autoElevated`, and line 297 wipes it. |
| elevation_lost | `MCWatchdog_elevation.cfg` | violation | `ElevationHonoured` | `setCommand(c, true)` inside the probe's save/restore window is overwritten. |
| desktop_sentinel | `MCDesktopSentinel.cfg` | violation | `RelayMatchesSpec` | Both of the spec's examples, `...activeDesktop:Winlogon...` and `...activeDesktop:Default...`, make `testOutput` throw `std::out_of_range` before it sets anything: no auto-elevation for Winlogon, and no `m_ready` for either. TLC's trace shows whichever initial state it explores first. |
| file_log | `MCFileLog_single.cfg` | pass | `RecentLinesKept`, `RotatesAtomically` | With every writer under CLOG's mutex, the last `Limit` lines are always on disk, and the sink refines the atomic rotating log. |
| file_log_relay | `MCFileLog_relay.cfg` | violation | `RecentLinesKept` | The output thread writes without the mutex; two rotations remove the log just rotated. |
| log_arg_kept | `MCLibrary_logarg.cfg` | violation | `LogArgumentRemoved` | A command with `-l <file>` is stored with its log option. |
| library | `MCLibrary.cfg` | pass | `FormatMatchesReference`, `SplitStringPieces`, `FindReplaceAllMatches`, `KeyScreensKept`, `CaselessStrictWeakOrder`, `SplitMatchesTests`, `RewriteKeepsArguments`, `OpenKeyWalksPath`, `BusyModesInForce`, `ModulePathSplits`, `BufferKeepsLatest`, `SprintfFreesEachBuffer`, `RunFailsLoudly` | The string operators and KeyInfo's `join`/`split` agree with their references (`vformat` with String.h's contract, on formats with positive indices); splitting and rebuilding a command keep quoted arguments whole and in order. `OpenKeyWalksPath`, `BusyModesInForce` and `ModulePathSplits` check `ArchMiscWindows`' key walk and busy mask and `ArchFileWindows`' path split; `BufferKeepsLatest` checks the buffered log sink. The registry value calls and `getCommand` are run but no property is stated on them (see the hazards). `SprintfFreesEachBuffer` checks `sprintf`'s buffers across its retries, and `RunFailsLoudly` checks `DaemonApp::run`'s arguments and catch clauses. |
| keyinfo_contains | `MCLibrary_contains.cfg` | violation | `ContainsMatchesDestinations` | `contains(":ba:", "a")` is true. |
| drag_files | `MCLibrary_drag.cfg` | violation | `DragFilesKept` | The second of two files is read back as name `a,1` and size 0. |

The eight findings are recorded in `PROJECT.json`, each with the source line
that causes it:

- `MSWindowsWatchdog.cpp:583`: `testOutput` adds `sizeof(g_activeDesktop) - 1`,
  a count of bytes, to an index counted in `wchar_t`s.
- `MSWindowsWatchdog.cpp:275`: a `setCommand("")` between the test at line
  203 and line 275 makes `startProcess` throw, and the catch block forgets
  the live worker.
- `MSWindowsWatchdog.cpp:550`: the probe's save/restore of
  `m_elevateProcess` loses a concurrent `setCommand`.
- `MSWindowsWatchdog.cpp:297`: clearing `m_autoElevated` apart from reading
  it loses an auto-elevation the relay raises in between.
- `log_outputters.cpp:276`: the unlocked rotation race.
- `DaemonApp.cpp:347`: only `--log` is removed, although the parse also
  accepts `-l`.
- `IKeyState.cpp:99`: `contains` checks the character after the match but
  not the one before it.
- `DragInformation.cpp:73`: the next record is read from the size field,
  not from after it.

### Bounds and why they are enough

- Watchdog:
  - One non-empty command `c1`, plus `Empty` or `Quotes` where clearing
    matters. Which non-empty command runs is irrelevant to every property.
  - `MaxPid` = 4 (3 under all failures). A start uses two pids, one for the
    probe and one for the worker, so 4 allows a launch, a crash and a
    relaunch. That is enough for two workers to coexist, which
    the `orphan_worker` run needs.
  - `MaxCommands` = 2 (1 in the larger runs). Two messages are exactly what
    the orphan race needs: a clear, then a new command.
  - `PipeCap` = 1, so a writer blocks when the pipe is full.
  - The texts are: syntool's line, alone in a chunk or followed by worker
    output; the one shape in which the misplaced comparison does find
    `Default`; syntool's error line; and a worker line.
  - `MaxRestarts` = 1 in `os_failures` and 0 elsewhere. One crash is
    enough to leave workers behind for the restarted watchdog. A second
    crash restarts the same code from the same saved setting.
  - `Elevations` = {FALSE} in the core run. Elevation does not change the
    relaunch logic, and the login screen still drives the elevated path.
    It is {FALSE} in `auto_elevation_lost` as well, so that no GUI request
    elevates the worker and only the relay's flag can.
- File log: `Limit` = 2 lines and 16 lines written. That is several
  rotations, with a log and a `.1` left by an earlier run.
- Commands: a program path (bare, quoted with a space, or the server's),
  then up to three words. The words are the stand-in of every option class,
  an empty word, a bare word, and quoted words with and without spaces.
  That includes every pair of adjacent quoted words and every option at the
  end of the line without its parameter.
- Library:
  - formats of up to six characters over `% { } 1 2 - a`, with two
    arguments: every escape, a negative and an out-of-range index, and
    unterminated braces;
  - splits of up to five characters;
  - replacements in strings of up to four characters, with finds and
    replacements of up to two;
  - every destination set over five screen names, one of them `*`;
  - one or two dragged files whose paths have zero, one or two parts;
  - every triple of names of up to two characters over `a A b _`, where
    `_` lies between the upper- and lower-case letters;
  - every registry two levels deep over the subkey names `a` and `b`, with
    any of `a`, `b`, `a\b` refused, walked by every list of up to three
    names, opening or creating. That covers a failure at each depth, a
    walk past the registry's depth, and a refused key that exists;
  - every sequence of up to three add/remove calls over `kSYSTEM`,
    `kDISPLAY` and both, with and without `SetThreadExecutionState`. Three
    calls are what it takes for a mode cleared by mistake to show, because
    a call with no mode left leaves the OS state as it was;
  - every executable path `C:\p1[\p2[\p3]]` with parts of one or two
    letters;
  - every run of up to five writes (three messages) and closes of a
    buffered log bounded at one or two messages: that overflows a bound
    twice and closes between;
  - every run of up to three value calls on one name, through the open
    key or NULL: strings of up to three characters, the DWORDs 0 and 5, an
    empty and a one-byte binary value, and deleteValue. Three characters
    are what it takes for the string's byte count to lose one; three calls
    let a NULL write sit between two real ones;
  - `sprintf` on every output of up to nine characters, with the stack
    buffer cut to two characters: up to three retries, so up to three
    heap buffers are allocated and deleted;
  - `DaemonApp::run` on every list of up to three arguments over `/f`,
    `-f`, `/install`, `/uninstall` and an unknown word, with any subset of
    its four calls throwing, and either message;
  - `getCommand` on argument strings of up to four pieces out of the flag,
    its halves `--rel` and `aunch`, a space and a word. `--rel`,
    `--relaunch`, `aunch` is the shortest string in which a removal forms a
    new flag.

### Fairness

`WF_vars(MonitorStep) /\ WF_vars(OutputStep)`: both watchdog threads are
preemptively scheduled OS threads that never block indefinitely in the
modelled steps. The probe wait is bounded and `ReadFile` is modelled as
blocking until data arrives. The GUI, the service control manager and the
child processes owe the watchdog nothing, so the event thread and the
environment get no fairness.

## 4. Not modelled, and the plan

Not modelled, by design:

- SendSAS forwarding: it only calls into the OS.
- `getCommand`'s auto-detect mode inside the `Watchdog` state machine:
  `DaemonApp` constructs the watchdog with it off. `getCommand` itself is
  modelled in `WatchdogCommand`.
- Sleeps and backoff durations.
- Message formatting: the X* exceptions, `MSWindowsUtil`, the console, system
  and message-box log sinks.
- `ArchDaemonNone`: stubs.
- `ArchMiscWindows::closeKey` and `deleteKey`: one registry call each, and
  nothing in this code calls them. Icons, the dialog set and the daemon
  callbacks only store or forward a pointer.
- The directory queries of `ArchFileWindows` (user, system, profile and
  plugin directories): each returns what an OS call gives, with a fixed
  suffix.
- String operators that nothing in this code calls: `removeChar`,
  `removeFileExt`, `toHex`, `uppercase`, and the size and UTF-8 conversions.
- `DropHelper::writeToDir`: file I/O.

The source as given does not compile in several places. The model follows
the evident intent there:

- `getActiveDesktop` line 543 has a stray `;`.
- `DaemonApp::mainLoop` line 234 has a misplaced parenthesis.
- `String.cpp` lines 57, 62 and 72 close their conditions with `'%'))`.
- `IKeyState.cpp` `split` and `equal` call `strchr`/`strcmp` on `nchar`
  strings.
- `DragInformation.cpp` writes `N"."`.
- `String.h` declares `removeFileExt(nstring&)` returning `void` and
  `removeChar(nstring&, const char)`, while `String.cpp` defines other
  signatures.

Hazards recorded in `PROJECT.json` without a property. Each of them is
expected to fail its property, and so would need a violation run of its own:

1. `Watchdog`:
   - a stale `m_ready` left by a late syntool line (line 591). This needs a
     history variable naming the probe that set it;
   - the output thread blocked in `ReadFile` after `stop()` (line 419). The
     complementary liveness property holds: `stop()`'s bounded joins still
     let the service exit, under weak fairness of the service's main thread
     after its event loop returns. Checking it with the core bounds takes
     over four and a half minutes on two workers, so it is not part of a
     run;
   - a restart running an older command after the settings save failed
     (`DaemonApp.cpp:233`). `ServiceRestart` and the `"settings"` failure
     reach it. The specification says only that the command is persisted,
     not that a restart must run the last one sent.
2. `DaemonApp::run`:
   - `/install`, not `/uninstall`, hides the "has not been started" message
     (line 137). `RunFailsLoudly` allows the silence after either call;
   - `mainLoop` swallowing every exception (line 257), so a service that
     failed to start exits with `kExitSuccess` and shows nothing;
   - the loop returning at the first `/install` or `/uninstall`, so
     `/install x` installs rather than rejecting `x`.
3. Foreground mode, whose NULL file sink is dereferenced at line 355.
4. `assembleCommand` stepping past `end()` (`ArgParser.cpp:458`). The model
   already reaches that state as `"undefined"`.
5. `synergy::string`:
   - `sprintf` losing the last character of an output of exactly a
     buffer's length, or reading past it (line 141), against String.h's
     "Equivalent to sprintf()". TLC reaches it on outputs of 2, 4 and 8
     characters with the stack buffer cut to two;
   - `vformat` printing `%` for `%{}` and `%{0}` (line 72), indices the
     header excludes ("n a positive integer").
6. `ArchMiscWindows::setValue`'s byte count for a wide string (line 236):
   `"abc"` reads back as `"ab"`.
7. `getCommand` keeping the spaces around each `--relaunch` it removes: on
   the specification's example it gives `foo.exe   --name x`, not
   `foo.exe --name x`. `DaemonApp` never enables auto-detect.

Further hazards are recorded without a run:

- the empty-find loop of `findReplaceAll`, which nothing calls;
- `KeyInfo::alloc`'s byte count;
- `BufferedLogOutputter` with a bound of 0 (line 228), which pops an empty
  deque;
- `removeBusyState` releasing the last mode with a call that has no
  `ES_CONTINUOUS`, which leaves the requirement in force (line 389);
- `handleIpcMessage` setting the daemon's own file sink's name to `""` for
  a command without a log file (line 355), and assigning it on the event
  thread while the output thread writes unlocked;
- `getBasename` missing a backslash right after the last slash (line 59):
  `getBasename("a/\b")` is `\b`. TLC confirms it on the operator, but
  the executable paths `ModulePathSplits` checks have no slash.
