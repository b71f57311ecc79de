\* Every OS call the watchdog makes may fail: the process snapshot, the
\* pipe, winlogon.exe and its token, the environment block, process creation;
\* the GUI may clear the command.
CONSTANTS
    Commands = {c1}
    Empty = Empty
    Quotes = Quotes
    SentCommands = {c1, Quotes}
    StoredCommand = {c1, Empty}
    Elevations = {FALSE}
    MaxCommands = 1
    MaxPid = 3
    FailCap = 1
    OsFailures = {"snapshot", "pipe", "winlogon", "token", "environment", "create",
                  "settings"}
    Texts <- MCTexts
    WorkerText <- MCWorkerText
    SyntoolText <- MCSyntoolText
    PipeCap = 1
    CharSize = 2
    MaxRestarts = 1
SPECIFICATION Spec
INVARIANT RunningTracksWorker
