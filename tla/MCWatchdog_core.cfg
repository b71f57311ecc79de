\* The GUI only ever sends a non-empty command; the OS calls succeed.
\* Workers crash, write to the pipe, and the login screen comes and goes;
\* each crash must be followed by a relaunch.
CONSTANTS
    Commands = {c1}
    Empty = Empty
    Quotes = Quotes
    SentCommands = {c1}
    StoredCommand = {c1, Empty}
    Elevations = {FALSE}
    MaxCommands = 2
    MaxPid = 4
    FailCap = 1
    OsFailures = {}
    Texts <- MCTexts
    WorkerText <- MCWorkerText
    SyntoolText <- MCSyntoolText
    PipeCap = 1
    CharSize = 2
    MaxRestarts = 0
SPECIFICATION Spec
INVARIANT TypeOK
INVARIANT WorkerTracked
INVARIANT WorkerStopsWithService
PROPERTY DeadWorkerRestarted
