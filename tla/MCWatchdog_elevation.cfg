\* A GUI command arrives while getActiveDesktop has m_elevateProcess
\* forced to TRUE for the probe.
CONSTANTS
    Commands = {c1}
    Empty = Empty
    Quotes = Quotes
    SentCommands = {c1}
    StoredCommand = {c1, Empty}
    Elevations = {FALSE, TRUE}
    MaxCommands = 2
    MaxPid = 4
    FailCap = 1
    OsFailures = {}
    Texts <- MCTexts
    WorkerText <- MCWorkerText
    SyntoolText <- MCSyntoolText
    PipeCap = 1
    CharSize = 2
    MaxRestarts = 0
SPECIFICATION Spec
INVARIANT ElevationHonoured
