\* The GUI sends only non-elevated commands while syntool's output can
\* arrive late, after getActiveDesktop has given up waiting.
CONSTANTS
    Commands = {c1}
    Empty = Empty
    Quotes = Quotes
    SentCommands = {c1}
    StoredCommand = {c1, Empty}
    Elevations = {FALSE}
    MaxCommands = 2
    MaxPid = 4
    FailCap = 1
    OsFailures = {}
    Texts <- MCTexts
    WorkerText <- MCWorkerText
    SyntoolText <- MCSyntoolText
    PipeCap = 1
    CharSize = 2
    MaxRestarts = 0
SPECIFICATION Spec
INVARIANT AutoElevationNotLost
