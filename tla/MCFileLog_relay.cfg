\* The event thread logs through CLOG; the watchdog's output thread calls
\* the file outputter directly.
CONSTANTS
    Writers = {events, relay}
    Locked = {events}
    Limit = 2
    MaxLines = 16
    RenameReplaces = FALSE
SPECIFICATION Spec
INVARIANT RecentLinesKept
