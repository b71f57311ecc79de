\* The monitor and event threads log through CLOG, one write at a time.
CONSTANTS
    Writers = {monitor, events}
    Locked = {monitor, events}
    Limit = 2
    MaxLines = 16
    RenameReplaces = FALSE
SPECIFICATION Spec
INVARIANT RecentLinesKept
PROPERTY RotatesAtomically
