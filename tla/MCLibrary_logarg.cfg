\* The daemon's rewrite of a command with a log file, against
\* LogArgumentRemoved.
CONSTANTS
    Args <- MCArgs
    NullKey = NullKey
    MaxSteps <- MCMaxSteps
SPECIFICATION Spec
INVARIANT LogArgumentRemoved
