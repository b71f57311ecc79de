\* vformat, splitString and findReplaceAll against one-pass references;
\* KeyInfo's join and split; CaselessCmp as a comparator;
\* the daemon's split, parse and rebuild of a command with a log file.
CONSTANTS
    Args <- MCArgs
    NullKey = NullKey
    MaxSteps <- MCMaxSteps
SPECIFICATION Spec
INVARIANT FormatMatchesReference
INVARIANT SplitStringPieces
INVARIANT FindReplaceAllMatches
INVARIANT KeyScreensKept
INVARIANT CaselessStrictWeakOrder
INVARIANT SplitMatchesTests
INVARIANT RewriteKeepsArguments
INVARIANT OpenKeyWalksPath
INVARIANT BusyModesInForce
INVARIANT ModulePathSplits
INVARIANT BufferKeepsLatest
INVARIANT SprintfFreesEachBuffer
INVARIANT RunFailsLoudly
