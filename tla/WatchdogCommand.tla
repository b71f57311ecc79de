--------------------------- MODULE WatchdogCommand ---------------------------
(***************************************************************************)
(* MSWindowsWatchdog::getCommand (platform/MSWindowsWatchdog.cpp, lines   *)
(* 385-409): the command a worker is launched with.  In auto-detect mode   *)
(* it is the service's own program name and argument string, with every    *)
(* "--relaunch" taken out.  Strings are sequences of one-character         *)
(* strings; offsets are 0-based as in std::wstring, and -1 is npos.        *)
(***************************************************************************)
EXTENDS Integers, Sequences

\* Line 403: the flag removed.
Relaunch == <<"-", "-", "r", "e", "l", "a", "u", "n", "c", "h">>

\* std::wstring::find(f): the first offset at which f occurs in s, or npos.
find(s, f) ==
    LET at == {i \in 0..(Len(s) - Len(f)) : SubSeq(s, i + 1, i + Len(f)) = f}
    IN  IF at = {} THEN -1 ELSE CHOOSE i \in at : \A j \in at : i <= j

\* cmd.replace(i, n, L""): the n characters from offset i taken out.
replaceEmpty(s, i, n) == SubSeq(s, 1, i) \o SubSeq(s, i + n + 1, Len(s))

\* Lines 402-406: search again from the start after every removal, until
\* no occurrence is left.
RECURSIVE stripLoop(_)
stripLoop(cmd) ==
    LET i == find(cmd, Relaunch)
    IN  IF i = -1 THEN cmd ELSE stripLoop(replaceEmpty(cmd, i, Len(Relaunch)))

\* getCommand, lines 385-409: the command set by setCommand unless the
\* watchdog was built to auto-detect it; then the program name (argsBase's
\* m_pname) followed directly by ARCH->commandLine(), stripped.
getCommand(autoDetectCommand, command, launchName, args) ==
    IF ~autoDetectCommand THEN command ELSE stripLoop(launchName \o args)
=============================================================================
