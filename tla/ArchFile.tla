------------------------------ MODULE ArchFile ------------------------------
(***************************************************************************)
(* The path arithmetic of ArchFileWindows (arch/win32/ArchFileWindows.cpp) *)
(* as pure operators over sequences of one-character strings: the base    *)
(* name ArgParser takes of argv[0], the join of a directory and a name,   *)
(* and the directory of the service's own executable.  Offsets are        *)
(* 0-based as in the code; a pointer into the path is an offset.          *)
(***************************************************************************)
EXTENDS Integers, Sequences

Slash     == "/"
Backslash == "\\"

\* wcsrchr: the offset of the last c in s, or -1 for NULL.
strrchr(s, c) ==
    LET at == {i \in 1..Len(s) : s[i] = c}
    IN  IF at = {} THEN -1
        ELSE (CHOOSE i \in at : \A j \in at : j <= i) - 1

\* The characters from offset o to the end.
from(s, o) == SubSeq(s, o + 1, Len(s))

\* Mutant of getBasename: the pointer stays on the last backslash.
getBasenameKeepsBackslash(pathname) ==
    LET slash     == strrchr(pathname, Slash)
        basename  == IF slash # -1 THEN slash + 1 ELSE 0
        basename2 == strrchr(pathname, Backslash)
    IN  from(pathname, IF basename2 # -1 /\ basename2 > basename
                       THEN basename2 ELSE basename)

\* getBasename, lines 42-64: the text after the last slash, unless a
\* backslash lies after the character following that slash.
getBasename(pathname) ==
    LET slash     == strrchr(pathname, Slash)
        basename  == IF slash # -1 THEN slash + 1 ELSE 0
        basename2 == strrchr(pathname, Backslash)
    IN  from(pathname, IF basename2 # -1 /\ basename2 > basename
                       THEN basename2 + 1 ELSE basename)

\* concatPath, lines 177-190: a backslash goes between the two unless the
\* prefix is non-empty and already ends in a slash or backslash.
concatPath(prefix, suffix) ==
    IF prefix = <<>> \/ prefix[Len(prefix)] \notin {Backslash, Slash}
    THEN prefix \o <<Backslash>> \o suffix
    ELSE prefix \o suffix

\* getInstalledDirectory, lines 124-133, on the name GetModuleFileNameW
\* gave: everything before the last backslash (substr(0, npos), the whole
\* name, when there is none).
getInstalledDirectory(fileName) ==
    LET lastSlash == strrchr(fileName, Backslash)
    IN  IF lastSlash = -1 THEN fileName ELSE SubSeq(fileName, 1, lastSlash)
=============================================================================
