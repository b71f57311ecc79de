--------------------------- MODULE DesktopSentinel ---------------------------
(***************************************************************************)
(* MSWindowsWatchdog::testOutput (MSWindowsWatchdog.cpp) applied to the    *)
(* text of one ReadFile chunk of the worker/syntool output pipe.           *)
(*                                                                         *)
(* Texts are TLA+ strings; TLC indexes them like sequences of characters.  *)
(* The code finds the marker "activeDesktop:" and then compares the 7      *)
(* characters at offset  i + sizeof(g_activeDesktop) - 1  with "Default".  *)
(* sizeof counts bytes, not wchar_t characters, so the offset depends on   *)
(* CharSize, the width of wchar_t (2 on Windows).                          *)
(***************************************************************************)
EXTENDS Integers, Sequences

CONSTANT CharSize           \* sizeof(wchar_t) in bytes

ASSUME CharSize \in {1, 2, 4}

VARIABLES autoElevated,     \* m_autoElevated
          ready             \* m_ready, guarded by m_mutex

\* g_activeDesktop (line 47) and the literal compared with (line 584).
g_activeDesktop == "activeDesktop:"
DefaultDesktop == "Default"

\* std::wstring::npos
NPos == -1

\* std::wstring::find: 0-based index of the first occurrence of pat, or NPos.
Find(buf, pat) ==
    LET hits == {i \in 0..(Len(buf) - Len(pat)) :
                    SubSeq(buf, i + 1, i + Len(pat)) = pat}
    IN  IF hits = {} THEN NPos ELSE CHOOSE i \in hits : \A j \in hits : i <= j

\* std::wstring::substr(pos, n): at most n characters from 0-based pos;
\* std::out_of_range when pos lies past the end (tested by the caller).
Substr(buf, pos, n) ==
    SubSeq(buf, pos + 1, IF pos + n < Len(buf) THEN pos + n ELSE Len(buf))

\* What testOutput does with one chunk:
\*   "none"          no marker: nothing happens,
\*   "default"       marker and "Default": m_ready is set and broadcast,
\*   "elevate"       marker and another name: m_autoElevated and m_ready set,
\*   "out_of_range"  substr's start lies past the end of the chunk:
\*                   std::out_of_range leaves testOutput and outputLoop.
ChunkOutcome(buf) ==
    LET i   == Find(buf, g_activeDesktop)
        s   == (Len(g_activeDesktop) + 1) * CharSize
        pos == i + s - 1
    IN  CASE i = NPos                       -> "none"
          [] pos > Len(buf)                 -> "out_of_range"
          [] Substr(buf, pos, Len(DefaultDesktop)) # DefaultDesktop
                                            -> "elevate"
          [] OTHER                          -> "default"

\* The state change testOutput makes for a chunk (lines 586-593): the flag
\* first, then m_ready under m_mutex with a broadcast of m_condVar.  On
\* "out_of_range" nothing is written: the exception is the caller's.
testOutput(buf) ==
    CASE ChunkOutcome(buf) = "elevate" -> autoElevated' = TRUE /\ ready' = TRUE
      [] ChunkOutcome(buf) = "default" -> ready' = TRUE /\ UNCHANGED autoElevated
      [] OTHER                       -> UNCHANGED <<autoElevated, ready>>

-----------------------------------------------------------------------------
(* Reference: what the specification says the relay does with a chunk:     *)
(* the desktop name follows the marker (blanks skipped); the waiter is     *)
(* always signalled, and auto-elevation is latched unless the name is      *)
(* "Default".                                                              *)
RECURSIVE SkipBlanks(_)
SkipBlanks(str) ==
    IF Len(str) > 0 /\ SubSeq(str, 1, 1) = " " THEN SkipBlanks(SubSeq(str, 2, Len(str)))
                                               ELSE str

DesktopName(buf) ==
    LET rest == SkipBlanks(SubSeq(buf, Find(buf, g_activeDesktop) + Len(g_activeDesktop) + 1,
                                  Len(buf)))
    IN  SubSeq(rest, 1, Len(DefaultDesktop))

SpecOutcome(buf) ==
    CASE Find(buf, g_activeDesktop) = NPos   -> "none"
      [] DesktopName(buf) = DefaultDesktop   -> "default"
      [] OTHER                               -> "elevate"
=============================================================================
