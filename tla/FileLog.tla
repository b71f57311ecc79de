------------------------------ MODULE FileLog ------------------------------
(***************************************************************************)
(* FileLogOutputter::write (base/log_outputters.cpp): append a line to the *)
(* log file, and once the file is past the size limit move it to          *)
(* "<name>.1", removing the previous ".1" first.                           *)
(*                                                                         *)
(* Several writers may call write on the same outputter at once: CLOG      *)
(* calls its outputters one at a time, but the watchdog's output thread    *)
(* (MSWindowsWatchdog::outputLoop) calls m_fileLogOutputter->write         *)
(* directly.  CLOG (base/Log.cpp, outside this excerpt) holds its mutex   *)
(* while it calls the outputters.  Each write has three steps another writer can interleave     *)
(* with: open/append/close (which measures the size), remove, rename.     *)
(*                                                                         *)
(* A line is a number, the order in which it was written; the size limit   *)
(* (kFileSizeLimit KB) is counted in lines.                                *)
(***************************************************************************)
EXTENDS Naturals, Sequences, FiniteSets, Functions

CONSTANTS
    Writers,            \* threads that call write
    Locked,             \* those that call it through CLOG, under its mutex
    Limit,              \* kFileSizeLimit, in lines
    MaxLines,           \* bound on lines written
    RenameReplaces      \* rename replaces an existing target (POSIX), or
                        \* fails (the Windows C runtime)

ASSUME /\ Locked \subseteq Writers
       /\ Limit \in Nat \ {0} /\ MaxLines \in Nat
       /\ RenameReplaces \in BOOLEAN

VARIABLES
    file,               \* [{"log", "old"} -> Seq(lines)]: contents on disk
    present,            \* names of the files that exist
    wpc,                \* [Writers -> {"idle", "remove", "rename"}]
    next,               \* number of the next line to write
    owner               \* the Locked writer inside CLOG's mutex, or NoOwner

vars == <<file, present, wpc, next, owner>>

NoOwner == "none"

Names == {"log", "old"}

\* A previous run may have left a log, up to one line past the limit (it
\* stopped between the append and the rotation), and a ".1".  Their lines
\* are numbered 0.
OldLines(n) == [i \in 1..n |-> 0]

Init == /\ present \in SUBSET Names
        /\ \E n \in 0..(Limit + 1) :
              file = [log |-> IF "log" \in present THEN OldLines(n) ELSE <<>>,
                      old |-> IF "old" \in present THEN OldLines(Limit + 1) ELSE <<>>]
        /\ wpc = [w \in Writers |-> "idle"]
        /\ next = 1
        /\ owner = NoOwner

\* Mutant of write: the file is moved once it reaches the limit, not once
\* it is past it.
writeRotatesAtLimit(w) ==
    /\ wpc[w] = "idle"
    /\ next <= MaxLines
    /\ w \in Locked => owner = NoOwner
    /\ file' = [file EXCEPT !["log"] = Append(@, next)]
    /\ present' = present \cup {"log"}
    /\ next' = next + 1
    /\ wpc' = [wpc EXCEPT ![w] = IF Len(file'["log"]) >= Limit THEN "remove" ELSE "idle"]
    /\ owner' = IF w \in Locked /\ wpc'[w] # "idle" THEN w ELSE owner

\* Lines 259-272: open m_fileName for appending (creating it), write the
\* line with endl (which flushes), read the position, close.  moveFile is
\* set when the file is past the limit.
write(w) ==
    /\ wpc[w] = "idle"
    /\ next <= MaxLines
    /\ w \in Locked => owner = NoOwner
    /\ file' = [file EXCEPT !["log"] = Append(@, next)]
    /\ present' = present \cup {"log"}
    /\ next' = next + 1
    /\ wpc' = [wpc EXCEPT ![w] = IF Len(file'["log"]) > Limit THEN "remove" ELSE "idle"]
    /\ owner' = IF w \in Locked /\ wpc'[w] # "idle" THEN w ELSE owner

\* Mutant of RemoveOld: removes m_fileName instead of the ".1" name.
RemoveOldRemovesLog(w) ==
    /\ wpc[w] = "remove"
    /\ present' = present \ {"log"}
    /\ file' = [file EXCEPT !["log"] = <<>>]
    /\ wpc' = [wpc EXCEPT ![w] = "rename"]
    /\ UNCHANGED <<next, owner>>

\* Line 276: remove("<name>.1"); a missing file is an ignored error.
RemoveOld(w) ==
    /\ wpc[w] = "remove"
    /\ present' = present \ {"old"}
    /\ file' = [file EXCEPT !["old"] = <<>>]
    /\ wpc' = [wpc EXCEPT ![w] = "rename"]
    /\ UNCHANGED <<next, owner>>

\* Line 277: rename(m_fileName, "<name>.1"); it fails, ignored, when the
\* log is missing, or when ".1" exists and rename does not replace.
RenameLog(w) ==
    /\ wpc[w] = "rename"
    /\ IF "log" \in present /\ ("old" \notin present \/ RenameReplaces)
       THEN /\ file' = [log |-> <<>>, old |-> file["log"]]
            /\ present' = (present \ {"log"}) \cup {"old"}
       ELSE UNCHANGED <<file, present>>
    /\ wpc' = [wpc EXCEPT ![w] = "idle"]
    /\ owner' = IF owner = w THEN NoOwner ELSE owner
    /\ UNCHANGED next

\* All lines written and every write finished.
Done == /\ next > MaxLines
        /\ \A w \in Writers : wpc[w] = "idle"
        /\ UNCHANGED vars

Next == \/ \E w \in Writers : write(w) \/ RemoveOld(w) \/ RenameLog(w)
        \/ Done

Spec == Init /\ [][Next]_vars

-----------------------------------------------------------------------------
(* Properties.                                                             *)

\* The lines in the files that exist.
OnDisk == UNION {Range(file[n]) : n \in present}

\* Rotation keeps the previous log: the Limit most recent lines written
\* are always on disk, in the log or in ".1".  Violating it takes a write
\* whose size check is stale by the time it removes ".1", because another
\* writer rotated in between.
RecentLinesKept ==
    \A l \in 1..(next - 1) : l > next - 1 - Limit => l \in OnDisk

\* The refinement mapping: while a writer is between its size check and
\* the end of its rotation, the log counts as already rotated; otherwise
\* the files are the abstract log.
Rotating == {w \in Writers : wpc[w] # "idle"}
Abstract == INSTANCE RotatingLog
                WITH log <- IF Rotating = {} THEN file["log"] ELSE <<>>,
                     old <- IF Rotating = {} THEN file["old"] ELSE file["log"]

\* write implements an atomic rotating log: each call appends its line
\* and, once the log is past the limit, moves the whole log to ".1" as
\* one step, as the comment at line 266 describes.  The open-append-close
\* and the remove and rename of the rotation are separate file-system
\* calls, so this holds only while no other write runs between them.
RotatesAtomically == Abstract!Spec
=============================================================================
