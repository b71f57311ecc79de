----------------------------- MODULE RotatingLog -----------------------------
(***************************************************************************)
(* What a size-limited log file promises its writers: each line is        *)
(* appended in one step, and the step that takes the log past the limit   *)
(* also moves the whole log to the old-log name, replacing what was there.*)
(* A file that does not exist holds no lines.                              *)
(***************************************************************************)
EXTENDS Naturals, Sequences

CONSTANTS
    Limit,              \* the size limit, in lines
    MaxLines            \* bound on lines written

VARIABLES
    log,                \* the lines of the log
    old,                \* the lines of the old log
    next                \* number of the next line

vars == <<log, old, next>>

\* Lines a previous run left are numbered 0.
Left(n) == [i \in 1..n |-> 0]

Init == /\ log \in {Left(n) : n \in 0..(Limit + 1)}
        /\ old \in {<<>>, Left(Limit + 1)}
        /\ next = 1

\* Append a line; past the limit, the log becomes the old log.
Write == /\ next <= MaxLines
         /\ LET appended == Append(log, next)
            IN  IF Len(appended) > Limit
                THEN /\ log' = <<>>
                     /\ old' = appended
                ELSE /\ log' = appended
                     /\ UNCHANGED old
         /\ next' = next + 1

Spec == Init /\ [][Write]_vars
=============================================================================
