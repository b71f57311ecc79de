----------------------------- MODULE BufferedLog -----------------------------
(***************************************************************************)
(* BufferedLogOutputter (base/log_outputters.cpp, lines 183-237): a deque  *)
(* of the most recent messages, cleared by close, as pure operators on the *)
(* record [max, buffer].                                                   *)
(***************************************************************************)
EXTENDS Naturals, Sequences

\* The constructor, lines 183-187: an empty deque and its bound.
BufferedLogOutputter(maxBufferSize) == [max |-> maxBufferSize, buffer |-> <<>>]

\* Mutant of popWhileFull: the loop test is ">", one message too many.
RECURSIVE popWhileOver(_, _)
popWhileOver(buffer, max) ==
    IF Len(buffer) > max THEN popWhileOver(Tail(buffer), max) ELSE buffer

\* The pop loop of write, lines 228-230.
RECURSIVE popWhileFull(_, _)
popWhileFull(buffer, max) ==
    IF Len(buffer) >= max THEN popWhileFull(Tail(buffer), max) ELSE buffer

\* write, lines 226-233: drop the oldest messages until there is room,
\* then append.
write(out, message) ==
    [out EXCEPT !.buffer = Append(popWhileFull(@, out.max), message)]

\* close, lines 212-217: remove every message.
close(out) == [out EXCEPT !.buffer = <<>>]

\* A sequence of calls: a message is a write, "close" a close.
RECURSIVE applyLogCalls(_, _)
applyLogCalls(out, calls) ==
    IF calls = <<>> THEN out
    ELSE applyLogCalls(IF Head(calls) = "close" THEN close(out)
                       ELSE write(out, Head(calls)),
                       Tail(calls))
=============================================================================
