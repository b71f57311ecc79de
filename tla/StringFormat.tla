---------------------------- MODULE StringFormat ----------------------------
(***************************************************************************)
(* synergy::string::vformat (base/String.cpp), behind string::format and   *)
(* XBase::format, which build every exception message: "%%" becomes "%"   *)
(* and "%{n}" the n-th argument.  It runs in two passes: a scan records    *)
(* the position, width and index of every substitution; a splice copies   *)
(* the text between them.  Also splitString, findReplaceAll, and          *)
(* CaselessCmp, the case-insensitive order of names.                       *)
(*                                                                         *)
(* A string is a sequence of one-character strings; scan and src are      *)
(* 0-based offsets into fmt, as in the code.                               *)
(***************************************************************************)
EXTENDS Integers, Sequences, FiniteSetsExt

CONSTANTS
    Args,               \* the arguments the caller passes after fmt
    MaxSteps            \* bound on the iterations of findReplaceAll

Digits == [d \in {"0", "1", "2", "3"} |-> CASE d = "0" -> 0 [] d = "1" -> 1
                                            [] d = "2" -> 2 [] d = "3" -> 3]

\* strtol(fmt + p, &end, 10) on the short strings of the model: an optional
\* sign, then decimal digits.  With no digits, end is fmt + p and the value
\* 0.  Returns <<value, 0-based end>>.
Strtol(fmt, p) ==
    LET signed == p < Len(fmt) /\ fmt[p + 1] \in {"-", "+"}
        d0     == IF signed THEN p + 1 ELSE p
        ds     == {k \in d0..Len(fmt) :
                      \A j \in d0..(k - 1) : fmt[j + 1] \in DOMAIN Digits}
        e      == Max(ds)
        RECURSIVE Val(_)
        Val(k) == IF k = d0 THEN 0 ELSE 10 * Val(k - 1) + Digits[fmt[k]]
    IN  IF e = d0 THEN <<0, p>>
        ELSE <<IF signed /\ fmt[p + 1] = "-" THEN -Val(e) ELSE Val(e), e>>

\* The first loop of vformat: scan is the offset of *scan; subs holds the
\* records pushed on index, pos and width.  A "%" at the end breaks; an
\* invalid "%{" resumes after what strtol read; an improper escape skips
\* the character after "%".
RECURSIVE ScanLoop(_, _, _, _)
ScanLoop(fmt, scan, subs, maxIndex) ==
    IF scan >= Len(fmt) \/ fmt[scan + 1] # "%"
    THEN IF scan >= Len(fmt) THEN [subs |-> subs, maxIndex |-> maxIndex]
         ELSE ScanLoop(fmt, scan + 1, subs, maxIndex)
    ELSE LET esc == scan + 1
         IN  CASE esc = Len(fmt) -> [subs |-> subs, maxIndex |-> maxIndex]
               [] fmt[esc + 1] = "%" ->
                     ScanLoop(fmt, esc + 1,
                              Append(subs, [index |-> 0, pos |-> scan, width |-> 2]),
                              maxIndex)
               [] fmt[esc + 1] = "{" ->
                     LET n   == Strtol(fmt, esc + 1)
                         end == n[2]
                     IN  IF end = Len(fmt) \/ fmt[end + 1] # "}"
                         THEN ScanLoop(fmt, end, subs, maxIndex)
                         ELSE ScanLoop(fmt, end + 1,
                                  Append(subs, [index |-> n[1], pos |-> scan,
                                                width |-> end - esc + 2]),
                                  IF n[1] > maxIndex THEN n[1] ELSE maxIndex)
               [] OTHER -> ScanLoop(fmt, esc + 1, subs, maxIndex)

\* Mutant of Value: the literal is pushed as "%%", the text it replaces.
ValueLiteralWhole(i) == IF i = 0 THEN <<"%", "%">> ELSE Args[i]

\* value: "%" at index 0, then the maxIndex arguments taken with va_arg.
\* Taking more than the caller passed, or indexing value below 0, is
\* undefined behaviour.
Value(i) == IF i = 0 THEN <<"%">> ELSE Args[i]

\* The splice loop and the final append of fmt + src.
RECURSIVE Splice(_, _, _, _)
Splice(fmt, subs, src, result) ==
    IF subs = <<>>
    THEN result \o SubSeq(fmt, src + 1, Len(fmt))
    ELSE LET s == Head(subs)
         IN  Splice(fmt, Tail(subs), s.pos + s.width,
                    result \o SubSeq(fmt, src + 1, s.pos) \o Value(s.index))

\* vformat(fmt, args): the result, and whether the call is defined.
VFormat(fmt) ==
    LET sc == ScanLoop(fmt, 0, <<>>, 0)
    IN  [defined |-> sc.maxIndex <= Len(Args)
                     /\ \A k \in DOMAIN sc.subs : sc.subs[k].index >= 0,
         result  |-> IF sc.maxIndex <= Len(Args)
                        /\ \A k \in DOMAIN sc.subs : sc.subs[k].index >= 0
                     THEN Splice(fmt, sc.subs, 0, <<>>)
                     ELSE <<>>]

\* splitString(string, c): the pieces between separators, empty ones left
\* out.  head is the offset after the last separator.
RECURSIVE SplitFrom(_, _, _, _)
SplitFrom(s, c, head, results) ==
    LET separator == LET hits == {i \in head..(Len(s) - 1) : s[i + 1] = c}
                     IN  IF hits = {} THEN -1 ELSE Min(hits)
    IN  IF separator = -1
        THEN IF head < Len(s) THEN Append(results, SubSeq(s, head + 1, Len(s)))
                              ELSE results
        ELSE SplitFrom(s, c, separator + 1,
                       IF head # separator
                       THEN Append(results, SubSeq(s, head + 1, separator))
                       ELSE results)

\* Mutant of SplitString: head starts at 1.
SplitStringFromOne(s, c) == SplitFrom(s, c, 1, <<>>)

\* splitString(string, c).
SplitString(s, c) == SplitFrom(s, c, 0, <<>>)

\* Mutant of FindStr: the search ignores pos and starts at 0.
FindStrFromZero(s, f, pos) ==
    LET hits == {i \in 0..(Len(s) - Len(f)) : SubSeq(s, i + 1, i + Len(f)) = f}
    IN  IF hits = {} THEN -1 ELSE Min(hits)

\* subject.find(find, pos) for a find string of any length (an empty one
\* is found at pos while pos <= size).
FindStr(s, f, pos) ==
    LET hits == {i \in pos..(Len(s) - Len(f)) : SubSeq(s, i + 1, i + Len(f)) = f}
    IN  IF hits = {} THEN -1 ELSE Min(hits)

\* findReplaceAll(subject, find, replace): replace at each match, and go on
\* after the replacement.  An empty find is found at every pos <= size,
\* and each step moves pos and size on by replace.length(), so the loop
\* does not end; after MaxSteps iterations the result is marked so.
RECURSIVE ReplaceFrom(_, _, _, _, _)
ReplaceFrom(s, f, r, pos, steps) ==
    LET at == FindStr(s, f, pos)
    IN  CASE at = -1        -> [ends |-> TRUE, result |-> s]
          [] steps = MaxSteps -> [ends |-> FALSE, result |-> s]
          [] OTHER ->
               ReplaceFrom(SubSeq(s, 1, at) \o r \o SubSeq(s, at + Len(f) + 1, Len(s)),
                           f, r, at + Len(r), steps + 1)

FindReplaceAll(s, f, r) == ReplaceFrom(s, f, r, 0, 0)

\* tonlower (tolower / towlower) on the characters of the model, and the
\* characters' codes.
CharCode == [c \in {"A", "B", "_", "a", "b"} |->
                CASE c = "A" -> 65 [] c = "B" -> 66 [] c = "_" -> 95
                  [] c = "a" -> 97 [] c = "b" -> 98]
tonlower(c) == CharCode[CASE c = "A" -> "a" [] c = "B" -> "b" [] OTHER -> c]

\* Mutant of cmpLess: <= in place of <.
cmpLessOrEqual(a, b) == tonlower(a) <= tonlower(b)

\* CaselessCmp::cmpLess.
cmpLess(a, b) == tonlower(a) < tonlower(b)

\* CaselessCmp::less: std::lexicographical_compare with cmpLess, which
\* tests comp(a, b) and then comp(b, a) at each position.
RECURSIVE less(_, _)
less(a, b) == CASE b = <<>> -> FALSE
                [] a = <<>> -> TRUE
                [] cmpLess(Head(a), Head(b)) -> TRUE
                [] cmpLess(Head(b), Head(a)) -> FALSE
                [] OTHER -> less(Tail(a), Tail(b))

\* CaselessCmp::equal.
equal(a, b) == ~(less(a, b) \/ less(b, a))

-----------------------------------------------------------------------------
(* sprintf (String.cpp 127-160): vsnprintf into a stack buffer of 1024    *)
(* characters, and into heap buffers of twice the size while it reports   *)
(* that the output did not fit.  The formatting itself is vsnprintf's;    *)
(* out is the text it produces.                                            *)

Overread == "?"     \* characters read past the end of what was written

\* ARCH->vsnprintf(buffer, len, fmt, args), line 137: what it returns and
\* what the buffer then reads as.  The wrapper is outside this code, so
\* both contracts are outcomes: C99 returns the full length and keeps the
\* first len - 1 characters; _vsnwprintf returns -1 when the output is
\* longer than len, and an output of exactly len characters is left
\* unterminated, so reading it goes on into whatever follows.
vsnprintf(out, len) ==
    {[n |-> Len(out), text |-> IF Len(out) < len THEN out ELSE SubSeq(out, 1, len - 1)]}
    \cup {[n |-> IF Len(out) > len THEN -1 ELSE Len(out), text |-> t] :
             t \in IF Len(out) = len THEN {out, out \o <<Overread>>} ELSE {out}}

\* The buffers of the loop are named by number: 0 is the stack buffer tmp,
\* k the k-th one allocated with new nchar[len].

\* Mutant of freeBuffer: the buffer != tmp test is left out, so the stack
\* buffer is deleted too.
freeBufferAlways(deleted, buffer) == Append(deleted, buffer)

\* "if (buffer != tmp) delete[] buffer;" (lines 142-144 and 152-154):
\* deleted lists the buffers deleted, in order.
freeBuffer(deleted, buffer) ==
    IF buffer # 0 THEN Append(deleted, buffer) ELSE deleted

\* The loop, lines 132-156: on n < 0 or n > len, free the buffer, double
\* len and allocate a new one; otherwise copy the buffer into the result
\* and free it.  allocated counts the heap buffers.  Every outcome of the
\* call is a record of the result and the buffers allocated and deleted.
RECURSIVE sprintfLoop(_, _, _, _, _)
sprintfLoop(out, len, buffer, allocated, deleted) ==
    UNION {IF v.n < 0 \/ v.n > len
           THEN sprintfLoop(out, 2 * len, allocated + 1, allocated + 1,
                            freeBuffer(deleted, buffer))
           ELSE {[result    |-> v.text, allocated |-> allocated,
                  deleted   |-> freeBuffer(deleted, buffer)]}
           : v \in vsnprintf(out, len)}

\* sprintf(fmt, ...) with a stack buffer of tmpLen characters (1024).
sprintf(out, tmpLen) == sprintfLoop(out, tmpLen, 0, 0, <<>>)
=============================================================================
