------------------------------ MODULE MCLibrary ------------------------------
(***************************************************************************)
(* Every format string of up to six characters over "%", "{", "}", "1",   *)
(* "2", "-" and "a", formatted with two arguments; every string of up to  *)
(* five characters over "a" and "," split at ","; and findReplaceAll on    *)
(* strings over "a" and "b"; KeyInfo's join, split and contains on every   *)
(* set of the screen names "a", "b", "ab", "ba" and "*"; the drag-info     *)
(* text of one or two files with Windows paths; CaselessCmp on every      *)
(* triple of names of up to two characters over "a", "A", "b" and "_".    *)
(* Every command of up to four words built the way the ArgParser unit    *)
(* tests build theirs, through the daemon's kIpcCommand handler.  Every    *)
(* walk of up to three key names through a registry two levels deep over  *)
(* "a" and "b"; every sequence of up to three busy-state calls; every      *)
(* executable path of up to three directories below "C:"; every run of up *)
(* to five writes and closes of a buffered log of one or two messages;    *)
(* every run of up to three registry value calls through an open key or  *)
(* NULL; getCommand on every argument string of up to four pieces; sprintf *)
(* on every output of up to nine characters; DaemonApp::run on every      *)
(* argument list of up to three words and every set of failing calls.    *)
(* Each                                                                    *)
(* call is one step from its input to its output.                          *)
(***************************************************************************)
EXTENDS StringFormat, KeyInfo, DragInfo

MCArgs     == <<<<"x">>, <<"y", "y">>>>
MCMaxSteps == 8

Strings(chars, n) == UNION {[1..k -> chars] : k \in 0..n}

Formats  == Strings({"%", "{", "}", "1", "2", "-", "a"}, 6)
Splits   == Strings({"a", ","}, 5)
Replaces == {<<s, f, r>> : s \in Strings({"a", "b"}, 4),
                           f \in Strings({"a", "b"}, 2),
                           r \in Strings({"a", "b"}, 2)}
ScreenNames == {<<"a">>, <<"b">>, <<"a", "b">>, <<"b", "a">>, Star}
KeyInputs   == {<<d, n>> : d \in SUBSET ScreenNames, n \in ScreenNames \ {Star}}
Paths       == {<<"a">>, <<"\\", "a">>, <<"a", "\\", "a">>}
Names       == Strings({"a", "A", "b", "_"}, 2)
Triples     == Names \X Names \X Names
DragFiles   == LET f == [path : Paths, size : {1, 2}]
               IN  {<<x>> : x \in f} \cup {<<x, y>> : x, y \in f}

\* The daemon's command handler, with one character per option word: "L"
\* for "--log", "l" for "-l", "f" for "-f", "e" for "--exit-pause", "n"
\* for "--name", "p" for "--crypto-pass", "c" for "-c" and "y" for
\* "--yscroll".  A program path with an "s" in it is the server.
DC == INSTANCE DaemonCommand
        WITH LongLog <- <<"L">>, ShortLog <- <<"l">>,
             PlatformFlags <- {<<"e">>}, Flags <- {<<"f">>},
             ValueOptions <- {<<"n">>}, DeprecatedOptions <- {<<"p">>},
             ServerOptions <- {<<"c">>}, ClientOptions <- {<<"y">>},
             ServerName <- <<"s">>

\* Commands are words joined by single spaces, a word either bare or
\* wholly inside double quotes; bare words carry no space or quote, and
\* quoted words may carry spaces.  The program path comes first.
BareWords   == {<<>>, <<"a">>, <<"L">>, <<"l">>, <<"f">>, <<"e">>, <<"n">>,
                <<"p">>, <<"c">>, <<"y">>}
QuotedWords == {<<"a">>, <<" ">>, <<"a", " ">>}
Quote(w)    == <<DC!Q>> \o w \o <<DC!Q>>
Tokens      == BareWords \cup {Quote(w) : w \in QuotedWords}
Programs    == {<<"a">>, <<"s">>, Quote(<<"a", " ", "a">>)}
MaxRest     == 3
TokenLists  == {<<p>> \o r : p \in Programs,
                             r \in UNION {[1..n -> Tokens] : n \in 0..MaxRest}}
RECURSIVE Join(_)
Join(ts) == IF Len(ts) = 1 THEN Head(ts)
            ELSE Head(ts) \o <<" ">> \o Join(Tail(ts))
\* The empty-quotes command the client sends to clear the command.
Commands == {Join(ts) : ts \in TokenLists} \cup {<<DC!Q, DC!Q>>}

\* ArchMiscWindows: registry keys and the busy-state mask.
CONSTANT NullKey
AM == INSTANCE ArchMiscWindows

KeyNames   == {"a", "b"}
SubKeys    == [1..1 -> KeyNames] \cup [1..2 -> KeyNames]
\* A registry's keys: every subkey's parent exists.
Registries == {k \in SUBSET SubKeys :
                 \A p \in k : Len(p) = 1 \/ SubSeq(p, 1, Len(p) - 1) \in k}
KeyWalks   == [keys : Registries, denied : SUBSET {<<"a">>, <<"b">>, <<"a", "b">>},
               names : Strings(KeyNames, 3), create : BOOLEAN]
BusyCalls  == {"add", "remove"} \X {AM!kSYSTEM, AM!kDISPLAY, AM!kSYSTEM + AM!kDISPLAY}
              \cup {<<"wake", 0>>}
BusyRuns   == [calls : UNION {[1..n -> BusyCalls] : n \in 0..3}, kernel : BOOLEAN]

\* ArchFileWindows: the names GetModuleFileNameW gives, a drive and
\* backslash-separated parts.
AF == INSTANCE ArchFile
PathParts   == Strings({"a", "b"}, 2) \ {<<>>}
RECURSIVE BackslashJoin(_)
BackslashJoin(ps) == IF ps = <<>> THEN <<>>
                     ELSE <<AF!Backslash>> \o Head(ps) \o BackslashJoin(Tail(ps))
ModuleNames == {<<"C", ":">> \o BackslashJoin(ps) :
                  ps \in UNION {[1..n -> PathParts] : n \in 1..3}}

\* BufferedLogOutputter, with a bound of one or two messages.
BL == INSTANCE BufferedLog
LogRuns == [max : {1, 2}, calls : UNION {[1..n -> {"m1", "m2", "m3", "close"}] : n \in 0..5}]

\* Calls on the value "v" below an open key (the root handle <<>>) or
\* NULL: strings of up to three characters, two DWORDs, an empty and a
\* one-byte binary value, and deleteValue.
ValueKeys  == {<<>>, NullKey}
ValueCalls == [op : {"string"}, key : ValueKeys, arg : Strings({"a", "b"}, 3)]
              \cup [op : {"dword"}, key : ValueKeys, arg : {0, 5}]
              \cup [op : {"binary"}, key : ValueKeys, arg : {<<>>, <<7>>}]
              \cup [op : {"delete"}, key : ValueKeys, arg : {<<>>}]
ValueRuns  == UNION {[1..n -> ValueCalls] : n \in 0..3}
\* getCommand on argument strings of up to four pieces: the flag, its two
\* halves (a removal between them forms a new flag), a space and a word.
WC == INSTANCE WatchdogCommand
ArgPieces  == {WC!Relaunch, <<"-", "-", "r", "e", "l">>, <<"a", "u", "n", "c", "h">>,
               <<" ">>, <<"x">>}
RECURSIVE Concat(_)
Concat(ps) == IF ps = <<>> THEN <<>> ELSE Head(ps) \o Concat(Tail(ps))
CommandRuns == [auto : BOOLEAN,
                args : {Concat(ps) : ps \in UNION {[1..n -> ArgPieces] : n \in 0..4}}]
\* sprintf with its 1024-character stack buffer cut to two, on outputs of
\* up to nine characters: up to three retries, so the stack buffer and
\* three heap buffers are in play.
TmpLen  == 2
Outputs == Strings({"a"}, 9)
\* DaemonApp::run on every argument list of up to three words, "x" an
\* unrecognized one, with any of its four calls throwing an XArch whose
\* text is the service manager's false positive or another error.
DR == INSTANCE DaemonRun
RunWords == {"/f", "-f", DR!Install, DR!Uninstall, "x"}
RunCalls == [args    : UNION {[1..n -> RunWords] : n \in 0..3},
             fails   : SUBSET {"installDaemon", "uninstallDaemon", "daemonize", "mainLoop"},
             message : {DR!NotStarted, "Access is denied"}]

RECURSIVE applyValueCalls(_, _)
applyValueCalls(vals, calls) ==
    IF calls = <<>> THEN vals
    ELSE LET c == Head(calls)
             v == CASE c.op = "string" -> AM!setValueString(vals, c.key, "v", c.arg)
                    [] c.op = "dword"  -> AM!setValueDWORD(vals, c.key, "v", c.arg)
                    [] c.op = "binary" -> AM!setValueBinary(vals, c.key, "v", c.arg)
                    [] c.op = "delete" -> AM!deleteValue(vals, c.key, "v")
         IN  applyValueCalls(v, Tail(calls))

VARIABLES kind, input, out, returned

vars == <<kind, input, out, returned>>

Init == /\ \/ kind = "format"  /\ input \in Formats
           \/ kind = "split"   /\ input \in Splits
           \/ kind = "replace" /\ input \in Replaces
           \/ kind = "keys"    /\ input \in KeyInputs
           \/ kind = "drag"    /\ input \in DragFiles
           \/ kind = "compare" /\ input \in Triples
           \/ kind = "command" /\ input \in Commands
           \/ kind = "openKey" /\ input \in KeyWalks
           \/ kind = "busy"    /\ input \in BusyRuns
           \/ kind = "module"  /\ input \in ModuleNames
           \/ kind = "buffer"  /\ input \in LogRuns
           \/ kind = "values"  /\ input \in ValueRuns
           \/ kind = "relaunch" /\ input \in CommandRuns
           \/ kind = "sprintf" /\ input \in Outputs
           \/ kind = "run"     /\ input \in RunCalls
        /\ out = <<>>
        /\ returned = FALSE

Format  == kind = "format"  /\ ~returned /\ out' = VFormat(input) /\ returned' = TRUE /\ UNCHANGED <<kind, input>>
Split   == kind = "split"   /\ ~returned /\ out' = SplitString(input, ",") /\ returned' = TRUE /\ UNCHANGED <<kind, input>>
Replace == kind = "replace" /\ ~returned
           /\ out' = FindReplaceAll(input[1], input[2], input[3]) /\ returned' = TRUE /\ UNCHANGED <<kind, input>>
\* alloc(..., destinations) joins the set into m_screensBuffer; a later
\* key event splits it, or asks whether a screen is in it.
Keys    == kind = "keys" /\ ~returned
           /\ out' = (LET screens == join(input[1])
                      IN  [split |-> split(screens), contains |-> contains(screens, input[2])])
           /\ returned' = TRUE /\ UNCHANGED <<kind, input>>
\* The sending side's setupDragInfo, and the receiving side's
\* parseDragInfo with the number of files sent.
Drag    == kind = "drag" /\ ~returned
           /\ out' = parseDragInfo(Len(input), setupDragInfo(input))
           /\ returned' = TRUE /\ UNCHANGED <<kind, input>>
\* CaselessCmp as the comparator of a std::set or std::map: less, and
\* equal, on each ordered pair of the triple.
Compare == kind = "compare" /\ ~returned
           /\ out' = [p \in {<<i, j>> : i, j \in 1..3} |->
                        [less |-> less(input[p[1]], input[p[2]]),
                         equal |-> equal(input[p[1]], input[p[2]])]]
           /\ returned' = TRUE /\ UNCHANGED <<kind, input>>
\* handleIpcMessage receives a kIpcCommand.
Command == kind = "command" /\ ~returned
           /\ out' = DC!HandleIpcCommand(input)
           /\ returned' = TRUE /\ UNCHANGED <<kind, input>>
\* openKey or addKey with a list of subkey names, from the root key.
OpenKey == kind = "openKey" /\ ~returned
           /\ out' = AM!openKeyPath(input.keys, input.denied, input.names, input.create)
           /\ returned' = TRUE /\ UNCHANGED <<kind, input>>
\* A run of addBusyState/removeBusyState calls from process start.
Busy    == kind = "busy" /\ ~returned
           /\ out' = AM!applyBusyCalls(AM!BusyInit, input.calls, input.kernel)
           /\ returned' = TRUE /\ UNCHANGED <<kind, input>>
\* The service's own directory and its program name (ArgParser's
\* m_pname), from one module file name.
Module  == kind = "module" /\ ~returned
           /\ out' = [dir |-> AF!getInstalledDirectory(input), base |-> AF!getBasename(input)]
           /\ returned' = TRUE /\ UNCHANGED <<kind, input>>
\* A buffered log outputter built, then written to and closed.
Buffer  == kind = "buffer" /\ ~returned
           /\ out' = BL!applyLogCalls(BL!BufferedLogOutputter(input.max), input.calls)
           /\ returned' = TRUE /\ UNCHANGED <<kind, input>>
\* A run of value calls on a key that holds no values, then every query
\* of the value through the open key.
Values  == kind = "values" /\ ~returned
           /\ out' = (LET vals == applyValueCalls([n \in {"v"} |-> AM!NoValue], input)
                     IN  [type   |-> AM!typeOfValue(vals, <<>>, "v"),
                          has    |-> AM!hasValue(vals, <<>>, "v"),
                          int    |-> AM!readValueInt(vals, <<>>, "v"),
                          binary |-> AM!readValueBinary(vals, <<>>, "v"),
                          string |-> AM!readValueString(vals, <<>>, "v")])
           /\ returned' = TRUE /\ UNCHANGED <<kind, input>>
\* The monitor thread asks for the command to launch, the set one being
\* "c" and the program name "p".
Relaunch == kind = "relaunch" /\ ~returned
            /\ out' = WC!getCommand(input.auto, <<"c">>, <<"p">>, input.args)
            /\ returned' = TRUE /\ UNCHANGED <<kind, input>>
Sprintf  == kind = "sprintf" /\ ~returned
            /\ out' = sprintf(input, TmpLen)
            /\ returned' = TRUE /\ UNCHANGED <<kind, input>>
Run      == kind = "run" /\ ~returned
            /\ out' = DR!run(input.args, input.fails, input.message)
            /\ returned' = TRUE /\ UNCHANGED <<kind, input>>
Returned == returned /\ UNCHANGED vars

Next == Format \/ Split \/ Replace \/ Keys \/ Drag \/ Compare \/ Command
        \/ OpenKey \/ Busy \/ Module \/ Buffer \/ Values \/ Relaunch \/ Sprintf \/ Run \/ Returned

Spec == Init /\ [][Next]_vars

-----------------------------------------------------------------------------
(* Reference definitions, one pass each.                                   *)

\* An index is an optional sign and at least one digit, as strtol reads
\* it, or nothing at all: strtol then reads 0 and leaves end on the '}'.
IsIndex(b) == \/ b = <<>>
              \/ LET d == IF b[1] \in {"-", "+"} THEN Tail(b) ELSE b
                 IN  d # <<>> /\ \A k \in DOMAIN d : d[k] \in DOMAIN Digits

RECURSIVE DigitsValue(_)
DigitsValue(d) == IF d = <<>> THEN 0
                  ELSE 10 * DigitsValue(SubSeq(d, 1, Len(d) - 1)) + Digits[d[Len(d)]]

IndexValue(b) == IF b = <<>> THEN 0 ELSE IF b[1] = "-" THEN -DigitsValue(Tail(b))
                 ELSE IF b[1] = "+" THEN DigitsValue(Tail(b)) ELSE DigitsValue(b)

\* The header's contract (String.h lines 88-97): "%%" is "%", "%{n}" with n
\* a positive integer is argument n, and anything else is copied, as the
\* code's comments say it ignores an invalid index and an improper escape.
IsPositive(b) == /\ b # <<>>
                 /\ \A k \in DOMAIN b : b[k] \in DOMAIN Digits
                 /\ DigitsValue(b) > 0

RECURSIVE Render(_)
Render(f) ==
    LET closes == {k \in 3..Len(f) : f[k] = "}"}
        close  == IF closes = {} THEN 0 ELSE Min(closes)
    IN  CASE f = <<>> -> <<>>
          [] f[1] # "%" \/ Len(f) = 1 -> <<f[1]>> \o Render(Tail(f))
          [] f[2] = "%" -> <<"%">> \o Render(SubSeq(f, 3, Len(f)))
          [] f[2] = "{" /\ close > 0 /\ IsPositive(SubSeq(f, 3, close - 1)) ->
                Args[DigitsValue(SubSeq(f, 3, close - 1))] \o Render(SubSeq(f, close + 1, Len(f)))
          [] OTHER -> <<f[1]>> \o Render(Tail(f))

\* The indices a format names, read as strtol reads them: an index that
\* is not a positive integer ("%{}", "%{0}", "%{-1}") is among them.
RECURSIVE Indices(_)
Indices(f) ==
    LET closes == {k \in 3..Len(f) : f[k] = "}"}
        close  == IF closes = {} THEN 0 ELSE Min(closes)
    IN  CASE Len(f) < 2 -> {}
          [] f[1] = "%" /\ f[2] = "%" -> Indices(SubSeq(f, 3, Len(f)))
          [] f[1] = "%" /\ f[2] = "{" /\ close > 0 /\ IsIndex(SubSeq(f, 3, close - 1)) ->
                {IndexValue(SubSeq(f, 3, close - 1))} \cup Indices(SubSeq(f, close + 1, Len(f)))
          [] OTHER -> Indices(Tail(f))

\* On every format the header gives a meaning to (each index a positive
\* integer), vformat's two passes give what the header says: the offsets
\* and widths the scan records, and the splice between them, put every
\* argument where its "%{n}" was, "%" for "%%", and keep all other text.
\* A call is defined exactly when every index names a passed argument.
\* Formats with an index of 0, empty or negative are outside the contract
\* (see the hazards at String.cpp lines 71-72).
FormatMatchesReference ==
    kind = "format" /\ returned /\ Indices(input) \subseteq Nat \ {0} =>
        /\ out.defined = (Indices(input) \subseteq 1..Len(Args))
        /\ out.defined => out.result = Render(input)

\* splitString gives the non-empty pieces between separators, in order:
\* none contains the separator, and joined with it they give the string
\* with runs of separators collapsed and the ends trimmed.
RECURSIVE Collapse(_)
Collapse(s) == CASE s = <<>> -> <<>>
                 [] Len(s) >= 2 /\ s[1] = "," /\ s[2] = "," -> Collapse(Tail(s))
                 [] OTHER -> <<s[1]>> \o Collapse(Tail(s))
Trim(s) == LET c == Collapse(s)
               a == IF c # <<>> /\ c[1] = "," THEN Tail(c) ELSE c
           IN  IF a # <<>> /\ a[Len(a)] = "," THEN SubSeq(a, 1, Len(a) - 1) ELSE a
RECURSIVE JoinWith(_)
JoinWith(ps) == CASE ps = <<>> -> <<>>
                  [] Len(ps) = 1 -> Head(ps)
                  [] OTHER -> Head(ps) \o <<",">> \o JoinWith(Tail(ps))
SplitStringPieces ==
    kind = "split" /\ returned =>
        /\ \A k \in DOMAIN out : out[k] # <<>> /\ \A j \in DOMAIN out[k] : out[k][j] # ","
        /\ JoinWith(out) = Trim(input)

\* Left-to-right replacement of non-overlapping occurrences.
RECURSIVE ReplaceRef(_, _, _)
ReplaceRef(s, f, r) ==
    CASE Len(s) < Len(f) -> s
      [] SubSeq(s, 1, Len(f)) = f -> r \o ReplaceRef(SubSeq(s, Len(f) + 1, Len(s)), f, r)
      [] OTHER -> <<s[1]>> \o ReplaceRef(Tail(s), f, r)

\* findReplaceAll ends for a non-empty find and replaces every occurrence
\* left to right, never inside a replacement it has just made.
FindReplaceAllMatches ==
    kind = "replace" /\ returned /\ input[2] # <<>> =>
        out.ends /\ out.result = ReplaceRef(input[1], input[2], input[3])

\* A name ignoring case: the codes of its lowered characters.
Folded(s) == [i \in DOMAIN s |-> tonlower(s[i])]

\* CaselessCmp is a strict weak order whose equivalence is equality
\* ignoring case, as std::set and std::map require of their comparator:
\* less is irreflexive and transitive, "neither is less" is transitive,
\* and equal holds exactly for names that are the same once lowered.
CaselessStrictWeakOrder ==
    kind = "compare" /\ returned =>
        /\ \A i \in 1..3 : ~out[<<i, i>>].less
        /\ \A i, j, k \in 1..3 :
              /\ out[<<i, j>>].less /\ out[<<j, k>>].less => out[<<i, k>>].less
              /\ out[<<i, j>>].equal /\ out[<<j, k>>].equal => out[<<i, k>>].equal
        /\ \A i, j \in 1..3 : out[<<i, j>>].equal = (Folded(input[i]) = Folded(input[j]))

\* What the tests expect of splitCommandString: the words, each without
\* its surrounding quotes.  The token lists TestSplit takes to argsArray
\* are those whose i-th word is argsArray[i], bare or quoted.
IsTokenList(ts) == /\ ts[1] \in Programs
                   /\ Len(ts) <= MaxRest + 1
                   /\ \A i \in 2..Len(ts) : ts[i] \in Tokens

\* splitCommandString returns the words of a command built like the unit
\* tests' commands, unquoted ("\"stub1\" stub2 \"stub3 space\"" gives
\* stub1, stub2, "stub3 space"), for every such command up to the bound.
SplitMatchesTests ==
    kind = "command" /\ returned /\ input # <<DC!Q, DC!Q>> =>
        \E quoted \in [DOMAIN out.argsArray -> BOOLEAN] :
            LET ts == [i \in DOMAIN out.argsArray |->
                          IF quoted[i] THEN Quote(out.argsArray[i]) ELSE out.argsArray[i]]
            IN  out.argsArray # <<>> /\ IsTokenList(ts) /\ Join(ts) = input

\* The rewrite keeps the arguments: once a command with a log file is
\* stored, splitting the rebuilt command gives back every argument of the
\* original but the "--log <file>" pairs, in order.  assembleCommand must
\* quote exactly the arguments the splitter would cut, and the splitter
\* must keep those quotes together.
RewriteKeepsArguments ==
    kind = "command" /\ returned /\ out.defined /\ out.logFile # DC!Unset =>
        DC!SplitCommandString(out.command) = DC!WithoutLongLog(out.argsArray)

\* The log file is taken away from the worker, as the comment at line 348
\* says ("removed log file argument and filename"): the stored command no
\* longer names a log file, so only the daemon writes to it.
LogArgumentRemoved ==
    kind = "command" /\ returned /\ out.defined /\ out.command # <<>> =>
        DC!ParseLogFile(DC!SplitCommandString(out.command)) = DC!Unset

\* split gives back the set join was given, or {"*"} when it holds "*":
\* the screens a key is routed to are the screens it was sent to.
KeyScreensKept ==
    kind = "keys" /\ returned =>
        out.split = IF Star \in input[1] THEN {Star} ELSE input[1]

\* contains answers whether a screen is one of the destinations, as the
\* comment in join promises ("names are surrounded by ':' which makes
\* searching easy"): a screen is found exactly when it is in the set or
\* the set holds "*".
ContainsMatchesDestinations ==
    kind = "keys" /\ returned =>
        out.contains = (input[2] \in input[1] \/ Star \in input[1])

\* parseDragInfo reads back what setupDragInfo wrote: for every file, in
\* order, its name after the last separator and its size, without an
\* exception.
DragFilesKept ==
    kind = "drag" /\ returned =>
        out = [thrown |-> FALSE,
               list   |-> [i \in DOMAIN input |-> [name |-> BaseName(input[i].path),
                                                  size |-> input[i].size]]]

\* openKey walks the path and leaks no handle: it returns the key the
\* names lead to exactly when each subkey on the way exists (or, for
\* addKey, may be created) and may be opened; addKey creates just the
\* missing subkeys before the first refused one; and of the handles it
\* opened, and the root key it was handed, only the returned key's is
\* still open, whichever step failed.
OpenKeyWalksPath ==
    kind = "openKey" /\ returned =>
        LET prefix(k) == SubSeq(input.names, 1, k)
            blocked(k) == prefix(k) \in input.denied
                          \/ (~input.create /\ prefix(k) \notin input.keys)
            stops   == {k \in 1..Len(input.names) : blocked(k)}
            reached == IF stops = {} THEN Len(input.names) ELSE Min(stops) - 1
        IN  /\ out.result = IF stops = {} THEN input.names ELSE NullKey
            /\ out.keys = input.keys \cup {prefix(k) : k \in 1..reached}
            /\ out.open = IF stops = {} THEN (input.names :> 1) ELSE <<>>

\* While SetThreadExecutionState is available, every mode the process has
\* asked to keep busy (its last add or remove call naming the mode was an
\* add) is held continuously by the operating system, however the calls
\* interleave the two modes.
BusyModesInForce ==
    kind = "busy" /\ returned /\ input.kernel =>
        \A m \in {<<AM!kSYSTEM, "system">>, <<AM!kDISPLAY, "display">>} :
            LET naming == {i \in DOMAIN input.calls : (input.calls[i][2] \div m[1]) % 2 = 1}
            IN  naming # {} /\ input.calls[Max(naming)][1] = "add" => m[2] \in out.os

\* The installed directory and the program name split the executable's
\* path: the name is a non-empty last part without separators, the
\* directory is a drive or a directory path, and concatPath puts them
\* back together into the path GetModuleFileNameW gave.
ModulePathSplits ==
    kind = "module" /\ returned =>
        /\ out.base # <<>>
        /\ \A i \in DOMAIN out.base : out.base[i] \notin {AF!Slash, AF!Backslash}
        /\ AF!concatPath(out.dir, out.base) = input

\* The buffer holds the most recent messages written since the last close,
\* in the order written, as many as the bound allows and no more.
BufferKeepsLatest ==
    kind = "buffer" /\ returned =>
        LET closes == {i \in DOMAIN input.calls : input.calls[i] = "close"}
            since  == IF closes = {} THEN input.calls
                      ELSE SubSeq(input.calls, Max(closes) + 1, Len(input.calls))
            kept   == IF Len(since) <= input.max THEN since
                      ELSE SubSeq(since, Len(since) - input.max + 1, Len(since))
        IN  out.buffer = kept

\* Memory across sprintf's retries (String.cpp 132-156), whichever
\* vsnprintf contract ARCH keeps and however many times the buffer is
\* doubled: every heap buffer allocated is deleted exactly once, after the
\* vsnprintf that used it, and the stack buffer is never deleted.
SprintfFreesEachBuffer ==
    kind = "sprintf" /\ returned =>
        \A r \in out : r.deleted = [k \in 1..r.allocated |-> k]
\* DaemonApp::run starts the service (in the foreground or as a daemon)
\* exactly when every argument is /f or -f, makes no service-manager call
\* after an unrecognized argument, and never fails quietly: an exit with
\* kExitFailed shows the error in a message box, unless it is the service
\* manager's "has not been started" false positive after /install or
\* /uninstall.
RunFailsLoudly ==
    kind = "run" /\ returned =>
        LET args == input.args
            onlyFlags == \A i \in DOMAIN args : args[i] \in DR!ForegroundFlags
        IN  /\ out.call \in {"mainLoop", "daemonize"} <=> onlyFlags
            /\ out.exit = "kExitArgs" <=> out.call = "none"
            /\ out.exit = "kExitFailed" =>
                   \/ out.shown = input.message
                   \/ /\ out.shown = ""
                      /\ input.message = DR!NotStarted
                      /\ out.call \in {"installDaemon", "uninstallDaemon"}
=============================================================================
