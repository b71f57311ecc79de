----------------------------- MODULE ArgParser -----------------------------
(***************************************************************************)
(* The command-line helpers of ArgParser (lib/synergy/ArgParser.cpp) that  *)
(* the daemon uses to rewrite a worker command: splitCommandString,         *)
(* searchDoubleQuotes, removeDoubleQuotes, assembleCommand, and the       *)
(* argument parse of parseServerArgs / parseClientArgs as far as it sets   *)
(* m_logFile: which words it consumes, and where it stops.                 *)
(*                                                                         *)
(* An nstring is a sequence of characters, each a one-character string.   *)
(* An option word ("--log", "-l", "-f") is compared whole by the parse and *)
(* by assembleCommand, so the words are constants of the model.  Indices   *)
(* into strings are 0-based, as std::string's are.                         *)
(***************************************************************************)
EXTENDS Integers, Sequences, FiniteSetsExt

CONSTANTS
    LongLog,            \* the word "--log"
    ShortLog,           \* the word "-l"
    PlatformFlags,      \* the Windows options ("--exit-pause", ...), no parameter
    Flags,              \* generic options without one ("-f", "--no-tray", ...)
    ValueOptions,       \* generic options with one ("-d", "-n", "--profile-dir", ...)
    DeprecatedOptions,  \* options that skip the next word ("--crypto-pass", ...)
    ServerOptions,      \* the server's own options with one ("-a", "-c")
    ClientOptions,      \* the client's own options with one ("--yscroll")
    ServerName          \* "synergys", looked for in the program path

Q     == "\""           \* _N('\"')
Space == " "

\* std::string::npos
NPos == -1

\* command.find(c, from): 0-based index of the first c at or after from.
Find(s, c, from) ==
    LET hits == {i \in from..(Len(s) - 1) : s[i + 1] = c}
    IN  IF hits = {} THEN NPos ELSE Min(hits)

\* command.substr(pos, n), pos within the string.
Substr(s, pos, n) ==
    SubSeq(s, pos + 1, IF pos + n < Len(s) THEN pos + n ELSE Len(s))

\* Mutant of SearchDoubleQuotes: the right quote is looked for from the
\* left one, not after it.
SearchDoubleQuotesFromLeft(s, startPos) ==
    LET left  == Find(s, Q, startPos)
        right == IF left = NPos THEN NPos ELSE Find(s, Q, left)
    IN  IF right # NPos THEN <<left, right>> ELSE <<0, 0>>

\* searchDoubleQuotes(command, left, right, startPos): the first pair of
\* double quotes at or after startPos, or <<0, 0>> when there is none.
SearchDoubleQuotes(s, startPos) ==
    LET left  == Find(s, Q, startPos)
        right == IF left = NPos THEN NPos ELSE Find(s, Q, left + 1)
    IN  IF right # NPos THEN <<left, right>> ELSE <<0, 0>>

\* removeDoubleQuotes(arg).  On an empty arg, arg[0] is the terminating
\* null, so the && stops before arg[size() - 1] is read.  For the arg "\""
\* substr(1, size() - 2) is substr(1, npos), the empty string.
RemoveDoubleQuotes(arg) ==
    IF Len(arg) > 0 /\ arg[1] = Q /\ arg[Len(arg)] = Q
    THEN SubSeq(arg, 2, Len(arg) - 1)
    ELSE arg

\* The while loop of splitCommandString: a space strictly between the
\* current pair of quotes is skipped; a space after the pair makes it look
\* for the next pair (after the old right quote), without re-testing this
\* space against the new pair.
RECURSIVE SplitLoop(_, _, _, _, _, _)
SplitLoop(s, startPos, space, left, right, argv) ==
    IF space = NPos
    THEN Append(argv, RemoveDoubleQuotes(Substr(s, startPos, Len(s))))
    ELSE LET ignore == space > left /\ space < right
             pair   == IF ~ignore /\ space > right
                       THEN SearchDoubleQuotes(s, right + 1)
                       ELSE <<left, right>>
         IN  IF ignore
             THEN SplitLoop(s, startPos, Find(s, Space, right + 1),
                            pair[1], pair[2], argv)
             ELSE SplitLoop(s, space + 1, Find(s, Space, space + 1), pair[1], pair[2],
                            Append(argv, RemoveDoubleQuotes(Substr(s, startPos, space - startPos))))

\* splitCommandString(command, argv), argv empty on entry.
SplitCommandString(s) ==
    IF s = <<>> THEN <<>>
    ELSE LET pair == SearchDoubleQuotes(s, 0)
         IN  SplitLoop(s, 0, Find(s, Space, 0), pair[1], pair[2], <<>>)

\* Mutant of QuoteArg: arguments are appended without quotes.
QuoteArgUnquoted(a) == a

\* An argument with a space in it is surrounded by double quotes.
QuoteArg(a) == IF Find(a, Space, 0) # NPos THEN <<Q>> \o a \o <<Q>> ELSE a

\* The for loop of assembleCommand over iterator position i (1-based): an
\* arg equal to ignoreArg moves the iterator on by parametersRequired and
\* the loop's ++it.  Moving it past end() is undefined behaviour; the loop
\* then no longer meets end(), and the result is marked undefined.
RECURSIVE AssembleLoop(_, _, _, _, _)
AssembleLoop(args, ignoreArg, parametersRequired, i, result) ==
    CASE i = Len(args) + 1 -> [defined |-> TRUE, cmd |-> result]
      [] i > Len(args) + 1 -> [defined |-> FALSE, cmd |-> result]
      [] args[i] = ignoreArg ->
            AssembleLoop(args, ignoreArg, parametersRequired,
                         i + parametersRequired + 1, result)
      [] OTHER ->
            AssembleLoop(args, ignoreArg, parametersRequired, i + 1,
                         result \o QuoteArg(args[i]) \o <<Space>>)

\* assembleCommand(argsArray, ignoreArg, parametersRequired): the loop,
\* then the trailing space removed.
AssembleCommand(args, ignoreArg, parametersRequired) ==
    LET r == AssembleLoop(args, ignoreArg, parametersRequired, 1, <<>>)
    IN  [r EXCEPT !.cmd = IF @ = <<>> THEN @ ELSE SubSeq(@, 1, Len(@) - 1)]

\* m_logFile before a parse.
Unset == "unset"

\* isArg(argi, argc, argv, name1, name2, minRequiredParameters) at 1-based
\* position i: the word is one of the names and 0-based argi + the
\* parameters needed stays below argc.  A missing parameter only sets
\* m_shouldExit, and isArg answers false.
IsArg(args, i, names, minRequiredParameters) ==
    args[i] \in names /\ (i - 1) + minRequiredParameters < Len(args)

\* parsePlatformArg, Windows branch: a flag, or not an option of its.
parsePlatformArg(args, i) == IsArg(args, i, PlatformFlags, 0)

\* parseGenericArgs: the words it consumes (0 when the word is not one of
\* its options, or lacks its parameter) and m_logFile after it.
\* "-l"/"--log" stores its parameter; its other options with one skip it.
parseGenericArgs(args, i, logFile) ==
    CASE IsArg(args, i, {LongLog, ShortLog}, 1) -> [n |-> 2, logFile |-> args[i + 1]]
      [] IsArg(args, i, ValueOptions, 1)        -> [n |-> 2, logFile |-> logFile]
      [] IsArg(args, i, Flags, 0)               -> [n |-> 1, logFile |-> logFile]
      [] OTHER                                  -> [n |-> 0, logFile |-> logFile]

\* parseDeprecatedArgs: a deprecated option skips the next word, whether
\* or not there is one.
parseDeprecatedArgs(args, i) == IsArg(args, i, DeprecatedOptions, 0)

\* The loop of parseServerArgs / parseClientArgs from i = 1 (1-based: 2):
\* each word goes to parsePlatformArg, parseGenericArgs,
\* parseDeprecatedArgs, then the parser's own options with a parameter.
\* Any other word, and an option missing its parameter, ends the parse:
\* the client takes a last word as the server address and returns true,
\* and both parsers return false on an unrecognised option.
RECURSIVE ParseLoop(_, _, _, _)
ParseLoop(args, server, i, logFile) ==
    LET generic == parseGenericArgs(args, i, logFile)
    IN  CASE i > Len(args) -> logFile
          [] parsePlatformArg(args, i) -> ParseLoop(args, server, i + 1, logFile)
          [] generic.n > 0 -> ParseLoop(args, server, i + generic.n, generic.logFile)
          [] parseDeprecatedArgs(args, i) -> ParseLoop(args, server, i + 2, logFile)
          [] IsArg(args, i, IF server THEN ServerOptions ELSE ClientOptions, 1) ->
                ParseLoop(args, server, i + 2, logFile)
          [] OTHER -> logFile

\* argsArray[0].find("synergys") != npos
IsServer(program) ==
    \E k \in 0..(Len(program) - Len(ServerName)) :
        SubSeq(program, k + 1, k + Len(ServerName)) = ServerName

\* m_logFile after the daemon's parse: parseServerArgs when the program is
\* synergys, parseClientArgs otherwise.
ParseLogFile(args) == ParseLoop(args, IsServer(args[1]), 2, Unset)
=============================================================================
