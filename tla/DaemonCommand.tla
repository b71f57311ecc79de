---------------------------- MODULE DaemonCommand ----------------------------
(***************************************************************************)
(* What DaemonApp::handleIpcMessage (lib/synergy/DaemonApp.cpp) does to   *)
(* the command of a kIpcCommand message before storing it: "" clears it;  *)
(* a non-empty command is split into arguments and parsed; when the parse  *)
(* found a log file, the command is rebuilt without "--log <file>", since  *)
(* the daemon writes the worker's output to that file itself.             *)
(*                                                                         *)
(* The handler runs on the event thread and touches nothing another       *)
(* thread shares until it calls setCommand, so it is one operator from the *)
(* received command to what it stores.  The log-level and log-file        *)
(* settings it saves are left out: no property here is about them.        *)
(***************************************************************************)
EXTENDS ArgParser

\* Lines 295-357: the command that reaches setCommand, the arguments the
\* parse saw, the log file it found, and whether the rewrite is defined
\* (assembleCommand may step its iterator past end()).  The rewrite of
\* lines 341-347 is compiled for Windows only.
HandleIpcCommand(received) ==
    LET command   == IF received = <<Q, Q>> THEN <<>> ELSE received
        argsArray == SplitCommandString(command)
        logFile   == ParseLogFile(argsArray)
        rewrite   == AssembleCommand(argsArray, LongLog, 1)
    IN  CASE command = <<>> ->
                [command |-> command, argsArray |-> <<>>, logFile |-> Unset,
                 defined |-> TRUE]
          [] logFile = Unset ->
                [command |-> command, argsArray |-> argsArray, logFile |-> logFile,
                 defined |-> TRUE]
          [] OTHER ->
                [command |-> rewrite.cmd, argsArray |-> argsArray, logFile |-> logFile,
                 defined |-> rewrite.defined]

\* The arguments other than every "--log <file>" pair, in order.
RECURSIVE WithoutLongLog(_)
WithoutLongLog(args) ==
    CASE args = <<>> -> <<>>
      [] Head(args) = LongLog /\ Len(args) > 1 -> WithoutLongLog(Tail(Tail(args)))
      [] OTHER -> <<Head(args)>> \o WithoutLongLog(Tail(args))
=============================================================================
