------------------------------ MODULE DaemonRun ------------------------------
(***************************************************************************)
(* DaemonApp::run (synergy/DaemonApp.cpp, lines 99-192) as a pure         *)
(* operator: the argument loop, the call it leads to, and the catch       *)
(* clauses that turn a thrown error into an exit code and a message box   *)
(* (foregroundError).  The arch calls the run may make are installDaemon, *)
(* uninstallDaemon, daemonize and mainLoop(false); which of them throw,   *)
(* and the text of an XArch, are inputs.  mainLoop catches every error    *)
(* itself (lines 257-262), so its failure is only logged.                  *)
(***************************************************************************)
EXTENDS Integers, Sequences, FiniteSets

ForegroundFlags == {"/f", "-f"}
Install         == "/install"
Uninstall       == "/uninstall"

\* The service manager's false positive the catch clause looks for.
NotStarted == "The service has not been started"

\* Mutant of Decisive: the loop returns only on /install and /uninstall,
\* passing over an unrecognized argument as it does a flag.
DecisiveSkipsUnknown(args) ==
    {i \in DOMAIN args : args[i] \in {Install, Uninstall}}

\* Lines 127-153: the arguments on which the loop returns; every other one
\* is a foreground flag.
Decisive(args) == {i \in DOMAIN args : args[i] \notin ForegroundFlags}

\* The call the arguments lead to, and whether run set uninstall = true
\* (line 138, on /install) before making it.
Call(args) ==
    IF Decisive(args) = {}
    THEN [call      |-> IF \E i \in DOMAIN args : args[i] \in ForegroundFlags
                        THEN "mainLoop" ELSE "daemonize",
          uninstall |-> FALSE]
    ELSE LET a == args[CHOOSE i \in Decisive(args) :
                          \A j \in Decisive(args) : i <= j]
         IN  CASE a = Install   -> [call |-> "installDaemon", uninstall |-> TRUE]
               [] a = Uninstall -> [call |-> "uninstallDaemon", uninstall |-> FALSE]
               [] OTHER         -> [call |-> "none", uninstall |-> FALSE]

\* run(argc, argv): args are argv[1..], fails the calls that throw an
\* XArch, message its what().  The outcome is the exit code, the call
\* made, and the text shown in a message box ("" for none).  An
\* unrecognized argument is shown as "unrecognized"; a message stands for
\* NotStarted when it contains that text (line 172).
run(args, fails, message) ==
    LET c == Call(args)
    IN  CASE c.call = "none" ->
                 [exit |-> "kExitArgs", call |-> "none", shown |-> "unrecognized"]
          [] c.call \in fails /\ c.call # "mainLoop" ->
                 [exit  |-> "kExitFailed", call |-> c.call,
                  shown |-> IF c.uninstall /\ message = NotStarted THEN "" ELSE message]
          [] OTHER ->
                 [exit |-> "kExitSuccess", call |-> c.call, shown |-> ""]
=============================================================================
