----------------------------- MODULE MCWatchdog -----------------------------
(***************************************************************************)
(* Constants of the Watchdog model for TLC.                                *)
(***************************************************************************)
EXTENDS Watchdog

\* Output chunks.  A worker's log line; syntool's "activeDesktop: <name>"
\* line (ToolApp.cpp), alone in the chunk ReadFile returns or followed by
\* output written after it; syntool's error line.
WorkerLine       == "INFO: connected to server"
DefaultAlone     == "INFO: activeDesktop: Default"
DefaultThenMore  == "INFO: activeDesktop: Default\nINFO: connected to server"
WinlogonAlone    == "INFO: activeDesktop: Winlogon"
WinlogonThenMore == "INFO: activeDesktop: Winlogon\nINFO: connected to server"
NoDesktop        == "CRIT: failed to get active desktop name"
\* The one shape of chunk in which testOutput's misplaced comparison finds
\* "Default": a following log line puts it 29 characters after the marker.
DefaultAtOffset  == "INFO: activeDesktop: Default\nNOTE: Default desktop"

MCTexts == {WorkerLine, DefaultAlone, DefaultThenMore, WinlogonAlone,
            WinlogonThenMore, NoDesktop, DefaultAtOffset}
MCWorkerText == {WorkerLine}
\* Off the login screen syntool sees Default, on it Winlogon.
MCSyntoolText == [onLogin \in BOOLEAN |->
                    IF onLogin THEN {WinlogonAlone, WinlogonThenMore}
                               ELSE {DefaultAlone, DefaultThenMore, NoDesktop,
                                     DefaultAtOffset}]
\* Only chunks that let the output thread live on (see README).
MCSyntoolTextRelayLives == [onLogin \in BOOLEAN |->
                    IF onLogin THEN {WinlogonThenMore}
                               ELSE {DefaultThenMore, NoDesktop, DefaultAtOffset}]
=============================================================================
