-------------------------- MODULE MCDesktopSentinel --------------------------
(***************************************************************************)
(* Feeds single output chunks to testOutput and compares its effect with   *)
(* the relay behaviour the specification describes.                        *)
(***************************************************************************)
EXTENDS DesktopSentinel

VARIABLES chunk, relay
vars == <<autoElevated, ready, chunk, relay>>

\* Chunks: the specification's two examples, and the line syntool really
\* prints (ToolApp.cpp: "activeDesktop: %ls"), alone in the chunk or
\* followed by the next line of worker output.
Chunks == { "...activeDesktop:Winlogon...",
            "...activeDesktop:Default...",
            "INFO: activeDesktop: Default",
            "INFO: activeDesktop: Default\nINFO: connected to server" }

Init == /\ chunk \in Chunks
        /\ autoElevated = FALSE
        /\ ready = FALSE
        /\ relay = "read"

Relay == /\ relay = "read"
         /\ testOutput(chunk)
         /\ relay' = IF ChunkOutcome(chunk) = "out_of_range" THEN "thrown" ELSE "done"
         /\ UNCHANGED chunk

Done == relay # "read" /\ UNCHANGED vars

Next == Relay \/ Done

Spec == Init /\ [][Next]_vars

\* The relay, having read a chunk, latches auto-elevation exactly when the
\* desktop named after "activeDesktop:" is not "Default", and wakes the
\* getActiveDesktop waiter whenever the marker is present (the spec's
\* Winlogon/Default examples for MSWindowsWatchdog::testOutput).
RelayMatchesSpec ==
    relay # "read" =>
        /\ autoElevated = (SpecOutcome(chunk) = "elevate")
        /\ ready = (SpecOutcome(chunk) # "none")
=============================================================================
