------------------------------ MODULE DesktopShell ------------------------------
(***************************************************************************)
(* The shell and the page in its window: the overlay covers what the        *)
(* watchdog does to the backend.  The page lives as long as the window.    *)
(***************************************************************************)
EXTENDS ShellSupervisor

CONSTANT MaxPolls  \* bound: requests of the overlay in flight

ASSUME PollsAssumption == MaxPolls \in Nat \ {0}

VARIABLES polls, everUp, wasUp, overlay, late

Overlay == INSTANCE ReconnectOverlay WITH backendUp <- (child = "healthy")

page == <<polls, everUp, wasUp, overlay, late>>
shellVars == <<vars, page>>

ShellTypeOK == TypeOK /\ Overlay!OverlayTypeOK

ShellInit == Init /\ Overlay!OverlayInit

PageStep ==
    /\ window = "open"
    /\ Running
    /\ Overlay!OverlayNext
    /\ UNCHANGED vars

ShellNext ==
    \/ Next /\ UNCHANGED page
    \/ PageStep

\* The timer ticks, and every request is answered.
HeartbeatRuns ==
    \A p \in 1..MaxPolls :
        WF_shellVars(/\ window = "open"
                     /\ Overlay!Tick(p) \/ Overlay!Answer(p)
                     /\ UNCHANGED vars)

ShellSpec == ShellInit /\ [][ShellNext]_shellVars /\ ThreadsRun /\ HeartbeatRuns

-----------------------------------------------------------------------------
\* The overlay never covers a page that takes the backend for up, and it asks for a
\* restart of the application only when the backend has been missed for long: in
\* whatever order the answers of overlapping polls arrive, the overlay, wasUp and
\* downSince change together.
OverlayIsOwed ==
    /\ overlay # "none" => everUp /\ ~wasUp
    /\ overlay = "escalated" => late

\* The overlay goes once the backend is back to stay, though answers of polls
\* from before may still arrive after newer ones; an escalated overlay too.
OverlayClears ==
    <>[](window = "open" /\ child = "healthy") => <>[](overlay = "none")
================================================================================
