---------------------------- MODULE ShellSupervisor ----------------------------
(***************************************************************************)
(* The desktop shell (src/shell/alice_shell): it boots the backend process, *)
(* opens the window, watches the backend and tears it down.                *)
(*                                                                         *)
(* Three threads share the child process and two events: the main thread,  *)
(* the watchdog, a daemon that ends with the process, and the thread in    *)
(* which the window library calls on_closed.  None of them takes a lock.   *)
(* The child runs in a process group of its own and survives the shell     *)
(* unless it is stopped (the POSIX build; a job object does it on Windows). *)
(***************************************************************************)
EXTENDS Naturals

CONSTANTS
    MaxRestarts,  \* _MAX_RESTARTS
    BootRetries   \* range(1, 3): boots on a fresh port after the first

ASSUME ShellAssumption ==
    /\ MaxRestarts \in Nat
    /\ BootRetries \in Nat

VARIABLES
    noWindow,   \* --no-window
    main,       \* where each thread is
    watchdog,
    closer,     \* on_closed
    child,      \* backend._proc, "none" for None
    held,       \* who, inside stop, waits for the child that is in _proc
    stopped,    \* _stopped
    handlers,   \* the handlers of SIGINT and SIGTERM are installed
    wantQuit,   \* _want_quit
    window,
    boots,      \* retries of the boot so far
    restarts,   \* of the watchdog's current budget
    calm        \* more than _restart_window_s have passed since last_restart

threads == <<main, watchdog, closer>>
proc == <<child, held>>
signals == <<handlers, wantQuit>>
budget == <<restarts, calm>>
vars == <<noWindow, threads, proc, stopped, signals, window, boots, budget>>

Stopping == {"shutdown", "claim", "term", "wait", "grace"}
Alive == child \in {"starting", "healthy"}

TypeOK ==
    /\ noWindow \in BOOLEAN
    /\ main \in {"start", "boot", "opening", "window", "loop", "leaving", "exited", "killed"}
               \cup Stopping
    /\ watchdog \in {"none", "watching", "looking", "restart", "spawn", "waiting", "returned"}
    /\ closer \in {"none", "done"} \cup Stopping
    /\ child \in {"none", "starting", "healthy", "dead"}
    /\ held \subseteq {"main", "closer"}
    /\ stopped \in BOOLEAN
    /\ handlers \in BOOLEAN
    /\ wantQuit \in BOOLEAN
    /\ window \in {"none", "open", "closed"}
    /\ boots \in 0..BootRetries
    /\ restarts \in 0..MaxRestarts
    /\ calm \in BOOLEAN

\* backend.start has returned.
Init ==
    /\ noWindow \in BOOLEAN
    /\ main = "start"
    /\ watchdog = "none"
    /\ closer = "none"
    /\ child = "starting"
    /\ held = {}
    /\ stopped = FALSE
    /\ handlers = FALSE
    /\ wantQuit = FALSE
    /\ window = "none"
    /\ boots = 0
    /\ restarts = 0
    /\ calm = TRUE

-----------------------------------------------------------------------------
(***************************************************************************)
(* The world: the child, signals, the user and the clock.                  *)
(***************************************************************************)
BecomesHealthy ==
    /\ child = "starting"
    /\ child' = "healthy"
    /\ UNCHANGED <<noWindow, held, threads, stopped, signals, window, boots, budget>>

Dies ==
    /\ Alive
    /\ child' = "dead"
    /\ UNCHANGED <<noWindow, held, threads, stopped, signals, window, boots, budget>>

Running == main \notin {"exited", "killed"}

\* SIGINT or SIGTERM: _noop_handler and _signal_watch.
Signal ==
    /\ Running
    /\ handlers
    /\ ~wantQuit
    /\ wantQuit' = TRUE
    /\ UNCHANGED <<noWindow, threads, proc, stopped, handlers, window, boots, budget>>

\* Before the handlers are installed, SIGTERM ends the shell where it is and leaves
\* the child; SIGINT raises, and then the shutdown is run if it is registered.
EarlySignal ==
    /\ Running
    /\ ~handlers
    /\ \/ main' = "killed"
       \/ main = "start" /\ main' = "shutdown"
    /\ UNCHANGED <<noWindow, watchdog, closer, proc, stopped, signals, window, boots, budget>>

\* The window goes: on_closed is called in a thread of its own.
CloseWindow ==
    IF window = "open"
    THEN window' = "closed" /\ closer' = "shutdown"
    ELSE UNCHANGED <<window, closer>>

UserCloses ==
    /\ window = "open"
    /\ Running
    /\ CloseWindow
    /\ UNCHANGED <<noWindow, main, watchdog, proc, stopped, signals, boots, budget>>

TimePasses ==
    /\ ~calm
    /\ calm' = TRUE
    /\ UNCHANGED <<noWindow, threads, proc, stopped, signals, window, boots, restarts>>

-----------------------------------------------------------------------------
(***************************************************************************)
(* The main thread.                                                        *)
(***************************************************************************)
Install ==
    /\ main = "start"
    /\ main' = "boot"
    /\ handlers' = TRUE
    /\ UNCHANGED <<noWindow, watchdog, closer, proc, stopped, wantQuit, window, boots, budget>>

\* wait_for_health returned True; the watchdog is started before the window.
Booted ==
    /\ main = "boot"
    /\ child = "healthy"
    /\ main' = IF noWindow THEN "loop" ELSE "opening"
    /\ watchdog' = IF noWindow THEN "none" ELSE "watching"
    /\ UNCHANGED <<noWindow, closer, proc, stopped, signals, window, boots, budget>>

\* It returned False: the child died, or time is up.  Only a child that died
\* is tried again, on another port.
RetryBoot ==
    /\ main = "boot"
    /\ child = "dead"
    /\ boots < BootRetries
    /\ boots' = boots + 1
    /\ \/ child' = "starting" /\ UNCHANGED main
       \/ child' = "none" /\ main' = "shutdown"  \* start raised
    /\ UNCHANGED <<noWindow, held, watchdog, closer, stopped, signals, window, budget>>

GiveUpBoot ==
    /\ main = "boot"
    /\ \/ child = "starting"
       \/ child = "dead" /\ boots = BootRetries
    /\ main' = "shutdown"
    /\ UNCHANGED <<noWindow, watchdog, closer, proc, stopped, signals, window, boots, budget>>

\* open_chat_window: create_window.
OpenWindow ==
    /\ main = "opening"
    /\ main' = "window"
    /\ window' = "open"
    /\ UNCHANGED <<noWindow, watchdog, closer, proc, stopped, signals, boots, budget>>

\* webview.start returns.
WindowReturns ==
    /\ main = "window"
    /\ window = "closed"
    /\ main' = "shutdown"
    /\ UNCHANGED <<noWindow, watchdog, closer, proc, stopped, signals, window, boots, budget>>

\* The loop of the mode without a window.
LoopEnds ==
    /\ main = "loop"
    /\ ~Alive \/ wantQuit
    /\ main' = "shutdown"
    /\ UNCHANGED <<noWindow, watchdog, closer, proc, stopped, signals, window, boots, budget>>

\* The interpreter waits for the thread of on_closed, not for the watchdog.
Exit ==
    /\ main = "leaving"
    /\ closer \in {"none", "done"}
    /\ main' = "exited"
    /\ UNCHANGED <<noWindow, watchdog, closer, proc, stopped, signals, window, boots, budget>>

-----------------------------------------------------------------------------
(***************************************************************************)
(* _shutdown and BackendProcess.stop, by the main thread and by on_closed. *)
(***************************************************************************)
At(c) == IF c = "main" THEN main ELSE closer
End(c) == IF c = "main" THEN "leaving" ELSE "done"
Goto(c, at) ==
    IF c = "main" THEN main' = at /\ UNCHANGED closer ELSE closer' = at /\ UNCHANGED main

CheckStopped(c) ==
    /\ At(c) = "shutdown"
    /\ Goto(c, IF stopped THEN End(c) ELSE "claim")
    /\ UNCHANGED <<proc, stopped>>

Claim(c) ==
    /\ At(c) = "claim"
    /\ stopped' = TRUE
    /\ Goto(c, "term")
    /\ UNCHANGED proc

\* Nothing to stop, or SIGTERM to the process group.
Term(c) ==
    /\ At(c) = "term"
    /\ Goto(c, IF Alive THEN "wait" ELSE End(c))
    /\ UNCHANGED <<proc, stopped>>

\* The wait is for the child that is in _proc now; None raises and ends the call.
Wait(c) ==
    /\ At(c) = "wait"
    /\ \/ /\ child # "none"
          /\ held' = held \cup {c}
          /\ Goto(c, "grace")
       \/ /\ child = "none"
          /\ Goto(c, End(c))
          /\ UNCHANGED held
    /\ UNCHANGED <<child, stopped>>

\* Mutant: nobody kills a child that ignores SIGTERM.
GraceOnly(c) ==
    /\ At(c) = "grace"
    /\ held' = held \ {c}
    /\ Goto(c, End(c))
    /\ UNCHANGED <<child, stopped>>

\* The child has ended, or the grace is over and the group is killed.  A child that
\* the watchdog has replaced had ended: the new one is neither waited for nor killed.
Grace(c) ==
    /\ At(c) = "grace"
    /\ child' = IF c \in held /\ Alive THEN "dead" ELSE child
    /\ held' = held \ {c}
    /\ Goto(c, End(c))
    /\ UNCHANGED stopped

Shutdown(c) ==
    /\ Running
    /\ \/ CheckStopped(c)
       \/ Claim(c)
       \/ Term(c)
       \/ Wait(c)
       \/ Grace(c)
    /\ UNCHANGED <<noWindow, watchdog, signals, window, boots, budget>>

-----------------------------------------------------------------------------
(***************************************************************************)
(* The watchdog.                                                           *)
(***************************************************************************)
\* Mutant: a signal only ends the watchdog.
WatchSilently ==
    /\ Running
    /\ watchdog = "watching"
    /\ watchdog' = IF stopped \/ wantQuit THEN "returned" ELSE "looking"
    /\ UNCHANGED <<noWindow, main, closer, proc, stopped, signals, window, boots, budget>>

\* Mutant: the loop asks for _want_quit only.
WatchOnly ==
    /\ Running
    /\ watchdog = "watching"
    /\ watchdog' = IF wantQuit THEN "returned" ELSE "looking"
    /\ IF wantQuit THEN CloseWindow ELSE UNCHANGED <<window, closer>>
    /\ UNCHANGED <<noWindow, main, proc, stopped, signals, boots, budget>>

\* The top of the loop: _stopped, then _want_quit.
Watch ==
    /\ Running
    /\ watchdog = "watching"
    /\ watchdog' = IF stopped \/ wantQuit THEN "returned" ELSE "looking"
    /\ IF ~stopped /\ wantQuit THEN CloseWindow ELSE UNCHANGED <<window, closer>>
    /\ UNCHANGED <<noWindow, main, proc, stopped, signals, boots, budget>>

LookAlive ==
    /\ Running
    /\ watchdog = "looking"
    /\ Alive
    /\ watchdog' = "watching"
    /\ UNCHANGED <<noWindow, main, closer, proc, stopped, signals, window, boots, budget>>

\* Mutant: the budget is renewed by every restart.
SpentNever == 0

Spent == IF calm THEN 0 ELSE restarts

\* The child is gone and the budget has a restart left.
LookRestart ==
    /\ Running
    /\ watchdog = "looking"
    /\ ~Alive
    /\ Spent < MaxRestarts
    /\ restarts' = Spent + 1
    /\ calm' = FALSE
    /\ watchdog' = "restart"
    /\ UNCHANGED <<noWindow, main, closer, proc, stopped, signals, window, boots>>

\* The budget is spent.
LookGiveUp ==
    /\ Running
    /\ watchdog = "looking"
    /\ ~Alive
    /\ Spent >= MaxRestarts
    /\ watchdog' = "returned"
    /\ CloseWindow
    /\ UNCHANGED <<noWindow, main, proc, stopped, signals, boots, budget>>

\* BackendProcess.restart: stop finds a dead child, then the handle is dropped.
Restart ==
    /\ Running
    /\ watchdog = "restart"
    /\ child' = "none"
    /\ held' = {}
    /\ watchdog' = "spawn"
    /\ UNCHANGED <<noWindow, main, closer, stopped, signals, window, boots, budget>>

\* start, which may raise.
Spawn ==
    /\ Running
    /\ watchdog = "spawn"
    /\ child' \in {"starting", "none"}
    /\ watchdog' = "waiting"
    /\ UNCHANGED <<noWindow, held, main, closer, stopped, signals, window, boots, budget>>

\* wait_for_health: healthy, gone, or too slow.
HealthWaited ==
    /\ Running
    /\ watchdog = "waiting"
    /\ watchdog' = "watching"
    /\ UNCHANGED <<noWindow, main, closer, proc, stopped, signals, window, boots, budget>>

-----------------------------------------------------------------------------
MainStep ==
    \/ Install
    \/ Booted
    \/ RetryBoot
    \/ GiveUpBoot
    \/ OpenWindow
    \/ WindowReturns
    \/ LoopEnds
    \/ Shutdown("main")
    \/ Exit

WatchdogStep ==
    \/ Watch
    \/ LookAlive
    \/ LookRestart
    \/ LookGiveUp
    \/ Restart
    \/ Spawn
    \/ HealthWaited

Next ==
    \/ BecomesHealthy
    \/ Dies
    \/ Signal
    \/ EarlySignal
    \/ UserCloses
    \/ TimePasses
    \/ MainStep
    \/ WatchdogStep
    \/ Shutdown("closer")

Spec == Init /\ [][Next]_vars

\* The threads are scheduled and their waits have timeouts; nothing is assumed
\* of the child, the user or the signals.
ThreadsRun ==
    /\ WF_vars(MainStep)
    /\ WF_vars(WatchdogStep)
    /\ WF_vars(Shutdown("closer"))

-----------------------------------------------------------------------------
\* A shell whose watchdog never restarted the backend leaves no child behind,
\* whichever thread shut it down and however often it booted, unless a signal killed
\* it before its handlers were installed.
CleanExit == main = "exited" /\ restarts = 0 => ~Alive

\* What is left of the watchdog's round once the shutdown has begun.
Left == [looking |-> 5, restart |-> 4, spawn |-> 3, waiting |-> 2, watching |-> 1,
         returned |-> 0, none |-> 0]

\* The watchdog does not see the shutdown before its round is over, and may start a
\* backend that nobody stops; but from the moment _stopped is set it only comes
\* closer to its end: it starts one more backend at most, and none if it has one
\* just started.
RestartsCease == [][stopped => stopped' /\ Left[watchdog'] <= Left[watchdog]]_vars

\* A backend that dies again and again, with no calm period between, is given up:
\* the watchdog does not restart it for ever.
GivesUp ==
    (<>[]~calm /\ []<>(child = "dead")) => <>(watchdog = "returned" \/ main = "exited")

\* A signal that finds the window open and the watchdog at work ends the shell.
QuitClosesWindow ==
    (wantQuit /\ window = "open" /\ watchdog # "returned") ~> (main = "exited")
================================================================================
