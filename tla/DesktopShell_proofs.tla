--------------------------- MODULE DesktopShell_proofs ---------------------------
(***************************************************************************)
(* Theorems about the desktop shell and the page in its window, for any    *)
(* number of restarts, boots and polls: types, the end of a shell that     *)
(* leaves no backend behind, restarts after the shutdown has begun, and    *)
(* when the overlay is on the page.                                        *)
(***************************************************************************)
EXTENDS DesktopShell, TLAPS

(***************************************************************************)
(* The inductive invariant of the three threads.  The shell is not shut    *)
(* down while it boots.  A thread that has claimed the shutdown goes on to *)
(* stop the child, waits for the very child it has sent the signal to, and *)
(* the process waits for the thread; only a restart of the watchdog can    *)
(* replace that child, or bring one back behind it.                        *)
(***************************************************************************)
Restarting == watchdog \in {"restart", "spawn", "waiting"} => restarts # 0
Booting == main \in {"start", "boot", "opening"} => ~stopped /\ window = "none"
Closing == closer # "none" => window = "closed"
Claimed == main \in {"term", "wait", "grace", "leaving", "exited"} => stopped
Waited == main = "exited" => closer \in {"none", "done"}
InHand ==
    stopped /\ restarts = 0 =>
        \/ ~Alive \/ main = "killed"
        \/ main \in {"term", "wait", "grace"} \/ closer \in {"term", "wait", "grace"}
Held ==
    restarts = 0 =>
        /\ main = "grace" => "main" \in held
        /\ closer = "grace" => "closer" \in held

IInv ==
    /\ TypeOK
    /\ Restarting
    /\ Booting
    /\ Closing
    /\ Claimed
    /\ Waited
    /\ InHand
    /\ Held

-----------------------------------------------------------------------------
(***************************************************************************)
(* Types.                                                                  *)
(***************************************************************************)
LEMMA WorldTyped ==
    ASSUME TypeOK, BecomesHealthy \/ Dies \/ Signal \/ EarlySignal \/ UserCloses \/ TimePasses
    PROVE  TypeOK'
<1> USE DEF threads, proc, signals, budget
<1>1. CASE BecomesHealthy \/ Dies
  BY <1>1 DEF TypeOK, BecomesHealthy, Dies
<1>2. CASE Signal
  BY <1>2 DEF TypeOK, Signal
<1>3. CASE EarlySignal
  BY <1>3 DEF TypeOK, EarlySignal, Stopping
<1>4. CASE UserCloses \/ TimePasses
  <2>1. CASE UserCloses
    BY <1>4, <2>1 DEF TypeOK, UserCloses, CloseWindow, Stopping
  <2>2. CASE TimePasses
    BY <1>4, <2>2 DEF TypeOK, TimePasses
  <2>3. QED
    BY <1>4, <2>1, <2>2
<1>5. QED
  BY <1>1, <1>2, <1>3, <1>4

LEMMA MainTyped ==
    ASSUME TypeOK,
           \/ Install
           \/ Booted
           \/ RetryBoot
           \/ GiveUpBoot
           \/ OpenWindow
           \/ WindowReturns
           \/ LoopEnds
           \/ Exit
    PROVE  TypeOK'
<1>1. boots' \in 0..BootRetries
  BY ShellAssumption DEF TypeOK, Install, Booted, RetryBoot, GiveUpBoot, OpenWindow, WindowReturns,
        LoopEnds, Exit, threads, proc, signals, budget
<1> USE <1>1 DEF proc, signals, budget
<1>2. CASE Install \/ Booted
  BY <1>2 DEF TypeOK, Install, Booted
<1>3. CASE RetryBoot
  BY <1>3 DEF TypeOK, RetryBoot, Stopping
<1>4. CASE GiveUpBoot
  BY <1>4 DEF TypeOK, GiveUpBoot, Stopping
<1>5. CASE OpenWindow
  BY <1>5 DEF TypeOK, OpenWindow
<1>6. CASE WindowReturns
  BY <1>6 DEF TypeOK, WindowReturns, Stopping
<1>7. CASE LoopEnds
  BY <1>7 DEF TypeOK, LoopEnds, Stopping
<1>8. CASE Exit
  BY <1>8 DEF TypeOK, Exit
<1>9. QED
  BY <1>2, <1>3, <1>4, <1>5, <1>6, <1>7, <1>8

LEMMA ShutdownTyped ==
    ASSUME TypeOK, NEW c \in {"main", "closer"}, Shutdown(c)
    PROVE  TypeOK'
<1>1. /\ child' \in {"none", "starting", "healthy", "dead"}
      /\ held' \subseteq {"main", "closer"}
      /\ stopped' \in BOOLEAN
  <2>1. CASE CheckStopped(c) \/ Claim(c) \/ Term(c)
    BY <2>1 DEF TypeOK, CheckStopped, Claim, Term, proc
  <2>2. CASE Wait(c) \/ Grace(c)
    BY <2>2 DEF TypeOK, Wait, Grace
  <2>3. QED
    BY <2>1, <2>2 DEF Shutdown
<1>2. PICK at \in Stopping \cup {End(c)} : Goto(c, at)
  BY DEF Shutdown, CheckStopped, Claim, Term, Wait, Grace, Stopping, threads, proc,
        signals, budget
<1>3. CASE c = "main"
  BY <1>1, <1>2, <1>3 DEF TypeOK, Shutdown, Goto, End, threads, proc, signals, budget
<1>4. CASE c = "closer"
  BY <1>1, <1>2, <1>4 DEF TypeOK, Shutdown, Goto, End, threads, proc, signals, budget
<1>5. QED
  BY <1>3, <1>4

LEMMA WatchdogTyped == ASSUME TypeOK, WatchdogStep PROVE TypeOK'
<1>1. restarts' \in 0..MaxRestarts
  BY ShellAssumption DEF TypeOK, WatchdogStep, Watch, LookAlive, LookRestart, LookGiveUp, Restart,
        Spawn, HealthWaited, Spent, threads, proc, signals, budget
<1>2. CASE Watch \/ LookGiveUp
  <2>1. /\ closer' \in {"none", "done"} \cup Stopping
        /\ window' \in {"none", "open", "closed"}
    BY <1>2 DEF TypeOK, Watch, LookGiveUp, CloseWindow, Stopping
  <2>2. QED
    BY <1>1, <1>2, <2>1 DEF TypeOK, Watch, LookGiveUp, proc, signals, budget
<1>3. CASE LookAlive \/ LookRestart
  BY <1>1, <1>3 DEF TypeOK, LookAlive, LookRestart, proc, signals, budget
<1>4. CASE Restart \/ Spawn \/ HealthWaited
  BY <1>1, <1>4 DEF TypeOK, Restart, Spawn, HealthWaited, proc, signals, budget
<1>5. QED
  BY <1>2, <1>3, <1>4 DEF WatchdogStep

LEMMA StepTyped == ASSUME TypeOK, [Next]_vars PROVE TypeOK'
<1>1. CASE UNCHANGED vars
  BY <1>1 DEF TypeOK, vars, threads, proc, signals, budget
<1>2. QED
  BY <1>1, WorldTyped, MainTyped, ShutdownTyped, WatchdogTyped DEF Next, MainStep

-----------------------------------------------------------------------------
(***************************************************************************)
(* The invariant, thread by thread.                                        *)
(***************************************************************************)
LEMMA WorldInv ==
    ASSUME IInv, TypeOK', BecomesHealthy \/ Dies \/ Signal \/ EarlySignal \/ UserCloses \/ TimePasses
    PROVE  IInv'
<1> USE DEF IInv, Restarting, Booting, Closing, Claimed, Waited, InHand, Held, Alive
<1>1. CASE BecomesHealthy \/ Dies
  BY <1>1 DEF BecomesHealthy, Dies, threads, budget
<1>2. CASE Signal \/ TimePasses
  BY <1>2 DEF Signal, TimePasses, threads, proc, budget
<1>3. CASE EarlySignal
  <2>1. CASE main' = "killed"
    BY <1>3, <2>1 DEF EarlySignal, proc, budget
  <2>2. CASE main = "start" /\ main' = "shutdown"
    BY <1>3, <2>2 DEF EarlySignal, proc, budget
  <2>3. QED
    BY <1>3, <2>1, <2>2 DEF EarlySignal
<1>4. CASE UserCloses
  BY <1>4 DEF UserCloses, CloseWindow, Running, proc, budget
<1>5. QED
  BY <1>1, <1>2, <1>3, <1>4

LEMMA MainInv ==
    ASSUME IInv, TypeOK',
           \/ Install
           \/ Booted
           \/ RetryBoot
           \/ GiveUpBoot
           \/ OpenWindow
           \/ WindowReturns
           \/ LoopEnds
           \/ Exit
    PROVE  IInv'
<1>1. Restarting' /\ Closing' /\ Claimed' /\ Waited'
  BY DEF IInv, Restarting, Booting, Closing, Claimed, Waited, Install, Booted,
        RetryBoot, GiveUpBoot, OpenWindow, WindowReturns, LoopEnds, Exit, threads,
        proc, signals, budget
<1>2. Booting'
  BY DEF IInv, Booting, Install, Booted, RetryBoot, GiveUpBoot, OpenWindow,
        WindowReturns, LoopEnds, Exit, threads, proc, signals, budget
<1>3. InHand' /\ Held'
  <2>1. CASE main = "boot"
    BY <2>1 DEF IInv, Booting, InHand, Held, Install, Booted, RetryBoot, GiveUpBoot, OpenWindow,
        WindowReturns, LoopEnds, Exit, threads, proc, signals, budget
  <2>2. CASE main # "boot"
    BY <2>2 DEF IInv, InHand, Held, Alive, Install, Booted, RetryBoot, GiveUpBoot, OpenWindow,
        WindowReturns, LoopEnds, Exit, threads, proc, signals, budget
  <2>3. QED
    BY <2>1, <2>2
<1>4. QED
  BY <1>1, <1>2, <1>3 DEF IInv

LEMMA ShutdownInv ==
    ASSUME IInv, TypeOK', NEW c \in {"main", "closer"}, Shutdown(c)
    PROVE  IInv'
<1>1. CASE c = "main"
  BY <1>1 DEF IInv, Restarting, Booting, Closing, Claimed, Waited, InHand, Held, Alive,
        Shutdown, CheckStopped, Claim, Term, Wait, Grace, At, Goto, End, threads, proc,
        signals, budget
<1>2. CASE c = "closer"
  BY <1>2 DEF IInv, Restarting, Booting, Closing, Claimed, Waited, InHand, Held, Alive,
        Shutdown, CheckStopped, Claim, Term, Wait, Grace, At, Goto, End, threads, proc,
        signals, budget
<1>3. QED
  BY <1>1, <1>2

LEMMA WatchdogInv == ASSUME IInv, TypeOK', WatchdogStep PROVE IInv'
<1>1. Spent + 1 # 0
  BY ShellAssumption DEF IInv, TypeOK, Spent
<1>2. Restarting'
  BY <1>1 DEF IInv, Restarting, WatchdogStep, Watch, LookAlive, LookRestart, LookGiveUp,
        Restart, Spawn, HealthWaited, threads, proc, signals, budget
<1>3. Booting' /\ Closing' /\ Claimed' /\ Waited'
  BY DEF IInv, Booting, Closing, Claimed, Waited, WatchdogStep, Watch, LookAlive,
        LookRestart, LookGiveUp, Restart, Spawn, HealthWaited, CloseWindow, Running,
        threads, proc, signals, budget
<1>4. InHand' /\ Held'
  <2>1. CASE Watch \/ LookGiveUp
    BY <2>1 DEF IInv, Closing, InHand, Held, Alive, Watch, LookGiveUp, CloseWindow, proc, budget
  <2>2. CASE LookAlive \/ LookRestart \/ HealthWaited
    BY <1>1, <2>2 DEF IInv, InHand, Held, Alive, LookAlive, LookRestart, HealthWaited, proc,
                      budget
  <2>3. CASE Restart \/ Spawn
    BY <2>3 DEF IInv, Restarting, InHand, Held, Alive, Restart, Spawn, budget
  <2>4. QED
    BY <2>1, <2>2, <2>3 DEF WatchdogStep
<1>5. QED
  BY <1>2, <1>3, <1>4 DEF IInv

LEMMA NextInv == ASSUME IInv, [Next]_vars PROVE IInv'
<1>1. TypeOK'
  BY StepTyped DEF IInv
<1>2. CASE UNCHANGED vars
  BY <1>1, <1>2 DEF IInv, Restarting, Booting, Closing, Claimed, Waited, InHand, Held, Alive, vars,
        threads, proc, signals, budget
<1>3. QED
  BY <1>1, <1>2, WorldInv, MainInv, ShutdownInv, WatchdogInv DEF Next, MainStep

LEMMA InitInv == Init => IInv
<1> SUFFICES ASSUME Init PROVE IInv
  OBVIOUS
<1>1. boots \in 0..BootRetries /\ restarts \in 0..MaxRestarts
  BY ShellAssumption DEF Init
<1>2. TypeOK
  BY <1>1 DEF Init, TypeOK
<1>3. QED
  BY <1>2 DEF Init, IInv, Restarting, Booting, Closing, Claimed, Waited, InHand, Held

\* The page does not touch what the threads share.
LEMMA ShellStep == ASSUME [ShellNext]_shellVars PROVE [Next]_vars
  BY DEF ShellNext, PageStep, shellVars

LEMMA Invariant == ShellSpec => []IInv
<1>1. ShellInit => IInv
  BY InitInv DEF ShellInit
<1>2. IInv /\ [ShellNext]_shellVars => IInv'
  BY ShellStep, NextInv
<1>3. QED
  BY <1>1, <1>2, PTL DEF ShellSpec

-----------------------------------------------------------------------------
(***************************************************************************)
(* The overlay, whatever the backend behind it does.                       *)
(***************************************************************************)
LEMMA OverlayStep ==
    ASSUME Overlay!OverlayTypeOK, Overlay!OverlayNext
    PROVE  Overlay!OverlayTypeOK'
<1>1. ASSUME NEW p \in Overlay!Polls, Overlay!Tick(p) PROVE Overlay!OverlayTypeOK'
  BY <1>1 DEF Overlay!OverlayTypeOK, Overlay!Tick
<1>2. ASSUME NEW p \in Overlay!Polls, Overlay!Answer(p) PROVE Overlay!OverlayTypeOK'
  BY <1>2 DEF Overlay!OverlayTypeOK, Overlay!Answer, Overlay!SeenUp, Overlay!SeenDown
<1>3. CASE Overlay!GiveUpTime
  BY <1>3 DEF Overlay!OverlayTypeOK, Overlay!GiveUpTime
<1>4. QED
  BY <1>1, <1>2, <1>3 DEF Overlay!OverlayNext

LEMMA OwedStep ==
    ASSUME Overlay!OverlayTypeOK, OverlayIsOwed, Overlay!OverlayNext
    PROVE  OverlayIsOwed'
<1>1. ASSUME NEW p \in Overlay!Polls, Overlay!Tick(p) PROVE OverlayIsOwed'
  BY <1>1 DEF OverlayIsOwed, Overlay!Tick
<1>2. CASE Overlay!SeenUp
  BY <1>2 DEF OverlayIsOwed, Overlay!SeenUp
<1>3. CASE Overlay!SeenDown
  BY <1>3 DEF OverlayIsOwed, Overlay!OverlayTypeOK, Overlay!SeenDown
<1>4. CASE Overlay!GiveUpTime
  BY <1>4 DEF OverlayIsOwed, Overlay!GiveUpTime
<1>5. QED
  BY <1>1, <1>2, <1>3, <1>4 DEF Overlay!OverlayNext, Overlay!Answer

LEMMA PageInvariant == ShellSpec => [](Overlay!OverlayTypeOK /\ OverlayIsOwed)
<1> DEFINE PInv == Overlay!OverlayTypeOK /\ OverlayIsOwed
<1>1. ShellInit => PInv
  BY DEF ShellInit, Overlay!OverlayInit, Overlay!OverlayTypeOK, OverlayIsOwed
<1>2. PInv /\ [ShellNext]_shellVars => PInv'
  <2> SUFFICES ASSUME PInv, [ShellNext]_shellVars PROVE PInv'
    OBVIOUS
  <2>1. CASE PageStep
    BY <2>1, OverlayStep, OwedStep DEF PageStep
  <2>2. CASE UNCHANGED page
    BY <2>2 DEF page, Overlay!OverlayTypeOK, OverlayIsOwed
  <2>3. QED
    BY <2>1, <2>2 DEF ShellNext, shellVars
<1>3. QED
  BY <1>1, <1>2, PTL DEF ShellSpec

\* Every variable of the shell and of the overlay has a value of its kind; the
\* boots and the restarts stay within their budgets.
THEOREM TypeCorrect == ShellSpec => []ShellTypeOK
<1>1. IInv /\ Overlay!OverlayTypeOK => ShellTypeOK
  BY DEF IInv, ShellTypeOK
<1>2. QED
  BY <1>1, Invariant, PageInvariant, PTL

\* The overlay is on the page only while the backend is missed, and asks for a
\* restart only after it has been missed for long, for any number of polls in
\* flight and any order of their answers.
THEOREM OverlayIsRight == ShellSpec => []OverlayIsOwed
  BY PageInvariant, PTL

\* A shell that never restarted its backend ends without one.
THEOREM ExitIsClean == ShellSpec => []CleanExit
<1>1. IInv => CleanExit
  BY DEF IInv, Claimed, Waited, InHand, Held, CleanExit
<1>2. QED
  BY <1>1, Invariant, PTL

\* From the moment the shutdown has begun the watchdog starts one more backend at
\* most, for any budgets: it is never started then, and its round leads only to
\* its end.
THEOREM NoRestartsBehind == ShellSpec => RestartsCease
<1> DEFINE Ceasing == stopped => stopped' /\ Left[watchdog'] <= Left[watchdog]
<1>1. IInv /\ [ShellNext]_shellVars => [Ceasing]_vars
  <2> SUFFICES ASSUME IInv, Next, stopped PROVE Ceasing
    BY ShellStep
  <2>1. watchdog' = watchdog => Left[watchdog'] <= Left[watchdog]
    BY DEF IInv, TypeOK, Left
  <2>2. CASE BecomesHealthy \/ Dies \/ Signal \/ EarlySignal \/ UserCloses \/ TimePasses
    BY <2>1, <2>2 DEF BecomesHealthy, Dies, Signal, EarlySignal, UserCloses, TimePasses, threads
  <2>3. ASSUME NEW c \in {"main", "closer"}, Shutdown(c) PROVE Ceasing
    BY <2>1, <2>3 DEF Shutdown, CheckStopped, Claim, Term, Wait, Grace
  <2>4. CASE MainStep
    BY <2>1, <2>3, <2>4 DEF IInv, Booting, MainStep, Install, Booted, RetryBoot, GiveUpBoot,
                            OpenWindow, WindowReturns, LoopEnds, Exit, threads
  <2>5. CASE WatchdogStep
    <3>1. /\ Left["looking"] = 5 /\ Left["restart"] = 4 /\ Left["spawn"] = 3
          /\ Left["waiting"] = 2 /\ Left["watching"] = 1 /\ Left["returned"] = 0
      BY DEF Left
    <3>2. stopped' = stopped
      BY <2>5 DEF WatchdogStep, Watch, LookAlive, LookRestart, LookGiveUp, Restart, Spawn,
                  HealthWaited
    <3>3. \/ watchdog = "watching" /\ watchdog' = "returned"
          \/ watchdog = "looking" /\ watchdog' \in {"watching", "restart", "returned"}
          \/ watchdog = "restart" /\ watchdog' = "spawn"
          \/ watchdog = "spawn" /\ watchdog' = "waiting"
          \/ watchdog = "waiting" /\ watchdog' = "watching"
      BY <2>5 DEF WatchdogStep, Watch, LookAlive, LookRestart, LookGiveUp, Restart, Spawn,
                  HealthWaited
    <3>4. Left[watchdog'] <= Left[watchdog]
      BY <3>1, <3>3
    <3>5. QED
      BY <3>2, <3>4
  <2>6. QED
    BY <2>2, <2>3, <2>4, <2>5 DEF Next
<1>2. QED
  BY <1>1, Invariant, PTL DEF ShellSpec, RestartsCease
================================================================================
