------------------------------- MODULE AgentRuns -------------------------------
(***************************************************************************)
(* The detached agent runs of one session (agent_runs.py and the routes    *)
(* /api/chat_stream, /api/chat/resume and /api/chat/stop that use them).   *)
(* Sessions share nothing.                                                 *)
(*                                                                         *)
(* Everything runs on one asyncio event loop: a task or a request handler  *)
(* runs from one await (or yield to the server) to the next, and such a    *)
(* stretch is one action.  A cancellation is delivered when the task runs  *)
(* next, before anything else it might do.                                 *)
(*                                                                         *)
(* Runs are numbered in the order they are sent.  The events of a run are  *)
(* numbered from 0, as in its replay buffer; a buffer is its length.       *)
(***************************************************************************)
EXTENDS Naturals, Sequences

CONSTANTS
    Clients,    \* SSE connections
    MaxRuns,    \* bound: messages sent to the session
    MaxEvents,  \* bound: events a generator yields
    End         \* the end sentinel of a subscriber's queue

ASSUME ConstantsAssumption ==
    /\ MaxRuns \in Nat \ {0}
    /\ MaxEvents \in Nat
    /\ End \notin Nat

VARIABLES
    current,      \* _RUNS[session]: the number of a run, 0 for no entry
    sent,         \* the number of runs started so far
    \* _Run
    status, buffer, subscribers,
    evicting,     \* evict_task sleeps through its grace period
    \* the drain tasks
    phase,
    cancelled,    \* cancel() was called, the CancelledError is not yet raised
    prev,         \* prev_task
    run,          \* the run a task writes to, as its first step found it
    saved,        \* the session's history: the run whose answer is the last in it
    \* the subscribers
    cpc,
    from,         \* the run a client is subscribed to
    queue,
    next,         \* next_seq
    view          \* history: the events a client has received

registry == <<current, sent>>
runs == <<status, buffer, subscribers, evicting>>
tasks == <<phase, cancelled, prev, run>>
clients == <<cpc, from, queue, next, view>>
vars == <<registry, runs, tasks, saved, clients>>

Runs == 1..MaxRuns
Numbers == 0..(MaxEvents + 2)
Phase == {"none", "new", "waiting", "draining", "saved", "unwinding", "over"}
Subscribed == {"replay", "live"}

TypeOK ==
    /\ current \in 0..MaxRuns
    /\ sent \in 0..MaxRuns
    /\ status \in [Runs -> {"running", "done", "error", "stopped"}]
    /\ buffer \in [Runs -> Numbers]
    /\ subscribers \in [Runs -> SUBSET Clients]
    /\ evicting \in [Runs -> BOOLEAN]
    /\ phase \in [Runs -> Phase]
    /\ cancelled \in [Runs -> BOOLEAN]
    /\ prev \in [Runs -> 0..MaxRuns]
    /\ run \in [Runs -> 0..MaxRuns]
    /\ saved \in 0..MaxRuns
    /\ cpc \in [Clients -> {"off", "connecting", "finished"} \cup Subscribed]
    /\ from \in [Clients -> 0..MaxRuns]
    /\ queue \in [Clients -> Seq(Numbers \cup {End})]
    /\ next \in [Clients -> Numbers]
    /\ view \in [Clients -> Seq(Numbers)]

Init ==
    /\ current = 0
    /\ sent = 0
    /\ status = [r \in Runs |-> "running"]
    /\ buffer = [r \in Runs |-> 0]
    /\ subscribers = [r \in Runs |-> {}]
    /\ evicting = [r \in Runs |-> FALSE]
    /\ phase = [r \in Runs |-> "none"]
    /\ cancelled = [r \in Runs |-> FALSE]
    /\ prev = [r \in Runs |-> 0]
    /\ run = [r \in Runs |-> 0]
    /\ saved = 0
    /\ cpc = [c \in Clients |-> "off"]
    /\ from = [c \in Clients |-> 0]
    /\ queue = [c \in Clients |-> <<>>]
    /\ next = [c \in Clients |-> 0]
    /\ view = [c \in Clients |-> <<>>]

Goto(r, p) == phase' = [phase EXCEPT ![r] = p]
Alive(r) == phase[r] \notin {"none", "over"}

\* _schedule_evict: it arms the timer of whichever run is registered now.
ScheduleEvict ==
    evicting' = [r \in Runs |-> evicting[r] \/ r = current]

\* What the subscribers of a run find in their queues.
Push(r, items) ==
    queue' = [c \in Clients |-> IF c \in subscribers[r] THEN queue[c] \o items
                                ELSE queue[c]]

-----------------------------------------------------------------------------
(***************************************************************************)
(* Requests.                                                               *)
(***************************************************************************)
\* The request is answered with a stream whose generator has not run yet.
Connect(c) ==
    /\ cpc[c] \in {"off", "finished"}
    /\ cpc' = [cpc EXCEPT ![c] = "connecting"]
    /\ UNCHANGED <<from, queue, next, view>>

\* start: a run in flight is cancelled, and the new one will wait for it.
Send(c) ==
    LET r == sent + 1
        replaces == current # 0 /\ Alive(current)
    IN  /\ sent < MaxRuns
        /\ Connect(c)
        /\ sent' = r
        /\ current' = r
        /\ Goto(r, "new")
        /\ cancelled' = [k \in Runs |-> cancelled[k] \/ (replaces /\ k = current)]
        /\ prev' = [prev EXCEPT ![r] = IF replaces THEN current ELSE 0]
        /\ evicting' = [k \in Runs |-> evicting[k] /\ k # current]
        /\ UNCHANGED <<status, buffer, subscribers, run, saved>>

Resume(c) ==
    /\ current # 0
    /\ status[current] = "running"
    /\ Connect(c)
    /\ UNCHANGED <<registry, runs, tasks, saved>>

Stop ==
    /\ current # 0
    /\ Alive(current)
    /\ cancelled' = [cancelled EXCEPT ![current] = TRUE]
    /\ UNCHANGED <<registry, runs, phase, prev, run, saved, clients>>

-----------------------------------------------------------------------------
(***************************************************************************)
(* The drain task.                                                         *)
(***************************************************************************)
\* A task that is cancelled before its first step runs none of its code.
Begin(r) ==
    /\ phase[r] = "new"
    /\ \/ /\ cancelled[r]
          /\ Goto(r, "over")
          /\ cancelled' = [cancelled EXCEPT ![r] = FALSE]
          /\ UNCHANGED run
       \/ /\ ~cancelled[r]
          /\ run' = [run EXCEPT ![r] = current]
          /\ Goto(r, IF prev[r] # 0 /\ Alive(prev[r]) THEN "waiting" ELSE "draining")
          /\ UNCHANGED cancelled
    /\ UNCHANGED <<registry, runs, prev, saved, clients>>

\* Mutant: the cancellation is swallowed, and the run starts.
WaitShielded(r) ==
    /\ phase[r] = "waiting"
    /\ cancelled[r] \/ ~Alive(prev[r])
    /\ Goto(r, "draining")
    /\ cancelled' = [cancelled EXCEPT ![r] = FALSE]
    /\ UNCHANGED <<registry, runs, prev, run, saved, clients>>

\* A cancellation while waiting is raised again, outside the try statement.
Wait(r) ==
    /\ phase[r] = "waiting"
    /\ \/ /\ cancelled[r]
          /\ Goto(r, "over")
          /\ cancelled' = [cancelled EXCEPT ![r] = FALSE]
       \/ /\ ~cancelled[r]
          /\ ~Alive(prev[r])
          /\ Goto(r, "draining")
          /\ UNCHANGED cancelled
    /\ UNCHANGED <<registry, runs, prev, run, saved, clients>>

Pulling(r) == phase[r] \in {"draining", "saved"} /\ ~cancelled[r]

Publish(r) ==
    /\ Pulling(r)
    /\ buffer[run[r]] < MaxEvents
    /\ buffer' = [buffer EXCEPT ![run[r]] = @ + 1]
    /\ Push(run[r], <<buffer[run[r]]>>)
    /\ UNCHANGED <<registry, status, subscribers, evicting, tasks, saved, cpc,
                   from, next, view>>

\* The generator saves the answer when the model is done, and goes on.
Save(r) ==
    /\ phase[r] = "draining" /\ ~cancelled[r]
    /\ saved' = r
    /\ Goto(r, "saved")
    /\ UNCHANGED <<registry, runs, cancelled, prev, run, clients>>

\* Mutant: nobody is woken.
OverSilently(r, result, items) ==
    /\ status' = [status EXCEPT ![run[r]] = result]
    /\ Push(run[r], items)
    /\ ScheduleEvict
    /\ Goto(r, "over")
    /\ cancelled' = [cancelled EXCEPT ![r] = FALSE]
    /\ UNCHANGED <<registry, subscribers, prev, run, cpc, from, next, view>>

\* The finally clause: every subscriber is woken, the grace timer is armed.
Over(r, result, items) ==
    /\ status' = [status EXCEPT ![run[r]] = result]
    /\ Push(run[r], Append(items, End))
    /\ ScheduleEvict
    /\ Goto(r, "over")
    /\ cancelled' = [cancelled EXCEPT ![r] = FALSE]
    /\ UNCHANGED <<registry, subscribers, prev, run, cpc, from, next, view>>

Complete(r) ==
    /\ Pulling(r)
    /\ Over(r, "done", <<>>)
    /\ UNCHANGED <<buffer, saved>>

\* The CancelledError is raised inside the generator, which unwinds.
Interrupt(r) ==
    /\ phase[r] \in {"draining", "saved"} /\ cancelled[r]
    /\ Goto(r, "unwinding")
    /\ cancelled' = [cancelled EXCEPT ![r] = FALSE]
    /\ UNCHANGED <<registry, runs, prev, run, saved, clients>>

\* It saves the text it has, if any; a second cancellation hurries it.
Unwound(r) ==
    /\ phase[r] = "unwinding"
    /\ saved' \in {saved, r}
    /\ Over(r, "stopped", <<>>)
    /\ UNCHANGED buffer

\* The generator raises: two events tell the subscribers.
Fail(r) ==
    /\ Pulling(r) \/ phase[r] = "unwinding"
    /\ buffer' = [buffer EXCEPT ![run[r]] = @ + 2]
    /\ Over(r, "error", <<buffer[run[r]], buffer[run[r]] + 1>>)
    /\ UNCHANGED saved

\* The grace period of a run is over.
Evict(r) ==
    /\ evicting[r]
    /\ evicting' = [evicting EXCEPT ![r] = FALSE]
    /\ current' = IF current = r /\ status[r] # "running" /\ subscribers[r] = {}
                  THEN 0 ELSE current
    /\ UNCHANGED <<sent, status, buffer, subscribers, tasks, saved, clients>>

-----------------------------------------------------------------------------
(***************************************************************************)
(* The generator of a subscriber.                                          *)
(***************************************************************************)
Subscribe(c) ==
    /\ cpc[c] = "connecting"
    /\ \/ /\ current = 0
          /\ cpc' = [cpc EXCEPT ![c] = "off"]
          /\ UNCHANGED <<runs, from>>
       \/ /\ current # 0
          /\ subscribers' = [subscribers EXCEPT ![current] = @ \cup {c}]
          /\ evicting' = [evicting EXCEPT ![current] = FALSE]
          /\ from' = [from EXCEPT ![c] = current]
          /\ cpc' = [cpc EXCEPT ![c] = "replay"]
          /\ UNCHANGED <<status, buffer>>
    /\ UNCHANGED <<registry, tasks, saved, queue, next, view>>

Yield(c, seq) ==
    /\ view' = [view EXCEPT ![c] = Append(@, seq)]
    /\ next' = [next EXCEPT ![c] = seq + 1]

\* Mutant: nothing re-arms the timer.
UnsubscribeOnly(c) ==
    /\ subscribers' = [subscribers EXCEPT ![from[c]] = @ \ {c}]
    /\ UNCHANGED evicting

\* The finally clause of subscribe: the last one to leave re-arms the timer.
Unsubscribe(c) ==
    LET r == from[c]
    IN  /\ subscribers' = [subscribers EXCEPT ![r] = @ \ {c}]
        /\ IF subscribers[r] \subseteq {c} /\ status[r] # "running"
           THEN ScheduleEvict ELSE UNCHANGED evicting

\* The stream is over, and with it the locals of its generator.
Close(c, how) ==
    /\ cpc' = [cpc EXCEPT ![c] = how]
    /\ from' = [from EXCEPT ![c] = 0]
    /\ queue' = [queue EXCEPT ![c] = <<>>]
    /\ next' = [next EXCEPT ![c] = 0]
    /\ view' = [view EXCEPT ![c] = <<>>]

Replay(c) ==
    /\ cpc[c] = "replay"
    /\ \/ /\ next[c] < buffer[from[c]]
          /\ Yield(c, next[c])
          /\ UNCHANGED <<subscribers, evicting, cpc, from, queue>>
       \/ /\ next[c] = buffer[from[c]]
          /\ status[from[c]] # "running"
          /\ Unsubscribe(c)
          /\ Close(c, "finished")
       \/ /\ next[c] = buffer[from[c]]
          /\ status[from[c]] = "running"
          /\ cpc' = [cpc EXCEPT ![c] = "live"]
          /\ UNCHANGED <<subscribers, evicting, from, queue, next, view>>
    /\ UNCHANGED <<registry, status, buffer, tasks, saved>>

\* Mutant: whatever comes is passed on.
ReceiveAll(c) ==
    /\ cpc[c] = "live"
    /\ queue[c] # <<>>
    /\ Head(queue[c]) # End
    /\ queue' = [queue EXCEPT ![c] = Tail(@)]
    /\ Yield(c, Head(queue[c]))
    /\ UNCHANGED <<registry, runs, tasks, saved, cpc, from>>

\* An event that was already replayed from the buffer is skipped.
Receive(c) ==
    /\ cpc[c] = "live"
    /\ queue[c] # <<>>
    /\ Head(queue[c]) # End
    /\ queue' = [queue EXCEPT ![c] = Tail(@)]
    /\ \/ /\ Head(queue[c]) >= next[c]
          /\ Yield(c, Head(queue[c]))
       \/ /\ Head(queue[c]) < next[c]
          /\ UNCHANGED <<next, view>>
    /\ UNCHANGED <<registry, runs, tasks, saved, cpc, from>>

\* The sentinel.  The code flushes what may be left of the buffer and returns;
\* that nothing is ever left is part of LogSpec.
ReceiveEnd(c) ==
    /\ cpc[c] = "live"
    /\ queue[c] # <<>>
    /\ Head(queue[c]) = End
    /\ Unsubscribe(c)
    /\ Close(c, "finished")
    /\ UNCHANGED <<registry, status, buffer, tasks, saved>>

\* The browser goes away.
Disconnect(c) ==
    /\ cpc[c] \in {"connecting"} \cup Subscribed
    /\ IF cpc[c] = "connecting" THEN UNCHANGED <<subscribers, evicting>>
       ELSE Unsubscribe(c)
    /\ Close(c, "off")
    /\ UNCHANGED <<registry, status, buffer, tasks, saved>>

-----------------------------------------------------------------------------
Advance(r) == Begin(r) \/ Wait(r) \/ Interrupt(r) \/ Unwound(r)

TaskStep(r) ==
    \/ Advance(r) \/ Publish(r) \/ Save(r) \/ Complete(r) \/ Fail(r)

ClientStep(c) == Subscribe(c) \/ Replay(c) \/ Receive(c) \/ ReceiveEnd(c)

Next ==
    \/ \E c \in Clients :
          Send(c) \/ Resume(c) \/ ClientStep(c) \/ Disconnect(c)
    \/ \E r \in Runs : TaskStep(r) \/ Evict(r)
    \/ Stop

Spec == Init /\ [][Next]_vars

\* The event loop runs whatever is ready: a subscriber that can go on, a new,
\* waiting or cancelled task, a timer that is due.  A generator may be silent for
\* ever, unless it is cancelled: then it unwinds.
Fairness ==
    /\ \A c \in Clients : WF_vars(ClientStep(c))
    /\ \A r \in Runs : WF_vars(Advance(r)) /\ WF_vars(Evict(r))
FairSpec == Spec /\ Fairness
-----------------------------------------------------------------------------
(***************************************************************************)
(* Properties.                                                             *)
(***************************************************************************)
\* Every client is served a replayable log: from the first event on, in order,
\* each once, and to the end unless the client leaves (ReplayLog).
Log == INSTANCE ReplayLog WITH
    length <- buffer,
    closed <- [r \in Runs |-> status[r] # "running"],
    state <- [c \in Clients |-> IF cpc[c] \in Subscribed THEN "reading"
                                ELSE IF cpc[c] = "finished" THEN "complete"
                                ELSE "away"],
    source <- from

LogSpec == Log!Spec

\* A finished run is not kept for ever: as long as it is registered and nobody
\* reads it, its grace timer is running.
EvictionPending ==
    \A r \in Runs :
        current = r /\ status[r] # "running" /\ subscribers[r] = {} => evicting[r]

\* A task writes to the run it was started for, and to no other: whoever
\* replaced that run cancelled the task before it looked its run up.
WritesOwnRun == \A r \in Runs : run[r] \in {0, r}

\* No wake-up is lost: a subscriber that waits for its queue to be filled has received
\* all there is, however its replay, the events put meanwhile and the sentinel came to
\* overlap, and what it waits for is put by a task that is alive.  The one exception is
\* a run that was cancelled before its generator began, alone or in the wait for its
\* predecessor (agent_runs.py:103): it has no events, is "running" for ever, and wakes
\* nobody.
NoLostWakeup ==
    \A c \in Clients :
        cpc[c] = "live" /\ queue[c] = <<>> =>
            /\ next[c] = buffer[from[c]]
            /\ status[from[c]] = "running"
            /\ Alive(from[c]) \/ buffer[from[c]] = 0

\* A run never saves after the one that was sent right after it, also when the
\* latter was stopped while it waited.  (It may save after a later one: see
\* SavesInOrder.)
SavesFollow ==
    [][\A r \in Runs : saved' = r /\ saved # r => saved # r + 1]_saved

\* No subscriber waits for more of a run that has ended.
EndReachesClients ==
    \A c \in Clients :
        cpc[c] \in Subscribed /\ status[from[c]] # "running"
            ~> cpc[c] \notin Subscribed

\* A run that is told to stop, or is replaced, comes to an end.
StopTakesEffect == \A r \in Runs : cancelled[r] ~> phase[r] = "over"

\* "keeps the two runs' session saves sequential instead of interleaved": answers
\* are saved in the order in which their messages were sent.
SavesInOrder == [][saved' >= saved]_saved
=============================================================================
