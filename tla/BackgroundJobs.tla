---------------------------- MODULE BackgroundJobs ----------------------------
(***************************************************************************)
(* Background jobs of the agent's bash tool (bg_jobs.py) and the monitor   *)
(* that runs the agent again at their end (bg_monitor.py).                 *)
(*                                                                         *)
(* The server is one asyncio event loop.  The monitor gives it up only     *)
(* while it sleeps and while the agent of a follow-up runs; a launch never *)
(* does.  Processes are detached: they go on when the server crashes, and  *)
(* so do the files they write and the store, which is replaced atomically. *)
(* A session is deleted on a thread of its own.                            *)
(*                                                                         *)
(* Times are left out: a job is overdue, and a closed record is old enough *)
(* to be pruned, from some moment on.  The records of one round of the     *)
(* monitor are followed up in any order; the code's is that of the store.  *)
(***************************************************************************)
EXTENDS Naturals

CONSTANTS
    Jobs,
    Sessions,
    NoJob,
    MaxTurns,   \* bound: turns the user starts
    MaxFaults   \* bound: crashes, failed writes, model calls and tools that fail

ASSUME ConstantsAssumption ==
    /\ NoJob \notin Jobs
    /\ MaxTurns \in Nat
    /\ MaxFaults \in Nat

VARIABLES
    \* data/bg_jobs.json
    status,     \* "none": not on record; "pruned": no longer
    followed,   \* followed_up
    \* the wrapper processes and the exit files they write
    process,
    code,       \* what the command returned
    exitFile,
    overdue,    \* started longer than max_runtime_s ago
    \* the sessions
    session,    \* session_id of a job
    sessions,   \* the sessions that exist
    active,     \* agent_runs.is_active
    answers,    \* follow-ups of a job that were added to its session
    told,       \* jobs of which one of those says what the agent answered
    \* the server
    pc,         \* of the monitor, or "down"
    todo,       \* what pending_followups returned, less what was tried
    job,        \* rec of the follow-up under way
    launching,  \* launch has started the process, the record is not saved
    turns, faults

store == <<status, followed>>
processes == <<process, code, exitFile, overdue>>
chats == <<session, sessions, active, answers, told>>
server == <<pc, todo, job, launching>>
vars == <<store, processes, chats, server, turns, faults>>

Finished == {"done", "failed"}
Outcome == {"zero", "nonzero"}

TypeOK ==
    /\ status \in [Jobs -> {"none", "running", "pruned"} \cup Finished]
    /\ followed \subseteq Jobs
    /\ process \in [Jobs -> {"none", "running", "closing", "gone"}]
    /\ code \in [Jobs -> {"none"} \cup Outcome]
    /\ exitFile \in [Jobs -> {"none", "empty"} \cup Outcome]
    /\ overdue \subseteq Jobs
    /\ session \in [Jobs -> Sessions]
    /\ sessions \subseteq Sessions
    /\ active \subseteq Sessions
    /\ answers \in [Jobs -> Nat]
    /\ told \subseteq Jobs
    /\ pc \in {"down", "asleep", "picking", "draining", "marking"}
    /\ todo \subseteq Jobs
    /\ job \in Jobs \cup {NoJob}
    /\ launching \in Jobs \cup {NoJob}
    /\ turns \in 0..MaxTurns
    /\ faults \in 0..MaxFaults

Init ==
    /\ status = [j \in Jobs |-> "none"]
    /\ followed = {}
    /\ process = [j \in Jobs |-> "none"]
    /\ code = [j \in Jobs |-> "none"]
    /\ exitFile = [j \in Jobs |-> "none"]
    /\ overdue = {}
    /\ session \in [Jobs -> Sessions]
    /\ sessions = Sessions
    /\ active = {}
    /\ answers = [j \in Jobs |-> 0]
    /\ told = {}
    /\ pc = "asleep"
    /\ todo = {}
    /\ job = NoJob
    /\ launching = NoJob
    /\ turns = 0
    /\ faults = 0

\* The event loop is free to run something else than the monitor.
LoopIsFree == pc \in {"asleep", "draining"} /\ launching = NoJob
Fault == faults < MaxFaults /\ faults' = faults + 1

-----------------------------------------------------------------------------
(***************************************************************************)
(* The detached process of a job.                                          *)
(***************************************************************************)
\* The command ends; the shell opens the exit file before echo writes to it.
CommandEnds(j) ==
    /\ process[j] = "running"
    /\ process' = [process EXCEPT ![j] = "closing"]
    /\ exitFile' = [exitFile EXCEPT ![j] = "empty"]
    /\ \E c \in Outcome : code' = [code EXCEPT ![j] = c]
    /\ UNCHANGED <<overdue, store, chats, server, turns, faults>>

ExitIsWritten(j) ==
    /\ process[j] = "closing"
    /\ process' = [process EXCEPT ![j] = "gone"]
    /\ exitFile' = [exitFile EXCEPT ![j] = code[j]]
    /\ UNCHANGED <<code, overdue, store, chats, server, turns, faults>>

\* The wrapper is killed by something else than the server.
Vanish(j) ==
    /\ process[j] \in {"running", "closing"}
    /\ process' = [process EXCEPT ![j] = "gone"]
    /\ UNCHANGED <<code, exitFile, overdue, store, chats, server, turns, faults>>

HourPasses(j) ==
    /\ status[j] = "running"
    /\ j \notin overdue
    /\ overdue' = overdue \cup {j}
    /\ UNCHANGED <<process, code, exitFile, store, chats, server, turns, faults>>

-----------------------------------------------------------------------------
(***************************************************************************)
(* The sessions and the turns that launch jobs.                            *)
(***************************************************************************)
StartTurn(s) ==
    /\ LoopIsFree
    /\ turns < MaxTurns
    /\ s \in sessions \ active
    /\ active' = active \cup {s}
    /\ turns' = turns + 1
    /\ UNCHANGED <<session, sessions, answers, told, store, processes, server, faults>>

EndTurn(s) ==
    /\ LoopIsFree
    /\ s \in active
    /\ active' = active \ {s}
    /\ UNCHANGED <<session, sessions, answers, told, store, processes, server, turns, faults>>

DeleteSession(s) ==
    /\ pc # "down"
    /\ s \in sessions
    /\ sessions' = sessions \ {s}
    /\ UNCHANGED <<session, active, answers, told, store, processes, server, turns, faults>>

\* A turn of the session runs, or the agent of a follow-up of it.
AgentRuns(s) == s \in active \/ (pc = "draining" /\ session[job] = s)

\* launch, up to Popen.
Launch(j) ==
    /\ LoopIsFree
    /\ process[j] = "none"
    /\ AgentRuns(session[j])
    /\ process' = [process EXCEPT ![j] = "running"]
    /\ launching' = j
    /\ UNCHANGED <<code, exitFile, overdue, store, chats, pc, todo, job, turns, faults>>

Record ==
    /\ launching # NoJob
    /\ status' = [status EXCEPT ![launching] = "running"]
    /\ launching' = NoJob
    /\ UNCHANGED <<followed, processes, chats, pc, todo, job, turns, faults>>

\* The store cannot be written: the tool call fails, the process goes on.
RecordFails ==
    /\ launching # NoJob
    /\ Fault
    /\ launching' = NoJob
    /\ UNCHANGED <<store, processes, chats, pc, todo, job, turns>>

-----------------------------------------------------------------------------
(***************************************************************************)
(* The monitor: _loop, pending_followups with its refresh, _run_followup.  *)
(***************************************************************************)
Running == {j \in Jobs : status[j] = "running"}
HasExit == {j \in Running : exitFile[j] # "none"}
TimedOut == (Running \ HasExit) \cap overdue
Dead == {j \in (Running \ HasExit) \ overdue : process[j] = "gone"}

\* Mutant: an exit file that is still empty is taken for success.
ReadsSuccessOfEmpty(j) == exitFile[j] \in {"zero", "empty"}

\* int(text or "1") == 0
ReadsSuccess(j) == exitFile[j] = "zero"

Killed == [j \in Jobs |-> IF j \in TimedOut THEN "gone" ELSE process[j]]

\* Mutant: a job that ran for too long is not settled.
VerdictInTime(died, stale) ==
    [j \in Jobs |->
        IF j \in HasExit THEN IF ReadsSuccess(j) THEN "done" ELSE "failed"
        ELSE IF j \in died THEN "failed"
        ELSE IF j \in stale THEN "pruned"
        ELSE status[j]]

\* The store as refresh leaves it.
Verdict(died, stale) ==
    [j \in Jobs |->
        IF j \in HasExit THEN IF ReadsSuccess(j) THEN "done" ELSE "failed"
        ELSE IF j \in TimedOut \cup died THEN "failed"
        ELSE IF j \in stale THEN "pruned"
        ELSE status[j]]

Stale == {j \in followed : status[j] \in Finished}

\* Mutant: followed_up is not looked at.
PendingAgain(st) == {j \in Jobs : st[j] \in Finished}

\* pending_followups, in the refreshed store.
Pending(st) == {j \in Jobs : st[j] \in Finished} \ followed

\* A process that is gone may still have its pid: as a zombie, until the server
\* launches another, or because the pid was given away again.
Refresh ==
    /\ pc = "asleep"
    /\ launching = NoJob
    /\ process' = Killed
    /\ \E died \in SUBSET Dead :
       \E stale \in SUBSET Stale : status' = Verdict(died, stale)
    /\ todo' = Pending(status')
    /\ pc' = "picking"
    /\ UNCHANGED <<followed, code, exitFile, overdue, chats, job, launching, turns, faults>>

\* The store cannot be written: the round is given up, the kills were made.
RefreshFails ==
    /\ pc = "asleep"
    /\ launching = NoJob
    /\ HasExit \cup TimedOut \cup Dead \cup Stale # {}
    /\ Fault
    /\ process' = Killed
    /\ UNCHANGED <<code, exitFile, overdue, store, chats, server, turns>>

\* get_session raises for a session that is gone; a session with a live turn is
\* left to a later round.
Skip(j) ==
    /\ pc = "picking"
    /\ j \in todo
    /\ session[j] \notin sessions \/ session[j] \in active
    /\ todo' = todo \ {j}
    /\ UNCHANGED <<pc, job, launching, store, processes, chats, turns, faults>>

FollowUp(j) ==
    /\ pc = "picking"
    /\ j \in todo
    /\ session[j] \in sessions \ active
    /\ todo' = todo \ {j}
    /\ job' = j
    /\ pc' = "draining"
    /\ UNCHANGED <<launching, store, processes, chats, turns, faults>>

RoundEnds ==
    /\ pc = "picking"
    /\ todo = {}
    /\ pc' = "asleep"
    /\ UNCHANGED <<todo, job, launching, store, processes, chats, turns, faults>>

\* The agent's run is over: a message with its text is added to the session.
AddMessage ==
    /\ pc = "draining"
    /\ launching = NoJob
    /\ session[job] \in sessions
    /\ answers' = [answers EXCEPT ![job] = @ + 1]
    /\ pc' = "marking"
    /\ UNCHANGED <<session, sessions, active, todo, job, launching, store, processes, turns>>

Answer ==
    /\ AddMessage
    /\ told' = told \cup {job}
    /\ UNCHANGED faults

\* The model's errors are events of the run, which _drain_agent passes over: the
\* run ends and the message is empty.  Or the database refuses the message,
\* which _persist_message logs.  The job is marked all the same.
AnswerIsVoid ==
    /\ AddMessage
    /\ Fault
    /\ UNCHANGED told

\* The session was deleted while the agent ran: add_message raises.
AnswerIsLost ==
    /\ pc = "draining"
    /\ launching = NoJob
    /\ session[job] \notin sessions
    /\ pc' = "picking"
    /\ job' = NoJob
    /\ UNCHANGED <<todo, launching, store, processes, chats, turns, faults>>

\* The agent's loop raises outside of its call of the model, the session cannot be
\* read from the database, or the store cannot be written.
Fails ==
    /\ pc \in {"draining", "marking"}
    /\ launching = NoJob
    /\ Fault
    /\ pc' = "picking"
    /\ job' = NoJob
    /\ UNCHANGED <<todo, launching, store, processes, chats, turns>>

\* Mutant: the records are written back as they were when the round began.
MarkInSnapshot ==
    /\ pc = "marking"
    /\ status' = [j \in Jobs |-> IF status[j] = "running" THEN "none" ELSE status[j]]
    /\ followed' = followed \cup {job}
    /\ job' = NoJob
    /\ pc' = "picking"
    /\ UNCHANGED <<todo, launching, processes, chats, turns, faults>>

Mark ==
    /\ pc = "marking"
    /\ followed' = followed \cup {job}
    /\ job' = NoJob
    /\ pc' = "picking"
    /\ UNCHANGED <<status, todo, launching, processes, chats, turns, faults>>

-----------------------------------------------------------------------------
(***************************************************************************)
(* The server.                                                             *)
(***************************************************************************)
Crash ==
    /\ pc # "down"
    /\ Fault
    /\ pc' = "down"
    /\ todo' = {}
    /\ job' = NoJob
    /\ launching' = NoJob
    /\ active' = {}
    /\ UNCHANGED <<session, sessions, answers, told, store, processes, turns>>

Restart ==
    /\ pc = "down"
    /\ pc' = "asleep"
    /\ UNCHANGED <<todo, job, launching, store, processes, chats, turns, faults>>

Round ==
    \/ Refresh \/ RefreshFails
    \/ \E j \in Jobs : Skip(j) \/ FollowUp(j)
    \/ Answer \/ AnswerIsVoid \/ AnswerIsLost \/ Fails \/ Mark
    \/ RoundEnds

Next ==
    \/ Round
    \/ \E j \in Jobs : CommandEnds(j) \/ ExitIsWritten(j) \/ Vanish(j) \/ HourPasses(j)
    \/ \E s \in Sessions : StartTurn(s) \/ EndTurn(s) \/ DeleteSession(s)
    \/ \E j \in Jobs : Launch(j)
    \/ Record \/ RecordFails
    \/ Crash \/ Restart

Spec == Init /\ [][Next]_vars

(***************************************************************************)
(* The server is started again after a crash, the event loop runs what is  *)
(* ready, and time passes.  A command need not end, nor its exit code be   *)
(* written; a turn of the user, or the agent of a follow-up, may run for   *)
(* ever.                                                                   *)
(***************************************************************************)
Fairness ==
    /\ WF_vars(Refresh) /\ WF_vars(RoundEnds)
    /\ WF_vars(Mark) /\ WF_vars(Record) /\ WF_vars(Restart)
    /\ \A j \in Jobs :
        /\ WF_vars(Skip(j)) /\ WF_vars(FollowUp(j))
        /\ WF_vars(HourPasses(j))

FairSpec == Spec /\ Fairness

-----------------------------------------------------------------------------
(***************************************************************************)
(* Properties.                                                             *)
(***************************************************************************)
\* A job is reported as done only if its command ended and returned 0,
\* whatever a crash, a kill or a half-written exit file left on disk.
DoneMeansDone ==
    \A j \in Jobs : status[j] = "done" => code[j] = "zero"

\* Beyond the one message that tells the user what the agent made of a job, each
\* of its follow-ups is paid for by a fault: a repeat by a crash or a failed write
\* between adding and marking, an empty or unsaved one by a failure of the model
\* or the database.  A job closed in silence has cost a fault, too.
RepeatsArePaid ==
    \A j \in Jobs : answers[j] <= faults + (IF j \in told THEN 1 ELSE 0)

\* The record of a job is kept until the agent was run with its result at least
\* once, over crashes, failed writes and launches during a follow-up.
State ==
    [j \in Jobs |-> IF status[j] = "none" THEN "unknown"
                    ELSE IF j \in followed THEN "closed"
                    ELSE IF status[j] = "running" THEN "open"
                    ELSE "ended"]

Delivery == INSTANCE AtLeastOnce WITH state <- State, asked <- answers
DeliverySpec == Delivery!Spec

\* A job on record is followed up in the end, though its command may hang, its
\* process vanish and the server crash.  Two things excuse the monitor: the
\* session is deleted, or something runs for ever, a turn of that session or the
\* agent of a follow-up, behind which all others wait.
EveryJobIsFollowedUp ==
    \A j \in Jobs :
        <>[](session[j] \notin active) /\ []<>(pc # "draining")
            => (status[j] = "running" ~> (j \in followed \/ session[j] \notin sessions))
=============================================================================
