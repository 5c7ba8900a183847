-------------------------- MODULE BackgroundJobs_proofs --------------------------
(***************************************************************************)
(* Theorems about the background jobs, for any jobs, sessions, turns and   *)
(* faults: types, what "done" means, how often a follow-up is repeated,    *)
(* and that the store delivers at least once.                              *)
(***************************************************************************)
EXTENDS BackgroundJobs, TLAPS

(***************************************************************************)
(* The inductive invariant.  A job has no record and no exit file before   *)
(* its process is started.  The monitor holds only jobs that are finished  *)
(* and not closed, and closes one only behind its answer; an open job with *)
(* an answer has cost a fault.                                             *)
(***************************************************************************)
Waiting == {j \in Jobs : status[j] \in Finished} \ followed

NotStarted ==
    \A j \in Jobs :
        /\ process[j] = "none" => status[j] = "none"
        /\ process[j] \in {"none", "running"} => code[j] = "none" /\ exitFile[j] = "none"

Codes == \A j \in Jobs : exitFile[j] = "zero" => code[j] = "zero"

Closed ==
    \A j \in Jobs :
        /\ j \in followed => status[j] \in Finished \cup {"pruned"}
        /\ status[j] = "pruned" => j \in followed

Started ==
    launching # NoJob => process[launching] # "none" /\ status[launching] = "none"

InHand ==
    /\ todo \subseteq Waiting
    /\ pc \in {"draining", "marking"} => job \in Waiting \ todo
    /\ pc = "marking" => answers[job] # 0

Paid ==
    \A j \in Jobs \ followed :
        ~(pc = "marking" /\ job = j) => answers[j] <= faults

IInv ==
    /\ TypeOK
    /\ NotStarted
    /\ Codes
    /\ DoneMeansDone
    /\ Closed
    /\ Started
    /\ InHand
    /\ RepeatsArePaid
    /\ Paid

-----------------------------------------------------------------------------
(***************************************************************************)
(* The actions, by what they change.                                       *)
(***************************************************************************)
ProcessStep ==
    \E j \in Jobs : CommandEnds(j) \/ ExitIsWritten(j) \/ Vanish(j) \/ HourPasses(j)
SessionStep == \E s \in Sessions : StartTurn(s) \/ EndTurn(s) \/ DeleteSession(s)
LaunchStep == (\E j \in Jobs : Launch(j)) \/ Record \/ RecordFails
PickStep == (\E j \in Jobs : Skip(j) \/ FollowUp(j)) \/ RoundEnds
DrainStep == Answer \/ AnswerIsVoid \/ AnswerIsLost \/ Fails \/ Mark
ServerStep == Crash \/ Restart

LEMMA Steps ==
    ASSUME [Next]_vars
    PROVE  \/ ProcessStep \/ SessionStep \/ LaunchStep \/ Refresh \/ RefreshFails
           \/ PickStep \/ DrainStep \/ ServerStep \/ UNCHANGED vars
  BY DEF Next, Round, ProcessStep, SessionStep, LaunchStep, PickStep, DrainStep, ServerStep

\* Nothing but Refresh changes more than one record.
LEMMA VerdictIsTyped ==
    ASSUME TypeOK, NEW died \in SUBSET Dead, NEW stale \in SUBSET Stale
    PROVE  Verdict(died, stale) \in [Jobs -> {"none", "running", "pruned"} \cup Finished]
  BY DEF TypeOK, Verdict, Finished

LEMMA KilledIsTyped ==
    ASSUME TypeOK
    PROVE  Killed \in [Jobs -> {"none", "running", "closing", "gone"}]
  BY DEF TypeOK, Killed

-----------------------------------------------------------------------------
(***************************************************************************)
(* Types.                                                                  *)
(***************************************************************************)
LEMMA CountersTyped ==
    ASSUME TypeOK, [Next]_vars
    PROVE  turns' \in 0..MaxTurns /\ faults' \in 0..MaxFaults /\ answers' \in [Jobs -> Nat]
<1>1. turns' \in {turns} \/ (turns < MaxTurns /\ turns' = turns + 1)
  BY Steps DEF ProcessStep, SessionStep, LaunchStep, PickStep, DrainStep, ServerStep, vars,
    CommandEnds, ExitIsWritten, Vanish, HourPasses, StartTurn, EndTurn, DeleteSession, Launch,
    Record, RecordFails, Refresh, RefreshFails, Skip, FollowUp, RoundEnds, Answer,
    AnswerIsVoid, AddMessage, AnswerIsLost, Fails, Mark, Crash, Restart
<1>2. faults' = faults \/ Fault
  BY Steps DEF ProcessStep, SessionStep, LaunchStep, PickStep, DrainStep, ServerStep, vars,
    CommandEnds, ExitIsWritten, Vanish, HourPasses, StartTurn, EndTurn, DeleteSession, Launch,
    Record, RecordFails, Refresh, RefreshFails, Skip, FollowUp, RoundEnds, Answer,
    AnswerIsVoid, AddMessage, AnswerIsLost, Fails, Mark, Crash, Restart
<1>3. answers' = answers \/ answers' = [answers EXCEPT ![job] = @ + 1]
  BY Steps DEF ProcessStep, SessionStep, LaunchStep, PickStep, DrainStep, ServerStep, vars,
    chats, CommandEnds, ExitIsWritten, Vanish, HourPasses, StartTurn, EndTurn, DeleteSession,
    Launch, Record, RecordFails, Refresh, RefreshFails, Skip, FollowUp, RoundEnds, Answer,
    AnswerIsVoid, AddMessage, AnswerIsLost, Fails, Mark, Crash, Restart
<1>4. answers' \in [Jobs -> Nat]
  BY <1>3 DEF TypeOK
<1>5. turns' \in 0..MaxTurns /\ faults' \in 0..MaxFaults
  BY <1>1, <1>2, ConstantsAssumption DEF TypeOK, Fault
<1>6. QED
  BY <1>4, <1>5

LEMMA RefreshTyped == ASSUME TypeOK, Refresh PROVE TypeOK'
<1>1. PICK died \in SUBSET Dead, stale \in SUBSET Stale : status' = Verdict(died, stale)
  BY DEF Refresh
<1>2. status' \in [Jobs -> {"none", "running", "pruned"} \cup Finished]
  BY <1>1, VerdictIsTyped
<1>3. process' \in [Jobs -> {"none", "running", "closing", "gone"}]
  BY KilledIsTyped DEF Refresh
<1>4. QED
  BY <1>2, <1>3 DEF TypeOK, Refresh, Pending, chats, server

LEMMA StepTyped == ASSUME IInv, [Next]_vars PROVE TypeOK'
<1>0. TypeOK
  BY DEF IInv
<1>1. turns' \in 0..MaxTurns /\ faults' \in 0..MaxFaults /\ answers' \in [Jobs -> Nat]
  BY <1>0, CountersTyped
<1>2. CASE ProcessStep
  BY <1>0, <1>1, <1>2 DEF TypeOK, ProcessStep, CommandEnds, ExitIsWritten, Vanish, HourPasses,
    Outcome, store, chats, server
<1>3. CASE SessionStep
  BY <1>0, <1>1, <1>3 DEF TypeOK, SessionStep, StartTurn, EndTurn, DeleteSession, store,
    processes, server
<1>4. CASE LaunchStep
  BY <1>0, <1>1, <1>4 DEF TypeOK, LaunchStep, Launch, Record, RecordFails, store, processes,
    chats
<1>5. CASE Refresh
  BY <1>0, <1>5, RefreshTyped
<1>6. CASE RefreshFails
  BY <1>0, <1>1, <1>6, KilledIsTyped DEF TypeOK, RefreshFails, store, chats, server
<1>7. CASE PickStep
  BY <1>0, <1>1, <1>7 DEF TypeOK, PickStep, Skip, FollowUp, RoundEnds, store, processes, chats
<1>8. CASE DrainStep
  <2>1. CASE Mark
    <3>1. job \in Jobs
      BY <2>1 DEF IInv, InHand, Waiting, Mark
    <3>2. QED
      BY <1>0, <1>1, <2>1, <3>1 DEF TypeOK, Mark, processes, chats
  <2>2. CASE Answer \/ AnswerIsVoid
    <3>1. job \in Jobs
      BY <2>2 DEF IInv, InHand, Waiting, Answer, AnswerIsVoid, AddMessage
    <3>2. QED
      BY <1>0, <1>1, <2>2, <3>1 DEF TypeOK, Answer, AnswerIsVoid, AddMessage, store, processes
  <2>3. CASE AnswerIsLost \/ Fails
    BY <1>0, <1>1, <2>3 DEF TypeOK, AnswerIsLost, Fails, store, processes, chats
  <2>4. QED
    BY <1>8, <2>1, <2>2, <2>3 DEF DrainStep
<1>9. CASE ServerStep
  BY <1>0, <1>1, <1>9 DEF TypeOK, ServerStep, Crash, Restart, store, processes, chats
<1>10. CASE UNCHANGED vars
  BY <1>0, <1>10 DEF TypeOK, vars, store, processes, chats, server
<1>11. QED
  BY <1>2, <1>3, <1>4, <1>5, <1>6, <1>7, <1>8, <1>9, <1>10, Steps

-----------------------------------------------------------------------------
(***************************************************************************)
(* What refresh does to the record of one job.                             *)
(***************************************************************************)
LEMMA RefreshOfOne ==
    ASSUME TypeOK, Refresh, NEW j \in Jobs
    PROVE  \/ status'[j] = status[j]
           \/ /\ status[j] = "running"
              /\ status'[j] \in Finished
              /\ status'[j] = "done" => exitFile[j] = "zero"
           \/ status[j] \in Finished /\ j \in followed /\ status'[j] = "pruned"
<1>1. PICK died \in SUBSET Dead, stale \in SUBSET Stale : status' = Verdict(died, stale)
  BY DEF Refresh
<1>2. CASE j \in HasExit
  BY <1>1, <1>2 DEF Verdict, ReadsSuccess, HasExit, Running, Finished
<1>3. CASE j \notin HasExit /\ j \in TimedOut \cup died
  BY <1>1, <1>3 DEF Verdict, TimedOut, Dead, Running, Finished
<1>4. CASE j \notin HasExit /\ j \notin TimedOut \cup died /\ j \in stale
  BY <1>1, <1>4 DEF Verdict, Stale
<1>5. CASE j \notin HasExit /\ j \notin TimedOut \cup died /\ j \notin stale
  BY <1>1, <1>5 DEF Verdict
<1>6. QED
  BY <1>2, <1>3, <1>4, <1>5

\* Of the other steps, only Record changes a record, and only one.
LEMMA RecordsKept ==
    ASSUME [Next]_vars, ~Refresh, ~Record
    PROVE  UNCHANGED status
  BY Steps DEF ProcessStep, SessionStep, LaunchStep, PickStep, DrainStep, ServerStep, vars,
    store, CommandEnds, ExitIsWritten, Vanish, HourPasses, StartTurn, EndTurn, DeleteSession,
    Launch, RecordFails, RefreshFails, Skip, FollowUp, RoundEnds, Answer, AnswerIsVoid, AddMessage, AnswerIsLost, Fails,
    Mark, Crash, Restart

LEMMA FollowedKept ==
    ASSUME [Next]_vars, ~Mark
    PROVE  UNCHANGED followed
  BY Steps DEF ProcessStep, SessionStep, LaunchStep, PickStep, DrainStep, ServerStep, vars,
    store, CommandEnds, ExitIsWritten, Vanish, HourPasses, StartTurn, EndTurn, DeleteSession,
    Launch, Record, RecordFails, Refresh, RefreshFails, Skip, FollowUp, RoundEnds, Answer,
    AnswerIsVoid, AddMessage, AnswerIsLost, Fails, Crash, Restart

LEMMA AnswersKept ==
    ASSUME [Next]_vars, ~Answer, ~AnswerIsVoid
    PROVE  UNCHANGED <<answers, told>>
  BY Steps DEF ProcessStep, SessionStep, LaunchStep, PickStep, DrainStep, ServerStep, vars,
    chats, CommandEnds, ExitIsWritten, Vanish, HourPasses, StartTurn, EndTurn, DeleteSession,
    Launch, Record, RecordFails, Refresh, RefreshFails, Skip, FollowUp, RoundEnds,
    AnswerIsLost, Fails, Mark, Crash, Restart

LEMMA FilesKept ==
    ASSUME [Next]_vars, ~ProcessStep
    PROVE  UNCHANGED <<code, exitFile>>
  BY Steps DEF SessionStep, LaunchStep, PickStep, DrainStep, ServerStep, vars,
    processes, StartTurn, EndTurn, DeleteSession, Launch, Record, RecordFails, Refresh,
    RefreshFails, Skip, FollowUp, RoundEnds, Answer, AnswerIsVoid, AddMessage, AnswerIsLost, Fails, Mark, Crash, Restart

\* A process is started by Launch only.
LEMMA ProcessesKept ==
    ASSUME TypeOK, [Next]_vars, ~ProcessStep, NEW j \in Jobs
    PROVE  \/ process'[j] = process[j]
           \/ process[j] = "none" /\ process'[j] = "running" /\ Launch(j)
           \/ status[j] = "running" /\ process'[j] = "gone"
<1>1. CASE Refresh \/ RefreshFails
  BY <1>1 DEF TypeOK, Refresh, RefreshFails, Killed, TimedOut, Running
<1>2. CASE \E i \in Jobs : Launch(i)
  BY <1>2 DEF TypeOK, Launch
<1>3. CASE SessionStep \/ Record \/ RecordFails \/ PickStep \/ DrainStep \/ ServerStep
             \/ UNCHANGED vars
  BY <1>3 DEF SessionStep, PickStep, DrainStep, ServerStep, vars, processes, StartTurn,
    EndTurn, DeleteSession, Record, RecordFails, Skip, FollowUp, RoundEnds, Answer,
    AnswerIsVoid, AddMessage, AnswerIsLost, Fails, Mark, Crash, Restart
<1>4. QED
  BY <1>1, <1>2, <1>3, Steps DEF LaunchStep

-----------------------------------------------------------------------------
(***************************************************************************)
(* The invariant, part by part.                                            *)
(***************************************************************************)
LEMMA NotStartedKept == ASSUME IInv, [Next]_vars PROVE NotStarted' /\ Codes'
<1>0. TypeOK /\ NotStarted /\ Codes /\ Started
  BY DEF IInv
<1>1. CASE ProcessStep
  <2>1. UNCHANGED status
    BY <1>1 DEF ProcessStep, CommandEnds, ExitIsWritten, Vanish, HourPasses, store
  <2>2. QED
    BY <1>0, <1>1, <2>1 DEF TypeOK, NotStarted, Codes, ProcessStep, CommandEnds, ExitIsWritten,
      Vanish, HourPasses, Outcome
<1>2. CASE ~ProcessStep
  <2>1. Codes'
    BY <1>0, <1>2, FilesKept DEF Codes
  <2>2. ASSUME NEW j \in Jobs
        PROVE  /\ process'[j] = "none" => status'[j] = "none"
               /\ process'[j] \in {"none", "running"}
                    => code'[j] = "none" /\ exitFile'[j] = "none"
    <3>1. process'[j] \in {"none", "running"} => process[j] \in {"none", "running"}
      BY <1>0, <1>2, ProcessesKept
    <3>2. process'[j] = "none" => process[j] = "none"
      BY <1>0, <1>2, ProcessesKept
    <3>3. process[j] = "none" => status'[j] = status[j]
      <4>1. CASE Refresh
        BY <1>0, <4>1, RefreshOfOne DEF NotStarted, Finished
      <4>2. CASE Record
        BY <1>0, <4>2 DEF TypeOK, Started, Record
      <4>3. QED
        BY <4>1, <4>2, RecordsKept
    <3>4. QED
      BY <1>0, <1>2, <3>1, <3>2, <3>3, FilesKept DEF NotStarted
  <2>3. QED
    BY <2>1, <2>2 DEF NotStarted
<1>3. QED
  BY <1>1, <1>2

LEMMA DoneKept == ASSUME IInv, [Next]_vars PROVE DoneMeansDone'
<1>0. TypeOK /\ NotStarted /\ Codes /\ DoneMeansDone
  BY DEF IInv
<1>1. CASE ProcessStep
  <2>1. UNCHANGED status
    BY <1>1 DEF ProcessStep, CommandEnds, ExitIsWritten, Vanish, HourPasses, store
  <2>2. ASSUME NEW j \in Jobs, code[j] = "zero" PROVE code'[j] = "zero"
    BY <1>0, <1>1, <2>2 DEF TypeOK, NotStarted, ProcessStep, CommandEnds, ExitIsWritten, Vanish,
      HourPasses
  <2>3. QED
    BY <1>0, <2>1, <2>2 DEF DoneMeansDone
<1>2. CASE Refresh
  BY <1>0, <1>2, RefreshOfOne DEF DoneMeansDone, Codes, Refresh, Finished
<1>3. CASE Record
  BY <1>0, <1>3 DEF TypeOK, DoneMeansDone, Record, processes
<1>4. QED
  BY <1>0, <1>1, <1>2, <1>3, RecordsKept, FilesKept DEF DoneMeansDone

LEMMA ClosedKept == ASSUME IInv, [Next]_vars PROVE Closed' /\ Started'
<1>0. TypeOK /\ NotStarted /\ Closed /\ Started /\ InHand
  BY DEF IInv
<1>1. Closed'
  <2>1. CASE Refresh
    BY <1>0, <2>1, RefreshOfOne DEF Closed, Refresh, Finished
  <2>2. CASE Record
    BY <1>0, <2>2 DEF TypeOK, Closed, Started, Record, Finished
  <2>3. CASE Mark
    BY <1>0, <2>3 DEF Closed, InHand, Waiting, Mark
  <2>4. QED
    BY <1>0, <2>1, <2>2, <2>3, RecordsKept, FollowedKept DEF Closed
<1>2. Started'
  <2>1. CASE ProcessStep
    BY <1>0, <2>1 DEF TypeOK, Started, ProcessStep, CommandEnds, ExitIsWritten, Vanish,
      HourPasses, server, store
  <2>2. CASE LaunchStep
    BY <1>0, <2>2 DEF TypeOK, NotStarted, Started, LaunchStep, Launch, Record, RecordFails,
      store, processes
  <2>3. CASE Refresh \/ RefreshFails
    <3>1. launching' = NoJob
      BY <2>3 DEF Refresh, RefreshFails, server, Fault
    <3>2. QED
      BY <3>1 DEF Started
  <2>4. CASE Crash
    BY <2>4 DEF Started, Crash
  <2>5. CASE SessionStep \/ PickStep \/ DrainStep \/ Restart \/ UNCHANGED vars
    BY <1>0, <2>5 DEF Started, SessionStep, PickStep, DrainStep, vars, store, processes, server,
      StartTurn, EndTurn, DeleteSession, Skip, FollowUp, RoundEnds, Answer, AnswerIsVoid, AddMessage, AnswerIsLost, Fails,
      Mark, Restart
  <2>6. QED
    BY <2>1, <2>2, <2>3, <2>4, <2>5, Steps DEF ServerStep
<1>3. QED
  BY <1>1, <1>2

\* Outside of a refresh, and but for the job that is marked, what waits goes on waiting.
LEMMA WaitingKept ==
    ASSUME IInv, [Next]_vars, ~Refresh, NEW j \in Waiting, ~(Mark /\ job = j)
    PROVE  j \in Waiting'
<1>0. TypeOK /\ Started
  BY DEF IInv
<1>1. status'[j] = status[j]
  <2>1. CASE Record
    BY <1>0, <2>1 DEF TypeOK, Started, Record, Waiting, Finished
  <2>2. QED
    BY <2>1, RecordsKept
<1>2. j \notin followed'
  <2>1. CASE Mark
    BY <2>1 DEF Mark, Waiting
  <2>2. QED
    BY <2>1, FollowedKept DEF Waiting
<1>3. QED
  BY <1>1, <1>2 DEF Waiting

LEMMA InHandKept == ASSUME IInv, [Next]_vars PROVE InHand'
<1>0. TypeOK /\ InHand
  BY DEF IInv
<1>1. CASE Refresh
  BY <1>1 DEF InHand, Waiting, Pending, Refresh
<1>2. CASE ~Refresh
  <2>1. todo' \subseteq Waiting'
    <3>1. todo' \subseteq todo
      BY <1>2, Steps DEF ProcessStep, SessionStep, LaunchStep, PickStep, DrainStep, ServerStep,
        vars, server, CommandEnds, ExitIsWritten, Vanish, HourPasses, StartTurn, EndTurn,
        DeleteSession, Launch, Record, RecordFails, RefreshFails, Skip, FollowUp, RoundEnds,
        Answer, AnswerIsVoid, AddMessage, AnswerIsLost, Fails, Mark, Crash, Restart
    <3>2. ASSUME NEW j \in todo PROVE ~(Mark /\ job = j)
      BY <1>0 DEF InHand, Mark
    <3>3. QED
      BY <1>0, <1>2, <3>1, <3>2, WaitingKept DEF InHand
  <2>2. CASE ProcessStep \/ SessionStep \/ LaunchStep \/ UNCHANGED vars
    <3>1. UNCHANGED <<pc, todo, job, answers>>
      BY <2>2 DEF ProcessStep, SessionStep, LaunchStep, vars, server, chats, CommandEnds,
        ExitIsWritten, Vanish, HourPasses, StartTurn, EndTurn, DeleteSession, Launch, Record,
        RecordFails
    <3>2. ASSUME NEW j \in Jobs PROVE ~(Mark /\ job = j)
      BY <2>2 DEF Mark, ProcessStep, SessionStep, LaunchStep, vars, server, CommandEnds,
        ExitIsWritten, Vanish, HourPasses, StartTurn, EndTurn, DeleteSession, Launch, Record,
        RecordFails
    <3>3. pc \in {"draining", "marking"} => job \in Waiting'
      BY <1>0, <1>2, <3>2, WaitingKept DEF InHand, Waiting
    <3>4. QED
      BY <1>0, <2>1, <3>1, <3>3 DEF InHand
  <2>3. CASE \E j \in Jobs : FollowUp(j)
    <3>1. PICK j \in Jobs : FollowUp(j)
      BY <2>3
    <3>2. ~Mark /\ j \in Waiting
      BY <1>0, <3>1 DEF FollowUp, Mark, InHand
    <3>3. j \in Waiting'
      BY <1>2, <3>2, WaitingKept
    <3>4. QED
      BY <2>1, <3>1, <3>3 DEF InHand, FollowUp
  <2>4. CASE Answer \/ AnswerIsVoid
    <3>1. ~Mark /\ job \in Waiting
      BY <1>0, <2>4 DEF Answer, AnswerIsVoid, AddMessage, Mark, InHand
    <3>2. job \in Waiting'
      BY <1>2, <3>1, WaitingKept
    <3>3. answers'[job] # 0
      BY <1>0, <3>1, <2>4 DEF TypeOK, Answer, AnswerIsVoid, AddMessage, Waiting
    <3>4. QED
      BY <1>0, <2>1, <2>4, <3>2, <3>3 DEF InHand, Answer, AnswerIsVoid, AddMessage
  <2>5. CASE \/ \E j \in Jobs : Skip(j)
             \/ RefreshFails \/ RoundEnds \/ AnswerIsLost \/ Fails \/ Mark \/ ServerStep
    BY <2>1, <2>5 DEF InHand, Skip, RefreshFails, RoundEnds, AnswerIsLost, Fails, Mark,
      ServerStep, Crash, Restart, server, Fault
  <2>6. QED
    BY <1>2, <2>2, <2>3, <2>4, <2>5, Steps DEF PickStep, DrainStep
<1>3. QED
  BY <1>1, <1>2

\* The follow-up that is added is that of the job to be marked.
LEMMA OthersPaid ==
    ASSUME TypeOK, Paid, Answer \/ AnswerIsVoid, faults' \in Nat, faults <= faults'
    PROVE  Paid'
<1>1. ASSUME NEW j \in Jobs, j \notin followed', ~(pc' = "marking" /\ job' = j)
      PROVE  answers'[j] <= faults'
  <2>1. j # job /\ j \notin followed /\ pc = "draining"
    BY <1>1 DEF Answer, AnswerIsVoid, AddMessage, store
  <2>2. answers'[j] = answers[j] /\ answers[j] <= faults
    BY <2>1 DEF TypeOK, Paid, Answer, AnswerIsVoid, AddMessage
  <2>3. QED
    BY <2>2 DEF TypeOK
<1>2. QED
  BY <1>1 DEF Paid

LEMMA PaidKept == ASSUME IInv, [Next]_vars PROVE RepeatsArePaid' /\ Paid'
<1>0. TypeOK /\ RepeatsArePaid /\ Paid /\ InHand
  BY DEF IInv
<1>1. faults \in Nat /\ faults' \in Nat /\ faults <= faults'
  BY <1>0, Steps, ConstantsAssumption DEF TypeOK, ProcessStep, SessionStep, LaunchStep, PickStep,
    DrainStep, ServerStep, vars, Fault, CommandEnds, ExitIsWritten, Vanish, HourPasses,
    StartTurn, EndTurn, DeleteSession, Launch, Record, RecordFails, Refresh, RefreshFails, Skip,
    FollowUp, RoundEnds, Answer, AnswerIsVoid, AddMessage, AnswerIsLost, Fails, Mark, Crash, Restart
<1>2. CASE Answer
  <2>1. ASSUME NEW j \in Jobs PROVE answers'[j] <= faults' + (IF j \in told' THEN 1 ELSE 0)
    <3>1. CASE j = job
      BY <1>0, <1>1, <1>2, <3>1 DEF TypeOK, Paid, InHand, Waiting, Answer, AddMessage
    <3>2. CASE j # job
      BY <1>0, <1>1, <1>2, <3>2 DEF TypeOK, RepeatsArePaid, Answer, AddMessage
    <3>3. QED
      BY <3>1, <3>2
  <2>2. QED
    BY <2>1, <1>0, <1>1, <1>2, OthersPaid DEF RepeatsArePaid
<1>3. CASE AnswerIsVoid
  <2>0. faults' = faults + 1 /\ told' = told
    BY <1>3 DEF AnswerIsVoid, Fault
  <2>1. ASSUME NEW j \in Jobs PROVE answers'[j] <= faults' + (IF j \in told' THEN 1 ELSE 0)
    <3>1. CASE j = job
      BY <1>0, <1>1, <1>3, <2>0, <3>1
      DEF TypeOK, Paid, InHand, Waiting, AnswerIsVoid, AddMessage
    <3>2. CASE j # job
      BY <1>0, <1>1, <1>3, <2>0, <3>2 DEF TypeOK, RepeatsArePaid, AnswerIsVoid, AddMessage
    <3>3. QED
      BY <3>1, <3>2
  <2>2. QED
    BY <2>1, <1>0, <1>1, <1>3, OthersPaid DEF RepeatsArePaid
<1>4. CASE ~Answer /\ ~AnswerIsVoid
  <2>1. UNCHANGED <<answers, told>>
    BY <1>4, AnswersKept
  <2>2. RepeatsArePaid'
    BY <1>0, <1>1, <2>1 DEF TypeOK, RepeatsArePaid
  <2>3. ASSUME NEW j \in Jobs, j \notin followed', ~(pc' = "marking" /\ job' = j)
        PROVE  answers[j] <= faults'
    <3>1. j \notin followed
      BY <2>3, FollowedKept DEF Mark
    <3>2. CASE pc = "marking" /\ job = j
      <4>1. Fails \/ Crash
        BY <1>4, <2>3, <3>2, Steps DEF ProcessStep, SessionStep, LaunchStep, PickStep,
          DrainStep, ServerStep, vars, server, LoopIsFree, CommandEnds, ExitIsWritten, Vanish,
          HourPasses, StartTurn, EndTurn, DeleteSession, Launch, Record, RecordFails, Refresh,
          RefreshFails, Skip, FollowUp, RoundEnds, AnswerIsLost, Mark, Restart
      <4>2. faults' = faults + 1
        BY <4>1 DEF Fails, Crash, Fault
      <4>3. answers[j] <= 1 + faults
        BY <1>0, <1>1 DEF TypeOK, RepeatsArePaid
      <4>4. QED
        BY <1>0, <1>1, <4>2, <4>3 DEF TypeOK
    <3>3. CASE ~(pc = "marking" /\ job = j)
      BY <1>0, <1>1, <3>1, <3>3 DEF TypeOK, Paid
    <3>4. QED
      BY <3>2, <3>3
  <2>4. QED
    BY <2>1, <2>2, <2>3 DEF Paid
<1>5. QED
  BY <1>2, <1>3, <1>4

LEMMA Initially == ASSUME Init PROVE IInv
  BY ConstantsAssumption DEF Init, IInv, TypeOK, NotStarted, Codes, DoneMeansDone, Closed,
    Started, InHand, RepeatsArePaid, Paid, Waiting, Finished

THEOREM Invariance == Spec => []IInv
<1>1. IInv /\ [Next]_vars => IInv'
  BY StepTyped, NotStartedKept, DoneKept, ClosedKept, InHandKept, PaidKept DEF IInv
<1>2. QED
  BY <1>1, Initially, PTL DEF Spec

\* The state is well typed, whatever the processes, the users and the faults do.
THEOREM TypeCorrect == Spec => []TypeOK
<1>1. IInv => TypeOK
  BY DEF IInv
<1>2. QED
  BY <1>1, Invariance, PTL

\* A job that is reported as done ended with exit code 0: an exit file that is
\* still empty, a kill and a crash are never taken for success.
THEOREM SuccessIsReal == Spec => []DoneMeansDone
<1>1. IInv => DoneMeansDone
  BY DEF IInv
<1>2. QED
  BY <1>1, Invariance, PTL

\* A follow-up that is added again, and one that says nothing, was paid for by a
\* fault.
THEOREM RepeatsAreRare == Spec => []RepeatsArePaid
<1>1. IInv => RepeatsArePaid
  BY DEF IInv
<1>2. QED
  BY <1>1, Invariance, PTL

-----------------------------------------------------------------------------
(***************************************************************************)
(* The store delivers at least once.                                       *)
(***************************************************************************)
LEMMA RefreshMaps == ASSUME IInv, Refresh PROVE Delivery!Next
<1>0. TypeOK /\ Closed
  BY DEF IInv
<1>1. PICK S : S = {j \in Jobs : status[j] = "running" /\ status'[j] # "running"}
  OBVIOUS
<1>2. \A j \in S : State[j] = "open"
  BY <1>0, <1>1 DEF State, Closed, Finished
<1>3. ASSUME NEW j \in Jobs
      PROVE  State'[j] = IF j \in S THEN "ended" ELSE State[j]
  BY <1>0, <1>1, RefreshOfOne DEF State, Closed, Refresh, Finished
<1>4. State' = [j \in Jobs |-> IF j \in S THEN "ended" ELSE State[j]]
  BY <1>3 DEF State
<1>5. S \in SUBSET Jobs /\ UNCHANGED answers
  BY <1>1 DEF Refresh, chats
<1>6. QED
  BY <1>2, <1>4, <1>5 DEF Delivery!Next, Delivery!End

LEMMA RecordMaps == ASSUME IInv, Record PROVE Delivery!Next
<1>0. TypeOK /\ Closed /\ Started
  BY DEF IInv
<1>1. launching \in Jobs /\ status[launching] = "none" /\ launching \notin followed
  BY <1>0 DEF TypeOK, Closed, Started, Record, Finished
<1>2. State' = [State EXCEPT ![launching] = "open"]
  BY <1>0, <1>1 DEF TypeOK, State, Record
<1>3. State[launching] = "unknown" /\ UNCHANGED answers
  BY <1>1 DEF State, Record, chats
<1>4. QED
  BY <1>1, <1>2, <1>3 DEF Delivery!Next, Delivery!Open

LEMMA AnswerMaps == ASSUME IInv, Answer \/ AnswerIsVoid PROVE Delivery!Next
<1>1. job \in Jobs /\ State[job] = "ended"
  BY DEF IInv, InHand, Waiting, Answer, AnswerIsVoid, AddMessage, State, Finished
<1>2. UNCHANGED State
  BY DEF Answer, AnswerIsVoid, AddMessage, State, store
<1>3. QED
  BY <1>1, <1>2 DEF Answer, AnswerIsVoid, AddMessage, Delivery!Next, Delivery!Ask

LEMMA MarkMaps == ASSUME IInv, Mark PROVE Delivery!Next
<1>1. job \in Jobs /\ State[job] = "ended" /\ answers[job] # 0
  BY DEF IInv, InHand, Waiting, Mark, State, Finished
<1>2. State' = [State EXCEPT ![job] = "closed"] /\ UNCHANGED answers
  BY <1>1 DEF IInv, InHand, Waiting, Mark, State, Finished, chats
<1>3. QED
  BY <1>1, <1>2 DEF Delivery!Next, Delivery!Close

\* A recorded job is closed, and its record pruned, only after the agent was run
\* with its result to the end at least once; that this run said anything is not
\* promised.
THEOREM DeliveredAtLeastOnce == Spec => DeliverySpec
<1>1. Init => Delivery!Init
  BY DEF Init, Delivery!Init, State
<1>2. IInv /\ [Next]_vars => [Delivery!Next]_<<State, answers>>
  <2> SUFFICES ASSUME IInv, [Next]_vars
               PROVE  Delivery!Next \/ UNCHANGED <<State, answers>>
    OBVIOUS
  <2>1. CASE Refresh \/ Record \/ Answer \/ AnswerIsVoid \/ Mark
    BY <2>1, RefreshMaps, RecordMaps, AnswerMaps, MarkMaps
  <2>2. CASE ~Refresh /\ ~Record /\ ~Answer /\ ~AnswerIsVoid /\ ~Mark
    BY <2>2, RecordsKept, FollowedKept, AnswersKept DEF State
  <2>3. QED
    BY <2>1, <2>2
<1>3. QED
  BY <1>1, <1>2, Invariance, PTL DEF Spec, DeliverySpec, Delivery!Spec
=============================================================================
