--------------------------- MODULE ChatStreams_proofs ---------------------------
(***************************************************************************)
(* Theorems about ChatStreams, for any sessions and any number of turns    *)
(* and moves: types, recoveries that stay within their cap, entries that   *)
(* are not forgotten, and histories drawn for the session they are of.     *)
(***************************************************************************)
EXTENDS ChatStreams, TLAPS

(***************************************************************************)
(* Types.  The helpers first, then the actions that use them.              *)
(***************************************************************************)
NavTyped ==
    /\ current \in Sessions \cup {NoSession}
    /\ token \in 0..MaxMoves
    /\ loads \subseteq Load
    /\ drawn \in Sessions \cup {NoSession}
    /\ failed \in BOOLEAN
    /\ kept \in BOOLEAN
StreamTyped ==
    /\ isStreaming \in BOOLEAN
    /\ currentAbort \in 0..MaxTurns
    /\ currentHolder \in 0..MaxTurns
    /\ streamSession \in Sessions \cup {NoSession}
EntriesTyped ==
    /\ background \in [Sessions -> {"none", "running", "completed", "error"}]
    /\ polls \in [Sessions -> Nat]
RecoveryTyped ==
    /\ hideUserBubble \in BOOLEAN
    /\ autoNudges \in 0..AutoNudgeCap
    /\ recoveries \subseteq Turns
    /\ recovered \in Nat
    /\ robbed \in BOOLEAN
TurnsTyped ==
    /\ sent \in 0..MaxTurns
    /\ phase \in [Turns -> Phase]
    /\ session \in [Turns -> Sessions \cup {NoSession}]
    /\ aborted \subseteq Turns
    /\ stopped \subseteq Turns
    /\ run \in [Turns -> {"none", "running", "over", "cut"}]

LEMMA Parts ==
    TypeOK <=> NavTyped /\ StreamTyped /\ EntriesTyped /\ RecoveryTyped /\ TurnsTyped
  BY DEF TypeOK, NavTyped, StreamTyped, EntriesTyped, RecoveryTyped, TurnsTyped

LEMMA Assembled ==
    NavTyped' /\ StreamTyped' /\ EntriesTyped' /\ RecoveryTyped' /\ TurnsTyped' => TypeOK'
  BY DEF TypeOK, NavTyped, StreamTyped, EntriesTyped, RecoveryTyped, TurnsTyped

LEMMA NavKept == NavTyped /\ UNCHANGED navigation => NavTyped'
  BY DEF NavTyped, navigation
LEMMA EntriesKept == EntriesTyped /\ UNCHANGED entries => EntriesTyped'
  BY DEF EntriesTyped, entries
LEMMA RecoveryKept == RecoveryTyped /\ UNCHANGED recovery => RecoveryTyped'
  BY DEF RecoveryTyped, recovery, budget
LEMMA StreamKept ==
    StreamTyped /\ UNCHANGED <<shared, currentAbort>> => StreamTyped'
  BY DEF StreamTyped, shared
LEMMA TurnsKept == TurnsTyped /\ UNCHANGED <<turns, aborted, run>> => TurnsTyped'
  BY DEF TurnsTyped, turns

LEMMA AbortTyped ==
    ASSUME TypeOK, AbortCurrent
    PROVE  aborted' \subseteq Turns
  BY ConstantsAssumption DEF TypeOK, AbortCurrent, Turns

LEMMA StopRunTyped ==
    ASSUME TypeOK, NEW s, StopRun(s)
    PROVE  run' \in [Turns -> {"none", "running", "over", "cut"}]
  BY DEF TypeOK, StopRun

LEMMA StopTurnTyped ==
    ASSUME TypeOK, StopTurn
    PROVE  /\ NavTyped' /\ StreamTyped' /\ EntriesTyped' /\ TurnsTyped'
           /\ UNCHANGED budget
<1>1. aborted' \subseteq Turns /\ run' \in [Turns -> {"none", "running", "over", "cut"}]
  BY AbortTyped, StopRunTyped DEF StopTurn
<1>2. stopped' \subseteq Turns
  <2>1. currentHolder \in 0..MaxTurns /\ stopped \subseteq Turns
    BY DEF TypeOK
  <2>2. {currentHolder} \ {0} \subseteq Turns
    BY <2>1, ConstantsAssumption DEF Turns
  <2>3. QED
    BY <2>1, <2>2 DEF StopTurn
<1>3. TurnsTyped'
  BY <1>1, <1>2 DEF StopTurn, TypeOK, TurnsTyped
<1>4. currentHolder' \in 0..MaxTurns
  BY ConstantsAssumption DEF StopTurn
<1>5. StreamTyped'
  BY <1>4 DEF StopTurn, TypeOK, StreamTyped
<1>6. QED
  BY <1>3, <1>5, Parts, NavKept, EntriesKept DEF StopTurn

LEMMA StartTurnTyped ==
    ASSUME TypeOK, NEW files \in BOOLEAN, StartTurn(files)
    PROVE  /\ NavTyped' /\ StreamTyped' /\ EntriesTyped' /\ TurnsTyped'
           /\ hideUserBubble' = FALSE
           /\ autoNudges' \in 0..AutoNudgeCap
<1> DEFINE t == sent + 1
<1>1. t \in Turns /\ t \in 0..MaxTurns
  BY ConstantsAssumption DEF TypeOK, StartTurn, Turns
<1>2. autoNudges' \in 0..AutoNudgeCap
  BY ConstantsAssumption DEF TypeOK, StartTurn
<1>3. TurnsTyped'
  BY <1>1 DEF TypeOK, TurnsTyped, StartTurn, Goto, Phase
<1>4. currentHolder' \in 0..MaxTurns /\ currentAbort' \in 0..MaxTurns
  BY <1>1, ConstantsAssumption DEF TypeOK, StartTurn
<1>5. StreamTyped'
  BY <1>4 DEF TypeOK, StreamTyped, StartTurn
<1>6. QED
  BY <1>2, <1>3, <1>5, Parts, NavKept, EntriesKept DEF StartTurn

LEMMA PressTyped == ASSUME TypeOK, NEW files \in BOOLEAN, Press(files) PROVE TypeOK'
<1>1. /\ NavTyped' /\ StreamTyped' /\ EntriesTyped' /\ TurnsTyped'
      /\ autoNudges' \in 0..AutoNudgeCap
      /\ recovered' \in Nat /\ robbed' \in BOOLEAN
  <2>1. CASE isStreaming
    <3>1. StopTurn
      BY <2>1 DEF Press
    <3>2. UNCHANGED budget
      BY <3>1 DEF StopTurn
    <3>3. QED
      BY <3>1, <3>2, StopTurnTyped DEF TypeOK, budget
  <2>2. CASE ~isStreaming
    <3>1. StartTurn(files) /\ recovered' = 0 /\ robbed' = (recoveries # {})
      BY <2>2 DEF Press
    <3>2. QED
      BY <3>1, StartTurnTyped
  <2>3. QED
    BY <2>1, <2>2 DEF TypeOK
<1>2. hideUserBubble' \in BOOLEAN
  BY StartTurnTyped DEF Press, TypeOK
<1>3. RecoveryTyped'
  BY <1>1, <1>2 DEF RecoveryTyped, Press, TypeOK
<1>4. QED
  BY <1>1, <1>3, Assembled

LEMMA RecoveryTimerTyped == ASSUME TypeOK, NEW t \in Turns, RecoveryTimer(t) PROVE TypeOK'
<1>1. /\ NavTyped' /\ StreamTyped' /\ EntriesTyped' /\ TurnsTyped'
      /\ autoNudges' \in 0..AutoNudgeCap
      /\ recovered' \in Nat /\ robbed' \in BOOLEAN
  <2>1. CASE current # session[t]
    BY <2>1, Parts, NavKept, StreamKept, EntriesKept, TurnsKept DEF RecoveryTimer, TypeOK
  <2>2. CASE current = session[t]
    BY <2>2, StopTurnTyped, StartTurnTyped DEF RecoveryTimer, TypeOK, budget
  <2>3. QED
    BY <2>1, <2>2
<1>2. hideUserBubble' \in BOOLEAN
  BY StartTurnTyped DEF RecoveryTimer, TypeOK
<1>3. RecoveryTyped'
  BY <1>1, <1>2 DEF RecoveryTyped, RecoveryTimer, TypeOK
<1>4. QED
  BY <1>1, <1>3, Assembled

LEMMA ContinueTyped == ASSUME TypeOK, NEW t \in Turns, Continue(t) PROVE TypeOK'
<1>1. CASE isStreaming
  <2>1. RecoveryTyped'
    BY <1>1, StopTurnTyped DEF RecoveryTyped, Continue, TypeOK, budget
  <2>2. QED
    BY <1>1, <2>1, StopTurnTyped, Assembled DEF Continue
<1>2. CASE ~isStreaming
  <2>1. sent + 1 \in Turns /\ sent + 1 \in 0..MaxTurns
    BY <1>2, ConstantsAssumption DEF TypeOK, Continue, Turns
  <2>2. sent' = sent + 1
    BY <1>2 DEF Continue
  <2>3. TurnsTyped'
    BY <1>2, <2>1, <2>2 DEF TypeOK, TurnsTyped, Continue, Goto, Phase
  <2>4. currentHolder' \in 0..MaxTurns /\ currentAbort' \in 0..MaxTurns
    BY <1>2, <2>1, <2>2 DEF Continue
  <2>5. StreamTyped'
    BY <1>2, <2>4 DEF TypeOK, StreamTyped, Continue
  <2>6. RecoveryTyped'
    BY <1>2 DEF TypeOK, RecoveryTyped, Continue
  <2>7. QED
    BY <1>2, <2>3, <2>5, <2>6, Parts, NavKept, EntriesKept, Assembled DEF Continue
<1>3. QED
  BY <1>1, <1>2

\* The events of a turn that leave the page's navigation and its recovery alone.
LEMMA TurnEventTyped ==
    ASSUME TypeOK, NEW t \in Turns,
           \/ Prepared(t)
           \/ Respond(t)
           \/ RunEnds(t)
           \/ \E text \in BOOLEAN : Chunk(t, text)
           \/ Done(t)
    PROVE  TypeOK'
<1>1. NavTyped' /\ RecoveryTyped'
  BY Parts, NavKept, RecoveryKept DEF Prepared, Respond, RunEnds, Chunk, Done
<1>2. StreamTyped'
  <2>1. t \in 0..MaxTurns
    BY ConstantsAssumption DEF Turns
  <2>2. currentAbort' \in 0..MaxTurns /\ currentHolder' \in 0..MaxTurns
    BY <2>1 DEF TypeOK, Prepared, Respond, RunEnds, Chunk, Done, shared
  <2>3. UNCHANGED <<isStreaming, streamSession>>
    BY DEF Prepared, Respond, RunEnds, Chunk, Done, shared
  <2>4. QED
    BY <2>2, <2>3 DEF TypeOK, StreamTyped
<1>3. EntriesTyped'
  BY DEF TypeOK, EntriesTyped, Prepared, Respond, RunEnds, Chunk, Done, entries
<1>4. TurnsTyped'
  BY DEF TypeOK, TurnsTyped, Prepared, Respond, RunEnds, Chunk, Done, Goto, Phase, turns
<1>5. QED
  BY <1>1, <1>2, <1>3, <1>4, Assembled

LEMMA FinallyTyped ==
    ASSUME TypeOK, NEW t \in Turns, Finally(t)
    PROVE  /\ NavTyped' /\ TurnsTyped'
           /\ isStreaming' \in BOOLEAN
           /\ currentHolder' \in 0..MaxTurns
           /\ streamSession' \in Sessions \cup {NoSession}
           /\ polls' = polls
<1>1. NavTyped'
  BY Parts, NavKept DEF Finally
<1>2. TurnsTyped'
  BY DEF TypeOK, TurnsTyped, Finally, Goto, Phase
<1>3. isStreaming' \in BOOLEAN
  BY DEF Finally
<1>4. currentHolder' \in 0..MaxTurns
  BY ConstantsAssumption DEF TypeOK, Finally
<1>5. QED
  BY <1>1, <1>2, <1>3, <1>4 DEF TypeOK, Finally

LEMMA CatchTyped ==
    ASSUME TypeOK, NEW t \in Turns, NEW recoverable \in BOOLEAN, Catch(t, recoverable)
    PROVE  /\ RecoveryTyped'
           /\ currentAbort' \in 0..MaxTurns
           /\ background' \in [Sessions -> {"none", "running", "completed", "error"}]
<1>1. background' \in [Sessions -> {"none", "running", "completed", "error"}]
  BY DEF TypeOK, Catch
<1>2. currentAbort' \in 0..MaxTurns
  BY ConstantsAssumption DEF TypeOK, Catch
<1>3. TryAutoRecover(t) \/ UNCHANGED recovery
  BY DEF Catch
<1>4. RecoveryTyped'
  <2>1. CASE UNCHANGED recovery
    BY <2>1, Parts, RecoveryKept
  <2>2. CASE TryAutoRecover(t) /\ autoNudges < AutoNudgeCap
    BY <2>2, ConstantsAssumption DEF TypeOK, RecoveryTyped, TryAutoRecover
  <2>3. QED
    BY <1>3, <2>1, <2>2 DEF TryAutoRecover
<1>5. QED
  BY <1>1, <1>2, <1>4

\* The ways a turn ends.
LEMMA EndTyped ==
    ASSUME TypeOK, NEW t \in Turns,
           Close(t) \/ Rejects(t) \/ \E recoverable \in BOOLEAN : Drop(t, recoverable)
    PROVE  TypeOK'
<1>1. /\ RecoveryTyped'
      /\ currentAbort' \in 0..MaxTurns
      /\ background' \in [Sessions -> {"none", "running", "completed", "error"}]
  <2>1. CASE Close(t)
    BY <2>1, Parts, RecoveryKept DEF TypeOK, Close
  <2>2. CASE Rejects(t) \/ \E recoverable \in BOOLEAN : Drop(t, recoverable)
    BY <2>2, CatchTyped DEF Rejects, Drop
  <2>3. QED
    BY <2>1, <2>2
<1>2. Finally(t)
  BY DEF Close, Rejects, Drop
<1>3. StreamTyped' /\ EntriesTyped' /\ NavTyped' /\ TurnsTyped'
  BY <1>1, <1>2, FinallyTyped DEF StreamTyped, EntriesTyped, TypeOK
<1>4. QED
  BY <1>1, <1>3, Assembled

\* The aborts that do not come from the send button.
LEMMA AbortsTyped ==
    ASSUME TypeOK, TabRecovery \/ \E t \in Turns : Timeout(t) \/ Offline(t)
    PROVE  TypeOK'
<1>1. aborted' \subseteq Turns
  BY AbortTyped DEF TypeOK, TabRecovery, Timeout, Offline
<1>2. TurnsTyped'
  BY <1>1 DEF TypeOK, TurnsTyped, TabRecovery, Timeout, Offline, turns
<1>3. StreamTyped'
  BY DEF TypeOK, StreamTyped, TabRecovery, Timeout, Offline, shared
<1>4. QED
  BY <1>2, <1>3, Parts, NavKept, EntriesKept, RecoveryKept, Assembled
     DEF TabRecovery, Timeout, Offline

LEMMA DetachTyped ==
    ASSUME TypeOK, NEW from,
           NEW e \in [Sessions -> {"none", "running", "completed", "error"}],
           Detach(from, e)
    PROVE  /\ aborted' \subseteq Turns
           /\ background' \in [Sessions -> {"none", "running", "completed", "error"}]
           /\ currentAbort' \in 0..MaxTurns
           /\ currentHolder' \in 0..MaxTurns
           /\ isStreaming' \in BOOLEAN
<1>1. CASE isStreaming /\ currentAbort # 0
  <2>1. currentAbort' \in 0..MaxTurns /\ currentHolder' \in 0..MaxTurns
    BY <1>1, ConstantsAssumption DEF Detach
  <2>2. QED
    BY <1>1, <2>1 DEF TypeOK, Detach
<1>2. CASE ~(isStreaming /\ currentAbort # 0)
  BY <1>2, AbortTyped DEF TypeOK, Detach
<1>3. QED
  BY <1>1, <1>2

LEMMA SelectTyped ==
    ASSUME TypeOK, NEW s \in Sessions, polls' \in [Sessions -> Nat],
           NEW e \in [Sessions -> {"none", "running", "completed", "error"}],
           Select(s, e)
    PROVE  TypeOK'
<1>1. token + 1 \in 1..MaxMoves /\ token' = token + 1
  BY ConstantsAssumption DEF TypeOK, Select
<1>2. NavTyped'
  <2>1. [token |-> token', session |-> s, same |-> (s = current), at |-> "history"] \in Load
    BY <1>1 DEF Load
  <2>2. loads' \subseteq Load /\ token' \in 0..MaxMoves
    BY <1>1, <2>1 DEF TypeOK, Select
  <2>3. QED
    BY <2>2 DEF TypeOK, NavTyped, Select
<1>3. Detach(current, e) /\ UNCHANGED <<streamSession, recovery, turns, run>>
  BY DEF Select
<1>4. StreamTyped' /\ EntriesTyped'
  BY <1>3, DetachTyped DEF StreamTyped, EntriesTyped, TypeOK
<1>5. TurnsTyped'
  BY <1>3, DetachTyped DEF TypeOK, TurnsTyped, turns
<1>6. QED
  BY <1>2, <1>3, <1>4, <1>5, Parts, RecoveryKept, Assembled

LEMMA NewChatTyped == ASSUME TypeOK, NewChat PROVE TypeOK'
<1>1. token' \in 0..MaxMoves
  BY ConstantsAssumption DEF TypeOK, NewChat
<1>2. NavTyped'
  BY <1>1 DEF TypeOK, NavTyped, NewChat
<1>3. /\ Detach(current, background)
      /\ UNCHANGED <<streamSession, polls, recovery, turns, run>>
  BY DEF NewChat
<1>4. StreamTyped' /\ EntriesTyped'
  BY <1>3, DetachTyped DEF StreamTyped, EntriesTyped, TypeOK
<1>5. TurnsTyped'
  BY <1>3, DetachTyped DEF TypeOK, TurnsTyped, turns
<1>6. QED
  BY <1>2, <1>3, <1>4, <1>5, Parts, RecoveryKept, Assembled

LEMMA PollTyped == ASSUME TypeOK, NEW s \in Sessions, Poll(s) PROVE TypeOK'
<1>1. polls' \in [Sessions -> Nat]
  BY DEF TypeOK, Poll
<1>2. CASE current # s
  <2>1. EntriesTyped'
    BY <1>1, <1>2 DEF TypeOK, EntriesTyped, Poll
  <2>2. QED
    BY <1>2, <2>1, Parts, NavKept, StreamKept, RecoveryKept, TurnsKept, Assembled DEF Poll
<1>3. CASE current = s
  <2>1. [background EXCEPT ![s] = "none"] \in
           [Sessions -> {"none", "running", "completed", "error"}]
    BY DEF TypeOK
  <2>2. QED
    BY <1>1, <1>3, <2>1, SelectTyped DEF Poll
<1>4. QED
  BY <1>2, <1>3

LEMMA LoadTyped ==
    ASSUME TypeOK, NEW l \in loads,
             \/ \E empty \in BOOLEAN : HistoryArrives(l, empty)
             \/ LoadFails(l)
             \/ Draw(l)
    PROVE  TypeOK'
<1>1. l \in Load /\ [l EXCEPT !.at = "fade"] \in Load
  BY DEF TypeOK, Load
<1>2. loads' \subseteq Load
  BY <1>1 DEF TypeOK, HistoryArrives, LoadFails, Draw
<1>3. drawn' \in Sessions \cup {NoSession}
  BY <1>1 DEF TypeOK, HistoryArrives, LoadFails, Draw, Load
<1>4. failed' \in BOOLEAN /\ kept' \in BOOLEAN
  BY DEF TypeOK, HistoryArrives, LoadFails, Draw
<1>5. NavTyped'
  BY <1>2, <1>3, <1>4 DEF TypeOK, NavTyped, HistoryArrives, LoadFails, Draw
<1>6. EntriesTyped'
  BY <1>1 DEF TypeOK, EntriesTyped, HistoryArrives, LoadFails, Draw, CheckBackground, entries,
              Load
<1>7. QED
  BY <1>5, <1>6, Parts, StreamKept, RecoveryKept, TurnsKept, Assembled
     DEF HistoryArrives, LoadFails, Draw

LEMMA StepTyped == TypeOK /\ [Next]_vars => TypeOK'
<1> SUFFICES ASSUME TypeOK, [Next]_vars PROVE TypeOK'
  OBVIOUS
<1>1. ASSUME NEW s \in Sessions, SelectSession(s) PROVE TypeOK'
  BY <1>1, SelectTyped DEF SelectSession, TypeOK
<1>2. CASE UNCHANGED vars
  BY <1>2, Parts, NavKept, StreamKept, EntriesKept, RecoveryKept, TurnsKept, Assembled DEF vars
<1>3. QED
  BY <1>1, <1>2, PressTyped, AbortsTyped, NewChatTyped, ContinueTyped, TurnEventTyped,
     EndTyped, RecoveryTimerTyped, PollTyped, LoadTyped DEF Next

LEMMA InitTyped == Init => TypeOK
<1> SUFFICES ASSUME Init PROVE TypeOK
  OBVIOUS
<1>1. /\ token \in 0..MaxMoves
      /\ currentAbort \in 0..MaxTurns
      /\ currentHolder \in 0..MaxTurns
      /\ autoNudges \in 0..AutoNudgeCap
      /\ sent \in 0..MaxTurns
  BY ConstantsAssumption DEF Init
<1>2. polls \in [Sessions -> Nat]
  BY DEF Init
<1>3. QED
  BY <1>1, <1>2 DEF Init, TypeOK, Phase

\* Every variable of the page has a value of its kind.
THEOREM TypeCorrect == Spec => []TypeOK
  BY InitTyped, StepTyped, PTL DEF Spec

-----------------------------------------------------------------------------
(***************************************************************************)
(* Recoveries.  As long as none has lost its flag, a pending one still has *)
(* it, and every recovery is paid from the budget.                         *)
(***************************************************************************)
BudgetInv ==
    ~robbed => /\ recovered <= autoNudges
               /\ recoveries # {} => hideUserBubble

LEMMA CatchBudget ==
    ASSUME TypeOK, BudgetInv, NEW t \in Turns, NEW recoverable \in BOOLEAN,
           Catch(t, recoverable)
    PROVE  BudgetInv'
<1>1. TryAutoRecover(t) \/ UNCHANGED recovery
  BY DEF Catch
<1>2. CASE UNCHANGED recovery
  BY <1>2 DEF BudgetInv, recovery, budget
<1>3. CASE TryAutoRecover(t) /\ autoNudges < AutoNudgeCap
  BY <1>3, ConstantsAssumption DEF TypeOK, BudgetInv, TryAutoRecover
<1>4. QED
  BY <1>1, <1>2, <1>3 DEF TryAutoRecover

\* A press that begins a turn takes the flag.
LEMMA PressBudget ==
    ASSUME TypeOK, BudgetInv,
           \/ \E files \in BOOLEAN : Press(files)
           \/ \E t \in Turns : Continue(t) \/ RecoveryTimer(t)
    PROVE  BudgetInv'
<1>1. ASSUME NEW files \in BOOLEAN, Press(files) PROVE BudgetInv'
  <2>1. CASE isStreaming
    BY <1>1, <2>1 DEF Press, StopTurn, BudgetInv, budget
  <2>2. CASE ~isStreaming
    BY <1>1, <2>2, ConstantsAssumption DEF Press, StartTurn, BudgetInv, TypeOK
  <2>3. QED
    BY <2>1, <2>2
<1>2. ASSUME NEW t \in Turns, Continue(t) PROVE BudgetInv'
  <2>1. CASE isStreaming
    BY <1>2, <2>1 DEF Continue, StopTurn, BudgetInv, budget
  <2>2. CASE ~isStreaming
    BY <1>2, <2>2 DEF Continue, BudgetInv
  <2>3. QED
    BY <2>1, <2>2
<1>3. ASSUME NEW t \in Turns, RecoveryTimer(t) PROVE BudgetInv'
  <2>1. t \in recoveries /\ recoveries' = recoveries \ {t}
    BY <1>3 DEF RecoveryTimer
  <2>2. CASE current # session[t]
    BY <1>3, <2>1, <2>2 DEF RecoveryTimer, BudgetInv
  <2>3. CASE current = session[t] /\ isStreaming
    BY <1>3, <2>1, <2>3 DEF RecoveryTimer, StopTurn, BudgetInv, budget
  <2>4. CASE current = session[t] /\ ~isStreaming
    <3>1. /\ robbed' = (robbed \/ recoveries' # {})
          /\ recovered' = recovered
          /\ autoNudges' = IF hideUserBubble THEN autoNudges ELSE 0
      BY <1>3, <2>4 DEF RecoveryTimer, StartTurn
    <3>2. QED
      BY <2>1, <3>1 DEF BudgetInv
  <2>5. QED
    BY <2>2, <2>3, <2>4
<1>4. QED
  BY <1>1, <1>2, <1>3

\* For a message of the user there are no more recoveries than the cap, unless
\* another press took the flag of a pending one.
THEOREM RecoveriesStayCapped == Spec => []RecoveriesAreCapped
<1>1. Init => BudgetInv
  BY DEF Init, BudgetInv
<1>2. TypeOK /\ BudgetInv /\ [Next]_vars => BudgetInv'
  <2> SUFFICES ASSUME TypeOK, BudgetInv, [Next]_vars PROVE BudgetInv'
    OBVIOUS
  <2>1. CASE UNCHANGED recovery
    BY <2>1 DEF BudgetInv, recovery, budget
  <2>2. ASSUME NEW s \in Sessions, SelectSession(s) \/ Poll(s) PROVE UNCHANGED recovery
    BY <2>2 DEF SelectSession, Poll, Select
  <2>3. ASSUME NEW l \in loads,
               \/ \E empty \in BOOLEAN : HistoryArrives(l, empty)
               \/ LoadFails(l)
               \/ Draw(l)
        PROVE  UNCHANGED recovery
    BY <2>3 DEF HistoryArrives, LoadFails, Draw
  <2>4. ASSUME NEW t \in Turns,
               \/ Prepared(t)
               \/ Respond(t)
               \/ RunEnds(t)
               \/ \E text \in BOOLEAN : Chunk(t, text)
               \/ Done(t)
               \/ Close(t)
               \/ Timeout(t)
               \/ Offline(t)
        PROVE  UNCHANGED recovery
    BY <2>4 DEF Prepared, Respond, RunEnds, Chunk, Done, Close, Timeout, Offline
  <2>5. TabRecovery \/ NewChat \/ UNCHANGED vars => UNCHANGED recovery
    BY DEF TabRecovery, NewChat, vars
  <2>6. ASSUME NEW t \in Turns,
               Rejects(t) \/ \E recoverable \in BOOLEAN : Drop(t, recoverable)
        PROVE  BudgetInv'
    BY <2>6, CatchBudget DEF Rejects, Drop
  <2>7. QED
    BY <2>1, <2>2, <2>3, <2>4, <2>5, <2>6, PressBudget DEF Next
<1>3. TypeOK /\ BudgetInv => RecoveriesAreCapped
  BY ConstantsAssumption DEF TypeOK, BudgetInv, RecoveriesAreCapped
<1>4. QED
  BY <1>1, <1>2, <1>3, TypeCorrect, PTL DEF Spec

-----------------------------------------------------------------------------
(***************************************************************************)
(* Entries and histories.                                                  *)
(***************************************************************************)
\* A step of a turn: it opens no entry for the session on the screen.
LEMMA TurnKeepsWatch ==
    ASSUME TypeOK, EntryIsWatched, UNCHANGED <<navigation, polls>>,
           current \in Sessions /\ background[current] = "none" =>
              background'[current] = "none"
    PROVE  EntryIsWatched'
  BY DEF EntryIsWatched, Overtaken, navigation

LEMMA TurnStep ==
    ASSUME TypeOK,
           \/ \E files \in BOOLEAN : Press(files)
           \/ TabRecovery
           \/ \E t \in Turns :
                 \/ Continue(t)
                 \/ Prepared(t)
                 \/ Respond(t)
                 \/ RunEnds(t)
                 \/ \E text \in BOOLEAN : Chunk(t, text)
                 \/ Done(t)
                 \/ Close(t)
                 \/ Rejects(t)
                 \/ \E recoverable \in BOOLEAN : Drop(t, recoverable)
                 \/ RecoveryTimer(t)
                 \/ Timeout(t)
                 \/ Offline(t)
    PROVE  /\ UNCHANGED <<navigation, polls>>
           /\ current \in Sessions /\ background[current] = "none" =>
                 background'[current] = "none"
<1>1. ASSUME \/ \E files \in BOOLEAN : Press(files)
             \/ TabRecovery
             \/ \E t \in Turns :
                   \/ Continue(t)
                   \/ Prepared(t)
                   \/ Respond(t)
                   \/ RunEnds(t)
                   \/ RecoveryTimer(t)
                   \/ Timeout(t)
                   \/ Offline(t)
      PROVE  UNCHANGED <<navigation, entries>>
  BY <1>1 DEF Press, StopTurn, StartTurn, TabRecovery, Continue, Prepared, Respond, RunEnds,
              RecoveryTimer, Timeout, Offline
<1>2. ASSUME NEW t \in Turns,
             \/ \E text \in BOOLEAN : Chunk(t, text)
             \/ Done(t)
             \/ Close(t)
             \/ Rejects(t)
             \/ \E recoverable \in BOOLEAN : Drop(t, recoverable)
      PROVE  UNCHANGED <<navigation, polls>>
  BY <1>2 DEF Chunk, Done, Close, Rejects, Drop, Finally
<1>3. ASSUME NEW t \in Turns,
             \/ \E text \in BOOLEAN : Chunk(t, text)
             \/ Done(t)
             \/ Close(t)
             \/ Rejects(t)
             \/ \E recoverable \in BOOLEAN : Drop(t, recoverable),
             current \in Sessions, background[current] = "none"
      PROVE  background'[current] = "none"
  BY <1>3 DEF Chunk, Done, Close, Rejects, Drop, Catch, InBackground, Elsewhere, TypeOK
<1>4. QED
  BY <1>1, <1>2, <1>3 DEF entries

LEMMA SelectWatched ==
    ASSUME NEW s \in Sessions, NEW e, Select(s, e)
    PROVE  EntryIsWatched'
<1>1. PICK l : l = [token |-> token', session |-> s, same |-> (s = current), at |-> "history"]
  OBVIOUS
<1>2. l \in loads' /\ l.token = token' /\ l.session = current'
  BY <1>1 DEF Select
<1>3. QED
  BY <1>2 DEF EntryIsWatched, Overtaken

LEMMA LoadWatched ==
    ASSUME TypeOK, EntryIsWatched, NEW l \in loads,
           \/ \E empty \in BOOLEAN : HistoryArrives(l, empty)
           \/ LoadFails(l)
           \/ Draw(l)
    PROVE  EntryIsWatched'
<1>1. UNCHANGED <<current, token>>
  BY DEF HistoryArrives, LoadFails, Draw
<1>2. CASE Overtaken(l)
  <2>1. UNCHANGED <<failed, kept, background, polls>> /\ loads' = loads \ {l}
    BY <1>2 DEF HistoryArrives, LoadFails, Draw, entries, TypeOK
  <2>2. QED
    BY <1>1, <1>2, <2>1 DEF EntryIsWatched, Overtaken
<1>3. CASE ~Overtaken(l) /\ \E empty \in BOOLEAN : HistoryArrives(l, empty)
  <2> SUFFICES ASSUME ~kept' PROVE EntryIsWatched'
    BY DEF EntryIsWatched
  <2>1. PICK m : m = [l EXCEPT !.at = "fade"]
    OBVIOUS
  <2>2. m \in loads' /\ m.token = l.token /\ m.session = l.session
    BY <1>3, <2>1 DEF HistoryArrives, TypeOK, Load
  <2>3. QED
    BY <1>1, <1>3, <2>2 DEF EntryIsWatched, Overtaken
<1>4. CASE ~Overtaken(l) /\ LoadFails(l)
  BY <1>4 DEF LoadFails, EntryIsWatched
<1>5. CASE ~Overtaken(l) /\ Draw(l)
  <2>1. l.session = current
    BY <1>5 DEF Overtaken
  <2>2. background'[current] = "none" \/ polls'[current] > 0 \/ current \notin Sessions
    BY <1>5, <2>1 DEF Draw, CheckBackground, TypeOK
  <2>3. QED
    BY <1>1, <2>2 DEF EntryIsWatched
<1>6. QED
  BY <1>2, <1>3, <1>4, <1>5

LEMMA PollWatched ==
    ASSUME TypeOK, EntryIsWatched, NEW s \in Sessions, Poll(s)
    PROVE  EntryIsWatched'
<1>1. CASE current = s
  BY <1>1, SelectWatched DEF Poll
<1>2. CASE current # s
  <2>1. UNCHANGED <<current, token, loads, failed, kept, background>>
    BY <1>2 DEF Poll, navigation
  <2>2. current \in Sessions => polls'[current] = polls[current]
    BY <1>2 DEF Poll, TypeOK
  <2>3. QED
    BY <2>1, <2>2 DEF EntryIsWatched, Overtaken
<1>3. QED
  BY <1>1, <1>2

\* An entry of the session on the screen is not forgotten: somebody is still to
\* look at it, or the load failed, or the session was selected again with its
\* history still empty.
THEOREM EntriesAreWatched == Spec => []EntryIsWatched
<1>1. Init => EntryIsWatched
  BY DEF Init, EntryIsWatched
<1>2. TypeOK /\ EntryIsWatched /\ [Next]_vars => EntryIsWatched'
  <2> SUFFICES ASSUME TypeOK, EntryIsWatched, [Next]_vars PROVE EntryIsWatched'
    OBVIOUS
  <2>1. ASSUME NEW s \in Sessions, SelectSession(s) PROVE EntryIsWatched'
    BY <2>1, SelectWatched DEF SelectSession
  <2>2. CASE NewChat
    BY <2>2, ConstantsAssumption DEF NewChat, EntryIsWatched
  <2>3. CASE UNCHANGED vars
    BY <2>3 DEF vars, navigation, entries, EntryIsWatched, Overtaken
  <2>4. QED
    BY <2>1, <2>2, <2>3, TurnStep, TurnKeepsWatch, LoadWatched, PollWatched DEF Next
<1>3. QED
  BY <1>1, <1>2, TypeCorrect, PTL DEF Spec

\* A history that is drawn is that of the session on the screen.
THEOREM HistoriesAreCurrent == Spec => DrawnIsCurrent
<1>1. TypeOK /\ [Next]_vars => [drawn' # drawn => drawn' = current']_vars
  <2> SUFFICES ASSUME TypeOK, [Next]_vars, drawn' # drawn PROVE drawn' = current'
    OBVIOUS
  <2>1. ASSUME NEW l \in loads,
             \/ \E empty \in BOOLEAN : HistoryArrives(l, empty)
             \/ LoadFails(l)
             \/ Draw(l)
        PROVE  drawn' = current'
    BY <2>1 DEF HistoryArrives, LoadFails, Draw, Overtaken
  <2>2. CASE NewChat
    BY <2>2 DEF NewChat
  <2>3. ASSUME NEW s \in Sessions, SelectSession(s) \/ Poll(s) PROVE drawn' = drawn
    BY <2>3 DEF SelectSession, Poll, Select, navigation
  <2>4. CASE UNCHANGED navigation
    BY <2>4 DEF navigation
  <2>5. QED
    BY <2>1, <2>2, <2>3, <2>4, TurnStep DEF Next, vars
<1>2. QED
  BY <1>1, TypeCorrect, PTL DEF Spec, DrawnIsCurrent
================================================================================
