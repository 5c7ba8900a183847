------------------------------ MODULE ChatStreams ------------------------------
(***************************************************************************)
(* The streaming turns of the full chat page (static/js/chat.js) and the   *)
(* navigation between sessions (static/js/sessions.js) that moves them to  *)
(* the background and back.                                                *)
(*                                                                         *)
(* One JavaScript thread: an action is the code from one event to the next *)
(* await.  An abort rejects the read of its turn in a microtask, so the    *)
(* catch and finally blocks of an aborted turn come before anything else.  *)
(* The turn's function keeps its own session (streamSessionId); all other  *)
(* variables of the page are shared by the turns that overlap.             *)
(***************************************************************************)
EXTENDS Naturals, FiniteSets

CONSTANTS
    Sessions,
    NoSession,      \* currentSessionId = null, the welcome screen
    AutoNudgeCap,   \* _AUTO_NUDGE_CAP
    MaxTurns,       \* bound: turns, the automatic ones included
    MaxMoves        \* bound: calls of selectSession and new chats

ASSUME ConstantsAssumption ==
    /\ NoSession \notin Sessions
    /\ AutoNudgeCap \in Nat
    /\ MaxTurns \in Nat \ {0}
    /\ MaxMoves \in Nat

VARIABLES
    \* sessions.js
    current,         \* currentSessionId
    token,           \* _sessionNavToken
    loads,           \* calls of selectSession that are not over
    drawn,           \* the session whose history fills #chat-history
    failed,          \* the load of the current session failed, the user was told
    kept,            \* history: the load of the current session left the page as it was
    \* chat.js
    isStreaming,
    currentAbort,    \* the turn it belongs to, 0 for null
    currentHolder,   \* the turn whose bubble it is, 0 for null
    streamSession,   \* _streamSessionId
    background,      \* _backgroundStreams: the status of a session's entry
    polls,           \* running intervals of checkBackgroundStream
    hideUserBubble,
    autoNudges,
    recoveries,      \* the turns whose recovery timer is running
    recovered,       \* history: recoveries since the user last sent a message
    robbed,          \* history: one of them lost its flag to another press
    \* the turns
    sent,
    phase,
    session,         \* streamSessionId of each turn
    aborted,         \* the turns whose controller has fired
    stopped,         \* the turns whose bubble offers to continue
    run              \* the run of each turn on the server

navigation == <<current, token, loads, drawn, failed, kept>>
shared == <<isStreaming, currentHolder, streamSession>>
entries == <<background, polls>>
budget == <<autoNudges, recovered, robbed>>
recovery == <<hideUserBubble, budget, recoveries>>
turns == <<sent, phase, session, stopped>>
vars == <<navigation, shared, currentAbort, entries, recovery, turns, aborted, run>>

Turns == 1..MaxTurns
Phase == {"none", "preparing", "asking", "reading", "flowing", "finished", "over"}
Load == [token : 1..MaxMoves, session : Sessions, same : BOOLEAN, at : {"history", "fade"}]
Asked(t) == phase[t] \in {"asking", "reading", "flowing", "finished"}
Live(t) == Asked(t) \/ phase[t] = "preparing"

TypeOK ==
    /\ current \in Sessions \cup {NoSession}
    /\ token \in 0..MaxMoves
    /\ loads \subseteq Load
    /\ drawn \in Sessions \cup {NoSession}
    /\ failed \in BOOLEAN
    /\ kept \in BOOLEAN
    /\ isStreaming \in BOOLEAN
    /\ currentAbort \in 0..MaxTurns
    /\ currentHolder \in 0..MaxTurns
    /\ streamSession \in Sessions \cup {NoSession}
    /\ background \in [Sessions -> {"none", "running", "completed", "error"}]
    /\ polls \in [Sessions -> Nat]
    /\ hideUserBubble \in BOOLEAN
    /\ autoNudges \in 0..AutoNudgeCap
    /\ recoveries \subseteq Turns
    /\ recovered \in Nat
    /\ robbed \in BOOLEAN
    /\ sent \in 0..MaxTurns
    /\ phase \in [Turns -> Phase]
    /\ session \in [Turns -> Sessions \cup {NoSession}]
    /\ aborted \subseteq Turns
    /\ stopped \subseteq Turns
    /\ run \in [Turns -> {"none", "running", "over", "cut"}]

Init ==
    /\ current \in Sessions
    /\ token = 0
    /\ loads = {}
    /\ drawn = current
    /\ failed = FALSE
    /\ kept = FALSE
    /\ isStreaming = FALSE
    /\ currentAbort = 0
    /\ currentHolder = 0
    /\ streamSession = NoSession
    /\ background = [s \in Sessions |-> "none"]
    /\ polls = [s \in Sessions |-> 0]
    /\ hideUserBubble = FALSE
    /\ autoNudges = 0
    /\ recoveries = {}
    /\ recovered = 0
    /\ robbed = FALSE
    /\ sent = 0
    /\ phase = [t \in Turns |-> "none"]
    /\ session = [t \in Turns |-> NoSession]
    /\ aborted = {}
    /\ stopped = {}
    /\ run = [t \in Turns |-> "none"]

Goto(t, p) == phase' = [phase EXCEPT ![t] = p]

\* An aborted fetch or read rejects before the next event.
Rejecting(t) == t \in aborted /\ Asked(t)
Settled == \A t \in Turns : ~Rejecting(t)

\* _isBg; _isBgFinal, _isBgCatch and _isBgFinally
Elsewhere(t) == current # session[t]
InBackground(t) == Elsewhere(t) \/ background[session[t]] # "none"

-----------------------------------------------------------------------------
(***************************************************************************)
(* handleChatSubmit: the send button.                                      *)
(***************************************************************************)
\* A new turn up to its first await.  Without files and without an open
\* document the request leaves at once.  A message shown as the user's own
\* starts a new budget.
StartTurn(files) ==
    LET t == sent + 1
    IN  /\ sent < MaxTurns
        /\ current # NoSession
        /\ sent' = t
        /\ session' = [session EXCEPT ![t] = current]
        /\ isStreaming' = TRUE
        /\ streamSession' = current
        /\ hideUserBubble' = FALSE
        /\ autoNudges' = IF hideUserBubble THEN autoNudges ELSE 0
        /\ Goto(t, IF files THEN "preparing" ELSE "asking")
        /\ currentHolder' = IF files THEN 0 ELSE t
        /\ currentAbort' = IF files THEN currentAbort ELSE t
        /\ UNCHANGED <<navigation, entries, stopped, aborted, run>>

\* abortCurrentRequest
AbortCurrent == aborted' = aborted \cup ({currentAbort} \ {0})

\* /api/chat/stop: the run of a session that is on the server.
StopRun(s) ==
    run' = [t \in Turns |-> IF session[t] = s /\ run[t] = "running" THEN "cut" ELSE run[t]]

\* The same button while isStreaming.
StopTurn ==
    /\ AbortCurrent
    /\ StopRun(IF streamSession # NoSession THEN streamSession ELSE current)
    /\ stopped' = stopped \cup {t \in {currentHolder} \ {0} : phase[t] \in {"flowing", "finished"}}
    /\ isStreaming' = FALSE
    /\ currentHolder' = 0
    /\ UNCHANGED <<navigation, streamSession, currentAbort, entries, budget, sent, phase,
                   session>>

\* The user presses it.
Press(files) ==
    /\ Settled
    /\ IF isStreaming
       THEN StopTurn /\ UNCHANGED hideUserBubble
       ELSE StartTurn(files) /\ recovered' = 0 /\ robbed' = (recoveries # {})
    /\ UNCHANGED recoveries

\* The continue button of a stopped answer sets _hideUserBubble and presses the
\* send button.
Continue(t) ==
    /\ Settled
    /\ t \in stopped
    /\ session[t] = current
    /\ IF isStreaming
       THEN StopTurn /\ hideUserBubble' = TRUE
       ELSE /\ sent < MaxTurns
            /\ sent' = sent + 1
            /\ session' = [session EXCEPT ![sent'] = current]
            /\ Goto(sent', "asking")
            /\ isStreaming' = TRUE
            /\ streamSession' = current
            /\ currentHolder' = sent'
            /\ currentAbort' = sent'
            /\ stopped' = stopped \ {t}
            /\ hideUserBubble' = FALSE
            /\ robbed' = (robbed \/ recoveries # {})
            /\ UNCHANGED <<navigation, entries, autoNudges, recovered, aborted, run>>
    /\ UNCHANGED recoveries

\* The uploads and the save of the open document are over.
Prepared(t) ==
    /\ Settled
    /\ phase[t] = "preparing"
    /\ Goto(t, "asking")
    /\ currentAbort' = t
    /\ currentHolder' = t
    /\ UNCHANGED <<navigation, isStreaming, streamSession, entries, recovery, sent,
                   session, stopped, aborted, run>>

-----------------------------------------------------------------------------
(***************************************************************************)
(* The stream of a turn.                                                   *)
(***************************************************************************)
\* The headers arrive.  A run that the session still has is replaced.
Respond(t) ==
    /\ Settled
    /\ phase[t] = "asking"
    /\ Goto(t, "reading")
    /\ run' = [u \in Turns |->
                  IF u = t THEN "running"
                  ELSE IF session[u] = session[t] /\ run[u] = "running" THEN "cut"
                  ELSE run[u]]
    /\ UNCHANGED <<navigation, shared, currentAbort, entries, recovery, sent, session,
                   stopped, aborted>>

\* The run comes to its end on the server.
RunEnds(t) ==
    /\ Settled
    /\ run[t] = "running"
    /\ run' = [run EXCEPT ![t] = "over"]
    /\ UNCHANGED <<navigation, shared, currentAbort, entries, recovery, turns, aborted>>

\* A line of data, a piece of text or not.  The first one that finds the user
\* elsewhere opens the entry of the session.
Chunk(t, text) ==
    /\ Settled
    /\ phase[t] \in {"reading", "flowing"}
    /\ Goto(t, IF text THEN "flowing" ELSE phase[t])
    /\ background' = IF Elsewhere(t) /\ background[session[t]] = "none"
                     THEN [background EXCEPT ![session[t]] = "running"]
                     ELSE background
    /\ UNCHANGED <<navigation, shared, currentAbort, polls, recovery, sent, session,
                   stopped, aborted, run>>

\* [DONE]: an entry that exists is completed, also when the user is back.
Done(t) ==
    /\ Settled
    /\ phase[t] \in {"reading", "flowing"}
    /\ run[t] = "over"
    /\ Goto(t, "finished")
    /\ background' = IF InBackground(t)
                     THEN [background EXCEPT ![session[t]] = "completed"]
                     ELSE background
    /\ UNCHANGED <<navigation, shared, currentAbort, polls, recovery, sent, session,
                   stopped, aborted, run>>

\* The finally block: the page is reset unless the turn is in the background.
Finally(t) ==
    /\ Goto(t, "over")
    /\ isStreaming' = (isStreaming /\ InBackground(t))
    /\ currentHolder' = IF InBackground(t) THEN currentHolder ELSE 0
    /\ UNCHANGED <<navigation, streamSession, polls, sent, session, stopped, aborted,
                   run>>

\* The stream is closed after [DONE], or the server refused the request.
\* The abort controller is not cleared.
Close(t) ==
    /\ Settled
    /\ phase[t] \in {"finished", "asking"}
    /\ Finally(t)
    /\ UNCHANGED <<currentAbort, background, recovery>>

\* Mutant: the recovery presses the button as the user would.
TryRecoverInTheOpen(t) ==
    IF autoNudges < AutoNudgeCap
    THEN /\ autoNudges' = autoNudges + 1
         /\ recovered' = recovered + 1
         /\ recoveries' = recoveries \cup {t}
         /\ UNCHANGED <<hideUserBubble, robbed>>
    ELSE UNCHANGED recovery

\* _tryAutoRecover
TryAutoRecover(t) ==
    IF autoNudges < AutoNudgeCap
    THEN /\ autoNudges' = autoNudges + 1
         /\ recovered' = recovered + 1
         /\ hideUserBubble' = TRUE
         /\ recoveries' = recoveries \cup {t}
         /\ UNCHANGED robbed
    ELSE UNCHANGED recovery

\* The catch block, which asks the page's controller and not the turn's own
\* whether this was an abort.  An error that a retry would meet again is shown:
\* _isRecoverableStreamErr.
Catch(t, recoverable) ==
    IF InBackground(t)
    THEN /\ background' = [background EXCEPT ![session[t]] =
                              IF @ = "running" THEN "error" ELSE @]
         /\ UNCHANGED <<currentAbort, recovery>>
    ELSE /\ UNCHANGED background
         /\ IF currentAbort \in aborted
            THEN currentAbort' = 0 /\ UNCHANGED recovery
            ELSE /\ UNCHANGED currentAbort
                 /\ IF recoverable THEN TryAutoRecover(t)
                    ELSE UNCHANGED recovery

\* The message of an abort passes for that of a lost connection.
Rejects(t) ==
    /\ Rejecting(t)
    /\ Catch(t, TRUE)
    /\ Finally(t)

\* The connection is lost, the stream is closed before [DONE], or a line of it is
\* an error.
Drop(t, recoverable) ==
    /\ Settled
    /\ Asked(t)
    /\ Catch(t, recoverable)
    /\ Finally(t)

\* The timer of _tryAutoRecover.
RecoveryTimer(t) ==
    /\ Settled
    /\ t \in recoveries
    /\ recoveries' = recoveries \ {t}
    /\ IF current # session[t]
       THEN /\ hideUserBubble' = FALSE
            /\ robbed' = (robbed \/ recoveries' # {})
            /\ UNCHANGED <<navigation, shared, currentAbort, entries, autoNudges, recovered,
                           turns, aborted, run>>
       ELSE IF isStreaming
            THEN StopTurn /\ UNCHANGED hideUserBubble
            ELSE /\ StartTurn(FALSE)
                 /\ robbed' = (robbed \/ recoveries' # {})
                 /\ UNCHANGED recovered

\* The turn's own timeout; it is cleared when the headers arrive.
Timeout(t) ==
    /\ Settled
    /\ phase[t] = "asking"
    /\ aborted' = aborted \cup {t}
    /\ UNCHANGED <<navigation, shared, currentAbort, entries, recovery, turns, run>>

\* The probe of a turn without an answer found its endpoint offline: the
\* countdown ends in an abort of the page's controller.
Offline(t) ==
    /\ Settled
    /\ phase[t] \in {"asking", "reading"}
    /\ currentAbort # 0
    /\ AbortCurrent
    /\ UNCHANGED <<navigation, shared, currentAbort, entries, recovery, turns, run>>

\* The tab is visible again and the reader is silent.
TabRecovery ==
    /\ Settled
    /\ isStreaming
    /\ AbortCurrent
    /\ isStreaming' = FALSE
    /\ UNCHANGED <<navigation, currentHolder, streamSession, currentAbort, entries,
                   recovery, turns, run>>

-----------------------------------------------------------------------------
(***************************************************************************)
(* Navigation: selectSession, a new chat, and the way back.                *)
(***************************************************************************)
\* detachCurrentStream: an entry for a welcome screen is never looked up.
Detach(from, entry) ==
    IF isStreaming /\ currentAbort # 0
    THEN /\ background' = [s \in Sessions |-> IF s = from THEN "running" ELSE entry[s]]
         /\ currentAbort' = 0
         /\ isStreaming' = FALSE
         /\ currentHolder' = 0
         /\ UNCHANGED aborted
    ELSE /\ AbortCurrent
         /\ background' = entry
         /\ UNCHANGED <<currentAbort, isStreaming, currentHolder>>

\* selectSession up to the request of the history.  The import of the presets is
\* of a module the page has loaded: no event comes between.
Select(s, entry) ==
    /\ token < MaxMoves
    /\ token' = token + 1
    /\ current' = s
    /\ failed' = FALSE
    /\ kept' = FALSE
    /\ Detach(current, entry)
    /\ loads' = loads \cup
          {[token |-> token', session |-> s, same |-> (s = current), at |-> "history"]}
    /\ UNCHANGED <<drawn, streamSession, recovery, turns, run>>

SelectSession(s) ==
    /\ Settled
    /\ Select(s, background)
    /\ UNCHANGED polls

Overtaken(l) == l.token # token \/ l.session # current

\* wouldWipe: an empty history does not replace the bubbles of a session that
\* was selected again.  A history is empty before the first message is saved,
\* and always in a private chat.
WouldWipe(l, empty) ==
    /\ empty
    /\ l.same
    /\ drawn # NoSession \/ \E t \in Turns : session[t] = current

\* The history arrives.  A call that was overtaken returns; so does one that
\* keeps the bubbles, without a look at the entry of the session.
HistoryArrives(l, empty) ==
    /\ Settled
    /\ l.at = "history"
    /\ IF Overtaken(l) THEN loads' = loads \ {l} /\ UNCHANGED kept
       ELSE IF WouldWipe(l, empty) THEN loads' = loads \ {l} /\ kept' = TRUE
       ELSE loads' = (loads \ {l}) \cup {[l EXCEPT !.at = "fade"]} /\ UNCHANGED kept
    /\ UNCHANGED <<current, token, drawn, failed, shared, currentAbort, entries, recovery,
                   turns, aborted, run>>

LoadFails(l) ==
    /\ Settled
    /\ l.at = "history"
    /\ loads' = loads \ {l}
    /\ failed' = (failed \/ ~Overtaken(l))
    /\ UNCHANGED <<current, token, drawn, kept, shared, currentAbort, entries, recovery, turns,
                   aborted, run>>

\* Mutant: only an entry that still streams is looked at.
CheckRunningOnly(s) ==
    IF background[s] = "running"
    THEN polls' = [polls EXCEPT ![s] = @ + 1] /\ UNCHANGED background
    ELSE UNCHANGED entries

\* checkBackgroundStream
CheckBackground(s) ==
    IF background[s] = "running"
    THEN polls' = [polls EXCEPT ![s] = @ + 1] /\ UNCHANGED background
    ELSE background' = [background EXCEPT ![s] = "none"] /\ UNCHANGED polls

\* Mutant: the token is not checked again after the fade.
DrawAnyway(l) ==
    /\ Settled
    /\ l.at = "fade"
    /\ loads' = loads \ {l}
    /\ drawn' = l.session
    /\ CheckBackground(l.session)
    /\ UNCHANGED <<current, token, failed, kept, shared, currentAbort, recovery, turns,
                   aborted, run>>

\* The old content has faded out.
Draw(l) ==
    /\ Settled
    /\ l.at = "fade"
    /\ loads' = loads \ {l}
    /\ IF Overtaken(l)
       THEN UNCHANGED <<drawn, entries>>
       ELSE drawn' = l.session /\ CheckBackground(l.session)
    /\ UNCHANGED <<current, token, failed, kept, shared, currentAbort, recovery, turns,
                   aborted, run>>

\* createDirectChat, _startFreshChat
NewChat ==
    /\ Settled
    /\ token < MaxMoves
    /\ token' = token + 1
    /\ Detach(current, background)
    /\ current' = NoSession
    /\ drawn' = NoSession
    /\ failed' = FALSE
    /\ kept' = FALSE
    /\ UNCHANGED <<loads, streamSession, polls, recovery, turns, run>>

\* The interval of checkBackgroundStream.
Poll(s) ==
    /\ Settled
    /\ polls[s] > 0
    /\ polls' = [polls EXCEPT ![s] = @ - 1]
    /\ IF current # s
       THEN UNCHANGED <<navigation, shared, currentAbort, background, recovery, turns,
                        aborted, run>>
       ELSE /\ background[s] # "running"
            /\ Select(s, [background EXCEPT ![s] = "none"])

-----------------------------------------------------------------------------
Next ==
    \/ \E files \in BOOLEAN : Press(files)
    \/ TabRecovery
    \/ NewChat
    \/ \E t \in Turns :
          \/ Continue(t)
          \/ Prepared(t)
          \/ Respond(t)
          \/ RunEnds(t)
          \/ \E text \in BOOLEAN : Chunk(t, text)
          \/ Done(t)
          \/ Close(t)
          \/ Rejects(t)
          \/ \E recoverable \in BOOLEAN : Drop(t, recoverable)
          \/ RecoveryTimer(t)
          \/ Timeout(t)
          \/ Offline(t)
    \/ \E s \in Sessions : SelectSession(s) \/ Poll(s)
    \/ \E l \in loads :
          \/ \E empty \in BOOLEAN : HistoryArrives(l, empty)
          \/ LoadFails(l)
          \/ Draw(l)

Spec == Init /\ [][Next]_vars

-----------------------------------------------------------------------------
\* The history of a session that was left while it loaded is never drawn: what
\* fills the page after a change is the session the user is in, however the
\* answers of overlapping selectSession calls are ordered.
DrawnIsCurrent == [][drawn' # drawn => drawn' = current']_vars

\* An entry of the session on the screen is not forgotten: an interval or a load
\* that is still to look at it will show its answer, unless the load failed and
\* the user was told.  The code leaves one entry unwatched: that of a session
\* which was selected again while its turn streamed and its history was still
\* empty, where selectSession keeps the page and returns (sessions.js:1620).
EntryIsWatched ==
    current \in Sessions /\ background[current] # "none" =>
        \/ polls[current] > 0
        \/ \E l \in loads : ~Overtaken(l)
        \/ failed
        \/ kept

\* For a message of the user there are no more recoveries than the cap, however
\* the turns they start end and wherever the user goes: "Capped so it can't
\* loop" (chat.js:46).  The budget hangs on one flag, which tells the press of a
\* recovery from one of the user; a press that comes before that of a pending
\* recovery takes the flag from it, and the recovery then counts as a message.
RecoveriesAreCapped == ~robbed => recovered <= AutoNudgeCap
================================================================================
