-------------------------------- MODULE LeanChat --------------------------------
(***************************************************************************)
(* The chat of the page the application ships (static/lean/alice-lean.js): *)
(* sending, the two kinds of turn, stopping, a new chat, the switch of the *)
(* language and a reload of the page.                                      *)
(*                                                                         *)
(* The page is one JavaScript thread: an event handler, a chunk of a       *)
(* stream with the promise callbacks it settles, and an animation frame    *)
(* each run to their end, so each is one action.  Between them the user,   *)
(* the network and the display come in any order.                          *)
(*                                                                         *)
(* Turns are numbered as they are sent.  A text is the number of chunks in *)
(* it: 0 is the empty string.  The server is external: the events of an    *)
(* agent's stream come in any order.                                       *)
(***************************************************************************)
EXTENDS Naturals, SequencesExt

CONSTANTS
    MaxTurns,   \* bound: messages the user sends
    MaxChunks,  \* bound: chunks of one text
    MaxSteps,   \* bound: text and tool steps of an agent turn
    ErrorText   \* what is put in place of an answer that failed at once

ASSUME ConstantsAssumption ==
    /\ MaxTurns \in Nat \ {0}
    /\ MaxChunks \in Nat
    /\ MaxSteps \in Nat
    /\ ErrorText \notin Nat

VARIABLES
    \* state
    messages,   \* the transcript: who said it, in which turn
    reply,      \* the assistant message object of each turn
    streaming,
    abort,      \* the turn the abort controller belongs to, 0 for null
    stored,     \* localStorage: the transcript as it was last persisted
    unsaved,    \* history: the last persist failed
    \* the closures of the turns
    sent,       \* the number of turns started so far
    phase,
    kind,       \* sendChatTurn or sendAgentTurn
    received,   \* acc of a chat turn, liveRaw of an agent's round
    typing,     \* curTextStep: the step that is being typed, 0 for null
    tool,       \* curToolStep: the step whose tool runs, 0 for null
    frame,      \* pending: an animation frame will flush the text
    aborted     \* the signal has fired, the stream does not know yet

store == <<stored, unsaved>>
transcript == <<messages, reply, store>>
control == <<streaming, abort>>
closures == <<sent, phase, kind, received, typing, tool, frame, aborted>>
vars == <<transcript, control, closures>>

Turns == 1..MaxTurns
Text == 0..MaxChunks
Step == [kind : {"text", "running", "done"}, text : Text]
Reply == [content : Text \cup {ErrorText}, steps : Seq(Step)]
Message == [role : {"user", "assistant"}, turn : Turns]
Live(t) == phase[t] = "live"

TypeOK ==
    /\ messages \in Seq(Message)
    /\ reply \in [Turns -> Reply]
    /\ streaming \in BOOLEAN
    /\ abort \in 0..MaxTurns
    /\ stored \in [list : Seq(Message), reply : [Turns -> Reply]]
    /\ unsaved \in BOOLEAN
    /\ sent \in 0..MaxTurns
    /\ phase \in [Turns -> {"none", "live", "over"}]
    /\ kind \in [Turns -> {"chat", "agent"}]
    /\ received \in [Turns -> Text]
    /\ typing \in [Turns -> Nat]
    /\ tool \in [Turns -> Nat]
    /\ frame \in [Turns -> BOOLEAN]
    /\ aborted \in [Turns -> BOOLEAN]

NoReply == [content |-> 0, steps |-> <<>>]

Init ==
    /\ messages = <<>>
    /\ reply = [t \in Turns |-> NoReply]
    /\ streaming = FALSE
    /\ abort = 0
    /\ stored = [list |-> <<>>, reply |-> reply]
    /\ unsaved = FALSE
    /\ sent = 0
    /\ phase = [t \in Turns |-> "none"]
    /\ kind = [t \in Turns |-> "chat"]
    /\ received = [t \in Turns |-> 0]
    /\ typing = [t \in Turns |-> 0]
    /\ tool = [t \in Turns |-> 0]
    /\ frame = [t \in Turns |-> FALSE]
    /\ aborted = [t \in Turns |-> FALSE]

Said(role, t) == [role |-> role, turn |-> t]

\* Mutant: a message is stored as it is sent to the server, without its steps.
PersistContents(list, answers) ==
    /\ stored' = [list |-> list,
                  reply |-> [t \in Turns |-> [answers[t] EXCEPT !.steps = <<>>]]]
    /\ unsaved' = FALSE

\* persist: the objects are written out with what they hold now.  A store that
\* is full or switched off refuses, which nobody is told.
Persist(list, answers) ==
    \/ stored' = [list |-> list, reply |-> answers] /\ unsaved' = FALSE
    \/ UNCHANGED stored /\ unsaved' = TRUE

-----------------------------------------------------------------------------
(***************************************************************************)
(* The user.                                                               *)
(***************************************************************************)
\* sendChatTurn and sendAgentTurn begin alike: the placeholder is in the
\* transcript and not yet in the store.
StartTurn(t, k) ==
    /\ sent' = t
    /\ messages' = messages \o <<Said("user", t), Said("assistant", t)>>
    /\ streaming' = TRUE
    /\ abort' = t
    /\ phase' = [phase EXCEPT ![t] = "live"]
    /\ kind' = [kind EXCEPT ![t] = k]
    /\ UNCHANGED <<reply, received, typing, tool, frame, aborted>>

\* onSend
Send(k) ==
    /\ sent < MaxTurns
    /\ ~streaming
    /\ Persist(Append(messages, Said("user", sent + 1)), reply)
    /\ StartTurn(sent + 1, k)

\* stopStream
StopStream ==
    aborted' = [t \in Turns |-> aborted[t] \/ t = abort]

\* The send button of a turn in flight, and a switch of the language, which
\* stops the turn because the thread is rebuilt.
Stop ==
    /\ streaming
    /\ StopStream
    /\ UNCHANGED <<transcript, control, sent, phase, kind, received, typing, tool, frame>>

\* Mutant: a new chat does not wait for the turn it stops.
NewChatAtOnce ==
    /\ aborted' = [t \in Turns |-> aborted[t] \/ t = abort]
    /\ streaming' = FALSE
    /\ messages' = <<>>
    /\ Persist(<<>>, reply)
    /\ UNCHANGED <<reply, abort, sent, phase, kind, received, typing, tool, frame>>

\* newChat
NewChat ==
    /\ messages # <<>>
    /\ IF streaming THEN StopStream ELSE UNCHANGED aborted
    /\ messages' = <<>>
    /\ Persist(<<>>, reply)
    /\ UNCHANGED <<reply, control, sent, phase, kind, received, typing, tool, frame>>

\* restore drops the answers at the end of the list that have no content.
Empty(i) ==
    LET m == stored.list[i]
    IN  m.role = "assistant" /\ stored.reply[m.turn].content = 0

Dropped(i) == \A j \in i..Len(stored.list) : Empty(j)

\* The page is reloaded: boot, enterChat and restore.
Reload ==
    /\ \E n \in 0..Len(stored.list) :
          /\ \A i \in 1..Len(stored.list) : Dropped(i) <=> i > n
          /\ messages' = SubSeq(stored.list, 1, n)
    /\ reply' = stored.reply
    /\ unsaved' = FALSE
    /\ streaming' = FALSE
    /\ abort' = 0
    /\ phase' = [t \in Turns |-> IF Live(t) THEN "over" ELSE phase[t]]
    /\ received' = [t \in Turns |-> 0]
    /\ typing' = [t \in Turns |-> 0]
    /\ tool' = [t \in Turns |-> 0]
    /\ frame' = [t \in Turns |-> FALSE]
    /\ aborted' = [t \in Turns |-> FALSE]
    /\ UNCHANGED <<stored, sent, kind>>

-----------------------------------------------------------------------------
(***************************************************************************)
(* The stream of a turn: API.chat, API.agentStream and their handlers.     *)
(***************************************************************************)
Reading(t) == Live(t) /\ ~aborted[t]
StepCount(t) == Len(reply[t].steps)
SetSteps(t, steps) == reply' = [reply EXCEPT ![t].steps = steps]

\* onDelta of a chat turn
ChatDelta(t) ==
    /\ Reading(t)
    /\ kind[t] = "chat"
    /\ received[t] < MaxChunks
    /\ received' = [received EXCEPT ![t] = @ + 1]
    /\ frame' = [frame EXCEPT ![t] = TRUE]
    /\ UNCHANGED <<transcript, control, sent, phase, kind, typing, tool, aborted>>

\* ensureTextNode: the steps with a text step to type in, and where it is.
HasRoom(t) == typing[t] # 0 \/ StepCount(t) < MaxSteps
WithText(t) ==
    IF typing[t] # 0 THEN reply[t].steps
    ELSE Append(reply[t].steps, [kind |-> "text", text |-> 0])
TextAt(t) == IF typing[t] # 0 THEN typing[t] ELSE StepCount(t) + 1

\* delta of an agent turn
AgentDelta(t) ==
    /\ Reading(t)
    /\ kind[t] = "agent"
    /\ received[t] < MaxChunks
    /\ HasRoom(t)
    /\ SetSteps(t, WithText(t))
    /\ typing' = [typing EXCEPT ![t] = TextAt(t)]
    /\ received' = [received EXCEPT ![t] = @ + 1]
    /\ frame' = [frame EXCEPT ![t] = TRUE]
    /\ UNCHANGED <<messages, store, control, sent, phase, kind, tool, aborted>>

EndRound(t) ==
    /\ typing' = [typing EXCEPT ![t] = 0]
    /\ received' = [received EXCEPT ![t] = 0]

\* assistant_text: the round's text without its tool calls.  A round that was
\* nothing but tool calls leaves no step.
AssistantText(t, clean) ==
    /\ Reading(t)
    /\ kind[t] = "agent"
    /\ \/ /\ clean # 0
          /\ HasRoom(t)
          /\ reply' = [reply EXCEPT ![t] =
                [content |-> clean, steps |-> [WithText(t) EXCEPT ![TextAt(t)].text = clean]]]
          /\ UNCHANGED tool
       \/ /\ clean = 0
          /\ IF typing[t] = 0 THEN UNCHANGED <<reply, tool>>
             ELSE /\ SetSteps(t, RemoveAt(reply[t].steps, typing[t]))
                  /\ tool' = [tool EXCEPT ![t] = IF @ > typing[t] THEN @ - 1 ELSE @]
    /\ EndRound(t)
    /\ UNCHANGED <<messages, store, control, sent, phase, kind, frame, aborted>>

\* tool_start
ToolStart(t) ==
    /\ Reading(t)
    /\ kind[t] = "agent"
    /\ StepCount(t) < MaxSteps
    /\ SetSteps(t, Append(reply[t].steps, [kind |-> "running", text |-> 0]))
    /\ tool' = [tool EXCEPT ![t] = StepCount(t) + 1]
    /\ UNCHANGED <<messages, store, control, sent, phase, kind, received, typing, frame,
                   aborted>>

\* tool_output
ToolOutput(t) ==
    /\ Reading(t)
    /\ kind[t] = "agent"
    /\ tool[t] # 0
    /\ SetSteps(t, [reply[t].steps EXCEPT ![tool[t]].kind = "done"])
    /\ tool' = [tool EXCEPT ![t] = 0]
    /\ UNCHANGED <<messages, store, control, sent, phase, kind, received, typing, frame,
                   aborted>>

\* agent_step: the next round begins.
AgentStep(t) ==
    /\ Reading(t)
    /\ kind[t] = "agent"
    /\ EndRound(t)
    /\ UNCHANGED <<transcript, control, sent, phase, kind, tool, frame, aborted>>

\* The answer once flushText has written what was received.
Flushed(t) == [reply[t] EXCEPT !.steps[typing[t]].text = received[t]]

\* flush and flushText: the frame may come after the end of the turn.
Frame(t) ==
    /\ frame[t]
    /\ frame' = [frame EXCEPT ![t] = FALSE]
    /\ reply' = [reply EXCEPT ![t] =
          IF kind[t] = "chat" THEN [@ EXCEPT !.content = received[t]]
          ELSE IF typing[t] # 0 THEN Flushed(t)
          ELSE @]
    /\ UNCHANGED <<messages, store, control, sent, phase, kind, received, typing, tool,
                   aborted>>

\* finishStream
FinishStream(t, answers) ==
    /\ phase' = [phase EXCEPT ![t] = "over"]
    /\ streaming' = FALSE
    /\ abort' = 0
    /\ reply' = answers
    /\ Persist(messages, answers)
    /\ UNCHANGED <<messages, sent, kind, received, typing, tool, frame, aborted>>

WithContent(t, content) ==
    IF kind[t] = "chat" THEN [reply EXCEPT ![t].content = content] ELSE reply

\* Mutant: the text is left as the last frame wrote it.
ResolveFlushed(t) ==
    /\ Live(t)
    /\ FinishStream(t, reply)

\* Mutant: the rejection of an aborted read is not taken for an end.
ResolveUnlessAborted(t) ==
    /\ Reading(t)
    /\ FinishStream(t, WithContent(t, received[t]))

\* The stream is over, or its read was aborted: both resolve.
Resolve(t) ==
    /\ Live(t)
    /\ FinishStream(t, WithContent(t, received[t]))

\* The request was refused or the connection was lost.
Reject(t) ==
    /\ Reading(t)
    /\ FinishStream(t, WithContent(t, IF received[t] = 0 THEN ErrorText ELSE received[t]))

-----------------------------------------------------------------------------
Next ==
    \/ \E k \in {"chat", "agent"} : Send(k)
    \/ Stop
    \/ NewChat
    \/ Reload
    \/ \E t \in Turns :
          \/ ChatDelta(t)
          \/ AgentDelta(t)
          \/ \E clean \in Text : AssistantText(t, clean)
          \/ ToolStart(t)
          \/ ToolOutput(t)
          \/ AgentStep(t)
          \/ Frame(t)
          \/ Resolve(t)
          \/ Reject(t)

Spec == Init /\ [][Next]_vars

\* An aborted read is rejected by the browser itself; nothing is assumed of
\* the server.
FairSpec == Spec /\ \A t \in Turns : WF_vars(aborted[t] /\ Resolve(t))

-----------------------------------------------------------------------------
\* There is one turn at most, the send button shows it, and the abort
\* controller is its own: a stop never reaches an older turn, and the end of
\* an older turn never ends the present one.
OneTurnAtATime ==
    /\ streaming <=> abort # 0
    /\ \A t \in Turns : Live(t) <=> streaming /\ abort = t

\* The store is behind by the end of one text: the answer of an agent turn that
\* ended in the middle of a text, whose frame came after the answer was stored.
TextBehind(t) ==
    /\ kind[t] = "agent"
    /\ typing[t] # 0
    /\ ~frame[t]
    /\ \E shorter \in Text :
          stored.reply[t] = [reply[t] EXCEPT !.steps[typing[t]].text = shorter]

\* Unless the last persist failed, a reload at any time brings back every
\* question on the page and every answer that is finished, in its place, with
\* its content and its steps.  There are two exceptions, and the code's comment
\* at 712 ("restore + language-switch reproduce it") knows neither: the end of
\* a text that a late frame wrote, and an answer at the end whose content is
\* empty, which is dropped although an agent turn may show steps.
ReloadKeeps ==
    ~unsaved =>
    \A i \in DOMAIN messages :
        LET m == messages[i]
        IN  m.role = "user" \/ phase[m.turn] = "over" =>
              /\ i \in DOMAIN stored.list
              /\ stored.list[i] = m
              /\ Dropped(i) => m.role = "assistant" /\ reply[m.turn].content = 0
              /\ m.role = "assistant" =>
                    stored.reply[m.turn] = reply[m.turn] \/ TextBehind(m.turn)

\* A finished answer is rewritten in two cases only.  The frame that was pending
\* when an agent turn ended in the middle of a text writes the rest of what
\* was received into that step, once; of a chat turn a late frame changes
\* nothing.  And a reload puts back what is stored, which differs only after
\* that frame or after a persist that failed.
AnswersAreFinal ==
    [][\A t \in Turns : phase[t] = "over" /\ reply'[t] # reply[t] =>
          \/ /\ kind[t] = "agent" /\ typing[t] # 0
             /\ frame[t] /\ ~frame'[t]
             /\ reply'[t] = Flushed(t)
          \/ /\ reply' = stored.reply
             /\ unsaved \/ TextBehind(t)]_vars

\* Once a turn has been stopped, by the button, a new chat or a switch of the
\* language, the user can send again.
StopTakesEffect == \A t \in Turns : aborted[t] /\ abort = t ~> ~streaming
=============================================================================
