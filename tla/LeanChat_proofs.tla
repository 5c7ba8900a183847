---------------------------- MODULE LeanChat_proofs ----------------------------
(***************************************************************************)
(* Theorems about LeanChat, for any number of messages, chunks and steps:  *)
(* types, one turn at a time, what a reload keeps, and answers that are    *)
(* not rewritten.                                                          *)
(***************************************************************************)
EXTENDS LeanChat, SequenceTheorems, TLAPS

(***************************************************************************)
(* A text that is being typed and a tool that runs are two different steps *)
(* of their answer.                                                        *)
(***************************************************************************)
Pointers ==
    \A t \in Turns :
        /\ typing[t] <= StepCount(t)
        /\ tool[t] <= StepCount(t)
        /\ tool[t] # 0 => tool[t] # typing[t]

\* The two fields of an answer.
LEMMA Fields ==
    ASSUME NEW r \in Reply, NEW c, NEW s
    PROVE  /\ [r EXCEPT !.content = c] = [content |-> c, steps |-> r.steps]
           /\ [r EXCEPT !.steps = s] = [content |-> r.content, steps |-> s]
  BY DEF Reply

LEMMA Steps ==
    ASSUME TypeOK, NEW t \in Turns
    PROVE  /\ reply[t] \in Reply
           /\ reply[t].steps \in Seq(Step)
           /\ reply[t].content \in Text \cup {ErrorText}
           /\ StepCount(t) \in Nat
           /\ \A i \in 1..StepCount(t) : reply[t].steps[i] \in Step
<1>1. reply[t] \in Reply
  BY DEF TypeOK
<1>2. reply[t].steps \in Seq(Step) /\ reply[t].content \in Text \cup {ErrorText}
  BY <1>1 DEF Reply
<1>3. QED
  BY <1>1, <1>2, LenProperties, ElementOfSeq DEF StepCount

\* An answer whose steps are replaced by a list that is long enough.
LEMMA StepsReplaced ==
    ASSUME TypeOK, Pointers, NEW t \in Turns, NEW c \in Text \cup {ErrorText},
           NEW s \in Seq(Step),
           typing' \in [Turns -> Nat], tool' \in [Turns -> Nat],
           \A u \in Turns \ {t} : typing'[u] = typing[u] /\ tool'[u] = tool[u],
           typing'[t] <= Len(s), tool'[t] <= Len(s),
           tool'[t] # 0 => tool'[t] # typing'[t],
           reply' = [reply EXCEPT ![t] = [content |-> c, steps |-> s]]
    PROVE  reply' \in [Turns -> Reply] /\ Pointers'
<1>1. [content |-> c, steps |-> s] \in Reply
  BY DEF Reply
<1>2. reply' \in [Turns -> Reply]
  BY <1>1 DEF TypeOK
<1>3. \A u \in Turns : reply'[u] = IF u = t THEN [content |-> c, steps |-> s] ELSE reply[u]
  BY DEF TypeOK
<1>4. Pointers'
  <2> SUFFICES ASSUME NEW u \in Turns
               PROVE  /\ typing'[u] <= Len(reply'[u].steps)
                      /\ tool'[u] <= Len(reply'[u].steps)
                      /\ tool'[u] # 0 => tool'[u] # typing'[u]
    BY DEF Pointers, StepCount
  <2>1. CASE u = t
    BY <1>3, <2>1
  <2>2. CASE u # t
    BY <1>3, <2>2 DEF Pointers, StepCount
  <2>3. QED
    BY <2>1, <2>2
<1>5. QED
  BY <1>2, <1>4

\* SetSteps keeps the content.
LEMMA StepsSet ==
    ASSUME TypeOK, NEW t \in Turns, NEW s \in Seq(Step), SetSteps(t, s)
    PROVE  reply' = [reply EXCEPT ![t] = [content |-> reply[t].content, steps |-> s]]
<1>1. reply[t] \in Reply
  BY DEF TypeOK
<1>2. [reply[t] EXCEPT !.steps = s] = [content |-> reply[t].content, steps |-> s]
  BY <1>1, Fields
<1>3. reply' = [reply EXCEPT ![t] = [reply[t] EXCEPT !.steps = s]]
  BY DEF SetSteps
<1>4. QED
  BY <1>2, <1>3

LEMMA StepsSetTyped ==
    ASSUME TypeOK, Pointers, NEW t \in Turns, NEW s \in Seq(Step), SetSteps(t, s),
           typing' \in [Turns -> Nat], tool' \in [Turns -> Nat],
           \A u \in Turns \ {t} : typing'[u] = typing[u] /\ tool'[u] = tool[u],
           typing'[t] <= Len(s), tool'[t] <= Len(s),
           tool'[t] # 0 => tool'[t] # typing'[t]
    PROVE  reply' \in [Turns -> Reply] /\ Pointers'
<1>1. reply[t].content \in Text \cup {ErrorText}
  BY Steps
<1>2. reply' = [reply EXCEPT ![t] = [content |-> reply[t].content, steps |-> s]]
  BY StepsSet
<1>3. QED
  BY <1>1, <1>2, StepsReplaced

\* The steps with a text step to type in.
LEMMA TextOpened ==
    ASSUME TypeOK, Pointers, NEW t \in Turns
    PROVE  /\ WithText(t) \in Seq(Step)
           /\ TextAt(t) \in 1..Len(WithText(t))
           /\ tool[t] <= Len(WithText(t))
           /\ tool[t] # TextAt(t)
<1>1. [kind |-> "text", text |-> 0] \in Step
  BY ConstantsAssumption DEF Step, Text
<1>2. reply[t].steps \in Seq(Step) /\ typing[t] \in Nat /\ tool[t] \in Nat
  BY Steps DEF TypeOK
<1>3. typing[t] <= Len(reply[t].steps) /\ tool[t] <= Len(reply[t].steps)
  BY DEF Pointers, StepCount
<1>4. CASE typing[t] # 0
  BY <1>2, <1>3, <1>4 DEF WithText, TextAt, Pointers
<1>5. CASE typing[t] = 0
  <2>1. /\ Append(reply[t].steps, [kind |-> "text", text |-> 0]) \in Seq(Step)
        /\ Len(Append(reply[t].steps, [kind |-> "text", text |-> 0])) = StepCount(t) + 1
    BY <1>1, <1>2, LenProperties DEF StepCount
  <2>2. StepCount(t) \in Nat
    BY Steps
  <2>3. QED
    BY <1>2, <1>3, <1>5, <2>1, <2>2 DEF WithText, TextAt, StepCount
<1>6. QED
  BY <1>4, <1>5

\* A step that is removed from a list.
LEMMA StepRemoved ==
    ASSUME NEW s \in Seq(Step), NEW i \in 1..Len(s)
    PROVE  RemoveAt(s, i) \in Seq(Step) /\ Len(RemoveAt(s, i)) = Len(s) - 1
<1> DEFINE before == SubSeq(s, 1, i - 1)
           after == SubSeq(s, i + 1, Len(s))
<1>1. Len(s) \in Nat /\ \A j \in 1..Len(s) : s[j] \in Step
  BY LenProperties, ElementOfSeq
<1>2. before \in Seq(Step) /\ Len(before) = i - 1
  BY <1>1, SubSeqProperties
<1>3. after \in Seq(Step) /\ Len(after) = Len(s) - i
  BY <1>1, SubSeqProperties
<1>4. before \o after \in Seq(Step) /\ Len(before \o after) = Len(before) + Len(after)
  BY <1>2, <1>3, ConcatProperties
<1>5. Len(before) + Len(after) = Len(s) - 1
  <2> HIDE DEF before, after
  <2>1. QED
    BY <1>1, <1>2, <1>3
<1>6. QED
  BY <1>4, <1>5 DEF RemoveAt

\* An answer whose content is replaced.
LEMMA ContentTyped ==
    ASSUME TypeOK, Pointers, NEW t \in Turns, NEW c \in Text \cup {ErrorText}
    PROVE  /\ WithContent(t, c) \in [Turns -> Reply]
           /\ \A u \in Turns :
                 /\ WithContent(t, c)[u].steps = reply[u].steps
                 /\ WithContent(t, c)[u].content =
                       IF u = t /\ kind[t] = "chat" THEN c ELSE reply[u].content
<1>1. reply[t] \in Reply
  BY DEF TypeOK
<1>2. [reply[t] EXCEPT !.content = c] = [content |-> c, steps |-> reply[t].steps]
  BY <1>1, Fields
<1>3. [content |-> c, steps |-> reply[t].steps] \in Reply
  BY <1>1 DEF Reply
<1>4. WithContent(t, c) = IF kind[t] = "chat"
                          THEN [reply EXCEPT ![t] = [content |-> c, steps |-> reply[t].steps]]
                          ELSE reply
  BY <1>2 DEF WithContent
<1>5. QED
  BY <1>3, <1>4 DEF TypeOK

-----------------------------------------------------------------------------
(***************************************************************************)
(* Types, action by action.                                                *)
(***************************************************************************)
Typed == TypeOK /\ Pointers

LEMMA PersistTyped ==
    ASSUME TypeOK, NEW list \in Seq(Message), NEW answers \in [Turns -> Reply],
           Persist(list, answers)
    PROVE  /\ stored' \in [list : Seq(Message), reply : [Turns -> Reply]]
           /\ unsaved' \in BOOLEAN
<1>1. CASE stored' = [list |-> list, reply |-> answers] /\ unsaved' = FALSE
  BY <1>1
<1>2. CASE UNCHANGED stored /\ unsaved' = TRUE
  BY <1>2 DEF TypeOK
<1>3. QED
  BY <1>1, <1>2 DEF Persist

LEMMA SendTyped ==
    ASSUME Typed, NEW k \in {"chat", "agent"}, Send(k)
    PROVE  Typed'
<1> DEFINE t == sent + 1
<1>1. t \in Turns
  BY ConstantsAssumption DEF Typed, TypeOK, Send, Turns
<1>2. Said("user", t) \in Message /\ Said("assistant", t) \in Message
  BY <1>1 DEF Said, Message
<1>3. messages' \in Seq(Message)
  <2>1. <<Said("user", t), Said("assistant", t)>> \in Seq(Message)
    BY <1>2
  <2>2. QED
    BY <2>1, ConcatProperties DEF Typed, TypeOK, Send, StartTurn
<1>4. stored' \in [list : Seq(Message), reply : [Turns -> Reply]] /\ unsaved' \in BOOLEAN
  <2>1. Append(messages, Said("user", t)) \in Seq(Message)
    BY <1>2 DEF Typed, TypeOK
  <2>2. QED
    BY <2>1, PersistTyped DEF Typed, TypeOK, Send
<1>5. sent' \in 0..MaxTurns /\ abort' \in 0..MaxTurns
  BY <1>1 DEF Send, StartTurn, Turns
<1>6. QED
  BY <1>1, <1>3, <1>4, <1>5 DEF Typed, TypeOK, Pointers, StepCount, Send, StartTurn

LEMMA StopTyped == ASSUME Typed, Stop PROVE Typed'
  BY DEF Typed, TypeOK, Pointers, StepCount, Stop, StopStream, transcript, store, control

LEMMA NewChatTyped == ASSUME Typed, NewChat PROVE Typed'
<1>1. <<>> \in Seq(Message)
  BY EmptySeq
<1>2. stored' \in [list : Seq(Message), reply : [Turns -> Reply]] /\ unsaved' \in BOOLEAN
  BY <1>1, PersistTyped DEF Typed, TypeOK, NewChat
<1>3. aborted' \in [Turns -> BOOLEAN]
  BY DEF Typed, TypeOK, NewChat, StopStream
<1>4. QED
  BY <1>1, <1>2, <1>3 DEF Typed, TypeOK, Pointers, StepCount, NewChat, control

LEMMA ReloadTyped == ASSUME Typed, Reload PROVE Typed'
<1>1. messages' \in Seq(Message)
  <2>1. PICK n \in 0..Len(stored.list) : messages' = SubSeq(stored.list, 1, n)
    BY DEF Reload
  <2>2. stored.list \in Seq(Message)
    BY DEF Typed, TypeOK
  <2>3. \A i \in 1..n : stored.list[i] \in Message
    BY <2>1, <2>2, LenProperties, ElementOfSeq
  <2>4. QED
    BY <2>1, <2>2, <2>3, LenProperties, SubSeqProperties
<1>2. reply' \in [Turns -> Reply] /\ phase' \in [Turns -> {"none", "live", "over"}]
  BY DEF Typed, TypeOK, Reload
<1>3. abort' \in 0..MaxTurns /\ received' \in [Turns -> Text]
  BY ConstantsAssumption DEF Reload, Text
<1>4. /\ typing' \in [Turns -> Nat]
      /\ tool' \in [Turns -> Nat]
      /\ frame' \in [Turns -> BOOLEAN]
      /\ aborted' \in [Turns -> BOOLEAN]
  BY DEF Reload
<1>5. Pointers'
  <2> SUFFICES ASSUME NEW u \in Turns
               PROVE  typing'[u] <= Len(reply'[u].steps) /\ tool'[u] = 0
                      /\ tool'[u] <= Len(reply'[u].steps)
    BY DEF Pointers, StepCount
  <2>1. reply'[u] \in Reply
    BY <1>2
  <2>2. Len(reply'[u].steps) \in Nat
    BY <2>1, LenProperties DEF Reply
  <2>3. QED
    BY <2>2 DEF Reload
<1>6. QED
  BY <1>1, <1>2, <1>3, <1>4, <1>5 DEF Typed, TypeOK, Reload

LEMMA ChatDeltaTyped ==
    ASSUME Typed, NEW t \in Turns, ChatDelta(t)
    PROVE  Typed'
<1>1. received' \in [Turns -> Text]
  BY ConstantsAssumption DEF Typed, TypeOK, ChatDelta, Text
<1>2. QED
  BY <1>1 DEF Typed, TypeOK, Pointers, StepCount, ChatDelta, transcript, store, control

LEMMA AgentDeltaTyped ==
    ASSUME Typed, NEW t \in Turns, AgentDelta(t)
    PROVE  Typed'
<1>1. received' \in [Turns -> Text]
  BY ConstantsAssumption DEF Typed, TypeOK, AgentDelta, Text
<1>2. /\ WithText(t) \in Seq(Step)
      /\ TextAt(t) \in 1..Len(WithText(t))
      /\ tool[t] <= Len(WithText(t))
      /\ tool[t] # TextAt(t)
  BY TextOpened DEF Typed
<1>3. TextAt(t) \in Nat /\ TextAt(t) <= Len(WithText(t))
  BY <1>2, LenProperties
<1>4. /\ typing' \in [Turns -> Nat]
      /\ typing'[t] = TextAt(t)
      /\ tool' = tool
      /\ tool \in [Turns -> Nat]
      /\ \A u \in Turns \ {t} : typing'[u] = typing[u]
  BY <1>3 DEF Typed, TypeOK, AgentDelta
<1>5. SetSteps(t, WithText(t))
  BY DEF AgentDelta
<1>6. reply' \in [Turns -> Reply] /\ Pointers'
  BY <1>2, <1>3, <1>4, <1>5, StepsSetTyped DEF Typed
<1>7. QED
  BY <1>1, <1>4, <1>6 DEF Typed, TypeOK, AgentDelta, store, control

LEMMA AssistantTextTyped ==
    ASSUME Typed, NEW t \in Turns, NEW clean \in Text, AssistantText(t, clean)
    PROVE  Typed'
<1> DEFINE r == reply[t]
           i == TextAt(t)
           s == [WithText(t) EXCEPT ![i].text = clean]
<1>1. received' \in [Turns -> Text]
  BY ConstantsAssumption DEF Typed, TypeOK, AssistantText, EndRound, Text
<1>2. /\ typing' \in [Turns -> Nat]
      /\ typing'[t] = 0
      /\ \A u \in Turns \ {t} : typing'[u] = typing[u]
  BY DEF Typed, TypeOK, AssistantText, EndRound
<1>3. tool \in [Turns -> Nat] /\ typing \in [Turns -> Nat]
  BY DEF Typed, TypeOK
<1>4. reply' \in [Turns -> Reply] /\ tool' \in [Turns -> Nat] /\ Pointers'
  <2>1. CASE clean # 0
    <3>1. WithText(t) \in Seq(Step) /\ i \in 1..Len(WithText(t)) /\ tool[t] <= Len(WithText(t))
      BY TextOpened DEF Typed
    <3>2. WithText(t)[i] \in Step
      BY <3>1, LenProperties, ElementOfSeq
    <3>3. [WithText(t)[i] EXCEPT !.text = clean] \in Step
      BY <3>2 DEF Step
    <3>4. s \in Seq(Step) /\ Len(s) = Len(WithText(t))
      BY <3>1, <3>3, ExceptSeq
    <3>5. reply' = [reply EXCEPT ![t] = [content |-> clean, steps |-> s]] /\ tool' = tool
      BY <2>1 DEF AssistantText
    <3>6. typing'[t] <= Len(s) /\ tool'[t] <= Len(s)
      BY <1>2, <3>1, <3>4, <3>5, LenProperties
    <3>7. QED
      BY <1>2, <1>3, <3>4, <3>5, <3>6, StepsReplaced DEF Typed
  <2>2. CASE clean = 0 /\ typing[t] = 0
    <3>1. reply' = reply /\ tool' = tool
      BY <2>2 DEF AssistantText
    <3>2. typing' = typing
      BY <2>2 DEF AssistantText, EndRound, Typed, TypeOK
    <3>3. QED
      BY <3>1, <3>2 DEF Typed, TypeOK, Pointers, StepCount
  <2>3. CASE clean = 0 /\ typing[t] # 0
    <3> DEFINE cut == RemoveAt(r.steps, typing[t])
    <3>1. r.steps \in Seq(Step) /\ Len(r.steps) \in Nat
      BY Steps, LenProperties DEF Typed
    <3>2. /\ typing[t] \in 1..Len(r.steps)
          /\ tool[t] \in 0..Len(r.steps)
          /\ tool[t] # 0 => tool[t] # typing[t]
      BY <1>3, <2>3, <3>1 DEF Typed, Pointers, StepCount
    <3>3. cut \in Seq(Step) /\ Len(cut) = Len(r.steps) - 1
      BY <3>1, <3>2, StepRemoved
    <3>4. /\ SetSteps(t, cut)
          /\ tool' = [tool EXCEPT ![t] = IF tool[t] > typing[t] THEN tool[t] - 1 ELSE tool[t]]
      BY <2>3 DEF AssistantText
    <3>5. tool'[t] \in 0..Len(cut)
      BY <1>3, <3>1, <3>2, <3>3, <3>4
    <3>6. tool' \in [Turns -> Nat] /\ \A u \in Turns \ {t} : tool'[u] = tool[u]
      BY <1>3, <3>1, <3>2, <3>4
    <3>7. typing'[t] <= Len(cut) /\ tool'[t] <= Len(cut)
      BY <1>2, <3>1, <3>2, <3>3, <3>5
    <3>8. QED
      BY <1>2, <3>3, <3>4, <3>6, <3>7, StepsSetTyped DEF Typed
  <2>4. QED
    BY <2>1, <2>2, <2>3
<1>5. QED
  BY <1>1, <1>2, <1>4 DEF Typed, TypeOK, AssistantText, store, control

LEMMA ToolStartTyped ==
    ASSUME Typed, NEW t \in Turns, ToolStart(t)
    PROVE  Typed'
<1> DEFINE s == Append(reply[t].steps, [kind |-> "running", text |-> 0])
<1>1. [kind |-> "running", text |-> 0] \in Step
  BY ConstantsAssumption DEF Step, Text
<1>2. reply[t].steps \in Seq(Step) /\ StepCount(t) \in Nat
  BY Steps DEF Typed
<1>3. s \in Seq(Step) /\ Len(s) = StepCount(t) + 1
  BY <1>1, <1>2, LenProperties DEF StepCount
<1>4. SetSteps(t, s)
  BY DEF ToolStart
<1>5. /\ typing' = typing
      /\ typing \in [Turns -> Nat]
      /\ tool' \in [Turns -> Nat]
      /\ tool'[t] = StepCount(t) + 1
      /\ \A u \in Turns \ {t} : tool'[u] = tool[u]
  BY <1>2 DEF Typed, TypeOK, ToolStart
<1>6. typing'[t] <= Len(s) /\ tool'[t] <= Len(s) /\ tool'[t] # typing'[t]
  BY <1>2, <1>3, <1>5 DEF Typed, Pointers
<1>7. reply' \in [Turns -> Reply] /\ Pointers'
  BY <1>3, <1>4, <1>5, <1>6, StepsSetTyped DEF Typed
<1>8. QED
  BY <1>5, <1>7 DEF Typed, TypeOK, ToolStart, store, control

LEMMA ToolOutputTyped ==
    ASSUME Typed, NEW t \in Turns, ToolOutput(t)
    PROVE  Typed'
<1> DEFINE i == tool[t]
           s == [reply[t].steps EXCEPT ![i].kind = "done"]
<1>1. reply[t].steps \in Seq(Step) /\ Len(reply[t].steps) \in Nat
  BY Steps, LenProperties DEF Typed
<1>2. i \in 1..Len(reply[t].steps) /\ typing[t] <= Len(reply[t].steps)
  BY <1>1 DEF Typed, TypeOK, Pointers, StepCount, ToolOutput
<1>3. reply[t].steps[i] \in Step
  BY <1>1, <1>2, ElementOfSeq
<1>4. [reply[t].steps[i] EXCEPT !.kind = "done"] \in Step
  BY <1>3 DEF Step
<1>5. s \in Seq(Step) /\ Len(s) = Len(reply[t].steps)
  BY <1>1, <1>2, <1>4, ExceptSeq
<1>6. SetSteps(t, s)
  BY DEF ToolOutput
<1>7. /\ typing' = typing
      /\ typing \in [Turns -> Nat]
      /\ tool' \in [Turns -> Nat]
      /\ tool'[t] = 0
      /\ \A u \in Turns \ {t} : tool'[u] = tool[u]
  BY DEF Typed, TypeOK, ToolOutput
<1>8. typing'[t] <= Len(s) /\ tool'[t] <= Len(s)
  <2> HIDE DEF s
  <2>1. QED
    BY <1>1, <1>2, <1>5, <1>7
<1>9. reply' \in [Turns -> Reply] /\ Pointers'
  BY <1>5, <1>6, <1>7, <1>8, StepsSetTyped DEF Typed
<1>10. QED
  BY <1>7, <1>9 DEF Typed, TypeOK, ToolOutput, store, control

\* What the frame of an agent turn writes.
LEMMA FlushedSteps ==
    ASSUME Typed, NEW t \in Turns, typing[t] # 0
    PROVE  /\ typing[t] \in 1..StepCount(t)
           /\ reply[t].steps[typing[t]] \in Step
           /\ \A x \in Text :
                 LET s == [reply[t].steps EXCEPT ![typing[t]].text = x]
                 IN  /\ s \in Seq(Step)
                     /\ Len(s) = StepCount(t)
                     /\ [reply[t] EXCEPT !.steps[typing[t]].text = x] =
                           [content |-> reply[t].content, steps |-> s]
<1>1. reply[t].steps \in Seq(Step) /\ StepCount(t) \in Nat
  BY Steps DEF Typed
<1>2. typing[t] \in 1..StepCount(t)
  BY <1>1 DEF Typed, TypeOK, Pointers
<1>3. reply[t].steps[typing[t]] \in Step
  BY <1>2, Steps DEF Typed
<1>4. ASSUME NEW x \in Text
      PROVE  LET s == [reply[t].steps EXCEPT ![typing[t]].text = x]
             IN  /\ s \in Seq(Step)
                 /\ Len(s) = StepCount(t)
                 /\ [reply[t] EXCEPT !.steps[typing[t]].text = x] =
                       [content |-> reply[t].content, steps |-> s]
  <2> DEFINE s == [reply[t].steps EXCEPT ![typing[t]].text = x]
  <2>1. [reply[t].steps[typing[t]] EXCEPT !.text = x] \in Step
    BY <1>3 DEF Step
  <2>2. s \in Seq(Step) /\ Len(s) = StepCount(t)
    BY <1>1, <1>2, <2>1, ExceptSeq DEF StepCount
  <2>3. reply[t] \in Reply
    BY DEF Typed, TypeOK
  <2>4. [reply[t] EXCEPT !.steps = s] = [content |-> reply[t].content, steps |-> s]
    <3>1. \A v : [reply[t] EXCEPT !.steps = v] = [content |-> reply[t].content, steps |-> v]
      BY <2>3, Fields
    <3>2. QED
      BY <3>1
  <2>5. [reply[t] EXCEPT !.steps[typing[t]].text = x] = [reply[t] EXCEPT !.steps = s]
    OBVIOUS
  <2>6. QED
    BY <2>2, <2>4, <2>5
<1>5. QED
  BY <1>2, <1>3, <1>4

LEMMA FrameTyped ==
    ASSUME Typed, NEW t \in Turns, Frame(t)
    PROVE  Typed'
<1> DEFINE r == reply[t]
           s == [r.steps EXCEPT ![typing[t]].text = received[t]]
<1>1. /\ r \in Reply
      /\ received[t] \in Text
      /\ typing' = typing /\ tool' = tool
      /\ typing \in [Turns -> Nat] /\ tool \in [Turns -> Nat]
      /\ typing[t] <= Len(r.steps) /\ tool[t] <= Len(r.steps)
      /\ tool[t] # 0 => tool[t] # typing[t]
  BY DEF Typed, TypeOK, Pointers, StepCount, Frame
<1>2. reply' \in [Turns -> Reply] /\ Pointers'
  <2>1. CASE kind[t] = "chat"
    <3>1. [r EXCEPT !.content = received[t]] = [content |-> received[t], steps |-> r.steps]
      BY <1>1, Fields
    <3>2. reply' = [reply EXCEPT ![t] = [r EXCEPT !.content = received[t]]]
      BY <2>1 DEF Frame
    <3>3. reply' = [reply EXCEPT ![t] = [content |-> received[t], steps |-> r.steps]]
      BY <3>1, <3>2
    <3>4. QED
      BY <1>1, <3>3, Steps, StepsReplaced DEF Typed
  <2>2. CASE kind[t] # "chat" /\ typing[t] # 0
    <3>1. /\ s \in Seq(Step)
          /\ Len(s) = Len(r.steps)
          /\ Flushed(t) = [content |-> r.content, steps |-> s]
      BY <1>1, <2>2, FlushedSteps DEF Flushed, StepCount
    <3>2. reply' = [reply EXCEPT ![t] = [content |-> r.content, steps |-> s]]
      BY <2>2, <3>1 DEF Frame
    <3>3. r.content \in Text \cup {ErrorText}
      BY Steps DEF Typed
    <3>4. QED
      BY <1>1, <3>1, <3>2, <3>3, StepsReplaced DEF Typed
  <2>3. CASE kind[t] # "chat" /\ typing[t] = 0
    BY <2>3 DEF Typed, TypeOK, Pointers, StepCount, Frame
  <2>4. QED
    BY <2>1, <2>2, <2>3
<1>3. QED
  BY <1>2 DEF Typed, TypeOK, Frame, store, control

LEMMA FinishTyped ==
    ASSUME Typed, NEW t \in Turns, NEW c \in Text \cup {ErrorText},
           FinishStream(t, WithContent(t, c))
    PROVE  Typed'
<1>1. reply' \in [Turns -> Reply] /\ \A u \in Turns : reply'[u].steps = reply[u].steps
  BY ContentTyped DEF Typed, FinishStream
<1>2. Pointers'
  BY <1>1 DEF Typed, Pointers, StepCount, FinishStream
<1>3. stored' \in [list : Seq(Message), reply : [Turns -> Reply]] /\ unsaved' \in BOOLEAN
  BY ContentTyped, PersistTyped DEF Typed, TypeOK, FinishStream
<1>4. abort' \in 0..MaxTurns /\ phase' \in [Turns -> {"none", "live", "over"}]
  BY ConstantsAssumption DEF Typed, TypeOK, FinishStream
<1>5. QED
  BY <1>1, <1>2, <1>3, <1>4 DEF Typed, TypeOK, FinishStream

\* An agent's round begins.
LEMMA AgentStepTyped == ASSUME Typed, NEW t \in Turns, AgentStep(t) PROVE Typed'
<1>1. /\ received' \in [Turns -> Text]
      /\ typing' \in [Turns -> Nat]
      /\ \A u \in Turns : typing'[u] = IF u = t THEN 0 ELSE typing[u]
  BY ConstantsAssumption DEF Typed, TypeOK, AgentStep, EndRound, Text
<1>2. \A u \in Turns : StepCount(u) \in Nat
  BY Steps DEF Typed
<1>3. QED
  BY <1>1, <1>2 DEF Typed, TypeOK, Pointers, StepCount, AgentStep, transcript, store, control

LEMMA StepTyped == Typed /\ [Next]_vars => Typed'
<1> SUFFICES ASSUME Typed, [Next]_vars PROVE Typed'
  OBVIOUS
<1>1. ASSUME NEW t \in Turns, Resolve(t) \/ Reject(t) PROVE Typed'
  <2>1. received[t] \in Text
    BY DEF Typed, TypeOK
  <2>2. QED
    BY <1>1, <2>1, FinishTyped DEF Resolve, Reject
<1>2. CASE UNCHANGED vars
  BY <1>2 DEF Typed, TypeOK, Pointers, StepCount, vars, transcript, store, control, closures
<1>3. QED
  BY <1>1, <1>2, SendTyped, StopTyped, NewChatTyped, ReloadTyped, ChatDeltaTyped,
     AgentDeltaTyped, AssistantTextTyped, ToolStartTyped, ToolOutputTyped, AgentStepTyped,
     FrameTyped DEF Next

LEMMA InitTyped == Init => Typed
<1> SUFFICES ASSUME Init PROVE Typed
  OBVIOUS
<1>1. NoReply \in Reply /\ 0 \in Text /\ Len(NoReply.steps) = 0
  BY ConstantsAssumption, EmptySeq DEF NoReply, Reply, Text
<1>2. <<>> \in Seq(Message)
  BY EmptySeq
<1>3. reply \in [Turns -> Reply] /\ stored \in [list : Seq(Message), reply : [Turns -> Reply]]
  BY <1>1, <1>2 DEF Init
<1>4. abort \in 0..MaxTurns /\ sent \in 0..MaxTurns
  BY ConstantsAssumption DEF Init
<1>5. Pointers
  BY <1>1 DEF Init, Pointers, StepCount
<1>6. QED
  BY <1>1, <1>2, <1>3, <1>4, <1>5 DEF Init, Typed, TypeOK

\* Every variable of the page has a value of its kind.
THEOREM TypeCorrect == Spec => []TypeOK
<1>1. Typed => TypeOK
  BY DEF Typed
<1>2. QED
  BY <1>1, InitTyped, StepTyped, PTL DEF Spec
-----------------------------------------------------------------------------
(***************************************************************************)
(* The inductive invariant.  A turn that was not sent has no frame; the    *)
(* frame of a chat turn has text, and finds it in place when the turn is   *)
(* over.  What the store has of a finished turn is what the page has.  The *)
(* stored transcript is the one on the page, except for the answer that is *)
(* streaming.  All that is unless the last persist failed.                 *)
(***************************************************************************)
Fresh == \A t \in Turns : phase[t] # "none" => t <= sent

FrameInv ==
    \A t \in Turns : frame[t] =>
        /\ phase[t] # "none"
        /\ kind[t] = "chat" =>
              /\ received[t] # 0
              /\ phase[t] = "over" => reply[t].content = received[t]

SettledStored ==
    ~unsaved =>
    \A t \in Turns : phase[t] = "over" => stored.reply[t] = reply[t] \/ TextBehind(t)

Streamed(i) ==
    /\ streaming
    /\ messages[i].role = "assistant"
    /\ messages[i].turn = abort

ListInv ==
    ~unsaved =>
    \A i \in DOMAIN messages :
        Streamed(i) \/ (i \in DOMAIN stored.list /\ stored.list[i] = messages[i])

IInv ==
    /\ Typed
    /\ OneTurnAtATime
    /\ Fresh
    /\ FrameInv
    /\ SettledStored
    /\ ListInv

\* A step of the stream of one turn, which is live.
LEMMA StreamStep ==
    ASSUME IInv, Typed', NEW t \in Turns, Live(t),
           UNCHANGED <<messages, store, control, sent, phase, kind>>,
           \A u \in Turns \ {t} :
              /\ frame'[u] = frame[u]
              /\ received'[u] = received[u]
              /\ typing'[u] = typing[u]
              /\ reply'[u] = reply[u],
           frame'[t] /\ kind[t] = "chat" => received'[t] # 0
    PROVE  IInv'
<1>1. OneTurnAtATime' /\ Fresh' /\ ListInv'
  BY DEF IInv, OneTurnAtATime, Fresh, ListInv, Streamed, Live, store, control
<1>2. FrameInv'
  BY DEF IInv, FrameInv, Live
<1>3. SettledStored'
  <2> SUFFICES ASSUME ~unsaved', NEW u \in Turns, phase'[u] = "over"
               PROVE  stored'.reply[u] = reply'[u] \/ TextBehind(u)'
    BY DEF SettledStored
  <2>1. u # t
    BY DEF Live
  <2>2. stored.reply[u] = reply[u] \/ TextBehind(u)
    BY DEF IInv, SettledStored, store
  <2>3. UNCHANGED <<stored, kind>> /\ typing'[u] = typing[u] /\ frame'[u] = frame[u]
        /\ reply'[u] = reply[u]
    BY <2>1 DEF store
  <2>4. QED
    BY <2>2, <2>3 DEF TextBehind
<1>4. QED
  BY <1>1, <1>2, <1>3 DEF IInv

\* The handlers of the stream keep the invariant.
LEMMA StreamInv ==
    ASSUME IInv, Typed', NEW t \in Turns,
           \/ ChatDelta(t)
           \/ AgentDelta(t)
           \/ \E clean \in Text : AssistantText(t, clean)
           \/ ToolStart(t)
           \/ ToolOutput(t)
           \/ AgentStep(t)
    PROVE  IInv'
<1>1. Live(t) /\ UNCHANGED <<messages, store, control, sent, phase, kind>>
  BY DEF ChatDelta, AgentDelta, AssistantText, ToolStart, ToolOutput, AgentStep, Reading,
         transcript
<1>2. \A u \in Turns \ {t} :
         /\ frame'[u] = frame[u]
         /\ received'[u] = received[u]
         /\ typing'[u] = typing[u]
         /\ reply'[u] = reply[u]
  <2>1. /\ reply \in [Turns -> Reply]
        /\ frame \in [Turns -> BOOLEAN]
        /\ received \in [Turns -> Text]
        /\ typing \in [Turns -> Nat]
    BY DEF IInv, Typed, TypeOK
  <2>2. CASE ChatDelta(t)
    BY <2>1, <2>2 DEF ChatDelta, transcript
  <2>3. CASE AgentDelta(t)
    BY <2>1, <2>3 DEF AgentDelta, SetSteps
  <2>4. CASE \E clean \in Text : AssistantText(t, clean)
    BY <2>1, <2>4 DEF AssistantText, EndRound, SetSteps
  <2>5. CASE ToolStart(t) \/ ToolOutput(t)
    BY <2>1, <2>5 DEF ToolStart, ToolOutput, SetSteps
  <2>6. CASE AgentStep(t)
    BY <2>1, <2>6 DEF AgentStep, EndRound, transcript
  <2>7. QED
    BY <2>2, <2>3, <2>4, <2>5, <2>6
<1>3. frame'[t] /\ kind[t] = "chat" => received'[t] # 0
  <2>1. CASE ChatDelta(t)
    BY <2>1 DEF IInv, Typed, TypeOK, ChatDelta, Text
  <2>2. CASE ~ChatDelta(t)
    BY <2>2 DEF AgentDelta, AssistantText, ToolStart, ToolOutput, AgentStep
  <2>3. QED
    BY <2>1, <2>2
<1>4. QED
  BY <1>1, <1>2, <1>3, StreamStep

\* Of a finished turn a frame changes the text that was being typed, or nothing.
LEMMA FrameReply ==
    ASSUME IInv, NEW t \in Turns, Frame(t)
    PROVE  /\ \A u \in Turns : frame'[u] => frame[u] /\ u # t
           /\ \A u \in Turns \ {t} : reply'[u] = reply[u]
           /\ phase[t] = "over" =>
                 \/ reply'[t] = reply[t]
                 \/ kind[t] = "agent" /\ typing[t] # 0 /\ reply'[t] = Flushed(t)
<1>1. /\ reply[t] \in Reply
      /\ kind[t] \in {"chat", "agent"}
      /\ reply' = [reply EXCEPT ![t] =
                      IF kind[t] = "chat" THEN [reply[t] EXCEPT !.content = received[t]]
                      ELSE IF typing[t] # 0 THEN Flushed(t) ELSE reply[t]]
  BY DEF IInv, Typed, TypeOK, Frame
<1>2. phase[t] = "over" /\ kind[t] = "chat" =>
         [reply[t] EXCEPT !.content = received[t]] = reply[t]
  BY <1>1 DEF IInv, FrameInv, Frame, Reply
<1>3. \A u \in Turns : frame'[u] => frame[u] /\ u # t
  BY DEF IInv, Typed, TypeOK, Frame
<1>4. \A u \in Turns \ {t} : reply'[u] = reply[u]
  BY <1>1 DEF IInv, Typed, TypeOK
<1>5. reply'[t] = IF kind[t] = "chat" THEN [reply[t] EXCEPT !.content = received[t]]
                  ELSE IF typing[t] # 0 THEN Flushed(t) ELSE reply[t]
  BY <1>1 DEF IInv, Typed, TypeOK
<1>6. QED
  BY <1>1, <1>2, <1>3, <1>4, <1>5

\* The text that a late frame replaced is the one that is in the store.
LEMMA FlushedIsBehind ==
    ASSUME Typed, NEW t \in Turns, typing[t] # 0
    PROVE  \E shorter \in Text :
              reply[t] = [Flushed(t) EXCEPT !.steps[typing[t]].text = shorter]
<1> DEFINE i == typing[t]
           r == reply[t]
           x == r.steps[i].text
           s == [r.steps EXCEPT ![i].text = received[t]]
<1>1. /\ i \in 1..StepCount(t)
      /\ r.steps[i] \in Step
      /\ s \in Seq(Step)
      /\ Flushed(t) = [content |-> r.content, steps |-> s]
  BY FlushedSteps DEF Typed, TypeOK, Flushed
<1>2. r \in Reply /\ r.steps \in Seq(Step) /\ DOMAIN r.steps = 1..StepCount(t)
  BY Steps, LenProperties DEF Typed, StepCount
<1>3. x \in Text
  BY <1>1 DEF Step
<1>4. [s EXCEPT ![i].text = x] = r.steps
  <2>1. s[i] = [r.steps[i] EXCEPT !.text = received[t]]
    BY <1>1, <1>2
  <2>2. [s[i] EXCEPT !.text = x] = r.steps[i]
    BY <1>1, <2>1 DEF Step
  <2>3. [s EXCEPT ![i].text = x] = [s EXCEPT ![i] = r.steps[i]]
    BY <2>2
  <2>4. [s EXCEPT ![i] = r.steps[i]] = [r.steps EXCEPT ![i] = r.steps[i]]
    BY <1>1, <1>2
  <2>5. [r.steps EXCEPT ![i] = r.steps[i]] = r.steps
    BY <1>1, <1>2
  <2>6. QED
    BY <2>3, <2>4, <2>5
<1>5. [Flushed(t) EXCEPT !.steps[i].text = x] = r
  <2>1. Flushed(t).steps = s
    BY <1>1
  <2>2. [Flushed(t) EXCEPT !.steps[i].text = x] =
           [Flushed(t) EXCEPT !.steps = [Flushed(t).steps EXCEPT ![i].text = x]]
    OBVIOUS
  <2>3. [Flushed(t) EXCEPT !.steps[i].text = x] = [Flushed(t) EXCEPT !.steps = r.steps]
    BY <1>4, <2>1, <2>2
  <2>4. [Flushed(t) EXCEPT !.steps = r.steps] = [content |-> r.content, steps |-> r.steps]
    <3> HIDE DEF s
    <3>1. QED
      BY <1>1
  <2>5. [content |-> r.content, steps |-> r.steps] = r
    BY <1>2 DEF Reply
  <2>6. QED
    BY <2>3, <2>4, <2>5
<1>6. QED
  BY <1>3, <1>5

LEMMA FrameStepInv == ASSUME IInv, Typed', NEW t \in Turns, Frame(t) PROVE IInv'
<1>1. UNCHANGED <<messages, store, control, sent, phase, kind, received, typing>>
  BY DEF Frame
<1>2. /\ \A u \in Turns : frame'[u] => frame[u] /\ u # t
      /\ \A u \in Turns \ {t} : reply'[u] = reply[u]
      /\ phase[t] = "over" =>
            \/ reply'[t] = reply[t]
            \/ kind[t] = "agent" /\ typing[t] # 0 /\ reply'[t] = Flushed(t)
  BY FrameReply
<1>3. OneTurnAtATime' /\ Fresh' /\ ListInv'
  BY <1>1 DEF IInv, OneTurnAtATime, Fresh, ListInv, Streamed, Live, store, control
<1>4. FrameInv'
  BY <1>1, <1>2 DEF IInv, FrameInv
<1>5. SettledStored'
  <2> SUFFICES ASSUME ~unsaved', NEW u \in Turns, phase'[u] = "over"
               PROVE  stored'.reply[u] = reply'[u] \/ TextBehind(u)'
    BY DEF SettledStored
  <2>1. stored.reply[u] = reply[u] \/ TextBehind(u)
    BY <1>1 DEF IInv, SettledStored, store
  <2>2. frame'[u] \in BOOLEAN /\ frame[u] \in BOOLEAN
    BY DEF IInv, Typed, TypeOK
  <2>3. CASE reply'[u] = reply[u]
    BY <1>1, <1>2, <2>1, <2>2, <2>3 DEF TextBehind, store
  <2>4. CASE reply'[u] # reply[u]
    <3>1. u = t /\ kind[t] = "agent" /\ typing[t] # 0 /\ reply'[t] = Flushed(t)
      BY <1>1, <1>2, <2>4
    <3>2. stored.reply[t] = reply[t]
      BY <2>1, <3>1 DEF TextBehind, Frame
    <3>3. PICK shorter \in Text :
             reply[t] = [Flushed(t) EXCEPT !.steps[typing[t]].text = shorter]
      BY <3>1, FlushedIsBehind DEF IInv
    <3>4. stored'.reply[t] = [reply'[t] EXCEPT !.steps[typing'[t]].text = shorter]
      BY <1>1, <3>1, <3>2, <3>3 DEF store
    <3>5. kind'[t] = "agent" /\ typing'[t] # 0 /\ ~frame'[t]
      BY <1>1, <1>2, <3>1
    <3>6. QED
      BY <3>1, <3>4, <3>5 DEF TextBehind
  <2>5. QED
    BY <2>3, <2>4
<1>6. QED
  BY <1>3, <1>4, <1>5 DEF IInv

\* The end of a turn: what is on the page is stored.
LEMMA FinishInv ==
    ASSUME IInv, Typed', NEW t \in Turns, Live(t), NEW c \in Text \cup {ErrorText},
           kind[t] = "chat" /\ received[t] # 0 => c = received[t],
           FinishStream(t, WithContent(t, c))
    PROVE  IInv'
<1>1. \A u \in Turns : reply'[u].content = IF u = t /\ kind[t] = "chat" THEN c
                                           ELSE reply[u].content
  BY ContentTyped DEF IInv, Typed, FinishStream
<1>2. \A u \in Turns : phase'[u] = IF u = t THEN "over" ELSE phase[u]
  BY DEF IInv, Typed, TypeOK, FinishStream
<1>3. /\ ~unsaved' => stored'.reply = reply' /\ stored'.list = messages
      /\ UNCHANGED <<messages, sent, kind, received, frame>>
      /\ ~streaming'
      /\ abort' = 0
  BY DEF FinishStream, Persist
<1>4. OneTurnAtATime'
  BY <1>2, <1>3 DEF IInv, OneTurnAtATime, Live
<1>5. Fresh'
  BY <1>2, <1>3 DEF IInv, Fresh, Live
<1>6. FrameInv'
  BY <1>1, <1>2, <1>3 DEF IInv, FrameInv
<1>7. SettledStored' /\ ListInv'
  BY <1>3 DEF SettledStored, ListInv
<1>8. QED
  BY <1>4, <1>5, <1>6, <1>7 DEF IInv

LEMMA SendInv == ASSUME IInv, Typed', NEW k \in {"chat", "agent"}, Send(k) PROVE IInv'
<1> DEFINE t == sent + 1
<1>1. t \in Turns /\ phase[t] = "none" /\ ~frame[t]
  BY ConstantsAssumption DEF IInv, Typed, TypeOK, Send, Turns, Fresh, FrameInv
<1>2. \A u \in Turns : ~Live(u)
  BY DEF IInv, OneTurnAtATime, Send
<1>3. /\ \A u \in Turns : phase'[u] = IF u = t THEN "live" ELSE phase[u]
      /\ \A u \in Turns : u # t => kind'[u] = kind[u]
      /\ UNCHANGED <<reply, received, frame>>
      /\ sent' = t
      /\ abort' = t
      /\ streaming'
      /\ ~unsaved' => stored'.reply = reply
  BY <1>1 DEF IInv, Typed, TypeOK, Send, StartTurn, Persist
<1>4. OneTurnAtATime'
  BY <1>1, <1>2, <1>3 DEF OneTurnAtATime, Live, Turns
<1>5. Fresh'
  BY <1>1, <1>3 DEF IInv, Fresh, Typed, TypeOK, Turns
<1>6. FrameInv'
  BY <1>1, <1>3 DEF IInv, FrameInv
<1>7. SettledStored'
  BY <1>3 DEF SettledStored
<1>8. ListInv'
  <2> DEFINE q == Said("user", t)
             a == Said("assistant", t)
  <2> SUFFICES ASSUME ~unsaved'
               PROVE  \A i \in DOMAIN messages' :
                         \/ Streamed(i)'
                         \/ i \in DOMAIN stored'.list /\ stored'.list[i] = messages'[i]
    BY DEF ListInv
  <2>1. messages \in Seq(Message) /\ q \in Message /\ a \in Message
    BY <1>1 DEF IInv, Typed, TypeOK, Said, Message
  <2>2. <<q, a>> \in Seq(Message) /\ Len(<<q, a>>) = 2 /\ <<q, a>>[1] = q /\ <<q, a>>[2] = a
    BY <2>1
  <2>3. /\ Len(messages) \in Nat
        /\ DOMAIN messages' = 1..(Len(messages) + 2)
        /\ \A i \in 1..Len(messages) : messages'[i] = messages[i]
        /\ messages'[Len(messages) + 1] = q
        /\ messages'[Len(messages) + 2] = a
    BY <2>1, <2>2, ConcatProperties, LenProperties DEF Send, StartTurn
  <2>4. stored'.list = Append(messages, q)
    BY DEF Send, Persist
  <2>5. /\ DOMAIN stored'.list = 1..(Len(messages) + 1)
        /\ \A i \in 1..Len(messages) : stored'.list[i] = messages[i]
        /\ stored'.list[Len(messages) + 1] = q
    BY <2>1, <2>4, LenProperties
  <2>6. \A i \in 1..(Len(messages) + 2) :
           i \in 1..Len(messages) \/ i = Len(messages) + 1 \/ i = Len(messages) + 2
    BY <2>3
  <2>7. \A i : i = Len(messages) + 2 => Streamed(i)'
    BY <1>3, <2>3 DEF Streamed, Said
  <2>8. QED
    BY <2>3, <2>5, <2>6, <2>7
<1>9. QED
  BY <1>4, <1>5, <1>6, <1>7, <1>8 DEF IInv

LEMMA NewChatInv == ASSUME IInv, Typed', NewChat PROVE IInv'
<1>1. UNCHANGED <<reply, control, sent, phase, kind, received, frame>>
  BY DEF NewChat
<1>2. OneTurnAtATime' /\ Fresh' /\ FrameInv'
  BY <1>1 DEF IInv, OneTurnAtATime, Fresh, FrameInv, Live, control
<1>3. SettledStored'
  BY <1>1 DEF SettledStored, NewChat, Persist
<1>4. ListInv'
  BY DEF ListInv, NewChat, Persist
<1>5. QED
  BY <1>2, <1>3, <1>4 DEF IInv

LEMMA ReloadInv == ASSUME IInv, Typed', Reload PROVE IInv'
<1>1. /\ UNCHANGED <<stored, sent>>
      /\ reply' = stored.reply
      /\ ~streaming'
      /\ abort' = 0
      /\ \A u \in Turns : ~frame'[u] /\ phase'[u] = IF Live(u) THEN "over" ELSE phase[u]
  BY DEF Reload
<1>2. OneTurnAtATime'
  BY <1>1 DEF OneTurnAtATime, Live
<1>3. Fresh'
  BY <1>1 DEF IInv, Fresh, Live
<1>4. FrameInv' /\ SettledStored'
  BY <1>1 DEF FrameInv, SettledStored
<1>5. ListInv'
  <2>1. PICK n \in 0..Len(stored.list) : messages' = SubSeq(stored.list, 1, n)
    BY DEF Reload
  <2>2. stored.list \in Seq(Message)
    BY DEF IInv, Typed, TypeOK
  <2>3. Len(stored.list) \in Nat /\ DOMAIN stored.list = 1..Len(stored.list)
    BY <2>2, LenProperties
  <2>4. \A i \in 1..n : stored.list[i] \in Message
    BY <2>1, <2>2, <2>3, ElementOfSeq
  <2>5. /\ messages' \in Seq(Message)
        /\ Len(messages') = n
        /\ \A i \in 1..n : messages'[i] = stored.list[i]
    BY <2>1, <2>3, <2>4, SubSeqProperties
  <2>6. DOMAIN messages' = 1..n
    BY <2>5, LenProperties
  <2>7. QED
    BY <1>1, <2>3, <2>5, <2>6 DEF ListInv
<1>6. QED
  BY <1>2, <1>3, <1>4, <1>5 DEF IInv

LEMMA NextInv == IInv /\ [Next]_vars => IInv'
<1> SUFFICES ASSUME IInv, [Next]_vars PROVE IInv'
  OBVIOUS
<1>1. Typed'
  BY StepTyped DEF IInv
<1>2. ASSUME UNCHANGED <<transcript, control, sent, phase, kind, received, typing, frame>>
      PROVE  IInv'
  BY <1>1, <1>2 DEF IInv, OneTurnAtATime, Fresh, FrameInv, SettledStored, TextBehind, ListInv,
                    Streamed, Live, transcript, store, control
<1>3. Stop \/ UNCHANGED vars =>
         UNCHANGED <<transcript, control, sent, phase, kind, received, typing, frame>>
  BY DEF Stop, vars, closures
<1>4. ASSUME NEW t \in Turns, Resolve(t) \/ Reject(t) PROVE IInv'
  <2>1. PICK c \in Text \cup {ErrorText} :
           /\ received[t] # 0 => c = received[t]
           /\ FinishStream(t, WithContent(t, c))
    BY <1>4 DEF Resolve, Reject, IInv, Typed, TypeOK
  <2>2. Live(t)
    BY <1>4 DEF Resolve, Reject, Reading
  <2>3. QED
    BY <1>1, <2>1, <2>2, FinishInv
<1>5. QED
  BY <1>1, <1>2, <1>3, <1>4, SendInv, NewChatInv, ReloadInv, StreamInv, FrameStepInv DEF Next

LEMMA InitInv == Init => IInv
  BY InitTyped DEF Init, IInv, OneTurnAtATime, Fresh, FrameInv, SettledStored, ListInv, Live

LEMMA Invariant == Spec => []IInv
  BY InitInv, NextInv, PTL DEF Spec

-----------------------------------------------------------------------------
\* At any time one turn at most is streaming, and the stop button is its own.
THEOREM TurnsAreSerial == Spec => []OneTurnAtATime
<1>1. IInv => OneTurnAtATime
  BY DEF IInv
<1>2. QED
  BY <1>1, Invariant, PTL

\* Unless the last persist failed, a reload at any time brings back every
\* question and every finished answer with its content and its steps, save the
\* end of a text that a late frame wrote, and save empty answers at the end.
THEOREM ReloadIsSafe == Spec => []ReloadKeeps
<1>1. IInv => ReloadKeeps
  <2> SUFFICES ASSUME IInv, ~unsaved, NEW i \in DOMAIN messages,
                      messages[i].role = "user" \/ phase[messages[i].turn] = "over"
               PROVE  LET m == messages[i]
                      IN  /\ i \in DOMAIN stored.list
                          /\ stored.list[i] = m
                          /\ Dropped(i) => m.role = "assistant" /\ reply[m.turn].content = 0
                          /\ m.role = "assistant" =>
                                stored.reply[m.turn] = reply[m.turn] \/ TextBehind(m.turn)
    BY DEF ReloadKeeps
  <2> DEFINE t == messages[i].turn
  <2>1. messages[i] \in Message
    BY LenProperties, ElementOfSeq DEF IInv, Typed, TypeOK
  <2>2. t \in Turns
    BY <2>1 DEF Message
  <2>3. ~Streamed(i)
    BY <2>1, <2>2 DEF IInv, OneTurnAtATime, Streamed, Live, Message
  <2>4. i \in DOMAIN stored.list /\ stored.list[i] = messages[i]
    BY <2>3 DEF IInv, ListInv
  <2>5. messages[i].role = "assistant" => stored.reply[t] = reply[t] \/ TextBehind(t)
    BY <2>2 DEF IInv, SettledStored, Message
  <2>6. ASSUME Dropped(i) PROVE messages[i].role = "assistant" /\ reply[t].content = 0
    <3>1. i \in i..Len(stored.list)
      <4>1. stored.list \in Seq(Message)
        BY DEF IInv, Typed, TypeOK
      <4>2. QED
        BY <2>4, <4>1, LenProperties
    <3>2. messages[i].role = "assistant" /\ stored.reply[t].content = 0
      BY <2>4, <2>6, <3>1 DEF Dropped, Empty
    <3>3. CASE stored.reply[t] = reply[t]
      BY <3>2, <3>3
    <3>4. CASE TextBehind(t)
      <4>1. PICK x \in Text : stored.reply[t] = [reply[t] EXCEPT !.steps[typing[t]].text = x]
        BY <3>4 DEF TextBehind
      <4>2. stored.reply[t] = [content |-> reply[t].content,
                               steps |-> [reply[t].steps EXCEPT ![typing[t]].text = x]]
        BY <2>2, <3>4, <4>1, FlushedSteps DEF IInv, TextBehind
      <4>3. QED
        BY <3>2, <4>2
    <3>5. QED
      BY <2>5, <3>2, <3>3, <3>4
  <2>7. QED
    BY <2>4, <2>5, <2>6
<1>2. QED
  BY <1>1, Invariant, PTL

Rewritten(t) ==
    \/ /\ kind[t] = "agent" /\ typing[t] # 0
       /\ frame[t] /\ ~frame'[t]
       /\ reply'[t] = Flushed(t)
    \/ /\ reply' = stored.reply
       /\ unsaved \/ TextBehind(t)

\* What a step of the page may do to an answer that is finished.
LEMMA AnswerKept ==
    ASSUME IInv, Next, NEW t \in Turns, phase[t] = "over"
    PROVE  reply'[t] = reply[t] \/ Rewritten(t)
<1>1. CASE Reload
  BY <1>1 DEF IInv, SettledStored, Reload, Rewritten
<1>2. ASSUME NEW u \in Turns, Frame(u) PROVE reply'[t] = reply[t] \/ Rewritten(t)
  BY <1>2, FrameReply DEF Frame, Rewritten
<1>3. ASSUME NEW u \in Turns, Resolve(u) \/ Reject(u)
      PROVE  reply'[t] = reply[t]
  <2>1. u # t
    BY <1>3 DEF Resolve, Reject, Reading, Live
  <2>2. PICK c : reply' = WithContent(u, c)
    BY <1>3 DEF Resolve, Reject, FinishStream
  <2>3. QED
    BY <2>1, <2>2 DEF WithContent, IInv, Typed, TypeOK
<1>4. ASSUME NEW u \in Turns,
             \/ AgentDelta(u)
             \/ \E clean \in Text : AssistantText(u, clean)
             \/ ToolStart(u)
             \/ ToolOutput(u)
      PROVE  reply'[t] = reply[t]
  <2>1. u # t
    BY <1>4 DEF AgentDelta, AssistantText, ToolStart, ToolOutput, Reading, Live
  <2>2. QED
    BY <1>4, <2>1 DEF AgentDelta, AssistantText, ToolStart, ToolOutput, SetSteps, IInv, Typed,
                      TypeOK
<1>5. ASSUME NEW u \in Turns, ChatDelta(u) \/ AgentStep(u) PROVE UNCHANGED reply
  BY <1>5 DEF ChatDelta, AgentStep, transcript
<1>6. ASSUME \/ \E k \in {"chat", "agent"} : Send(k)
             \/ Stop
             \/ NewChat
      PROVE  UNCHANGED reply
  BY <1>6 DEF Send, StartTurn, Stop, NewChat, transcript
<1>7. QED
  BY <1>1, <1>2, <1>3, <1>4, <1>5, <1>6 DEF Next

\* A finished answer is rewritten by the one frame that was pending when an
\* agent turn ended in the middle of a text, by a reload after that, and by a
\* reload after a persist that failed; by nothing else.
THEOREM FinishedAnswersStay == Spec => AnswersAreFinal
<1> DEFINE Kept ==
       \A t \in Turns : phase[t] = "over" /\ reply'[t] # reply[t] => Rewritten(t)
<1>1. IInv /\ [Next]_vars => [Kept]_vars
  BY AnswerKept
<1>2. QED
  BY <1>1, Invariant, PTL DEF Spec, AnswersAreFinal, Rewritten
=============================================================================
