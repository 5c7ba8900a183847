-------------------------- MODULE ModelEngine_proofs --------------------------
(***************************************************************************)
(* Theorems about ModelEngine, for every set of tiers, contexts and        *)
(* threads and any number of loads.                                        *)
(***************************************************************************)
EXTENDS ModelEngine, TLAPS

-----------------------------------------------------------------------------
(***************************************************************************)
(* Type correctness.                                                       *)
(***************************************************************************)
LEMMA NothingTyped ==
  /\ NoBackend \in Backend
  /\ NoChoice \in Choice
  /\ "none" \in Weights
BY DEF NoBackend, Backend, Weights, NoChoice, Choice, TierOrNone, ContextOrNone

\* A process that has just started is well typed.
LEMMA InitTyped == Init => TypeOK
<1> SUFFICES ASSUME Init PROVE TypeOK
  OBVIOUS
<1> USE ConstantsAssumption, NothingTyped DEF Init
<1>1. made \in 0..MaxLoads /\ backend \in [Backends -> Backend]
  OBVIOUS
<1>2. choice \in Choice /\ copy \in [Threads -> Choice]
  OBVIOUS
<1>3. hold \in [Threads -> Engine \cup {NoEngine}]
  OBVIOUS
<1>4. QED
  BY <1>1, <1>2, <1>3 DEF TypeOK, TierOrNone, ContextOrNone, Phase

\* What a call leaves behind when it returns.
LEMMA ReturnTyped ==
  ASSUME TypeOK, NEW w \in Threads, Return(w)
  PROVE  /\ pc' \in [Threads -> Phase]
         /\ jtier' \in [Threads -> TierOrNone]
         /\ jcontext' \in [Threads -> ContextOrNone]
         /\ mine' \in [Threads -> Backends \cup {0}]
         /\ copy' \in [Threads -> Choice]
         /\ hold' \in [Threads -> Engine \cup {NoEngine}]
         /\ using' \in [Threads -> Weights]
BY NothingTyped DEF TypeOK, Return, Forget, Goto, Phase, TierOrNone, ContextOrNone

\* What get_engine leaves behind.
LEMMA ForgetTyped ==
  ASSUME TypeOK, NEW w \in Threads, Forget(w)
  PROVE  /\ jtier' \in [Threads -> TierOrNone]
         /\ jcontext' \in [Threads -> ContextOrNone]
         /\ mine' \in [Threads -> Backends \cup {0}]
         /\ copy' \in [Threads -> Choice]
BY NothingTyped DEF TypeOK, Forget, TierOrNone, ContextOrNone

\* A call that has saved the choice leaves typed locals and a typed lock.
LEMMA SavedTyped ==
  ASSUME TypeOK, NEW w \in Threads, Saved(w)
  PROVE  /\ mlock' \in Loaders \cup Chats \cup {NoOne}
         /\ pc' \in [Threads -> Phase]
         /\ jtier' \in [Threads -> TierOrNone]
         /\ jcontext' \in [Threads -> ContextOrNone]
         /\ mine' \in [Threads -> Backends \cup {0}]
         /\ copy' \in [Threads -> Choice]
         /\ hold' \in [Threads -> Engine \cup {NoEngine}]
         /\ using' \in [Threads -> Weights]
<1>1. mlock' \in Loaders \cup Chats \cup {NoOne}
  BY DEF TypeOK, Saved
<1>2. CASE Return(w)
  BY <1>1, <1>2, ReturnTyped
<1>3. CASE /\ Goto(w, "wrap")
           /\ jcontext' = [jcontext EXCEPT ![w] = NoContext]
           /\ copy' = [copy EXCEPT ![w] = NoChoice]
           /\ UNCHANGED <<jtier, mine, hold, using>>
  BY <1>1, <1>3, NothingTyped DEF TypeOK, Goto, Phase, ContextOrNone
<1>4. QED
  BY <1>2, <1>3 DEF Saved

\* Entering a load keeps the types.
LEMMA BeginTyped ==
  ASSUME TypeOK, NEW w \in Loaders \cup Chats, NEW t \in Tiers,
         NEW c \in ContextOrNone, Begin(w, t, c)
  PROVE  TypeOK'
<1>1. Stored(t) \in ContextOrNone
  BY ConstantsAssumption DEF TypeOK, Stored, Choice, ContextOrNone
<1>2. w \in Threads
  BY DEF Threads
<1>3. jtier' \in [Threads -> TierOrNone] /\ jcontext' \in [Threads -> ContextOrNone]
  BY <1>1, <1>2 DEF TypeOK, Begin, TierOrNone
<1>4. pc' \in [Threads -> Phase]
  BY <1>2 DEF TypeOK, Begin, Goto, Phase
<1>5. QED
  BY <1>3, <1>4 DEF TypeOK, Begin, backends, provider

\* A step of a load or of a save keeps the types.
LEMMA LoadStepTyped == ASSUME TypeOK, NEW w \in Threads, LoadStep(w) PROVE TypeOK'
<1> USE ConstantsAssumption
<1>1. CASE LoadRaises(w)
  BY <1>1, ReturnTyped DEF TypeOK, LoadRaises, backends
<1>2. CASE Unload(w)
  <2>1. backend' \in [Backends -> Backend]
    BY <1>2 DEF TypeOK, Unload, Backend, Weights
  <2>2. QED
    BY <1>2, <2>1 DEF TypeOK, Unload, Goto, Phase, provider, local
<1>3. CASE MakeBackend(w)
  <2>1. made + 1 \in Backends
    BY <1>3 DEF TypeOK, MakeBackend, Backends
  <2>2. [model |-> "seeded", tier |-> jtier[w], context |-> jcontext[w]] \in Backend
    BY DEF TypeOK, Backend, Weights
  <2>3. backend' \in [Backends -> Backend]
    BY <1>3, <2>1, <2>2 DEF TypeOK, MakeBackend
  <2>4. made' \in 0..MaxLoads /\ mine' \in [Threads -> Backends \cup {0}]
    BY <1>3, <2>1 DEF TypeOK, MakeBackend, Backends
  <2>5. QED
    BY <1>3, <2>3, <2>4 DEF TypeOK, MakeBackend, Goto, Phase, manager, provider
<1>4. CASE Publish(w)
  BY <1>4 DEF TypeOK, Publish, Goto, Phase, backends, provider, local
<1>5. CASE Name(w)
  BY <1>5 DEF TypeOK, Name, Goto, Phase, backends, provider, local
<1>6. CASE Recall(w)
  <2>1. [tier |-> jtier[w],
         context |-> [choice.context EXCEPT ![jtier[w]] = jcontext[w]]] \in Choice
    BY DEF TypeOK, Choice
  <2>2. QED
    BY <1>6, <2>1 DEF TypeOK, Recall, Goto, Phase, manager, backends, provider
<1>7. CASE Truncate(w)
  <2>1. CASE choice' = NoChoice /\ Goto(w, "write") /\ UNCHANGED <<mlock, local>>
    BY <1>7, <2>1, NothingTyped
    DEF TypeOK, Truncate, Goto, Phase, backends, provider, local
  <2>2. CASE Saved(w) /\ UNCHANGED choice
    BY <1>7, <2>2, SavedTyped DEF TypeOK, Truncate, backends, provider
  <2>3. QED
    BY <1>7, <2>1, <2>2 DEF Truncate
<1>8. CASE Write(w)
  <2>1. choice' \in Choice
    BY <1>8, NothingTyped DEF TypeOK, Write
  <2>2. QED
    BY <1>8, <2>1, SavedTyped DEF TypeOK, Write, backends, provider
<1>9. QED
  BY <1>1, <1>2, <1>3, <1>4, <1>5, <1>6, <1>7, <1>8 DEF LoadStep

-----------------------------------------------------------------------------
(***************************************************************************)
(* The inductive invariant: who holds which lock, what a thread inside a   *)
(* lock has done so far, and in which order the backends are referred to.  *)
(***************************************************************************)
LoadPhase == {"ensure", "load", "publish", "name", "recall"}
SavePhase == {"truncate", "write"}
ChatPhase == {"look", "peek", "label", "build", "wrap", "use", "decode", "count"}
Loading(w) == pc[w] \in LoadPhase \/ (pc[w] \in SavePhase /\ w \notin Tuners)
Wrapping(w) == pc[w] \in {"peek", "label", "wrap"}

\* A thread in a load holds the manager's lock, a chat inside get_engine the
\* provider's.
Locked(w) ==
    /\ pc[w] \in ChatPhase => w \in Chats
    /\ pc[w] \in LoadPhase => w \notin Tuners
    /\ Loading(w) => mlock = w
    /\ w \in Chats /\ pc[w] \notin {"idle", "use", "decode", "count"} => elock = w

\* A load knows its tier, and once it has made a backend, that is the newest.
LoadInv(w) ==
    /\ Loading(w) \/ pc[w] \in {"build", "wrap"} => jtier[w] \in Tiers
    /\ Loading(w) /\ pc[w] \notin {"ensure", "load"} => mine[w] = made /\ made > 0
    /\ Loading(w) /\ pc[w] \notin {"ensure", "load", "publish"} => active = made
    /\ pc[w] \in {"publish", "name"} =>
          /\ backend[made].model # "none"
          /\ backend[made].tier = jtier[w]
          /\ backend[made].context = jcontext[w]

\* A chat about to cache an engine wraps a backend between the cached one and
\* the active one.
WrapInv(w) ==
    /\ mine[w] <= made
    /\ Wrapping(w) =>
          /\ mine[w] > 0
          /\ engine.backend <= mine[w]
          /\ active # 0 => mine[w] <= active
    /\ pc[w] = "label" => hold[w].backend = mine[w]
    /\ pc[w] = "use" => hold[w].backend > 0

ActiveInv ==
    /\ active <= made
    /\ engine.backend <= made
    /\ active # 0 =>
          /\ engine.backend <= active
          /\ backend[active].model # "none"
          /\ (\A w \in Threads : pc[w] # "name") =>
                /\ backend[active].tier = mtier
                /\ backend[active].context = mcontext

IInv ==
    /\ ActiveInv
    /\ \A w \in Threads : Locked(w) /\ LoadInv(w) /\ WrapInv(w)

\* A step of a chat keeps the types.
LEMMA ChatStepTyped == ASSUME TypeOK, IInv, NEW w \in Threads, ChatStep(w) PROVE TypeOK'
<1> USE ConstantsAssumption
<1>1. CASE UseCached(w)
  BY <1>1, ForgetTyped DEF TypeOK, UseCached, Take, Goto, Phase, manager, backends
<1>2. CASE SeeSwitch(w)
  BY <1>2 DEF TypeOK, SeeSwitch, Goto, Phase, manager, backends, provider
<1>3. CASE Peek(w)
  <2>1. mine[w] \in Backends
    BY <1>3 DEF TypeOK, IInv, WrapInv, Wrapping, Peek, Backends
  <2>2. [backend |-> mine[w], tier |-> NoTier, loaded |-> backend[mine[w]].model]
          \in Engine
    BY <2>1 DEF TypeOK, Engine, Backend, TierOrNone
  <2>3. QED
    BY <1>3, <2>2 DEF TypeOK, Peek, Goto, Phase, manager, backends, provider
<1>4. CASE Label(w)
  <2>1. hold[w] \in Engine
    BY <1>4 DEF TypeOK, IInv, WrapInv, Wrapping, Label, Backends, NoEngine
  <2>2. [hold[w] EXCEPT !.tier = mtier] \in Engine
    BY <2>1 DEF TypeOK, Engine
  <2>3. QED
    BY <1>4, <2>2, ForgetTyped DEF TypeOK, Label, Take, Goto, Phase, manager, backends
<1>5. CASE RaiseCached(w)
  BY <1>5, ReturnTyped DEF TypeOK, RaiseCached, manager, backends
<1>6. CASE StartBuild(w)
  <2>1. jtier' \in [Threads -> TierOrNone]
    BY <1>6 DEF TypeOK, StartBuild, Choice, TierOrNone
  <2>2. QED
    BY <1>6, <2>1 DEF TypeOK, StartBuild, Goto, Phase, manager, backends, provider
<1>7. CASE BuildLoad(w)
  <2>1. w \in Chats /\ jtier[w] \in Tiers
    BY <1>7 DEF IInv, Locked, LoadInv, ChatPhase, BuildLoad
  <2>2. NoContext \in ContextOrNone
    BY DEF ContextOrNone
  <2>3. QED
    BY <1>7, <2>1, <2>2, BeginTyped DEF BuildLoad
<1>8. CASE Wrap(w)
  <2>1. mine[w] \in Backends
    BY <1>8 DEF TypeOK, IInv, WrapInv, Wrapping, Wrap, Backends
  <2>2. [backend |-> mine[w], tier |-> jtier[w], loaded |-> backend[mine[w]].model]
          \in Engine
    BY <2>1 DEF TypeOK, Engine, Backend
  <2>3. QED
    BY <1>8, <2>2, ForgetTyped DEF TypeOK, Wrap, Take, Goto, Phase, manager, backends
<1>9. CASE Stream(w)
  <2>1. CASE Goto(w, "decode") /\ UNCHANGED local
    BY <1>9, <2>1 DEF TypeOK, Stream, Goto, Phase, manager, backends, provider, local
  <2>2. CASE Return(w)
    BY <1>9, <2>2, ReturnTyped DEF TypeOK, Stream, manager, backends, provider
  <2>3. QED
    BY <1>9, <2>1, <2>2 DEF Stream
<1>10. CASE NonStream(w)
  <2>1. hold[w].backend \in Backends
    BY <1>10 DEF TypeOK, IInv, WrapInv, NonStream, Engine, NoEngine, Backends
  <2>2. backend' \in [Backends -> Backend]
    BY <1>10 DEF TypeOK, NonStream, EnsureLoaded, Backend, Weights
  <2>3. CASE /\ using' = [using EXCEPT ![w] = backend'[hold[w].backend].model]
             /\ Goto(w, "count")
             /\ UNCHANGED <<jtier, jcontext, mine, copy, hold>>
    <3>1. backend'[hold[w].backend].model \in Weights
      BY <2>1, <2>2 DEF Backend
    <3>2. QED
      BY <1>10, <2>2, <2>3, <3>1 DEF TypeOK, NonStream, Goto, Phase, manager, provider
  <2>4. CASE Return(w)
    BY <1>10, <2>2, <2>4, ReturnTyped DEF TypeOK, NonStream, manager, provider
  <2>5. QED
    BY <1>10, <2>3, <2>4 DEF NonStream
<1>11. CASE CountUsage(w)
  <2>1. backend' \in [Backends -> Backend]
    BY <1>11 DEF TypeOK, CountUsage, EnsureLoaded, Backend, Weights
  <2>2. QED
    BY <1>11, <2>1, ReturnTyped DEF TypeOK, CountUsage, manager, provider
<1>12. CASE EndChat(w)
  BY <1>12, ReturnTyped DEF TypeOK, EndChat, manager, backends, provider
<1>13. QED
  BY <1>1, <1>2, <1>3, <1>4, <1>5, <1>6, <1>7, <1>8, <1>9, <1>10, <1>11, <1>12
  DEF ChatStep

\* Every step keeps the types.
LEMMA StepTyped == TypeOK /\ IInv /\ [Next]_vars => TypeOK'
<1> SUFFICES ASSUME TypeOK, IInv, [Next]_vars PROVE TypeOK'
  OBVIOUS
<1> USE ConstantsAssumption
<1>1. ASSUME NEW w \in Threads, NEW t \in Tiers, NEW c \in ContextOrNone,
             RouteLoad(w, t, c)
      PROVE  TypeOK'
  BY <1>1, BeginTyped DEF RouteLoad, ContextOrNone
<1>2. ASSUME NEW w \in Threads, NEW t \in Tiers, NEW c \in Contexts, Tune(w, t, c)
      PROVE  TypeOK'
  <2>1. [choice EXCEPT !.context[t] = c] \in Choice
    BY DEF TypeOK, Choice, ContextOrNone
  <2>2. QED
    BY <1>2, <2>1 DEF TypeOK, Tune, Goto, Phase, TierOrNone, ContextOrNone,
                      manager, backends, provider
<1>3. ASSUME NEW w \in Threads, Enter(w) PROVE TypeOK'
  BY <1>3 DEF TypeOK, Enter, Goto, Phase, manager, backends, local
<1>4. CASE Crash
  <2>1. made' \in 0..MaxLoads /\ backend' \in [Backends -> Backend]
    BY <1>4, NothingTyped DEF Crash
  <2>2. QED
    BY <1>4, <2>1, NothingTyped
    DEF Crash, TypeOK, TierOrNone, ContextOrNone, Phase
<1>5. CASE UNCHANGED vars
  BY <1>5 DEF TypeOK, vars, manager, backends, provider, local
<1>6. QED
  BY <1>1, <1>2, <1>3, <1>4, <1>5, LoadStepTyped, ChatStepTyped
  DEF Next, Request, ContextOrNone

-----------------------------------------------------------------------------
(***************************************************************************)
(* The invariant is inductive.                                             *)
(***************************************************************************)
LEMMA InitInv == Init => IInv
BY ConstantsAssumption
DEF Init, IInv, ActiveInv, Locked, LoadInv, WrapInv, Loading, Wrapping,
    LoadPhase, SavePhase, ChatPhase, NoEngine

\* The invariant holds again after a crash: nothing is left to break it.
LEMMA CrashInv == Crash => IInv'
BY ConstantsAssumption
DEF Crash, IInv, ActiveInv, Locked, LoadInv, WrapInv, Loading, Wrapping,
    LoadPhase, SavePhase, ChatPhase, NoEngine

\* The numbers of backends are numbers.
LEMMA Numbers ==
  ASSUME TypeOK
  PROVE  /\ active \in Nat /\ made \in Nat /\ engine.backend \in Nat
         /\ \A w \in Threads : mine[w] \in Nat
BY ConstantsAssumption DEF TypeOK, Backends, Engine, NoEngine

\* No step of a load, and none of a save, breaks it.
LEMMA LoadStepInv ==
  ASSUME TypeOK, TypeOK', IInv, NEW w \in Threads, LoadStep(w)
  PROVE  IInv'
<1> USE ConstantsAssumption DEF NoEngine
<1>1. CASE LoadRaises(w)
  <2>1. ActiveInv'
    BY <1>1 DEF TypeOK, IInv, ActiveInv, Locked, LoadInv, WrapInv, Loading,
        Wrapping, LoadPhase, SavePhase, LoadRaises, Return, Forget, Goto, manager,
        backends, provider, local
  <2>2. \A v \in Threads : Locked(v)'
    BY <1>1 DEF TypeOK, IInv, Locked, Loading, LoadPhase, SavePhase,
        ChatPhase, LoadRaises, Return, Forget, Goto, manager, backends, provider,
        local
  <2>3. \A v \in Threads : LoadInv(v)'
    BY <1>1 DEF TypeOK, IInv, ActiveInv, Locked, LoadInv, Loading, LoadPhase,
        SavePhase, ChatPhase, LoadRaises, Return, Forget, Goto, manager, backends,
        provider, local
  <2>4. \A v \in Threads : WrapInv(v)'
    BY <1>1 DEF TypeOK, IInv, ActiveInv, Locked, LoadInv, WrapInv, Loading,
        Wrapping, LoadPhase, SavePhase, ChatPhase, LoadRaises, Return, Forget, Goto,
        manager, backends, provider, local
  <2>5. QED
    BY <2>1, <2>2, <2>3, <2>4 DEF IInv
<1>2. CASE Unload(w)
  <2>1. ActiveInv'
    BY <1>2 DEF TypeOK, IInv, ActiveInv, Locked, LoadInv, WrapInv, Loading,
        Wrapping, LoadPhase, SavePhase, Unload, Goto, manager, backends,
        provider, local
  <2>2. \A v \in Threads : Locked(v)'
    BY <1>2 DEF TypeOK, IInv, Locked, Loading, LoadPhase, SavePhase,
        ChatPhase, Unload, Goto, manager, backends, provider, local
  <2>3. \A v \in Threads : LoadInv(v)'
    BY <1>2 DEF TypeOK, IInv, ActiveInv, Locked, LoadInv, Loading, LoadPhase,
        SavePhase, ChatPhase, Unload, Goto, manager, backends, provider, local
  <2>4. \A v \in Threads : WrapInv(v)'
    BY <1>2 DEF TypeOK, IInv, ActiveInv, Locked, LoadInv, WrapInv, Loading,
        Wrapping, LoadPhase, SavePhase, ChatPhase, Unload, Goto, manager,
        backends, provider, local
  <2>5. QED
    BY <2>1, <2>2, <2>3, <2>4 DEF IInv
<1>3. CASE MakeBackend(w)
  <2>0. /\ made' = made + 1 /\ made + 1 \in Backends
        /\ backend'[made + 1] = [model |-> "seeded", tier |-> jtier[w],
                                 context |-> jcontext[w]]
        /\ \A b \in Backends : b <= made => backend'[b] = backend[b]
    BY <1>3 DEF TypeOK, MakeBackend, Backends
  <2>1. ActiveInv'
    <3>1. UNCHANGED <<active, mtier, mcontext, engine>>
      BY <1>3 DEF MakeBackend, manager, provider
    <3>2. active # 0 => active \in Backends /\ backend'[active] = backend[active]
      BY <2>0 DEF TypeOK, IInv, ActiveInv
    <3>3. (\A v \in Threads : pc'[v] # "name") => \A v \in Threads : pc[v] # "name"
      BY <1>3 DEF TypeOK, MakeBackend, Goto
    <3>4. active <= made' /\ engine.backend <= made'
      BY <2>0, Numbers DEF IInv, ActiveInv
    <3>5. QED
      BY <3>1, <3>2, <3>3, <3>4 DEF IInv, ActiveInv
  <2>2. \A v \in Threads : Locked(v)'
    BY <1>3 DEF TypeOK, IInv, Locked, Loading, LoadPhase, SavePhase,
        ChatPhase, MakeBackend, Goto, manager, backends, provider, local
  <2>3. \A v \in Threads : LoadInv(v)'
    BY <1>3, <2>0 DEF TypeOK, IInv, ActiveInv, Locked, LoadInv, Loading, LoadPhase,
        SavePhase, ChatPhase, MakeBackend, Goto, manager, backends, provider,
        local
  <2>4. \A v \in Threads : WrapInv(v)'
    <3>1. /\ UNCHANGED <<active, engine, hold>>
          /\ mine' = [mine EXCEPT ![w] = made + 1]
          /\ pc' = [pc EXCEPT ![w] = "publish"]
      BY <1>3 DEF MakeBackend, Goto, manager, provider
    <3>2. QED
      BY <2>0, <3>1, Numbers DEF TypeOK, IInv, WrapInv, Wrapping
<2>5. QED
    BY <2>1, <2>2, <2>3, <2>4 DEF IInv
<1>4. CASE Publish(w)
  <2>1. ActiveInv'
    BY <1>4 DEF TypeOK, IInv, ActiveInv, Locked, LoadInv, WrapInv, Loading,
        Wrapping, LoadPhase, SavePhase, Publish, Goto, manager, backends,
        provider, local
  <2>2. \A v \in Threads : Locked(v)'
    BY <1>4 DEF TypeOK, IInv, Locked, Loading, LoadPhase, SavePhase,
        ChatPhase, Publish, Goto, manager, backends, provider, local
  <2>3. \A v \in Threads : LoadInv(v)'
    BY <1>4 DEF TypeOK, IInv, ActiveInv, Locked, LoadInv, Loading, LoadPhase,
        SavePhase, ChatPhase, Publish, Goto, manager, backends, provider,
        local
  <2>4. \A v \in Threads : WrapInv(v)'
    BY <1>4 DEF TypeOK, IInv, ActiveInv, Locked, LoadInv, WrapInv, Loading,
        Wrapping, LoadPhase, SavePhase, ChatPhase, Publish, Goto, manager,
        backends, provider, local
  <2>5. QED
    BY <2>1, <2>2, <2>3, <2>4 DEF IInv
<1>5. CASE Name(w)
  <2>1. ActiveInv'
    BY <1>5 DEF TypeOK, IInv, ActiveInv, Locked, LoadInv, WrapInv, Loading,
        Wrapping, LoadPhase, SavePhase, Name, Goto, manager, backends,
        provider, local
  <2>2. \A v \in Threads : Locked(v)'
    BY <1>5 DEF TypeOK, IInv, Locked, Loading, LoadPhase, SavePhase,
        ChatPhase, Name, Goto, manager, backends, provider, local
  <2>3. \A v \in Threads : LoadInv(v)'
    BY <1>5 DEF TypeOK, IInv, ActiveInv, Locked, LoadInv, Loading, LoadPhase,
        SavePhase, ChatPhase, Name, Goto, manager, backends, provider, local
  <2>4. \A v \in Threads : WrapInv(v)'
    BY <1>5 DEF TypeOK, IInv, ActiveInv, Locked, LoadInv, WrapInv, Loading,
        Wrapping, LoadPhase, SavePhase, ChatPhase, Name, Goto, manager,
        backends, provider, local
  <2>5. QED
    BY <2>1, <2>2, <2>3, <2>4 DEF IInv
<1>6. CASE Recall(w)
  <2>1. ActiveInv'
    BY <1>6 DEF TypeOK, IInv, ActiveInv, Locked, LoadInv, WrapInv, Loading,
        Wrapping, LoadPhase, SavePhase, Recall, Goto, manager, backends,
        provider, local
  <2>2. \A v \in Threads : Locked(v)'
    BY <1>6 DEF TypeOK, IInv, Locked, Loading, LoadPhase, SavePhase,
        ChatPhase, Recall, Goto, manager, backends, provider, local
  <2>3. \A v \in Threads : LoadInv(v)'
    BY <1>6 DEF TypeOK, IInv, ActiveInv, Locked, LoadInv, Loading, LoadPhase,
        SavePhase, ChatPhase, Recall, Goto, manager, backends, provider, local
  <2>4. \A v \in Threads : WrapInv(v)'
    BY <1>6 DEF TypeOK, IInv, ActiveInv, Locked, LoadInv, WrapInv, Loading,
        Wrapping, LoadPhase, SavePhase, ChatPhase, Recall, Goto, manager,
        backends, provider, local
  <2>5. QED
    BY <2>1, <2>2, <2>3, <2>4 DEF IInv
<1>7. CASE Truncate(w)
  <2>1. ActiveInv'
    BY <1>7 DEF TypeOK, IInv, ActiveInv, Locked, LoadInv, WrapInv, Loading,
        Wrapping, LoadPhase, SavePhase, Truncate, Saved, Return, Forget, Goto,
        manager, backends, provider, local
  <2>2. \A v \in Threads : Locked(v)'
    BY <1>7 DEF TypeOK, IInv, Locked, Loading, LoadPhase, SavePhase,
        ChatPhase, Truncate, Saved, Return, Forget, Goto, manager, backends, provider,
        local
  <2>3. \A v \in Threads : LoadInv(v)'
    BY <1>7 DEF TypeOK, IInv, ActiveInv, Locked, LoadInv, Loading, LoadPhase,
        SavePhase, ChatPhase, Truncate, Saved, Return, Forget, Goto, manager,
        backends, provider, local
  <2>4. \A v \in Threads : WrapInv(v)'
    BY <1>7 DEF TypeOK, IInv, ActiveInv, Locked, LoadInv, WrapInv, Loading,
        Wrapping, LoadPhase, SavePhase, ChatPhase, Truncate, Saved, Return,
        Forget, Goto, manager, backends, provider, local
  <2>5. QED
    BY <2>1, <2>2, <2>3, <2>4 DEF IInv
<1>8. CASE Write(w)
  <2>1. ActiveInv'
    BY <1>8 DEF TypeOK, IInv, ActiveInv, Locked, LoadInv, WrapInv, Loading,
        Wrapping, LoadPhase, SavePhase, Write, Saved, Return, Forget, Goto, manager,
        backends, provider, local
  <2>2. \A v \in Threads : Locked(v)'
    BY <1>8 DEF TypeOK, IInv, Locked, Loading, LoadPhase, SavePhase,
        ChatPhase, Write, Saved, Return, Forget, Goto, manager, backends, provider,
        local
  <2>3. \A v \in Threads : LoadInv(v)'
    BY <1>8 DEF TypeOK, IInv, ActiveInv, Locked, LoadInv, Loading, LoadPhase,
        SavePhase, ChatPhase, Write, Saved, Return, Forget, Goto, manager, backends,
        provider, local
  <2>4. \A v \in Threads : WrapInv(v)'
    BY <1>8 DEF TypeOK, IInv, ActiveInv, Locked, LoadInv, WrapInv, Loading,
        Wrapping, LoadPhase, SavePhase, ChatPhase, Write, Saved, Return, Forget, Goto,
        manager, backends, provider, local
  <2>5. QED
    BY <2>1, <2>2, <2>3, <2>4 DEF IInv
<1>9. QED
  BY <1>1, <1>2, <1>3, <1>4, <1>5, <1>6, <1>7, <1>8 DEF LoadStep

\* Nor does a step of a chat.
LEMMA ChatStepInv ==
  ASSUME TypeOK, TypeOK', IInv, NEW w \in Threads, ChatStep(w)
  PROVE  IInv'
<1> USE ConstantsAssumption DEF NoEngine
<1>1. CASE UseCached(w)
  <2>1. ActiveInv'
    BY <1>1 DEF TypeOK, IInv, ActiveInv, Locked, LoadInv, WrapInv, Loading,
        Wrapping, LoadPhase, SavePhase, UseCached, Take, Forget, Goto, manager,
        backends, provider, local
  <2>2. \A v \in Threads : Locked(v)'
    BY <1>1 DEF TypeOK, IInv, Locked, Loading, LoadPhase, SavePhase,
        ChatPhase, UseCached, Take, Forget, Goto, manager, backends, provider, local
  <2>3. \A v \in Threads : LoadInv(v)'
    BY <1>1 DEF TypeOK, IInv, ActiveInv, Locked, LoadInv, Loading, LoadPhase,
        SavePhase, ChatPhase, UseCached, Take, Forget, Goto, manager, backends,
        provider, local
  <2>4. \A v \in Threads : WrapInv(v)'
    <3>1. engine.backend > 0
      BY <1>1 DEF TypeOK, UseCached, Engine, Backends
    <3>2. QED
      BY <1>1, <3>1 DEF TypeOK, IInv, WrapInv, Wrapping, UseCached, Take, Forget,
          Goto, manager, backends
  <2>5. QED
    BY <2>1, <2>2, <2>3, <2>4 DEF IInv
<1>2. CASE SeeSwitch(w)
  <2>1. ActiveInv'
    BY <1>2 DEF TypeOK, IInv, ActiveInv, Locked, LoadInv, WrapInv, Loading,
        Wrapping, LoadPhase, SavePhase, SeeSwitch, Goto, manager, backends,
        provider, local
  <2>2. \A v \in Threads : Locked(v)'
    BY <1>2 DEF TypeOK, IInv, Locked, Loading, LoadPhase, SavePhase,
        ChatPhase, SeeSwitch, Goto, manager, backends, provider, local
  <2>3. \A v \in Threads : LoadInv(v)'
    BY <1>2 DEF TypeOK, IInv, ActiveInv, Locked, LoadInv, Loading, LoadPhase,
        SavePhase, ChatPhase, SeeSwitch, Goto, manager, backends, provider,
        local
  <2>4. \A v \in Threads : WrapInv(v)'
    <3>1. /\ UNCHANGED <<active, engine, hold, made>>
          /\ mine' = [mine EXCEPT ![w] = active]
          /\ pc' = [pc EXCEPT ![w] = "peek"]
          /\ active # 0
      BY <1>2 DEF SeeSwitch, Goto, manager, provider, backends
    <3>2. QED
      BY <3>1, Numbers DEF TypeOK, IInv, ActiveInv, WrapInv, Wrapping
<2>5. QED
    BY <2>1, <2>2, <2>3, <2>4 DEF IInv
<1>3. CASE Peek(w)
  <2>1. ActiveInv'
    BY <1>3 DEF TypeOK, IInv, ActiveInv, Locked, LoadInv, WrapInv, Loading,
        Wrapping, LoadPhase, SavePhase, Peek, Goto, manager, backends,
        provider, local
  <2>2. \A v \in Threads : Locked(v)'
    BY <1>3 DEF TypeOK, IInv, Locked, Loading, LoadPhase, SavePhase,
        ChatPhase, Peek, Goto, manager, backends, provider, local
  <2>3. \A v \in Threads : LoadInv(v)'
    BY <1>3 DEF TypeOK, IInv, ActiveInv, Locked, LoadInv, Loading, LoadPhase,
        SavePhase, ChatPhase, Peek, Goto, manager, backends, provider, local
  <2>4. \A v \in Threads : WrapInv(v)'
    BY <1>3 DEF TypeOK, IInv, ActiveInv, Locked, LoadInv, WrapInv, Loading,
        Wrapping, LoadPhase, SavePhase, ChatPhase, Peek, Goto, manager,
        backends, provider, local
  <2>5. QED
    BY <2>1, <2>2, <2>3, <2>4 DEF IInv
<1>4. CASE Label(w)
  <2>1. ActiveInv'
    BY <1>4 DEF TypeOK, IInv, ActiveInv, Locked, LoadInv, WrapInv, Loading,
        Wrapping, LoadPhase, SavePhase, Label, Take, Forget, Goto, manager, backends,
        provider, local
  <2>2. \A v \in Threads : Locked(v)'
    BY <1>4 DEF TypeOK, IInv, Locked, Loading, LoadPhase, SavePhase,
        ChatPhase, Label, Take, Forget, Goto, manager, backends, provider, local
  <2>3. \A v \in Threads : LoadInv(v)'
    BY <1>4 DEF TypeOK, IInv, ActiveInv, Locked, LoadInv, Loading, LoadPhase,
        SavePhase, ChatPhase, Label, Take, Forget, Goto, manager, backends, provider,
        local
  <2>4. \A v \in Threads : WrapInv(v)'
    BY <1>4 DEF TypeOK, IInv, ActiveInv, Locked, LoadInv, WrapInv, Loading,
        Wrapping, LoadPhase, SavePhase, ChatPhase, Label, Take, Forget, Goto, manager,
        backends, provider, local
  <2>5. QED
    BY <2>1, <2>2, <2>3, <2>4 DEF IInv
<1>5. CASE RaiseCached(w)
  <2>1. ActiveInv'
    BY <1>5 DEF TypeOK, IInv, ActiveInv, Locked, LoadInv, WrapInv, Loading,
        Wrapping, LoadPhase, SavePhase, RaiseCached, Return, Forget, Goto, manager,
        backends, provider, local
  <2>2. \A v \in Threads : Locked(v)'
    BY <1>5 DEF TypeOK, IInv, Locked, Loading, LoadPhase, SavePhase,
        ChatPhase, RaiseCached, Return, Forget, Goto, manager, backends, provider,
        local
  <2>3. \A v \in Threads : LoadInv(v)'
    BY <1>5 DEF TypeOK, IInv, ActiveInv, Locked, LoadInv, Loading, LoadPhase,
        SavePhase, ChatPhase, RaiseCached, Return, Forget, Goto, manager, backends,
        provider, local
  <2>4. \A v \in Threads : WrapInv(v)'
    BY <1>5 DEF TypeOK, IInv, ActiveInv, Locked, LoadInv, WrapInv, Loading,
        Wrapping, LoadPhase, SavePhase, ChatPhase, RaiseCached, Return, Forget, Goto,
        manager, backends, provider, local
  <2>5. QED
    BY <2>1, <2>2, <2>3, <2>4 DEF IInv
<1>6. CASE StartBuild(w)
  <2>0. jtier'[w] \in Tiers
    BY <1>6 DEF TypeOK, StartBuild, Choice, TierOrNone
  <2>1. ActiveInv'
    BY <1>6 DEF TypeOK, IInv, ActiveInv, Locked, LoadInv, WrapInv, Loading,
        Wrapping, LoadPhase, SavePhase, StartBuild, Goto, manager, backends,
        provider, local
  <2>2. \A v \in Threads : Locked(v)'
    BY <1>6 DEF TypeOK, IInv, Locked, Loading, LoadPhase, SavePhase,
        ChatPhase, StartBuild, Goto, manager, backends, provider, local
  <2>3. \A v \in Threads : LoadInv(v)'
    BY <1>6, <2>0 DEF TypeOK, IInv, ActiveInv, Locked, LoadInv, Loading, LoadPhase,
        SavePhase, ChatPhase, StartBuild, Goto, manager, backends, provider,
        local
  <2>4. \A v \in Threads : WrapInv(v)'
    BY <1>6 DEF TypeOK, IInv, ActiveInv, Locked, LoadInv, WrapInv, Loading,
        Wrapping, LoadPhase, SavePhase, ChatPhase, StartBuild, Goto, manager,
        backends, provider, local
  <2>5. QED
    BY <2>1, <2>2, <2>3, <2>4 DEF IInv
<1>7. CASE BuildLoad(w)
  <2>0. w \in Chats /\ \A v \in Threads : ~Loading(v)
    BY <1>7 DEF IInv, Locked, ChatPhase, BuildLoad, Begin, Threads
  <2>1. ActiveInv'
    BY <1>7 DEF TypeOK, IInv, ActiveInv, Locked, LoadInv, WrapInv, Loading,
        Wrapping, LoadPhase, SavePhase, BuildLoad, Begin, Goto, manager,
        backends, provider, local
  <2>2. \A v \in Threads : Locked(v)'
    BY <1>7, <2>0 DEF TypeOK, IInv, Locked, Loading, LoadPhase, SavePhase,
        ChatPhase, BuildLoad, Begin, Goto, manager, backends, provider, local
  <2>3. \A v \in Threads : LoadInv(v)'
    BY <1>7 DEF TypeOK, IInv, ActiveInv, Locked, LoadInv, Loading, LoadPhase,
        SavePhase, ChatPhase, BuildLoad, Begin, Goto, manager, backends,
        provider, local
  <2>4. \A v \in Threads : WrapInv(v)'
    BY <1>7 DEF TypeOK, IInv, ActiveInv, Locked, LoadInv, WrapInv, Loading,
        Wrapping, LoadPhase, SavePhase, ChatPhase, BuildLoad, Begin, Goto,
        manager, backends, provider, local
  <2>5. QED
    BY <2>1, <2>2, <2>3, <2>4 DEF IInv
<1>8. CASE Wrap(w)
  <2>1. ActiveInv'
    BY <1>8 DEF TypeOK, IInv, ActiveInv, Locked, LoadInv, WrapInv, Loading,
        Wrapping, LoadPhase, SavePhase, Wrap, Take, Forget, Goto, manager, backends,
        provider, local
  <2>2. \A v \in Threads : Locked(v)'
    BY <1>8 DEF TypeOK, IInv, Locked, Loading, LoadPhase, SavePhase,
        ChatPhase, Wrap, Take, Forget, Goto, manager, backends, provider, local
  <2>3. \A v \in Threads : LoadInv(v)'
    BY <1>8 DEF TypeOK, IInv, ActiveInv, Locked, LoadInv, Loading, LoadPhase,
        SavePhase, ChatPhase, Wrap, Take, Forget, Goto, manager, backends, provider,
        local
  <2>4. \A v \in Threads : WrapInv(v)'
    BY <1>8 DEF TypeOK, IInv, ActiveInv, Locked, LoadInv, WrapInv, Loading,
        Wrapping, LoadPhase, SavePhase, ChatPhase, Wrap, Take, Forget, Goto, manager,
        backends, provider, local
  <2>5. QED
    BY <2>1, <2>2, <2>3, <2>4 DEF IInv
<1>9. CASE Stream(w)
  <2>1. ActiveInv'
    BY <1>9 DEF TypeOK, IInv, ActiveInv, Locked, LoadInv, WrapInv, Loading,
        Wrapping, LoadPhase, SavePhase, Stream, Return, Forget, Goto, manager,
        backends, provider, local
  <2>2. \A v \in Threads : Locked(v)'
    BY <1>9 DEF TypeOK, IInv, Locked, Loading, LoadPhase, SavePhase,
        ChatPhase, Stream, Return, Forget, Goto, manager, backends, provider, local
  <2>3. \A v \in Threads : LoadInv(v)'
    BY <1>9 DEF TypeOK, IInv, ActiveInv, Locked, LoadInv, Loading, LoadPhase,
        SavePhase, ChatPhase, Stream, Return, Forget, Goto, manager, backends,
        provider, local
  <2>4. \A v \in Threads : WrapInv(v)'
    BY <1>9 DEF TypeOK, IInv, ActiveInv, Locked, LoadInv, WrapInv, Loading,
        Wrapping, LoadPhase, SavePhase, ChatPhase, Stream, Return, Forget, Goto,
        manager, backends, provider, local
  <2>5. QED
    BY <2>1, <2>2, <2>3, <2>4 DEF IInv
<1>10. CASE NonStream(w)
  <2>0. \A b \in Backends : /\ backend[b].model # "none" => backend'[b].model # "none"
                             /\ backend'[b].tier = backend[b].tier
                             /\ backend'[b].context = backend[b].context
    BY <1>10 DEF TypeOK, NonStream, EnsureLoaded, Backend
  <2>1. ActiveInv'
    BY <1>10, <2>0 DEF TypeOK, IInv, ActiveInv, Locked, LoadInv, WrapInv, Loading,
        Wrapping, LoadPhase, SavePhase, NonStream, Return, Forget, Goto, manager,
        backends, provider
  <2>2. \A v \in Threads : Locked(v)'
    BY <1>10 DEF TypeOK, IInv, Locked, Loading, LoadPhase, SavePhase,
        ChatPhase, NonStream, Return, Forget, Goto, manager, backends, provider
  <2>3. \A v \in Threads : LoadInv(v)'
    BY <1>10, <2>0 DEF TypeOK, IInv, ActiveInv, Locked, LoadInv, Loading, LoadPhase,
        SavePhase, ChatPhase, NonStream, Return, Forget, Goto, manager, backends,
        provider
  <2>4. \A v \in Threads : WrapInv(v)'
    BY <1>10 DEF TypeOK, IInv, ActiveInv, Locked, LoadInv, WrapInv, Loading,
        Wrapping, LoadPhase, SavePhase, ChatPhase, NonStream, Return, Forget, Goto,
        manager, backends, provider
  <2>5. QED
    BY <2>1, <2>2, <2>3, <2>4 DEF IInv
<1>11. CASE CountUsage(w)
  <2>0. \A b \in Backends : /\ backend[b].model # "none" => backend'[b].model # "none"
                             /\ backend'[b].tier = backend[b].tier
                             /\ backend'[b].context = backend[b].context
    BY <1>11 DEF TypeOK, CountUsage, EnsureLoaded, Backend
  <2>1. ActiveInv'
    BY <1>11, <2>0 DEF TypeOK, IInv, ActiveInv, Locked, LoadInv, WrapInv, Loading,
        Wrapping, LoadPhase, SavePhase, CountUsage, Return, Forget, Goto, manager,
        backends, provider
  <2>2. \A v \in Threads : Locked(v)'
    BY <1>11 DEF TypeOK, IInv, Locked, Loading, LoadPhase, SavePhase,
        ChatPhase, CountUsage, Return, Forget, Goto, manager, backends, provider
  <2>3. \A v \in Threads : LoadInv(v)'
    BY <1>11, <2>0 DEF TypeOK, IInv, ActiveInv, Locked, LoadInv, Loading, LoadPhase,
        SavePhase, ChatPhase, CountUsage, Return, Forget, Goto, manager, backends,
        provider
  <2>4. \A v \in Threads : WrapInv(v)'
    BY <1>11 DEF TypeOK, IInv, ActiveInv, Locked, LoadInv, WrapInv, Loading,
        Wrapping, LoadPhase, SavePhase, ChatPhase, CountUsage, Return, Forget, Goto,
        manager, backends, provider
  <2>5. QED
    BY <2>1, <2>2, <2>3, <2>4 DEF IInv
<1>12. CASE EndChat(w)
  <2>1. ActiveInv'
    BY <1>12 DEF TypeOK, IInv, ActiveInv, Locked, LoadInv, WrapInv, Loading,
        Wrapping, LoadPhase, SavePhase, EndChat, Return, Forget, Goto, manager,
        backends, provider, local
  <2>2. \A v \in Threads : Locked(v)'
    BY <1>12 DEF TypeOK, IInv, Locked, Loading, LoadPhase, SavePhase,
        ChatPhase, EndChat, Return, Forget, Goto, manager, backends, provider, local
  <2>3. \A v \in Threads : LoadInv(v)'
    BY <1>12 DEF TypeOK, IInv, ActiveInv, Locked, LoadInv, Loading, LoadPhase,
        SavePhase, ChatPhase, EndChat, Return, Forget, Goto, manager, backends,
        provider, local
  <2>4. \A v \in Threads : WrapInv(v)'
    BY <1>12 DEF TypeOK, IInv, ActiveInv, Locked, LoadInv, WrapInv, Loading,
        Wrapping, LoadPhase, SavePhase, ChatPhase, EndChat, Return, Forget, Goto,
        manager, backends, provider, local
  <2>5. QED
    BY <2>1, <2>2, <2>3, <2>4 DEF IInv
<1>13. QED
  BY <1>1, <1>2, <1>3, <1>4, <1>5, <1>6, <1>7, <1>8, <1>9, <1>10, <1>11, <1>12 DEF ChatStep

\* A request to load keeps the invariant.
LEMMA RouteLoadInv ==
  ASSUME TypeOK, TypeOK', IInv, NEW w \in Threads, NEW t \in Tiers,
         NEW c \in ContextOrNone, RouteLoad(w, t, c)
  PROVE  IInv'
<1> USE ConstantsAssumption DEF NoEngine
<1>1. w \notin Tuners /\ w \notin Chats /\ \A v \in Threads : ~Loading(v)
  BY DEF IInv, Locked, RouteLoad, Begin, Threads
<1>2. /\ UNCHANGED <<active, mtier, mcontext, made, backend, engine, elock, mine, hold>>
      /\ mlock' = w
      /\ pc' = [pc EXCEPT ![w] = "ensure"]
      /\ jtier' = [jtier EXCEPT ![w] = t]
      /\ jcontext' \in [Threads -> ContextOrNone]
      /\ \A v \in Threads : v # w => jcontext'[v] = jcontext[v]
  BY DEF TypeOK, RouteLoad, Begin, Goto, backends, provider
<1>3. ActiveInv'
  BY <1>1, <1>2 DEF TypeOK, IInv, ActiveInv, Loading, LoadPhase, RouteLoad
<1>4. \A v \in Threads : Locked(v)'
  BY <1>1, <1>2 DEF TypeOK, IInv, Locked, Loading, LoadPhase, SavePhase, ChatPhase
<1>5. \A v \in Threads : LoadInv(v)'
  BY <1>1, <1>2 DEF TypeOK, IInv, LoadInv, Loading, LoadPhase, SavePhase
<1>6. \A v \in Threads : WrapInv(v)'
  BY <1>2 DEF TypeOK, IInv, WrapInv, Wrapping
<1>7. QED
  BY <1>3, <1>4, <1>5, <1>6 DEF IInv

\* A request to change the context keeps the invariant.
LEMMA TuneInv ==
  ASSUME TypeOK, TypeOK', IInv, NEW w \in Threads, NEW t \in Tiers,
         NEW c \in Contexts, Tune(w, t, c)
  PROVE  IInv'
<1> USE ConstantsAssumption DEF NoEngine
<1>1. /\ UNCHANGED <<manager, backends, provider, mine, hold>>
      /\ w \in Tuners /\ pc[w] = "idle"
      /\ pc' = [pc EXCEPT ![w] = "truncate"]
      /\ \A v \in Threads : v # w => /\ jtier'[v] = jtier[v]
                                     /\ jcontext'[v] = jcontext[v]
  BY DEF TypeOK, Tune, Goto
<1>2. ActiveInv'
  BY <1>1 DEF TypeOK, IInv, ActiveInv, manager, backends, provider
<1>3. \A v \in Threads : Locked(v)'
  BY <1>1 DEF TypeOK, IInv, Locked, Loading, LoadPhase, SavePhase, ChatPhase,
              manager, provider
<1>4. \A v \in Threads : LoadInv(v)'
  BY <1>1 DEF TypeOK, IInv, LoadInv, Loading, LoadPhase, SavePhase, manager,
              backends
<1>5. \A v \in Threads : WrapInv(v)'
  BY <1>1 DEF TypeOK, IInv, WrapInv, Wrapping, manager, backends, provider
<1>6. QED
  BY <1>2, <1>3, <1>4, <1>5 DEF IInv

\* A chat that enters get_engine keeps the invariant.
LEMMA EnterInv ==
  ASSUME TypeOK, TypeOK', IInv, NEW w \in Threads, Enter(w)
  PROVE  IInv'
<1> USE ConstantsAssumption DEF NoEngine
<1>1. /\ UNCHANGED <<manager, backends, engine, local>>
      /\ elock = NoOne /\ elock' = w /\ w \in Chats /\ pc[w] = "idle"
      /\ pc' = [pc EXCEPT ![w] = "look"]
  BY DEF TypeOK, Enter, Goto
<1>2. ActiveInv'
  BY <1>1 DEF TypeOK, IInv, ActiveInv, manager, backends
<1>3. \A v \in Threads : Locked(v)'
  BY <1>1 DEF TypeOK, IInv, Locked, Loading, LoadPhase, SavePhase, ChatPhase,
              manager, Threads
<1>4. \A v \in Threads : LoadInv(v)'
  BY <1>1 DEF TypeOK, IInv, LoadInv, Loading, LoadPhase, SavePhase, manager,
              backends, local
<1>5. \A v \in Threads : WrapInv(v)'
  BY <1>1 DEF TypeOK, IInv, WrapInv, Wrapping, manager, backends, local
<1>6. QED
  BY <1>2, <1>3, <1>4, <1>5 DEF IInv

\* Every step keeps the invariant.
LEMMA NextInv == TypeOK /\ IInv /\ [Next]_vars => IInv'
<1> SUFFICES ASSUME TypeOK, IInv, [Next]_vars PROVE IInv'
  OBVIOUS
<1>1. TypeOK'
  BY StepTyped
<1>2. CASE UNCHANGED vars
  BY <1>2 DEF vars, manager, backends, provider, local, IInv, ActiveInv, Locked,
              LoadInv, WrapInv, Loading, Wrapping
<1>3. CASE Crash
  BY <1>3, CrashInv
<1>4. ASSUME NEW w \in Threads, Request(w) PROVE IInv'
  BY <1>1, <1>4, RouteLoadInv, TuneInv, EnterInv, ConstantsAssumption
  DEF Request, ContextOrNone
<1>5. QED
  BY <1>1, <1>2, <1>3, <1>4, LoadStepInv, ChatStepInv DEF Next

-----------------------------------------------------------------------------
(***************************************************************************)
(* Theorems.                                                               *)
(***************************************************************************)
\* Every variable keeps its type: no thread ever wraps a backend, or caches an
\* engine, that was not made.
THEOREM TypeCorrect == Spec => []TypeOK
<1>1. TypeOK /\ IInv /\ [Next]_vars => TypeOK' /\ IInv'
  BY StepTyped, NextInv
<1>2. QED
  BY <1>1, InitTyped, InitInv, PTL DEF Spec

\* The invariant holds of every reachable state.
LEMMA Inductive == Spec => [](TypeOK /\ IInv)
<1>1. TypeOK /\ IInv /\ [Next]_vars => TypeOK' /\ IInv'
  BY StepTyped, NextInv
<1>2. QED
  BY <1>1, InitTyped, InitInv, PTL DEF Spec

\* The chat provider never goes back to a backend it has left.
THEOREM EngineOnlyAdvances == Spec => EngineNeverGoesBack
<1> DEFINE Advance == NoEngine \notin {engine, engine'} =>
                          engine'.backend >= engine.backend
<1>1. TypeOK /\ IInv /\ [Next]_vars => [Advance]_vars
  <2> SUFFICES ASSUME TypeOK, IInv, [Next]_vars PROVE Advance
    OBVIOUS
  <2>1. engine' = engine => Advance
    BY Numbers
  <2>2. ASSUME NEW w \in Threads, Label(w) PROVE Advance
    BY <2>2, Numbers DEF TypeOK, IInv, WrapInv, Wrapping, Label, Engine, NoEngine
  <2>3. ASSUME NEW w \in Threads, Wrap(w) PROVE Advance
    BY <2>3, Numbers DEF IInv, WrapInv, Wrapping, Wrap
  <2>4. CASE Crash
    BY <2>4 DEF Crash
  <2>5. ASSUME NEW w \in Threads, Request(w) PROVE engine' = engine
    BY <2>5 DEF Request, RouteLoad, Begin, Tune, Enter, provider
  <2>6. ASSUME NEW w \in Threads, LoadStep(w) PROVE engine' = engine
    BY <2>6 DEF LoadStep, LoadRaises, Unload, MakeBackend, Publish, Name, Recall,
                Truncate, Write, provider
  <2>7. ASSUME NEW w \in Threads, ChatStep(w) PROVE Advance
    BY <2>1, <2>2, <2>3, <2>7
    DEF ChatStep, UseCached, SeeSwitch, Peek, RaiseCached, StartBuild, BuildLoad,
        Begin, Stream, NonStream, CountUsage, EndChat, provider
  <2>8. QED
    BY <2>1, <2>4, <2>5, <2>6, <2>7 DEF Next, vars, provider
<1>2. QED
  BY <1>1, Inductive, PTL DEF Spec, EngineNeverGoesBack

-----------------------------------------------------------------------------
(***************************************************************************)
(* Copies of the weights.  The active backend has the weights its load     *)
(* seeded it with; an engine that refers to weights that were loaded again *)
(* belongs to a backend that was unloaded and is never active again.       *)
(***************************************************************************)
Retired(e) ==
    /\ e.backend <= made
    /\ e.loaded = "reloaded" => e.backend # 0 /\ backend[e.backend].model # "seeded"

Copies ==
    /\ active # 0 => backend[active].model = "seeded"
    /\ Retired(engine)
    /\ \A w \in Threads :
          /\ pc[w] = "publish" => backend[mine[w]].model = "seeded"
          /\ Retired(hold[w])
          /\ pc[w] = "idle" => mine[w] = 0 /\ hold[w] = NoEngine /\ using[w] = "none"

\* An engine that is referred to stays as it is while no backend it may belong to is
\* seeded.
LEMMA RetiredKept ==
  ASSUME TypeOK, NEW e \in Engine \cup {NoEngine}, Retired(e), made' \in Nat, made <= made',
         \A b \in Backends : b <= made /\ backend'[b].model = "seeded"
                               => backend[b].model = "seeded"
  PROVE  Retired(e)'
BY Numbers DEF Retired, Engine, NoEngine, Backends

\* A step that seeds nothing, and what it leaves to show.
LEMMA CopiesFrom ==
  ASSUME TypeOK, TypeOK', Copies, made' \in Nat, made <= made',
         \A b \in Backends : b <= made /\ backend'[b].model = "seeded"
                               => backend[b].model = "seeded",
         active' # 0 => backend'[active'].model = "seeded",
         engine' = engine \/ Retired(engine)',
         \A w \in Threads :
            /\ pc'[w] = "publish" => backend'[mine'[w]].model = "seeded"
            /\ hold'[w] \in {hold[w], engine, NoEngine} \/ Retired(hold[w])'
            /\ pc'[w] = "idle" => mine'[w] = 0 /\ hold'[w] = NoEngine /\ using'[w] = "none"
  PROVE  Copies'
<1>1. Retired(engine)'
  <2>1. CASE engine' = engine
    <3>1. \A e \in {engine} : Retired(e)'
      BY RetiredKept DEF TypeOK, Copies
    <3>2. QED
      BY <2>1, <3>1 DEF Retired
  <2>2. QED
    BY <2>1
<1>2. ASSUME NEW w \in Threads PROVE Retired(hold[w])'
  <2>1. \A e \in {hold[w], engine} : Retired(e)'
    BY RetiredKept DEF TypeOK, Copies
  <2>2. \A e \in {NoEngine} : Retired(e)'
    BY DEF Retired, NoEngine
  <2>3. CASE hold'[w] \in {hold[w], engine, NoEngine}
    BY <2>1, <2>2, <2>3 DEF Retired
  <2>4. QED
    BY <2>3
<1>3. QED
  BY <1>1, <1>2 DEF Copies

\* What a step that leaves the backends and the engine alone has to show.
LEMMA CopiesOfLocals ==
  ASSUME TypeOK, TypeOK', Copies, NEW w \in Threads, UNCHANGED <<active, backends, engine>>,
         \A v \in Threads : v # w =>
            /\ pc'[v] = pc[v] /\ mine'[v] = mine[v]
            /\ hold'[v] = hold[v] /\ using'[v] = using[v],
         pc'[w] # "publish",
         hold'[w] \in {hold[w], engine, NoEngine},
         pc'[w] = "idle" => mine'[w] = 0 /\ hold'[w] = NoEngine /\ using'[w] = "none"
  PROVE  Copies'
<1>1. made' \in Nat /\ made <= made'
  BY Numbers DEF backends
<1>2. \A v \in Threads :
            /\ pc'[v] = "publish" => backend'[mine'[v]].model = "seeded"
            /\ hold'[v] \in {hold[v], engine, NoEngine}
            /\ pc'[v] = "idle" => mine'[v] = 0 /\ hold'[v] = NoEngine /\ using'[v] = "none"
  BY DEF Copies, backends
<1>3. QED
  BY <1>1, <1>2, CopiesFrom DEF Copies, backends

LEMMA LoadStepCopies ==
  ASSUME TypeOK, TypeOK', IInv, Copies, NEW w \in Threads, LoadStep(w)
  PROVE  Copies'
<1>1. CASE LoadRaises(w)
  BY <1>1, CopiesOfLocals DEF TypeOK, LoadRaises, Return, Forget, Goto
<1>2. CASE Unload(w)
  <2>1. \A b \in Backends : backend'[b].model = "seeded" => backend[b].model = "seeded"
    BY <1>2 DEF TypeOK, Unload, Backend
  <2>2. \A v \in Threads : pc'[v] # "publish"
    BY <1>2 DEF TypeOK, IInv, Locked, Loading, LoadPhase, Unload, Goto
  <2>3. QED
    BY <1>2, <2>1, <2>2, Numbers, CopiesFrom DEF TypeOK, Copies, Unload, Goto, provider, local
<1>3. CASE MakeBackend(w)
  <2>1. \A b \in Backends : b <= made => backend'[b] = backend[b]
    BY <1>3 DEF TypeOK, MakeBackend, Backends
  <2>2. mine'[w] = made + 1 /\ made + 1 \in Backends /\ backend'[made + 1].model = "seeded"
    BY <1>3 DEF TypeOK, MakeBackend, Backends
  <2>3. \A v \in Threads : v # w => pc'[v] # "publish"
    BY <1>3 DEF TypeOK, IInv, Locked, Loading, LoadPhase, MakeBackend, Goto
  <2>4. active # 0 => active \in Backends /\ active <= made
    BY DEF TypeOK, IInv, ActiveInv
  <2>5. made' \in Nat /\ made <= made' /\ UNCHANGED <<active, engine, hold>>
    BY <1>3, Numbers DEF MakeBackend, manager, provider
  <2>6. \A v \in Threads : pc'[v] = "idle" => mine'[v] = 0 /\ hold'[v] = NoEngine /\ using'[v] = "none"
    BY <1>3 DEF TypeOK, Copies, MakeBackend, Goto
  <2>7. active' # 0 => backend'[active'].model = "seeded"
    BY <2>1, <2>4, <2>5 DEF Copies
  <2>8. \A v \in Threads : pc'[v] = "publish" => backend'[mine'[v]].model = "seeded"
    BY <2>2, <2>3
  <2>9. QED
    BY <2>1, <2>5, <2>6, <2>7, <2>8, CopiesFrom
<1>4. CASE Publish(w)
  <2>1. \A v \in Threads : pc'[v] # "publish"
    BY <1>4 DEF TypeOK, IInv, Locked, Loading, LoadPhase, Publish, Goto
  <2>2. backend'[active'].model = "seeded"
    BY <1>4 DEF TypeOK, Copies, Publish, backends
  <2>3. QED
    BY <1>4, <2>1, <2>2, Numbers, CopiesFrom
    DEF TypeOK, Copies, Publish, Goto, backends, provider, local
<1>5. CASE Name(w)
  BY <1>5, CopiesOfLocals DEF TypeOK, Name, Goto, backends, provider, local
<1>6. CASE Recall(w)
  BY <1>6, CopiesOfLocals DEF TypeOK, Recall, Goto, manager, backends, provider
<1>7. CASE Truncate(w) \/ Write(w)
  BY <1>7, CopiesOfLocals DEF TypeOK, Truncate, Write, Saved, Return, Forget, Goto, backends, provider,
    local
<1>8. QED
  BY <1>1, <1>2, <1>3, <1>4, <1>5, <1>6, <1>7 DEF LoadStep

LEMMA ChatStepCopies ==
  ASSUME TypeOK, TypeOK', IInv, Copies, NEW w \in Threads, ChatStep(w)
  PROVE  Copies'
<1>1. CASE UseCached(w)
  BY <1>1, CopiesOfLocals DEF TypeOK, UseCached, Take, Forget, Goto, manager, backends
<1>2. CASE SeeSwitch(w)
  BY <1>2, CopiesOfLocals DEF TypeOK, SeeSwitch, Goto, manager, backends, provider
<1>3. CASE Peek(w)
  <2>1. mine[w] # 0 /\ mine[w] <= made /\ mine[w] \in Nat
    BY <1>3, Numbers DEF IInv, WrapInv, Wrapping, Peek
  <2>2. Retired(hold[w])'
    BY <1>3, <2>1 DEF TypeOK, Peek, Retired, backends
  <2>3. \A v \in Threads :
            /\ pc'[v] = "publish" => backend'[mine'[v]].model = "seeded"
            /\ hold'[v] \in {hold[v], engine, NoEngine} \/ Retired(hold[v])'
            /\ pc'[v] = "idle" => mine'[v] = 0 /\ hold'[v] = NoEngine /\ using'[v] = "none"
    BY <1>3, <2>2 DEF TypeOK, Copies, Peek, Goto, backends
  <2>4. QED
    BY <1>3, <2>3, Numbers, CopiesFrom DEF Copies, Peek, manager, backends, provider
<1>4. CASE Label(w)
  <2>1. engine'.backend = hold[w].backend /\ engine'.loaded = hold[w].loaded
    <3>1. hold[w] \in Engine
      BY <1>4, Numbers DEF TypeOK, IInv, WrapInv, Wrapping, Label, NoEngine
    <3>2. QED
      BY <1>4, <3>1 DEF Label, Engine
  <2>2. Retired(engine)'
    BY <1>4, <2>1 DEF Copies, Retired, Label, backends
  <2>3. Retired(hold[w])'
    BY <1>4, <2>2 DEF TypeOK, Label, Take, Retired
  <2>4. \A v \in Threads :
            /\ pc'[v] = "publish" => backend'[mine'[v]].model = "seeded"
            /\ hold'[v] \in {hold[v], engine, NoEngine} \/ Retired(hold[v])'
            /\ pc'[v] = "idle" => mine'[v] = 0 /\ hold'[v] = NoEngine /\ using'[v] = "none"
    BY <1>4, <2>3 DEF TypeOK, Copies, Label, Take, Forget, Goto, backends
  <2>5. QED
    BY <1>4, <2>2, <2>4, Numbers, CopiesFrom DEF Copies, Label, manager, backends
<1>5. CASE RaiseCached(w) \/ EndChat(w)
  BY <1>5, CopiesOfLocals DEF TypeOK, RaiseCached, EndChat, Return, Forget, Goto, manager, backends,
    provider
<1>6. CASE StartBuild(w)
  BY <1>6, CopiesOfLocals DEF TypeOK, StartBuild, Goto, manager, backends, provider
<1>7. CASE BuildLoad(w)
  BY <1>7, CopiesOfLocals DEF TypeOK, BuildLoad, Begin, Goto, backends, provider
<1>8. CASE Wrap(w)
  <2>1. mine[w] # 0 /\ mine[w] <= made /\ mine[w] \in Nat
    BY <1>8, Numbers DEF IInv, WrapInv, Wrapping, Wrap
  <2>2. Retired(engine)'
    BY <1>8, <2>1 DEF Wrap, Retired, backends
  <2>3. Retired(hold[w])'
    BY <1>8, <2>2 DEF TypeOK, Wrap, Take, Retired
  <2>4. \A v \in Threads :
            /\ pc'[v] = "publish" => backend'[mine'[v]].model = "seeded"
            /\ hold'[v] \in {hold[v], engine, NoEngine} \/ Retired(hold[v])'
            /\ pc'[v] = "idle" => mine'[v] = 0 /\ hold'[v] = NoEngine /\ using'[v] = "none"
    BY <1>8, <2>3 DEF TypeOK, Copies, Wrap, Take, Forget, Goto, backends
  <2>5. QED
    BY <1>8, <2>2, <2>4, Numbers, CopiesFrom DEF Copies, Wrap, manager, backends
<1>9. CASE Stream(w)
  BY <1>9, CopiesOfLocals DEF TypeOK, Stream, Return, Forget, Goto, manager, backends, provider, local
<1>10. CASE NonStream(w) \/ CountUsage(w)
  <2>1. \A b \in Backends : (backend'[b].model = "seeded") <=> (backend[b].model = "seeded")
    BY <1>10 DEF TypeOK, NonStream, CountUsage, EnsureLoaded, Backend
  <2>2. \A v \in Threads :
            /\ pc'[v] = "publish" => pc[v] = "publish" /\ mine'[v] = mine[v]
            /\ hold'[v] \in {hold[v], engine, NoEngine}
            /\ pc'[v] = "idle" => mine'[v] = 0 /\ hold'[v] = NoEngine /\ using'[v] = "none"
    BY <1>10 DEF TypeOK, Copies, NonStream, CountUsage, Return, Forget, Goto
  <2>3. \A v \in Threads : pc[v] = "publish" => mine[v] \in Backends
    BY Numbers DEF TypeOK, IInv, LoadInv, Loading, LoadPhase
  <2>4. \A v \in Threads : pc'[v] = "publish" => backend'[mine'[v]].model = "seeded"
    BY <2>1, <2>2, <2>3 DEF Copies
  <2>5. QED
    BY <1>10, <2>1, <2>2, <2>4, Numbers, CopiesFrom DEF TypeOK, Copies, NonStream, CountUsage,
      manager, provider
<1>11. QED
  BY <1>1, <1>2, <1>3, <1>4, <1>5, <1>6, <1>7, <1>8, <1>9, <1>10 DEF ChatStep

LEMMA StepCopies == TypeOK /\ IInv /\ Copies /\ [Next]_vars => Copies'
<1> SUFFICES ASSUME TypeOK, IInv, Copies, [Next]_vars PROVE Copies'
  OBVIOUS
<1>1. TypeOK'
  BY StepTyped
<1>2. CASE UNCHANGED vars
  BY <1>2 DEF vars, manager, backends, provider, local, Copies, Retired
<1>3. CASE Crash
  BY <1>3 DEF Crash, Copies, Retired, NoEngine
<1>4. ASSUME NEW w \in Threads, NEW t \in Tiers, NEW c \in ContextOrNone, RouteLoad(w, t, c)
      PROVE  Copies'
  BY <1>1, <1>4, CopiesOfLocals DEF TypeOK, RouteLoad, Begin, Goto, backends, provider
<1>5. ASSUME NEW w \in Threads, NEW t \in Tiers, NEW c \in Contexts, Tune(w, t, c)
      PROVE  Copies'
  BY <1>1, <1>5, CopiesOfLocals DEF TypeOK, Tune, Goto, manager, backends, provider
<1>6. ASSUME NEW w \in Threads, Enter(w) PROVE Copies'
  BY <1>1, <1>6, CopiesOfLocals DEF TypeOK, Enter, Goto, manager, backends, local
<1>7. QED
  BY <1>1, <1>2, <1>3, <1>4, <1>5, <1>6, LoadStepCopies, ChatStepCopies,
     ConstantsAssumption
  DEF Next, Request, ContextOrNone

\* Switching models does not pile up copies: once every call is over and the switch
\* was picked up, the weights of the active backend are all that is in memory.
THEOREM OneCopyIsLeft == Spec => []SettledIsOneModel
<1>1. TypeOK /\ Copies => SettledIsOneModel
  <2> SUFFICES ASSUME TypeOK, Copies, \A w \in Threads : pc[w] = "idle",
                      active # 0, engine.backend = active
               PROVE  Resident = {<<active, backend[active].model>>}
    BY DEF SettledIsOneModel
  <2>1. \A w \in Threads : mine[w] = 0 /\ hold[w] = NoEngine /\ using[w] = "none"
    BY DEF Copies
  <2>2. \A e \in Engines : e = engine \/ e = NoEngine
    BY <2>1 DEF Engines, Threads
  <2>3. Referenced = {active}
    BY <2>1, <2>2 DEF Referenced, NoEngine, Engines
  <2>4. engine.loaded \in {"none", "seeded"}
    BY DEF TypeOK, Copies, Retired, Engine, NoEngine, Weights
  <2>5. backend[active].model = "seeded"
    BY DEF Copies
  <2>6. \A w \in Chats : using[w] = "none"
    BY <2>1 DEF Threads
  <2>7. ASSUME NEW r
        PROVE  r \in Resident <=> r = <<active, "seeded">>
    BY <2>2, <2>3, <2>4, <2>5, <2>6 DEF Resident, NoEngine
  <2>8. QED
    BY <2>5, <2>7
<1>2. TypeOK /\ IInv /\ Init => Copies
  BY DEF Init, Copies, Retired, NoEngine
<1>3. QED
  BY <1>1, <1>2, StepCopies, InitTyped, InitInv, Inductive, PTL DEF Spec

-----------------------------------------------------------------------------
(***************************************************************************)
(* Locks.                                                                  *)
(***************************************************************************)
\* A step that takes or gives back no lock, of a thread that stays inside.
LEMMA ServedInside ==
  ASSUME TypeOK, LocksAreServed, NEW w \in Threads, NEW p \in Phase,
         UNCHANGED <<mlock, elock>>, pc' = [pc EXCEPT ![w] = p],
         mlock = w => p \in {"ensure", "load", "publish", "name", "recall", "truncate", "write"},
         elock = w => mlock = w \/ p \in {"look", "peek", "label", "build", "wrap"}
  PROVE  LocksAreServed'
BY DEF TypeOK, LocksAreServed, Threads

LEMMA LoadServed ==
  ASSUME TypeOK, IInv, LocksAreServed, NEW w \in Threads, LoadStep(w)
  PROVE  LocksAreServed'
<1> USE ConstantsAssumption
<1>1. CASE LoadRaises(w)
  <2>1. mlock = w /\ mlock' = NoOne
    BY <1>1 DEF IInv, Locked, Loading, LoadPhase, LoadRaises
  <2>2. CASE w \in Chats
    BY <1>1, <2>1, <2>2 DEF LocksAreServed, LoadRaises
  <2>3. CASE w \in Loaders
    BY <1>1, <2>1, <2>3 DEF TypeOK, LocksAreServed, LoadRaises, Return, Forget, Goto, Threads
  <2>4. QED
    BY <1>1, <2>2, <2>3 DEF LoadRaises
<1>2. CASE Unload(w)
  BY <1>2, ServedInside DEF IInv, Locked, Loading, LoadPhase, Unload, Goto, provider, Phase
<1>3. CASE MakeBackend(w) \/ Publish(w) \/ Name(w) \/ Recall(w)
  BY <1>3, ServedInside DEF IInv, Locked, Loading, LoadPhase, MakeBackend, Publish, Name, Recall,
                            Goto, manager, provider, Phase
<1>4. CASE Truncate(w) \/ Write(w)
  <2>1. mlock = w \/ w \in Tuners
    BY <1>4 DEF IInv, Locked, Loading, SavePhase, Truncate, Write
  <2>2. UNCHANGED elock
    BY <1>4 DEF Truncate, Write, provider
  <2>3. CASE Saved(w)
    <3>1. \/ w \in Loaders \cup Tuners /\ pc' = [pc EXCEPT ![w] = "idle"]
          \/ w \in Chats /\ pc' = [pc EXCEPT ![w] = "wrap"]
      BY <2>3 DEF Saved, Return, Forget, Goto
    <3>2. CASE mlock = w
      BY <2>1, <2>2, <2>3, <3>1, <3>2 DEF TypeOK, LocksAreServed, Saved, Threads
    <3>3. CASE mlock # w
      BY <2>1, <2>2, <2>3, <3>1, <3>3 DEF TypeOK, LocksAreServed, Saved, Threads
    <3>4. QED
      BY <3>2, <3>3
  <2>4. CASE Goto(w, "write") /\ UNCHANGED mlock
    BY <2>1, <2>2, <2>4, ServedInside DEF TypeOK, Goto, Phase
  <2>5. QED
    BY <1>4, <2>3, <2>4 DEF Truncate, Write
<1>5. QED
  BY <1>1, <1>2, <1>3, <1>4 DEF LoadStep

LEMMA ChatServed ==
  ASSUME TypeOK, IInv, LocksAreServed, NEW w \in Threads, ChatStep(w)
  PROVE  LocksAreServed'
<1> USE ConstantsAssumption
<1>1. mlock = w => pc[w] \in {"ensure", "load", "publish", "name", "recall", "truncate", "write"}
  BY DEF LocksAreServed, Threads
<1>2. CASE UseCached(w) \/ Label(w) \/ Wrap(w) \/ RaiseCached(w)
  <2>1. mlock # w /\ UNCHANGED mlock /\ elock' = NoOne
    BY <1>1, <1>2 DEF UseCached, Label, Wrap, RaiseCached, Take, manager
  <2>2. \A v \in Threads : v # w => pc'[v] = pc[v]
    BY <1>2 DEF TypeOK, UseCached, Label, Wrap, RaiseCached, Take, Return, Forget, Goto
  <2>3. QED
    BY <2>1, <2>2 DEF TypeOK, LocksAreServed, Threads
<1>3. CASE SeeSwitch(w) \/ Peek(w) \/ StartBuild(w)
  BY <1>1, <1>3, ServedInside DEF SeeSwitch, Peek, StartBuild, Goto, manager, provider, Phase
<1>4. CASE BuildLoad(w)
  <2>1. w \in Chats /\ elock = w /\ mlock' = w /\ elock' = w
    BY <1>4 DEF IInv, Locked, ChatPhase, BuildLoad, Begin, provider
  <2>2. pc'[w] = "ensure"
    BY <1>4 DEF TypeOK, BuildLoad, Begin, Goto
  <2>3. QED
    BY <2>1, <2>2 DEF LocksAreServed
<1>5. CASE Stream(w) \/ NonStream(w) \/ CountUsage(w) \/ EndChat(w)
  <2>1. pc[w] \in {"use", "decode", "count"} /\ mlock # w /\ UNCHANGED <<mlock, elock>>
    BY <1>1, <1>5 DEF Stream, NonStream, CountUsage, EndChat, manager, provider
  <2>2. elock # w
    BY <1>1, <2>1 DEF LocksAreServed, Threads
  <2>3. \A v \in Threads : v # w => pc'[v] = pc[v]
    BY <1>5 DEF TypeOK, Stream, NonStream, CountUsage, EndChat, Return, Forget, Goto
  <2>4. QED
    BY <2>1, <2>2, <2>3 DEF TypeOK, LocksAreServed, Threads
<1>6. QED
  BY <1>2, <1>3, <1>4, <1>5 DEF ChatStep

LEMMA StepServed == TypeOK /\ IInv /\ LocksAreServed /\ [Next]_vars => LocksAreServed'
<1> SUFFICES ASSUME TypeOK, IInv, LocksAreServed, [Next]_vars PROVE LocksAreServed'
  OBVIOUS
<1> USE ConstantsAssumption
<1>1. CASE UNCHANGED vars
  BY <1>1 DEF vars, manager, provider, LocksAreServed
<1>2. CASE Crash
  BY <1>2 DEF Crash, LocksAreServed
<1>3. ASSUME NEW w \in Threads, NEW t \in Tiers, NEW c \in ContextOrNone, RouteLoad(w, t, c)
      PROVE  LocksAreServed'
  <2>1. mlock = NoOne /\ mlock' = w /\ UNCHANGED elock /\ w \in Loaders /\ pc'[w] = "ensure"
    BY <1>3 DEF TypeOK, RouteLoad, Begin, Goto, provider
  <2>2. \A v \in Threads : v # w => pc'[v] = pc[v]
    BY <1>3 DEF TypeOK, RouteLoad, Begin, Goto
  <2>3. QED
    BY <2>1, <2>2 DEF TypeOK, LocksAreServed, Threads
<1>4. ASSUME NEW w \in Threads, NEW t \in Tiers, NEW c \in Contexts, Tune(w, t, c)
      PROVE  LocksAreServed'
  <2>1. w # mlock /\ w # elock
    BY <1>4 DEF TypeOK, Tune
  <2>2. QED
    BY <1>4, <2>1, ServedInside DEF Tune, Goto, manager, provider, Phase
<1>5. ASSUME NEW w \in Threads, Enter(w) PROVE LocksAreServed'
  <2>1. mlock # w
    BY <1>5 DEF LocksAreServed, Enter, Threads
  <2>2. elock' = w /\ UNCHANGED mlock /\ pc' = [pc EXCEPT ![w] = "look"] /\ w \in Chats
    BY <1>5 DEF Enter, Goto, manager
  <2>3. QED
    BY <2>1, <2>2 DEF TypeOK, LocksAreServed, Threads
<1>6. QED
  BY <1>1, <1>2, <1>3, <1>4, <1>5, LoadServed, ChatServed DEF Next, Request, ContextOrNone

\* No lock is left behind, and the threads that hold one never wait for each other in
\* a circle, for any number of loads and chats: the reason why the calls end.
THEOREM NoCircle == Spec => []LocksAreServed
<1>1. Init => LocksAreServed
  BY DEF Init, LocksAreServed
<1>2. QED
  BY <1>1, StepServed, Inductive, PTL DEF Spec

-----------------------------------------------------------------------------
(***************************************************************************)
(* A backend that is not yet assigned is known to its load only, which has *)
(* emptied the slot and knows its context.                                 *)
(***************************************************************************)
Unseen(w) ==
    /\ pc[w] \in {"load", "publish"} => active = 0
    /\ pc[w] = "publish" =>
          /\ engine.backend < made
          /\ \A v \in Threads : Wrapping(v) => mine[v] < made
    /\ Loading(w) => jcontext[w] \in Contexts

UnseenInv == \A w \in Threads : Unseen(w)

LEMMA LoadUnseen ==
  ASSUME TypeOK, TypeOK', IInv, UnseenInv, NEW w \in Threads, LoadStep(w)
  PROVE  UnseenInv'
<1> USE ConstantsAssumption
<1>1. CASE LoadRaises(w)
  BY <1>1 DEF TypeOK, UnseenInv, Unseen, Loading, Wrapping, LoadPhase, SavePhase, LoadRaises,
              Return, Forget, Goto, backends
<1>2. CASE Unload(w)
  <2>1. \A v \in Threads : v # w => ~Loading(v)
    BY <1>2 DEF IInv, Locked, Loading, LoadPhase, Unload
  <2>2. QED
    BY <1>2, <2>1 DEF TypeOK, UnseenInv, Unseen, Loading, Wrapping, LoadPhase, SavePhase,
                      Unload, Goto, provider, local
<1>3. CASE MakeBackend(w)
  <2>1. \A v \in Threads : v # w => ~Loading(v)
    BY <1>3 DEF IInv, Locked, Loading, LoadPhase, MakeBackend
  <2>2. /\ made' = made + 1
        /\ UNCHANGED <<active, engine, jcontext>>
        /\ pc' = [pc EXCEPT ![w] = "publish"]
        /\ \A v \in Threads : v # w => mine'[v] = mine[v]
    BY <1>3 DEF TypeOK, MakeBackend, Goto, manager, provider
  <2>3. engine.backend < made' /\ \A v \in Threads : v # w => mine[v] < made'
    BY <2>2, Numbers DEF IInv, ActiveInv, WrapInv
  <2>4. active = 0 /\ jcontext[w] \in Contexts
    BY <1>3 DEF UnseenInv, Unseen, Loading, LoadPhase, MakeBackend
  <2>5. ASSUME NEW v \in Threads PROVE Unseen(v)'
    <3>1. CASE v = w
      BY <2>2, <2>3, <2>4, <3>1 DEF TypeOK, Unseen, Loading, Wrapping, LoadPhase
    <3>2. CASE v # w
      BY <2>1, <2>2, <3>2 DEF TypeOK, Unseen, Loading, LoadPhase, SavePhase
    <3>3. QED
      BY <3>1, <3>2
  <2>6. QED
    BY <2>5 DEF UnseenInv
<1>4. CASE Publish(w)
  <2>1. \A v \in Threads : v # w => ~Loading(v)
    BY <1>4 DEF IInv, Locked, Loading, LoadPhase, Publish
  <2>2. QED
    BY <1>4, <2>1 DEF TypeOK, UnseenInv, Unseen, Loading, Wrapping, LoadPhase, SavePhase,
                      Publish, Goto, backends, provider, local
<1>5. CASE Name(w)
  BY <1>5 DEF TypeOK, UnseenInv, Unseen, Loading, Wrapping, LoadPhase, SavePhase, Name, Goto,
              backends, provider, local
<1>6. CASE Recall(w)
  BY <1>6 DEF TypeOK, UnseenInv, Unseen, Loading, Wrapping, LoadPhase, SavePhase, Recall, Goto,
              manager, backends, provider
<1>7. CASE Truncate(w) \/ Write(w)
  <2>1. CASE w \in Tuners
    BY <1>7, <2>1 DEF TypeOK, UnseenInv, Unseen, Loading, Wrapping, LoadPhase, SavePhase,
                      Truncate, Write, Saved, Return, Forget, Goto, backends, provider, local
  <2>2. CASE w \notin Tuners
    <3>1. \A v \in Threads : v # w => ~Loading(v)
      BY <1>7, <2>2 DEF IInv, Locked, Loading, SavePhase, Truncate, Write
    <3>2. \A v \in Threads : v # w => pc'[v] = pc[v] /\ jcontext'[v] = jcontext[v]
      BY <1>7 DEF TypeOK, Truncate, Write, Saved, Return, Forget, Goto, local
    <3>3. pc'[w] \in {"idle", "wrap", "write"} /\ (pc'[w] = "write" => jcontext' = jcontext)
      BY <1>7 DEF TypeOK, Truncate, Write, Saved, Return, Forget, Goto, local
    <3>4. Loading(w)
      BY <1>7, <2>2 DEF Loading, SavePhase, Truncate, Write
    <3>5. ASSUME NEW v \in Threads PROVE Unseen(v)'
      BY <3>1, <3>2, <3>3, <3>4 DEF UnseenInv, Unseen, Loading, LoadPhase, SavePhase
    <3>6. QED
      BY <3>5 DEF UnseenInv
  <2>3. QED
    BY <2>1, <2>2
<1>8. QED
  BY <1>1, <1>2, <1>3, <1>4, <1>5, <1>6, <1>7 DEF LoadStep

LEMMA ChatUnseen ==
  ASSUME TypeOK, TypeOK', IInv, UnseenInv, NEW w \in Threads, ChatStep(w)
  PROVE  UnseenInv'
<1> USE ConstantsAssumption
<1>1. CASE UseCached(w) \/ Stream(w) \/ EndChat(w) \/ RaiseCached(w)
  BY <1>1 DEF TypeOK, UnseenInv, Unseen, Loading, Wrapping, LoadPhase, SavePhase, UseCached,
              Stream, EndChat, RaiseCached, Take, Return, Forget, Goto, manager, backends, provider, local
<1>2. CASE NonStream(w) \/ CountUsage(w)
  BY <1>2 DEF TypeOK, UnseenInv, Unseen, Loading, Wrapping, LoadPhase, SavePhase, NonStream,
              CountUsage, Return, Forget, Goto, manager, provider
<1>3. CASE SeeSwitch(w)
  BY <1>3 DEF TypeOK, UnseenInv, Unseen, Loading, Wrapping, LoadPhase, SavePhase, SeeSwitch,
              Goto, manager, backends, provider
<1>4. CASE Peek(w)
  BY <1>4 DEF TypeOK, UnseenInv, Unseen, Loading, Wrapping, LoadPhase, SavePhase, Peek, Goto,
              manager, backends, provider
<1>5. CASE Label(w)
  <2>1. engine'.backend = mine[w]
    <3>1. hold[w] \in Engine /\ hold[w].backend = mine[w]
      BY <1>5, Numbers DEF TypeOK, IInv, WrapInv, Wrapping, Label, NoEngine
    <3>2. QED
      BY <1>5, <3>1 DEF Label, Engine
  <2>2. QED
    BY <1>5, <2>1 DEF TypeOK, UnseenInv, Unseen, Loading, Wrapping, LoadPhase, SavePhase, Label,
                      Take, Forget, Goto, manager, backends
<1>6. CASE StartBuild(w)
  BY <1>6 DEF TypeOK, UnseenInv, Unseen, Loading, Wrapping, LoadPhase, SavePhase, StartBuild,
              Goto, manager, backends, provider
<1>7. CASE BuildLoad(w)
  <2>1. \A v \in Threads : ~Loading(v)
    BY <1>7 DEF IInv, Locked, BuildLoad, Begin, Threads
  <2>2. w \in Chats /\ jtier[w] \in Tiers
    BY <1>7 DEF IInv, Locked, LoadInv, ChatPhase, BuildLoad
  <2>3. Stored(jtier[w]) \in Contexts
    BY <2>2 DEF TypeOK, Stored, Choice, ContextOrNone
  <2>4. QED
    BY <1>7, <2>1, <2>3 DEF TypeOK, UnseenInv, Unseen, Loading, LoadPhase, SavePhase,
                            BuildLoad, Begin, Goto
<1>8. CASE Wrap(w)
  BY <1>8 DEF TypeOK, UnseenInv, Unseen, Loading, Wrapping, LoadPhase, SavePhase, Wrap, Take,
              Forget, Goto, manager, backends
<1>9. QED
  BY <1>1, <1>2, <1>3, <1>4, <1>5, <1>6, <1>7, <1>8 DEF ChatStep

LEMMA StepUnseen == TypeOK /\ IInv /\ UnseenInv /\ [Next]_vars => UnseenInv'
<1> SUFFICES ASSUME TypeOK, IInv, UnseenInv, [Next]_vars PROVE UnseenInv'
  OBVIOUS
<1> USE ConstantsAssumption
<1>1. TypeOK'
  BY StepTyped
<1>2. CASE UNCHANGED vars
  BY <1>2 DEF vars, manager, backends, provider, local, UnseenInv, Unseen, Loading, Wrapping
<1>3. CASE Crash
  BY <1>3 DEF Crash, UnseenInv, Unseen, Loading, LoadPhase, SavePhase
<1>4. ASSUME NEW w \in Threads, NEW t \in Tiers, NEW c \in ContextOrNone, RouteLoad(w, t, c)
      PROVE  UnseenInv'
  <2>1. \A v \in Threads : ~Loading(v)
    BY <1>4 DEF IInv, Locked, RouteLoad, Begin, Threads
  <2>2. Stored(t) \in Contexts
    BY DEF TypeOK, Stored, Choice, ContextOrNone
  <2>3. QED
    BY <1>4, <2>1, <2>2 DEF TypeOK, UnseenInv, Unseen, Loading, LoadPhase, SavePhase,
                            RouteLoad, Begin, Goto, ContextOrNone
<1>5. ASSUME NEW w \in Threads, NEW t \in Tiers, NEW c \in Contexts, Tune(w, t, c)
      PROVE  UnseenInv'
  BY <1>5 DEF TypeOK, UnseenInv, Unseen, Loading, Wrapping, LoadPhase, SavePhase, Tune, Goto,
              manager, backends, provider
<1>6. ASSUME NEW w \in Threads, Enter(w) PROVE UnseenInv'
  BY <1>6 DEF TypeOK, UnseenInv, Unseen, Loading, Wrapping, LoadPhase, SavePhase, Enter, Goto,
              manager, backends, local
<1>7. QED
  BY <1>1, <1>2, <1>3, <1>4, <1>5, <1>6, LoadUnseen, ChatUnseen DEF Next, Request, ContextOrNone

-----------------------------------------------------------------------------
(***************************************************************************)
(* The report.  Between the assignment of the backend and that of its name *)
(* the report is behind; a load that fails has changed neither the newest  *)
(* backend nor the report.                                                 *)
(***************************************************************************)
Report ==
    IF made = 0 THEN <<NoTier, NoContext>>
    ELSE <<backend[made].tier, backend[made].context>>

Reported ==
    /\ active \in {0, made}
    /\ (\A w \in Threads : pc[w] \notin {"publish", "name"}) => <<mtier, mcontext>> = Report

\* A step that makes no backend, of a thread that is not about to name one.
LEMMA ReportedKept ==
  ASSUME TypeOK, Reported, NEW w \in Threads,
         pc[w] \notin {"publish", "name"},
         \A v \in Threads : v # w => pc'[v] = pc[v],
         UNCHANGED <<mtier, mcontext, made>>,
         active' \in {0, active},
         \A b \in Backends : /\ backend'[b].tier = backend[b].tier
                             /\ backend'[b].context = backend[b].context
  PROVE  Reported'
<1>1. Report' = Report
  <2>1. made = 0 \/ made \in Backends
    BY ConstantsAssumption DEF TypeOK, Backends
  <2>2. made \in Backends => /\ backend'[made].tier = backend[made].tier
                             /\ backend'[made].context = backend[made].context
    OBVIOUS
  <2>3. QED
    BY <2>1, <2>2 DEF Report
<1>2. QED
  BY <1>1 DEF Reported

LEMMA LoadReported ==
  ASSUME TypeOK, IInv, UnseenInv, Reported, NEW w \in Threads, LoadStep(w)
  PROVE  Reported'
<1>1. CASE LoadRaises(w)
  BY <1>1, ReportedKept DEF TypeOK, LoadRaises, Return, Goto, backends
<1>2. CASE Unload(w)
  <2>1. \A b \in Backends : /\ backend'[b].tier = backend[b].tier
                            /\ backend'[b].context = backend[b].context
    BY <1>2 DEF TypeOK, Unload, Backend
  <2>2. QED
    BY <1>2, <2>1, ReportedKept DEF TypeOK, Unload, Goto
<1>3. CASE MakeBackend(w)
  <2>1. active' = 0
    BY <1>3 DEF UnseenInv, Unseen, MakeBackend, manager
  <2>2. pc'[w] = "publish"
    BY <1>3 DEF TypeOK, MakeBackend, Goto
  <2>3. QED
    BY <2>1, <2>2 DEF Reported
<1>4. CASE Publish(w)
  <2>1. active' = made'
    BY <1>4 DEF IInv, LoadInv, Loading, LoadPhase, Publish, backends
  <2>2. pc'[w] = "name"
    BY <1>4 DEF TypeOK, Publish, Goto
  <2>3. QED
    BY <2>1, <2>2 DEF Reported
<1>5. CASE Name(w)
  <2>1. /\ made # 0
        /\ backend[made].tier = jtier[w] /\ backend[made].context = jcontext[w]
    BY <1>5, Numbers DEF IInv, LoadInv, Loading, LoadPhase, Name
  <2>2. <<mtier, mcontext>>' = Report'
    BY <1>5, <2>1 DEF Name, Report, backends
  <2>3. QED
    BY <1>5, <2>2 DEF Name, Reported, backends
<1>6. CASE Recall(w)
  BY <1>6, ReportedKept DEF TypeOK, Recall, Goto, manager, backends
<1>7. CASE Truncate(w) \/ Write(w)
  BY <1>7, ReportedKept DEF TypeOK, Truncate, Write, Saved, Return, Goto, backends
<1>8. QED
  BY <1>1, <1>2, <1>3, <1>4, <1>5, <1>6, <1>7 DEF LoadStep

LEMMA ChatReported ==
  ASSUME TypeOK, Reported, NEW w \in Threads, ChatStep(w)
  PROVE  Reported'
<1>1. CASE NonStream(w) \/ CountUsage(w)
  <2>1. \A b \in Backends : /\ backend'[b].tier = backend[b].tier
                            /\ backend'[b].context = backend[b].context
    BY <1>1 DEF TypeOK, NonStream, CountUsage, EnsureLoaded, Backend
  <2>2. QED
    BY <1>1, <2>1, ReportedKept
    DEF TypeOK, NonStream, CountUsage, Return, Goto, manager
<1>2. CASE UseCached(w) \/ SeeSwitch(w) \/ Peek(w) \/ Label(w) \/ RaiseCached(w)
  BY <1>2, ReportedKept
  DEF TypeOK, UseCached, SeeSwitch, Peek, Label, RaiseCached, Take, Return, Goto,
      manager, backends
<1>3. CASE StartBuild(w) \/ BuildLoad(w) \/ Wrap(w) \/ Stream(w) \/ EndChat(w)
  BY <1>3, ReportedKept
  DEF TypeOK, StartBuild, BuildLoad, Begin, Wrap, Stream, EndChat, Take, Return, Goto,
      manager, backends
<1>4. QED
  BY <1>1, <1>2, <1>3 DEF ChatStep

LEMMA StepReported ==
  TypeOK /\ IInv /\ UnseenInv /\ Reported /\ [Next]_vars => Reported'
<1> SUFFICES ASSUME TypeOK, IInv, UnseenInv, Reported, [Next]_vars PROVE Reported'
  OBVIOUS
<1>1. CASE UNCHANGED vars
  BY <1>1 DEF vars, manager, backends, Reported, Report
<1>2. CASE Crash
  BY <1>2 DEF Crash, Reported, Report
<1>3. ASSUME NEW w \in Threads, Request(w) PROVE Reported'
  BY <1>3, ReportedKept DEF TypeOK, Request, RouteLoad, Begin, Tune, Enter, Goto,
                            manager, backends
<1>4. QED
  BY <1>1, <1>2, <1>3, LoadReported, ChatReported DEF Next

\* Between loads, what the manager reports is the model that was loaded last, and
\* what is active is that model with its weights, however loads (the failed ones
\* included), chats, context changes and crashes are interleaved: the manager's lock
\* is enough for that.
THEOREM ManagerIsRight == Spec => []ManagerAgrees
<1>1. IInv /\ Reported => ManagerAgrees
  <2> SUFFICES ASSUME IInv, Reported, mlock = NoOne
               PROVE  /\ <<mtier, mcontext>> = Report
                      /\ active # 0 => active = made /\ backend[active].model # "none"
    BY DEF ManagerAgrees, Report
  <2>1. \A w \in Threads : pc[w] \notin {"publish", "name"}
    BY ConstantsAssumption DEF IInv, Locked, Loading, LoadPhase, Threads
  <2>2. QED
    BY <2>1 DEF IInv, ActiveInv, Reported
<1>2. Init => UnseenInv /\ Reported
  BY DEF Init, UnseenInv, Unseen, Loading, LoadPhase, SavePhase, Reported, Report
<1>3. QED
  BY <1>1, <1>2, StepUnseen, StepReported, Inductive, PTL DEF Spec

-----------------------------------------------------------------------------
(***************************************************************************)
(* The refinement.                                                         *)
(***************************************************************************)
\* The slot as ModelSlot sees it.
Loaded(b) == <<backend[b].tier, backend[b].context>>
Unassigned == \E w \in Threads : pc[w] = "publish"
Newest == IF Unassigned THEN made - 1 ELSE made
Content == IF active = 0 THEN <<NoTier, NoContext>> ELSE Loaded(active)

\* A step that makes, assigns and drops no backend, and what chats are served with.
LEMMA SlotQuiet ==
  ASSUME TypeOK, NEW w \in Threads, UNCHANGED <<active, made>>,
         \A b \in Backends : Loaded(b)' = Loaded(b),
         \A v \in Threads : v # w => pc'[v] = pc[v],
         pc[w] # "publish", pc'[w] # "publish"
  PROVE  UNCHANGED <<active, Newest, Content>>
<1>1. Unassigned' <=> Unassigned
  BY DEF Unassigned
<1>2. Content' = Content
  BY DEF TypeOK, Content
<1>3. QED
  BY <1>1, <1>2 DEF Newest

\* A chat that caches a backend takes one that was assigned.
LEMMA SlotServes ==
  ASSUME TypeOK, IInv, UnseenInv, NEW w \in Threads, Wrapping(w), engine'.backend = mine[w],
         UNCHANGED <<active, Newest, Content>>
  PROVE  [Slot!Next]_(Slot!slotVars)
<1>1. mine[w] \in Nat /\ engine.backend \in Nat /\ engine.backend <= mine[w]
  BY Numbers DEF IInv, WrapInv
<1>2. mine[w] <= Newest
  BY Numbers DEF IInv, WrapInv, UnseenInv, Unseen, Newest, Unassigned
<1>3. CASE engine'.backend = engine.backend
  BY <1>3 DEF Slot!slotVars, Newest, Content, Unassigned, Loaded
<1>4. CASE engine'.backend # engine.backend
  <2>1. engine.backend < mine[w]
    BY <1>1, <1>4
  <2>2. Slot!Serve
    BY <1>1, <1>2, <2>1 DEF Slot!Serve, Newest, Content, Unassigned, Loaded
  <2>3. QED
    BY <2>2 DEF Slot!Next
<1>5. QED
  BY <1>3, <1>4

LEMMA SlotStill ==
  ASSUME UNCHANGED <<active, Newest, Content, engine>>
  PROVE  UNCHANGED Slot!slotVars
BY DEF Slot!slotVars, Newest, Content, Unassigned, Loaded

LEMMA LoadSlot ==
  ASSUME TypeOK, TypeOK', IInv, UnseenInv, NEW w \in Threads, LoadStep(w)
  PROVE  [Slot!Next]_(Slot!slotVars)
<1> USE ConstantsAssumption
<1>1. CASE LoadRaises(w)
  BY <1>1, SlotQuiet, SlotStill DEF TypeOK, LoadRaises, Return, Forget, Goto, backends, Loaded
<1>2. CASE Unload(w)
  <2>1. \A v \in Threads : pc[v] # "publish" /\ pc'[v] # "publish"
    BY <1>2 DEF TypeOK, IInv, Locked, Loading, LoadPhase, Unload, Goto
  <2>2. ~Unassigned /\ ~Unassigned' /\ active' = 0 /\ UNCHANGED <<made, engine>>
    BY <1>2, <2>1 DEF Unassigned, Unload, provider
  <2>3. Newest' = Newest /\ Content' = <<NoTier, NoContext>>
    BY <2>2 DEF Newest, Content
  <2>4. CASE active = 0
    BY <2>2, <2>3, <2>4, SlotStill DEF Content
  <2>5. CASE active # 0
    BY <2>2, <2>3, <2>5 DEF Slot!Next, Slot!Evict, Newest, Content, Unassigned, Loaded
  <2>6. QED
    BY <2>4, <2>5
<1>3. CASE MakeBackend(w)
  <2>1. ~Unassigned
    BY <1>3 DEF IInv, Locked, Loading, LoadPhase, MakeBackend, Unassigned
  <2>2. Unassigned' /\ made' = made + 1 /\ active' = active /\ engine' = engine
    BY <1>3 DEF TypeOK, MakeBackend, Goto, manager, provider, Unassigned
  <2>3. active = 0
    BY <1>3 DEF UnseenInv, Unseen, MakeBackend
  <2>4. Newest' = Newest /\ Content' = Content
    BY <2>1, <2>2, <2>3, Numbers DEF Newest, Content
  <2>5. QED
    BY <2>2, <2>4, SlotStill
<1>4. CASE Publish(w)
  <2>1. \A v \in Threads : v # w => pc[v] # "publish"
    BY <1>4 DEF IInv, Locked, Loading, LoadPhase, Publish
  <2>2. Unassigned /\ ~Unassigned'
    BY <1>4, <2>1 DEF TypeOK, Publish, Goto, Unassigned
  <2>3. /\ mine[w] = made /\ made > 0
        /\ backend[made].tier = jtier[w] /\ backend[made].context = jcontext[w]
        /\ jtier[w] \in Tiers
    BY <1>4 DEF IInv, LoadInv, Loading, LoadPhase, Publish
  <2>4. active = 0 /\ jcontext[w] \in Contexts
    BY <1>4 DEF UnseenInv, Unseen, Loading, LoadPhase, Publish
  <2>5. active' = made /\ UNCHANGED <<made, backend, engine>>
    BY <1>4, <2>3 DEF Publish, backends, provider
  <2>6. Newest' = Newest + 1 /\ active' = Newest'
    BY <2>2, <2>5, Numbers DEF Newest
  <2>7. Content' \in Tiers \X Contexts
    BY <2>3, <2>4, <2>5 DEF Content, Loaded
  <2>8. Slot!Install
    BY <2>4, <2>5, <2>6, <2>7 DEF Slot!Install, Newest, Content, Unassigned, Loaded
  <2>9. QED
    BY <2>8 DEF Slot!Next
<1>5. CASE Name(w) \/ Recall(w)
  BY <1>5, SlotQuiet, SlotStill
  DEF TypeOK, Name, Recall, Goto, manager, backends, provider, Loaded
<1>6. CASE Truncate(w) \/ Write(w)
  BY <1>6, SlotQuiet, SlotStill
  DEF TypeOK, Truncate, Write, Saved, Return, Forget, Goto, backends, provider, Loaded
<1>7. QED
  BY <1>1, <1>2, <1>3, <1>4, <1>5, <1>6 DEF LoadStep

LEMMA ChatSlot ==
  ASSUME TypeOK, TypeOK', IInv, UnseenInv, NEW w \in Threads, ChatStep(w)
  PROVE  [Slot!Next]_(Slot!slotVars)
<1>1. CASE UseCached(w) \/ SeeSwitch(w) \/ Peek(w) \/ RaiseCached(w) \/ StartBuild(w)
  BY <1>1, SlotQuiet, SlotStill
  DEF TypeOK, UseCached, SeeSwitch, Peek, RaiseCached, StartBuild, Take, Return, Forget, Goto, manager,
      backends, provider, Loaded
<1>2. CASE Label(w)
  <2>1. engine'.backend = mine[w]
    <3>1. hold[w] \in Engine /\ hold[w].backend = mine[w]
      BY <1>2, Numbers DEF TypeOK, IInv, WrapInv, Wrapping, Label, NoEngine
    <3>2. QED
      BY <1>2, <3>1 DEF Label, Engine
  <2>2. UNCHANGED <<active, Newest, Content>>
    BY <1>2, SlotQuiet DEF TypeOK, Label, Take, Forget, Goto, manager, backends, Loaded
  <2>3. QED
    BY <1>2, <2>1, <2>2, SlotServes DEF Wrapping, Label
<1>3. CASE BuildLoad(w)
  BY <1>3, SlotQuiet, SlotStill DEF TypeOK, BuildLoad, Begin, Goto, backends, provider, Loaded
<1>4. CASE Wrap(w)
  <2>1. UNCHANGED <<active, Newest, Content>>
    BY <1>4, SlotQuiet DEF TypeOK, Wrap, Take, Forget, Goto, manager, backends, Loaded
  <2>2. QED
    BY <1>4, <2>1, SlotServes DEF Wrapping, Wrap
<1>5. CASE Stream(w) \/ EndChat(w)
  BY <1>5, SlotQuiet, SlotStill
  DEF TypeOK, Stream, EndChat, Return, Forget, Goto, manager, backends, provider, Loaded
<1>6. CASE NonStream(w) \/ CountUsage(w)
  <2>1. \A b \in Backends : /\ backend'[b].tier = backend[b].tier
                            /\ backend'[b].context = backend[b].context
    BY <1>6 DEF TypeOK, NonStream, CountUsage, EnsureLoaded, Backend
  <2>2. UNCHANGED <<active, Newest, Content>>
    BY <1>6, <2>1, SlotQuiet DEF TypeOK, NonStream, CountUsage, Return, Forget, Goto, manager, Loaded
  <2>3. QED
    BY <1>6, <2>2, SlotStill DEF NonStream, CountUsage, provider
<1>7. QED
  BY <1>1, <1>2, <1>3, <1>4, <1>5, <1>6 DEF ChatStep

LEMMA StepSlot == TypeOK /\ IInv /\ UnseenInv /\ [Next]_vars => [Slot!Next]_(Slot!slotVars)
<1> SUFFICES ASSUME TypeOK, IInv, UnseenInv, [Next]_vars PROVE [Slot!Next]_(Slot!slotVars)
  OBVIOUS
<1>1. TypeOK'
  BY StepTyped
<1>2. CASE UNCHANGED vars
  BY <1>2, SlotStill
  DEF vars, manager, backends, provider, Newest, Content, Unassigned, Loaded
<1>3. CASE Crash
  <2>1. ~Unassigned' /\ made' = 0 /\ active' = 0 /\ engine'.backend = 0
    BY <1>3 DEF Crash, Unassigned, NoEngine
  <2>2. Newest' = 0 /\ Content' = <<NoTier, NoContext>>
    BY <2>1 DEF Newest, Content
  <2>3. Slot!Restart
    BY <2>1, <2>2 DEF Slot!Restart, Newest, Content, Unassigned, Loaded
  <2>4. QED
    BY <2>3 DEF Slot!Next
<1>4. ASSUME NEW w \in Threads, NEW t \in Tiers, NEW c \in ContextOrNone, RouteLoad(w, t, c)
      PROVE  UNCHANGED Slot!slotVars
  BY <1>4, SlotQuiet, SlotStill DEF TypeOK, RouteLoad, Begin, Goto, backends, provider, Loaded
<1>5. ASSUME NEW w \in Threads, NEW t \in Tiers, NEW c \in Contexts, Tune(w, t, c)
      PROVE  UNCHANGED Slot!slotVars
  BY <1>5, SlotQuiet, SlotStill DEF TypeOK, Tune, Goto, manager, backends, provider, Loaded
<1>6. ASSUME NEW w \in Threads, Enter(w) PROVE UNCHANGED Slot!slotVars
  BY <1>6, SlotQuiet, SlotStill DEF TypeOK, Enter, Goto, manager, backends, Loaded
<1>7. QED
  BY <1>1, <1>2, <1>3, <1>4, <1>5, <1>6, LoadSlot, ChatSlot, ConstantsAssumption
  DEF Next, Request, ContextOrNone

\* The manager and the provider, with their two locks and the fields that one reads
\* behind the other's back, are one slot for one model, for any number of loads,
\* chats and crashes.
THEOREM SlotIsImplemented == Spec => SlotSpec
<1>1. Init => Slot!Init
  BY DEF Init, Slot!Init, NoEngine
<1>2. Init => UnseenInv
  BY DEF Init, UnseenInv, Unseen, Loading, LoadPhase, SavePhase
<1>3. QED
  BY <1>1, <1>2, StepUnseen, StepSlot, Inductive, PTL DEF Spec, SlotSpec, Slot!Spec
=============================================================================
