----------------------------- MODULE ModelEngine -----------------------------
(***************************************************************************)
(* Which model is resident, and who thinks so: ModelManager (manager.py,   *)
(* load / switch / set_context_length and the choice file) and the cached  *)
(* engine of the chat provider (alice_provider.py, get_engine and the two  *)
(* generation paths), run by executor threads that share nothing but two   *)
(* locks.                                                                  *)
(*                                                                         *)
(* A load makes a new backend; backends are numbered in the order they are *)
(* made.  The weights of a backend are "seeded" by the load that made it,  *)
(* or "reloaded" by the lazy path of RealModelTextBackend after they were  *)
(* dropped.  Python keeps weights in memory as long as something refers to *)
(* them, so what is resident is derived from the references (Resident).    *)
(***************************************************************************)
EXTENDS Naturals, FiniteSets

CONSTANTS
    Tiers, DefaultTier,
    Contexts, DefaultContext,
    Loaders,   \* executor threads of POST /alice/load
    Chats,     \* threads that serve chat completions
    Tuners,    \* requests of POST /alice/context
    Requests,  \* the tiers, with or without a context, that the user loads
    Tunings,   \* the contexts that the user chooses apart from a load
    MaxLoads,  \* bound: backends made in one run of the program
    NoTier, NoContext, NoOne

ASSUME ConstantsAssumption ==
    /\ DefaultTier \in Tiers
    /\ DefaultContext \in Contexts
    /\ NoTier \notin Tiers
    /\ NoContext \notin Contexts
    /\ Requests \subseteq Tiers \X (Contexts \cup {NoContext})
    /\ Tunings \subseteq Tiers \X Contexts
    /\ MaxLoads \in Nat
    /\ Loaders \cap Chats = {}
    /\ Loaders \cap Tuners = {}
    /\ Chats \cap Tuners = {}
    /\ NoOne \notin Loaders \cup Chats \cup Tuners

VARIABLES
    \* ModelManager
    mlock,    \* holder of _lock
    active,   \* _active_backend: the number of a backend, 0 for None
    mtier,    \* _active_tier
    mcontext, \* _active_context
    made,     \* the number of backends made so far
    backend,  \* backend[b]: _model, and the tier and context it was made for
    \* alice_model_choice.json, on disk
    choice,
    \* the provider
    elock,    \* holder of _engine_lock
    engine,   \* _engine
    broken,   \* _engine_error is set
    \* the threads
    pc,
    jtier, jcontext,  \* the tier and context a call is about
    mine,     \* the backend a thread works with
    copy,     \* the copy of the choice file a thread is about to write
    hold,     \* hold[w]: the engine a chat took from get_engine
    using     \* using[w]: the weights of run_with_prompt, a local of it

manager == <<mlock, active, mtier, mcontext>>
backends == <<made, backend>>
provider == <<elock, engine, broken>>
local == <<jtier, jcontext, mine, copy, hold, using>>
vars == <<manager, backends, choice, provider, pc, local>>

Threads == Loaders \cup Chats \cup Tuners
Backends == 1..MaxLoads
Weights == {"none", "seeded", "reloaded"}
TierOrNone == Tiers \cup {NoTier}
ContextOrNone == Contexts \cup {NoContext}
Backend == [model : Weights, tier : TierOrNone, context : ContextOrNone]
NoBackend == [model |-> "none", tier |-> NoTier, context |-> NoContext]
Choice == [tier : TierOrNone, context : [Tiers -> ContextOrNone]]
NoChoice == [tier |-> NoTier, context |-> [t \in Tiers |-> NoContext]]

\* An engine wraps a backend; "loaded" are the weights of it that it refers to.
Engine == [backend : Backends, tier : TierOrNone, loaded : Weights]
NoEngine == [backend |-> 0, tier |-> NoTier, loaded |-> "none"]
Phase == {"idle", "ensure", "load", "publish", "name", "recall", "truncate",
          "write", "look", "peek", "label", "build", "wrap", "use", "decode", "count"}

TypeOK ==
    /\ mlock \in Loaders \cup Chats \cup {NoOne}
    /\ active \in Backends \cup {0}
    /\ mtier \in TierOrNone
    /\ mcontext \in ContextOrNone
    /\ made \in 0..MaxLoads
    /\ backend \in [Backends -> Backend]
    /\ choice \in Choice
    /\ elock \in Chats \cup {NoOne}
    /\ engine \in Engine \cup {NoEngine}
    /\ broken \in BOOLEAN
    /\ pc \in [Threads -> Phase]
    /\ jtier \in [Threads -> TierOrNone]
    /\ jcontext \in [Threads -> ContextOrNone]
    /\ mine \in [Threads -> Backends \cup {0}]
    /\ copy \in [Threads -> Choice]
    /\ hold \in [Threads -> Engine \cup {NoEngine}]
    /\ using \in [Threads -> Weights]

\* A process starts with nothing loaded.
Init ==
    /\ choice = NoChoice
    /\ mlock = NoOne
    /\ active = 0
    /\ mtier = NoTier
    /\ mcontext = NoContext
    /\ made = 0
    /\ backend = [b \in Backends |-> NoBackend]
    /\ elock = NoOne
    /\ engine = NoEngine
    /\ broken = FALSE
    /\ pc = [w \in Threads |-> "idle"]
    /\ jtier = [w \in Threads |-> NoTier]
    /\ jcontext = [w \in Threads |-> NoContext]
    /\ mine = [w \in Threads |-> 0]
    /\ copy = [w \in Threads |-> NoChoice]
    /\ hold = [w \in Threads |-> NoEngine]
    /\ using = [w \in Threads |-> "none"]

\* The process dies; the choice file is as it was, possibly truncated.
Crash ==
    /\ UNCHANGED choice
    /\ mlock' = NoOne
    /\ active' = 0
    /\ mtier' = NoTier
    /\ mcontext' = NoContext
    /\ made' = 0
    /\ backend' = [b \in Backends |-> NoBackend]
    /\ elock' = NoOne
    /\ engine' = NoEngine
    /\ broken' = FALSE
    /\ pc' = [w \in Threads |-> "idle"]
    /\ jtier' = [w \in Threads |-> NoTier]
    /\ jcontext' = [w \in Threads |-> NoContext]
    /\ mine' = [w \in Threads |-> 0]
    /\ copy' = [w \in Threads |-> NoChoice]
    /\ hold' = [w \in Threads |-> NoEngine]
    /\ using' = [w \in Threads |-> "none"]

Goto(w, phase) == pc' = [pc EXCEPT ![w] = phase]

\* What a thread knew inside load and get_engine is gone when they return.
Forget(w) ==
    /\ jtier' = [jtier EXCEPT ![w] = NoTier]
    /\ jcontext' = [jcontext EXCEPT ![w] = NoContext]
    /\ mine' = [mine EXCEPT ![w] = 0]
    /\ copy' = [copy EXCEPT ![w] = NoChoice]

\* The call is over.
Return(w) ==
    /\ Goto(w, "idle")
    /\ Forget(w)
    /\ hold' = [hold EXCEPT ![w] = NoEngine]
    /\ using' = [using EXCEPT ![w] = "none"]

Stored(t) ==
    IF choice.context[t] = NoContext THEN DefaultContext ELSE choice.context[t]

-----------------------------------------------------------------------------
(***************************************************************************)
(* ModelManager.load, inside _lock.                                        *)
(***************************************************************************)
Begin(w, t, c) ==
    /\ mlock = NoOne
    /\ mlock' = w
    /\ jtier' = [jtier EXCEPT ![w] = t]
    /\ jcontext' = [jcontext EXCEPT ![w] = IF c = NoContext THEN Stored(t) ELSE c]
    /\ Goto(w, "ensure")
    /\ UNCHANGED <<active, mtier, mcontext, backends, choice, provider, mine,
                   copy, hold, using>>

\* POST /alice/load, with or without a context of the user's choice.
RouteLoad(w, t, c) ==
    /\ w \in Loaders
    /\ pc[w] = "idle"
    /\ Begin(w, t, c)

\* Mutant: a load that fails starts again, without a limit.
LoadRetries(w) ==
    /\ pc[w] = "load"
    /\ Goto(w, "ensure")
    /\ UNCHANGED <<manager, backends, choice, provider, local>>

\* Mutant: a load that fails inside get_engine leaves the provider's lock taken.
LoadRaisesLocked(w) ==
    /\ pc[w] \in {"ensure", "load"}
    /\ mlock' = NoOne
    /\ broken' = (broken \/ w \in Chats)
    /\ Return(w)
    /\ UNCHANGED <<active, mtier, mcontext, backends, choice, elock, engine>>

\* The load raises: the gate refuses, the download fails, or the runtime cannot
\* open the weights.  The provider, if it asked, remembers the error.
LoadRaises(w) ==
    /\ pc[w] \in {"ensure", "load"}
    /\ mlock' = NoOne
    /\ \/ /\ w \in Chats
          /\ broken' = TRUE
          /\ elock' = NoOne
       \/ /\ w \in Loaders
          /\ UNCHANGED <<broken, elock>>
    /\ Return(w)
    /\ UNCHANGED <<active, mtier, mcontext, backends, choice, engine>>

\* Mutant: the weights are dropped, the reference to the backend is kept.
UnloadKeepsActive(w) ==
    /\ pc[w] = "ensure"
    /\ backend' = IF active = 0 THEN backend
                  ELSE [backend EXCEPT ![active].model = "none"]
    /\ Goto(w, "load")
    /\ UNCHANGED <<manager, made, choice, provider, local>>

\* Mutant: the tier and the context are assigned before the weights are loaded, so that a load that fails leaves the manager naming its model.
NameEarly(w) ==
    /\ pc[w] = "ensure"
    /\ backend' = IF active = 0 THEN backend
                  ELSE [backend EXCEPT ![active].model = "none"]
    /\ active' = 0
    /\ mtier' = jtier[w]
    /\ mcontext' = jcontext[w]
    /\ Goto(w, "load")
    /\ UNCHANGED <<mlock, made, choice, provider, local>>

\* The snapshot is ready: _unload_locked drops the previous backend's weights.
Unload(w) ==
    /\ pc[w] = "ensure"
    /\ backend' = IF active = 0 THEN backend
                  ELSE [backend EXCEPT ![active].model = "none"]
    /\ active' = 0
    /\ Goto(w, "load")
    /\ UNCHANGED <<mlock, mtier, mcontext, made, choice, provider, local>>

MakeBackend(w) ==
    /\ pc[w] = "load"
    /\ made < MaxLoads
    /\ made' = made + 1
    /\ backend' = [backend EXCEPT ![made + 1] =
                      [model |-> "seeded", tier |-> jtier[w],
                       context |-> jcontext[w]]]
    /\ mine' = [mine EXCEPT ![w] = made + 1]
    /\ Goto(w, "publish")
    /\ UNCHANGED <<manager, choice, provider, jtier, jcontext, copy, hold, using>>

\* Three assignments; the provider reads the first two without the lock.
Publish(w) ==
    /\ pc[w] = "publish"
    /\ active' = mine[w]
    /\ Goto(w, "name")
    /\ UNCHANGED <<mlock, mtier, mcontext, backends, choice, provider, local>>

Name(w) ==
    /\ pc[w] = "name"
    /\ mtier' = jtier[w]
    /\ mcontext' = jcontext[w]
    /\ Goto(w, "recall")
    /\ UNCHANGED <<mlock, active, backends, choice, provider, local>>

\* The choice file is read, changed, truncated and written, in four steps.
Recall(w) ==
    /\ pc[w] = "recall"
    /\ copy' = [copy EXCEPT ![w] =
                  [tier |-> jtier[w],
                   context |-> [choice.context EXCEPT ![jtier[w]] = jcontext[w]]]]
    /\ Goto(w, "truncate")
    /\ UNCHANGED <<manager, backends, choice, provider, jtier, jcontext, mine,
                   hold, using>>

\* _save_choice returns, and so does the call it ends; a chat goes on to wrap
\* the backend it was given.
Saved(w) ==
    /\ mlock' = IF mlock = w THEN NoOne ELSE mlock
    /\ \/ /\ w \in Loaders \cup Tuners
          /\ Return(w)
       \/ /\ w \in Chats
          /\ Goto(w, "wrap")
          /\ jcontext' = [jcontext EXCEPT ![w] = NoContext]
          /\ copy' = [copy EXCEPT ![w] = NoChoice]
          /\ UNCHANGED <<jtier, mine, hold, using>>

\* An error of the file system is logged and ignored.
Truncate(w) ==
    /\ pc[w] = "truncate"
    /\ \/ /\ choice' = NoChoice
          /\ Goto(w, "write")
          /\ UNCHANGED <<mlock, local>>
       \/ /\ Saved(w)
          /\ UNCHANGED choice
    /\ UNCHANGED <<active, mtier, mcontext, backends, provider>>

\* Text written over the longer text of another thread does not parse, and an
\* unreadable file counts as an empty one.
Write(w) ==
    /\ pc[w] = "write"
    /\ choice' \in {copy[w], choice, NoChoice}
    /\ Saved(w)
    /\ UNCHANGED <<active, mtier, mcontext, backends, provider>>

\* set_context_length holds no lock.
Tune(w, t, c) ==
    /\ w \in Tuners
    /\ pc[w] = "idle"
    /\ copy' = [copy EXCEPT ![w] = [choice EXCEPT !.context[t] = c]]
    /\ jtier' = [jtier EXCEPT ![w] = t]
    /\ jcontext' = [jcontext EXCEPT ![w] = c]
    /\ Goto(w, "truncate")
    /\ UNCHANGED <<manager, backends, choice, provider, mine, hold, using>>

-----------------------------------------------------------------------------
(***************************************************************************)
(* get_engine, inside _engine_lock.                                        *)
(***************************************************************************)
\* Mutant: get_engine without its lock.
EnterUnlocked(w) ==
    /\ w \in Chats
    /\ pc[w] = "idle"
    /\ Goto(w, "look")
    /\ UNCHANGED <<manager, backends, choice, provider, local>>

Enter(w) ==
    /\ w \in Chats
    /\ pc[w] = "idle"
    /\ elock = NoOne
    /\ elock' = w
    /\ Goto(w, "look")
    /\ UNCHANGED <<manager, backends, choice, engine, broken, local>>

\* The chat has its engine and leaves the lock.
Take(w, e) ==
    /\ hold' = [hold EXCEPT ![w] = e]
    /\ elock' = NoOne
    /\ Forget(w)
    /\ Goto(w, "use")
    /\ UNCHANGED using

\* The cached engine is the active backend's, or nothing is active.
UseCached(w) ==
    /\ pc[w] = "look"
    /\ engine # NoEngine
    /\ active \in {0, engine.backend}
    /\ Take(w, engine)
    /\ UNCHANGED <<manager, backends, choice, engine, broken>>

\* Another backend is active: wrap it, reading the manager without its lock.
SeeSwitch(w) ==
    /\ pc[w] = "look"
    /\ active \notin {0, engine.backend}
    /\ mine' = [mine EXCEPT ![w] = active]
    /\ Goto(w, "peek")
    /\ UNCHANGED <<manager, backends, choice, provider, jtier, jcontext, copy,
                   hold, using>>

Peek(w) ==
    /\ pc[w] = "peek"
    /\ hold' = [hold EXCEPT ![w] = [backend |-> mine[w], tier |-> NoTier,
                                    loaded |-> backend[mine[w]].model]]
    /\ Goto(w, "label")
    /\ UNCHANGED <<manager, backends, choice, provider, jtier, jcontext, mine,
                   copy, using>>

Label(w) ==
    /\ pc[w] = "label"
    /\ engine' = [hold[w] EXCEPT !.tier = mtier]
    /\ Take(w, engine')
    /\ UNCHANGED <<manager, backends, choice, broken>>

\* Nothing is loaded and an earlier build failed: its error is raised again.
RaiseCached(w) ==
    /\ pc[w] = "look"
    /\ active = 0 /\ engine = NoEngine /\ broken
    /\ elock' = NoOne
    /\ Return(w)
    /\ UNCHANGED <<manager, backends, choice, engine, broken>>

\* Nothing is loaded: build the engine of the persisted tier.
StartBuild(w) ==
    /\ pc[w] = "look"
    /\ active = 0 /\ engine = NoEngine /\ ~broken
    /\ jtier' = [jtier EXCEPT ![w] =
                    IF choice.tier = NoTier THEN DefaultTier ELSE choice.tier]
    /\ Goto(w, "build")
    /\ UNCHANGED <<manager, backends, choice, provider, jcontext, mine, copy,
                   hold, using>>

BuildLoad(w) ==
    /\ pc[w] = "build"
    /\ Begin(w, jtier[w], NoContext)

Wrap(w) ==
    /\ pc[w] = "wrap"
    /\ engine' = [backend |-> mine[w], tier |-> jtier[w],
                  loaded |-> backend[mine[w]].model]
    /\ Take(w, engine')
    /\ UNCHANGED <<manager, backends, choice, broken>>

-----------------------------------------------------------------------------
(***************************************************************************)
(* Generation, outside every lock.  A stream uses the weights the engine   *)
(* refers to; a non-stream completion goes through the backend, which      *)
(* loads its weights again when they were dropped.  (It runs on the event  *)
(* loop, so that no request starts meanwhile; here it may interleave like  *)
(* a stream, which only adds behaviours.)                                  *)
(***************************************************************************)
Stream(w) ==
    /\ pc[w] = "use"
    /\ \/ /\ hold[w].loaded # "none"
          /\ Goto(w, "decode")
          /\ UNCHANGED local
       \/ /\ hold[w].loaded = "none"
          /\ Return(w)
    /\ UNCHANGED <<manager, backends, choice, provider>>

\* _ensure_loaded
EnsureLoaded(b) ==
    backend' = [backend EXCEPT ![b].model = IF @ = "none" THEN "reloaded" ELSE @]

\* It raises when the engine has no weights to template with (MLX), or when the
\* weights cannot be loaded again.
NonStream(w) ==
    /\ pc[w] = "use"
    /\ \/ /\ EnsureLoaded(hold[w].backend)
          /\ using' = [using EXCEPT ![w] = backend'[hold[w].backend].model]
          /\ Goto(w, "count")
          /\ UNCHANGED <<jtier, jcontext, mine, copy, hold>>
       \/ /\ "none" \in {hold[w].loaded, backend[hold[w].backend].model}
          /\ Return(w)
          /\ UNCHANGED backend
    /\ UNCHANGED <<manager, made, choice, provider>>

\* _usage_from_generation asks the backend for its weights once more: a load that
\* dropped them while they were used makes it load them again, only to be counted.
\* It does not get that far when the decoding fails.
CountUsage(w) ==
    /\ pc[w] = "count"
    /\ Return(w)
    /\ \/ EnsureLoaded(hold[w].backend)
       \/ UNCHANGED backend
    /\ UNCHANGED <<manager, made, choice, provider>>

EndChat(w) ==
    /\ pc[w] = "decode"
    /\ Return(w)
    /\ UNCHANGED <<manager, backends, choice, provider>>

-----------------------------------------------------------------------------
LoadStep(w) ==
    \/ LoadRaises(w) \/ Unload(w) \/ MakeBackend(w) \/ Publish(w) \/ Name(w)
    \/ Recall(w) \/ Truncate(w) \/ Write(w)

ChatStep(w) ==
    \/ UseCached(w) \/ SeeSwitch(w) \/ Peek(w) \/ Label(w) \/ RaiseCached(w)
    \/ StartBuild(w) \/ BuildLoad(w) \/ Wrap(w)
    \/ Stream(w) \/ NonStream(w) \/ CountUsage(w) \/ EndChat(w)

Request(w) ==
    \/ \E r \in Requests : RouteLoad(w, r[1], r[2])
    \/ \E r \in Tunings : Tune(w, r[1], r[2])
    \/ Enter(w)

Next ==
    \/ \E w \in Threads : Request(w) \/ LoadStep(w) \/ ChatStep(w)
    \/ Crash

Spec == Init /\ [][Next]_vars

\* A thread that is running keeps running.  Nothing is assumed of the order in
\* which the locks serve the threads that wait for them.
Fairness == \A w \in Loaders \cup Chats : WF_vars(LoadStep(w) \/ ChatStep(w))
FairSpec == Spec /\ Fairness
-----------------------------------------------------------------------------
(***************************************************************************)
(* Properties.                                                             *)
(***************************************************************************)
\* Between loads, the tier and the context the manager reports (current,
\* active_context_length) are those of the model that was loaded last, and the
\* weights of that model are there or nothing is active.  The report stands when
\* a load failed after the unload: it then names a model that is not in memory.
ManagerAgrees ==
    mlock = NoOne =>
        /\ <<mtier, mcontext>> = IF made = 0 THEN <<NoTier, NoContext>>
                                 ELSE <<backend[made].tier, backend[made].context>>
        /\ active # 0 => active = made /\ backend[active].model # "none"

\* The chat provider never goes back to a model it has left: once a switch was
\* picked up by one chat, no later chat is served by an older backend.
EngineNeverGoesBack ==
    [][NoEngine \notin {engine, engine'} =>
          engine'.backend >= engine.backend]_vars

\* Nobody waits for ever: a lock is held by a thread inside the code that the lock
\* guards, on every way out of it; the manager's by one that asks for no other lock,
\* the provider's by one that asks for the manager's at most (build).
LocksAreServed ==
    /\ mlock # NoOne =>
          pc[mlock] \in {"ensure", "load", "publish", "name", "recall", "truncate", "write"}
    /\ elock # NoOne =>
          \/ pc[elock] \in {"look", "peek", "label", "build", "wrap"}
          \/ mlock = elock

\* What is in memory: the weights something still refers to.
Engines == {engine} \cup {hold[w] : w \in Chats}
Referenced ==
    ({active} \cup {mine[w] : w \in Threads} \cup {e.backend : e \in Engines}) \ {0}
Resident ==
    {r \in {<<b, backend[b].model>> : b \in Referenced} \cup
           {<<e.backend, e.loaded>> : e \in Engines} \cup
           {<<hold[w].backend, using[w]>> : w \in Chats} : r[2] # "none"}

\* Switching back and forth does not pile models up in memory: once a chat has
\* picked the switch up and every call is over, one copy of one model is left.
SettledIsOneModel ==
    /\ \A w \in Threads : pc[w] = "idle"
    /\ active # 0 /\ engine.backend = active
    => Resident = {<<active, backend[active].model>>}

\* "one resident model per the engine" (manager.py, load).
OneResident == Cardinality(Resident) <= 1

-----------------------------------------------------------------------------
(***************************************************************************)
(* Together the manager and the provider are one slot for one model.  The  *)
(* slot is filled when the new backend is assigned: that is when a chat    *)
(* can find it.                                                            *)
(***************************************************************************)
Slot == INSTANCE ModelSlot WITH
    Nothing <- <<NoTier, NoContext>>,
    slot <- active,
    content <- IF active = 0 THEN <<NoTier, NoContext>>
               ELSE <<backend[active].tier, backend[active].context>>,
    newest <- IF \E w \in Threads : pc[w] = "publish" THEN made - 1 ELSE made,
    served <- engine.backend

SlotSpec == Slot!Spec

\* Every load ends, whatever chats wait for the manager's lock with it.
EveryLoadEnds == \A w \in Loaders : []<>(pc[w] = "idle")

\* Every chat ends, unless the user keeps the manager busy with loads for ever.
EveryChatEnds ==
    <>[](\A l \in Loaders : pc[l] = "idle") =>
        \A w \in Chats : []<>(pc[w] = "idle")
=============================================================================
