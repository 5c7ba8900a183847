------------------------------- MODULE TierGate -------------------------------
(***************************************************************************)
(* Which tier may be loaded, and with how much context (manager.py: gate,  *)
(* recommend, set_context_length and the decisions of load; catalog.py:    *)
(* the clamp; context.py: the estimate of the KV cache; hardware_select.py: *)
(* the planner).  What a load does to the weights is in ModelEngine, what a *)
(* download does to the disk in SnapshotDownload.                          *)
(*                                                                         *)
(* Memory is counted in a unit so fine that a token's KV cache is a whole  *)
(* number of units.                                                        *)
(***************************************************************************)
EXTENDS Integers, Sequences

CONSTANTS
    Tiers,
    Ladder,         \* DEFAULT_GENERAL_LADDER: the general tiers, the largest first
    DefaultTier,    \* Alice Lite
    Requests,       \* requests that load: /alice/load, or a chat that finds no model
    Asked,          \* the context lengths that a request may name
    Usable,         \* usable_memory_gb of this device
    Pinned,         \* the tiers that have a pin for some runtime, hence a card
    Served,         \* those that have one for the device's own runtime
    Comfort,        \* Comfort[t]: minimum_memory_gb
    Floor,          \* Floor[t]: hard_load_floor_gb
    Heuristic,      \* Heuristic[t]: KV memory per token, from the parameter count
    Geometry,       \* Geometry[t]: the same from config.json
    ModelMax,       \* ModelMax[t]: max context that config.json declares, 0 for none
    ContextMin, ContextDefault, ContextFallbackMax, ContextHardCap,
    NoContext,
    NoModel         \* neither a model nor a setting

ASSUME ConstantsAssumption ==
    /\ DefaultTier \in Tiers
    /\ Ladder \in Seq(Tiers)
    /\ Served \subseteq Pinned
    /\ Pinned \subseteq Tiers
    /\ Asked \subseteq Int
    /\ Usable \in Nat
    /\ Comfort \in [Tiers -> Nat] /\ Floor \in [Tiers -> Nat]
    /\ Heuristic \in [Tiers -> Nat] /\ Geometry \in [Tiers -> Nat]
    /\ ModelMax \in [Tiers -> Nat]
    /\ ContextMin \in Nat /\ ContextDefault \in Nat
    /\ ContextFallbackMax \in Nat /\ ContextHardCap \in Nat
    /\ 0 < ContextMin
    /\ ContextMin <= ContextDefault
    /\ ContextDefault <= ContextFallbackMax
    /\ ContextFallbackMax <= ContextHardCap
    /\ NoContext \notin Int
    /\ NoModel \notin [tier : Tiers, context : Int]
    /\ NoModel \notin [tier : Tiers, context : Int, known : BOOLEAN]

\* The tables of model_catalog.py: below the comfort of a tier there is room for its
\* weights and the default context, by the estimate that needs no configuration.
ASSUME ComfortAssumption ==
    \A t \in Tiers :
        Floor[t] + Heuristic[t] * (ContextDefault - ContextMin) <= Comfort[t]

VARIABLES
    onDisk,    \* the tiers whose snapshot is in the cache
    resolved,  \* _snapshot_dirs: those that this process has resolved
    stored,    \* stored[t]: the context length in the choice file
    choice,    \* the tier in the choice file
    setting,   \* the tier and the length that /alice/context is about to store
    resident,  \* the tier and the context of the active backend
    call       \* call[r]: what request r asked for and where it stands

\* "known", in a load and a resident model, is a history of the gate: whether the
\* configuration of the tier was resolved when the gate let the load pass.

files == <<onDisk, resolved>>
kept == <<stored, choice, setting>>
gateVars == <<files, kept, resident, call>>

Larger(a, b) == IF a >= b THEN a ELSE b
Smaller(a, b) == IF a <= b THEN a ELSE b

-----------------------------------------------------------------------------
(* Context lengths. *)

context_supported_max(max) ==
    Larger(ContextMin, Smaller(IF max <= 0 THEN ContextFallbackMax ELSE max, ContextHardCap))

clamp_context_length(wanted, max) ==
    IF wanted = NoContext
    THEN Smaller(ContextDefault, context_supported_max(max))
    ELSE Larger(ContextMin, Smaller(wanted, context_supported_max(max)))

\* config.json is read as soon as it is on disk.
context_max_for(t) == context_supported_max(IF t \in onDisk THEN ModelMax[t] ELSE 0)

-----------------------------------------------------------------------------
(* The gate. *)

\* The estimate reads config.json only of a snapshot that this process resolved.
KvPerToken(t) == IF t \in resolved THEN Geometry[t] ELSE Heuristic[t]

\* The floors already count the shortest context.
KvExtra(perToken, context) ==
    IF context = NoContext THEN 0 ELSE Larger(0, perToken * (context - ContextMin))

\* Mutant: the extra raises one threshold to the other.
BandNoWarn(t, extra) ==
    IF t \in Pinned /\ Usable >= Comfort[t] + extra THEN "ok" ELSE "refuse"

Band(t, extra) ==
    IF t \notin Pinned THEN "refuse"
    ELSE IF Usable >= Comfort[t] + extra THEN "ok"
    ELSE IF Usable >= Floor[t] + extra THEN "warn" ELSE "refuse"

gate(t, context) == Band(t, KvExtra(KvPerToken(t), context))

\* The largest general tier in a set, or the one given for want of any.
FirstOfLadder(S, otherwise) ==
    IF \E i \in DOMAIN Ladder : Ladder[i] \in S
    THEN Ladder[CHOOSE i \in DOMAIN Ladder :
                   Ladder[i] \in S /\ \A j \in 1..(i - 1) : Ladder[j] \notin S]
    ELSE otherwise

\* What the planner accepts, and what it would pick.
Plannable == {t \in Served : Usable >= Comfort[t]}
recommend == FirstOfLadder(Plannable, DefaultTier)

-----------------------------------------------------------------------------
(* Requests. *)

\* "chosen" is the context that the load works with.
Idle == [at |-> "idle", tier |-> DefaultTier, asked |-> NoContext, confirm |-> FALSE,
         chosen |-> NoContext, known |-> FALSE]

Init ==
    /\ onDisk = {}
    /\ resolved = {}
    /\ stored = [t \in Tiers |-> NoContext]
    /\ choice = DefaultTier
    /\ setting = NoModel
    /\ resident = NoModel
    /\ call = [r \in Requests |-> Idle]

Receive(r, t, context, yes, answer) ==
    /\ call[r].at = "idle"
    /\ call' = [call EXCEPT ![r] = [at |-> answer, tier |-> t, asked |-> context,
                                    confirm |-> yes, chosen |-> NoContext, known |-> FALSE]]
    /\ UNCHANGED <<files, kept, resident>>

Return(r) == call' = [call EXCEPT ![r] = Idle]

\* The route looks at the gate before it loads, with the context of the request.
RouteLoad(r, t, context, yes) ==
    /\ gate(t, context) = "ok" \/ (gate(t, context) = "warn" /\ yes)
    /\ Receive(r, t, context, yes, "load")

\* Of a request that is answered at once only the tier is remembered.
Blocked(r, t, context) ==
    /\ gate(t, context) = "refuse"
    /\ Receive(r, t, NoContext, FALSE, "blocked")

NeedsConfirm(r, t, context) ==
    /\ gate(t, context) = "warn"
    /\ Receive(r, t, NoContext, FALSE, "needs_confirm")

Answered(r) ==
    /\ call[r].at \in {"blocked", "needs_confirm"}
    /\ Return(r)
    /\ UNCHANGED <<files, kept, resident>>

\* A chat that finds no active backend loads the tier in the choice file. It looks at
\* no gate, and allow_warn is true by default.
ChatLoad(r) ==
    /\ resident = NoModel
    /\ Receive(r, choice, NoContext, TRUE, "load")

-----------------------------------------------------------------------------
(* ModelManager.load, one at a time. *)

LockIsFree == \A q \in Requests : call[q].at \notin {"admitted", "ready"}

\* The context that was asked for, or else the stored one.
Wanted(r) ==
    LET max == context_max_for(call[r].tier)
    IN clamp_context_length(
           IF call[r].asked # NoContext THEN call[r].asked
           ELSE clamp_context_length(stored[call[r].tier], max), max)

\* Mutant: the old model is unloaded before the download.
AdmitUnloads(r) ==
    /\ call[r].at = "load"
    /\ LockIsFree
    /\ gate(call[r].tier, Wanted(r)) # "refuse"
    /\ call' = [call EXCEPT ![r].at = "admitted", ![r].chosen = Wanted(r),
                             ![r].known = call[r].tier \in resolved]
    /\ resident' = NoModel
    /\ UNCHANGED <<files, kept>>

Admit(r) ==
    /\ call[r].at = "load"
    /\ LockIsFree
    /\ gate(call[r].tier, Wanted(r)) # "refuse"
    /\ call' = [call EXCEPT ![r].at = "admitted", ![r].chosen = Wanted(r),
                             ![r].known = call[r].tier \in resolved]
    /\ UNCHANGED <<files, kept, resident>>

Refuse(r) ==
    /\ call[r].at = "load"
    /\ LockIsFree
    /\ gate(call[r].tier, Wanted(r)) = "refuse"
    /\ Return(r)
    /\ UNCHANGED <<files, kept, resident>>

Ready(t) ==
    /\ t \in Plannable
    /\ onDisk' = onDisk \cup {t}
    /\ resolved' = resolved \cup {t}

\* ensure_ready raises: the planner turns the tier down, or the download fails.
NotReady(r) ==
    /\ call[r].at = "admitted"
    /\ call[r].tier \notin Plannable \cap onDisk
    /\ Return(r)
    /\ UNCHANGED <<files, kept, resident>>

\* Mutant: the stored context is read again after the download.
PrepareRereads(r) ==
    /\ call[r].at = "admitted"
    /\ Ready(call[r].tier)
    /\ call' = [call EXCEPT ![r].at = "ready",
           ![r].chosen = clamp_context_length(stored[call[r].tier],
                             context_supported_max(ModelMax[call[r].tier]))]
    /\ resident' = NoModel
    /\ UNCHANGED kept

\* Mutant: the context is not clamped again.
PrepareKeeps(r) ==
    /\ call[r].at = "admitted"
    /\ Ready(call[r].tier)
    /\ call' = [call EXCEPT ![r].at = "ready"]
    /\ resident' = NoModel
    /\ UNCHANGED kept

\* The context is clamped again, now that the configuration is on disk, and the old
\* model is unloaded.
Prepare(r) ==
    /\ call[r].at = "admitted"
    /\ Ready(call[r].tier)
    /\ call' = [call EXCEPT ![r].at = "ready",
           ![r].chosen = clamp_context_length(@, context_supported_max(ModelMax[call[r].tier]))]
    /\ resident' = NoModel
    /\ UNCHANGED kept

\* An error while the choice is saved is logged and ignored.
Finish(r) ==
    /\ call[r].at = "ready"
    /\ resident' = [tier |-> call[r].tier, context |-> call[r].chosen,
                    known |-> call[r].known]
    /\ \/ /\ choice' = call[r].tier
          /\ stored' = [stored EXCEPT ![call[r].tier] = call[r].chosen]
       \/ UNCHANGED <<choice, stored>>
    /\ Return(r)
    /\ UNCHANGED <<files, setting>>

LoadRaises(r) ==
    /\ call[r].at = "ready"
    /\ Return(r)
    /\ UNCHANGED <<files, kept, resident>>

-----------------------------------------------------------------------------
(* Requests that take no lock, and a new process. *)

\* The length is clamped when it arrives and stored later: a load in another thread may
\* end in between.  The event loop handles one such request at a time.
set_context_length(t, context) ==
    /\ setting = NoModel
    /\ setting' = [tier |-> t,
                   context |-> clamp_context_length(context, context_max_for(t))]
    /\ UNCHANGED <<files, stored, choice, resident, call>>

StoreContext ==
    /\ setting # NoModel
    /\ \/ stored' = [stored EXCEPT ![setting.tier] = setting.context]
       \/ UNCHANGED stored
    /\ setting' = NoModel
    /\ UNCHANGED <<files, choice, resident, call>>

Ensure(t) ==
    /\ Ready(t)
    /\ UNCHANGED <<kept, resident, call>>

\* A process that is killed while it writes the choice file leaves it truncated.
Restart ==
    /\ resolved' = {}
    /\ resident' = NoModel
    /\ setting' = NoModel
    /\ call' = [r \in Requests |-> Idle]
    /\ \/ UNCHANGED <<stored, choice>>
       \/ /\ setting # NoModel \/ ~LockIsFree
          /\ stored' = [t \in Tiers |-> NoContext]
          /\ choice' = DefaultTier
    /\ UNCHANGED onDisk

Load(r) == Admit(r) \/ Refuse(r) \/ NotReady(r) \/ Prepare(r) \/ Finish(r) \/ LoadRaises(r)

Route(r) ==
    \/ \E t \in Tiers, context \in Asked \cup {NoContext} :
          \/ \E yes \in BOOLEAN : RouteLoad(r, t, context, yes)
          \/ Blocked(r, t, context)
          \/ NeedsConfirm(r, t, context)
    \/ Answered(r)
    \/ ChatLoad(r)

Next ==
    \/ \E r \in Requests : Load(r) \/ Route(r)
    \/ \E t \in Tiers, context \in Asked : set_context_length(t, context)
    \/ \E t \in Tiers : Ensure(t)
    \/ StoreContext
    \/ Restart

Spec == Init /\ [][Next]_gateVars

-----------------------------------------------------------------------------
(* Properties. *)

\* Types: what the choice file holds is a length that the control offers, and a
\* resolved snapshot is on disk.
TypeOK ==
    /\ onDisk \subseteq Tiers
    /\ resolved \subseteq onDisk
    /\ stored \in [Tiers -> (ContextMin..ContextHardCap) \cup {NoContext}]
    /\ choice \in Tiers
    /\ setting \in [tier : Tiers, context : ContextMin..ContextHardCap] \cup {NoModel}
    /\ resident \in [tier : Tiers, context : ContextMin..ContextHardCap, known : BOOLEAN]
                      \cup {NoModel}
    /\ call \in [Requests ->
          [at : {"idle", "blocked", "needs_confirm", "load", "admitted", "ready"},
           tier : Tiers, asked : Asked \cup {NoContext}, confirm : BOOLEAN,
           chosen : (ContextMin..ContextHardCap) \cup {NoContext}, known : BOOLEAN]]

Fits(t, context, known) ==
    /\ t \in Plannable
    /\ Usable >= Floor[t] + KvExtra(IF known THEN Geometry[t] ELSE Heuristic[t], context)

\* What the gate let pass is what becomes resident: a model above its comfort whose KV
\* cache fits by the estimate that judged the load, although the context is clamped
\* anew, the snapshot resolved and the stored length changed between the two.  A model
\* whose configuration was resolved when its load was judged fits by that.  The first
\* load of a tier in a process is judged by its parameter count, however much its
\* configuration will say it takes, and is not judged again: "so a (user) cannot pick a
\* 256k context that OOMs the machine" (context.py:13) does not hold of it.
ResidentFits ==
    resident # NoModel => Fits(resident.tier, resident.context, resident.known)

\* "The control is never wider than the model can serve" (catalog.py:197): the
\* resident model's context is within what its own configuration declares, although
\* the length may have been asked for or stored before the configuration was on disk.
ContextsAreServable ==
    resident # NoModel =>
        resident.context \in ContextMin..context_supported_max(ModelMax[resident.tier])

Rank(level) == IF level = "ok" THEN 0 ELSE IF level = "warn" THEN 1 ELSE 2

\* "A 256k context must never be MORE permissive than 4k" (test_model_manager.py:450):
\* whatever has been resolved, the gate only tightens as the context grows, and is at
\* its widest when no context is named.
GateTightens ==
    \A t \in Tiers, c \in Asked \cup {NoContext}, d \in Asked :
        (c = NoContext \/ c <= d) => Rank(gate(t, c)) <= Rank(gate(t, d))

\* On a device with room for some tier's comfort, the recommended one is not refused at
\* the default context before it has been downloaded, and the planner takes it: the
\* first run ends in a chat.
RecommendedIsAdmitted ==
    LET t == recommend
    IN  (\E i \in DOMAIN Ladder : Ladder[i] \in Plannable) /\ t \notin resolved =>
            /\ t \in Plannable
            /\ gate(t, clamp_context_length(NoContext, context_max_for(t))) # "refuse"

\* A load that is refused, that the planner turns down or whose download fails leaves
\* the resident model alone: it goes for a load that is ready, or with the process.
OldModelStays ==
    [][resident # NoModel /\ resident' = NoModel =>
          \/ \E r \in Requests : call[r].at = "admitted" /\ call'[r].at = "ready"
          \/ resolved' = {} /\ \A r \in Requests : call'[r].at = "idle"]_gateVars
=============================================================================
