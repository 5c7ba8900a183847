--------------------------- MODULE TierGate_proofs ---------------------------
(***************************************************************************)
(* Proofs about TierGate, for any tiers, tables, device and requests.      *)
(***************************************************************************)
EXTENDS TierGate, WellFoundedInduction, TLAPS

-----------------------------------------------------------------------------
(* Context lengths. *)

\* context_supported_max lies between the floor of the control and the hard cap.
LEMMA SupportedInRange ==
    ASSUME NEW max \in Int
    PROVE  context_supported_max(max) \in ContextMin..ContextHardCap
BY ConstantsAssumption DEF context_supported_max, Larger, Smaller

\* Clamping to what is already a supported maximum clamps to that (load clamps the
\* stored length with one).
LEMMA SupportedIsStable ==
    ASSUME NEW max \in Int
    PROVE  context_supported_max(context_supported_max(max)) = context_supported_max(max)
BY ConstantsAssumption DEF context_supported_max, Larger, Smaller

\* A clamped length is one that the control offers for the model.
LEMMA ClampInRange ==
    ASSUME NEW max \in Int, NEW wanted \in Int \cup {NoContext}
    PROVE  clamp_context_length(wanted, max) \in ContextMin..context_supported_max(max)
BY ConstantsAssumption DEF clamp_context_length, context_supported_max, Larger, Smaller

\* Clamping again never raises a length.
LEMMA ClampOnlyLowers ==
    ASSUME NEW max \in Int, NEW wanted \in Int, ContextMin <= wanted
    PROVE  clamp_context_length(wanted, max) <= wanted
BY ConstantsAssumption DEF clamp_context_length, context_supported_max, Larger, Smaller

-----------------------------------------------------------------------------
(* The estimate and the gate. *)

LEMMA ProductGrows ==
    ASSUME NEW k \in Nat, NEW a \in Int, NEW b \in Int, a <= b
    PROVE  k * a <= k * b
OBVIOUS

\* A longer context never takes less KV cache, and none less than the shortest.
LEMMA KvExtraGrows ==
    ASSUME NEW k \in Nat, NEW c \in Int \cup {NoContext}, NEW d \in Int,
           c = NoContext \/ c <= d
    PROVE  /\ KvExtra(k, c) \in Nat
           /\ KvExtra(k, d) \in Nat
           /\ KvExtra(k, c) <= KvExtra(k, d)
<1>1. ASSUME NEW x \in Int PROVE k * (x - ContextMin) \in Int
    BY ConstantsAssumption
<1>2. KvExtra(k, d) = Larger(0, k * (d - ContextMin))
    BY ConstantsAssumption DEF KvExtra
<1>3. KvExtra(k, d) \in Nat
    BY <1>1, <1>2 DEF Larger
<1>4. CASE c = NoContext
    BY <1>3, <1>4 DEF KvExtra
<1>5. CASE c # NoContext
    <2>1. c \in Int /\ c <= d
        BY <1>5
    <2>2. k * (c - ContextMin) <= k * (d - ContextMin)
        <3>. DEFINE a == c - ContextMin
                    b == d - ContextMin
        <3>1. a \in Int /\ b \in Int /\ a <= b
            BY <2>1, ConstantsAssumption
        <3>. HIDE DEF a, b
        <3>2. k * a <= k * b
            BY <3>1, ProductGrows
        <3>. QED BY <3>2 DEF a, b
    <2>3. KvExtra(k, c) = Larger(0, k * (c - ContextMin))
        BY <1>5 DEF KvExtra
    <2>. QED BY <1>1, <1>2, <2>1, <2>2, <2>3 DEF Larger
<1>. QED BY <1>4, <1>5

\* The band of a tier only tightens as more is asked of the memory.
LEMMA BandTightens ==
    ASSUME NEW t \in Tiers, NEW x \in Nat, NEW y \in Nat, x <= y
    PROVE  Rank(Band(t, x)) <= Rank(Band(t, y))
<1>1. Usable \in Nat /\ Comfort[t] \in Nat /\ Floor[t] \in Nat
    BY ConstantsAssumption
<1>2. CASE t \notin Pinned
    BY <1>2 DEF Band, Rank
<1>3. CASE t \in Pinned /\ Usable >= Comfort[t] + y
    <2>1. Usable >= Comfort[t] + x
        BY <1>1, <1>3
    <2>. QED BY <1>3, <2>1 DEF Band, Rank
<1>4. CASE t \in Pinned /\ ~(Usable >= Comfort[t] + y) /\ Usable >= Floor[t] + y
    <2>1. Band(t, y) = "warn"
        BY <1>4 DEF Band
    <2>2. Band(t, x) \in {"ok", "warn"}
        BY <1>1, <1>4 DEF Band
    <2>. QED BY <2>1, <2>2 DEF Rank
<1>5. CASE t \in Pinned /\ ~(Usable >= Comfort[t] + y) /\ ~(Usable >= Floor[t] + y)
    <2>1. Band(t, y) = "refuse"
        BY <1>5 DEF Band
    <2>. QED BY <2>1 DEF Rank
<1>. QED BY <1>2, <1>3, <1>4, <1>5

\* A tier that is not refused has room for its floor and what was added to it.
LEMMA BandHasRoom ==
    ASSUME NEW t \in Tiers, NEW x \in Nat, Floor[t] <= Comfort[t], Band(t, x) # "refuse"
    PROVE  Usable >= Floor[t] + x
BY ConstantsAssumption DEF Band

-----------------------------------------------------------------------------
(* The tables. *)

LEMMA Tables ==
    ASSUME NEW t \in Tiers
    PROVE  /\ Usable \in Nat
           /\ Comfort[t] \in Nat /\ Floor[t] \in Nat
           /\ Heuristic[t] \in Nat /\ Geometry[t] \in Nat
           /\ ModelMax[t] \in Int
           /\ KvPerToken(t) \in {Heuristic[t], Geometry[t]}
           /\ KvPerToken(t) \in Nat
BY ConstantsAssumption DEF KvPerToken

\* The floor of a tier is not above its comfort.
LEMMA FloorBelowComfort ==
    ASSUME NEW t \in Tiers
    PROVE  Floor[t] <= Comfort[t]
<1>1. /\ Heuristic[t] \in Nat /\ Floor[t] \in Nat /\ Comfort[t] \in Nat
      /\ ContextDefault - ContextMin \in Nat
    BY ConstantsAssumption
<1>2. Heuristic[t] * (ContextDefault - ContextMin) \in Nat
    BY <1>1
<1>3. Floor[t] + Heuristic[t] * (ContextDefault - ContextMin) <= Comfort[t]
    BY ComfortAssumption
<1>. QED BY <1>1, <1>2, <1>3

\* A tier that the gate does not refuse has room for its weights and for the KV cache
\* by the estimate of the moment.
LEMMA GateHasRoom ==
    ASSUME NEW t \in Tiers, NEW c \in Int \cup {NoContext}, gate(t, c) # "refuse"
    PROVE  Usable >= Floor[t] + KvExtra(KvPerToken(t), c)
<1>1. KvExtra(KvPerToken(t), c) \in Nat
    <2>1. CASE c = NoContext
        BY <2>1 DEF KvExtra
    <2>2. CASE c \in Int
        BY <2>2, Tables, KvExtraGrows
    <2>. QED BY <2>1, <2>2
<1>. QED BY <1>1, FloorBelowComfort, BandHasRoom DEF gate

LEMMA LeastNumber ==
    ASSUME NEW T, T \subseteq Nat, T # {}
    PROVE  \E x \in T : \A y \in T : x <= y
<1>. DEFINE R == OpToRel(<, Nat)
<1>1. PICK x \in T : \A y \in T : ~ (<<y, x>> \in R)
    <2>1. IsWellFoundedOn(R, Nat)
        BY NatLessThanWellFounded
    <2>. HIDE DEF R
    <2>. QED BY <2>1, WFMin
<1>2. ASSUME NEW y \in T, ~ (x <= y) PROVE FALSE
    <2>1. x \in Nat /\ y \in Nat /\ y < x
        BY <1>2
    <2>2. <<y, x>> \in R
        BY <2>1 DEF OpToRel
    <2>. QED BY <1>1, <2>2
<1>. QED BY <1>2

\* What is picked from the ladder is in the set, if anything in the ladder is.
LEMMA PickIsInSet ==
    ASSUME NEW S, NEW other, \E i \in DOMAIN Ladder : Ladder[i] \in S
    PROVE  FirstOfLadder(S, other) \in S
<1>1. Ladder \in Seq(Tiers)
    BY ConstantsAssumption
<1>2. DOMAIN Ladder = 1..Len(Ladder) /\ Len(Ladder) \in Nat
    BY <1>1
<1>3. \E i \in DOMAIN Ladder : Ladder[i] \in S /\ \A j \in 1..(i - 1) : Ladder[j] \notin S
    <2>. DEFINE Hits == {i \in DOMAIN Ladder : Ladder[i] \in S}
    <2>1. Hits # {} /\ Hits \subseteq Nat
        BY <1>2
    <2>2. PICK i \in Hits : \A j \in Hits : i <= j
        BY <2>1, LeastNumber
    <2>. QED BY <1>2, <2>2
<1>. QED BY <1>3 DEF FirstOfLadder

-----------------------------------------------------------------------------
(***************************************************************************)
(* The inductive invariant.  What a load works with has passed the gate,   *)
(* by the estimate of the moment; a load that is ready has been planned,   *)
(* its configuration is on disk, and its context is within it; so is       *)
(* everything about the resident model.                                    *)
(***************************************************************************)
\* The estimate that the gate goes by.
Judged(t, known) == IF known THEN Geometry[t] ELSE Heuristic[t]

Servable(t, context, known) ==
    /\ t \in onDisk
    /\ Fits(t, context, known)
    /\ context \in ContextMin..context_supported_max(ModelMax[t])

Gated(c) ==
    c.at = "admitted" =>
        /\ c.chosen \in ContextMin..ContextHardCap
        /\ Usable >= Floor[c.tier] + KvExtra(Judged(c.tier, c.known), c.chosen)

Prepared(c) == c.at = "ready" => Servable(c.tier, c.chosen, c.known)

ResidentInv ==
    resident # NoModel => Servable(resident.tier, resident.context, resident.known)

CallInv == \A r \in Requests : Gated(call[r]) /\ Prepared(call[r])

IInv == TypeOK /\ CallInv /\ ResidentInv

-----------------------------------------------------------------------------
(***************************************************************************)
(* Types.                                                                  *)
(***************************************************************************)
Lengths == ContextMin..ContextHardCap
Calls ==
    [at : {"idle", "blocked", "needs_confirm", "load", "admitted", "ready"},
     tier : Tiers, asked : Asked \cup {NoContext}, confirm : BOOLEAN,
     chosen : Lengths \cup {NoContext}, known : BOOLEAN]

LEMMA LengthsAreNumbers ==
    ASSUME NEW x \in Lengths
    PROVE  x \in Int /\ x \in Nat /\ ContextMin <= x /\ x <= ContextHardCap
BY ConstantsAssumption DEF Lengths

LEMMA MaxIsLength ==
    ASSUME NEW t \in Tiers
    PROVE  context_max_for(t) \in Lengths /\ context_max_for(t) \in Int
BY Tables, SupportedInRange, LengthsAreNumbers DEF context_max_for, Lengths

LEMMA ClampIsLength ==
    ASSUME NEW max \in Int, NEW wanted \in Int \cup {NoContext}
    PROVE  /\ clamp_context_length(wanted, max) \in Lengths
           /\ clamp_context_length(wanted, max) \in Int
<1>1. clamp_context_length(wanted, max) \in ContextMin..context_supported_max(max)
    BY ClampInRange
<1>2. context_supported_max(max) \in ContextMin..ContextHardCap
    BY SupportedInRange
<1>. QED BY <1>1, <1>2, ConstantsAssumption, LengthsAreNumbers DEF Lengths

LEMMA WantedIsLength ==
    ASSUME TypeOK, NEW r \in Requests
    PROVE  Wanted(r) \in Lengths
<1>. DEFINE t == call[r].tier
            max == context_max_for(t)
            inner == IF call[r].asked # NoContext THEN call[r].asked
                     ELSE clamp_context_length(stored[t], max)
<1>1. t \in Tiers /\ call[r].asked \in Asked \cup {NoContext}
      /\ stored[t] \in Int \cup {NoContext}
    <2>1. call[r] \in Calls /\ stored \in [Tiers -> Lengths \cup {NoContext}]
        BY DEF TypeOK, Calls, Lengths
    <2>2. call[r].tier \in Tiers /\ call[r].asked \in Asked \cup {NoContext}
        BY <2>1 DEF Calls
    <2>3. stored[t] \in Lengths \cup {NoContext}
        BY <2>1, <2>2
    <2>. QED BY <2>2, <2>3, LengthsAreNumbers
<1>2. max \in Int
    BY <1>1, MaxIsLength
<1>3. inner \in Int
    <2>1. clamp_context_length(stored[t], max) \in Int
        BY <1>1, <1>2, ClampIsLength
    <2>2. Asked \subseteq Int
        BY ConstantsAssumption
    <2>. QED BY <1>1, <2>1, <2>2
<1>4. Wanted(r) = clamp_context_length(inner, max)
    BY DEF Wanted
<1>. HIDE DEF t, max, inner
<1>. QED BY <1>2, <1>3, <1>4, ClampIsLength

\* What each handler does to a request keeps it a request.
LEMMA ReceiveTyped ==
    ASSUME TypeOK, NEW r \in Requests, NEW t \in Tiers, NEW c \in Asked \cup {NoContext},
           NEW yes \in BOOLEAN, NEW answer \in {"blocked", "needs_confirm", "load"},
           Receive(r, t, c, yes, answer)
    PROVE  TypeOK'
BY DEF TypeOK, Receive, files, kept

LEMMA IdleTyped == Idle \in Calls
BY ConstantsAssumption DEF Idle, Calls

LEMMA ReturnTyped ==
    ASSUME call \in [Requests -> Calls], NEW r \in Requests, Return(r)
    PROVE  call' \in [Requests -> Calls]
BY IdleTyped DEF Return

LEMMA InitTyped == Init => TypeOK
BY ConstantsAssumption, IdleTyped DEF Init, TypeOK, Calls, Lengths

LEMMA LoadTyped ==
    ASSUME TypeOK, NEW r \in Requests, Prepared(call[r]), Load(r)
    PROVE  TypeOK'
<1>. USE DEF files, kept
<1>. DEFINE t == call[r].tier
<1>1. call \in [Requests -> Calls] /\ call[r] \in Calls /\ t \in Tiers
    BY DEF TypeOK, Calls, Lengths
<1>2. SUFFICES /\ onDisk' \subseteq Tiers
               /\ resolved' \subseteq onDisk'
               /\ stored' \in [Tiers -> Lengths \cup {NoContext}]
               /\ choice' \in Tiers
               /\ setting' \in [tier : Tiers, context : Lengths] \cup {NoModel}
               /\ resident' \in [tier : Tiers, context : Lengths, known : BOOLEAN] \cup {NoModel}
               /\ call' \in [Requests -> Calls]
    BY DEF TypeOK, Calls, Lengths
<1>3. CASE Admit(r)
    <2>1. Wanted(r) \in Lengths
        BY WantedIsLength
    <2>. DEFINE n == Wanted(r)
                k == t \in resolved
    <2>2. k \in BOOLEAN /\ n \in Lengths
        BY <2>1
    <2>3. call' = [call EXCEPT ![r].at = "admitted", ![r].chosen = n, ![r].known = k]
        BY <1>3 DEF Admit
    <2>. HIDE DEF n, k, t
    <2>4. call' \in [Requests -> Calls]
        BY <1>1, <2>2, <2>3 DEF Calls
    <2>. QED BY <1>3, <2>4 DEF Admit, TypeOK, Lengths
<1>4. CASE Refuse(r)
    BY <1>1, <1>4, ReturnTyped DEF Refuse, TypeOK, Lengths
<1>5. CASE NotReady(r)
    BY <1>1, <1>5, ReturnTyped DEF NotReady, TypeOK, Lengths
<1>6. CASE LoadRaises(r)
    BY <1>1, <1>6, ReturnTyped DEF LoadRaises, TypeOK, Lengths
<1>7. CASE Prepare(r)
    <2>. DEFINE n == clamp_context_length(call[r].chosen, context_supported_max(ModelMax[t]))
    <2>1. call[r].chosen \in Int \cup {NoContext}
        <3>1. call[r].chosen \in Lengths \cup {NoContext}
            BY <1>1 DEF Calls
        <3>. QED BY <3>1, LengthsAreNumbers
    <2>2. context_supported_max(ModelMax[t]) \in Int
        BY <1>1, Tables, SupportedInRange
    <2>3. n \in Lengths
        BY <2>1, <2>2, ClampIsLength
    <2>4. call' = [call EXCEPT ![r].at = "ready", ![r].chosen = n]
        BY <1>7 DEF Prepare
    <2>. HIDE DEF n
    <2>5. call' \in [Requests -> Calls]
        BY <1>1, <2>3, <2>4 DEF Calls
    <2>. QED BY <1>1, <1>7, <2>5 DEF Prepare, Ready, TypeOK, Lengths
<1>8. CASE Finish(r)
    <2>1. call[r].chosen \in Lengths
        <3>1. call[r].chosen \in ContextMin..context_supported_max(ModelMax[t])
            BY <1>8 DEF Finish, Prepared, Servable
        <3>2. context_supported_max(ModelMax[t]) \in ContextMin..ContextHardCap
            BY <1>1, Tables, SupportedInRange
        <3>. QED BY <3>1, <3>2, ConstantsAssumption DEF Lengths
    <2>2. call' \in [Requests -> Calls]
        BY <1>1, <1>8, ReturnTyped DEF Finish
    <2>3. resident' \in [tier : Tiers, context : Lengths, known : BOOLEAN]
        BY <1>1, <1>8, <2>1 DEF Finish, Calls
    <2>. QED BY <1>1, <1>8, <2>1, <2>2, <2>3 DEF Finish, TypeOK, Lengths
<1>. QED BY <1>3, <1>4, <1>5, <1>6, <1>7, <1>8 DEF Load

LEMMA RouteTyped ==
    ASSUME TypeOK, NEW r \in Requests, Route(r)
    PROVE  TypeOK'
<1>1. ASSUME NEW t \in Tiers, NEW c \in Asked \cup {NoContext}, NEW yes \in BOOLEAN,
             NEW answer \in {"blocked", "needs_confirm", "load"},
             Receive(r, t, c, yes, answer)
      PROVE  TypeOK'
    BY <1>1, ReceiveTyped
<1>2. CASE Answered(r)
    <2>1. call \in [Requests -> Calls]
        BY DEF TypeOK, Calls, Lengths
    <2>2. call' \in [Requests -> Calls]
        BY <1>2, <2>1, ReturnTyped DEF Answered
    <2>. QED BY <1>2, <2>2 DEF Answered, files, kept, TypeOK, Calls, Lengths
<1>3. CASE ChatLoad(r)
    BY <1>1, <1>3 DEF ChatLoad, TypeOK
<1>4. ASSUME NEW t \in Tiers, NEW c \in Asked \cup {NoContext}, NEW yes \in BOOLEAN,
             \/ RouteLoad(r, t, c, yes)
             \/ Blocked(r, t, c)
             \/ NeedsConfirm(r, t, c)
      PROVE  TypeOK'
    BY <1>1, <1>4 DEF RouteLoad, Blocked, NeedsConfirm
<1>. QED BY <1>2, <1>3, <1>4 DEF Route

LEMMA SetTyped ==
    ASSUME TypeOK, NEW t \in Tiers, NEW c \in Asked, set_context_length(t, c)
    PROVE  TypeOK'
<1>. DEFINE n == clamp_context_length(c, context_max_for(t))
<1>1. n \in Lengths
    <2>1. c \in Int /\ context_max_for(t) \in Int
        BY ConstantsAssumption, MaxIsLength
    <2>. QED BY <2>1, ClampIsLength
<1>2. setting' = [tier |-> t, context |-> n]
    BY DEF set_context_length
<1>. HIDE DEF n
<1>. QED BY <1>1, <1>2 DEF set_context_length, files, TypeOK, Lengths

LEMMA StoreTyped ==
    ASSUME TypeOK, StoreContext
    PROVE  TypeOK'
<1>1. setting.tier \in Tiers /\ setting.context \in Lengths
    BY DEF TypeOK, StoreContext, Lengths
<1>. QED BY <1>1 DEF StoreContext, files, TypeOK, Lengths

LEMMA OthersTyped ==
    ASSUME TypeOK, NEW t \in Tiers, Ensure(t) \/ Restart
    PROVE  TypeOK'
<1>1. CASE Ensure(t)
    BY <1>1 DEF Ensure, Ready, kept, TypeOK
<1>2. CASE Restart
    <2>1. call' \in [Requests -> Calls]
        BY <1>2, IdleTyped DEF Restart
    <2>2. /\ onDisk' \subseteq Tiers
          /\ resolved' \subseteq onDisk'
          /\ setting' = NoModel
          /\ resident' = NoModel
        BY <1>2 DEF Restart, TypeOK
    <2>3. stored' \in [Tiers -> Lengths \cup {NoContext}] /\ choice' \in Tiers
        <3>1. CASE UNCHANGED <<stored, choice>>
            BY <3>1 DEF TypeOK, Lengths
        <3>2. CASE /\ stored' = [u \in Tiers |-> NoContext]
                   /\ choice' = DefaultTier
            BY <3>2, ConstantsAssumption
        <3>. QED BY <1>2, <3>1, <3>2 DEF Restart
    <2>. QED BY <2>1, <2>2, <2>3 DEF TypeOK, Calls, Lengths
<1>. QED BY <1>1, <1>2

-----------------------------------------------------------------------------
(***************************************************************************)
(* The inductive invariant is kept.                                        *)
(***************************************************************************)
LEMMA InitInv == Init => IInv
<1>. SUFFICES ASSUME Init PROVE IInv
    OBVIOUS
<1>1. TypeOK
    BY InitTyped
<1>2. CallInv
    BY DEF Init, CallInv, Gated, Prepared, Idle
<1>3. ResidentInv
    BY DEF Init, ResidentInv
<1>. QED BY <1>1, <1>2, <1>3 DEF IInv

\* The requests are in order if each is either as it was or not about to load, and
\* nothing is removed from the disk.
LEMMA CallsKept ==
    ASSUME CallInv, onDisk \subseteq onDisk',
           \A q \in Requests : call'[q] = call[q] \/ call'[q].at \notin {"admitted", "ready"}
    PROVE  CallInv'
<1>. SUFFICES ASSUME NEW q \in Requests
              PROVE  (Gated(call[q]) /\ Prepared(call[q]))'
    BY DEF CallInv
<1>1. CASE call'[q] = call[q]
    BY <1>1 DEF CallInv, Gated, Prepared, Servable
<1>2. CASE call'[q].at \notin {"admitted", "ready"}
    BY <1>2 DEF Gated, Prepared
<1>. QED BY <1>1, <1>2

LEMMA ResidentKept ==
    ASSUME ResidentInv, onDisk \subseteq onDisk', resident' = resident
    PROVE  ResidentInv'
BY DEF ResidentInv, Servable

\* A request that returns is in order, and so are the others.
LEMMA ReturnKeeps ==
    ASSUME TypeOK, CallInv, NEW r \in Requests, Return(r), onDisk' = onDisk
    PROVE  CallInv'
<1>1. call \in [Requests -> Calls]
    BY DEF TypeOK, Calls, Lengths
<1>2. \A q \in Requests : call'[q] = IF q = r THEN Idle ELSE call[q]
    BY <1>1 DEF Return
<1>3. Idle.at \notin {"admitted", "ready"}
    BY DEF Idle
<1>. QED BY <1>2, <1>3, CallsKept

LEMMA ReceiveKeeps ==
    ASSUME TypeOK, CallInv, ResidentInv, NEW r \in Requests, NEW t, NEW c, NEW yes,
           NEW answer \in {"blocked", "needs_confirm", "load"}, Receive(r, t, c, yes, answer)
    PROVE  CallInv' /\ ResidentInv'
<1>1. call \in [Requests -> Calls]
    BY DEF TypeOK, Calls, Lengths
<1>2. \A q \in Requests : call'[q] = call[q] \/ call'[q].at = answer
    BY <1>1 DEF Receive
<1>3. onDisk' = onDisk /\ resident' = resident
    BY DEF Receive, files, kept
<1>. QED BY <1>2, <1>3, CallsKept, ResidentKept

LEMMA RouteKeeps ==
    ASSUME TypeOK, CallInv, ResidentInv, NEW r \in Requests, Route(r)
    PROVE  CallInv' /\ ResidentInv'
<1>1. CASE Answered(r)
    <2>1. onDisk' = onDisk /\ resident' = resident
        BY <1>1 DEF Answered, files, kept
    <2>. QED BY <1>1, <2>1, ReturnKeeps, ResidentKept DEF Answered
<1>2. CASE ChatLoad(r)
    BY <1>2, ReceiveKeeps DEF ChatLoad
<1>3. ASSUME NEW t, NEW c, NEW yes,
             RouteLoad(r, t, c, yes) \/ Blocked(r, t, c) \/ NeedsConfirm(r, t, c)
      PROVE  CallInv' /\ ResidentInv'
    BY <1>3, ReceiveKeeps DEF RouteLoad, Blocked, NeedsConfirm
<1>. QED BY <1>1, <1>2, <1>3 DEF Route

\* A load that is admitted has passed the gate with the context it will work with.
LEMMA AdmitKeeps ==
    ASSUME TypeOK, CallInv, ResidentInv, NEW r \in Requests, Admit(r)
    PROVE  CallInv' /\ ResidentInv'
<1>. DEFINE t == call[r].tier
            n == Wanted(r)
<1>1. call \in [Requests -> Calls] /\ t \in Tiers /\ n \in Lengths /\ n \in Int
    <2>1. call \in [Requests -> Calls]
        BY DEF TypeOK, Calls, Lengths
    <2>2. n \in Lengths /\ n \in Int
        BY WantedIsLength, LengthsAreNumbers
    <2>. QED BY <2>1, <2>2 DEF Calls
<1>2. gate(t, n) # "refuse"
      /\ call' = [call EXCEPT ![r].at = "admitted", ![r].chosen = n,
                              ![r].known = t \in resolved]
      /\ onDisk' = onDisk /\ resident' = resident
    BY DEF Admit, files, kept
<1>. HIDE DEF n
<1>3. Usable >= Floor[t] + KvExtra(Judged(t, t \in resolved), n)
    BY <1>1, <1>2, GateHasRoom DEF Judged, KvPerToken
<1>4. CallInv'
    <2>1. SUFFICES ASSUME NEW q \in Requests PROVE (Gated(call[q]) /\ Prepared(call[q]))'
        BY DEF CallInv
    <2>2. CASE q = r
        <3>1. call'[q].at = "admitted" /\ call'[q].chosen = n /\ call'[q].tier = t
              /\ call'[q].known = (t \in resolved)
            BY <1>1, <1>2, <2>2 DEF Calls
        <3>. QED BY <1>1, <1>3, <3>1 DEF Gated, Prepared, Lengths
    <2>3. CASE q # r
        BY <1>1, <1>2, <2>3 DEF CallInv, Gated, Prepared, Servable
    <2>. QED BY <2>2, <2>3
<1>. QED BY <1>2, <1>4, ResidentKept

\* The context is clamped to what the configuration declares, and only lowered, so that
\* what passed the gate still fits.
LEMMA PrepareServes ==
    ASSUME TypeOK, CallInv, NEW r \in Requests, Prepare(r)
    PROVE  CallInv' /\ ResidentInv'
<1>. DEFINE t == call[r].tier
            old == call[r].chosen
            max == context_supported_max(ModelMax[t])
            n == clamp_context_length(old, max)
            k == Judged(t, call[r].known)
<1>1. call \in [Requests -> Calls] /\ t \in Tiers
    BY DEF TypeOK, Calls, Lengths
<1>2. /\ call[r].at = "admitted"
      /\ t \in Plannable
      /\ onDisk' = onDisk \cup {t}
      /\ call' = [call EXCEPT ![r].at = "ready", ![r].chosen = n]
      /\ resident' = NoModel
    BY DEF Prepare, Ready
<1>3. old \in Int /\ ContextMin <= old
    <2>1. old \in Lengths
        BY <1>2 DEF CallInv, Gated, Lengths
    <2>. QED BY <2>1, LengthsAreNumbers
<1>4. Usable >= Floor[t] + KvExtra(k, old) /\ k \in Nat
    <2>1. k \in Nat
        BY <1>1, Tables DEF Judged
    <2>2. Usable >= Floor[t] + KvExtra(k, old)
        BY <1>2 DEF CallInv, Gated
    <2>. QED BY <2>1, <2>2
<1>5. max \in Int /\ context_supported_max(max) = max
    BY <1>1, Tables, SupportedInRange, SupportedIsStable, LengthsAreNumbers DEF Lengths
<1>6. n \in ContextMin..max /\ n <= old
    BY <1>3, <1>5, ClampInRange, ClampOnlyLowers
<1>. HIDE DEF n, max, old, k
<1>7. Fits(t, n, call[r].known)
    <2>1. n \in Int /\ k \in Nat /\ Usable \in Nat /\ Floor[t] \in Nat
        BY <1>1, <1>4, <1>6, Tables, ConstantsAssumption
    <2>2. /\ KvExtra(k, n) \in Nat /\ KvExtra(k, old) \in Nat
          /\ KvExtra(k, n) <= KvExtra(k, old)
        BY <1>3, <1>6, <2>1, KvExtraGrows
    <2>3. Usable >= Floor[t] + KvExtra(k, n)
        BY <1>4, <2>1, <2>2
    <2>. QED BY <1>2, <2>3 DEF Fits, Judged, k
<1>8. CallInv'
    <2>1. SUFFICES ASSUME NEW q \in Requests PROVE (Gated(call[q]) /\ Prepared(call[q]))'
        BY DEF CallInv
    <2>2. CASE q = r
        <3>1. call'[q].at = "ready" /\ call'[q].chosen = n /\ call'[q].tier = t
              /\ call'[q].known = call[r].known
            BY <1>1, <1>2, <2>2 DEF Calls
        <3>2. t \in onDisk'
            BY <1>2
        <3>. QED BY <1>6, <1>7, <3>1, <3>2 DEF Gated, Prepared, Servable, max
    <2>3. CASE q # r
        BY <1>1, <1>2, <2>3 DEF CallInv, Gated, Prepared, Servable
    <2>. QED BY <2>2, <2>3
<1>9. ResidentInv'
    BY <1>2 DEF ResidentInv
<1>. QED BY <1>8, <1>9

\* What becomes resident is what the load was ready with.
LEMMA FinishKeeps ==
    ASSUME TypeOK, CallInv, NEW r \in Requests, Finish(r)
    PROVE  CallInv' /\ ResidentInv'
<1>. DEFINE t == call[r].tier
            n == call[r].chosen
            k == call[r].known
<1>1. Servable(t, n, k) /\ onDisk' = onDisk
    BY DEF Finish, CallInv, Prepared, files
<1>2. resident'.tier = t /\ resident'.context = n /\ resident'.known = k
    BY DEF Finish
<1>. HIDE DEF t, n, k
<1>3. ResidentInv'
    BY <1>1, <1>2 DEF ResidentInv, Servable
<1>4. CallInv'
    BY <1>1, ReturnKeeps DEF Finish
<1>. QED BY <1>3, <1>4

LEMMA LoadKeeps ==
    ASSUME TypeOK, CallInv, ResidentInv, NEW r \in Requests, Load(r)
    PROVE  CallInv' /\ ResidentInv'
<1>1. CASE Refuse(r) \/ NotReady(r) \/ LoadRaises(r)
    <2>1. Return(r) /\ onDisk' = onDisk /\ resident' = resident
        BY <1>1 DEF Refuse, NotReady, LoadRaises, files, kept
    <2>. QED BY <2>1, ReturnKeeps, ResidentKept
<1>. QED BY <1>1, AdmitKeeps, PrepareServes, FinishKeeps DEF Load

LEMMA SetKeeps ==
    ASSUME CallInv, ResidentInv, NEW t, NEW c, set_context_length(t, c) \/ StoreContext
    PROVE  CallInv' /\ ResidentInv'
<1>1. onDisk' = onDisk /\ resident' = resident /\ call' = call
    BY DEF set_context_length, StoreContext, files
<1>. QED BY <1>1, CallsKept, ResidentKept

LEMMA OthersKeep ==
    ASSUME TypeOK, CallInv, ResidentInv, NEW t \in Tiers, Ensure(t) \/ Restart
    PROVE  CallInv' /\ ResidentInv'
<1>1. CASE Ensure(t)
    <2>1. onDisk \subseteq onDisk' /\ resident' = resident
          /\ call' = call
        BY <1>1 DEF Ensure, Ready, kept
    <2>. QED BY <2>1, CallsKept, ResidentKept
<1>2. CASE Restart
    <2>1. onDisk' = onDisk /\ resident' = NoModel
        BY <1>2 DEF Restart
    <2>2. \A q \in Requests : call'[q].at \notin {"admitted", "ready"}
        BY <1>2 DEF Restart, Idle
    <2>. QED BY <2>1, <2>2, CallsKept DEF ResidentInv
<1>. QED BY <1>1, <1>2

\* Every step keeps the inductive invariant.
LEMMA NextInv == IInv /\ [Next]_gateVars => IInv'
<1>. SUFFICES ASSUME IInv, [Next]_gateVars PROVE IInv'
    OBVIOUS
<1>1. TypeOK /\ CallInv /\ ResidentInv
    BY DEF IInv
<1>2. ASSUME NEW r \in Requests, Load(r) PROVE IInv'
    <2>1. Prepared(call[r])
        BY <1>1 DEF CallInv
    <2>. QED BY <1>1, <1>2, <2>1, LoadTyped, LoadKeeps DEF IInv
<1>3. ASSUME NEW r \in Requests, Route(r) PROVE IInv'
    BY <1>1, <1>3, RouteTyped, RouteKeeps DEF IInv
<1>4. ASSUME NEW t \in Tiers, NEW c \in Asked, set_context_length(t, c) PROVE IInv'
    BY <1>1, <1>4, SetTyped, SetKeeps DEF IInv
<1>5. ASSUME NEW t \in Tiers, Ensure(t) \/ Restart PROVE IInv'
    BY <1>1, <1>5, OthersTyped, OthersKeep DEF IInv
<1>6. CASE StoreContext
    BY <1>1, <1>6, StoreTyped, SetKeeps DEF IInv
<1>7. CASE UNCHANGED gateVars
    BY <1>1, <1>7 DEF IInv, gateVars, files, kept, TypeOK, CallInv, ResidentInv, Gated,
       Prepared, Servable
<1>8. DefaultTier \in Tiers
    BY ConstantsAssumption
<1>. QED BY <1>2, <1>3, <1>4, <1>5, <1>6, <1>7, <1>8 DEF Next

LEMMA InvariantHolds == Spec => []IInv
BY InitInv, NextInv, PTL DEF Spec

-----------------------------------------------------------------------------
(* The theorems. *)

\* Every length that the choice file or a request holds is one that the control offers,
\* and every resolved snapshot is on disk.
THEOREM TypeCorrect == Spec => []TypeOK
<1>1. IInv => TypeOK
    BY DEF IInv
<1>. QED BY <1>1, InvariantHolds, PTL

\* The resident model runs above its comfort and its KV cache fits by the estimate that
\* judged its load, whatever was resolved, downloaded or set between the gate and the
\* load: the gate passed the context that was wanted, and what became resident is no
\* longer.  That estimate need not be the one its configuration gives.
THEOREM ResidentIsSafe == Spec => []ResidentFits
<1>1. IInv => ResidentFits
    BY DEF IInv, ResidentInv, ResidentFits, Servable
<1>. QED BY <1>1, InvariantHolds, PTL

\* On a device below the comfort of every tier that has a build for it, no model is ever
\* resident: the planner inside ensure_ready refuses what the gate only warns of, so a
\* confirmed warning (manager.py:393) never leads to a model there.
THEOREM SmallDevicesStayEmpty ==
    ASSUME Plannable = {}
    PROVE  Spec => [](resident = NoModel)
<1>1. ResidentFits => resident = NoModel
    BY DEF ResidentFits, Fits
<1>. QED BY <1>1, ResidentIsSafe, PTL

\* The resident model's context is within what its own configuration declares: the
\* length is clamped again once the configuration is on disk.
THEOREM ContextsStayServable == Spec => []ContextsAreServable
<1>1. IInv => ContextsAreServable
    BY DEF IInv, ResidentInv, Servable, ContextsAreServable
<1>. QED BY <1>1, InvariantHolds, PTL

\* For every device, tier and table, and whatever has been resolved, the gate is never
\* more permissive with a longer context.
THEOREM GateIsMonotone == Spec => []GateTightens
<1>1. GateTightens
    <2>. SUFFICES ASSUME NEW t \in Tiers, NEW c \in Asked \cup {NoContext}, NEW d \in Asked,
                         c = NoContext \/ c <= d
                  PROVE  Rank(gate(t, c)) <= Rank(gate(t, d))
        BY DEF GateTightens
    <2>1. c \in Int \cup {NoContext} /\ d \in Int /\ KvPerToken(t) \in Nat
        BY Tables, ConstantsAssumption
    <2>2. /\ KvExtra(KvPerToken(t), c) \in Nat
          /\ KvExtra(KvPerToken(t), d) \in Nat
          /\ KvExtra(KvPerToken(t), c) <= KvExtra(KvPerToken(t), d)
        BY <2>1, KvExtraGrows
    <2>. QED BY <2>2, BandTightens DEF gate
<1>. QED BY <1>1, PTL

\* A device that is comfortable with some tier of the ladder is recommended one that its
\* planner takes and that its gate does not refuse before the download.
THEOREM FirstRunIsAdmitted == Spec => []RecommendedIsAdmitted
<1>1. RecommendedIsAdmitted
    <2>. DEFINE t == recommend
                n == clamp_context_length(NoContext, context_max_for(t))
    <2>. SUFFICES ASSUME \E i \in DOMAIN Ladder : Ladder[i] \in Plannable, t \notin resolved
                  PROVE  t \in Plannable /\ gate(t, n) # "refuse"
        BY DEF RecommendedIsAdmitted
    <2>1. t \in Plannable
        BY PickIsInSet DEF recommend
    <2>2. t \in Pinned /\ t \in Tiers /\ Usable >= Comfort[t]
        BY <2>1, ConstantsAssumption DEF Plannable
    <2>3. n \in Int /\ n <= ContextDefault
        <3>1. context_max_for(t) \in Int
            BY <2>2, MaxIsLength
        <3>2. n = Smaller(ContextDefault, context_supported_max(context_max_for(t)))
            BY DEF clamp_context_length
        <3>3. context_supported_max(context_max_for(t)) \in Int
            BY <3>1, SupportedInRange, LengthsAreNumbers DEF Lengths
        <3>. HIDE DEF n, t
        <3>. QED BY <3>2, <3>3, ConstantsAssumption DEF Smaller
    <2>4. KvPerToken(t) = Heuristic[t]
        BY DEF KvPerToken
    <2>. HIDE DEF n, t
    <2>5. /\ KvExtra(Heuristic[t], n) \in Nat
          /\ KvExtra(Heuristic[t], ContextDefault) \in Nat
          /\ KvExtra(Heuristic[t], n) <= KvExtra(Heuristic[t], ContextDefault)
        <3>1. Heuristic[t] \in Nat
            BY <2>2, Tables
        <3>2. n \in Int \cup {NoContext} /\ ContextDefault \in Int
            BY <2>3, ConstantsAssumption
        <3>. QED BY <2>3, <3>1, <3>2, KvExtraGrows
    <2>6. KvExtra(Heuristic[t], ContextDefault)
             = Heuristic[t] * (ContextDefault - ContextMin)
        <3>. DEFINE a == ContextDefault - ContextMin
        <3>1. a \in Nat /\ Heuristic[t] \in Nat /\ ContextDefault # NoContext
            BY <2>2, Tables, ConstantsAssumption
        <3>2. KvExtra(Heuristic[t], ContextDefault) = Larger(0, Heuristic[t] * a)
            BY <3>1 DEF KvExtra
        <3>. HIDE DEF a
        <3>3. Heuristic[t] * a \in Nat
            BY <3>1
        <3>4. Larger(0, Heuristic[t] * a) = Heuristic[t] * a
            BY <3>3 DEF Larger
        <3>. QED BY <3>2, <3>4 DEF a
    <2>7. Floor[t] + KvExtra(Heuristic[t], n) <= Comfort[t]
        <3>1. Floor[t] + KvExtra(Heuristic[t], ContextDefault) <= Comfort[t]
            BY <2>2, <2>6, ComfortAssumption
        <3>2. Floor[t] \in Nat /\ Comfort[t] \in Nat
            BY <2>2, Tables
        <3>. QED BY <2>5, <3>1, <3>2
    <2>8. Usable >= Floor[t] + KvExtra(Heuristic[t], n)
        BY <2>2, <2>5, <2>7, Tables
    <2>. QED BY <2>1, <2>2, <2>4, <2>8 DEF gate, Band
<1>. QED BY <1>1, PTL

\* The old model is unloaded only for a load that is ready, or with the process: never
\* for one that the gate or the planner turns down or whose download fails.
THEOREM OldModelIsKept == Spec => OldModelStays
<1>. DEFINE A == resident # NoModel /\ resident' = NoModel =>
                    \/ \E r \in Requests : call[r].at = "admitted" /\ call'[r].at = "ready"
                    \/ resolved' = {} /\ \A r \in Requests : call'[r].at = "idle"
<1>1. IInv /\ [Next]_gateVars => [A]_gateVars
    <2>. SUFFICES ASSUME IInv, Next, resident # NoModel, resident' = NoModel
                  PROVE  A
        OBVIOUS
    <2>1. call \in [Requests -> Calls]
        BY DEF IInv, TypeOK, Calls, Lengths
    <2>2. ASSUME NEW r \in Requests, Prepare(r) PROVE A
        <3>1. call[r].at = "admitted" /\ call'[r].at = "ready"
            BY <2>1, <2>2 DEF Prepare, Calls
        <3>. QED BY <3>1
    <2>3. ASSUME NEW r \in Requests, Load(r), ~Prepare(r) PROVE FALSE
        <3>1. CASE Finish(r)
            <4>1. resident' \in [tier : Tiers, context : Int, known : BOOLEAN]
                <5>1. call[r].tier \in Tiers /\ call[r].at = "ready"
                    BY <2>1, <3>1 DEF Finish, Calls
                <5>2. call[r].chosen \in
                         ContextMin..context_supported_max(ModelMax[call[r].tier])
                    BY <5>1 DEF IInv, CallInv, Prepared, Servable
                <5>3. call[r].known \in BOOLEAN
                    BY <2>1 DEF Calls
                <5>. QED BY <3>1, <5>1, <5>2, <5>3, ConstantsAssumption DEF Finish
            <4>. QED BY <4>1, ConstantsAssumption
        <3>2. CASE ~Finish(r)
            BY <2>3, <3>2 DEF Load, Admit, Refuse, NotReady, LoadRaises
        <3>. QED BY <3>1, <3>2
    <2>4. ASSUME NEW r \in Requests, Route(r) PROVE FALSE
        BY <2>4 DEF Route, RouteLoad, Blocked, NeedsConfirm, Answered, ChatLoad, Receive
    <2>5. ASSUME NEW t, NEW c, set_context_length(t, c) \/ StoreContext \/ Ensure(t)
          PROVE  FALSE
        BY <2>5 DEF set_context_length, StoreContext, Ensure
    <2>6. CASE Restart
        BY <2>6 DEF Restart, Idle
    <2>. QED BY <2>2, <2>3, <2>4, <2>5, <2>6 DEF Next
<1>. QED BY <1>1, InvariantHolds, PTL DEF Spec, OldModelStays
=============================================================================
