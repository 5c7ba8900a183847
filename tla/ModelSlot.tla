------------------------------ MODULE ModelSlot ------------------------------
(***************************************************************************)
(* What the model manager and the chat provider promise together           *)
(* (manager.py, load: "one resident model per the engine"; get_engine: "a  *)
(* model SWITCH is picked up by the next chat without a restart"): there   *)
(* is one slot, it is emptied before it is filled, what it is filled with  *)
(* is newer than everything it ever held, and the chats are served by what *)
(* was in the slot, never by something older than what served them before. *)
(***************************************************************************)
EXTENDS Naturals

CONSTANTS Tiers, Contexts, Nothing

VARIABLES
    slot,     \* the number of the model in the slot, 0 for none
    content,  \* the tier and the context it was loaded with
    newest,   \* how often the slot was filled
    served    \* the number of the model that serves the chats

slotVars == <<slot, content, newest, served>>

Init ==
    /\ slot = 0
    /\ content = Nothing
    /\ newest = 0
    /\ served = 0

Evict ==
    /\ slot # 0
    /\ slot' = 0
    /\ content' = Nothing
    /\ UNCHANGED <<newest, served>>

Install ==
    /\ slot = 0
    /\ newest' = newest + 1
    /\ slot' = newest'
    /\ content' \in Tiers \X Contexts
    /\ UNCHANGED served

\* The model need not be in the slot any more.
Serve ==
    /\ served' \in Nat
    /\ served < served'
    /\ served' <= newest
    /\ UNCHANGED <<slot, content, newest>>

\* The process dies, and nothing is loaded.
Restart ==
    /\ slot' = 0
    /\ content' = Nothing
    /\ newest' = 0
    /\ served' = 0

Next == Evict \/ Install \/ Serve \/ Restart

Spec == Init /\ [][Next]_slotVars
=============================================================================
