------------------------------- MODULE ReplayLog -------------------------------
(***************************************************************************)
(* What a client of a detached run is promised (agent_runs.py, module      *)
(* docstring): the log of the run from its first event on, each event once *)
(* and in order, and an end only when nothing is left to read.  A client   *)
(* may go away at any time; the log does not care.                         *)
(*                                                                         *)
(* The events of a run are numbered from 0.                                *)
(***************************************************************************)
EXTENDS Naturals, Sequences

CONSTANTS Runs, Clients

VARIABLES
    length,  \* length[r]: the number of events of run r so far
    closed,  \* closed[r]: r has ended, its log is final
    state,   \* state[c]: "away", "reading", or "complete": read to its end
    source,  \* source[c]: the run c reads
    view     \* view[c]: the events c has received

Init ==
    /\ length = [r \in Runs |-> 0]
    /\ closed = [r \in Runs |-> FALSE]
    /\ state = [c \in Clients |-> "away"]
    /\ source = [c \in Clients |-> 0]
    /\ view = [c \in Clients |-> <<>>]

Extend(r) ==
    /\ ~closed[r]
    /\ \E n \in {0, 1, 2} : length' = [length EXCEPT ![r] = @ + n]
    /\ \E b \in BOOLEAN : closed' = [closed EXCEPT ![r] = b]
    /\ UNCHANGED <<state, source, view>>

Open(c) ==
    /\ state[c] # "reading"
    /\ \E r \in Runs : source' = [source EXCEPT ![c] = r]
    /\ state' = [state EXCEPT ![c] = "reading"]
    /\ UNCHANGED <<length, closed, view>>

Read(c) ==
    /\ state[c] = "reading"
    /\ Len(view[c]) < length[source[c]]
    /\ view' = [view EXCEPT ![c] = Append(@, Len(@))]
    /\ UNCHANGED <<length, closed, state, source>>

Close(c, how) ==
    /\ state' = [state EXCEPT ![c] = how]
    /\ source' = [source EXCEPT ![c] = 0]
    /\ view' = [view EXCEPT ![c] = <<>>]
    /\ UNCHANGED <<length, closed>>

Finish(c) ==
    /\ state[c] = "reading"
    /\ closed[source[c]]
    /\ Len(view[c]) = length[source[c]]
    /\ Close(c, "complete")

Leave(c) == Close(c, "away")

Next ==
    \/ \E r \in Runs : Extend(r)
    \/ \E c \in Clients : Open(c) \/ Read(c) \/ Finish(c) \/ Leave(c)

Spec == Init /\ [][Next]_<<length, closed, state, source, view>>
=============================================================================
