--------------------------- MODULE ReconnectOverlay ---------------------------
(***************************************************************************)
(* The heartbeat of static/alice/alice-failure.js and the overlay it shows *)
(* while the backend is away.                                              *)
(*                                                                         *)
(* Every tick asks /healthz and does not wait for the answer of the tick   *)
(* before it, so the answers may come in any order.                        *)
(***************************************************************************)
EXTENDS Naturals

CONSTANT MaxPolls  \* bound: requests in flight

VARIABLES
    backendUp,  \* /healthz answers, a variable of the environment
    polls,      \* the requests in flight: the answers on their way
    everUp,
    wasUp,
    overlay,    \* HB.overlay and HB.escalated
    late        \* more than GIVE_UP_MS have passed since downSince

overlayVars == <<polls, everUp, wasUp, overlay, late>>

Polls == 1..MaxPolls

OverlayTypeOK ==
    /\ polls \in [Polls -> {"free", "up", "down"}]
    /\ everUp \in BOOLEAN
    /\ wasUp \in BOOLEAN
    /\ overlay \in {"none", "reconnect", "escalated"}
    /\ late \in BOOLEAN

OverlayInit ==
    /\ polls = [p \in Polls |-> "free"]
    /\ everUp = FALSE
    /\ wasUp = TRUE
    /\ overlay = "none"
    /\ late = FALSE

\* The interval, or checkNow: the backend answers, or the connection is refused.
Tick(p) ==
    /\ polls[p] = "free"
    /\ polls' = [polls EXCEPT ![p] = IF backendUp THEN "up" ELSE "down"]
    /\ UNCHANGED <<everUp, wasUp, overlay, late>>

\* Mutant: what was escalated stays.
SeenUpKeeps ==
    /\ everUp' = TRUE
    /\ wasUp' = TRUE
    /\ overlay' = IF ~wasUp /\ overlay = "reconnect" THEN "none" ELSE overlay
    /\ UNCHANGED late

SeenUp ==
    /\ everUp' = TRUE
    /\ wasUp' = TRUE
    /\ overlay' = IF wasUp THEN overlay ELSE "none"
    /\ UNCHANGED late

\* The 45 seconds begin when the backend is first missed.
SeenDown ==
    /\ wasUp' = FALSE
    /\ late' = (late /\ ~(everUp /\ wasUp))
    /\ \/ overlay' = IF ~everUp THEN overlay
                     ELSE IF late' THEN "escalated"
                     ELSE IF overlay = "none" THEN "reconnect" ELSE overlay
       \/ UNCHANGED overlay  \* #a-firstrun is on the page
    /\ UNCHANGED everUp

\* The callback of _healthOnce.
Answer(p) ==
    /\ \/ polls[p] = "up" /\ SeenUp
       \/ polls[p] = "down" /\ SeenDown
    /\ polls' = [polls EXCEPT ![p] = "free"]

GiveUpTime ==
    /\ ~wasUp
    /\ ~late
    /\ late' = TRUE
    /\ UNCHANGED <<polls, everUp, wasUp, overlay>>

OverlayNext ==
    \/ \E p \in Polls : Tick(p) \/ Answer(p)
    \/ GiveUpTime
================================================================================
