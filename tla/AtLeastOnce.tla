------------------------------ MODULE AtLeastOnce ------------------------------
(***************************************************************************)
(* What bg_jobs.py and bg_monitor.py keep of their promise of a background *)
(* job: once it is on record it comes to an end, the agent is run with its *)
(* result at least once, and only then is the job closed.  "AFTER the      *)
(* agent run succeeds" (bg_monitor.py:6) is more than they keep: a run     *)
(* that ends with an error closes the job, too.                            *)
(***************************************************************************)
EXTENDS Naturals

CONSTANT Jobs

VARIABLES
    state,  \* "unknown", "open", "ended" or "closed"
    asked   \* how often the agent was run with the job's result

Init ==
    /\ state = [j \in Jobs |-> "unknown"]
    /\ asked = [j \in Jobs |-> 0]

Open(j) ==
    /\ state[j] = "unknown"
    /\ state' = [state EXCEPT ![j] = "open"]
    /\ UNCHANGED asked

\* One look at the disk may find several jobs at their end.
End(S) ==
    /\ \A j \in S : state[j] = "open"
    /\ state' = [j \in Jobs |-> IF j \in S THEN "ended" ELSE state[j]]
    /\ UNCHANGED asked

Ask(j) ==
    /\ state[j] = "ended"
    /\ asked' = [asked EXCEPT ![j] = @ + 1]
    /\ UNCHANGED state

Close(j) ==
    /\ state[j] = "ended"
    /\ asked[j] # 0
    /\ state' = [state EXCEPT ![j] = "closed"]
    /\ UNCHANGED asked

Next ==
    \/ \E j \in Jobs : Open(j) \/ Ask(j) \/ Close(j)
    \/ \E S \in SUBSET Jobs : End(S)

Spec == Init /\ [][Next]_<<state, asked>>
=============================================================================
