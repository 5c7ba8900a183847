\* Two clients of a session to which two messages are sent.
CONSTANTS
    Clients = {c1, c2}
    MaxRuns = 2
    MaxEvents = 1
    End = End
CHECK_DEADLOCK FALSE
SPECIFICATION FairSpec
INVARIANTS EvictionPending NoLostWakeup
PROPERTIES LogSpec SavesFollow EndReachesClients StopTakesEffect
