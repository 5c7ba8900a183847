\* Two jobs in one session, two faults.
CONSTANTS
    Jobs = {j1, j2}
    Sessions = {s1}
    NoJob = NoJob
    MaxTurns = 2
    MaxFaults = 2
SPECIFICATION FairSpec
INVARIANTS DoneMeansDone RepeatsArePaid
PROPERTIES DeliverySpec EveryJobIsFollowedUp
