\* Two sessions, two turns and two moves between the sessions.
CONSTANTS
    A = A
    B = B
    Sessions = {A, B}
    NoSession = NoSession
    AutoNudgeCap = 1
    MaxTurns = 2
    MaxMoves = 2
CHECK_DEADLOCK FALSE
SPECIFICATION Spec
INVARIANTS RecoveriesAreCapped EntryIsWatched
PROPERTY DrawnIsCurrent
