\* Two turns of either kind, with stops, new chats, failing stores and reloads.
CONSTANTS
    MaxTurns = 2
    MaxChunks = 1
    MaxSteps = 2
    ErrorText = ErrorText
SPECIFICATION FairSpec
INVARIANTS OneTurnAtATime ReloadKeeps
PROPERTIES AnswersAreFinal StopTakesEffect
