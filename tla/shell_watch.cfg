\* The shell and its page: one restart, one more boot, two polls in flight.
CONSTANTS
    MaxRestarts = 1
    BootRetries = 1
    MaxPolls = 2
CHECK_DEADLOCK FALSE
SPECIFICATION ShellSpec
INVARIANT CleanExit
PROPERTIES RestartsCease GivesUp QuitClosesWindow OverlayClears
