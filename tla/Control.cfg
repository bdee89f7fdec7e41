SPECIFICATION FairSpec
CONSTANTS
    MaxSessions = 1
    MaxInputs = 2
    StoredFlip = FALSE
INVARIANTS OneWrite CurrentGreeted FlipAgrees WelcomeKept
PROPERTIES HelloAnswered SessionsReleased StopCompletes
CHECK_DEADLOCK FALSE
