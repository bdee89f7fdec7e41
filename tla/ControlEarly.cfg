SPECIFICATION FairSpec
CONSTANTS
    MaxSessions = 1
    MaxInputs = 1
    StoredFlip = FALSE
PROPERTIES HelloAlwaysAnswered
CHECK_DEADLOCK FALSE
