SPECIFICATION FairSpec
CONSTANTS
    Depth = 2
    MaxNalus = 3
    MaxClients = 2
INVARIANTS TypeOK SleepJustified StopReleases TrayFollows QueueSound
PROPERTIES QueueRefines StopCompletes NaluLeaves NextClientAccepted
CHECK_DEADLOCK FALSE
