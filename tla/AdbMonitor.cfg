SPECIFICATION FairSpec
CONSTANTS
    Phones = {p1, p2}
    Files = {exe, dll}
    Ports = 3
    MaxChanges = 3
    MaxRestarts = 1
    AdbMayFail = TRUE
INVARIANTS ActiveForwards NotesFollow
PROPERTIES StopCompletes ReverseComes GoneForgotten
CHECK_DEADLOCK FALSE
