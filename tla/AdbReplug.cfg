SPECIFICATION FairSpec
CONSTANTS
    Phones = {p1, p2}
    Files = {exe, dll}
    Ports = 3
    MaxChanges = 2
    MaxRestarts = 0
    AdbMayFail = FALSE
PROPERTIES ReverseAlwaysComes
CHECK_DEADLOCK FALSE
