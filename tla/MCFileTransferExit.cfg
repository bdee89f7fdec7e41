SPECIFICATION Spec
CONSTANTS
    Uploads = {u1}
    Downloads = {}
    Conns = {c1, c2}
    a = a
    b = b
    NoPath = NoPath
    Names = {a, b, NoPath}
    MaxRegs = 1
    Long = {}
    Hashed = {u1}
    NameOf <- MCNameOf
    Size <- MCSize
    Bad = Bad
    Empty = Empty
    MaxFrame = 1
    MaxPos = 3
    DiskMayFill = FALSE
INVARIANTS StopCleansParts
CHECK_DEADLOCK FALSE
