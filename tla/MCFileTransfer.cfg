SPECIFICATION Spec
CONSTANTS
    Uploads = {u1}
    Downloads = {}
    Conns = {c1, c2}
    a = a
    b = b
    NoPath = NoPath
    Names = {a, b, NoPath}
    MaxRegs = 2
    Long = {u1}
    Hashed = {u1}
    NameOf <- MCNameOf
    Size <- MCSize
    Bad = Bad
    Empty = Empty
    MaxFrame = 2
    MaxPos = 4
    DiskMayFill = FALSE
SYMMETRY Symmetry
INVARIANTS NoOrphanPart SavedIntact VerdictTrue CancelReaches
PROPERTIES LifeRefines
CHECK_DEADLOCK FALSE
