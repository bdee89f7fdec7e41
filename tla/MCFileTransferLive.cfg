SPECIFICATION FairSpec
CONSTANTS
    Uploads = {u1}
    Downloads = {d1}
    Conns = {c1}
    a = a
    b = b
    NoPath = NoPath
    Names = {a, b, NoPath}
    MaxRegs = 2
    Long = {u1}
    Hashed = {u1, d1}
    NameOf <- MCNameOf
    Size <- MCSize
    Bad = Bad
    Empty = Empty
    MaxFrame = 2
    MaxPos = 4
    DiskMayFill = TRUE
INVARIANTS OfferOwned
PROPERTIES EveryConnectionEnds CancelStops OffersForgotten
CHECK_DEADLOCK FALSE
