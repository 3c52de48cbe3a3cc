INIT Init
NEXT Next
SYMMETRY Interchangeable
CONSTANTS
    Ids = {i1, i2, i3, i4, i5, i6}
    NoId = NoId
    Sizes = {1, 2}
    OutMax = 4
    MaxReqs = 3
INVARIANTS
    TypeOK
    NoStaleIds
    ReturnsOwnFrame
    LostByFailures
PROPERTY RecreatedOnlyForNewSize
CHECK_DEADLOCK FALSE
