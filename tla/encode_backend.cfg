INIT Init
NEXT Next
SYMMETRY Interchangeable
CONSTANTS
    Ids = {i1, i2, i3, i4, i5, i6, i7}
    NoId = NoId
    Sizes = {s1, s2}
    NoSize = NoSize
    ParamBufs = 1
    MaxReqs = 3
INVARIANTS
    TypeOK
    NoStaleIds
    EncodesOwnFrame
    SurfacesLostByFailures
PROPERTY RecreatedOnlyForNewSize
CHECK_DEADLOCK FALSE
