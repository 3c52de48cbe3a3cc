SPECIFICATION Spec
CONSTANTS
    Names <- MCNames
    Debugs <- MCDebugs
    Others <- MCOthers
    MaxMods = 4
    Orders <- EitherWay
INVARIANTS
    DriversSeeOwnEnvironment
    OffersOnlyInitialised
PROPERTY ModifierAsAllocated
CHECK_DEADLOCK FALSE
