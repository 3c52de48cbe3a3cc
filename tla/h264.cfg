INIT Init
NEXT Next
CONSTANTS
    MaxNals = 4
    Scenarios <- MCScenarios
INVARIANTS
    TypeOK
    SplitsAsWritten
    TakenIfSupported
    HeadersReadBack
    SliceDataFound
    CropsToRequest
CHECK_DEADLOCK FALSE
