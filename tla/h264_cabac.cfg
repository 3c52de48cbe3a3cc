INIT Init
NEXT Next
CONSTANTS
    MaxNals = 8
    Scenarios <- OurStream
INVARIANTS
    EncodesConstrainedBaseline
CHECK_DEADLOCK FALSE
