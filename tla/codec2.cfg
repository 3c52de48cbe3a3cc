SPECIFICATION Spec
CONSTANTS
    Kinds = {"encoder", "decoder"}
    Dims = {320, 640}
    BadDims = {641}
    MaxWorks = 3
    MaxConfigs = 1
INVARIANTS
    TypeOK
    ReturnedExactlyOnce
    ResultMatchesOutput
PROPERTY EveryWorkReturns
CHECK_DEADLOCK FALSE
