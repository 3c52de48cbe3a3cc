SPECIFICATION Spec
CONSTANTS
    Kinds = {"decoder"}
    Dims = {320, 640}
    BadDims = {}
    MaxWorks = 1
    MaxConfigs = 0
INVARIANT ReportsStreamSize
CHECK_DEADLOCK FALSE
