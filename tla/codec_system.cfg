SPECIFICATION MCSpec
CONSTANTS
    w1 = w1
    w2 = w2
    r = r
    Conns <- MCConns
    NoConn = NoConn
    Kinds = {"encode", "decode", "truncated"}
    MaxBits = 1
    MaxOut = 1
    SockBuf = 1
    Backlog = 0
    FdLimit = 1
    MaxStarts = 2
    Components = {"encoder", "decoder"}
    Dims = {320}
    BadDims = {}
    MaxWorks = 2
    MaxConfigs = 1
    ConnOf <- MCConnOf
    RivalKinds = {"decode"}
    Ins = {"frame"}
    Flags = {FALSE}
INVARIANT WorksGetOwnAnswer
PROPERTY ImplementsComponent
CHECK_DEADLOCK FALSE
