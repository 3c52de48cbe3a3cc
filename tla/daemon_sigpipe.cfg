INIT Init
NEXT Next
CONSTANTS
    Conns = {c1}
    NoConn = NoConn
    Kinds = {"encode"}
    MaxBits = 1
    MaxOut = 1
    SockBuf = 1
    Backlog = 0
    FdLimit = 1
    MaxStarts = 1
INVARIANT DaemonPersists
CHECK_DEADLOCK FALSE
