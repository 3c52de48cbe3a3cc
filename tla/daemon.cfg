SPECIFICATION MCSpec
CONSTANTS
    Conns = {c1, c2}
    NoConn = NoConn
    Kinds = {"encode", "decode", "untagged", "truncated", "nofd"}
    MaxBits = 3
    MaxOut = 2
    SockBuf = 1
    Backlog = 0
    FdLimit = 1
    MaxStarts = 2
INVARIANTS
    TypeOK
    FdOwnership
    AnswersAreOwn
    AnswerNeedsWholeRequest
    SuccessIsComplete
    NoStandstill
    TaggedRequestsAnswered
    StopsOnlyByFailures
PROPERTIES OneResponse EveryCallReturns ImplementsService
CHECK_DEADLOCK FALSE
