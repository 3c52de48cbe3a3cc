SPECIFICATION Spec
CONSTANTS
    Threads = {t1, t2}
    MainThread = main
    MaxCreations = 4
INVARIANTS
    CallsAreSandboxed
    IdsDistinctUnlessLost
CHECK_DEADLOCK FALSE
