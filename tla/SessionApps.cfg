SPECIFICATION Spec
CONSTANTS
    w1 = w1
    w2 = w2
    a1 = a1
    Workers = {w1, w2}
    Apps = {a1}
    Failures = {"open", "acceptex", "address", "initialize", "associate", "recv", "send", "reset"}
    Leave = "disconnect"
    Rearm = "recv"
    Ended = "delSession"
    Modes = {"acceptor", "jobs", "ws"}
    MaxJobs = 1
    MaxConn = 2
    MaxCalls = 1
SYMMETRY Interchangeable
INVARIANTS TypeOK RefsExact CallbacksAlternate EndIsExclusive OneOverlapped
CHECK_DEADLOCK FALSE
