SPECIFICATION FairSpec
CONSTANTS
    w1 = w1
    w2 = w2
    a1 = a1
    Workers = {w1, w2}
    Apps = {a1}
    Failures = {}
    Leave = "disconnect"
    Rearm = "recv"
    Ended = "delSession"
    Modes = {"acceptor"}
    MaxJobs = 1
    MaxConn = 1
    MaxCalls = 1
PROPERTIES DisconnectCompletes
CHECK_DEADLOCK FALSE
