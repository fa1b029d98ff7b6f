SPECIFICATION FairSpec
CONSTANTS
    w1 = w1
    w2 = w2
    a1 = a1
    Workers = {w1, w2}
    Apps = {a1}
    Failures = {"recv"}
    Leave = "disconnect"
    Rearm = "recv"
    Ended = "delSession"
    Modes = {"acceptor", "jobs", "ws"}
    MaxJobs = 1
    MaxConn = 2
    MaxCalls = 0
INVARIANTS SlotKept
PROPERTIES DisconnectCompletes Reaccepts
CHECK_DEADLOCK FALSE
