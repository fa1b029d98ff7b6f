SPECIFICATION FairSpec
CONSTANTS
    w1 = w1
    a1 = a1
    Workers = {w1}
    Apps = {a1}
    Failures = {"open", "connect", "recv", "send"}
    Leave = "stop"
    Rearm = "recv"
    Ended = "delSession"
    MaxConn = 2
    MaxCalls = 1
INVARIANTS AttemptAlone ChainKept
PROPERTIES Reconnects
CHECK_DEADLOCK FALSE
