SPECIFICATION Spec
CONSTANTS
    w1 = w1
    a1 = a1
    Workers = {w1}
    Apps = {a1}
    Failures = {}
    Leave = "stop"
    Rearm = "recv"
    Ended = "delSession"
    MaxConn = 2
    MaxCalls = 1
INVARIANTS DisconnectIsFinal
CHECK_DEADLOCK FALSE
