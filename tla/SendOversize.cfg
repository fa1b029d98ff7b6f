SPECIFICATION Spec
CONSTANTS
    s1 = s1
    s2 = s2
    w = w
    a = a
    b = b
    None = None
    Senders <- MCSenders
    Worker = w
    Msg = {a, b}
    Size <- OversizeSize
    MaxSize = 4
    MaxAccepted = 5
INVARIANTS AppendTerminates
CHECK_DEADLOCK FALSE
