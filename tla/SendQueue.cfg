SPECIFICATION FairSpec
CONSTANTS
    s1 = s1
    s2 = s2
    w = w
    a = a
    b = b
    None = None
    Senders <- MCSenders
    Worker = w
    Msg = {a, b}
    Size <- MCSize
    MaxSize = 4
    MaxAccepted = 5
INVARIANTS TypeOK OneDriver NoStall RingInv
PROPERTIES BufferStable ImplementsStream Delivered
CHECK_DEADLOCK FALSE
