SPECIFICATION Spec
CONSTANTS
    BufferSize = 11   PacketWord = 32   PacketHeader = 1   Prefix = 3   PacketMax = 12   MaxItems = 4   Items <- MCItems
    Medium = 3   Long = 4   Ext2 = 1   Ext8 = 2   Key = 1   Word = 16   Limit = 60
    MaxSize = 9   Frames <- MCFrames   MaxFrames = 2
    Writers = {1, 2}   LogThread = 3   FillCount = 2   MaxNodes = 6   MaxAllocs = 3
    QueueCount = 1   Delays = {0, 1}   MaxJobs = 3   MaxNow = 2
    States = {1, 2, 3}   MaxCalls = 2
    Ring = 2   MaxCount = 2
    Letters = {"a", "b", "c"}   MaxLetters = 4   Words <- MCWords
    MaxThreads = 3   MaxWait = 2   MaxSessions = 1   MaxPosts = 2
INVARIANTS PacketSized ReadBack FramesInOrder NodeOwnedOnce LogInOrder JobsInTurn
INVARIANTS StatesPaired ParamsBound WordsFound
PROPERTIES JobsRun ThreadStops WorkersGone
CHECK_DEADLOCK FALSE
