SPECIFICATION Spec
CONSTANTS
    QueueCount = 2   Delays = {0}   Across = TRUE   MaxJobs = 3   MaxNow = 0
PROPERTY JobsRun
CHECK_DEADLOCK FALSE
