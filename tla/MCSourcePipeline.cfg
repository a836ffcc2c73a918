CONSTANTS
    Size <- MCSize
    ChanCap = 1
    Ops <- MCOps
    Batch = 2
    MaxPages = 2
    EventCap = 1
    MaxRestarts = 1
    Records = {"r1", "r2", "r3"}
    Bad = {"r3"}
    MaxEvents = 2
SPECIFICATION MCSpec
INVARIANTS  WrittenOnce 
PROPERTIES UpdateFollowsCreate ReaderTerminates AppendedIsWritten
CHECK_DEADLOCK FALSE
