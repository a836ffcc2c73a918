CONSTANTS
    Commands = {c1, c2}
    Retries = {r1, r2}
    NoCommand = NoCommand
    Ids = {p1, p2}
    Transforms = {t1, t2}
    MaxRunners = 3
    Callers = {u1}
    Keys = {k1, k2}
    Values = {v1, v2}
    None = None
    LocalCacheMaxSize = 1
    Kids = {"a"}
    Data = {"d1", "d2"}
    Waiting <- MCWaiting
    Routed <- MCRouted
    MaxInc = 3
    MaxFailures = 2
    Capacity = 1
    Workers = 1
    QueueSize = 1
    Settings <- MCSettings
    MaxAged = 1
SPECIFICATION MCSpec
INVARIANTS NoCommandLost NoOrphan StatusesAgree CacheBound OneLiveIncarnation ChildNotLost
PROPERTIES ReadsRecent
CHECK_DEADLOCK FALSE
