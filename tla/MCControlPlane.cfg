CONSTANTS
    h1 = h1
    h2 = h2
    d1 = d1
    d2 = d2
    p1 = p1
    p2 = p2
    u1 = u1
    u2 = u2
    k1 = k1
    k2 = k2
    Requests = {"r1", "r2"}
    Callbacks = {"c1", "c2"}
    SinkRequests = {"r1", "r2"}
    RetryCount = 1
    TypeIds = {d1, d2}
    TypeHandlers = {h1, h2}
    MaxDepth = 2
    MaxPreworks = 1
    ProjectIds = {p1, p2}
    ProjectKeys = {k1, k2}
    Users = {u1, u2}
    OwnerLists <- MCOwnerLists
    Caller = u1
    ProjectHandlers = {h1, h2}
    Sources <- MCSources
    Transforms <- MCTransforms
    Sinks <- MCSinks
    EdgeRequests <- MCEdgeRequests
    YamlConfigs <- MCYamlConfigs
    GraphHandlers = {h1, h2}
    PipelineIds = {1, 2, 3}
    Shapes <- MCShapes
    Clean <- Cleaned
    LinkHandlers = {"h"}
    Numbers = {0, 1, 2}
    MaxNesting = 3
    Roots <- MCRoots
SPECIFICATION MCSpec
SYMMETRY Symmetry
INVARIANTS PendingTracked ClosedHasResult CreatedWhole OneOwner  LinksWereCreated 
CHECK_DEADLOCK FALSE
