\* A retry limit: reconnectLoop may give up.
CONSTANTS
    Loops = {l1}
    Callers = {}
    MaxRetries = 1
    FailureThreshold = 1
    SuccessThreshold = 1
    Channels = {ch1}
    Subs = {s1, s2}
    NoSub = NoSub
SPECIFICATION SubSpec
INVARIANTS
    NoLeakedPubSub
PROPERTIES
    AutoResubscribe
    CloseStopsListeners
