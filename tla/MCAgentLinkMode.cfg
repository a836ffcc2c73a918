CONSTANTS
    Loops = {l1, l2}
    Callers = {hb}
    HB = hb
    EnableRESTFallback = TRUE
    MaxRetries = 0
    FailureThreshold = 2
    SuccessThreshold = 1
SPECIFICATION LinkSpec
PROPERTIES
    ModeReturns
