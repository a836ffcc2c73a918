CONSTANTS
    Loops = {l1, l2}
    Callers = {hb}
    HB = hb
    EnableRESTFallback = TRUE
    MaxRetries = 0
    FailureThreshold = 2
    SuccessThreshold = 2
SPECIFICATION LinkSpec
INVARIANTS
    SingleFlight
    NeverStranded
    CircuitConsistent
PROPERTIES
    RefinesRecovery
    HealthyAgain
    LeavesFallback
    HeartbeatsResume
