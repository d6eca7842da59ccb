SPECIFICATION FairSpec
CONSTANTS
    Requests = {r1, r2}
    GrpcRequests = {r1}
    Conn = conn
    Limits = {1}
    QueueSize = 1
    HasTimeout = TRUE
    MaxRequests = 1
    Interval = 2
    Timeout = 2
    FailureThreshold = 2
    RatioNum = 0
    RatioDen = 1
    Skew = 1
    MaxCalls = 2
INVARIANTS ProbeAccounting ClosedBelowThreshold
PROPERTIES OpenShieldsSource TripsOnRecentFailures RecoversUnlessProbeLost
