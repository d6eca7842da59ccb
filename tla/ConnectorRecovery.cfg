SPECIFICATION FairSpec
CONSTANTS
    Requests = {r1, r2}
    GrpcRequests = {}
    Conn = conn
    Limits = {1}
    QueueSize = 1
    HasTimeout = TRUE
    MaxRequests = 1
    Interval = 2
    Timeout = 2
    FailureThreshold = 2
    RatioNum = 1
    RatioDen = 2
    Skew = 0
    MaxCalls = 2

PROPERTIES Recovers
