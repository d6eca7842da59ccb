SPECIFICATION FairSpec
CONSTANTS
    Requests = {r1, r2}
    Size = 1
    GrpcConfigured = TRUE
INVARIANTS CacheHoldsReads TokenAccounting OneLoadPerKey RepeatedOnlyIfUnanswered
PROPERTIES GatewayAnswers RefusalsEnd
