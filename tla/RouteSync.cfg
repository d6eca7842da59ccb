SPECIFICATION FairSpec
CONSTANTS
    APIs = {a1}
    InitialStatuses = {"ABSENT", "REVIEW", "PUBLISHED"}
    MaxVersion = 3
    MaxApprovals = 2
    MaxPolicy = 1
    MaxPending = 1
INVARIANTS RoutesWereReleased
PROPERTIES GatewayConverges
