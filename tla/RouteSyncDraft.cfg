SPECIFICATION FairSpec
CONSTANTS
    APIs = {a1}
    InitialStatuses = {"REVIEW"}
    MaxVersion = 2
    MaxApprovals = 1
    MaxPolicy = 0
    MaxPending = 1
PROPERTY DraftKeepsRevisionLive
