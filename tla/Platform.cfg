SPECIFICATION Spec
CONSTANTS
    Inputs <- TemplateInputs
    MaxLen = 5
    Segments <- PathSegments
    Tables <- RouteTables
    ParamLists <- DeclaredLists
    FilterLists <- BuilderFilters
    Width = 4
    DefaultLimit = 3
    MaxLimit = 5
    GatewayMax = 4
    Rows = 7
    TokenRequests = {t1, t2}
    Rotators = {a1}
    MaxGrants = 2
    MaxTokens = 3
    MaxSecrets = 2
    Replicas = {s1, s2}
    MaxKeys = 3
    GatewayAskers = {r1}
    EngineAskers = {e1}
    Entries <- AllowListEntries
    AllowLists <- FirstAllowLists
    RuleTables <- RateLimits
    Windows = 2
    MaxRate = 2
    MaxCount = 3
    MaxEdits = 1
    Copies = {c1, c2}
    Skew = 4
    Second = 2
    MaxAhead = 1
    MaxDrift = 1
    MaxDelay = 1
    MaxMoment = 14
    Logins = {l1, l2}
    Calls = {q1}
    MaxFailedLogin = 2
    MaxRecorded = 5
    Handlers = {h1, h2, h3, h4}
    Buffer = 2
    BatchSize = 2
    Runners = {b1, b2}
    Retention = 1
    MaxDay = 4
    APIs = {d1}
    NoAPI = none
    AdminCalls = {p1, p2}
    InitialStatuses = {"ABSENT", "REVIEW", "PUBLISHED", "DISABLED"}
    MaxVersion = 3
INVARIANTS ScansMatchReference PublishedPortableBinds LiteralRouteWins HoldersKeepValues PageIsServed OneLivePerGrant RotationCutsOff SignersPublished AdmittedOnGrounds QuotaHolds NonceOnce RevocationStops GuessesBounded EarlyRecordsSettled BackupSurvives PublishedOnApproval
PROPERTIES StatusOneWay
CHECK_DEADLOCK FALSE
