SPECIFICATION Spec
CONSTANTS
    Requests = {r1, r2}
    Size = 1
    GrpcConfigured = TRUE
INVARIANTS WritesRunOnce
