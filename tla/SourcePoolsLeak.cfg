SPECIFICATION Spec
CONSTANTS
    Requests = {r1, r2}
    Admins = {a1}
    MaxVersion = 2
    MaxSecret = 1
    MaxPools = 4
    TTL = 1
INVARIANTS OneLivePool
CHECK_DEADLOCK FALSE
