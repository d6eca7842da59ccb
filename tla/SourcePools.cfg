SPECIFICATION FairSpec
CONSTANTS
    Requests = {r1, r2}
    Admins = {a1}
    MaxVersion = 2
    MaxSecret = 1
    MaxPools = 3
    TTL = 1
INVARIANTS RegisteredIsOpen ServesResolvedVersion PasswordFitsVersion OnePoolUntilEdited
PROPERTIES EditTakesEffect
CHECK_DEADLOCK FALSE
