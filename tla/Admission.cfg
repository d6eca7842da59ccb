SPECIFICATION FairSpec
CONSTANTS
    Requests = {r1, r2, r3}
    Keys = {k1}
    Limits = {0, 2}
    QueueSize = 1
    HasTimeout = TRUE
INVARIANTS SlotAccounting NeverOversubscribed NoLostWakeup
PROPERTIES AcquireReturns
