SPECIFICATION FairSpec

CONSTANTS
    Workers = {w1, w2}
    Audio = {a1}
    Artifacts = {b1}
    NoWorker = NoWorker
    NoObject = NoObject
    MaxAttempts = 2
    LeaseTicks = 1
    RetryTicks = 1
    CommitsKnown = TRUE
    MaxFaults = 3

INVARIANTS
    CleanupInv

PROPERTIES
    
    EveryErasureSettles
    ImplementsDurableQueue
