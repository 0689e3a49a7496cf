SPECIFICATION FairSpec

CONSTANTS
    Workers = {w1, w2}
    Books = {b1}
    NoWorker = NoWorker
    NoBook = NoBook
    Chapters = 2
    MaxAttempts = 2
    MaxRepairs = 1
    LeaseTicks = 1
    RetryTicks = 1
    MaxFaults = 2

INVARIANTS
    BookInv

PROPERTIES
    FinishedIsKept
    ImplementsDurableQueue
    OnlyLastAttemptIsLost
