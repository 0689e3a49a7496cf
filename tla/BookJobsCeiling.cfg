SPECIFICATION FairSpec

CONSTANTS
    Workers = {w1, w2}
    Books = {b1}
    NoWorker = NoWorker
    NoBook = NoBook
    Chapters = 1
    MaxAttempts = 1
    MaxRepairs = 0
    LeaseTicks = 1
    RetryTicks = 1
    MaxFaults = 1

PROPERTIES
    EveryJobSettles
