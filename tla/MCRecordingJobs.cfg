SPECIFICATION FairSpec

CONSTANTS
    Workers = {w1, w2}
    Recordings = {r1, r2}
    NoWorker = NoWorker
    NoRecording = NoRecording
    LeaseTicks = 1
    RetryTicks = 1
    MaxFaults = 2
    RequiresRegisteredWorker = TRUE


    

PROPERTIES
    OrderlySteps
    ImplementsDurableQueue
    EveryJobSettles
