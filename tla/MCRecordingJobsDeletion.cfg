SPECIFICATION Spec

CONSTANTS
    Workers = {w1}
    Recordings = {r1}
    NoWorker = NoWorker
    NoRecording = NoRecording
    LeaseTicks = 1
    RetryTicks = 1
    MaxFaults = 1
    RequiresRegisteredWorker = TRUE

PROPERTIES
    DeletionNeverKillsWorker
