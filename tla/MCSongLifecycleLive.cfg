SPECIFICATION FairSpec
CONSTANTS
    w1 = w1
    w2 = w2
    NoWorker = NoWorker
    Workers <- MCWorkers
    MaxRetries = 1
    MaxEvents = 3
    MaxCrashes = 1
    MaxReverts = 0
    MaxLate = 0
PROPERTIES
    Settles
