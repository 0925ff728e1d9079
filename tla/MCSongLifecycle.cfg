SPECIFICATION Spec
CONSTANTS
    w1 = w1
    w2 = w2
    NoWorker = NoWorker
    Workers <- MCWorkers
    MaxRetries = 2
    MaxEvents = 3
    MaxCrashes = 1
    MaxReverts = 1
    MaxLate = 1
SYMMETRY WorkerSymmetry
INVARIANTS
    OneLiveWorker
    NeverStranded
    AudioIsAskedOnce
PROPERTIES
    SavedAudioIsKept
    ImplementsStages
    MetadataIsMadeOnce
