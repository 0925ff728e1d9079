CONSTANTS
    c1 = c1
    c2 = c2
    Calls <- MCCalls
    MaxTurns = 1
SPECIFICATION FairSpec
INVARIANTS
    PendingHasProcess
    AnswerIsOwn
    NoOrphan
PROPERTY
    EveryCallSettles
CHECK_DEADLOCK FALSE
