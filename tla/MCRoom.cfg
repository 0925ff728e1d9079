SPECIFICATION Spec
CONSTANTS
    a = a
    b = b
    s1 = s1
    s2 = s2
    s3 = s3
    None = None
    Players <- MCPlayers
    Songs <- MCThreeSongs
    OrderIndex <- MCOrderIndex
    CreatedAt <- MCCreatedAt
    PromptEpoch <- MCPromptEpoch
    Interrupts <- MCInterrupts
    IdleBack = 1
    Commands = {"skip"}
    Syncing = FALSE
    HalfOpen = TRUE
    Prompt = TRUE
    MaxCommands = 1
    MaxDrops = 1
    MaxInFlight = 1
SYMMETRY PlayerSymmetry
INVARIANTS
    PlayedOnce
    LockedToRoom
    Debounced
PROPERTIES
    RightNext
CHECK_DEADLOCK FALSE
