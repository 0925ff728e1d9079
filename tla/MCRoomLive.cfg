SPECIFICATION FairSpec
CONSTANTS
    a = a
    b = b
    s1 = s1
    s2 = s2
    s3 = s3
    None = None
    Players = {a}
    Songs <- MCTwoSongs
    OrderIndex <- MCOrderIndex
    CreatedAt <- MCCreatedAt
    PromptEpoch <- MCPromptEpoch
    Interrupts <- MCInterrupts
    IdleBack = 1
    Commands = {"play", "skip", "select"}
    Syncing = TRUE
    HalfOpen = FALSE
    Prompt = TRUE
    MaxCommands = 1
    MaxDrops = 1
    MaxInFlight = 1
INVARIANTS
    ViewIsCurrent
PROPERTIES
    EverySongGetsItsTurn
CHECK_DEADLOCK FALSE
