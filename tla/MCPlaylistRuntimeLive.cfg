SPECIFICATION FairSpec
CONSTANTS
    s1 = s1
    s2 = s2
    Songs <- MCOneSong
    BufferSize = 1
    TopUp = 1
    MaxMail = 1
    MaxCrashes = 1
    Modes <- MCModes
    RoomModes <- MCModes
CHECK_DEADLOCK FALSE
PROPERTIES
    AbandonedIsClosed
