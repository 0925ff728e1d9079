SPECIFICATION Spec
CONSTANTS
    s1 = s1
    s2 = s2
    Songs <- MCSongs
    BufferSize = 1
    TopUp = 1
    MaxMail = 1
    MaxCrashes = 1
    Modes <- MCModes
    RoomModes <- MCRoomModes
SYMMETRY SongSymmetry
CHECK_DEADLOCK FALSE
INVARIANTS
    BufferKept
    ClosingHasWork
    NoSongForgotten
PROPERTIES
    BufferBounded
    WatchedStaysOpen
    SongsAsPromised
