CONSTANTS
    Songs <- MCSongs
    Playlists = {p}
    StartSongsFromEnd = 1
    MaxTimers = 2
SPECIFICATION Spec
INVARIANTS
    ConnectedIsJoined
    NobodyWaitsInVain
    LeftIsSilent
    RoomPlaysRoom
CHECK_DEADLOCK FALSE
