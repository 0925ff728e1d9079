CONSTANTS
    Playlists = {p1}
    MaxChanges = 2
SPECIFICATION FairSpec
INVARIANTS
    OthersChangesShow
    OwnChangesShow
PROPERTY
    PolledCatchesUp
