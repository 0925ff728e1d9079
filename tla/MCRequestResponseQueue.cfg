SPECIFICATION FairSpec
CONSTANTS
    r1 = r1
    r2 = r2
    r3 = r3
    r4 = r4
    s1 = s1
    s2 = s2
    s3 = s3
    NoRequest = NoRequest
    Requests <- MCRequests
    Songs <- MCSongs
    SongOf <- MCSongOf
    Priorities <- MCPriorities
    Limits <- MCLimits
    MaxClock = 1
INVARIANTS
    NoLostRequest
    MapIsExact
PROPERTIES
    ImplementsService
    EveryRequestSettles
