SPECIFICATION FairSpec
CONSTANTS
    r1 = r1
    r2 = r2
    s1 = s1
    p1 = p1
    p2 = p2
    None = None
    Requests <- MCRequests
    Resumed = {}
    Songs <- MCSongs
    SongOf <- MCSongOf
    Priorities <- MCPriorities
    Polls <- MCPolls
PROPERTIES
    ServesUntilConfused
    SuccessIsOwn
    AnsweredUnlessConfused
