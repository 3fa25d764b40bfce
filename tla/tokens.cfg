SPECIFICATION FairSpec
CONSTANTS
    None = None
    u1 = u1
    u2 = u2
    Users <- MCUsers
    Period = 2
    Wait = 1
    Life <- MCLife
    Zone = 1
    Misses = 1
    Outages <- MCOutages
    ChunkSize = 4
    Entry = 2
    OldFiles <- MCOldFiles
INVARIANTS
    TypeOK
    CacheArrives
    FreshTokens
PROPERTIES
    StartsUp
CHECK_DEADLOCK FALSE
