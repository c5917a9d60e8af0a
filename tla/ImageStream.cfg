SPECIFICATION FairSpec
CONSTANTS
    Threads = {t1, t2}
    Calls <- MCCalls
    W = 16
    StreamLength = 7
    ChunkSize = 2
    ChunksInSegment = 2
    Stored <- MCStored
    Start = 1
    ChunkCacheSize = 3
    BevvyCacheSize = 1
    Workloads <- MCWorkloads
    Garbage = Garbage
    NoThread = NoThread
    NoCall = NoCall
    NoReply = NoReply
    Dangling = Dangling
INVARIANTS
    TypeOK
    CachedIsRight
    AllOrError
    LoadsExclude
PROPERTIES
    IsByteStream
    ReadsEnd
