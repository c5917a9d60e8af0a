SPECIFICATION Spec
CONSTANTS
    Threads = {t1}
    Calls <- MCCalls
    W = 16
    StreamLength = 7
    ChunkSize = 2
    ChunksInSegment = 2
    Stored <- MCStored
    Start = 1
    ChunkCacheSize = 3
    BevvyCacheSize = 1
    Workloads <- FailingFile
    Garbage = Garbage
    NoThread = NoThread
    NoCall = NoCall
    NoReply = NoReply
    Dangling = Dangling
INVARIANT ReportedIsRead
