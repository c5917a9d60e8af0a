SPECIFICATION FairSpec
CONSTANTS
    W = 16
    Unit = 4
    Letters = 3
    MaxRequest = 16
    MaxPointOffset = 3
    MaxPointLength = 3
    MaxID = 2
    Threads = {t1}
    ImageSize = 3
    Inputs <- MCInputs
    ReadInputs <- MCReadInputs
    Calls <- MCCalls
    NoCall = NoCall
    NoReply = NoReply
    Unwritten = Unwritten
INVARIANTS
    ReadTypeOK
    MapIsTiled
    UnaliasedLookup
    SparseHasNoData
    AllOrError
PROPERTIES
    IsByteStream
    ReadsEnd
CHECK_DEADLOCK FALSE
