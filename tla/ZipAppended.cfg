SPECIFICATION Spec
CONSTANTS
    Archives <- Appended
    FaultSets <- AllFaults
    Threads = {t1}
    Names = {"a", "b", "c"}
    Calls <- MCCalls
    Byte <- MCByte
    Max32 = 99
    W16 = 8
    TailSize = 12
    WholeStream = 3
    Garbage = Garbage
    NoStream = NoStream
    NoEntry = NoEntry
    NoCall = NoCall
    NoReply = NoReply
CHECK_DEADLOCK FALSE
INVARIANTS
    AppendedOpens
