SPECIFICATION Spec
CONSTANTS
    W = 16
    Unit = 4
    Letters = 3
    MaxRequest = 16
    MaxPointOffset = 3
    MaxPointLength = 3
    MaxID = 2
    Threads = {t1}
    ImageSize = 3
    Inputs <- MCReadInputs
    ReadInputs <- MCReadInputs
    Calls <- MCCalls
    NoCall = NoCall
    NoReply = NoReply
    Unwritten = Unwritten
INVARIANTS
    ReportedIsWritten
