SPECIFICATION FairSpec
CONSTANTS
    Threads = {t1, t2}
    split = split
    whole = whole
    second = second
    Files <- MCFiles
    Kinds <- MCKinds
    Parts <- MCParts
    Descriptors = {d1, d2, d3}
    Images = {i1, i2, i3}
    MaxHandle = 3
    NoFile = NoFile
    NoImage = NoImage
    NoThread = NoThread
    NoReply = NoReply
    Failed = Failed
    Nothing = Nothing
INVARIANTS
    TypeOK
    DescriptorsAreOurs
PROPERTIES
    IsHandleTable
    ClosedIsFreed
