SPECIFICATION Spec
CONSTANTS
    Threads = {t1, t2}
    Invalidators = {t2}
    Keys = {k1, k2, k3}
    Nodes = {n1, n2, n3}
    MaxSize = 2
    MaxDepth = 2
    LoaderResults <- MCLoaderResults
    EndNode = EndNode
    NoThread = NoThread
    NoKey = NoKey
    NoValue = NoValue
    Garbage = Garbage
    Failed = Failed
INVARIANTS
    TypeOK
    ListMapAgree
    SizeBounded
    LoaderUnderLock
PROPERTIES
    GetReturnsEntry
    IsLRU
