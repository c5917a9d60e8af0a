SPECIFICATION FairSpec
CONSTANTS
    Threads = {t1, t2, t3}
    Invalidators = {}
    Keys = {k1, k2}
    Nodes = {n1, n2}
    MaxSize = 2
    MaxDepth = 1
    LoaderResults <- MCLoaderResults
    EndNode = EndNode
    NoThread = NoThread
    NoKey = NoKey
    NoValue = NoValue
    Garbage = Garbage
    Failed = Failed
INVARIANTS
    CallerSeesEntry
    NoDoubleLoad
PROPERTIES
    SomeGetCompletes
