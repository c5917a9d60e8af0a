SPECIFICATION Spec
CONSTANTS
    Threads = {t1, t2}
    Invalidators = {}
    Keys = {k1, k2}
    Nodes = {n1, n2}
    MaxSize = 1
    MaxDepth = 1
    LoaderResults <- MCLoaderResults
    EndNode = EndNode
    NoThread = NoThread
    NoKey = NoKey
    NoValue = NoValue
    Garbage = Garbage
    Failed = Failed
INVARIANT CallerSeesEntry
