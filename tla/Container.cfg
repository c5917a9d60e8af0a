SPECIFICATION Spec
CHECK_DEADLOCK FALSE
CONSTANTS
    Threads = {t1, t2}
    own = own
    next = next
    third = third
    damaged = damaged
    disk = disk
    whole = whole
    broken = broken
    empty = empty
    layout = layout
    none = none
    local = local
    indexed = indexed
    far = far
    farther = farther
    lost = lost
    nested = nested
    segment = segment
    stray = stray
    unknown = unknown
    NoResource = NoResource
    Own = own
    UnknownData = unknown
    Symbolic = {unknown}
    Truncated = {damaged}
    Resources <- MCResources
    Movable = {next, third}
    Volumes <- MCVolumes
    Types <- MCTypes
    Stored <- MCStored
    Indexed <- MCIndexed
    Segments <- MCSegments
    DataStream <- MCDataStream
    Idx <- MCIdx
    Size <- MCSize
INVARIANTS
    TypeOK
    ExternalsKept
PROPERTIES
    FindsItsStreams
