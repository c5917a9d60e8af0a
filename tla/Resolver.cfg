SPECIFICATION FairSpec
CONSTANTS
    Threads = {t1, t2}
    f1 = f1
    f2 = f2
    f3 = f3
    r1 = r1
    r2 = r2
    Files = {f1, f2, f3}
    Resources = {r1, r2}
    Content <- MCContent
    NoFile = NoFile
    NoId = NoId
    NoThread = NoThread
    NoReply = NoReply
INVARIANTS
    TypeOK
    OpensWhatWasAsked
    FindsWhatStays
PROPERTIES
    LockIsReleased
