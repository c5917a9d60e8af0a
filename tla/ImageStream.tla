---------------------------- MODULE ImageStream ----------------------------
(***************************************************************************)
(* An aff4:ImageStream (stream/ImageStream.cc): a stream cut into chunks   *)
(* of chunkSize bytes, chunksInSegment of them to a bevvy.  read() takes   *)
(* chunk after chunk from the chunk cache; the cache's loader              *)
(* (ChunkLoader.cc) looks the chunk up in its bevvy's index, which comes   *)
(* from a second cache (BevvyIndex.cc), reads the stored bytes from the    *)
(* container file and decompresses them.                                   *)
(*                                                                         *)
(* The caches are the LRU caches of module LRUOrder, which LRUCache        *)
(* implements.  A byte of the stream is its offset; a byte nobody put      *)
(* there is Garbage.  Of a chunk the model keeps how many of its leading   *)
(* bytes are right: a chunk is read front to back.                         *)
(***************************************************************************)
EXTENDS Integers, Sequences, FiniteSets, SequencesExt

CONSTANTS
    Threads,
    Calls,            \* the [offset, count] a thread may ask read() for
    W,                \* uint64_t arithmetic is modulo W
    StreamLength,     \* aff4:size of the stream
    ChunkSize, ChunksInSegment,
    Stored,           \* Stored[c]: the length the index gives for chunk c
    Start,            \* where the stored bytes of a chunk begin in the file
    ChunkCacheSize, BevvyCacheSize,
    Workloads,        \* who reads what from which file, see WorkloadType
    Garbage, NoThread, NoCall, NoReply, Dangling

ASSUME SizesAssumption ==
    /\ {W, ChunkSize, ChunksInSegment, ChunkCacheSize, BevvyCacheSize} \subseteq Nat \ {0}
    /\ StreamLength \in 0 .. W - 1
    /\ Start \in Nat
    /\ DOMAIN Stored \subseteq Nat
    /\ \A c \in DOMAIN Stored : Stored[c] \in Nat
ASSUME CallsAssumption == Calls \subseteq [offset : 0 .. W - 1, count : 0 .. W - 1]
ASSUME SentinelsAssumption == NoThread \notin Threads /\ NoReply \notin Int
ASSUME NoCallAssumption == NoCall \notin [offset : 0 .. W - 1, count : 0 .. W - 1, late : BOOLEAN]
ASSUME NoReplyAssumption == NoReply \notin [n : Nat \cup {-1}, bytes : Seq(Nat \cup {Garbage})]

\* A file read fails or ends early, a codec rejects a chunk, an index is not read.
Fault == {"error", "eof", "codec", "index"}
WorkloadType == [readers : SUBSET Threads, calls : SUBSET Calls, faults : SUBSET Fault]
ASSUME WorkloadsAssumption == Workloads \subseteq WorkloadType

VARIABLES
    workload,    \* the threads, their requests, and what goes wrong
    closed, length,
    chunkCache, bevvyCache,
    chunkLock,   \* the thread running the chunk cache's loader
    pc, call,
    next,        \* offset, while the loop of read() runs
    left,        \* leftToRead
    file,        \* the loader's progress: index read, stored length, position, bytes right
    entry,       \* the cache entry get() returned a reference to
    buf, result

vars == <<workload, closed, length, chunkCache, bevvyCache, chunkLock, pc, call, next, left,
          file, entry, buf, result>>

faults == workload.faults
cacheVars == <<chunkCache, bevvyCache, chunkLock>>

Chunks == INSTANCE LRUOrder WITH
    entries <- chunkCache, Keys <- Nat, MaxSize <- ChunkCacheSize, LoaderResults <- <<>>
Bevvies == INSTANCE LRUOrder WITH
    entries <- bevvyCache, Keys <- Nat, MaxSize <- BevvyCacheSize, LoaderResults <- <<>>

\* (nullptr, 0), and a chunk the first n bytes of which are right.
FailedChunk == [size |-> 0, right |-> 0]
Chunk(n) == [size |-> ChunkSize, right |-> n]
ChunkValue == [size : {0, ChunkSize}, right : 0 .. ChunkSize]
ASSUME DanglingAssumption == Dangling \notin ChunkValue

TypeOK ==
    /\ workload \in Workloads
    /\ closed \in BOOLEAN
    /\ length \in 0 .. W - 1
    /\ chunkCache \in Seq([key : Nat, value : ChunkValue])
    /\ bevvyCache \in Seq([key : Nat, value : {"points", "garbage"}])
    /\ chunkLock \in Threads \cup {NoThread}
    /\ pc \in [Threads -> {"idle", "called", "loop", "index", "file", "copy"}]
    /\ call \in [Threads -> [offset : Nat, count : Nat, late : BOOLEAN] \cup {NoCall}]
    /\ next \in [Threads -> 0 .. W - 1]
    /\ left \in [Threads -> 0 .. W - 1]
    /\ file \in [Threads -> [index : {"points", "garbage"}, len : Nat, pos : Int, right : Nat]]
    /\ entry \in [Threads -> [key : Nat, value : ChunkValue \cup {Dangling}]]
    /\ buf \in [Threads -> Seq(Nat \cup {Garbage})]
    /\ result \in [Threads -> Nat \cup {-1, NoReply}]

NoEntry == [key |-> 0, value |-> Dangling]
NoFile == [index |-> "points", len |-> 0, pos |-> 0, right |-> 0]

(* The constructor: a stream whose codec is unknown is empty and closed.   *)
Init ==
    /\ workload \in Workloads
    /\ closed \in BOOLEAN
    /\ length = IF closed THEN 0 ELSE StreamLength
    /\ chunkCache = <<>> /\ bevvyCache = <<>>
    /\ chunkLock = NoThread
    /\ pc = [t \in Threads |-> "idle"]
    /\ call = [t \in Threads |-> NoCall]
    /\ next = [t \in Threads |-> 0]
    /\ left = [t \in Threads |-> 0]
    /\ file = [t \in Threads |-> NoFile]
    /\ entry = [t \in Threads |-> NoEntry]
    /\ buf = [t \in Threads |-> <<>>]
    /\ result = [t \in Threads |-> NoReply]

-----------------------------------------------------------------------------
(* read(buf, count, offset)                                                *)

Call(t, c) ==
    /\ t \in workload.readers
    /\ c \in workload.calls
    /\ pc[t] = "idle"
    /\ pc' = [pc EXCEPT ![t] = "called"]
    /\ call' = [call EXCEPT ![t] = [offset |-> c.offset, count |-> c.count, late |-> closed]]
    /\ buf' = [buf EXCEPT ![t] = <<>>]
    /\ result' = [result EXCEPT ![t] = NoReply]
    /\ UNCHANGED <<workload, closed, length, cacheVars, next, left, file, entry>>

Return(t, n) ==
    /\ pc' = [pc EXCEPT ![t] = "idle"]
    /\ result' = [result EXCEPT ![t] = n]

Refuse(t) ==
    /\ pc[t] = "called"
    /\ closed \/ call[t].offset > length
    /\ Return(t, IF closed THEN -1 ELSE 0)
    /\ UNCHANGED <<workload, closed, length, cacheVars, call, next, left, file, entry, buf>>

Truncated(o, c) ==
    LET sum == (o + c) % W
    IN  IF sum > length THEN (c - (sum - length)) % W ELSE c

Enter(t) ==
    /\ pc[t] = "called"
    /\ ~closed
    /\ call[t].offset <= length
    /\ pc' = [pc EXCEPT ![t] = "loop"]
    /\ next' = [next EXCEPT ![t] = call[t].offset]
    /\ left' = [left EXCEPT ![t] = Truncated(call[t].offset, call[t].count)]
    /\ UNCHANGED <<workload, closed, length, cacheVars, call, file, entry, buf, result>>

ChunkOf(o) == o \div ChunkSize
BevvyOf(c) == c \div ChunksInSegment

ChunkHitFront(t) ==
    /\ pc[t] = "loop" /\ left[t] > 0 /\ chunkLock = NoThread
    /\ ChunkOf(next[t]) \in Chunks!KeysOf(chunkCache)
    /\ chunkCache' = Chunks!Refreshed(chunkCache, ChunkOf(next[t]))
    /\ entry' = [entry EXCEPT ![t] = chunkCache[1]]
    /\ pc' = [pc EXCEPT ![t] = "copy"]
    /\ UNCHANGED <<workload, closed, length, bevvyCache, chunkLock, call, next, left, file, buf, result>>

ChunkHit(t) ==
    LET c == ChunkOf(next[t])
    IN  /\ pc[t] = "loop" /\ left[t] > 0
        /\ chunkLock = NoThread
        /\ c \in Chunks!KeysOf(chunkCache)
        /\ chunkCache' = Chunks!Refreshed(chunkCache, c)
        /\ entry' = [entry EXCEPT ![t] = chunkCache'[1]]
        /\ pc' = [pc EXCEPT ![t] = "copy"]
        /\ UNCHANGED <<workload, closed, length, bevvyCache, chunkLock, call, next, left, file, buf, result>>

ChunkMissUnlocked(t) ==
    /\ pc[t] = "loop" /\ left[t] > 0 /\ chunkLock = NoThread
    /\ ChunkOf(next[t]) \notin Chunks!KeysOf(chunkCache)
    /\ pc' = [pc EXCEPT ![t] = "index"]
    /\ UNCHANGED <<workload, closed, length, cacheVars, call, next, left, file, entry, buf, result>>

ChunkMiss(t) ==
    /\ pc[t] = "loop" /\ left[t] > 0
    /\ chunkLock = NoThread
    /\ ChunkOf(next[t]) \notin Chunks!KeysOf(chunkCache)
    /\ chunkLock' = t
    /\ pc' = [pc EXCEPT ![t] = "index"]
    /\ UNCHANGED <<workload, closed, length, chunkCache, bevvyCache, call, next, left, file, entry, buf, result>>

-----------------------------------------------------------------------------
(* ChunkLoader::load, under the chunk cache's mutex.                       *)

(* put() the loaded chunk and give the mutex back.  A reference another    *)
(* thread has to the entry that is evicted dangles from now on.            *)
Deliver(t, v) ==
    LET c == ChunkOf(next[t])
    IN  /\ chunkCache' = Chunks!Loaded(chunkCache, c, v)
        /\ entry' = [u \in Threads |->
               IF u = t THEN [key |-> c, value |-> v]
               ELSE IF pc[u] = "copy" /\ entry[u].key \notin Chunks!KeysOf(chunkCache')
               THEN [entry[u] EXCEPT !.value = Dangling] ELSE entry[u]]
        /\ chunkLock' = NoThread
        /\ pc' = [pc EXCEPT ![t] = "copy"]

(* BevvyIndex: the result of reading the index is not looked at.           *)
IndexRead == {"points"} \cup (IF "index" \in faults THEN {"garbage"} ELSE {})

(* The lengths getPoint() may give for chunk c: none beyond the points of  *)
(* the index, nor for a bevvy that has no index.                           *)
PointLengths(c, index) ==
    IF c \notin DOMAIN Stored THEN {0}
    ELSE IF index = "garbage" THEN 0 .. ChunkSize ELSE {Stored[c]}

LoadIndex(t) ==
    LET c == ChunkOf(next[t])
        b == BevvyOf(c)
        cached == b \in Bevvies!KeysOf(bevvyCache)
    IN  /\ pc[t] = "index"
        /\ IF cached
           THEN bevvyCache' = Bevvies!Refreshed(bevvyCache, b)
           ELSE \E points \in IndexRead : bevvyCache' = Bevvies!Loaded(bevvyCache, b, points)
        /\ LET index == bevvyCache'[1].value
           IN  \E len \in PointLengths(c, index) :
                 IF len = 0
                 THEN Deliver(t, FailedChunk) /\ UNCHANGED file
                 ELSE /\ file' = [file EXCEPT ![t] = [index |-> index, len |-> len, pos |-> 0, right |-> 0]]
                      /\ pc' = [pc EXCEPT ![t] = "file"]
                      /\ UNCHANGED <<chunkCache, chunkLock, entry>>
        /\ UNCHANGED <<workload, closed, length, call, next, left, buf, result>>

(* The results of fileRead at the loader's position.  An offset before the *)
(* start of the file is one far beyond its end; the offset a garbage index *)
(* gives may be anywhere.                                                  *)
FileRead(f) ==
    IF f.index = "garbage" THEN 0 .. f.len - f.pos
    ELSE IF Start + f.pos < 0 THEN {0}
    ELSE 1 .. f.len - f.pos
         \cup (IF "error" \in faults THEN {-1} ELSE {}) \cup (IF "eof" \in faults THEN {0} ELSE {})

Larger(a, b) == IF a < b THEN b ELSE a

AdvancedToEnd(f, res) == [f EXCEPT !.pos = f.len, !.right = Larger(@, f.pos + res)]

(* One turn of the loop: res is unsigned, so that a failure moves the      *)
(* position, in the file and in the buffer alike, one byte back.           *)
Advanced(f, res) == [f EXCEPT !.pos = @ + res, !.right = Larger(@, f.pos + res)]

(* What the loader makes of the bytes it has.  A chunk stored in ChunkSize *)
(* bytes is not compressed; the result of decompress() is not looked at.   *)
(* Bytes found through a garbage index are not the chunk's.                *)
Decoded(f) ==
    IF f.index = "garbage" THEN {Chunk(0)}
    ELSE IF f.len = ChunkSize THEN {Chunk(f.right)}
    ELSE {Chunk(IF f.right = f.len THEN ChunkSize ELSE 0)}
         \cup (IF "codec" \in faults THEN {Chunk(0)} ELSE {})

ReadFile(t) ==
    /\ pc[t] = "file"
    /\ file[t].pos < file[t].len
    /\ \E res \in FileRead(file[t]) :
         /\ res # 0
         /\ file' = [file EXCEPT ![t] = Advanced(@, res)]
    /\ UNCHANGED <<workload, closed, length, cacheVars, pc, call, next, left, entry, buf, result>>

(* The loop ends with all bytes, or with fewer when fileRead gives 0.      *)
Load(t) ==
    /\ pc[t] = "file"
    /\ file[t].pos = file[t].len \/ 0 \in FileRead(file[t])
    /\ \E v \in Decoded(file[t]) : Deliver(t, v)
    /\ file' = [file EXCEPT ![t] = NoFile]
    /\ UNCHANGED <<workload, closed, length, bevvyCache, call, next, left, buf, result>>

-----------------------------------------------------------------------------
(* The rest of read()'s loop.                                              *)

\* n bytes of chunk c, whose value is v, from delta on.
Copied(c, v, delta, n) ==
    [i \in 1 .. n |-> IF delta + i - 1 < v.right THEN c * ChunkSize + delta + i - 1 ELSE Garbage]

NeverFailed(v) == FALSE

\* entry.second == 0
IsFailed(v) == v.size = 0

PartialCount(t) == Len(buf[t])

\* What a read returns that meets a failed chunk, also after good ones.
FailureResult(t) == -1

CopyRest(t, v) == (v.size - (next[t] % ChunkSize)) % W

CopyLength(t, v) ==
    LET rest == (v.size - (next[t] % ChunkSize)) % W
    IN  IF left[t] < rest THEN left[t] ELSE rest

(* The entry is copied after get() released the mutex: through a dangling  *)
(* reference it is anything.                                               *)
Copy(t) ==
    /\ pc[t] = "copy"
    /\ \E v \in IF entry[t].value = Dangling THEN {FailedChunk, Chunk(0)} ELSE {entry[t].value} :
         IF IsFailed(v)
         THEN Return(t, FailureResult(t)) /\ UNCHANGED <<next, left, buf>>
         ELSE LET n == CopyLength(t, v)
              IN  /\ buf' = [buf EXCEPT ![t] = @ \o Copied(entry[t].key, v, next[t] % ChunkSize, n)]
                  /\ next' = [next EXCEPT ![t] = (@ + n) % W]
                  /\ left' = [left EXCEPT ![t] = @ - n]
                  /\ pc' = [pc EXCEPT ![t] = "loop"]
                  /\ UNCHANGED result
    /\ entry' = [entry EXCEPT ![t] = NoEntry]
    /\ UNCHANGED <<workload, closed, length, cacheVars, call, file>>

Finish(t) ==
    /\ pc[t] = "loop"
    /\ left[t] = 0
    /\ Return(t, Len(buf[t]))
    /\ UNCHANGED <<workload, closed, length, cacheVars, call, next, left, file, entry, buf>>

\* close(): reads that are under way go on.
Close ==
    /\ ~closed
    /\ closed' = TRUE
    /\ UNCHANGED <<workload, length, cacheVars, pc, call, next, left, file, entry, buf, result>>

ReadStep(t) ==
    \/ Refuse(t) \/ Enter(t) \/ Finish(t) \/ Copy(t)
    \/ ChunkHit(t) \/ ChunkMiss(t)
    \/ LoadIndex(t) \/ ReadFile(t) \/ Load(t)

Next ==
    \/ Close
    \/ \E t \in Threads : ReadStep(t) \/ \E c \in Calls : Call(t, c)

Spec == Init /\ [][Next]_vars

\* A thread inside read() keeps running.
FairSpec == Spec /\ \A t \in Threads : WF_vars(ReadStep(t))

-----------------------------------------------------------------------------
(* Properties.                                                             *)

\* The chunks the reads of workload w may ask the cache for.
Touched(w) ==
    UNION {{ChunkOf(o) : o \in (c.offset .. c.offset + c.count - 1) \cap (0 .. W - 1)} : c \in w.calls}

\* No entry is evicted under a reader: there is one reader, or every chunk has its place.
NoneDangles(w) ==
    \/ \A t, u \in w.readers : t = u
    \/ IsFiniteSet(Touched(w)) /\ Cardinality(Touched(w)) <= ChunkCacheSize
NothingDangles == \A w \in Workloads : w.faults = {} => NoneDangles(w)

\* The stream ends before the address space does.
StreamEnds == ChunkOf(W - 1) \notin DOMAIN Stored

(* When nothing goes wrong in the file, an image stream is a byte stream:  *)
(* every read gives the stream's bytes or fails, whichever chunks are      *)
(* cached, evicted, loaded by other threads or read piece by piece.        *)
Bytes == INSTANCE ByteStream WITH
    content <- [o \in 0 .. StreamLength - 1 |-> o],
    open <- ~closed,
    call <- [t \in Threads |-> IF faults = {} THEN call[t] ELSE NoCall],
    reply <- [t \in Threads |->
        IF faults # {} \/ result[t] = NoReply THEN NoReply
        ELSE [n |-> result[t], bytes |-> buf[t]]]
IsByteStream == Bytes!Spec

(* A chunk in the cache is a failed one or all right: what one reader left *)
(* there is what every later reader of the chunk gets.                     *)
CachedIsRight ==
    faults = {} =>
        \A i \in DOMAIN chunkCache :
            LET v == chunkCache[i].value IN v.size = 0 \/ v.right = ChunkSize

(* Bytes reported as read are bytes of the stream ("The number of bytes    *)
(* read. (0 indicates nothing read, or -1 indicates error)",               *)
(* IAFF4Stream.h:63).                                                      *)
ReportedIsRead ==
    \A t \in Threads :
        result[t] \in Nat => \A i \in 1 .. result[t] : buf[t][i] = call[t].offset + i - 1

(* A chunk is never loaded when it is cached, and one load at a time uses  *)
(* the bevvy cache: the chunk cache's mutex guards both.                   *)
LoadsExclude ==
    \A t \in Threads :
        pc[t] \in {"index", "file"} =>
            chunkLock = t /\ ChunkOf(next[t]) \notin Chunks!KeysOf(chunkCache)

(* A read serves all of the request below the end of the stream, or        *)
(* nothing: a caller that gets fewer bytes has reached the end.            *)
AllOrError ==
    \A t \in Threads :
        ~closed /\ result[t] \in Nat =>
            LET end == call[t].offset + call[t].count
            IN  result[t] = IF call[t].offset > length THEN 0
                            ELSE IF end > length THEN length - call[t].offset ELSE call[t].count

(* Every read of a single reader returns, also when the file ends early,   *)
(* a chunk is corrupt or an index could not be read.                       *)
ReadsEnd == \A t \in Threads : workload.readers = {t} /\ pc[t] # "idle" ~> pc[t] = "idle"
=============================================================================
