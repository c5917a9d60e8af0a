# A TLA+ model of aff4-cpp-lite

aff4-cpp-lite reads AFF4 forensic containers: a zip file that holds RDF metadata (`information.turtle`), image
streams cut into compressed chunks, and maps that assemble an address space from pieces of streams. This directory
models the library under `src/src/` and the X-Ways plugin under `src/win32/xwaysPlugin/` in TLA+, checks the model with
TLC and proves its safety properties with TLAPS.

## 1. Inventory

| Component (source under `src/src/`) | State it keeps | Operations | Interacts with | What makes it correct |
|---|---|---|---|---|
| LRU cache (`utils/Cache.h`) | list, map of list positions, mutex, loader | get, invalidate, exists, size | runs its loader under its mutex, returns references to callers | list and map agree, bounded, LRU order, one load per key, the caller sees the entry it was given |
| Image stream (`stream/ImageStream.cc`, `stream/struct/`) | length, closed flag, chunk cache, bevvy index cache | read, close | two caches nested, the container's `fileRead`, codecs | a read gives the bytes of the stream or fails, and returns |
| Map stream (`stream/MapStream.cc`) | vector of streams, sorted map, length, closed flag | construct, read, close | container (segments), resolver, streams below | the map tiles the address space, lookup finds what the segments say, a read gives those bytes |
| Symbolic, repeated streams (`stream/Symbolic*`, `Repeated*`) | buffer of one unit of the pattern | read | map stream, factory | a letter depends on its offset alone, whatever range it is read with |
| Zip (`zip/`) | directory entries, file descriptor, closed flag | parse, getStream, fileRead, close | file system, segment streams | entries are those of the directory, offsets point at their data |
| AFF4 container (`container/`, `AFF4Containers.cc`) | zip, RDF model, resolver, image and map tables | open, getSegment, getImages, getMap, close | zip, model, streams, resolver | a resource becomes what the model says it is, or is told apart from it |
| Resolver (`resolver/LightResolver.cc`) | volumes: resource -> file | open, hasResource, scan | file system, containers | the object found is the one asked for |
| Map image (`map/AFF4Map.cc`, `image/AFF4Image.cc`) | unknown override, gap override | getMap, getStream, set overrides | map stream, `queryResolver` | overrides take effect on the next stream; a line of idx finds its stream; containers it reads from are kept |
| C API (`aff4-c.cc`) | table of handles, next handle | init, open, read, size, close | container, resolver, map stream | a handle reads its own image until it is closed, and gives back what it held |
| X-Ways plugin (`win32/xwaysPlugin/`) | table of handles, next handle, lock | IIO_Init, IIO_Work, IIO_Done | as the C API, with threads; reads leave the lock | as the C API; a range said to be sparse has no data |
| RDF model, values, lexicon, utilities | tables | queries | raptor library | - |

Behaviours that are hard here: references that outlive a mutex, streams closed under a reader, results of reads below
that are short, negative or ignored, 64-bit arithmetic at the end of a stream, caches that keep whatever a failed load
produced, a map of files that goes out of date, and descriptors that are closed and given out again while a read is
under way. Nothing is written: there is no crash recovery and no messaging.

## 2. Plan

Modules in the order of what matters most to a reader of evidence: the bytes returned, then what they are found by.

| # | Module | Models | Composes / refines | State |
|---|---|---|---|---|
| 1 | `LRUOrder` | what an LRU cache promises | abstract | done |
| 2 | `LRUCache` | `Cache.h` | refines `LRUOrder` | done |
| 3 | `LRUCacheProofs` | | proofs about `LRUCache`, and that it implements `LRUOrder` | done |
| 4 | `ByteStream` | what `IAFF4Stream` promises | abstract | done |
| 5 | `MapIndex` | construction and lookup of a map | | done |
| 6 | `MapStream` | read and close of a map | extends `MapIndex`, refines `ByteStream` | done |
| 7 | `ImageStream` | read, both caches, chunk loader | uses `LRUOrder` for its caches, refines `ByteStream` | done |
| 8 | `Zip` | directory parser, segment streams | refines `ByteStream` | done |
| 9 | `Resolver` | resolver and opening of volumes | | done |
| 10 | `ResolverProofs` | | proofs about `Resolver` | done |
| 11 | `RepeatedStream` | read loop of symbolic and repeated streams | used by `MapStream` | done |
| 12 | `SparseCheck` | the plugin's sparse check | walks the entries of `MapIndex` | done |
| 13 | `Container` | `AFF4ZipContainer`, `AFF4Image`, `AFF4Map`, `initStreamVector`, `queryResolver` | over the resolver's map of volumes | done |
| 14 | `ContainerProofs` | | proofs about `Container` | done |
| 15 | `HandleTable` | what a table of handles promises | abstract | done |
| 16 | `Handles` | `aff4-c.cc` and the plugin over the file descriptors of zips | refines `HandleTable` | done |
| 17 | `HandlesProofs` | | descriptors, and that `Handles` implements `HandleTable` | done |
| 18 | `ImageStreamProofs` | | proofs about `ImageStream`, and that it implements `ByteStream` | done |
| 19 | `MapIndexProofs` | | the layout loop tiles and the lookup finds, for every map | done |
| 20 | `MapStreamProofs` | | reads of a map, on top of it: `ByteStream`, repeated streams, `isSparse` | done |
| 21 | `ZipFormat` | the zip files a writer makes | the input of `Zip` | done |
| 22 | `ZipProofs` | | proofs about `Zip`, for every such file, and that segments implement `ByteStream` | done |

`MC<module>` instantiates `<module>` for TLC. What is left: the fill of the table of images.

## 3. Modules and code

A module is named after the class it models and keeps the names of the members. One action is what the code does
between two points at which another thread, the file system or a caller's callback can act.

**`LRUCache`** (`utils/Cache.h`). `lock` is the recursive mutex by its owner, `cacheItems` the list, `cacheMap` the map
from keys to list nodes and `node` the heap: a node that was erased is free and may be handed out again, which is how a
reference outlives its entry. `Request` is a call of `get` that waits for the mutex, `Hit` the lookup that finds the key and splices
its node to the front, `Miss` the one that goes on to the loader, which may itself call `get` for other keys of the same
cache (`NestedHit`, `NestedMiss`) up to `MaxDepth`. `LoaderReturns` ends a load with the whole of `put` in the order of the code: look
the key up, push the new node, erase the old one, evict the last. `CopyOut` is the caller that copies the `shared_ptr` out of
the returned reference after the mutex was released; `Invalidate` is `invalidate()`, which
empties the cache. `LRUOrder` is the promise: the entries are the most recently used ones, at most `MaxSize`.

**`MapIndex`, `MapStream`** (`stream/MapStream.cc`). `MapIndex` loads the vector of streams (`InitStreamVector`), adds
the gap stream behind the lines of `idx`, sorts the points (any order of equal offsets), and lays them out one by one
(`AddPoint`, with `FillHole` for what lies between), as 64 bit words `% W`; an ID the vector does not have gets an
Unknown stream. `EntryAt` is `lower_bound` with its step back. `MapStream` reads an entry per step (`ReadEntry`); the
results of the stream below are all it may give: the whole part, what it has up to its end, or -1. `Close` and
`ClearStreams` are the two assignments of `close()`. A map is `Sound`, and promises bytes, when its points do not overlap,
keep clear of the gap stream's ID and end within the image stream they refer to (in a symbolic stream: within the
64 bit offsets).

**`RepeatedStream`** (`stream/RepeatedImageStream.cc`) is the stream below a map that has no data: the constructor fills a
unit with copies of the pattern, the last one cut (`Filled`), and `read` begins inside the unit and goes on at its start
(`FirstTurn`, `Turns`). A letter is its index in the pattern, so a byte of the Unknown stream is right when it is the
letter its own offset has.

**`SparseCheck`** (`win32/xwaysPlugin/Util.cc`, `xwaysPlugin.cc`) is `isSparse()`: it walks the entries of the map from the
offset on (`Walked`) until one has data or the range ends. It is checked in every built map of `MapStream`. Whether the
gap counts as sparse is part of the input (`spareGap`), as the metadata may name a gap stream that has data
(`AFF4Map.cc:60-75`).

**`ImageStream`** (`stream/ImageStream.cc`, `stream/struct/*`). `ChunkHit`, `ChunkMiss`, `LoadIndex`, `ReadFile`, `Load` and `Copy`
are the turn of the read loop for one chunk. The caches are held as `LRUOrder` describes them, with the chunk cache's
mutex over the whole load; `ReadFile` is one turn of the loop around `fileRead`, which may give any part of what is
left. `faults` says what is wrong with the file: nothing, it ends early, a chunk does not decode, an index cannot be
read, `fileRead` fails.

**`ZipFormat`, `Zip`** (`zip/Zip.cc`, `zip/ZipStream.cc`). A file is a sequence of cells, one for the fixed part of each
record, each name, 64 bit word, comment and byte of data; all offsets of the code are sums over them. `HasDirectory` says
that the end record and the entries are where the ones before say, whatever the extra fields hold; this is all that is assumed of a
file. `WellFormed` adds that the extra fields fit, that the values of the fields that are `0xffffffff`, any of them, are in
the one zip64 field, in the order size, packed size, offset, and that local headers and data are there. `HasData` says what the cells must hold of each segment:
the bytes themselves, or deflated data that gives them. All this is written from the format, not from the parser; TLC
evaluates it on every archive of `MCZip`. `Meant` is what an entry should be: where the zip64 field has sizes alone
(`SizesOnly`) the code does not look at it, so the sizes stay `0xffffffff`, and nothing is promised of reading that segment
(`Readable`). The offset of the next extra field is a word of 16 bits (`NextExtraAt`, modulo `W16`). `FindEnd`, `FindDirectory`,
`FindDirectory64`, `ReadHeader`, `ReadExtra`, `ReadLocal` are the reads of `parseCD` in their order; each may fail when
`faults` contains `"parse"`. Then `GetStream` opens one segment, threads read it, and `CloseStream`/`Release` (the two
halves of `close()`) and `CloseZip` come at any time. `Byte` is what segments are made of.

**`Resolver`** (`resolver/LightResolver.cc`, `AFF4Containers.cc`). `volumes` is the map, `mapLock` the mutex by its owner.
`HasHit`, `HasMiss`, `ScanFile`, `ScanSlowly`, `ScanEnds` are `hasResource()`; `OpenFile`, `OpenGone`, `ReadID`,
`ReadIDSlowly`, `OpenZip` the rest of `open()`, each with its own look at the disk, which `Arrive` and `Leave` change in
between. Files are moved, not rewritten. `stayed` is a history variable for the property.

**`Container`** (`container/AFF4ZipContainer.cc`, `image/AFF4Image.cc`, `map/AFF4Map.cc`, and the half of `stream/MapStream.cc`
that `MapIndex` takes as an input). `OpenIn` is `open()`: image, map, image stream and segment are tried in this order; a
plain segment calls itself an image stream (`ZipStream.cc:87-89`), so it, too, becomes the stream of a line (`KindOf`).
A thread makes the stream of an image (`GetStream`), line by line: the override, a symbolic stream or a stream of its
own volume (`PutLocal`), or `queryResolver`, which asks `hasResource()` and `open()` first for the line and then for the
volume the line is stored in (`QueryResolver`, `HasResource`, `Open`, `FindChild`). Between these calls other threads'
lookups change the resolver's `volumes` and files `Arrive` and `Leave`; `OpenNull` is the null that `open()` gives for a
file that has gone. `Close` and `ClearExternals` are the two halves of `close()`, streams first. The resolver's scan is
one step here and has its steps in `Resolver`; `stayed` is a history variable.

**`Handles`** (`aff4-c.cc`, `win32/xwaysPlugin/xwaysPlugin.cc`, `zip/Zip.cc:108-127, 374`). Both libraries keep a table from
numbers to the tuple of resolver, container and stream, here one object, an *image* with the zips it has open. `api`
chooses between them: `"c"` is used by one thread at a time, `"iio"` by several, with `apiLock` around the table.
`OpenContainer`, `OpenPart` (a container the map needs), `StoreImage` and `GiveUp` are an open; `FindImage` copies the tuple
under the lock, `ReadPart` and the returns run without it; `CloseContainer` and `EraseHandle` are a close; `InitAgain` is a
second `AFF4_init()`. `Assign` is what copying and dropping a tuple means: an image neither the table nor a call has any
more is destroyed, and destroying it closes the zips still open. `files` is the table of the operating system: a
descriptor that was closed may be given to the next file opened, and `fileRead` reads from whatever file it names now.
`HandleTable` is the promise: a handle is new when it is given out, and a read gives its image, or fails, until it is
closed. `given` and `asked` are history.

**`ByteStream`** (`IAFF4Stream.h`) is the contract of the three streams: a read begun on an open stream gives bytes of a
fixed content from the offset on, or -1; a read begun after `close()` gives -1; nothing is said of a read that `close()`
overtakes, since the code leaves it undefined. `NoneDangles` of `ImageStream` says when no entry of the chunk cache is
evicted under a reader: there is one reader, or the cache has a place for every chunk the reads touch.

## 4. Runs

| Run | Shows | Bounds, and why they are enough |
|---|---|---|
| `lru_cache` | list and map agree, size bounded, loader under the mutex, `get` returns the entry asked for, refinement of `LRUOrder` | two threads, three keys for two places and three nodes: an eviction, a re-use of a freed node, a load within a load and an invalidation all occur |
| `lru_cache_no_evict` | the caller sees its entry, no double load, and some waiting `get()` completes, when nothing is evicted | three threads on two keys: two wait while one loads |
| `lru_cache_shared` (violation) | the caller's reference can be to another entry | two threads, one place: the second `get` evicts what the first one returned |
| `map_stream` | the map tiles the address space, a lookup gives what the segments say, `isSparse` is exact; `ByteStream`, `AllOrError`, reads end | built: every map of up to two points over up to two lines, of one point over three lines, and of three points of one stream, size 0 and 4: holes before, between and behind, equal offsets, overlaps, IDs behind the idx. Read: nine maps adjacent, apart, out of order, beyond the idx, empty, overlapping, past the stream, with a pattern of three letters in units of four, so that units and copies do not coincide; counts that wrap at `W = 16` |
| `map_stream_short` (violation) | bytes reported as read that nobody wrote | the same maps |
| `image_stream` | `ByteStream`, caches right, loads exclude each other, `AllOrError`, reads end | seven bytes in four chunks of two over two bevvies, three places for chunks and one for indexes: chunk and bevvy boundaries, a short last chunk, evictions from both caches. One reader of an intact and of a damaged file; two readers of an intact file, on ranges the cache can hold, since an eviction under a reader is the violation above |
| `image_stream_error` (violation) | a failed `fileRead` is reported as data | two threads |
| `zip` | entries are those written, errors are told, parsing ends, `ByteStream` and `AllOrError` for segments | five archives of two or three segments: entries without 64 bit values, with all three, with the offset alone, with the offset and one size, with the two sizes, after another extra field and before a comment; three archives whose extra fields have a wrong length: one that leads back to the first field by overflow, one back to itself, one past the last. One segment stream with one reader, since readers share nothing that changes but the two `close()` |
| `zip_appended` (violation) | an appended archive is not opened | two archives |
| `resolver` | `open` gives what was asked for, finds what stays, releases its lock | two threads, three files: two with the same ID (one needs the slow way to it), one too short to have its ID read |
| `container` | a line of idx becomes its stream or a stand-in, containers are kept, null only for a volume that left | two threads, four images of one volume, two volumes that come and go and a damaged one: lines found at home, by index, abroad, in the second of two volumes, as a plain segment, missing, of the wrong kind; maps of length 0; with and without a resolver and an override |
| `handles` | a handle is new and reads its own image, descriptors are those of open zips, what a closed image held is given back | two threads, three descriptors, three handles, an image over two containers, one over one, a container without an image: descriptors run out, are closed and re-used while a read is under way |

`W` stands for `2^64`, `Unit` for the 1 MB a pattern is buffered in, `Max32` for `0xffffffff`, `W16` for `2^16` (8 in the runs: more than any archive's extra fields take but the three misfits), `TailSize` for the 4096 bytes
searched for the end record, `WholeStream` for 32 MB. `MaxDepth` bounds the nesting of loaders (the code nests two
caches: one), `MaxHandle` the numbering of handles, `MaxRequest` the length of a request to a repeated stream. Files that
come and go are bounded by `Movable`. `CHECK_DEADLOCK FALSE` is set where the system really stops: in `MapStream`, where
most maps are only built; in `Zip`, once an archive without the segment is closed; in `Container`, where a null
dereference ends the process.

Fairness. Weak fairness per thread inside `get()`, `read()`, the calls of the resolver and those of `Handles`, and for the
constructor of `Zip`: a running thread of the operating system is scheduled, and `fileRead` returns. Nothing is assumed
about who gets a free mutex: the C++ and Windows mutexes promise no order, so the liveness properties say that the
resolver's lock is released and that some `get()` completes, never that a given caller is served. Nothing is assumed
about callers: they may never call again, and a handle may stay open forever.

## 5. Proofs

Each proof module shows, for every value of the constants, an inductive invariant of its specification, and what
follows from it. The listed theorems are the safety properties of the runs, the refinements of the abstract modules among them; the runs
are where the invariants were tried first.

`LRUCacheProofs` proves, for any threads, keys, nodes, loader results and sizes, the type invariant, `ListMapAgree`,
`SizeBounded`, `LoaderUnderLock`, `NoDoubleLoad`, the action property `GetReturnsEntry` (with `MaxSize > 0`), and `CallerSeesEntry` when
nothing is evicted (`NeverEvicts`: as many places as keys, no invalidation). The inductive invariant is
`IInv = TypeOK /\ CacheInv /\ ThreadInv`: `ListMapAgree` alone is not inductive, because the `put` that ends a load relies on
what the thread found before its loader ran other loads. `CacheInv` says that list and map are inverse to each other
and over distinct, allocated nodes; `ThreadInv` ties each thread's program counter to the lock and to its stack of
loads. `RefInv` is added for `CallerSeesEntry`. The lemmas `EraseListed`, `Prepend`, `DropLast`, `SpliceAgrees` and `PutAgrees` say what
one list operation does to the agreement of list and map; one lemma per action follows from them. `ImplementsLRU` maps
the list of nodes to its entries: splicing a node is `Refreshed`, a `put` (look up, push, erase the old node, evict the last)
is `Loaded`, in this order of the code, and everything else leaves the entries alone.

`ImageStreamProofs` proves the types, `CachedIsRight`, `LoadsExclude` and `AllOrError`, for any readers, faults, calls and sizes
of chunks, bevvies and caches. The first lemmas say what a hit and a put do to the entries of an LRU list. The
invariant says: a thread holds the lock of the chunk cache exactly while it loads; in an intact file what both caches
hold, and what `fileRead` has given of the chunk being loaded so far (`FileInv`), is right. `AllOrError` needs how far each
read has come: what it has and what it still wants make up its share of the stream (`Served`). It is proved under
`NoWrap`, that `offset + count` of no call wraps. A request that wraps is not cut to the stream; the run has such calls,
and finds that they fail where no chunk is left. `ImageIsByteStream` proves the refinement, for requests that wrap too.
Its invariant (`Good`) says that the buffer holds the bytes from the offset on (`Underway`), and that what a reader refers to
between the lookup and the copy is the chunk of its offset, whole or failed. Two hypotheses: `NothingDangles`, as
evictions under a reader are finding 1, and `StreamEnds`, that the last chunk of the address space is not stored. `AllFit`
shows that with a place for every chunk nothing is evicted: the keys of the list are distinct, so it is no longer than
there are chunks. `MCImageStream` has TLC evaluate both hypotheses on its workloads, which include two readers.

`MapIndexProofs` and `MapStreamProofs` prove `MapIsTiled`, `UnaliasedLookup` and `AllOrError`, for every map segment,
every order `std::sort` may leave equal offsets in, any readers and requests. The layout loop is an induction over the
steps of the constructor, so it is within reach: what is laid out tiles `0 .. offset - 1`, every point is laid out or waits
behind the others (`TodoInv`, `Laid`), and every other entry is a hole that no point covers (`IsHole`). `LookupFinds` and
`LookupPastEnd` say what `lower_bound` and its step back give on a tiling. For reads, `next` is the offset asked for plus
what is in the buffer, and no turn takes it past the end of the map (`PartIs`). So a request whose sum wraps, which the
code does not cut, never returns a count, and `AllOrError` needs no bound on requests here.

`MapIsByteStream` proves the refinement. `Given` says what the buffer of a read under way holds: the byte the map means at
each offset below its end. A turn keeps that, because the entry found is the one under the offset, and because what comes
back from the stream below is as long as the part asked for (`Sound`). The letters of a pattern need `RepeatedIs`: the
loops of `RepeatedStream` are recursive functions, and what they compute for every unit, pattern, offset and length
is proved by giving a function that satisfies the equation, and by looking at the least argument at which another one
would differ. `SparseIsRight` treats the walk of `isSparse` in the same way: a turn ends at the end of an entry, all bytes of
which lie in one stream (`StepIs`), so walking the entries and looking at every byte have the same outcome (`WalkedIs`).

`ResolverProofs` proves, for any threads, files, resources and contents, `OpensWhatWasAsked` and `FindsWhatStays`. The
inductive invariant adds: the map names files by the IDs they hold (`MapIsTrue`), whoever scans or opens holds the lock
(`HolderInv`), the open file is one of the resource wanted (`FileInv`), and `SearchInv`, how far a call for a volume that
stays has come: during the scan each of its files is still to come or one of them is in the map; between the two
halves of `open()` the map keeps one, because an entry is dropped only when its file is gone. `FindsWhatStays` is
not inductive, as it says nothing until the call returns.

`ContainerProofs` proves the types, `ExternalsKept` and the action property `FindsItsStreams`, for any volumes, models, maps
and threads. The invariant: what stayed is present; a map stream being made has a stream for each line done (`Made`);
a line that is looked up is not stored at home, and the container its volume was opened as is the last one kept
(`LookedUp`), in which an image stream or a plain segment is found; every stream's container is among those kept (`StreamsKept`). Each action then adds the stream of its line.

`HandlesProofs` proves the types, with them that an image in the table is whole, and `DescriptorsAreOurs`, for any files,
threads and numbers of descriptors. `OwnInv` is the property in three parts (an open zip's descriptor names its file,
open zips have different descriptors, a descriptor in use has an open zip); it leans on `LockHeld` and `OpeningInv`, that an
image being opened belongs to the one call that holds the lock. The second half proves the refinement: every
action of `Handles` is a step of `HandleTable` or leaves its variables alone. `RInv` adds that a handle has an image of its
own and was given out (`TableInv`), that `close()` closes an image's first zip only (`FirstClosed`), that a closed image in the
table has a call about to erase it (`CloserInv`), and what a read has got while its handle is open (`ReadSoFar`): as the
call keeps a copy of the image, none of the other zips is closed, and none of its descriptors is given out again.

`ZipProofs` proves the five invariants of `zip`, for every file with a directory, any faults, readers and requests. Two of
them (types, `NoErrorMeansComplete`) hold whatever extra fields and local headers say; `EntriesAreMeant` and `IntactOpens`
are about archives that are well formed, sizes-only entries included; `AllOrError` and the refinement are about segments
whose sizes the parser reads (`Readable`).
`PlaceInv` says where in the directory the constructor is, also when reads fail: the next entry is where the offsets
read so far say. It makes the difference between a read that failed and a record that is not there. `FoundInv` says what
was found of a file that can be read; the values of the current entry are those of its header as long as the zip64
field is still to come, and right once it was taken (`Zip64Ahead`, `Zip64Taken`); as the extra fields of a well formed entry fit in
its 16 bit length, the offset of the next one does not overflow there. `ErrnoInv` is `NoErrorMeansComplete` made
inductive. For reads, the open segment is the first of its name in the archive (`StreamInv`), so a stored one lies in the
file and `fileRead` does not cut what `read` asks of it. `SegmentIsByteStream` proves the refinement: what the cells of the
segment hold from the offset on is what its writer put in (`SegmentIs`, `StoredGives`, `InflatedIs`), from the local header's
offset that the parser computed to the buffer of the caller.

Assumptions are those the modules declare: sentinels (`NoFile`, `NoThread`, `NoCall`, ...) are not values of their types, sizes
are natural numbers, `Content` and the models of volumes are functions with fields of their types, the letters of a
pattern and the requests to a repeated stream fit in a 64 bit word.

Only model-checked: liveness (`SomeGetCompletes`, `ReadsEnd`, `ParseEnds`, `LockIsReleased`, `ClosedIsFreed`), which TLAPS cannot reach
here; `AllOrError` of image streams for requests that wrap; `IsByteStream` of image streams is neither proved nor
checked where readers evict each other's entries, as it does not hold there.

## 6. What the checks found

1. `Cache.h:94`: a reference returned by `get()` can be to a freed or re-used node when another thread evicts it
   (`lru_cache_shared`). `ImageStream::read` copies a `shared_ptr` out of it.
2. `MapStream.cc:125`: the length asked for is counted as read, not the length the stream below gave (`map_stream_short`).
3. `ChunkLoader.cc:91`: -1 of `fileRead` in an unsigned variable is taken for progress (`image_stream_error`).
4. `Zip.cc:334`: the local header is read without the global offset, so an archive that was appended to another file has
   no entries (`zip_appended`).

Seen while modelling, and not the subject of a run:

- a cache budget smaller than a chunk gives `maxSize` 0 and `get()` dereferences `end()`;
- the gap stream gets the first ID behind the idx, so a point with that ID is not unknown (`MapStream.cc:226`);
- the result of reading the map segment (`MapStream.cc:217`) and of reading a name or a 64 bit value of the zip directory
  (`Zip.cc:295`) is not looked at;
- the offset of the next extra field has 16 bits (`Zip.cc:302`, `327`): a field of 65532 bytes leads back to itself, and the
  loop does not end (`ParseEnds` names this exception, `FieldOverflows`);
- the zip64 field is looked at only when the offset is in it (`Zip.cc:299`): an entry with 64 bit sizes alone keeps
  `0xffffffff` for them (`Meant` names this exception, `SizesOnly`);
- an end record at the first byte of the tail buffer is not found (`Zip.cc:195`), and a file that is nothing else makes
  `parseCD()` dereference null, as the loop around it makes no turn;
- a volume file shorter than 4096 bytes has no resource ID although the comment promises the slow way
  (`AFF4Containers.cc:124`, `145`); a volume moved to another name is found only by the second `open()`;
- `queryResolver` dereferences the null that `open()` gives for a file that has gone, although `IAFF4Resolver.h:70` says "The
  object if found, or NULL if not available." (`OpenNull` of `Container`);
- the constructor of `AFF4ZipContainer` dereferences a null model when `information.turtle` is missing;
- `AFF4Map.cc:104-116` compares the resource where its loop variable `line` is meant;
- `createResolver(file, false)` scans the folders below all the same, and a directory that does not open is passed to
  `readdir()` as null;
- `getImageStream` looks at all `stored` values of a stream, `queryResolver` only at the first;
- `isSparse` does not return from an empty entry (`Util.cc:126`), nor the constructor of a repeated stream from an empty
  pattern;
- after a second `AFF4_init()` handles are numbered from the start again.

## 7. Not modelled

The RDF model is the raptor library and tables that hold what it found; the models of volumes are inputs of `Container`.
Codecs are the outcomes "decodes" and "does not". `src/win32/raptor2` and `src/win32/zlib` are vendored copies of other
projects and most of the lines of the repository; values, lexicon, utilities, property bags and the command line tools
have no behaviour over time. So the model covers a small share of the repository's lines, and nearly all of the
code of its own that keeps state.

In the components that are modelled: the first fill of the table of images, which two first callers of `getImages()` may
do at once (`AFF4ZipContainer.cc:239`); containers as resolvers of each other; `AFF4_object_size` and `AFF4_object_blocksize`, which
change no state; texts, logs and properties for display. Reads of the map segment never fail, and one shorter than an
entry (28 bytes) counts as absent. Segments of bevvies are named by number, without the eight digits of the code. A part
of an image that does not open is left out of `Handles` (the descriptors suffice, or the image is not opened). The Windows branches
are modelled where they do the same as the POSIX ones. Archives are zip files with a directory in which extra fields may be
wrong, or files that cannot be read; a file is not rewritten while it is open, nor replaced under its name between two
openings. Requests to a segment whose `offset + count` wraps are left out. A stream closed during a read is undefined behaviour in
the code (it indexes a cleared vector, or follows null): the models let such a read give anything, and no property asks
anything of it. Hazards without a property are listed with the reason in `PROJECT.json`.
