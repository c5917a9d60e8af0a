-------------------------------- MODULE Zip --------------------------------
(***************************************************************************)
(* The zip file under a container (zip/Zip.cc) and the segments read from  *)
(* it (zip/ZipStream.cc): the constructor parses the central directory,    *)
(* getStream() opens a segment, threads read it, and close() is called on  *)
(* the segment and on the zip.  Files are those of ZipFormat.              *)
(***************************************************************************)
EXTENDS ZipFormat, FiniteSets

CONSTANTS
    Archives,    \* the files that may be opened
    FaultSets,   \* subsets of {"parse", "read"}: when reading the file may fail
    Threads,
    Calls,       \* the [offset, count] a thread may ask read() for
    WholeStream, \* ZIP_WHOLE_STREAM, the largest deflated segment that is read
    Garbage,     \* what an unwritten name buffer holds
    NoStream, NoEntry, NoCall, NoReply

ASSUME SizesAssumption == {Max32, W16, TailSize, WholeStream} \subseteq Nat \ {0}
ASSUME CallsAssumption == Calls \subseteq [offset : Nat, count : Nat]
ASSUME ArchivesAssumption == \A a \in Archives : HasDirectory(a)
ASSUME ReplyAssumption == NoReply \notin Int /\ NoReply \notin [n : Nat \cup {-1}, bytes : Seq(Byte)]
ASSUME CallAssumption == NoCall \notin [offset : Nat, count : Nat, late : BOOLEAN]
ASSUME FaultsAssumption == FaultSets \subseteq SUBSET {"parse", "read"}

VARIABLES
    archive, faults, segment,  \* the file, its faults, the name to be opened
    phase,      \* what the constructor does next
    dir,        \* where the directory is: endAt, offset, count, globalOffset
    entryOffset,\* of the next directory entry
    entry,      \* the entry being read, with the offset of its next extra field
    entries,    \* the vector of entries
    comment,    \* of the archive, "" if it has none
    errno,      \* TRUE: an error is pending
    closed,     \* Zip::closed
    stream,     \* the entry of the segment stream, NoStream before getStream()
    streamClosed, released, \* ZipSegmentStream::closed, and its pointers null
    pc, call, buf, result   \* per thread: read()

input == <<archive, faults, segment>>
parser == <<phase, dir, entryOffset, entry, entries, comment, errno>>
object == <<closed, stream, streamClosed, released>>
reader == <<pc, call, buf, result>>
vars == <<input, parser, object, reader>>

NoDir == [endAt |-> 0, offset |-> 0, count |-> 0, globalOffset |-> 0]
Entry == [name : Names \cup {Garbage}, method : Methods,
          size : Nat, csize : Nat, headerOffset : Nat, offset : Nat]

TypeOK ==
    /\ archive \in Archives /\ faults \in FaultSets /\ segment \in Names
    /\ phase \in {"open", "tail", "directory", "entry", "extra", "local", "done"}
    /\ dir \in [endAt : Nat, offset : Nat, count : Nat, globalOffset : Nat]
    /\ entryOffset \in Nat
    /\ entries \in Seq(Entry)
    /\ stream \in Entry \cup {NoStream}
    /\ {errno, closed, streamClosed, released} \subseteq BOOLEAN
    /\ pc \in [Threads -> {"idle", "called", "reading"}]
    /\ \A t \in Threads : result[t] \in Nat \cup {-1, NoReply}

Init ==
    /\ archive \in Archives /\ faults \in FaultSets /\ segment \in Names
    /\ phase = "open"
    /\ dir = NoDir /\ entryOffset = 0 /\ entry = NoEntry
    /\ entries = <<>> /\ comment = "" /\ errno = FALSE
    /\ closed = TRUE
    /\ stream = NoStream /\ streamClosed = FALSE /\ released = FALSE
    /\ pc = [t \in Threads |-> "idle"]
    /\ call = [t \in Threads |-> NoCall]
    /\ buf = [t \in Threads |-> <<>>]
    /\ result = [t \in Threads |-> NoReply]

-----------------------------------------------------------------------------
(* fileRead(): nothing beyond the end of the file; pread may fail.         *)

Length == Len(archive.cells)
CellAt(p) == Cell(archive, p)
FileRead(p) == {CellAt(p)} \cup (IF "parse" \in faults THEN {Nothing} ELSE {})

-----------------------------------------------------------------------------
(* The constructor and parseCD()                                           *)

Parse(next) == phase' = next
GiveUp == phase' = "done"

OpenFails ==
    /\ phase = "open"
    /\ "parse" \in faults
    /\ GiveUp
    /\ errno' = TRUE
    /\ UNCHANGED <<input, dir, entryOffset, entry, entries, comment, object, reader>>

OpenClearsErrno ==
    /\ phase = "open"
    /\ Parse("tail")
    /\ closed' = FALSE
    /\ errno' = FALSE
    /\ UNCHANGED <<input, dir, entryOffset, entry, entries, comment, stream, streamClosed, released, reader>>

Open ==
    /\ phase = "open"
    /\ Parse("tail")
    /\ closed' = FALSE
    /\ errno' = TRUE
    /\ UNCHANGED <<input, dir, entryOffset, entry, entries, comment, stream, streamClosed, released, reader>>

(* The record is looked for from the end of the buffer back to, but not    *)
(* at, its first byte.                                                     *)
EndRecords ==
    LET tail == IF Length < TailSize THEN Length ELSE TailSize
    IN  {p \in (Length - tail) + 1 .. Length - 1 : CellAt(p).kind = "end"}

FindEnd ==
    /\ phase = "tail"
    /\ \/ /\ EndRecords # {}
          /\ LET at == CHOOSE p \in EndRecords : \A q \in EndRecords : q <= p
             IN  /\ dir' = [dir EXCEPT !.endAt = at]
                 /\ \E after \in FileRead(at + 1) :
                      comment' = IF CellAt(at).commentLen > 0 /\ after.kind = "comment" THEN after.text ELSE ""
          /\ Parse("directory")
       \/ /\ EndRecords = {} \/ "parse" \in faults
          /\ GiveUp
          /\ UNCHANGED <<dir, comment>>
    /\ UNCHANGED <<input, entryOffset, entry, entries, errno, object, reader>>

FirstEntry(offset, count, globalOffset) ==
    /\ dir' = [dir EXCEPT !.offset = offset, !.count = count, !.globalOffset = globalOffset]
    /\ entryOffset' = offset
    /\ Parse("entry")

FindDirectory ==
    /\ phase = "directory"
    /\ CellAt(dir.endAt).offset # Max32
    /\ LET end == CellAt(dir.endAt)
       IN  FirstEntry(end.offset, end.count, dir.endAt - end.size - end.offset)
    /\ UNCHANGED <<input, entry, entries, comment, errno, object, reader>>

\* The zip64 records precede the end record.
FindDirectory64 ==
    /\ phase = "directory"
    /\ CellAt(dir.endAt).offset = Max32
    /\ \E locator \in FileRead(dir.endAt - 1), end \in FileRead(dir.endAt - 2) :
         IF locator.kind = "locator" /\ end.kind = "end64"
         THEN FirstEntry(end.offset, end.count, (dir.endAt - 2) - end.size - end.offset)
         ELSE GiveUp /\ UNCHANGED <<dir, entryOffset>>
    /\ UNCHANGED <<input, entry, entries, comment, errno, object, reader>>

IsWide(e) == e.headerOffset = Max32

ReadHeader ==
    /\ phase = "entry"
    /\ Len(entries) < dir.count
    /\ LET at == dir.globalOffset + entryOffset
       IN  \E header \in FileRead(at), name \in FileRead(at + 1) :
             IF header.kind # "entry"
             THEN GiveUp /\ UNCHANGED entry
             ELSE /\ entry' = [name |-> IF name.kind = "name" THEN name.name ELSE Garbage,
                               method |-> header.method, size |-> header.size,
                               csize |-> header.csize, headerOffset |-> header.headerOffset,
                               extra |-> 0, extraLen |-> header.extraLen,
                               total |-> 2 + header.extraLen + header.commentLen]
                  /\ Parse(IF IsWide(entry') THEN "extra" ELSE "local")
    /\ UNCHANGED <<input, dir, entryOffset, entries, comment, errno, object, reader>>

Wide(e, f) == IF e[f] = Max32 THEN 1 ELSE 0

\* The fields that have a 64 bit value in the zip64 extra field take its words in this order.
WordOf(e, f) ==
    1 + (IF f = "size" THEN 0 ELSE Wide(e, "size")) + (IF f = "headerOffset" THEN Wide(e, "csize") ELSE 0)

\* The results of these reads are not looked at.
Widened(e, f, at, missed) ==
    LET word == CellAt(at + WordOf(e, f))
    IN  IF e[f] = Max32 /\ f \notin missed /\ word.kind = "word" THEN word.value ELSE e[f]

SameExtraAt(offset, field) == offset

\* The offset is a 16 bit word, too.
NextExtraAt(offset, field) == (offset + 1 + field.words) % W16

ReadExtra ==
    /\ phase = "extra"
    /\ entry.extra < entry.extraLen
    /\ LET at == dir.globalOffset + entryOffset + 2 + entry.extra
       IN  \E field \in FileRead(at),
              missed \in IF "parse" \in faults THEN SUBSET {"size", "csize", "headerOffset"} ELSE {{}} :
             IF field.kind # "extra"
             THEN GiveUp /\ UNCHANGED entry
             ELSE /\ entry' = [entry EXCEPT
                        !.extra = NextExtraAt(@, field),
                        !.size = IF field.id = 1 /\ field.words > 0 THEN Widened(entry, "size", at, missed) ELSE @,
                        !.csize = IF field.id = 1 /\ field.words > 0 THEN Widened(entry, "csize", at, missed) ELSE @,
                        !.headerOffset =
                            IF field.id = 1 /\ field.words > 0 THEN Widened(entry, "headerOffset", at, missed) ELSE @]
                  /\ UNCHANGED phase
    /\ UNCHANGED <<input, dir, entryOffset, entries, comment, errno, object, reader>>

ExtrasDone ==
    /\ phase = "extra"
    /\ entry.extra >= entry.extraLen
    /\ Parse("local")
    /\ UNCHANGED <<input, dir, entryOffset, entry, entries, comment, errno, object, reader>>

DataOffsetNoExtra(e, local) == e.headerOffset + 1 + local.nameLen

DataOffset(e, local) == e.headerOffset + 1 + local.nameLen + local.extraLen

\* The local header is read where the entry says, the global offset left out.
LocalHeaderAt(e) == e.headerOffset

NextEntryNoComment(offset, e) == offset + 2 + e.extraLen

NextEntryAt(offset, e) == offset + e.total

ReadLocal ==
    /\ phase = "local"
    /\ \E local \in FileRead(LocalHeaderAt(entry)) :
         IF local.kind # "local"
         THEN GiveUp /\ UNCHANGED <<entries, entryOffset>>
         ELSE /\ entries' = Append(entries,
                    [name |-> entry.name, method |-> entry.method, size |-> entry.size,
                     csize |-> entry.csize, headerOffset |-> entry.headerOffset,
                     offset |-> DataOffset(entry, local)])
              /\ entryOffset' = NextEntryAt(entryOffset, entry)
              /\ Parse("entry")
    /\ UNCHANGED <<input, dir, entry, comment, errno, object, reader>>

Complete ==
    /\ phase = "entry"
    /\ Len(entries) = dir.count
    /\ errno' = FALSE
    /\ GiveUp
    /\ UNCHANGED <<input, dir, entryOffset, entry, entries, comment, object, reader>>

ParseStep ==
    \/ OpenFails \/ Open \/ FindEnd \/ FindDirectory \/ FindDirectory64
    \/ ReadHeader \/ ReadExtra \/ ExtrasDone \/ ReadLocal \/ Complete

-----------------------------------------------------------------------------
(* getStream(), and ZipSegmentStream::read()                               *)

Found == {i \in DOMAIN entries : entries[i].name = segment}

GetStream ==
    /\ phase = "done"
    /\ stream = NoStream
    /\ Found # {}
    /\ stream' = entries[CHOOSE i \in Found : \A j \in Found : i <= j]
    /\ UNCHANGED <<input, parser, closed, streamClosed, released, reader>>

Call(t, c) ==
    /\ stream # NoStream
    /\ pc[t] = "idle"
    /\ pc' = [pc EXCEPT ![t] = "called"]
    /\ call' = [call EXCEPT ![t] = [offset |-> c.offset, count |-> c.count, late |-> streamClosed]]
    /\ buf' = [buf EXCEPT ![t] = <<>>]
    /\ result' = [result EXCEPT ![t] = NoReply]
    /\ UNCHANGED <<input, parser, object>>

Return(t, n, bytes) ==
    /\ pc' = [pc EXCEPT ![t] = "idle"]
    /\ result' = [result EXCEPT ![t] = n]
    /\ buf' = [buf EXCEPT ![t] = bytes]
    /\ UNCHANGED <<input, parser, object, call>>

Refuse(t) ==
    /\ pc[t] = "called"
    /\ streamClosed
    /\ Return(t, -1, <<>>)

EnterUnchecked(t) ==
    /\ pc[t] = "called"
    /\ pc' = [pc EXCEPT ![t] = "reading"]
    /\ UNCHANGED <<input, parser, object, call, buf, result>>

Enter(t) ==
    /\ pc[t] = "called"
    /\ ~streamClosed
    /\ pc' = [pc EXCEPT ![t] = "reading"]
    /\ UNCHANGED <<input, parser, object, call, buf, result>>

\* close() has set the pointers to null: the reader follows one.
ReadReleased(t) ==
    /\ pc[t] = "reading"
    /\ released
    /\ \E n \in {-1, call[t].count} : Return(t, n, <<>>)

ReadPastEnd(t) ==
    /\ pc[t] = "reading"
    /\ ~released
    /\ call[t].offset > stream.size
    /\ Return(t, 0, <<>>)

CutShort(end, offset, count) == IF offset + count >= end THEN end - offset - 1 ELSE count

CutSwapped(end, offset, count) == IF offset + count > end THEN offset - end ELSE count

\* The count cut to the end of the segment, or of the file.
CutTo(end, offset, count) == IF offset + count > end THEN end - offset ELSE count

(* fileRead() of data: the descriptor may fail, and is invalid once the    *)
(* zip is closed, which fileRead() does not look at.                       *)
DataRead(offset, count) ==
    LET n == IF count = 0 \/ offset > Length THEN 0 ELSE CutTo(Length, offset, count)
        data == [i \in 1 .. n |-> CellAt(offset + i - 1)]
    IN  (IF closed /\ n > 0 THEN {} ELSE {[n |-> n, data |-> data]})
        \cup (IF (closed \/ "read" \in faults) /\ n > 0 THEN {[n |-> -1, data |-> <<>>]} ELSE {})

ReadStored(t) ==
    /\ pc[t] = "reading"
    /\ ~released
    /\ call[t].offset <= stream.size
    /\ stream.method = "stored"
    /\ \E r \in DataRead(stream.offset + call[t].offset,
                         CutTo(stream.size, call[t].offset, call[t].count)) :
         Return(t, r.n, [i \in DOMAIN r.data |->
                            IF r.data[i].kind = "data" THEN r.data[i].byte ELSE Garbage])

(* The whole segment is read and inflated, and the part asked for copied.  *)
(* inflate() ends at the end of the deflated data it begins with.          *)
Inflated(data, size) ==
    LET first == data[1]
    IN  IF /\ Len(data) > 0
           /\ first.kind = "data"
           /\ first.deflates # <<>>
           /\ first.packed <= Len(data)
           /\ Len(first.deflates) <= size
        THEN {[i \in 1 .. size |-> IF i <= Len(first.deflates) THEN first.deflates[i] ELSE Garbage]}
        ELSE {}

ReadDeflated(t) ==
    /\ pc[t] = "reading"
    /\ ~released
    /\ call[t].offset <= stream.size
    /\ stream.method = "deflate"
    /\ LET n == CutTo(stream.size, call[t].offset, call[t].count)
       IN  \/ /\ stream.size > WholeStream
              /\ Return(t, -1, <<>>)
           \/ /\ stream.size <= WholeStream
              /\ \E r \in DataRead(stream.offset, stream.csize) :
                   \/ \E bytes \in Inflated(r.data, stream.size) :
                        Return(t, n, SubSeq(bytes, call[t].offset + 1, call[t].offset + n))
                   \/ Inflated(r.data, stream.size) = {} /\ Return(t, -1, <<>>)

ReadOther(t) ==
    /\ pc[t] = "reading"
    /\ ~released
    /\ call[t].offset <= stream.size
    /\ stream.method = "other"
    /\ Return(t, -1, <<>>)

-----------------------------------------------------------------------------
(* ZipSegmentStream::close(), and Zip::close()                             *)

CloseStream ==
    /\ stream # NoStream
    /\ ~streamClosed
    /\ streamClosed' = TRUE
    /\ UNCHANGED <<input, parser, closed, stream, released, reader>>

Release ==
    /\ streamClosed
    /\ ~released
    /\ released' = TRUE
    /\ UNCHANGED <<input, parser, closed, stream, streamClosed, reader>>

CloseZip ==
    /\ phase = "done"
    /\ ~closed
    /\ closed' = TRUE
    /\ entries' = <<>>
    /\ UNCHANGED <<input, phase, dir, entryOffset, entry, comment, errno, stream, streamClosed, released, reader>>

ReadStep(t) ==
    \/ Refuse(t) \/ Enter(t) \/ ReadReleased(t) \/ ReadPastEnd(t)
    \/ ReadStored(t) \/ ReadDeflated(t) \/ ReadOther(t)

Next ==
    \/ ParseStep
    \/ GetStream \/ CloseStream \/ Release \/ CloseZip
    \/ \E t \in Threads : (\E c \in Calls : Call(t, c)) \/ ReadStep(t)

Spec == Init /\ [][Next]_vars

\* The constructor keeps running.
FairSpec == Spec /\ WF_vars(ParseStep)

-----------------------------------------------------------------------------
(* Properties.                                                             *)

Intact == "parse" \notin faults /\ archive.shift = 0 /\ WellFormed(archive)

(* What the directory says of a segment, told from how the archive was put *)
(* together.  When the zip64 field has sizes but no offset, it is not      *)
(* looked at: the sizes stay what the 32 bit fields hold, 0xffffffff.      *)
Meant(e, m) ==
    LET header == Cell(archive, m.entry)
    IN  /\ e.name = m.name /\ e.method = m.method
        /\ e.headerOffset = m.header /\ e.offset = m.start
        /\ IF SizesOnly(archive, m)
           THEN e.size = header.size /\ e.csize = header.csize
           ELSE e.size = Len(m.bytes) /\ e.csize = m.packed

(* At every moment the entries are those of the first segments in the      *)
(* directory, with the place of their data, and with their sizes wherever  *)
(* the zip64 field is not one of sizes alone; whatever other extra fields  *)
(* and comments come with them (Zip.cc:277-350, 299).                      *)
EntriesAreMeant ==
    Intact => /\ Len(entries) <= Len(archive.members)
              /\ \A i \in DOMAIN entries : Meant(entries[i], archive.members[i])

(* The constructor leaves no error behind only after the whole directory   *)
(* was read, also when reads of the file fail on the way ("consult errno   *)
(* for the error condition", Zip.h:306; Zip.cc:179, 351).                  *)
NoErrorMeansComplete ==
    phase = "done" /\ ~errno /\ ~closed => Len(entries) = Len(archive.members)

(* An archive whose file can be read is opened in full.                    *)
IntactOpens == Intact /\ phase = "done" /\ ~closed => Len(entries) = Len(archive.members)

(* Also one that was appended to another file: "we also need to know the   *)
(* global shift" (Zip.cc:251-255).                                         *)
AppendedOpens ==
    "parse" \notin faults /\ phase = "done" /\ ~closed => Len(entries) = Len(archive.members)

\* The archive is read as written, and so are the sizes of the segment.
Readable ==
    /\ Intact
    /\ \A i \in DOMAIN archive.members :
         archive.members[i].name = segment => ~SizesOnly(archive, archive.members[i])

(* A segment is a byte stream: reads give its bytes or fail, stored or     *)
(* deflated, up to its close().                                            *)
Content ==
    LET same == {i \in DOMAIN archive.members : archive.members[i].name = segment}
        bytes == archive.members[CHOOSE i \in same : \A j \in same : i <= j].bytes
    IN  IF same = {} THEN <<>> ELSE [o \in 0 .. Len(bytes) - 1 |-> bytes[o + 1]]
Bytes == INSTANCE ByteStream WITH
    content <- Content,
    open <- ~streamClosed,
    call <- [t \in Threads |-> IF Readable THEN call[t] ELSE NoCall],
    reply <- [t \in Threads |->
        IF ~Readable \/ result[t] = NoReply THEN NoReply ELSE [n |-> result[t], bytes |-> buf[t]]]
IsByteStream == Bytes!Spec

(* A read that does not fail serves all of the request that lies in the    *)
(* segment: a short count means its end (Zip.h:351).                       *)
AllOrError ==
    \A t \in Threads :
        Readable /\ ~released /\ result[t] \in Nat =>
            result[t] = Cardinality(
                {o \in DOMAIN Content : o >= call[t].offset /\ o < call[t].offset + call[t].count})

\* The end of an extra field is 2^16 or more from the beginning of the first.
FieldOverflows ==
    /\ phase = "extra"
    /\ LET field == CellAt(dir.globalOffset + entryOffset + 2 + entry.extra)
       IN  field.kind = "extra" /\ entry.extra + 1 + field.words >= W16

(* Opening a file ends, whatever its extra fields hold: every turn of the  *)
(* loops over entries and extra fields goes on or gives up (Zip.cc:277,    *)
(* 303).  The one exception is a field so long that the 16 bit offset of   *)
(* the next one overflows: it can lead back to a field that was done.      *)
ParseEnds == <>(phase = "done" \/ FieldOverflows)
=============================================================================
