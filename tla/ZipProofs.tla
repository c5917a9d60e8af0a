----------------------------- MODULE ZipProofs -----------------------------
(***************************************************************************)
(* Proofs about Zip, for every file with a directory (ZipFormat), any      *)
(* faults, readers and requests: what the constructor has found of the     *)
(* directory, what errno says of it, how much a read serves, and that what *)
(* it serves are the bytes of the segment.                                 *)
(***************************************************************************)
EXTENDS Zip, TLAPS, FiniteSetTheorems, SequenceTheorems, WellFoundedInduction

Phases == {"open", "tail", "directory", "entry", "extra", "local", "done"}
CallRecord == [offset : Nat, count : Nat, late : BOOLEAN]
EntryRead == [name : Names \cup {Garbage}, method : Methods, size : Nat, csize : Nat,
              headerOffset : Nat, extra : Nat, extraLen : Nat, total : Nat]

VarsType ==
    /\ archive \in Archives /\ faults \in FaultSets /\ segment \in Names
    /\ phase \in Phases
    /\ dir \in [endAt : Nat, offset : Nat, count : Nat, globalOffset : Nat]
    /\ entryOffset \in Nat
    /\ phase \in {"extra", "local"} => entry \in EntryRead
    /\ entries \in Seq(Entry)
    /\ errno \in BOOLEAN /\ closed \in BOOLEAN /\ streamClosed \in BOOLEAN /\ released \in BOOLEAN
    /\ stream \in Entry \cup {NoStream}

ReaderType ==
    /\ pc \in [Threads -> {"idle", "called", "reading"}]
    /\ call = [t \in Threads |-> call[t]]
    /\ buf = [t \in Threads |-> buf[t]]
    /\ result = [t \in Threads |-> result[t]]
    /\ \A t \in Threads : result[t] \in Nat \cup {-1, NoReply}
    /\ \A t \in Threads : pc[t] # "idle" \/ result[t] # NoReply =>
         stream # NoStream /\ call[t] \in CallRecord

Count == Len(archive.members)

\* The segment whose directory entry comes next, and the fixed part of that entry.
Current == archive.members[Len(entries) + 1]
Header == Cell(archive, Current.entry)

\* The end record at p says where the directory is, or the zip64 record before it does.
TellsAt(p) ==
    IF Cell(archive, p).offset # Max32
    THEN TellsDirectory(archive, p)
    ELSE /\ Cell(archive, p - 1).kind = "locator" /\ Cell(archive, p - 2).kind = "end64"
         /\ TellsDirectory(archive, p - 2)

\* Where in the directory the constructor is, also when reads fail.
PlaceInv ==
    /\ phase \in {"open", "tail", "directory"} => entries = <<>>
    /\ phase = "directory" => CellAt(dir.endAt).kind = "end" /\ TellsAt(dir.endAt)
    /\ phase \in {"entry", "extra", "local"} =>
         /\ dir.count = Count /\ dir.globalOffset = archive.shift
         /\ Len(entries) <= Count
         /\ Len(entries) < Count => dir.globalOffset + entryOffset = Current.entry
    /\ phase \in {"extra", "local"} =>
         /\ Len(entries) < Count
         /\ entry.method = Header.method /\ entry.extraLen = Header.extraLen
         /\ entry.total = 2 + Header.extraLen + Header.commentLen
    /\ phase = "extra" => Header.headerOffset = Max32

\* errno is set from the opening of the file to the end of a complete directory.
ErrnoInv ==
    /\ phase = "open" => closed
    /\ phase \notin {"open", "done"} => errno /\ ~closed
    /\ ~errno /\ ~closed => phase = "done" /\ Len(entries) = Count
    /\ closed => entries = <<>>

HeaderValues ==
    entry.size = Header.size /\ entry.csize = Header.csize /\ entry.headerOffset = Header.headerOffset
CurrentValues ==
    /\ entry.headerOffset = Current.header
    /\ IF SizesOnly(archive, Current)
       THEN entry.size = Header.size /\ entry.csize = Header.csize
       ELSE entry.size = Len(Current.bytes) /\ entry.csize = Current.packed

\* The zip64 field is still to come, or it was taken.
Zip64Ahead ==
    /\ HeaderValues
    /\ \A y \in Extras(archive, Current) : IsZip64(ExtraCell(archive, Current, y)) => entry.extra <= y
Zip64Taken ==
    /\ CurrentValues
    /\ \A y \in Extras(archive, Current) : IsZip64(ExtraCell(archive, Current, y)) => y < entry.extra

\* What the constructor has found of a file that can be read.
FoundInv ==
    Intact =>
      /\ Len(entries) <= Count
      /\ \A i \in DOMAIN entries : Meant(entries[i], archive.members[i])
      /\ phase \in {"extra", "local"} => entry.name = Current.name
      /\ phase = "extra" =>
           entry.extra \in Extras(archive, Current) \cup {entry.extraLen} /\ (Zip64Ahead \/ Zip64Taken)
      /\ phase = "local" => CurrentValues
      /\ phase = "done" /\ ~closed => Len(entries) = Count

IInv == VarsType /\ ReaderType /\ PlaceInv /\ ErrnoInv /\ FoundInv

-----------------------------------------------------------------------------
LEMMA ArchiveIs ==
  ASSUME archive \in Archives
  PROVE  /\ HasDirectory(archive) /\ archive.shift \in Nat /\ Len(archive.cells) \in Nat /\ Count \in Nat
         /\ DOMAIN archive.members = 1 .. Count
         /\ \A k \in 1 .. Count : MemberType(archive.members[k]) /\ HasHeader(archive, k)
         /\ HasEnd(archive)
         /\ \A p : CellType(Cell(archive, p))
<1>1. HasDirectory(archive)
  BY ArchivesAssumption
<1>2. ASSUME NEW p
      PROVE  CellType(Cell(archive, p))
  <2>1. CASE p \in 0 .. Len(archive.cells) - 1
    BY <1>1, <2>1 DEF HasDirectory
  <2>2. CASE p \notin 0 .. Len(archive.cells) - 1
    <3>1. Cell(archive, p).kind = "nothing"
      BY <2>2 DEF Cell, Nothing
    <3> QED
      BY <3>1 DEF CellType
  <2> QED
    BY <2>1, <2>2
<1> QED
  BY <1>1, <1>2 DEF HasDirectory, Count

LEMMA Sizes == Max32 \in Nat /\ W16 \in Nat \ {0} /\ TailSize \in Nat /\ WholeStream \in Nat
  BY SizesAssumption

\* What the format says of a segment, in a file that is read as written.
LEMMA MemberIs ==
  ASSUME archive \in Archives, Intact, NEW k \in 1 .. Count
  PROVE  LET m == archive.members[k]
         IN  ExtrasFollow(archive, m) /\ HasValues(archive, m) /\ HasSegment(archive, m)
  BY ArchiveIs DEF Intact, WellFormed

\* What a read of the file gives: the cell that is there, or nothing.
LEMMA ReadIs ==
  ASSUME NEW p, NEW c \in FileRead(p)
  PROVE  /\ c.kind # "nothing" => c = Cell(archive, p)
         /\ Intact => c = Cell(archive, p)
  BY DEF FileRead, CellAt, Nothing, Intact

LEMMA InitInv == Init => IInv
<1> SUFFICES ASSUME Init
             PROVE  IInv
  OBVIOUS
<1>1. Count \in Nat
  BY ArchiveIs DEF Init
<1>2. entries = <<>>
  BY DEF Init
<1>8. entries \in Seq(Entry) /\ Len(entries) = 0 /\ DOMAIN entries = {}
  BY <1>2
<1>3. VarsType
  BY <1>8 DEF Init, VarsType, Phases, NoDir
<1>4. ReaderType
  BY DEF Init, ReaderType
<1>5. PlaceInv
  BY <1>2 DEF Init, PlaceInv
<1>6. ErrnoInv
  BY DEF Init, ErrnoInv
<1>7. FoundInv
  <2>1. phase = "open"
    BY DEF Init
  <2> QED
    BY <1>1, <1>8, <2>1 DEF FoundInv
<1> QED
  BY <1>3, <1>4, <1>5, <1>6, <1>7 DEF IInv

-----------------------------------------------------------------------------
(* The steps of the constructor.                                           *)

LEMMA ReaderSame ==
  ASSUME ReaderType, stream' = stream, UNCHANGED reader
  PROVE  ReaderType'
  BY DEF ReaderType, reader, CallRecord

\* What an opening step, before the first entry, has to show.
LEMMA EarlyInv ==
  ASSUME IInv, UNCHANGED <<archive, faults, segment, entries, stream, streamClosed, released, reader>>,
         entries = <<>>, phase' \in {"tail", "directory", "done"},
         dir' \in [endAt : Nat, offset : Nat, count : Nat, globalOffset : Nat], entryOffset' \in Nat,
         closed' \in BOOLEAN, errno' \in BOOLEAN,
         phase' = "directory" => CellAt(dir'.endAt).kind = "end" /\ TellsAt(dir'.endAt),
         errno' = TRUE, phase' # "done" => ~closed', (Intact /\ phase' = "done") => closed'
  PROVE  IInv'
<1>1. Count \in Nat /\ entries' = <<>> /\ Len(entries') = 0 /\ DOMAIN entries' = {} /\ Count' = Count
  BY ArchiveIs DEF IInv, VarsType, Count
<1>2. VarsType'
  BY DEF IInv, VarsType, Phases
<1>3. ReaderType'
  BY ReaderSame DEF IInv
<1>4. PlaceInv'
  BY <1>1 DEF PlaceInv, CellAt, TellsAt
<1>5. ErrnoInv'
  BY DEF ErrnoInv
<1>6. FoundInv'
  BY <1>1 DEF FoundInv, Intact
<1> QED
  BY <1>2, <1>3, <1>4, <1>5, <1>6 DEF IInv

LEMMA OpenInv ==
  ASSUME IInv, Open \/ OpenFails
  PROVE  IInv'
<1>1. /\ UNCHANGED <<archive, faults, segment, entries, stream, streamClosed, released, reader, dir, entryOffset>>
      /\ phase = "open" /\ errno' = TRUE
      /\ \/ phase' = "tail" /\ closed' = FALSE
         \/ phase' = "done" /\ closed' = closed /\ "parse" \in faults
  BY DEF Open, OpenFails, Parse, GiveUp, input, object
<1>2. entries = <<>> /\ closed = TRUE
  BY <1>1 DEF IInv, PlaceInv, ErrnoInv, VarsType
<1> QED
  BY <1>1, <1>2, EarlyInv DEF IInv, VarsType, Intact

LEMMA EndIs ==
  ASSUME archive \in Archives
  PROVE  /\ EndRecords = {p \in EndRegion(archive) : Cell(archive, p).kind = "end"}
         /\ EndRecords # {} /\ EndRecords \subseteq Nat
         /\ LET at == CHOOSE p \in EndRecords : \A q \in EndRecords : q <= p
            IN  at \in EndRecords /\ TellsAt(at)
<1>1. Len(archive.cells) \in Nat /\ HasEnd(archive)
  BY ArchiveIs
<1>2. EndRecords = {p \in EndRegion(archive) : Cell(archive, p).kind = "end"}
  BY DEF EndRecords, EndRegion, Length, CellAt
<1>3. EndRegion(archive) \subseteq Nat
  <2> DEFINE n == IF Len(archive.cells) < TailSize THEN Len(archive.cells) ELSE TailSize
  <2>1. n \in Nat /\ n <= Len(archive.cells)
    BY <1>1, Sizes
  <2>2. EndRegion(archive) = Len(archive.cells) - n + 1 .. Len(archive.cells) - 1
    BY DEF EndRegion
  <2> HIDE DEF n
  <2>3. Len(archive.cells) - n + 1 \in Nat
    BY <1>1, <2>1
  <2> QED
    BY <1>1, <2>2, <2>3
<1>4. PICK p \in EndRecords : (\A q \in EndRecords : q <= p) /\ TellsAt(p)
  BY <1>1, <1>2 DEF HasEnd, TellsAt
<1> DEFINE at == CHOOSE q \in EndRecords : \A r \in EndRecords : r <= q
<1>5. at \in EndRecords /\ \A r \in EndRecords : r <= at
  BY <1>4
<1> HIDE DEF at
<1>6. at = p
  BY <1>2, <1>3, <1>4, <1>5
<1> QED
  BY <1>2, <1>3, <1>4, <1>6 DEF at

LEMMA FindEndInv ==
  ASSUME IInv, FindEnd
  PROVE  IInv'
<1> DEFINE at == CHOOSE p \in EndRecords : \A q \in EndRecords : q <= p
<1>1. archive \in Archives /\ entries = <<>> /\ ~closed /\ errno = TRUE /\ closed = FALSE
      /\ dir \in [endAt : Nat, offset : Nat, count : Nat, globalOffset : Nat] /\ entryOffset \in Nat
  BY DEF FindEnd, IInv, VarsType, PlaceInv, ErrnoInv
<1>2. UNCHANGED <<archive, faults, segment, entries, stream, streamClosed, released, reader, entryOffset,
                  errno, closed>>
  BY DEF FindEnd, input, object
<1>3. CASE EndRecords # {} /\ dir' = [dir EXCEPT !.endAt = at] /\ phase' = "directory"
  <2>1. at \in EndRecords /\ at \in Nat /\ Cell(archive, at).kind = "end" /\ TellsAt(at)
    BY <1>1, EndIs
  <2> HIDE DEF at
  <2>2. dir' \in [endAt : Nat, offset : Nat, count : Nat, globalOffset : Nat] /\ dir'.endAt = at
    BY <1>1, <1>3, <2>1
  <2> QED
    BY <1>1, <1>2, <1>3, <2>1, <2>2, EarlyInv DEF CellAt
<1>4. CASE (EndRecords = {} \/ "parse" \in faults) /\ dir' = dir /\ phase' = "done"
  <2>1. ~Intact
    BY <1>1, <1>4, EndIs DEF Intact
  <2> QED
    BY <1>1, <1>2, <1>4, <2>1, EarlyInv
<1> QED
  BY <1>3, <1>4 DEF FindEnd, Parse, GiveUp

\* The place of the first entry.
LEMMA FirstEntryInv ==
  ASSUME IInv, phase = "directory", NEW p \in Nat, TellsDirectory(archive, p),
         Cell(archive, p).kind \in {"end", "end64"},
         LET end == Cell(archive, p) IN FirstEntry(end.offset, end.count, p - end.size - end.offset),
         UNCHANGED <<input, entry, entries, comment, errno, object, reader>>
  PROVE  IInv'
<1> DEFINE end == Cell(archive, p)
           base == p - end.size - end.offset
<1>1. /\ archive \in Archives /\ entries = <<>> /\ errno = TRUE /\ closed = FALSE
      /\ dir \in [endAt : Nat, offset : Nat, count : Nat, globalOffset : Nat]
  BY DEF IInv, VarsType, PlaceInv, ErrnoInv
<1>2. /\ end.offset \in Nat /\ end.count = Count /\ base = archive.shift /\ archive.shift \in Nat /\ Count \in Nat
      /\ Count > 0 => archive.members[1].entry = archive.shift + end.offset
  BY <1>1, ArchiveIs DEF TellsDirectory, CellType, Count
<1>3. /\ dir' = [dir EXCEPT !.offset = end.offset, !.count = end.count, !.globalOffset = base]
      /\ entryOffset' = end.offset /\ phase' = "entry"
  BY DEF FirstEntry, Parse
<1> HIDE DEF base, end
<1>4. /\ dir' \in [endAt : Nat, offset : Nat, count : Nat, globalOffset : Nat]
      /\ dir'.count = Count /\ dir'.globalOffset = archive.shift /\ entryOffset' \in Nat
  BY <1>1, <1>2, <1>3
<1>5. /\ UNCHANGED <<archive, faults, segment, entries, errno, closed, stream, streamClosed, released, reader>>
      /\ Len(entries) = 0 /\ DOMAIN entries = {} /\ Count' = Count
  BY <1>1 DEF input, object, Count
<1>6. VarsType'
  BY <1>3, <1>4, <1>5 DEF IInv, VarsType, Phases
<1>7. ReaderType'
  BY <1>5, ReaderSame DEF IInv
<1>8. PlaceInv'
  BY <1>2, <1>3, <1>4, <1>5 DEF PlaceInv, Current
<1>9. ErrnoInv'
  BY <1>1, <1>3, <1>5 DEF ErrnoInv
<1>10. FoundInv'
  BY <1>2, <1>3, <1>5 DEF FoundInv, Intact
<1> QED
  BY <1>6, <1>7, <1>8, <1>9, <1>10 DEF IInv

LEMMA FindDirectoryInv ==
  ASSUME IInv, FindDirectory \/ FindDirectory64
  PROVE  IInv'
<1>1. /\ phase = "directory" /\ dir.endAt \in Nat /\ Cell(archive, dir.endAt).kind = "end" /\ TellsAt(dir.endAt)
      /\ UNCHANGED <<input, entry, entries, comment, errno, object, reader>>
  BY DEF FindDirectory, FindDirectory64, IInv, VarsType, PlaceInv, CellAt
<1>2. CASE FindDirectory
  <2>1. TellsDirectory(archive, dir.endAt)
    BY <1>1, <1>2 DEF FindDirectory, TellsAt, CellAt
  <2>2. LET end == Cell(archive, dir.endAt)
        IN  FirstEntry(end.offset, end.count, dir.endAt - end.size - end.offset)
    BY <1>2 DEF FindDirectory, CellAt
  <2> QED
    BY <1>1, <2>1, <2>2, FirstEntryInv
<1>3. CASE FindDirectory64
  <2>1. /\ Cell(archive, dir.endAt - 1).kind = "locator" /\ Cell(archive, dir.endAt - 2).kind = "end64"
        /\ TellsDirectory(archive, dir.endAt - 2)
    BY <1>1, <1>3 DEF FindDirectory64, TellsAt, CellAt
  <2>2. PICK locator \in FileRead(dir.endAt - 1), end \in FileRead(dir.endAt - 2) :
          IF locator.kind = "locator" /\ end.kind = "end64"
          THEN FirstEntry(end.offset, end.count, (dir.endAt - 2) - end.size - end.offset)
          ELSE GiveUp /\ UNCHANGED <<dir, entryOffset>>
    BY <1>3 DEF FindDirectory64
  <2>3. CASE locator.kind = "locator" /\ end.kind = "end64"
    <3>1. end = Cell(archive, dir.endAt - 2)
      BY <2>3, ReadIs
    <3>2. dir.endAt - 2 \in Nat
      BY <1>1, <2>1 DEF Cell, Nothing
    <3> QED
      BY <1>1, <2>1, <2>2, <2>3, <3>1, <3>2, FirstEntryInv
  <2>4. CASE ~(locator.kind = "locator" /\ end.kind = "end64")
    <3>1. ~Intact
      BY <2>1, <2>4, ReadIs
    <3>2. phase' = "done" /\ UNCHANGED <<dir, entryOffset>>
      BY <2>2, <2>4 DEF GiveUp
    <3>3. /\ entries = <<>> /\ errno = TRUE /\ closed = FALSE
          /\ dir \in [endAt : Nat, offset : Nat, count : Nat, globalOffset : Nat] /\ entryOffset \in Nat
      BY <1>1 DEF IInv, VarsType, PlaceInv, ErrnoInv
    <3>4. UNCHANGED <<archive, faults, segment, entries, errno, closed, stream, streamClosed, released, reader>>
      BY <1>1 DEF input, object
    <3> QED
      BY <1>1, <3>1, <3>2, <3>3, <3>4, EarlyInv
  <2> QED
    BY <2>3, <2>4
<1> QED
  BY <1>2, <1>3

\* The segment whose entry comes next, as the format describes it.
LEMMA CurrentIs ==
  ASSUME IInv, Len(entries) < Count
  PROVE  /\ Len(entries) + 1 \in 1 .. Count /\ MemberType(Current)
         /\ Header.kind = "entry" /\ CellType(Header) /\ Header.method = Current.method
         /\ Cell(archive, Current.entry + 1) = [kind |-> "name", name |-> Current.name]
         /\ Len(entries) + 1 < Count =>
              archive.members[Len(entries) + 2].entry = Current.entry + 2 + Header.extraLen + Header.commentLen
         /\ Intact => /\ ExtrasFollow(archive, Current) /\ HasValues(archive, Current)
                      /\ HasSegment(archive, Current)
<1>1. archive \in Archives /\ entries \in Seq(Entry) /\ Len(entries) \in Nat
  BY DEF IInv, VarsType
<1>2. Count \in Nat
  BY <1>1, ArchiveIs
<1> DEFINE k == Len(entries) + 1
<1>3. k \in 1 .. Count
  BY <1>1, <1>2
<1>4. MemberType(archive.members[k]) /\ HasHeader(archive, k)
  BY <1>1, <1>3, ArchiveIs
<1>6. CellType(Header)
  BY <1>1, ArchiveIs DEF Header
<1>5. k + 1 = Len(entries) + 2
  BY <1>1
<1>7. Intact => /\ ExtrasFollow(archive, Current) /\ HasValues(archive, Current)
                /\ HasSegment(archive, Current)
  BY <1>1, <1>3, MemberIs DEF Current
<1> QED
  BY <1>3, <1>4, <1>5, <1>6, <1>7 DEF HasHeader, Current, Header, Count

\* The constructor gives up in the directory: some read has failed.
LEMMA GaveUp ==
  ASSUME IInv, phase \in {"entry", "extra", "local"}, phase' = "done", ~Intact,
         UNCHANGED <<input, dir, entryOffset, entry, entries, comment, errno, object, reader>>
  PROVE  IInv'
<1>1. UNCHANGED <<archive, faults, segment, closed, stream, streamClosed, released>> /\ errno = TRUE
      /\ closed = FALSE
  BY DEF input, object, IInv, ErrnoInv, VarsType
<1>2. VarsType'
  BY <1>1 DEF IInv, VarsType, Phases
<1>3. ReaderType'
  BY <1>1, ReaderSame DEF IInv
<1>4. PlaceInv'
  BY DEF PlaceInv
<1>5. ErrnoInv'
  BY <1>1 DEF ErrnoInv
<1>6. FoundInv'
  BY <1>1 DEF FoundInv, Intact
<1> QED
  BY <1>2, <1>3, <1>4, <1>5, <1>6 DEF IInv

\* A step within the entry of the current segment.
LEMMA WithinEntry ==
  ASSUME IInv, phase \in {"entry", "extra", "local"}, Len(entries) < Count, phase' \in {"extra", "local"},
         UNCHANGED <<input, dir, entryOffset, entries, comment, errno, object, reader>>,
         entry' \in EntryRead,
         entry'.method = Header.method, entry'.extraLen = Header.extraLen,
         entry'.total = 2 + Header.extraLen + Header.commentLen,
         phase' = "extra" => Header.headerOffset = Max32,
         Intact => /\ entry'.name = Current.name
                   /\ phase' = "extra" => /\ entry'.extra \in Extras(archive, Current) \cup {entry'.extraLen}
                                          /\ Zip64Ahead' \/ Zip64Taken'
                   /\ phase' = "local" => CurrentValues'
  PROVE  IInv'
<1>1. UNCHANGED <<archive, faults, segment, closed, stream, streamClosed, released>> /\ errno = TRUE /\ ~closed
  BY DEF input, object, IInv, ErrnoInv, VarsType
<1>2. VarsType'
  BY <1>1 DEF IInv, VarsType, Phases
<1>3. ReaderType'
  BY <1>1, ReaderSame DEF IInv
<1>4. PlaceInv'
  BY <1>1 DEF IInv, PlaceInv, Current, Header, Count
<1>5. ErrnoInv'
  BY <1>1 DEF ErrnoInv
<1>6. FoundInv'
  <2>1. Count' = Count /\ Current' = Current /\ Intact' = Intact
    BY <1>1 DEF Count, Current, Intact
  <2>2. CASE Intact
    <3>1. phase' # "done" /\ Len(entries') <= Count'
      BY <2>1, <2>2 DEF IInv, FoundInv
    <3>2. \A i \in DOMAIN entries' : (Meant(entries[i], archive.members[i]))'
      BY <1>1, <2>2 DEF IInv, FoundInv, Meant
    <3> QED
      BY <1>1, <2>1, <2>2, <3>1, <3>2 DEF FoundInv
  <2>3. CASE ~Intact
    BY <2>1, <2>3 DEF FoundInv
  <2> QED
    BY <2>2, <2>3
<1> QED
  BY <1>2, <1>3, <1>4, <1>5, <1>6 DEF IInv

LEMMA ReadHeaderInv ==
  ASSUME IInv, ReadHeader
  PROVE  IInv'
<1>1. /\ phase = "entry" /\ Len(entries) < Count
      /\ dir.globalOffset + entryOffset = Current.entry
      /\ UNCHANGED <<input, dir, entryOffset, entries, comment, errno, object, reader>>
  BY DEF ReadHeader, IInv, PlaceInv
<1>2. PICK header \in FileRead(Current.entry), name \in FileRead(Current.entry + 1) :
        IF header.kind # "entry"
        THEN GiveUp /\ UNCHANGED entry
        ELSE /\ entry' = [name |-> IF name.kind = "name" THEN name.name ELSE Garbage,
                          method |-> header.method, size |-> header.size,
                          csize |-> header.csize, headerOffset |-> header.headerOffset,
                          extra |-> 0, extraLen |-> header.extraLen,
                          total |-> 2 + header.extraLen + header.commentLen]
             /\ Parse(IF IsWide(entry') THEN "extra" ELSE "local")
  BY <1>1 DEF ReadHeader
<1>3. /\ Header.kind = "entry" /\ CellType(Header) /\ Header.method = Current.method
      /\ Cell(archive, Current.entry + 1) = [kind |-> "name", name |-> Current.name]
      /\ MemberType(Current)
      /\ Intact => ExtrasFollow(archive, Current) /\ HasValues(archive, Current)
  BY <1>1, CurrentIs
<1>4. CASE header.kind # "entry"
  <2>1. ~Intact
    BY <1>3, <1>4, ReadIs DEF Header
  <2> QED
    BY <1>1, <1>2, <1>4, <2>1, GaveUp DEF GiveUp
<1>5. CASE header.kind = "entry"
  <2>1. header = Header
    BY <1>5, ReadIs DEF Header
  <2> DEFINE named == IF name.kind = "name" THEN name.name ELSE Garbage
  <2>2. named \in Names \cup {Garbage} /\ (Intact => named = Current.name)
    BY <1>3, ReadIs DEF MemberType
  <2> HIDE DEF named
  <2>3. /\ Header.method \in Methods /\ Header.size \in Nat /\ Header.csize \in Nat
        /\ Header.headerOffset \in Nat /\ Header.extraLen \in Nat /\ Header.commentLen \in Nat
    BY <1>3 DEF CellType
  <2>4. /\ entry' = [name |-> named, method |-> Header.method, size |-> Header.size,
                     csize |-> Header.csize, headerOffset |-> Header.headerOffset,
                     extra |-> 0, extraLen |-> Header.extraLen,
                     total |-> 2 + Header.extraLen + Header.commentLen]
        /\ phase' = (IF Header.headerOffset = Max32 THEN "extra" ELSE "local")
    BY <1>2, <1>5, <2>1 DEF named, Parse, IsWide
  <2>5. entry' \in EntryRead
    BY <2>2, <2>3, <2>4 DEF EntryRead
  <2>6. Intact => entry'.extra \in Extras(archive, Current) \cup {entry'.extraLen}
    <3>1. Intact /\ Header.extraLen > 0 => 0 \in Extras(archive, Current)
      BY <1>3 DEF ExtrasFollow, Header
    <3>2. Header.extraLen > 0 \/ Header.extraLen = 0
      BY <2>3
    <3> QED
      BY <2>4, <3>1, <3>2
  <2>7. archive' = archive /\ Current' = Current /\ Header' = Header
    BY <1>1 DEF input, Current, Header
  <2>8. Zip64Ahead'
    <3>1. \A y \in Extras(archive, Current) : 0 <= y
      BY DEF Extras
    <3>2. HeaderValues'
      BY <2>4, <2>7 DEF HeaderValues
    <3> QED
      BY <2>4, <2>7, <3>1, <3>2 DEF Zip64Ahead
  <2>9. Intact /\ phase' = "local" => CurrentValues'
    BY <1>3, <2>4, <2>7 DEF CurrentValues, SizesOnly, HasValues, WordsFrom, InField, Header
  <2>11. phase' = "extra" => Header.headerOffset = Max32
    BY <2>4
  <2>10. entry'.method = Header.method /\ entry'.extraLen = Header.extraLen
         /\ entry'.total = 2 + Header.extraLen + Header.commentLen /\ entry'.name = named
         /\ phase' \in {"extra", "local"}
    BY <2>4
  <2> QED
    BY <1>1, <2>2, <2>5, <2>6, <2>8, <2>9, <2>10, <2>11, WithinEntry
<1> QED
  BY <1>4, <1>5

\* What a wide entry's 64 bit values come to, when every read succeeds.
LEMMA ValuesTaken ==
  ASSUME MemberType(Current), CellType(Header), Header.kind = "entry", NEW x \in Nat,
         WordsFrom(archive, Current, x), Header.headerOffset = Max32, HeaderValues,
         NEW at, at = Current.entry + 2 + x
  PROVE  /\ Widened(entry, "size", at, {}) = Len(Current.bytes)
         /\ Widened(entry, "csize", at, {}) = Current.packed
         /\ Widened(entry, "headerOffset", at, {}) = Current.header
<1> DEFINE word(k, value) == ExtraCell(archive, Current, x + k) = [kind |-> "word", value |-> value]
           wideSize == IF Header.size = Max32 THEN 1 ELSE 0
           wideSizes == IF Header.csize = Max32 THEN wideSize + 1 ELSE wideSize
<1>1. /\ IF Header.size = Max32 THEN word(1, Len(Current.bytes)) ELSE Header.size = Len(Current.bytes)
      /\ IF Header.csize = Max32 THEN word(wideSize + 1, Current.packed) ELSE Header.csize = Current.packed
      /\ word(wideSizes + 1, Current.header)
  BY DEF WordsFrom, InField, Header
<1>2. wideSize \in Nat /\ wideSizes \in Nat
  OBVIOUS
<1>3. /\ WordOf(entry, "size") = 1
      /\ WordOf(entry, "csize") = 1 + wideSize
      /\ WordOf(entry, "headerOffset") = wideSizes + 1
  BY DEF WordOf, Wide, HeaderValues
<1>4. \A k \in Nat : CellAt(at + k) = ExtraCell(archive, Current, x + k)
  <2> SUFFICES ASSUME NEW k \in Nat
               PROVE  CellAt(at + k) = ExtraCell(archive, Current, x + k)
    OBVIOUS
  <2>1. at + k = Current.entry + 2 + (x + k)
    BY DEF MemberType
  <2> QED
    BY <2>1 DEF CellAt, ExtraCell
<1> HIDE DEF wideSize, wideSizes
<1>5. Widened(entry, "size", at, {}) = Len(Current.bytes)
  <2>1. CASE Header.size = Max32
    <3>1. CellAt(at + 1) = ExtraCell(archive, Current, x + 1)
      BY <1>4
    <3>2. CellAt(at + WordOf(entry, "size")) = [kind |-> "word", value |-> Len(Current.bytes)]
      BY <1>1, <1>3, <2>1, <3>1
    <3> QED
      BY <2>1, <3>2 DEF Widened, HeaderValues
  <2>2. CASE Header.size # Max32
    BY <1>1, <2>2 DEF Widened, HeaderValues
  <2> QED
    BY <2>1, <2>2
<1>6. Widened(entry, "csize", at, {}) = Current.packed
  <2>1. CASE Header.csize = Max32
    <3>1. wideSize + 1 = 1 + wideSize
      BY <1>2
    <3>3. CellAt(at + (wideSize + 1)) = ExtraCell(archive, Current, x + (wideSize + 1))
      BY <1>2, <1>4
    <3>2. CellAt(at + WordOf(entry, "csize")) = [kind |-> "word", value |-> Current.packed]
      BY <1>1, <1>3, <2>1, <3>1, <3>3
    <3> QED
      BY <2>1, <3>2 DEF Widened, HeaderValues
  <2>2. CASE Header.csize # Max32
    BY <1>1, <2>2 DEF Widened, HeaderValues
  <2> QED
    BY <2>1, <2>2
<1>7. Widened(entry, "headerOffset", at, {}) = Current.header
  <2>2. CellAt(at + (wideSizes + 1)) = ExtraCell(archive, Current, x + (wideSizes + 1))
    BY <1>2, <1>4
  <2>1. CellAt(at + WordOf(entry, "headerOffset")) = [kind |-> "word", value |-> Current.header]
    BY <1>1, <1>3, <2>2
  <2> QED
    BY <2>1 DEF Widened, HeaderValues
<1> QED
  BY <1>5, <1>6, <1>7

LEMMA WidenedIsNat ==
  ASSUME archive \in Archives, NEW at, NEW missed, NEW f, entry[f] \in Nat
  PROVE  Widened(entry, f, at, missed) \in Nat
<1> DEFINE word == CellAt(at + WordOf(entry, f))
<1>1. word.kind = "word" => word.value \in Nat
  BY ArchiveIs DEF CellAt, CellType
<1> QED
  BY <1>1 DEF Widened

LEMMA ModIs ==
  ASSUME NEW n \in Nat, NEW w \in Nat \ {0}
  PROVE  n % w \in Nat /\ (n < w => n % w = n)
  OBVIOUS

LEMMA ReadExtraInv ==
  ASSUME IInv, ReadExtra
  PROVE  IInv'
<1> DEFINE x == entry.extra
           at == Current.entry + 2 + x
           is == ExtraCell(archive, Current, x)
           next == x + 1 + is.words
<1>1. /\ phase = "extra" /\ Len(entries) < Count /\ x < entry.extraLen
      /\ entry \in EntryRead /\ archive \in Archives
      /\ dir.globalOffset + entryOffset = Current.entry
      /\ Header.headerOffset = Max32
      /\ Intact => x \in Extras(archive, Current) \cup {entry.extraLen}
      /\ entry.method = Header.method /\ entry.extraLen = Header.extraLen
      /\ entry.total = 2 + Header.extraLen + Header.commentLen
      /\ UNCHANGED <<input, dir, entryOffset, entries, comment, errno, object, reader>>
  BY DEF ReadExtra, IInv, PlaceInv, VarsType, FoundInv
<1>2. /\ Header.kind = "entry" /\ CellType(Header) /\ MemberType(Current)
      /\ Intact => ExtrasFollow(archive, Current) /\ HasValues(archive, Current)
  BY <1>1, CurrentIs
<1>3. x \in Nat /\ entry.extraLen \in 0 .. W16 - 1
  BY <1>1, <1>2 DEF EntryRead, CellType
<1>4. is = Cell(archive, at) /\ (is.kind = "extra" => is.words \in Nat)
  BY <1>1, Sizes, ArchiveIs DEF ExtraCell, CellType
<1>10. Intact => x \in Extras(archive, Current) /\ is.kind = "extra"
  BY <1>1, <1>3, Sizes DEF Extras
<1>5. ASSUME Intact
      PROVE  /\ next \in Extras(archive, Current) \cup {entry.extraLen}
             /\ \A y \in Extras(archive, Current) : x < y => next <= y
             /\ next < W16
  <2>1. \A e \in Extras(archive, Current) :
          LET after == e + 1 + ExtraCell(archive, Current, e).words
          IN  /\ after \in Extras(archive, Current) \cup {Header.extraLen}
              /\ \A y \in Extras(archive, Current) : e < y => after <= y
    BY <1>2, <1>5 DEF ExtrasFollow, Header
  <2>2. \A e \in Extras(archive, Current) : e < Header.extraLen
    BY <1>1, <1>3, Sizes DEF Extras, Header
  <2> HIDE DEF x
  <2>3. /\ next \in Extras(archive, Current) \cup {entry.extraLen}
        /\ \A y \in Extras(archive, Current) : x < y => next <= y
    BY <1>1, <1>5, <1>10, <2>1
  <2>4. next \in Nat
    BY <1>3, <1>4, <1>5, <1>10
  <2> HIDE DEF next
  <2>5. next < W16
    BY <1>1, <1>3, <2>2, <2>3, <2>4, Sizes
  <2> QED
    BY <2>3, <2>5
<1>9. dir.globalOffset + entryOffset + 2 + entry.extra = at
  BY <1>1
<1>6. PICK field \in FileRead(at),
           missed \in IF "parse" \in faults THEN SUBSET {"size", "csize", "headerOffset"} ELSE {{}} :
        IF field.kind # "extra"
        THEN GiveUp /\ UNCHANGED entry
        ELSE /\ entry' = [entry EXCEPT
                   !.extra = NextExtraAt(@, field),
                   !.size = IF field.id = 1 /\ field.words > 0 THEN Widened(entry, "size", at, missed) ELSE @,
                   !.csize = IF field.id = 1 /\ field.words > 0 THEN Widened(entry, "csize", at, missed) ELSE @,
                   !.headerOffset =
                       IF field.id = 1 /\ field.words > 0 THEN Widened(entry, "headerOffset", at, missed) ELSE @]
             /\ UNCHANGED phase
  BY <1>9, Zenon DEF ReadExtra
<1>7. CASE field.kind # "extra"
  <2>1. ~Intact
    BY <1>4, <1>7, <1>10, ReadIs
  <2> QED
    BY <1>1, <1>6, <1>7, <2>1, GaveUp DEF GiveUp
<1>8. CASE field.kind = "extra"
  <2> HIDE DEF x, at, is, next
  <2>1. field = is
    BY <1>4, <1>8, ReadIs
  <2>2. /\ entry' = [entry EXCEPT
              !.extra = next % W16,
              !.size = IF IsZip64(is) THEN Widened(entry, "size", at, missed) ELSE @,
              !.csize = IF IsZip64(is) THEN Widened(entry, "csize", at, missed) ELSE @,
              !.headerOffset = IF IsZip64(is) THEN Widened(entry, "headerOffset", at, missed) ELSE @]
        /\ phase' = "extra"
    BY <1>1, <1>6, <1>8, <2>1 DEF IsZip64, NextExtraAt, next, x
  <2>12. is.kind = "extra" /\ is.words \in Nat
    BY <1>4, <1>8, <2>1
  <2>13. next \in Nat
    BY <1>3, <2>12 DEF next
  <2>3. next % W16 \in Nat /\ (Intact => next % W16 = next)
    BY <1>5, <2>13, Sizes, ModIs
  <2>4. /\ Widened(entry, "size", at, missed) \in Nat /\ Widened(entry, "csize", at, missed) \in Nat
        /\ Widened(entry, "headerOffset", at, missed) \in Nat
    BY <1>1, WidenedIsNat DEF EntryRead
  <2>5. entry' \in EntryRead
    BY <1>1, <2>2, <2>3, <2>4 DEF EntryRead
  <2>6. /\ entry'.extra = next % W16 /\ entry'.name = entry.name /\ entry'.method = entry.method
        /\ entry'.extraLen = entry.extraLen /\ entry'.total = entry.total
        /\ entry'.size = (IF IsZip64(is) THEN Widened(entry, "size", at, missed) ELSE entry.size)
        /\ entry'.csize = (IF IsZip64(is) THEN Widened(entry, "csize", at, missed) ELSE entry.csize)
        /\ entry'.headerOffset =
             (IF IsZip64(is) THEN Widened(entry, "headerOffset", at, missed) ELSE entry.headerOffset)
    BY <1>1, <2>2 DEF EntryRead
  <2>7. archive' = archive /\ Current' = Current /\ Header' = Header
    BY <1>1 DEF input, Current, Header
  <2>8. ASSUME Intact
        PROVE  entry'.name = Current.name /\ (Zip64Ahead' \/ Zip64Taken')
    <3>1. entry.name = Current.name /\ (Zip64Ahead \/ Zip64Taken) /\ missed = {} /\ entry'.extra = next
      BY <1>1, <2>3, <2>6, <2>8 DEF IInv, FoundInv, Intact
    <3>2. Extras(archive, Current) \subseteq Int
      BY DEF Extras
    <3>3. CASE ~IsZip64(is)
      <4>1. CASE Zip64Ahead
        <5>1. \A y \in Extras(archive, Current) :
                IsZip64(ExtraCell(archive, Current, y)) => next <= y
          BY <1>3, <1>5, <2>8, <3>2, <3>3, <4>1 DEF Zip64Ahead, is, x
        <5>2. HeaderValues'
          BY <2>6, <2>7, <3>3, <4>1 DEF Zip64Ahead, HeaderValues
        <5> QED
          BY <2>6, <2>7, <3>1, <5>1, <5>2 DEF Zip64Ahead
      <4>2. CASE Zip64Taken
        <5>1. \A y \in Extras(archive, Current) :
                IsZip64(ExtraCell(archive, Current, y)) => y < next
          <6>1. \A y \in Int : y < x => y < next
            BY <1>3, <2>12 DEF next
          <6> QED
            BY <3>2, <4>2, <6>1 DEF Zip64Taken, x
        <5>2. CurrentValues'
          BY <2>6, <2>7, <3>3, <4>2 DEF Zip64Taken, CurrentValues
        <5> QED
          BY <2>6, <2>7, <3>1, <5>1, <5>2 DEF Zip64Taken
      <4> QED
        BY <3>1, <4>1, <4>2
    <3>4. CASE IsZip64(is)
      <4>1. PICK z \in Extras(archive, Current) :
              /\ \A y \in Extras(archive, Current) : IsZip64(ExtraCell(archive, Current, y)) <=> y = z
              /\ WordsFrom(archive, Current, z)
        BY <1>1, <1>2, <2>8 DEF HasValues, Header
      <4>2. z = x
        BY <1>10, <2>8, <3>4, <4>1 DEF is, x
      <4>3. Zip64Ahead
        BY <1>3, <1>10, <2>8, <3>1, <3>4 DEF Zip64Taken, is, x
      <4>4. /\ Widened(entry, "size", at, missed) = Len(Current.bytes)
            /\ Widened(entry, "csize", at, missed) = Current.packed
            /\ Widened(entry, "headerOffset", at, missed) = Current.header
        <5>1. HeaderValues /\ at = Current.entry + 2 + x /\ WordsFrom(archive, Current, x)
          BY <4>1, <4>2, <4>3 DEF Zip64Ahead, at
        <5> QED
          BY <1>1, <1>2, <1>3, <3>1, <5>1, ValuesTaken
      <4>5. CurrentValues'
        BY <1>1, <2>6, <2>7, <3>4, <4>4 DEF CurrentValues, SizesOnly, Header
      <4>6. \A y \in Extras(archive, Current) : IsZip64(ExtraCell(archive, Current, y)) => y < next
        <5>1. x < next
          BY <1>3, <2>12 DEF next
        <5> QED
          BY <4>1, <4>2, <5>1
      <4> QED
        BY <2>6, <2>7, <3>1, <4>5, <4>6 DEF Zip64Taken
    <3> QED
      BY <3>3, <3>4
  <2>9. Intact => entry'.extra \in Extras(archive, Current) \cup {entry'.extraLen}
    BY <1>5, <2>3, <2>6
  <2> QED
    BY <1>1, <2>2, <2>5, <2>6, <2>8, <2>9, WithinEntry
<1> QED
  BY <1>7, <1>8

\* No zip64 field lies beyond the extra part.
LEMMA ExtrasDoneInv ==
  ASSUME IInv, ExtrasDone
  PROVE  IInv'
<1>1. /\ phase = "extra" /\ phase' = "local" /\ Len(entries) < Count /\ entry.extra >= entry.extraLen
      /\ entry \in EntryRead /\ Header.headerOffset = Max32
      /\ entry.method = Header.method /\ entry.extraLen = Header.extraLen
      /\ entry.total = 2 + Header.extraLen + Header.commentLen
      /\ UNCHANGED <<input, dir, entryOffset, entry, entries, comment, errno, object, reader>>
  BY DEF ExtrasDone, IInv, PlaceInv, VarsType, Parse
<1>2. ASSUME Intact
      PROVE  entry.name = Current.name /\ CurrentValues'
  <2>1. entry.name = Current.name /\ (Zip64Ahead \/ Zip64Taken)
    BY <1>1, <1>2 DEF IInv, FoundInv
  <2>2. HasValues(archive, Current) /\ entry.extraLen \in Int /\ entry.extra \in Int
    BY <1>1, <1>2, CurrentIs DEF EntryRead
  <2>3. PICK z \in Extras(archive, Current) : IsZip64(ExtraCell(archive, Current, z))
    BY <1>1, <2>2 DEF HasValues, Header
  <2>4. z \in Int /\ z < Header.extraLen
    BY <1>1, <2>2, <2>3 DEF Extras, Header
  <2>5. Zip64Taken
    BY <1>1, <2>1, <2>2, <2>3, <2>4 DEF Zip64Ahead
  <2> QED
    BY <1>1, <2>1, <2>5 DEF Zip64Taken, CurrentValues, Current, Header, input
<1> QED
  BY <1>1, <1>2, WithinEntry

LEMMA ReadLocalInv ==
  ASSUME IInv, ReadLocal
  PROVE  IInv'
<1>1. /\ phase = "local" /\ Len(entries) < Count /\ entry \in EntryRead /\ archive \in Archives
      /\ dir.globalOffset + entryOffset = Current.entry /\ entries \in Seq(Entry)
      /\ dir.globalOffset \in Nat /\ entryOffset \in Nat /\ errno = TRUE /\ closed = FALSE
      /\ entry.method = Header.method /\ entry.total = 2 + Header.extraLen + Header.commentLen
      /\ UNCHANGED <<input, dir, entry, comment, errno, object, reader>>
  BY DEF ReadLocal, IInv, PlaceInv, VarsType, ErrnoInv
<1>2. /\ Header.kind = "entry" /\ CellType(Header) /\ Header.method = Current.method
      /\ Len(entries) + 1 < Count =>
           archive.members[Len(entries) + 2].entry = Current.entry + 2 + Header.extraLen + Header.commentLen
      /\ MemberType(Current) /\ (Intact => HasSegment(archive, Current))
  BY <1>1, CurrentIs
<1>3. PICK local \in FileRead(entry.headerOffset) :
        IF local.kind # "local"
        THEN GiveUp /\ UNCHANGED <<entries, entryOffset>>
        ELSE /\ entries' = Append(entries,
                   [name |-> entry.name, method |-> entry.method, size |-> entry.size,
                    csize |-> entry.csize, headerOffset |-> entry.headerOffset,
                    offset |-> DataOffset(entry, local)])
             /\ entryOffset' = NextEntryAt(entryOffset, entry)
             /\ Parse("entry")
  BY DEF ReadLocal, LocalHeaderAt
<1>4. ASSUME Intact
      PROVE  /\ entry.name = Current.name /\ CurrentValues
             /\ local.kind = "local" /\ Current.start = Current.header + 1 + local.nameLen + local.extraLen
  <2>1. entry.name = Current.name /\ CurrentValues
    BY <1>1, <1>4 DEF IInv, FoundInv
  <2>2. archive.shift = 0 /\ Current.header \in Nat
    BY <1>2, <1>4 DEF Intact, MemberType
  <2>3. local = Cell(archive, archive.shift + Current.header)
    BY <1>4, <2>1, <2>2, ReadIs DEF CurrentValues
  <2> QED
    BY <1>2, <1>4, <2>1, <2>3 DEF HasSegment
<1>5. CASE local.kind # "local"
  BY <1>1, <1>3, <1>4, <1>5, GaveUp DEF GiveUp
<1>6. CASE local.kind = "local"
  <2> DEFINE new == [name |-> entry.name, method |-> entry.method, size |-> entry.size,
                     csize |-> entry.csize, headerOffset |-> entry.headerOffset,
                     offset |-> DataOffset(entry, local)]
  <2>1. local.nameLen \in Nat /\ local.extraLen \in Nat
    BY <1>1, <1>6, ReadIs, ArchiveIs DEF CellType
  <2>2. new \in Entry
    <3>1. DataOffset(entry, local) \in Nat
      BY <1>1, <2>1, SMTT(30) DEF EntryRead, DataOffset
    <3> QED
      BY <1>1, <3>1 DEF EntryRead, Entry
  <2>3. new.name = entry.name /\ new.method = entry.method /\ new.size = entry.size /\ new.csize = entry.csize
        /\ new.headerOffset = entry.headerOffset
        /\ new.offset = entry.headerOffset + 1 + local.nameLen + local.extraLen
    BY DEF DataOffset
  <2>4. entries' = Append(entries, new) /\ entryOffset' = entryOffset + entry.total /\ phase' = "entry"
    BY <1>3, <1>6 DEF NextEntryAt, Parse
  <2> HIDE DEF new
  <2>5. /\ entries' \in Seq(Entry) /\ Len(entries') = Len(entries) + 1 /\ Len(entries) \in Nat
        /\ DOMAIN entries' = 1 .. Len(entries) + 1 /\ DOMAIN entries = 1 .. Len(entries)
        /\ \A i \in 1 .. Len(entries) : entries'[i] = entries[i]
        /\ entries'[Len(entries) + 1] = new
    BY <1>1, <2>2, <2>4
  <2>6. /\ UNCHANGED <<archive, faults, segment, dir, errno, closed, stream, streamClosed, released>>
        /\ Count' = Count /\ Intact' = Intact
    BY <1>1 DEF input, object, Count, Intact
  <2>7. Header.extraLen \in Nat /\ Header.commentLen \in Nat /\ Count \in Nat
    BY <1>1, <1>2, ArchiveIs DEF CellType
  <2>8. VarsType'
    <3>1. entryOffset' \in Nat
      BY <1>1, <2>4, <2>7
    <3> QED
      BY <2>4, <2>5, <2>6, <3>1 DEF IInv, VarsType, Phases
  <2>9. ReaderType'
    BY <1>1, <2>6, ReaderSame DEF IInv
  <2>10. PlaceInv'
    <3>1. dir.count = Count /\ dir.globalOffset = archive.shift
      BY <1>1 DEF IInv, PlaceInv
    <3>2. Len(entries') <= Count
      BY <1>1, <2>5, <2>7
    <3>3. ASSUME Len(entries') < Count
          PROVE  dir.globalOffset + entryOffset' = Current'.entry
      <4>1. Len(entries') + 1 = Len(entries) + 2 /\ Len(entries) + 1 < Count
        BY <2>5, <3>3
      <4>2. Current' = archive.members[Len(entries) + 2]
        BY <2>6, <4>1 DEF Current
      <4>3. dir.globalOffset + entryOffset' = (dir.globalOffset + entryOffset) + entry.total
        BY <1>1, <2>4, <2>7, SMTT(30)
      <4>4. Current.entry \in Int
        BY <1>2 DEF MemberType
      <4>5. dir.globalOffset + entryOffset' = Current.entry + (2 + Header.extraLen + Header.commentLen)
        BY <1>1, <4>3
      <4>6. Current.entry + (2 + Header.extraLen + Header.commentLen)
            = Current.entry + 2 + Header.extraLen + Header.commentLen
        BY <2>7, <4>4
      <4> QED
        BY <1>2, <4>1, <4>2, <4>5, <4>6
    <3> QED
      BY <2>4, <2>6, <3>1, <3>2, <3>3 DEF PlaceInv
  <2>11. ErrnoInv'
    BY <1>1, <2>4, <2>6 DEF ErrnoInv
  <2>12. FoundInv'
    <3>1. CASE Intact
      <4>1. Meant(new, Current)
        BY <1>1, <1>2, <1>4, <2>3, <3>1 DEF Meant, CurrentValues, Header
      <4>2. \A i \in DOMAIN entries : Meant(entries[i], archive.members[i])
        BY <3>1 DEF IInv, FoundInv
      <4>3. ASSUME NEW i \in DOMAIN entries'
            PROVE  (Meant(entries[i], archive.members[i]))'
        <5>1. i \in DOMAIN entries \/ i = Len(entries) + 1
          BY <2>5
        <5>2. CASE i \in DOMAIN entries
          BY <2>5, <2>6, <4>2, <5>2 DEF Meant
        <5>3. CASE i = Len(entries) + 1
          BY <2>5, <2>6, <4>1, <5>3 DEF Meant, Current
        <5> QED
          BY <5>1, <5>2, <5>3
      <4>4. Len(entries') <= Count
        BY <1>1, <2>5, <2>7
      <4> QED
        BY <2>4, <2>6, <4>3, <4>4 DEF FoundInv
    <3>2. CASE ~Intact
      BY <2>6, <3>2 DEF FoundInv
    <3> QED
      BY <3>1, <3>2
  <2> QED
    BY <2>8, <2>9, <2>10, <2>11, <2>12 DEF IInv
<1> QED
  BY <1>5, <1>6

LEMMA CompleteInv ==
  ASSUME IInv, Complete
  PROVE  IInv'
<1>1. /\ phase = "entry" /\ phase' = "done" /\ Len(entries) = Count /\ errno' = FALSE /\ closed = FALSE
      /\ UNCHANGED <<archive, faults, segment, dir, entryOffset, entry, entries, closed, stream, streamClosed,
                     released, reader>>
  BY DEF Complete, GiveUp, input, object, IInv, PlaceInv, ErrnoInv, VarsType
<1>2. Count' = Count /\ Intact' = Intact
  BY <1>1 DEF Count, Intact
<1>3. VarsType'
  BY <1>1 DEF IInv, VarsType, Phases
<1>4. ReaderType'
  BY <1>1, ReaderSame DEF IInv
<1>5. PlaceInv'
  BY <1>1 DEF PlaceInv
<1>6. ErrnoInv'
  BY <1>1, <1>2 DEF ErrnoInv
<1>7. FoundInv'
  BY <1>1, <1>2 DEF IInv, FoundInv, Meant
<1> QED
  BY <1>3, <1>4, <1>5, <1>6, <1>7 DEF IInv

-----------------------------------------------------------------------------
(* Steps of getStream(), the readers and close().                          *)

LEMMA NatMin ==
  ASSUME NEW S, S \subseteq Nat, S # {}
  PROVE  \E x \in S : \A y \in S : x <= y
<1>1. PICK x \in S : \A y \in S : ~(<<y, x>> \in OpToRel(<, Nat))
  BY WFMin, NatLessThanWellFounded
<1>2. \A y \in S : ~(y < x)
  BY <1>1 DEF OpToRel
<1> QED
  BY <1>2

LEMMA CutToIs ==
  ASSUME NEW end \in Nat, NEW o \in Nat, NEW c \in Nat, o <= end
  PROVE  CutTo(end, o, c) \in Nat /\ CutTo(end, o, c) <= c /\ o + CutTo(end, o, c) <= end
  BY DEF CutTo

LEMMA KeepsFound ==
  ASSUME IInv, UNCHANGED <<input, parser, closed>>, VarsType', ReaderType'
  PROVE  IInv'
<1>1. UNCHANGED <<archive, faults, segment, phase, dir, entryOffset, entry, entries, errno, closed>>
  BY DEF input, parser
<1>2. Count' = Count /\ Intact' = Intact /\ Current' = Current /\ Header' = Header
  BY <1>1 DEF Count, Intact, Current, Header
<1>3. PlaceInv'
  BY <1>1, <1>2 DEF IInv, PlaceInv, CellAt, TellsAt
<1>4. ErrnoInv'
  BY <1>1, <1>2 DEF IInv, ErrnoInv
<1>5. FoundInv'
  <2>1. CurrentValues' = CurrentValues /\ HeaderValues' = HeaderValues
    BY <1>1, <1>2 DEF CurrentValues, HeaderValues
  <2>2. Zip64Ahead' = Zip64Ahead /\ Zip64Taken' = Zip64Taken
    BY <1>1, <1>2, <2>1 DEF Zip64Ahead, Zip64Taken
  <2>3. \A i \in DOMAIN entries : (Meant(entries[i], archive.members[i]))' = Meant(entries[i], archive.members[i])
    BY <1>1 DEF Meant
  <2> QED
    BY <1>1, <1>2, <2>1, <2>2, <2>3 DEF IInv, FoundInv
<1> QED
  BY <1>3, <1>4, <1>5 DEF IInv

\* The first entry, and the first segment, of the name that is opened.
FirstFound == CHOOSE i \in Found : \A j \in Found : i <= j
SameNamed == {i \in DOMAIN archive.members : archive.members[i].name = segment}
Named == CHOOSE i \in SameNamed : \A j \in SameNamed : i <= j

LEMMA FirstFoundIs ==
  ASSUME entries \in Seq(Entry), Found # {}
  PROVE  FirstFound \in Found /\ FirstFound \in DOMAIN entries /\ entries[FirstFound] \in Entry
<1>1. Found \subseteq Nat /\ Found \subseteq DOMAIN entries
  BY DEF Found
<1>2. \E i \in Found : \A j \in Found : i <= j
  BY <1>1, NatMin
<1>3. FirstFound \in Found
  BY <1>2 DEF FirstFound
<1> QED
  BY <1>1, <1>3

LEMMA GetStreamInv ==
  ASSUME IInv, GetStream
  PROVE  IInv'
<1>1. /\ UNCHANGED <<input, parser, closed>>
      /\ UNCHANGED <<archive, faults, segment, phase, dir, entryOffset, entry, entries, errno, closed,
                     streamClosed, released, pc, call, buf, result>>
      /\ stream = NoStream /\ stream' = entries[FirstFound] /\ Found # {}
  BY DEF GetStream, input, parser, reader, FirstFound
<1>2. stream' \in Entry
  BY <1>1, FirstFoundIs DEF IInv, VarsType
<1>3. VarsType'
  BY <1>1, <1>2 DEF IInv, VarsType
<1>4. ReaderType'
  BY <1>1 DEF IInv, ReaderType
<1> QED
  BY <1>1, <1>3, <1>4, KeepsFound

LEMMA CloseInv ==
  ASSUME IInv, CloseStream \/ Release
  PROVE  IInv'
<1>1. /\ UNCHANGED <<input, parser, closed>>
      /\ UNCHANGED <<archive, faults, segment, phase, dir, entryOffset, entry, entries, errno, closed,
                     stream, reader>>
      /\ streamClosed' \in BOOLEAN /\ released' \in BOOLEAN
  BY DEF CloseStream, Release, input, parser, IInv, VarsType
<1>2. VarsType'
  BY <1>1 DEF IInv, VarsType
<1>3. ReaderType'
  BY <1>1, ReaderSame DEF IInv
<1> QED
  BY <1>1, <1>2, <1>3, KeepsFound

LEMMA CloseZipInv ==
  ASSUME IInv, CloseZip
  PROVE  IInv'
<1>1. /\ UNCHANGED <<archive, faults, segment, phase, dir, entryOffset, errno, stream, streamClosed, released, reader>>
      /\ phase = "done" /\ closed' = TRUE /\ entries' = <<>>
  BY DEF CloseZip, input
<1>2. entries' \in Seq(Entry) /\ Len(entries') = 0 /\ DOMAIN entries' = {}
  BY <1>1
<1>3. Count \in Nat /\ Count' = Count
  BY <1>1, ArchiveIs DEF IInv, VarsType, Count
<1>4. VarsType'
  BY <1>1, <1>2 DEF IInv, VarsType
<1>5. ReaderType'
  BY <1>1, ReaderSame DEF IInv
<1>6. PlaceInv'
  BY <1>1 DEF PlaceInv
<1>7. ErrnoInv'
  BY <1>1 DEF ErrnoInv
<1>8. FoundInv'
  BY <1>1, <1>2, <1>3 DEF FoundInv
<1> QED
  BY <1>4, <1>5, <1>6, <1>7, <1>8 DEF IInv

\* The state of the readers, of which one may move.
LEMMA ReaderStep ==
  ASSUME IInv, UNCHANGED <<input, parser, object>>, ReaderType'
  PROVE  IInv'
<1>1. UNCHANGED <<archive, faults, segment, phase, dir, entryOffset, entry, entries, errno, closed, stream,
                  streamClosed, released>>
  BY DEF input, parser, object
<1>2. VarsType'
  BY <1>1 DEF IInv, VarsType
<1> QED
  BY <1>1, <1>2, KeepsFound

LEMMA CallInv ==
  ASSUME IInv, NEW t \in Threads, NEW c \in Calls, Call(t, c)
  PROVE  IInv'
<1>1. /\ pc' = [pc EXCEPT ![t] = "called"] /\ result' = [result EXCEPT ![t] = NoReply]
      /\ call' = [call EXCEPT ![t] = [offset |-> c.offset, count |-> c.count, late |-> streamClosed]]
      /\ buf' = [buf EXCEPT ![t] = <<>>] /\ stream # NoStream
      /\ UNCHANGED <<input, parser, object>> /\ stream' = stream
  BY DEF Call, object
<1>2. [offset |-> c.offset, count |-> c.count, late |-> streamClosed] \in CallRecord
  BY CallsAssumption DEF CallRecord, IInv, VarsType
<1>3. ReaderType
  BY DEF IInv
<1>4. ReaderType'
  <2>1. call' = [u \in Threads |-> call'[u]] /\ buf' = [u \in Threads |-> buf'[u]]
        /\ result' = [u \in Threads |-> result'[u]] /\ pc' \in [Threads -> {"idle", "called", "reading"}]
    BY <1>1, <1>3 DEF ReaderType
  <2>2. ASSUME NEW u \in Threads
        PROVE  /\ result'[u] \in Nat \cup {-1, NoReply}
               /\ pc'[u] # "idle" \/ result'[u] # NoReply => stream # NoStream /\ call'[u] \in CallRecord
    <3>1. CASE u = t
      BY <1>1, <1>2, <1>3, <3>1 DEF ReaderType
    <3>2. CASE u # t
      BY <1>1, <1>3, <3>2 DEF ReaderType
    <3> QED
      BY <3>1, <3>2
  <2> QED
    BY <1>1, <2>1, <2>2 DEF ReaderType
<1> QED
  BY <1>1, <1>4, ReaderStep

LEMMA EnterInv ==
  ASSUME IInv, NEW t \in Threads, Enter(t)
  PROVE  IInv'
<1>1. /\ pc[t] = "called" /\ pc' = [pc EXCEPT ![t] = "reading"]
      /\ UNCHANGED <<input, parser, object, call, buf, result>> /\ stream' = stream
  BY DEF Enter, object
<1>2. ReaderType
  BY DEF IInv
<1>3. ReaderType'
  <2>1. pc' \in [Threads -> {"idle", "called", "reading"}]
    BY <1>1, <1>2 DEF ReaderType
  <2>2. \A u \in Threads : pc'[u] # "idle" => pc[u] # "idle"
    BY <1>1, <1>2 DEF ReaderType
  <2> QED
    BY <1>1, <1>2, <2>1, <2>2 DEF ReaderType
<1> QED
  BY <1>1, <1>3, ReaderStep

\* What read() returns, and how much of the request that is.
Served(o, c) == IF o > stream.size THEN 0 ELSE CutTo(stream.size, o, c)

LEMMA ReturnInv ==
  ASSUME IInv, NEW t \in Threads, NEW n \in Nat \cup {-1}, NEW bytes, pc[t] # "idle", Return(t, n, bytes)
  PROVE  IInv'
<1>1. /\ pc' = [pc EXCEPT ![t] = "idle"] /\ result' = [result EXCEPT ![t] = n]
      /\ buf' = [buf EXCEPT ![t] = bytes] /\ UNCHANGED <<input, parser, object, call>> /\ stream' = stream
  BY DEF Return, object
<1>2. ReaderType
  BY DEF IInv
<1>3. ReaderType'
  <2>1. buf' = [u \in Threads |-> buf'[u]] /\ result' = [u \in Threads |-> result'[u]]
        /\ pc' \in [Threads -> {"idle", "called", "reading"}]
    BY <1>1, <1>2 DEF ReaderType
  <2>2. ASSUME NEW u \in Threads
        PROVE  /\ result'[u] \in Nat \cup {-1, NoReply}
               /\ pc'[u] # "idle" \/ result'[u] # NoReply => stream # NoStream /\ call[u] \in CallRecord
    <3>1. CASE u = t
      BY <1>1, <1>2, <3>1 DEF ReaderType
    <3>2. CASE u # t
      BY <1>1, <1>2, <3>2 DEF ReaderType
    <3> QED
      BY <3>1, <3>2
  <2> QED
    BY <1>1, <1>2, <2>1, <2>2 DEF ReaderType
<1> QED
  BY <1>1, <1>3, ReaderStep

-----------------------------------------------------------------------------
(* The segment that is open, and what reads of it serve.                   *)

\* The segment is the first one of its name in the directory, with its sizes.
StreamInv ==
    Readable /\ stream # NoStream => Named \in SameNamed /\ Meant(stream, archive.members[Named])

\* A read that did not fail, and found the stream open, was served in full.
ServedInv ==
    \A t \in Threads :
        Readable /\ ~released /\ result[t] \in Nat => result[t] = Served(call[t].offset, call[t].count)

LEMMA ReadableSame ==
  ASSUME UNCHANGED <<archive, faults, segment>>
  PROVE  Readable' = Readable
  BY DEF Readable, Intact

LEMMA StreamIs ==
  ASSUME IInv, StreamInv, stream # NoStream, Readable
  PROVE  LET m == archive.members[Named]
         IN  /\ archive \in Archives /\ Named \in SameNamed /\ Named \in DOMAIN archive.members
             /\ archive.shift = 0 /\ MemberType(m) /\ HasSegment(archive, m)
             /\ stream.method = m.method /\ stream.offset = m.start
             /\ stream.size = Len(m.bytes) /\ stream.csize = m.packed
<1> DEFINE m == archive.members[Named]
<1>1. archive \in Archives /\ Named \in SameNamed /\ Meant(stream, m)
  BY DEF IInv, VarsType, StreamInv
<1>2. Named \in DOMAIN archive.members /\ m.name = segment
  BY <1>1 DEF SameNamed
<1>3. ~SizesOnly(archive, m) /\ archive.shift = 0 /\ Intact
  BY <1>2 DEF Readable, Intact
<1>4. MemberType(m) /\ HasSegment(archive, m)
  BY <1>1, <1>2, <1>3, ArchiveIs, MemberIs
<1> QED
  BY <1>1, <1>2, <1>3, <1>4 DEF Meant

LEMMA DataReadIs ==
  ASSUME archive \in Archives, NEW o \in Nat, NEW c \in Nat, NEW r \in DataRead(o, c)
  PROVE  /\ r.n \in Nat \cup {-1}
         /\ o + c <= Length /\ r.n # -1 => r.n = c
<1> DEFINE n == IF c = 0 \/ o > Length THEN 0 ELSE CutTo(Length, o, c)
<1>1. Length \in Nat
  BY ArchiveIs DEF Length
<1>2. n \in Nat
  <2>1. o <= Length => CutTo(Length, o, c) \in Nat
    BY <1>1, CutToIs
  <2> QED
    BY <1>1, <2>1
<1>3. o + c <= Length => n = c
  BY <1>1 DEF CutTo
<1>4. r.n = n \/ r.n = -1
  BY DEF DataRead
<1> HIDE DEF n
<1> QED
  BY <1>2, <1>3, <1>4

\* The data of a segment that is stored lies in the file.
LEMMA DataIsThere ==
  ASSUME IInv, StreamInv, stream # NoStream, stream.method = "stored", Readable
  PROVE  stream.offset + stream.size <= Length
<1> DEFINE m == archive.members[Named]
<1>1. /\ archive.shift = 0 /\ MemberType(m) /\ HasSegment(archive, m)
      /\ m.method = "stored" /\ stream.offset = m.start /\ stream.size = Len(m.bytes)
  BY StreamIs
<1> HIDE DEF m
<1>2. m.packed = Len(m.bytes) /\ archive.shift + m.start + m.packed <= Len(archive.cells)
  BY <1>1 DEF HasSegment, HasData
<1>3. m.start \in Nat /\ m.packed \in Nat
  BY <1>1 DEF MemberType
<1> QED
  BY <1>1, <1>2, <1>3 DEF Length

\* A step of a reader enters the stream, or returns.
LEMMA ReadIsEnterOrReturn ==
  ASSUME IInv, NEW t \in Threads, ReadStep(t)
  PROVE  \/ Enter(t)
         \/ \E n \in Nat \cup {-1} : \E bytes :
              /\ pc[t] # "idle" /\ Return(t, n, bytes)
              /\ StreamInv /\ Readable /\ ~released /\ n # -1 => n = Served(call[t].offset, call[t].count)
<1> DEFINE o == call[t].offset
           c == call[t].count
           Ends(n, bytes) ==
             /\ pc[t] # "idle" /\ Return(t, n, bytes)
             /\ StreamInv /\ Readable /\ ~released /\ n # -1 => n = Served(o, c)
<1> SUFFICES ASSUME ~Enter(t)
             PROVE  \E n \in Nat \cup {-1} : \E bytes : Ends(n, bytes)
  OBVIOUS
<1>1. archive \in Archives /\ ReaderType
  BY DEF IInv, VarsType
<1>2. CASE Refuse(t)
  <2>1. Ends(-1, <<>>)
    BY <1>2 DEF Refuse
  <2> QED
    BY <2>1
<1>3. ASSUME pc[t] = "reading"
      PROVE  o \in Nat /\ c \in Nat /\ stream \in Entry /\ stream # NoStream
             /\ stream.size \in Nat /\ stream.csize \in Nat /\ stream.offset \in Nat
  <2>1. call[t] \in CallRecord /\ stream # NoStream
    BY <1>1, <1>3 DEF ReaderType
  <2>2. stream \in Entry
    BY <2>1 DEF IInv, VarsType
  <2> QED
    BY <2>1, <2>2 DEF CallRecord, Entry
<1>4. CASE ReadReleased(t)
  <2>1. PICK n \in {-1, c} : Return(t, n, <<>>)
    BY <1>4 DEF ReadReleased
  <2>2. pc[t] = "reading" /\ released
    BY <1>4 DEF ReadReleased
  <2>3. n \in Nat \cup {-1} /\ Ends(n, <<>>)
    BY <1>3, <2>1, <2>2
  <2> QED
    BY <2>3
<1>5. CASE ReadPastEnd(t)
  <2>1. pc[t] = "reading" /\ o > stream.size /\ Return(t, 0, <<>>)
    BY <1>5 DEF ReadPastEnd
  <2>2. Ends(0, <<>>)
    BY <2>1 DEF Served
  <2> QED
    BY <2>2
<1> DEFINE k == CutTo(stream.size, o, c)
<1>6. ASSUME pc[t] = "reading", o <= stream.size
      PROVE  k \in Nat /\ o + k <= stream.size /\ k = Served(o, c)
  <2>1. k \in Nat /\ o + k <= stream.size
    BY <1>3, <1>6, CutToIs
  <2>2. ~(o > stream.size)
    BY <1>3, <1>6
  <2> QED
    BY <2>1, <2>2 DEF Served
<1>7. CASE ReadStored(t)
  <2> HIDE DEF o, c, k
  <2>1. /\ pc[t] = "reading" /\ o <= stream.size /\ stream.method = "stored"
        /\ \E r \in DataRead(stream.offset + o, k) : \E bytes : Return(t, r.n, bytes)
    BY <1>7 DEF ReadStored, o, c, k
  <2>2. PICK r \in DataRead(stream.offset + o, k) : \E bytes : Return(t, r.n, bytes)
    BY <2>1
  <2>3. PICK bytes : Return(t, r.n, bytes)
    BY <2>2
  <2>4. stream.offset + o \in Nat /\ k \in Nat /\ o + k <= stream.size /\ k = Served(o, c)
    BY <1>3, <1>6, <2>1
  <2>5. r.n \in Nat \cup {-1} /\ (stream.offset + o + k <= Length /\ r.n # -1 => r.n = k)
    BY <1>1, <2>4, DataReadIs
  <2>6. ASSUME StreamInv, Readable
        PROVE  stream.offset + o + k <= Length
    <3>1. stream.offset + stream.size <= Length /\ Length \in Nat
      BY <1>1, <1>3, <2>1, <2>6, DataIsThere, ArchiveIs DEF Length
    <3> QED
      BY <1>3, <2>1, <2>4, <3>1
  <2>7. Ends(r.n, bytes)
    BY <2>1, <2>3, <2>4, <2>5, <2>6
  <2> QED
    BY <2>5, <2>7
<1>8. CASE ReadDeflated(t)
  <2>1. /\ pc[t] = "reading" /\ o <= stream.size
        /\ \/ Return(t, -1, <<>>)
           \/ \E bytes : Return(t, k, bytes)
    BY <1>8 DEF ReadDeflated
  <2>2. k \in Nat /\ k = Served(o, c)
    BY <1>6, <2>1
  <2>3. CASE Return(t, -1, <<>>)
    <3>1. Ends(-1, <<>>)
      BY <2>1, <2>3
    <3> QED
      BY <3>1
  <2>4. CASE \E bytes : Return(t, k, bytes)
    <3>1. PICK bytes : Return(t, k, bytes)
      BY <2>4
    <3> HIDE DEF k
    <3>2. Ends(k, bytes)
      BY <2>1, <2>2, <3>1
    <3> QED
      BY <2>2, <3>2
  <2> QED
    BY <2>1, <2>3, <2>4
<1>9. CASE ReadOther(t)
  <2>1. Ends(-1, <<>>)
    BY <1>9 DEF ReadOther
  <2> QED
    BY <2>1
<1> QED
  BY <1>2, <1>4, <1>5, <1>7, <1>8, <1>9 DEF ReadStep

LEMMA StepInv ==
  ASSUME IInv, Next
  PROVE  IInv'
<1>1. CASE ParseStep
  BY <1>1, OpenInv, FindEndInv, FindDirectoryInv, ReadHeaderInv, ReadExtraInv, ExtrasDoneInv, ReadLocalInv,
     CompleteInv DEF ParseStep
<1>2. CASE GetStream \/ CloseStream \/ Release \/ CloseZip
  BY <1>2, GetStreamInv, CloseInv, CloseZipInv
<1>3. ASSUME NEW t \in Threads, NEW c \in Calls, Call(t, c)
      PROVE  IInv'
  BY <1>3, CallInv
<1>4. ASSUME NEW t \in Threads, ReadStep(t)
      PROVE  IInv'
  <2>1. CASE Enter(t)
    BY <2>1, EnterInv
  <2>2. ASSUME NEW n \in Nat \cup {-1}, NEW bytes, pc[t] # "idle", Return(t, n, bytes)
        PROVE  IInv'
    BY <2>2, ReturnInv
  <2> QED
    BY <1>4, <2>1, <2>2, ReadIsEnterOrReturn
<1> QED
  BY <1>1, <1>2, <1>3, <1>4 DEF Next

LEMMA StutterInv ==
  ASSUME IInv, UNCHANGED vars
  PROVE  IInv'
<1>1. UNCHANGED <<input, parser, closed>> /\ UNCHANGED <<input, parser, object, reader>>
  BY DEF vars, object
<1>2. UNCHANGED <<archive, faults, segment, phase, dir, entryOffset, entry, entries, errno, closed, stream,
                  streamClosed, released>>
  BY <1>1 DEF input, parser, object
<1>3. ReaderType'
  BY <1>1, <1>2, ReaderSame DEF IInv
<1> QED
  BY <1>1, <1>3, ReaderStep

AInv == StreamInv /\ ServedInv

LEMMA StreamSame ==
  ASSUME StreamInv, UNCHANGED <<archive, faults, segment, stream>>
  PROVE  StreamInv'
BY ReadableSame DEF StreamInv, SameNamed, Named, Meant

LEMMA ServedSame ==
  ASSUME AInv, UNCHANGED <<archive, faults, segment, stream, released, call, result>>
  PROVE  AInv'
<1>1. StreamInv'
  BY StreamSame DEF AInv
<1>2. ServedInv'
  BY ReadableSame DEF AInv, ServedInv, Served
<1> QED
  BY <1>1, <1>2 DEF AInv

LEMMA GetStreamServed ==
  ASSUME IInv, AInv, GetStream
  PROVE  AInv'
<1>1. /\ UNCHANGED <<archive, faults, segment, released, call, result>> /\ phase = "done"
      /\ stream = NoStream /\ stream' = entries[FirstFound] /\ Found # {}
      /\ archive \in Archives /\ entries \in Seq(Entry)
  BY DEF GetStream, input, reader, object, FirstFound, IInv, VarsType
<1>2. StreamInv'
  <2>1. FirstFound \in Found /\ FirstFound \in DOMAIN entries
    BY <1>1, FirstFoundIs
  <2>2. ~closed
    BY <1>1 DEF IInv, ErrnoInv, Found
  <2>3. CASE Readable
    <3>1. Len(entries) = Count /\ \A i \in DOMAIN entries : Meant(entries[i], archive.members[i])
      BY <1>1, <2>2, <2>3 DEF IInv, FoundInv, Readable
    <3>2. DOMAIN entries = DOMAIN archive.members
      BY <1>1, <3>1, ArchiveIs
    <3>3. Found = SameNamed
      BY <3>1, <3>2 DEF Found, SameNamed, Meant
    <3>4. FirstFound = Named
      BY <3>3 DEF FirstFound, Named
    <3>5. Named \in SameNamed /\ Meant(entries[Named], archive.members[Named])
      BY <2>1, <3>1, <3>3, <3>4
    <3>6. SameNamed' = SameNamed /\ Named' = Named
      BY <1>1 DEF SameNamed, Named
    <3> QED
      BY <1>1, <3>4, <3>5, <3>6 DEF StreamInv, Meant
  <2>4. CASE ~Readable
    BY <1>1, <2>4, ReadableSame DEF StreamInv
  <2> QED
    BY <2>3, <2>4
<1>3. ServedInv'
  <2>1. \A t \in Threads : result[t] = NoReply
    BY <1>1 DEF IInv, ReaderType
  <2> QED
    BY <1>1, <2>1, ReplyAssumption DEF ServedInv
<1> QED
  BY <1>2, <1>3 DEF AInv

LEMMA CallServed ==
  ASSUME IInv, AInv, NEW t \in Threads, NEW c \in Calls, Call(t, c)
  PROVE  AInv'
<1>1. /\ UNCHANGED <<archive, faults, segment, stream, released>>
      /\ result' = [result EXCEPT ![t] = NoReply]
      /\ \E k : call' = [call EXCEPT ![t] = k]
  BY DEF Call, input, object
<1>2. result = [u \in Threads |-> result[u]] /\ call = [u \in Threads |-> call[u]]
  BY DEF IInv, ReaderType
<1>3. \A u \in Threads : result'[u] = NoReply \/ (result'[u] = result[u] /\ call'[u] = call[u])
  BY <1>1, <1>2
<1>5. Readable' = Readable /\ released' = released /\ \A o, c1 : Served(o, c1)' = Served(o, c1)
  BY <1>1, ReadableSame DEF Served
<1>4. ServedInv'
  BY <1>3, <1>5, ReplyAssumption DEF AInv, ServedInv
<1> QED
  BY <1>1, <1>4, StreamSame DEF AInv

LEMMA ReturnServed ==
  ASSUME IInv, AInv, NEW t \in Threads, NEW n \in Nat \cup {-1}, NEW bytes, Return(t, n, bytes),
         Readable /\ ~released /\ n # -1 => n = Served(call[t].offset, call[t].count)
  PROVE  AInv'
<1>1. UNCHANGED <<archive, faults, segment, stream, released, call>> /\ result' = [result EXCEPT ![t] = n]
  BY DEF Return, input, object
<1>2. result = [u \in Threads |-> result[u]]
  BY DEF IInv, ReaderType
<1>3. \A u \in Threads : result'[u] = IF u = t THEN n ELSE result[u]
  BY <1>1, <1>2
<1>4. Readable' = Readable /\ \A o, c : Served(o, c)' = Served(o, c)
  BY <1>1, ReadableSame DEF Served
<1>5. ASSUME NEW u \in Threads, Readable', ~released', result'[u] \in Nat
      PROVE  result'[u] = Served(call[u].offset, call[u].count)
  <2>1. CASE u = t
    BY <1>1, <1>3, <1>4, <1>5, <2>1
  <2>2. CASE u # t
    BY <1>1, <1>3, <1>4, <1>5, <2>2 DEF AInv, ServedInv
  <2> QED
    BY <2>1, <2>2
<1>6. ServedInv'
  BY <1>1, <1>4, <1>5 DEF ServedInv, Served
<1> QED
  BY <1>1, <1>6, StreamSame DEF AInv

LEMMA StepServed ==
  ASSUME IInv, AInv, Next
  PROVE  AInv'
<1>1. CASE ParseStep
  <2>1. UNCHANGED <<archive, faults, segment, stream, released, call, result>>
    BY <1>1 DEF ParseStep, OpenFails, Open, FindEnd, FindDirectory, FindDirectory64, ReadHeader, ReadExtra,
       ExtrasDone, ReadLocal, Complete, input, object, reader
  <2> QED
    BY <2>1, ServedSame
<1>2. CASE GetStream
  BY <1>2, GetStreamServed
<1>3. CASE CloseStream \/ CloseZip
  <2>1. UNCHANGED <<archive, faults, segment, stream, released, call, result>>
    BY <1>3 DEF CloseStream, CloseZip, input, reader
  <2> QED
    BY <2>1, ServedSame
<1>4. CASE Release
  <2>1. UNCHANGED <<archive, faults, segment, stream>> /\ released' = TRUE
    BY <1>4 DEF Release, input
  <2> QED
    BY <2>1, StreamSame DEF AInv, ServedInv
<1>5. ASSUME NEW t \in Threads, NEW c \in Calls, Call(t, c)
      PROVE  AInv'
  BY <1>5, CallServed
<1>6. ASSUME NEW t \in Threads, ReadStep(t)
      PROVE  AInv'
  <2>1. CASE Enter(t)
    <3>1. UNCHANGED <<archive, faults, segment, stream, released, call, result>>
      BY <2>1 DEF Enter, input, object
    <3> QED
      BY <3>1, ServedSame
  <2>2. ASSUME NEW n \in Nat \cup {-1}, NEW bytes, Return(t, n, bytes),
               StreamInv /\ Readable /\ ~released /\ n # -1 => n = Served(call[t].offset, call[t].count)
        PROVE  AInv'
    BY <2>2, ReturnServed DEF AInv
  <2> QED
    BY <1>6, <2>1, <2>2, ReadIsEnterOrReturn
<1> QED
  BY <1>1, <1>2, <1>3, <1>4, <1>5, <1>6 DEF Next

-----------------------------------------------------------------------------
(* IInv and AInv hold of every reachable state.                            *)

LEMMA Invariant == Spec => [](IInv /\ AInv)
<1>1. Init => IInv /\ AInv
  <2> SUFFICES ASSUME Init
               PROVE  IInv /\ AInv
    OBVIOUS
  <2>1. IInv
    BY InitInv
  <2>2. StreamInv
    BY DEF Init, StreamInv
  <2>3. ServedInv
    <3>1. \A t \in Threads : result[t] = NoReply
      BY DEF Init
    <3> QED
      BY <3>1, ReplyAssumption DEF ServedInv
  <2> QED
    BY <2>1, <2>2, <2>3 DEF AInv
<1>2. IInv /\ AInv /\ [Next]_vars => (IInv /\ AInv)'
  <2> SUFFICES ASSUME IInv, AInv, [Next]_vars
               PROVE  IInv' /\ AInv'
    OBVIOUS
  <2>1. CASE Next
    BY <2>1, StepInv, StepServed
  <2>2. CASE UNCHANGED vars
    <3>1. UNCHANGED <<archive, faults, segment, stream, released, call, result>>
      BY <2>2 DEF vars, input, object, reader
    <3> QED
      BY <2>2, <3>1, StutterInv, ServedSame
  <2> QED
    BY <2>1, <2>2
<1> QED
  BY <1>1, <1>2, PTL DEF Spec

\* Every variable has its type, and read() returns a count or -1, whatever the
\* file, the faults and the requests (Zip.cc, ZipStream.cc).
THEOREM TypeCorrect == Spec => []TypeOK
<1>1. IInv => TypeOK
  BY DEF IInv, VarsType, ReaderType, Phases, TypeOK
<1> QED
  BY <1>1, Invariant, PTL

\* The entries of a file that can be read are those it was made from, in their
\* order, with the values of their zip64 fields, but for sizes in a zip64 field
\* without an offset, which stay what the 32 bit fields hold (Zip.cc:277-350, 299).
THEOREM EntriesRight == Spec => []EntriesAreMeant
<1>1. IInv => EntriesAreMeant
  BY DEF IInv, FoundInv, EntriesAreMeant, Count
<1> QED
  BY <1>1, Invariant, PTL

\* No error is left behind unless the whole directory was read, whichever reads
\* of the file fail (Zip.cc:179, 351).
THEOREM ErrnoTells == Spec => []NoErrorMeansComplete
<1>1. IInv => NoErrorMeansComplete
  BY DEF IInv, ErrnoInv, NoErrorMeansComplete, Count
<1> QED
  BY <1>1, Invariant, PTL

\* Every file a zip writer makes is opened in full, when it can be read (Zip.cc:171-352).
THEOREM OpensIntact == Spec => []IntactOpens
<1>1. IInv => IntactOpens
  BY DEF IInv, FoundInv, IntactOpens, Count
<1> QED
  BY <1>1, Invariant, PTL

\* What a read serves, as the set of the segment's bytes that were asked for.
LEMMA ServedIsRequested ==
  ASSUME IInv, AInv, NEW t \in Threads, Readable, ~released, result[t] \in Nat
  PROVE  result[t] = Cardinality(
           {o \in DOMAIN Content : o >= call[t].offset /\ o < call[t].offset + call[t].count})
<1> DEFINE size == stream.size
           off == call[t].offset
           cnt == call[t].count
           asked == {o \in DOMAIN Content : o >= off /\ o < off + cnt}
<1>1. stream # NoStream /\ call[t] \in CallRecord /\ archive \in Archives
  BY ReplyAssumption DEF IInv, VarsType, ReaderType
<1>2. off \in Nat /\ cnt \in Nat
  BY <1>1 DEF CallRecord
<1>3. size \in Nat
  BY <1>1 DEF IInv, VarsType, Entry
<1>4. result[t] = (IF off > size THEN 0 ELSE CutTo(size, off, cnt))
  BY DEF AInv, ServedInv, Served
<1>5. DOMAIN Content = 0 .. size - 1
  <2>1. Named \in SameNamed /\ size = Len(archive.members[Named].bytes)
    BY <1>1, StreamIs DEF AInv
  <2>2. Content = [o \in 0 .. Len(archive.members[Named].bytes) - 1 |-> archive.members[Named].bytes[o + 1]]
    BY <2>1 DEF Content, SameNamed, Named
  <2> QED
    BY <2>1, <2>2
<1> DEFINE last == IF off + cnt > size THEN size - 1 ELSE off + cnt - 1
<1> HIDE DEF off, cnt, size
<1>6. asked = off .. last
  BY <1>2, <1>3, <1>5
<1>7. last \in Int
  BY <1>2, <1>3
<1> HIDE DEF asked, last
<1>8. Cardinality(asked) = IF off > last THEN 0 ELSE last - off + 1
  BY <1>2, <1>6, <1>7, FS_Interval
<1>9. result[t] = IF off > last THEN 0 ELSE last - off + 1
  BY <1>2, <1>3, <1>4 DEF CutTo, last
<1> QED
  BY <1>8, <1>9 DEF asked, off, cnt

\* A read of a segment that does not fail serves all of the request that lies in
\* the segment, in every interleaving with other readers (Zip.h:351).
THEOREM ServesAllOrFails == Spec => []AllOrError
<1>1. IInv /\ AInv => AllOrError
  BY ServedIsRequested DEF AllOrError
<1> QED
  BY <1>1, Invariant, PTL

-----------------------------------------------------------------------------
(* A segment is a byte stream.                                             *)

\* When a reader has been answered; what it was given are bytes.
Given(t) ==
    /\ pc[t] # "idle" => result[t] = NoReply
    /\ call[t] # NoCall => pc[t] # "idle" \/ result[t] # NoReply
    /\ call[t] # NoCall => call[t].late \in BOOLEAN /\ (call[t].late => streamClosed)
    /\ pc[t] = "reading" => ~call[t].late
    /\ Readable => buf[t] \in Seq(Byte)

GivenInv == (released => streamClosed) /\ \A t \in Threads : Given(t)

BInv == IInv /\ AInv /\ GivenInv

\* n bytes of the segment from o on.
Piece(o, n) == [i \in 1 .. n |-> archive.members[Named].bytes[o + i]]

\* What the abstract stream allows a read that ends to give back.
MayGive(t, n, bytes) ==
    Readable =>
      /\ bytes \in Seq(Byte)
      /\ \/ n = -1
         \/ /\ ~call[t].late
            /\ \/ streamClosed
               \/ /\ n \in 0 .. call[t].count
                  /\ \A i \in 1 .. n : call[t].offset + i - 1 \in DOMAIN Content
                  /\ bytes = [i \in 1 .. n |-> Content[call[t].offset + i - 1]]

LEMMA SegmentIs ==
  ASSUME IInv, StreamInv, Readable, stream # NoStream
  PROVE  LET m == archive.members[Named]
         IN  /\ m.bytes \in Seq(Byte) /\ Len(m.bytes) = stream.size /\ m.packed = stream.csize
             /\ m.start = stream.offset /\ m.method = stream.method
             /\ stream \in Entry /\ archive \in Archives /\ archive.shift = 0
             /\ HasSegment(archive, m)
             /\ DOMAIN Content = 0 .. stream.size - 1
             /\ \A o \in 0 .. stream.size - 1 : Content[o] = m.bytes[o + 1]
<1> DEFINE m == archive.members[Named]
<1>1. /\ archive \in Archives /\ Named \in SameNamed /\ archive.shift = 0 /\ stream \in Entry
      /\ MemberType(m) /\ HasSegment(archive, m)
      /\ m.method = stream.method /\ m.start = stream.offset /\ m.packed = stream.csize
      /\ Len(m.bytes) = stream.size
  BY StreamIs DEF IInv, VarsType
<1>3. Content = [o \in 0 .. Len(m.bytes) - 1 |-> m.bytes[o + 1]]
  BY <1>1 DEF Content, SameNamed, Named
<1> HIDE DEF m
<1>5. DOMAIN Content = 0 .. stream.size - 1 /\ \A o \in 0 .. stream.size - 1 : Content[o] = m.bytes[o + 1]
  BY <1>1, <1>3
<1> QED
  BY <1>1, <1>5 DEF MemberType, m

LEMMA PieceIs ==
  ASSUME IInv, StreamInv, Readable, stream # NoStream, NEW o \in Nat, NEW n \in Nat, o + n <= stream.size
  PROVE  /\ Piece(o, n) \in Seq(Byte)
         /\ \A i \in 1 .. n : o + i - 1 \in DOMAIN Content
         /\ Piece(o, n) = [i \in 1 .. n |-> Content[o + i - 1]]
<1> DEFINE m == archive.members[Named]
<1>1. /\ m.bytes \in Seq(Byte) /\ Len(m.bytes) = stream.size /\ stream.size \in Nat
      /\ DOMAIN Content = 0 .. stream.size - 1
      /\ \A p \in 0 .. stream.size - 1 : Content[p] = m.bytes[p + 1]
  BY SegmentIs DEF Entry
<1>2. Piece(o, n) = [i \in 1 .. n |-> m.bytes[o + i]]
  BY DEF Piece
<1> HIDE DEF m
<1>3. \A i \in 1 .. n : o + i - 1 \in 0 .. stream.size - 1 /\ o + i \in 1 .. stream.size /\ o + i - 1 + 1 = o + i
  BY <1>1
<1>4. \A i \in 1 .. n : m.bytes[o + i] \in Byte /\ Content[o + i - 1] = m.bytes[o + i]
  BY <1>1, <1>3, ElementOfSeq
<1>5. Piece(o, n) \in [1 .. n -> Byte]
  BY <1>2, <1>4
<1> QED
  BY <1>1, <1>2, <1>3, <1>4, <1>5

\* What a read of the file gives of a stored segment.
LEMMA StoredGives ==
  ASSUME IInv, StreamInv, Readable, stream # NoStream, stream.method = "stored",
         NEW o \in Nat, NEW n \in Nat, o + n <= stream.size,
         NEW r \in DataRead(stream.offset + o, n)
  PROVE  [i \in DOMAIN r.data |-> IF r.data[i].kind = "data" THEN r.data[i].byte ELSE Garbage]
           = IF r.n = -1 THEN <<>> ELSE Piece(o, n)
<1> DEFINE m == archive.members[Named]
           at == stream.offset + o
           got == [i \in 1 .. n |-> CellAt(at + i - 1)]
<1>1. /\ m.bytes \in Seq(Byte) /\ Len(m.bytes) = stream.size /\ stream.size \in Nat
      /\ m.start = stream.offset /\ stream.offset \in Nat /\ m.method = "stored" /\ archive.shift = 0
      /\ HasSegment(archive, m) /\ archive \in Archives
  BY SegmentIs DEF Entry
<1>2. stream.offset + stream.size <= Length /\ Length \in Nat
  BY <1>1, DataIsThere, ArchiveIs DEF Length
<1>3. at \in Nat /\ ~(at > Length) /\ at + n <= Length
  BY <1>1, <1>2, SMTT(30)
<1>4. (IF n = 0 \/ at > Length THEN 0 ELSE CutTo(Length, at, n)) = n
  BY <1>2, <1>3 DEF CutTo
<1>5. r = [n |-> n, data |-> got] \/ r = [n |-> -1, data |-> <<>>]
  BY <1>4 DEF DataRead
<1> HIDE DEF m, at
<1>6. \A i \in 1 .. Len(m.bytes) : /\ Cell(archive, archive.shift + m.start + i - 1).kind = "data"
                                   /\ Cell(archive, archive.shift + m.start + i - 1).byte = m.bytes[i]
  BY <1>1 DEF HasSegment, HasData
<1>7. \A i \in 1 .. n : got[i].kind = "data" /\ got[i].byte = m.bytes[o + i]
  <2>1. ASSUME NEW i \in 1 .. n PROVE got[i].kind = "data" /\ got[i].byte = m.bytes[o + i]
    <3>1. o + i \in 1 .. Len(m.bytes) /\ archive.shift + m.start + (o + i) - 1 = at + i - 1
      BY <1>1 DEF at
    <3>2. got[i] = Cell(archive, archive.shift + m.start + (o + i) - 1)
      BY <3>1 DEF CellAt
    <3> QED
      BY <1>6, <3>1, <3>2
  <2> QED
    BY <2>1
<1>8. CASE r = [n |-> n, data |-> got]
  <2>1. r.n # -1 /\ r.data = got /\ DOMAIN r.data = 1 .. n
    BY <1>8
  <2> HIDE DEF got
  <2> QED
    BY <1>7, <2>1 DEF Piece, m
<1>9. CASE r = [n |-> -1, data |-> <<>>]
  <2>1. r.n = -1 /\ r.data = <<>>
    BY <1>9
  <2> QED
    BY <2>1
<1> QED
  BY <1>5, <1>8, <1>9

\* What inflating a segment gives, if it gives anything.
LEMMA InflatedIs ==
  ASSUME IInv, StreamInv, Readable, stream # NoStream, stream.method = "deflate",
         NEW r \in DataRead(stream.offset, stream.csize), NEW bytes \in Inflated(r.data, stream.size)
  PROVE  bytes = archive.members[Named].bytes
<1> DEFINE m == archive.members[Named]
           n == IF stream.csize = 0 \/ stream.offset > Length THEN 0 ELSE CutTo(Length, stream.offset, stream.csize)
           got == [i \in 1 .. n |-> CellAt(stream.offset + i - 1)]
           first == r.data[1]
<1>1. /\ m.bytes \in Seq(Byte) /\ Len(m.bytes) = stream.size /\ stream.size \in Nat
      /\ m.start = stream.offset /\ stream.offset \in Nat /\ m.method = "deflate" /\ archive.shift = 0
      /\ HasSegment(archive, m) /\ archive \in Archives /\ stream.csize \in Nat
  BY SegmentIs DEF Entry
<1>2. /\ Len(r.data) > 0
      /\ bytes = [i \in 1 .. stream.size |-> IF i <= Len(first.deflates) THEN first.deflates[i] ELSE Garbage]
  BY DEF Inflated
<1>3. r = [n |-> n, data |-> got] \/ r = [n |-> -1, data |-> <<>>]
  BY DEF DataRead
<1>4. Length \in Nat
  BY <1>1, ArchiveIs DEF Length
<1>5. n \in Nat
  <2>1. stream.offset <= Length => CutTo(Length, stream.offset, stream.csize) \in Nat
    BY <1>1, <1>4, CutToIs
  <2> QED
    BY <1>1, <1>4, <2>1
<1> HIDE DEF n, m
<1>6. r.data = got /\ Len(got) = n /\ n > 0
  <2>1. Len(<<>>) = 0 /\ Len(got) = n
    BY <1>5
  <2> HIDE DEF got
  <2> QED
    BY <1>2, <1>3, <2>1
<1>7. first = Cell(archive, archive.shift + m.start + 1 - 1)
  <2>1. got[1] = CellAt(stream.offset + 1 - 1)
    BY <1>5, <1>6
  <2>2. archive.shift + m.start + 1 - 1 = stream.offset + 1 - 1
    BY <1>1
  <2> HIDE DEF got
  <2> QED
    BY <1>6, <2>1, <2>2 DEF CellAt
<1>8. first.deflates = m.bytes
  BY <1>1, <1>7 DEF HasSegment, HasData
<1> HIDE DEF got, first
<1>9. m.bytes = [i \in 1 .. stream.size |-> m.bytes[i]]
  BY <1>1
<1>10. \A i \in 1 .. stream.size : i <= Len(m.bytes)
  BY <1>1
<1> QED
  BY <1>2, <1>8, <1>9, <1>10 DEF m

LEMMA SubSeqIsPiece ==
  ASSUME IInv, StreamInv, Readable, stream # NoStream, NEW o \in Nat, NEW n \in Nat, o + n <= stream.size
  PROVE  SubSeq(archive.members[Named].bytes, o + 1, o + n) = Piece(o, n)
<1> DEFINE b == archive.members[Named].bytes
<1>1. b \in Seq(Byte) /\ Len(b) = stream.size /\ stream.size \in Nat
  BY SegmentIs DEF Entry
<1>2. Piece(o, n) = [i \in 1 .. n |-> b[o + i]]
  BY DEF Piece
<1> HIDE DEF b
<1>3. SubSeq(b, o + 1, o + n) = [i \in 1 .. (o + n - (o + 1) + 1) |-> b[o + 1 + i - 1]]
  BY <1>1
<1>4. o + n - (o + 1) + 1 = n /\ \A i \in 1 .. n : o + 1 + i - 1 = o + i
  OBVIOUS
<1> QED
  BY <1>2, <1>3, <1>4 DEF b

\* A reader that goes on to read finds the stream open; one that returns may give what it does.
LEMMA ReadGives ==
  ASSUME BInv, NEW t \in Threads, ReadStep(t)
  PROVE  \/ Enter(t)
         \/ \E n \in Nat \cup {-1} : \E bytes :
              pc[t] # "idle" /\ Return(t, n, bytes) /\ MayGive(t, n, bytes)
<1> DEFINE o == call[t].offset
           c == call[t].count
           k == CutTo(stream.size, o, c)
           Ends(n, bytes) == pc[t] # "idle" /\ Return(t, n, bytes) /\ MayGive(t, n, bytes)
<1> SUFFICES ASSUME ~Enter(t)
             PROVE  \E n \in Nat \cup {-1} : \E bytes : Ends(n, bytes)
  OBVIOUS
<1>0. <<>> \in Seq(Byte) /\ MayGive(t, -1, <<>>)
  BY DEF MayGive
<1>1. IInv /\ StreamInv /\ Given(t) /\ (released => streamClosed)
  BY DEF BInv, AInv, GivenInv
<1>2. CASE Refuse(t)
  <2>1. Ends(-1, <<>>)
    BY <1>0, <1>2 DEF Refuse
  <2> QED
    BY <2>1
<1>3. ASSUME pc[t] = "reading"
      PROVE  /\ o \in Nat /\ c \in Nat /\ stream # NoStream /\ ~call[t].late
             /\ stream.size \in Nat /\ stream.csize \in Nat /\ stream.offset \in Nat
  <2>1. call[t] \in CallRecord /\ stream # NoStream
    BY <1>1, <1>3 DEF IInv, ReaderType
  <2>2. stream \in Entry
    BY <1>1, <2>1 DEF IInv, VarsType
  <2> QED
    BY <1>1, <1>3, <2>1, <2>2 DEF CallRecord, Entry, Given
<1>4. CASE ReadReleased(t)
  <2>1. PICK n \in {-1, c} : Return(t, n, <<>>)
    BY <1>4 DEF ReadReleased
  <2>2. pc[t] = "reading" /\ streamClosed
    BY <1>1, <1>4 DEF ReadReleased
  <2>3. MayGive(t, n, <<>>)
    BY <1>0, <1>3, <2>2 DEF MayGive
  <2>4. n \in Nat \cup {-1} /\ Ends(n, <<>>)
    BY <1>3, <2>1, <2>2, <2>3
  <2> QED
    BY <2>4
<1>5. CASE ReadPastEnd(t)
  <2>1. pc[t] = "reading" /\ Return(t, 0, <<>>)
    BY <1>5 DEF ReadPastEnd
  <2>2. 1 .. 0 = {} /\ 0 \in 0 .. c /\ <<>> = [i \in 1 .. 0 |-> Content[o + i - 1]]
    BY <1>3, <2>1
  <2>3. MayGive(t, 0, <<>>)
    BY <1>0, <1>3, <2>1, <2>2 DEF MayGive
  <2> QED
    BY <2>1, <2>3
<1>6. ASSUME pc[t] = "reading", o <= stream.size
      PROVE  /\ k \in Nat /\ o + k <= stream.size
             /\ MayGive(t, k, Piece(o, k)) /\ (Readable => Piece(o, k) \in Seq(Byte))
  <2>1. k \in Nat /\ o + k <= stream.size /\ k \in 0 .. c
    <3>1. k \in Nat /\ o + k <= stream.size /\ k <= c
      BY <1>3, <1>6, CutToIs
    <3> HIDE DEF k
    <3> QED
      BY <1>3, <1>6, <3>1
  <2> HIDE DEF k
  <2>2. ASSUME Readable
        PROVE  /\ Piece(o, k) \in Seq(Byte)
               /\ \A i \in 1 .. k : o + i - 1 \in DOMAIN Content
               /\ Piece(o, k) = [i \in 1 .. k |-> Content[o + i - 1]]
    BY <1>1, <1>3, <1>6, <2>1, <2>2, PieceIs
  <2> QED
    BY <1>3, <1>6, <2>1, <2>2 DEF MayGive
<1>7. CASE ReadStored(t)
  <2> DEFINE Put(r) == [i \in DOMAIN r.data |-> IF r.data[i].kind = "data" THEN r.data[i].byte ELSE Garbage]
  <2>1. /\ pc[t] = "reading" /\ o <= stream.size /\ stream.method = "stored"
        /\ \E r \in DataRead(stream.offset + o, k) : Return(t, r.n, Put(r))
    BY <1>7 DEF ReadStored
  <2>2. PICK r \in DataRead(stream.offset + o, k) : Return(t, r.n, Put(r))
    BY <2>1
  <2>3. k \in Nat /\ o + k <= stream.size
    BY <1>6, <2>1
  <2> HIDE DEF k
  <2>4. /\ r.n \in Nat \cup {-1}
        /\ stream.offset + o + k <= Length /\ r.n # -1 => r.n = k
    BY <1>1, <1>3, <2>1, <2>3, DataReadIs DEF IInv, VarsType
  <2>5. ASSUME Readable
        PROVE  Put(r) = (IF r.n = -1 THEN <<>> ELSE Piece(o, k)) /\ (r.n # -1 => r.n = k)
    <3>1. Put(r) = IF r.n = -1 THEN <<>> ELSE Piece(o, k)
      BY <1>1, <1>3, <2>1, <2>3, <2>5, StoredGives
    <3>2. stream.offset + stream.size <= Length /\ Length \in Nat
      BY <1>1, <1>3, <2>1, <2>5, DataIsThere, ArchiveIs DEF Length, IInv, VarsType
    <3>3. stream.offset + o + k <= Length
      BY <1>3, <2>1, <2>3, <3>2
    <3> QED
      BY <2>4, <3>1, <3>3
  <2> HIDE DEF Put
  <2>6. MayGive(t, r.n, Put(r))
    <3>1. CASE ~Readable
      BY <3>1 DEF MayGive
    <3>2. CASE Readable /\ r.n = -1
      BY <1>0, <2>5, <3>2
    <3>3. CASE Readable /\ r.n # -1
      <4>1. Put(r) = Piece(o, k) /\ r.n = k
        BY <2>5, <3>3
      <4>2. MayGive(t, k, Piece(o, k))
        BY <1>6, <2>1 DEF k
      <4> QED
        BY <4>1, <4>2
    <3> QED
      BY <3>1, <3>2, <3>3
  <2>7. Ends(r.n, Put(r))
    BY <2>1, <2>2, <2>6
  <2> QED
    BY <2>4, <2>7
<1>8. CASE ReadDeflated(t)
  <2>1. /\ pc[t] = "reading" /\ o <= stream.size /\ stream.method = "deflate"
        /\ \/ Return(t, -1, <<>>)
           \/ \E r \in DataRead(stream.offset, stream.csize) :
                \E bytes \in Inflated(r.data, stream.size) : Return(t, k, SubSeq(bytes, o + 1, o + k))
    BY <1>8 DEF ReadDeflated
  <2>2. CASE Return(t, -1, <<>>)
    <3>1. Ends(-1, <<>>)
      BY <1>0, <2>1, <2>2
    <3> QED
      BY <3>1
  <2>3. CASE \E r \in DataRead(stream.offset, stream.csize) :
               \E bytes \in Inflated(r.data, stream.size) : Return(t, k, SubSeq(bytes, o + 1, o + k))
    <3>1. PICK r \in DataRead(stream.offset, stream.csize) :
            \E bytes \in Inflated(r.data, stream.size) : Return(t, k, SubSeq(bytes, o + 1, o + k))
      BY <2>3
    <3>2. PICK bytes \in Inflated(r.data, stream.size) : Return(t, k, SubSeq(bytes, o + 1, o + k))
      BY <3>1
    <3>3. k \in Nat /\ o + k <= stream.size /\ MayGive(t, k, Piece(o, k))
      BY <1>6, <2>1
    <3> HIDE DEF k
    <3>4. ASSUME Readable
          PROVE  SubSeq(bytes, o + 1, o + k) = Piece(o, k)
      <4>1. bytes = archive.members[Named].bytes
        BY <1>1, <1>3, <2>1, <3>2, <3>4, InflatedIs
      <4>2. SubSeq(archive.members[Named].bytes, o + 1, o + k) = Piece(o, k)
        BY <1>1, <1>3, <2>1, <3>3, <3>4, SubSeqIsPiece
      <4> QED
        BY <4>1, <4>2
    <3>5. MayGive(t, k, SubSeq(bytes, o + 1, o + k))
      <4>1. CASE ~Readable
        BY <4>1 DEF MayGive
      <4>2. CASE Readable
        BY <3>3, <3>4, <4>2
      <4> QED
        BY <4>1, <4>2
    <3>6. Ends(k, SubSeq(bytes, o + 1, o + k))
      BY <2>1, <3>2, <3>5
    <3> QED
      BY <3>3, <3>6
  <2> QED
    BY <2>1, <2>2, <2>3
<1>9. CASE ReadOther(t)
  <2>1. Ends(-1, <<>>)
    BY <1>0, <1>9 DEF ReadOther
  <2> QED
    BY <2>1
<1> QED
  BY <1>2, <1>4, <1>5, <1>7, <1>8, <1>9 DEF ReadStep

-----------------------------------------------------------------------------
(* The invariant.                                                          *)

LEMMA OtherGiven ==
  ASSUME NEW t \in Threads, Given(t), UNCHANGED <<archive, faults, segment>>,
         streamClosed' = streamClosed \/ streamClosed' = TRUE,
         pc'[t] = pc[t], call'[t] = call[t], buf'[t] = buf[t], result'[t] = result[t]
  PROVE  Given(t)'
  BY ReadableSame DEF Given

LEMMA QuietGiven ==
  ASSUME BInv, UNCHANGED <<archive, faults, segment, reader>>,
         streamClosed' = streamClosed \/ streamClosed' = TRUE,
         released' => streamClosed'
  PROVE  GivenInv'
<1>1. \A t \in Threads : Given(t)'
  BY OtherGiven DEF BInv, GivenInv, reader
<1> QED
  BY <1>1 DEF GivenInv

LEMMA CallGiven ==
  ASSUME BInv, NEW t \in Threads, NEW c \in Calls, Call(t, c)
  PROVE  GivenInv'
<1> DEFINE r == [offset |-> c.offset, count |-> c.count, late |-> streamClosed]
<1>1. r.late = streamClosed /\ streamClosed \in BOOLEAN /\ ReaderType /\ <<>> \in Seq(Byte)
  BY DEF BInv, IInv, VarsType
<1>2. /\ call' = [call EXCEPT ![t] = r]
      /\ UNCHANGED <<archive, faults, segment, streamClosed, released>>
      /\ pc' = [pc EXCEPT ![t] = "called"] /\ result' = [result EXCEPT ![t] = NoReply]
      /\ buf' = [buf EXCEPT ![t] = <<>>]
  BY DEF Call, input, object
<1> HIDE DEF r
<1>3. /\ pc'[t] = "called" /\ result'[t] = NoReply /\ call'[t] = r /\ buf'[t] = <<>>
      /\ \A u \in Threads \ {t} : pc'[u] = pc[u] /\ result'[u] = result[u] /\ call'[u] = call[u] /\ buf'[u] = buf[u]
  BY <1>1, <1>2 DEF ReaderType
<1>4. Given(t)'
  BY <1>1, <1>2, <1>3 DEF Given
<1>5. \A u \in Threads \ {t} : Given(u)'
  BY <1>2, <1>3, OtherGiven DEF BInv, GivenInv
<1> QED
  BY <1>2, <1>4, <1>5 DEF BInv, GivenInv

LEMMA EnterGiven ==
  ASSUME BInv, NEW t \in Threads, Enter(t)
  PROVE  GivenInv'
<1>1. /\ pc[t] = "called" /\ ~streamClosed /\ pc' = [pc EXCEPT ![t] = "reading"]
      /\ UNCHANGED <<archive, faults, segment, streamClosed, released, call, buf, result>>
  BY DEF Enter, input, object
<1>2. pc'[t] = "reading" /\ \A u \in Threads \ {t} : pc'[u] = pc[u]
  BY <1>1 DEF BInv, IInv, ReaderType
<1>3. Given(t)
  BY DEF BInv, GivenInv
<1>4. call[t] # NoCall
  BY <1>1, CallAssumption DEF BInv, IInv, ReaderType, CallRecord
<1>5. Given(t)'
  BY <1>1, <1>2, <1>3, <1>4, ReadableSame DEF Given
<1>6. \A u \in Threads \ {t} : Given(u)'
  BY <1>1, <1>2, OtherGiven DEF BInv, GivenInv
<1> QED
  BY <1>1, <1>5, <1>6 DEF BInv, GivenInv

LEMMA ReturnGiven ==
  ASSUME BInv, NEW t \in Threads, NEW n \in Nat \cup {-1}, NEW bytes, Return(t, n, bytes), MayGive(t, n, bytes)
  PROVE  GivenInv'
<1>1. /\ pc' = [pc EXCEPT ![t] = "idle"] /\ result' = [result EXCEPT ![t] = n] /\ buf' = [buf EXCEPT ![t] = bytes]
      /\ UNCHANGED <<archive, faults, segment, streamClosed, released, call>>
  BY DEF Return, input, object
<1>2. /\ pc'[t] = "idle" /\ result'[t] = n /\ buf'[t] = bytes
      /\ \A u \in Threads \ {t} : pc'[u] = pc[u] /\ result'[u] = result[u] /\ buf'[u] = buf[u]
  BY <1>1 DEF BInv, IInv, ReaderType
<1>3. Given(t) /\ n # NoReply
  BY ReplyAssumption DEF BInv, GivenInv
<1>4. Readable' = Readable /\ (Readable => bytes \in Seq(Byte))
  BY <1>1, ReadableSame DEF MayGive
<1>5. Given(t)'
  BY <1>1, <1>2, <1>3, <1>4 DEF Given
<1>6. \A u \in Threads \ {t} : Given(u)'
  BY <1>1, <1>2, OtherGiven DEF BInv, GivenInv
<1> QED
  BY <1>1, <1>5, <1>6 DEF BInv, GivenInv

\* The steps that no reader takes.
LEMMA ParseIsQuiet ==
  ASSUME ParseStep \/ GetStream \/ CloseZip
  PROVE  UNCHANGED <<archive, faults, segment, streamClosed, released, reader>>
  BY DEF ParseStep, OpenFails, Open, FindEnd, FindDirectory, FindDirectory64, ReadHeader, ReadExtra,
     ExtrasDone, ReadLocal, Complete, GetStream, CloseZip, input, object

LEMMA StepGiven ==
  ASSUME BInv, [Next]_vars
  PROVE  BInv'
<1>1. IInv' /\ AInv'
  <2>1. CASE Next
    BY <2>1, StepInv, StepServed DEF BInv
  <2>2. CASE UNCHANGED vars
    <3>1. UNCHANGED <<archive, faults, segment, stream, released, call, result>>
      BY <2>2 DEF vars, input, object, reader
    <3> QED
      BY <2>2, <3>1, StutterInv, ServedSame DEF BInv
  <2> QED
    BY <2>1, <2>2
<1>2. CASE ParseStep \/ GetStream \/ CloseZip
  <2>1. UNCHANGED <<archive, faults, segment, reader>> /\ streamClosed' = streamClosed /\ released' = released
    BY <1>2, ParseIsQuiet
  <2>2. released => streamClosed
    BY DEF BInv, GivenInv
  <2>3. released' => streamClosed'
    BY <2>1, <2>2
  <2> QED
    BY <1>1, <2>1, <2>3, QuietGiven DEF BInv
<1>3. CASE CloseStream \/ Release
  <2>1. UNCHANGED <<archive, faults, segment, reader>> /\ streamClosed' = TRUE
    BY <1>3 DEF CloseStream, Release, input, BInv, IInv, VarsType
  <2> QED
    BY <1>1, <2>1, QuietGiven DEF BInv
<1>4. ASSUME NEW t \in Threads, NEW c \in Calls, Call(t, c) PROVE BInv'
  BY <1>1, <1>4, CallGiven DEF BInv
<1>5. ASSUME NEW t \in Threads, ReadStep(t) PROVE BInv'
  <2>1. CASE Enter(t)
    BY <1>1, <2>1, EnterGiven DEF BInv
  <2> QED
    BY <1>1, <1>5, <2>1, ReadGives, ReturnGiven DEF BInv
<1>6. CASE UNCHANGED vars
  <2>1. UNCHANGED <<archive, faults, segment, reader, streamClosed, released>>
    BY <1>6 DEF vars, input, object
  <2> QED
    BY <1>1, <2>1, QuietGiven DEF BInv, GivenInv
<1> QED
  BY <1>2, <1>3, <1>4, <1>5, <1>6 DEF Next

-----------------------------------------------------------------------------
(* Each step as one of the abstract stream.                                *)

Asks == [t \in Threads |-> IF Readable THEN call[t] ELSE NoCall]
Replies == [t \in Threads |->
    IF ~Readable \/ result[t] = NoReply THEN NoReply ELSE [n |-> result[t], bytes |-> buf[t]]]

LEMMA SameArchive ==
  ASSUME UNCHANGED <<archive, faults, segment>>
  PROVE  Content' = Content /\ Readable' = Readable
  BY ReadableSame DEF Content

LEMMA SeenSame ==
  ASSUME UNCHANGED <<archive, faults, segment>>, streamClosed' = streamClosed, call' = call, result' = result, buf' = buf
  PROVE  UNCHANGED Bytes!streamVars
<1>1. Content' = Content /\ Readable' = Readable
  BY SameArchive
<1>2. Asks' = Asks
  BY <1>1 DEF Asks
<1>3. Replies' = Replies
  BY <1>1 DEF Replies
<1> QED
  BY <1>1, <1>2, <1>3 DEF Bytes!streamVars, Asks, Replies

LEMMA CloseIsClose ==
  ASSUME CloseStream
  PROVE  Bytes!Close
<1>0. UNCHANGED <<archive, faults, segment, call, result, buf>> /\ ~streamClosed /\ streamClosed' = TRUE
  BY DEF CloseStream, input, reader
<1>1. Content' = Content /\ Readable' = Readable
  BY <1>0, SameArchive
<1>2. Asks' = Asks
  BY <1>0, <1>1 DEF Asks
<1>3. Replies' = Replies
  BY <1>0, <1>1 DEF Replies
<1> QED
  BY <1>0, <1>1, <1>2, <1>3 DEF Bytes!Close, Asks, Replies

LEMMA CallIsAsk ==
  ASSUME BInv, NEW t \in Threads, NEW c \in Calls, Call(t, c)
  PROVE  [Bytes!Next]_(Bytes!streamVars)
<1> DEFINE r == [offset |-> c.offset, count |-> c.count, late |-> streamClosed]
<1>1. /\ pc[t] = "idle" /\ UNCHANGED <<archive, faults, segment, streamClosed>>
      /\ call' = [call EXCEPT ![t] = r]
      /\ buf' = [buf EXCEPT ![t] = <<>>]
      /\ result' = [result EXCEPT ![t] = NoReply]
  BY DEF Call, input, object
<1>2. ReaderType /\ streamClosed \in BOOLEAN /\ Given(t)
  BY DEF BInv, IInv, VarsType, GivenInv
<1>3. Content' = Content /\ Readable' = Readable
  BY <1>1, SameArchive
<1>4. r = [offset |-> c.offset, count |-> c.count, late |-> ~(~streamClosed)]
  BY <1>2
<1> HIDE DEF r
<1>5. CASE Readable
  <2>1. Asks' = [Asks EXCEPT ![t] = r]
    BY <1>1, <1>2, <1>3, <1>5 DEF Asks, ReaderType
  <2>2. Replies' = [Replies EXCEPT ![t] = NoReply]
    <3>1. result'[t] = NoReply /\ \A u \in Threads : u # t => result'[u] = result[u] /\ buf'[u] = buf[u]
      BY <1>1, <1>2 DEF ReaderType
    <3> QED
      BY <1>3, <1>5, <3>1 DEF Replies
  <2>3. Asks[t] # NoCall => Replies[t] # NoReply
    <3> SUFFICES ASSUME Asks[t] # NoCall PROVE Replies[t] # NoReply
      OBVIOUS
    <3>1. result[t] # NoReply
      BY <1>1, <1>2, <1>5 DEF Asks, Given
    <3>2. result[t] \in Nat \cup {-1} /\ buf[t] \in Seq(Byte)
      BY <1>2, <1>5, <3>1 DEF ReaderType, Given
    <3>3. [n |-> result[t], bytes |-> buf[t]] \in [n : Nat \cup {-1}, bytes : Seq(Byte)]
      BY <3>2
    <3>4. Replies[t] = [n |-> result[t], bytes |-> buf[t]]
      BY <1>5, <3>1 DEF Replies
    <3> QED
      BY <3>3, <3>4, ReplyAssumption
  <2>4. (~streamClosed)' = ~streamClosed
    BY <1>1
  <2>5. Bytes!Ask(t)
    BY <1>3, <1>4, <2>1, <2>2, <2>3, <2>4 DEF Bytes!Ask, Asks, Replies
  <2> QED
    BY <2>5 DEF Bytes!Next
<1>6. CASE ~Readable
  <2>1. Asks' = Asks /\ Replies' = Replies
    BY <1>3, <1>6 DEF Asks, Replies
  <2> QED
    BY <1>1, <1>3, <2>1 DEF Bytes!streamVars, Asks, Replies
<1> QED
  BY <1>5, <1>6

LEMMA ReturnIsAnswer ==
  ASSUME BInv, NEW t \in Threads, NEW n \in Nat \cup {-1}, NEW bytes, pc[t] # "idle",
         Return(t, n, bytes), MayGive(t, n, bytes)
  PROVE  [Bytes!Next]_(Bytes!streamVars)
<1>1. /\ result' = [result EXCEPT ![t] = n] /\ buf' = [buf EXCEPT ![t] = bytes]
      /\ UNCHANGED <<archive, faults, segment, streamClosed>> /\ call' = call
  BY DEF Return, input, object
<1>2. ReaderType /\ Given(t)
  BY DEF BInv, IInv, GivenInv
<1>3. Content' = Content /\ Readable' = Readable
  BY <1>1, SameArchive
<1>4. /\ result'[t] = n /\ buf'[t] = bytes /\ result[t] = NoReply /\ call[t] \in CallRecord
      /\ \A u \in Threads : u # t => result'[u] = result[u] /\ buf'[u] = buf[u]
  BY <1>1, <1>2 DEF ReaderType, Given
<1>5. Asks' = Asks
  BY <1>1, <1>3 DEF Asks
<1>6. CASE Readable
  <2> DEFINE r == [n |-> n, bytes |-> bytes]
  <2>1. n # NoReply
    BY ReplyAssumption
  <2>2. Replies'[t] = r /\ \A u \in Threads : Replies'[u] = Replies[u] \/ u = t
    BY <1>3, <1>4, <1>6, <2>1 DEF Replies
  <2>3. r # NoReply
    <3>1. r \in [n : Nat \cup {-1}, bytes : Seq(Byte)]
      BY <1>6 DEF MayGive
    <3> QED
      BY <3>1, ReplyAssumption
  <2>4. Replies[t] = NoReply /\ Asks[t] = call[t] /\ call[t] # NoCall
    BY <1>4, <1>6, CallAssumption DEF Replies, Asks, CallRecord
  <2>5. Bytes!Promised(Asks[t], r)
    <3>1. r.n = n /\ r.bytes = bytes
      OBVIOUS
    <3> HIDE DEF r
    <3> QED
      BY <1>6, <2>4, <3>1 DEF MayGive, Bytes!Promised, Bytes!Served
  <2> HIDE DEF r
  <2>6. (~streamClosed)' = ~streamClosed
    BY <1>1
  <2>7. Bytes!Answer(t)
    BY <1>3, <1>5, <2>2, <2>3, <2>4, <2>5, <2>6 DEF Bytes!Answer, Asks, Replies
  <2> QED
    BY <2>7 DEF Bytes!Next
<1>7. CASE ~Readable
  <2>1. Replies' = Replies
    BY <1>3, <1>7 DEF Replies
  <2> QED
    BY <1>1, <1>3, <1>5, <2>1 DEF Bytes!streamVars, Asks, Replies
<1> QED
  BY <1>6, <1>7

LEMMA NextIsSeen == BInv /\ [Next]_vars => [Bytes!Next]_(Bytes!streamVars)
<1> SUFFICES ASSUME BInv, [Next]_vars
             PROVE  [Bytes!Next]_(Bytes!streamVars)
  OBVIOUS
<1>1. CASE ParseStep \/ GetStream \/ CloseZip
  BY <1>1, ParseIsQuiet, SeenSame DEF reader
<1>2. CASE CloseStream
  BY <1>2, CloseIsClose DEF Bytes!Next
<1>3. CASE Release
  BY <1>3, SeenSame DEF Release, input, reader
<1>4. ASSUME NEW t \in Threads, NEW c \in Calls, Call(t, c)
      PROVE  [Bytes!Next]_(Bytes!streamVars)
  BY <1>4, CallIsAsk
<1>5. ASSUME NEW t \in Threads, ReadStep(t)
      PROVE  [Bytes!Next]_(Bytes!streamVars)
  <2>1. CASE Enter(t)
    BY <2>1, SeenSame DEF Enter, input, object
  <2> QED
    BY <1>5, <2>1, ReadGives, ReturnIsAnswer
<1>6. CASE UNCHANGED vars
  BY <1>6, SeenSame DEF vars, input, object, reader
<1> QED
  BY <1>1, <1>2, <1>3, <1>4, <1>5, <1>6 DEF Next

\* A segment of a file that can be read, its sizes too, is a byte stream: every
\* read that close() does not overtake gives the bytes that were put in, stored
\* or deflated, or fails, and one begun after close() fails (ZipStream.cc:52-149).
THEOREM SegmentIsByteStream == Spec => IsByteStream
<1>1. Init => BInv /\ Bytes!Init
  <2> SUFFICES ASSUME Init PROVE BInv /\ Bytes!Init
    OBVIOUS
  <2>1. \A t \in Threads : call[t] = NoCall /\ result[t] = NoReply /\ pc[t] = "idle" /\ buf[t] = <<>>
    BY DEF Init
  <2>2. IInv /\ AInv
    <3>1. StreamInv
      BY DEF Init, StreamInv
    <3>2. ServedInv
      BY <2>1, ReplyAssumption DEF ServedInv
    <3> QED
      BY <3>1, <3>2, InitInv DEF AInv
  <2>3. <<>> \in Seq(Byte)
    OBVIOUS
  <2>5. ~released
    BY DEF Init
  <2>4. GivenInv
    BY <2>1, <2>3, <2>5 DEF GivenInv, Given
  <2> QED
    BY <2>1, <2>2, <2>4 DEF BInv, Bytes!Init
<1>2. BInv /\ [Next]_vars => BInv'
  BY StepGiven
<1> QED
  BY <1>1, <1>2, NextIsSeen, PTL DEF Spec, IsByteStream, Bytes!Spec
=============================================================================
