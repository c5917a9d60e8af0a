----------------------------- MODULE ZipFormat -----------------------------
(***************************************************************************)
(* The zip files a writer makes, by the format's own description: what a   *)
(* reader of them has to find.                                             *)
(*                                                                         *)
(* A file is a sequence of cells; position p is the p-th byte offset.  The *)
(* fixed part of a zip record is one cell, and so is a name, a 64 bit      *)
(* word, a comment and a byte of data.  An archive is such a file with     *)
(* what it was made from, [cells, members, shift]: its segments in the     *)
(* order of the directory, written behind shift other cells.               *)
(***************************************************************************)
EXTENDS Integers, Sequences

CONSTANTS
    Names,     \* segment names
    Byte,      \* what a segment is made of
    Max32,     \* 0xffffffff in a 32 bit field: the value is in the zip64 extra
    W16,       \* lengths in a directory entry are 16 bit words
    TailSize   \* how far from the end of the file its end record may begin

Methods == {"stored", "deflate", "other"}

Nothing == [kind |-> "nothing"]
Cell(a, p) == IF p \in 0 .. Len(a.cells) - 1 THEN a.cells[p + 1] ELSE Nothing

CellType(c) ==
    /\ c.kind \in {"end", "end64"} => {c.offset, c.size, c.count} \subseteq Nat
    /\ c.kind = "entry" =>
         /\ c.method \in Methods /\ {c.size, c.csize, c.headerOffset} \subseteq Nat
         /\ {c.extraLen, c.commentLen} \subseteq 0 .. W16 - 1
    /\ c.kind = "local" => {c.nameLen, c.extraLen} \subseteq Nat
    /\ c.kind = "extra" => c.words \in 0 .. W16 - 1
    /\ c.kind = "word" => c.value \in Nat
    /\ c.kind = "name" => c.name \in Names

\* entry, header and start are where its directory entry, local header and data are.
MemberType(m) ==
    /\ m.name \in Names /\ m.method \in Methods /\ m.bytes \in Seq(Byte)
    /\ {Len(m.bytes), m.packed, m.entry, m.header, m.start} \subseteq Nat

\* Not the first byte of the tail, where the code does not look (a bound).
EndRegion(a) ==
    LET n == IF Len(a.cells) < TailSize THEN Len(a.cells) ELSE TailSize
    IN  Len(a.cells) - n + 1 .. Len(a.cells) - 1

\* The end record at p, or its zip64 form, says where the directory is.
TellsDirectory(a, p) ==
    LET end == Cell(a, p)
    IN  /\ end.count = Len(a.members)
        /\ p - end.size - end.offset = a.shift
        /\ Len(a.members) > 0 => a.members[1].entry = a.shift + end.offset

HasEnd(a) ==
    \E p \in EndRegion(a) :
        /\ Cell(a, p).kind = "end"
        /\ \A q \in EndRegion(a) : Cell(a, q).kind = "end" => q <= p
        /\ IF Cell(a, p).offset # Max32
           THEN TellsDirectory(a, p)
           ELSE /\ Cell(a, p - 1).kind = "locator" /\ Cell(a, p - 2).kind = "end64"
                /\ TellsDirectory(a, p - 2)

\* The x-th cell of the extra part of a directory entry, and the fields that begin there.
ExtraCell(a, m, x) == Cell(a, m.entry + 2 + x)
Extras(a, m) == {x \in 0 .. Cell(a, m.entry).extraLen - 1 : ExtraCell(a, m, x).kind = "extra"}
IsZip64(field) == field.id = 1 /\ field.words > 0

ExtrasFollow(a, m) ==
    LET len == Cell(a, m.entry).extraLen
    IN  /\ len > 0 => 0 \in Extras(a, m)
        /\ \A x \in Extras(a, m) :
             LET next == x + 1 + ExtraCell(a, m, x).words
             IN  next \in Extras(a, m) \cup {len} /\ \A y \in Extras(a, m) : x < y => next <= y

(* The values that do not fit in 32 bits, all or some of them, are in the  *)
(* one zip64 field, in the order size, packed size, offset.                *)
InField(a, m, x, k, field, value) ==
    IF field = Max32 THEN ExtraCell(a, m, x + k) = [kind |-> "word", value |-> value] ELSE field = value

WordsFrom(a, m, x) ==
    LET h == Cell(a, m.entry)
        afterSize == IF h.size = Max32 THEN 2 ELSE 1
        afterSizes == IF h.csize = Max32 THEN afterSize + 1 ELSE afterSize
    IN  /\ InField(a, m, x, 1, h.size, Len(m.bytes))
        /\ InField(a, m, x, afterSize, h.csize, m.packed)
        /\ InField(a, m, x, afterSizes, h.headerOffset, m.header)

HasValues(a, m) ==
    LET h == Cell(a, m.entry)
    IN  IF Max32 \notin {h.size, h.csize, h.headerOffset}
        THEN h.size = Len(m.bytes) /\ h.csize = m.packed /\ h.headerOffset = m.header
        ELSE \E x \in Extras(a, m) :
               /\ \A y \in Extras(a, m) : IsZip64(ExtraCell(a, m, y)) <=> y = x
               /\ WordsFrom(a, m, x)

\* A size does not fit in 32 bits, the offset does.
SizesOnly(a, m) ==
    LET h == Cell(a, m.entry)
    IN  h.headerOffset # Max32 /\ Max32 \in {h.size, h.csize}

\* The bytes themselves, or deflated data whose beginning says what it inflates to.
HasData(a, m) ==
    LET data(i) == Cell(a, a.shift + m.start + i - 1)
    IN  /\ m.method = "stored" =>
             /\ m.packed = Len(m.bytes)
             /\ \A i \in 1 .. Len(m.bytes) : data(i).kind = "data" /\ data(i).byte = m.bytes[i]
        /\ m.method = "deflate" =>
             /\ m.packed > 0
             /\ data(1).kind = "data" /\ data(1).packed = m.packed /\ data(1).deflates = m.bytes

HasSegment(a, m) ==
    LET local == Cell(a, a.shift + m.header)
    IN  /\ local.kind = "local"
        /\ m.start = m.header + 1 + local.nameLen + local.extraLen
        /\ a.shift + m.start + m.packed <= Len(a.cells)
        /\ HasData(a, m)

HasHeader(a, k) ==
    LET m == a.members[k]
        h == Cell(a, m.entry)
    IN  /\ h.kind = "entry" /\ h.method = m.method
        /\ Cell(a, m.entry + 1) = [kind |-> "name", name |-> m.name]
        /\ k < Len(a.members) => a.members[k + 1].entry = m.entry + 2 + h.extraLen + h.commentLen

(* A file with a directory, whatever the extra fields and local headers    *)
(* hold; and one in which they are what the format says.                   *)
HasDirectory(a) ==
    /\ a.shift \in Nat /\ Len(a.cells) \in Nat /\ Len(a.members) \in Nat
    /\ DOMAIN a.members = 1 .. Len(a.members)
    /\ \A p \in 0 .. Len(a.cells) - 1 : CellType(Cell(a, p))
    /\ HasEnd(a)
    /\ \A k \in DOMAIN a.members : MemberType(a.members[k]) /\ HasHeader(a, k)

WellFormed(a) ==
    /\ HasDirectory(a)
    /\ \A k \in DOMAIN a.members :
         LET m == a.members[k] IN ExtrasFollow(a, m) /\ HasValues(a, m) /\ HasSegment(a, m)
=============================================================================
