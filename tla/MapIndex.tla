------------------------------ MODULE MapIndex ------------------------------
(***************************************************************************)
(* Construction of an aff4:Map stream (stream/MapStream.cc): the streams   *)
(* its "idx" segment names are opened (initStreamVector), then the entries *)
(* of its "map" segment are sorted and laid out over the address space,    *)
(* holes filled from the map gap stream (initMap).                         *)
(*                                                                         *)
(* The vector of streams is a sequence; stream IDs count from 0.           *)
(***************************************************************************)
EXTENDS Integers, Sequences, Functions

CONSTANTS
    Inputs,  \* what a container may hold for a map, see InputType
    W        \* uint64_t arithmetic is modulo W

ASSUME WordAssumption == W \in Nat \ {0}

Word == 0 .. W - 1
Point == [offset : Word, length : Word, streamOffset : Word, streamID : Nat]

(* A line of "idx" names the aff4 Unknown stream, a stream of the same     *)
(* container, one the resolver finds elsewhere, or one nobody knows.       *)
Line == {"unknown", "local", "external", "absent"}

\* spareGap: the gap stream is that of zeros, as when the metadata names no other.
InputType == [lines : Seq(Line), points : Seq(Point), size : Word,
              resolver : BOOLEAN, override : BOOLEAN, spareGap : BOOLEAN]

ASSUME InputAssumption == Inputs \subseteq InputType

VARIABLES
    input,    \* the container's idx and map segments, and the map's aff4:size
    phase,    \* "idx", "points", "map", "ready": how far the constructor is
    streams,  \* streams
    gapId,    \* mapGPSid
    todo,     \* the sorted points not yet laid out
    offset,   \* offset: where the next entry is expected
    map,      \* map: offset -> entry
    length,   \* length
    closed    \* closed

mapVars == <<input, phase, streams, gapId, todo, offset, map, length, closed>>

Gap == [kind |-> "gap", line |-> 0]
Unknown == [kind |-> "unknown", line |-> 0]
StandIn(i) == [kind |-> "unknown", line |-> i]
Override == [kind |-> "override", line |-> 0]
Image(i) == [kind |-> "image", line |-> i]
Stream == [kind : {"gap", "unknown", "override", "image"}, line : Nat]

TypeOK ==
    /\ input \in Inputs
    /\ phase \in {"idx", "points", "map", "ready"}
    /\ streams \in Seq(Stream)
    /\ gapId \in Nat
    /\ todo \in Seq(Point)
    /\ offset \in Word
    /\ DOMAIN map \subseteq Word
    /\ \A o \in DOMAIN map : map[o] \in Point
    /\ length \in Word
    /\ closed \in BOOLEAN

Init ==
    /\ input \in Inputs
    /\ phase = "idx"
    /\ streams = <<>>
    /\ gapId = 0
    /\ todo = <<>>
    /\ offset = 0
    /\ map = [o \in {} |-> Gap]
    /\ length = input.size
    /\ closed = FALSE

-----------------------------------------------------------------------------
(* initStreamVector(): the stream a line of idx stands for.  A line the    *)
(* container does not know goes to queryResolver(); when there is no       *)
(* resolver, or it does not know the line either, an Unknown stream with   *)
(* the name of the line stands in.                                         *)
Opened(in, i) ==
    CASE in.lines[i] = "unknown" -> IF in.override THEN Override ELSE Unknown
      [] in.lines[i] = "local" -> Image(i)
      [] in.lines[i] = "external" /\ in.resolver -> Image(i)
      [] OTHER -> StandIn(i)

InitStreamVector ==
    /\ phase = "idx"
    /\ streams' = [i \in DOMAIN input.lines |-> Opened(input, i)]
    /\ phase' = "points"
    /\ UNCHANGED <<input, gapId, todo, offset, map, length, closed>>

(* initMap(): a container whose map segment is missing or empty has an     *)
(* empty map, which the constructor closes at once.                        *)
NoMapSegment ==
    /\ phase = "points"
    /\ input.points = <<>>
    /\ length' = 0
    /\ closed' = TRUE
    /\ streams' = <<>>
    /\ phase' = "ready"
    /\ UNCHANGED <<input, gapId, todo, offset, map>>

AsListed(s) == TRUE

SortedByOffset(s) == \A i, j \in DOMAIN s : i < j => s[i].offset <= s[j].offset

\* std::sort: points with equal offsets may come out in any order.
Sortings(s) ==
    {t \in {[i \in DOMAIN s |-> s[f[i]]] : f \in Bijection(DOMAIN s, DOMAIN s)} : SortedByOffset(t)}

LoadPoints ==
    /\ phase = "points"
    /\ input.points # <<>>
    /\ gapId' = Len(streams)
    /\ streams' = Append(streams, Gap)
    /\ todo' \in Sortings(input.points)
    /\ phase' = "map"
    /\ UNCHANGED <<input, offset, map, length, closed>>

\* map[o] = entry
Store(m, o, entry) == [q \in DOMAIN m \cup {o} |-> IF q = o THEN entry ELSE m[q]]

SparseAtZero(o, end) == [offset |-> o, length |-> (end - o) % W, streamOffset |-> 0, streamID |-> gapId]

\* The hole from o up to end is read from the map gap stream.
Sparse(o, end) == [offset |-> o, length |-> (end - o) % W, streamOffset |-> o, streamID |-> gapId]

NoHole(m, o, end) == m

FillHole(m, o, end) == IF o = end THEN m ELSE Store(m, o, Sparse(o, end))

\* An ID the vector does not have is given an Unknown stream of its own.
AddPoint ==
    /\ phase = "map"
    /\ todo # <<>>
    /\ LET p == Head(todo)
           listed == p.streamID < Len(streams)
           entry == IF listed THEN p ELSE [p EXCEPT !.streamID = Len(streams)]
       IN  /\ map' = Store(FillHole(map, offset, p.offset), p.offset, entry)
           /\ offset' = (p.offset + p.length) % W
           /\ streams' = IF listed THEN streams ELSE Append(streams, Unknown)
    /\ todo' = Tail(todo)
    /\ UNCHANGED <<input, phase, gapId, length, closed>>

\* The missing end is a hole as well; a map of unknown size ends with its last entry.
FinishMap ==
    /\ phase = "map"
    /\ todo = <<>>
    /\ map' = IF offset < length THEN FillHole(map, offset, length) ELSE map
    /\ length' = IF length = 0 THEN offset ELSE length
    /\ closed' = (length' = 0)
    /\ streams' = IF length' = 0 THEN <<>> ELSE streams
    /\ phase' = "ready"
    /\ UNCHANGED <<input, gapId, todo, offset>>

BuildNext == InitStreamVector \/ NoMapSegment \/ LoadPoints \/ AddPoint \/ FinishMap

BuildSpec == Init /\ [][BuildNext]_mapVars

-----------------------------------------------------------------------------
(* MapStream::read's lookup: lower_bound, then one back if it is past o.   *)
LowerBound(o) == {q \in DOMAIN map : q >= o}
First(S) == CHOOSE q \in S : \A r \in S : q <= r
Last(S) == CHOOSE q \in S : \A r \in S : r <= q

EntryKey(o) ==
    IF LowerBound(o) = {} THEN Last(DOMAIN map)
    ELSE LET q == First(LowerBound(o))
         IN  IF map[q].offset > o THEN Last({r \in DOMAIN map : r < q}) ELSE q

EntryAt(o) == map[EntryKey(o)]
StreamAt(e) == streams[e.streamID + 1]

-----------------------------------------------------------------------------
(* What a map means, from the segments alone.                              *)

Covers(p, o) == p.offset <= o /\ o < p.offset + p.length

(* The entries a writer of maps produces: none is empty, no two cover the  *)
(* same byte, none wraps around.                                           *)
WellFormed(in) ==
    /\ \A i \in DOMAIN in.points :
         in.points[i].length > 0 /\ in.points[i].offset + in.points[i].length < W
    /\ \A i, j \in DOMAIN in.points :
         i # j => \/ in.points[i].offset + in.points[i].length <= in.points[j].offset
                  \/ in.points[j].offset + in.points[j].length <= in.points[i].offset

\* The stream and the offset in it that byte o of the map comes from.
Meaning(in, o) ==
    IF \E i \in DOMAIN in.points : Covers(in.points[i], o)
    THEN LET p == in.points[CHOOSE i \in DOMAIN in.points : Covers(in.points[i], o)]
         IN  [stream |-> IF p.streamID < Len(in.lines) THEN Opened(in, p.streamID + 1) ELSE Unknown,
              at |-> p.streamOffset + (o - p.offset)]
    ELSE [stream |-> Gap, at |-> o]

\* The first offset past every point.
End(in) == CHOOSE e \in Word : /\ \A i \in DOMAIN in.points : in.points[i].offset + in.points[i].length <= e
                               /\ \E i \in DOMAIN in.points : in.points[i].offset + in.points[i].length = e

Larger(a, b) == IF a < b THEN b ELSE a

-----------------------------------------------------------------------------
(* Properties.                                                             *)

(* The entries laid out so far cover every byte below end, each byte once, *)
(* and each entry is filed under its own offset.                           *)
Tiles(m, end) ==
    /\ \A q \in DOMAIN m : m[q].offset = q /\ m[q].length > 0 /\ q + m[q].length <= end
    /\ \A q, r \in DOMAIN m : q < r => q + m[q].length <= r
    /\ \A o \in 0 .. end - 1 : \E q \in DOMAIN m : Covers(m[q], o)

(* Whatever order the segment lists them in, the entries and the inserted  *)
(* holes tile the address space up to where construction has come: the     *)
(* lookup in read() relies on it (MapStream.cc:94-115).                    *)
MapIsTiled ==
    WellFormed(input) /\ input.points # <<>> =>
        /\ phase = "map" => Tiles(map, offset)
        /\ phase = "ready" => Tiles(map, Larger(offset, length))

(* Once built, the map is as long as the container says, or as its points  *)
(* reach.  Until it is closed, looking up any of its bytes finds the       *)
(* stream and offset the segments give for it; what no point covers comes  *)
(* from the gap stream, and IDs beyond the idx from an Unknown stream.     *)
LookupMeansPoints ==
    phase = "ready" /\ WellFormed(input) /\ input.points # <<>> =>
        /\ length = IF input.size > 0 THEN input.size ELSE End(input)
        /\ ~closed => \A o \in 0 .. length - 1 :
             LET e == EntryAt(o)
             IN  [stream |-> StreamAt(e), at |-> e.streamOffset + (o - e.offset)] = Meaning(input, o)

(* The same for the maps no point of which has as its ID the number of     *)
(* idx lines: that ID is the gap stream's own (MapStream.cc:226).          *)
GapAliased(in) == \E i \in DOMAIN in.points : in.points[i].streamID = Len(in.lines)
UnaliasedLookup == GapAliased(input) \/ LookupMeansPoints
=============================================================================
