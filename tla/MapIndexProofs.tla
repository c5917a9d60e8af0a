--------------------------- MODULE MapIndexProofs ---------------------------
(***************************************************************************)
(* Proofs about MapIndex: whatever points a map segment lists, in whatever *)
(* order they are sorted, the layout tiles the address space and looking a *)
(* byte up finds what the segments say.                                    *)
(***************************************************************************)
EXTENDS MapIndex, SequenceTheorems, TLAPS

-----------------------------------------------------------------------------
(* Entries by offset.                                                      *)

Entries(m) == DOMAIN m \subseteq Nat /\ \A q \in DOMAIN m : m[q].length \in Nat

\* An entry where the layout has come to prolongs it.
LEMMA StoreTiles ==
  ASSUME NEW m, Entries(m), NEW end \in Nat, Tiles(m, end),
         NEW e, e.offset = end, e.length \in Nat, e.length > 0
  PROVE  /\ Entries(Store(m, end, e)) /\ Tiles(Store(m, end, e), end + e.length)
         /\ end \notin DOMAIN m
<1> DEFINE s == Store(m, end, e)
<1>1. \A q \in DOMAIN m : q \in Nat /\ m[q].length \in Nat /\ m[q].length > 0 /\ q + m[q].length <= end /\ m[q].offset = q
  BY DEF Entries, Tiles
<1>2. \A q \in DOMAIN m : q < end
  BY <1>1
<1>3. end \notin DOMAIN m
  BY <1>2
<1>4. DOMAIN s = DOMAIN m \cup {end} /\ s[end] = e /\ \A q \in DOMAIN m : s[q] = m[q]
  <2>1. DOMAIN s = DOMAIN m \cup {end} /\ s[end] = e
    BY DEF Store
  <2>2. \A q \in DOMAIN m : s[q] = m[q]
    BY <1>3 DEF Store
  <2> QED
    BY <2>1, <2>2
<1> HIDE DEF s
<1>5. Entries(s)
  BY <1>1, <1>4 DEF Entries
<1>6. \A q \in DOMAIN s : s[q].offset = q /\ s[q].length > 0 /\ q + s[q].length <= end + e.length
  <2>1. ASSUME NEW q \in DOMAIN m
        PROVE  s[q].offset = q /\ s[q].length > 0 /\ q + s[q].length <= end + e.length
    BY <1>1, <1>4, <2>1
  <2> QED
    BY <1>4, <2>1
<1>7. \A q, r \in DOMAIN s : q < r => q + s[q].length <= r
  <2> SUFFICES ASSUME NEW q \in DOMAIN s, NEW r \in DOMAIN s, q < r
               PROVE  q + s[q].length <= r
    OBVIOUS
  <2>1. q \in DOMAIN m
    <3>1. r \in Nat /\ r <= end
      BY <1>1, <1>2, <1>4
    <3>2. q # end
      BY <3>1
    <3> QED
      BY <1>4, <3>2
  <2>2. CASE r = end
    BY <1>1, <1>4, <2>1, <2>2
  <2>3. CASE r \in DOMAIN m
    BY <1>4, <2>1, <2>3 DEF Tiles
  <2> QED
    BY <1>4, <2>2, <2>3
<1>8. \A o \in 0 .. end + e.length - 1 : \E q \in DOMAIN s : Covers(s[q], o)
  <2> SUFFICES ASSUME NEW o \in 0 .. end + e.length - 1
               PROVE  \E q \in DOMAIN s : Covers(s[q], o)
    OBVIOUS
  <2>1. CASE o < end
    <3>1. o \in 0 .. end - 1
      BY <2>1
    <3>2. PICK q \in DOMAIN m : Covers(m[q], o)
      BY <3>1 DEF Tiles
    <3> QED
      BY <1>4, <3>2
  <2>2. CASE o >= end
    BY <1>4, <2>2 DEF Covers
  <2> QED
    BY <2>1, <2>2
<1> QED
  BY <1>3, <1>5, <1>6, <1>7, <1>8 DEF s, Tiles

LEMMA LastIs ==
  ASSUME NEW S \in SUBSET Nat, NEW q \in S, \A r \in S : r <= q
  PROVE  Last(S) = q
<1> DEFINE x == Last(S)
<1>1. x \in S /\ \A r \in S : r <= x
  BY DEF Last
<1> HIDE DEF x
<1>2. x \in Nat /\ q \in Nat
  BY <1>1
<1> QED
  BY <1>1, <1>2 DEF x

LEMMA FirstIs ==
  ASSUME NEW S \in SUBSET Nat, NEW q \in S, \A r \in S : q <= r
  PROVE  First(S) = q
<1> DEFINE x == First(S)
<1>1. x \in S /\ \A r \in S : x <= r
  BY DEF First
<1> HIDE DEF x
<1>2. x \in Nat /\ q \in Nat
  BY <1>1
<1> QED
  BY <1>1, <1>2 DEF x

\* read()'s lookup finds the entry that covers the byte.
LEMMA LookupFinds ==
  ASSUME Entries(map), NEW total \in Nat, Tiles(map, total), NEW o \in 0 .. total - 1,
         NEW q \in DOMAIN map, Covers(map[q], o)
  PROVE  EntryKey(o) = q
<1>1. \A r \in DOMAIN map : /\ r \in Nat /\ map[r].length \in Nat /\ map[r].length > 0
                            /\ r + map[r].length <= total /\ map[r].offset = r
  BY DEF Entries, Tiles
<1>2. \A r, s \in DOMAIN map : r < s => r + map[r].length <= s
  BY DEF Tiles
<1>3. q <= o /\ o < q + map[q].length
  BY <1>1 DEF Covers
<1> DEFINE L == LowerBound(o)
           end == q + map[q].length
<1>4. L \in SUBSET Nat /\ \A r : r \in L <=> r \in DOMAIN map /\ r >= o
  BY <1>1 DEF LowerBound
<1>5. end \in Nat /\ \A r \in DOMAIN map : r > q => r >= end
  BY <1>1, <1>2
<1>6. CASE q = o
  <2>1. First(L) = q
    BY <1>4, <1>6, FirstIs
  <2>2. L # {} /\ ~(map[q].offset > o)
    BY <1>1, <1>4, <1>6
  <2> HIDE DEF L
  <2> QED
    BY <2>1, <2>2 DEF EntryKey, L
<1>7. CASE q # o /\ L = {}
  <2>1. \A r \in DOMAIN map : r <= q
    <3> SUFFICES ASSUME NEW r \in DOMAIN map, r > q
                 PROVE  FALSE
      BY <1>1
    <3>1. r >= end /\ r \in Nat
      BY <1>1, <1>5
    <3>2. r >= o
      BY <1>3, <1>5, <3>1
    <3> QED
      BY <1>4, <1>7, <3>2
  <2>2. DOMAIN map \in SUBSET Nat
    BY DEF Entries
  <2>3. Last(DOMAIN map) = q
    BY <2>1, <2>2, LastIs
  <2> QED
    BY <1>7, <2>3 DEF EntryKey
<1>8. CASE q # o /\ L # {}
  <2>1. PICK s \in DOMAIN map : s >= o
    BY <1>4, <1>8
  <2>2. s > q /\ s >= end
    BY <1>1, <1>3, <1>5, <1>8, <2>1
  <2>3. end \in 0 .. total - 1
    BY <1>1, <1>5, <2>2
  <2>4. PICK r \in DOMAIN map : Covers(map[r], end)
    BY <2>3 DEF Tiles
  <2>5. r = end
    <3>1. r \in Nat /\ r <= end /\ end < r + map[r].length
      BY <1>1, <2>4 DEF Covers
    <3>2. r # q /\ ~(r < q)
      BY <1>1, <1>2, <1>5, <3>1
    <3> QED
      BY <1>1, <1>5, <3>1, <3>2
  <2>6. \A x \in L : end <= x
    <3> SUFFICES ASSUME NEW x \in L
                 PROVE  end <= x
      OBVIOUS
    <3>1. x \in DOMAIN map /\ x >= o /\ x \in Nat
      BY <1>1, <1>4
    <3>2. x > q
      <4>1. x # q
        BY <1>1, <1>3, <1>8, <3>1
      <4> QED
        BY <1>1, <1>3, <3>1, <4>1
    <3> QED
      BY <1>5, <3>1, <3>2
  <2>7. end \in L /\ end > o
    BY <1>1, <1>3, <1>4, <1>5, <2>5
  <2>8. First(L) = end
    BY <1>4, <2>6, <2>7, FirstIs
  <2>9. map[end].offset > o
    BY <1>1, <2>5, <2>7
  <2> DEFINE B == {x \in DOMAIN map : x < end}
  <2>10. Last(B) = q
    <3>1. B \in SUBSET Nat /\ q \in B
      BY <1>1, <1>5
    <3>2. \A x \in B : x <= q
      BY <1>1, <1>5
    <3> HIDE DEF B
    <3> QED
      BY <3>1, <3>2, LastIs
  <2>11. EntryKey(o) = Last({r1 \in DOMAIN map : r1 < First(L)})
    <3> HIDE DEF end
    <3> QED
      BY <1>8, <2>8, <2>9 DEF EntryKey
  <2> QED
    BY <2>8, <2>10, <2>11
<1> QED
  BY <1>6, <1>7, <1>8

\* Past the last byte it finds the last entry.
LEMMA LookupPastEnd ==
  ASSUME Entries(map), NEW total \in Nat, Tiles(map, total), total > 0
  PROVE  \E q \in DOMAIN map : EntryKey(total) = q /\ q + map[q].length = total
<1>1. \A r \in DOMAIN map : /\ r \in Nat /\ map[r].length \in Nat /\ map[r].length > 0
                            /\ r + map[r].length <= total /\ map[r].offset = r
  BY DEF Entries, Tiles
<1>2. \A r, s \in DOMAIN map : r < s => r + map[r].length <= s
  BY DEF Tiles
<1>3. total - 1 \in 0 .. total - 1
  OBVIOUS
<1>4. PICK q \in DOMAIN map : Covers(map[q], total - 1)
  BY <1>3 DEF Tiles
<1>5. q + map[q].length = total
  BY <1>1, <1>4 DEF Covers
<1>6. LowerBound(total) = {}
  BY <1>1 DEF LowerBound
<1>7. DOMAIN map \in SUBSET Nat /\ \A r \in DOMAIN map : r <= q
  BY <1>1, <1>2, <1>5
<1>8. Last(DOMAIN map) = q
  BY <1>7, LastIs
<1> QED
  BY <1>5, <1>6, <1>8 DEF EntryKey

-----------------------------------------------------------------------------
(* The inductive invariant.                                                *)

\* The points that are still to come lie behind what has been laid out, one behind the other.
TodoInv ==
    /\ \A i \in DOMAIN todo : \E j \in DOMAIN input.points : todo[i] = input.points[j]
    /\ \A i \in DOMAIN todo : offset <= todo[i].offset
    /\ \A i, j \in DOMAIN todo : i < j => todo[i].offset + todo[i].length <= todo[j].offset

\* What an entry stands for: a hole, or a point, whose ID it keeps when idx has it.
IsHole(e) == e.streamOffset = e.offset /\ e.streamID = Len(input.lines)
LaidAs(e, p) ==
    /\ e.offset = p.offset /\ e.length = p.length /\ e.streamOffset = p.streamOffset
    /\ e.streamID = p.streamID \/ (Len(input.lines) < e.streamID /\ Len(input.lines) < p.streamID)

Laid(p) == p.offset \in DOMAIN map /\ LaidAs(map[p.offset], p)
Waits(p) == phase = "map" /\ \E j \in DOMAIN todo : todo[j] = p

LayoutInv ==
    WellFormed(input) /\ input.points # <<>> =>
        /\ phase \in {"idx", "points"} => DOMAIN map = {} /\ offset = 0
        /\ phase = "map" => Tiles(map, offset) /\ TodoInv
        /\ phase = "ready" =>
             /\ Tiles(map, Larger(offset, length))
             /\ length > 0 /\ length = IF input.size > 0 THEN input.size ELSE offset
        /\ phase \in {"map", "ready"} =>
             /\ \A q \in DOMAIN map :
                  IsHole(map[q]) \/ \E i \in DOMAIN input.points : LaidAs(map[q], input.points[i])
             /\ \A i \in DOMAIN input.points : Laid(input.points[i]) \/ Waits(input.points[i])
             /\ offset = 0 \/ \E i \in DOMAIN input.points :
                                 input.points[i].offset + input.points[i].length = offset

\* What stands at a place of the vector: lines of idx, the gap stream, Unknown streams.
Slot(n) ==
    IF n < Len(input.lines) THEN Opened(input, n + 1)
    ELSE IF n = Len(input.lines) THEN Gap ELSE Unknown

StreamsInv ==
    /\ phase # "ready" => length = input.size /\ ~closed
    /\ phase \in {"idx", "points"} => DOMAIN map = {}
    /\ phase = "points" => streams = [i \in DOMAIN input.lines |-> Opened(input, i)]
    /\ phase = "map" => gapId = Len(input.lines)
    /\ phase = "map" \/ (phase = "ready" /\ ~closed) =>
         /\ Len(input.lines) < Len(streams)
         /\ \A n \in 0 .. Len(streams) - 1 : streams[n + 1] = Slot(n)
         /\ \A q \in DOMAIN map : map[q].streamID < Len(streams)
    /\ phase = "map" \/ (phase = "ready" /\ ~closed) => input.points # <<>>

IInv == TypeOK /\ LayoutInv /\ StreamsInv

LEMMA TypeEntries == TypeOK => Entries(map)
  BY WordAssumption DEF TypeOK, Entries, Point, Word

LEMMA InputTypes ==
  ASSUME TypeOK
  PROVE  /\ input.lines \in Seq(Line) /\ input.points \in Seq(Point) /\ input.size \in Word
         /\ input.resolver \in BOOLEAN /\ input.override \in BOOLEAN
         /\ Len(input.lines) \in Nat /\ DOMAIN input.lines = 1 .. Len(input.lines)
         /\ Len(input.points) \in Nat /\ DOMAIN input.points = 1 .. Len(input.points)
         /\ \A i \in DOMAIN input.points : input.points[i] \in Point
<1>1. input \in InputType
  BY InputAssumption DEF TypeOK
<1>2. input.lines \in Seq(Line) /\ input.points \in Seq(Point) /\ input.size \in Word
      /\ input.resolver \in BOOLEAN /\ input.override \in BOOLEAN
  BY <1>1 DEF InputType
<1> QED
  BY <1>2, LenProperties, ElementOfSeq

LEMMA OpenedType ==
  ASSUME TypeOK, NEW i \in DOMAIN input.lines
  PROVE  Opened(input, i) \in Stream
<1>1. i \in Nat
  BY InputTypes
<1>2. Opened(input, i) \in {Override, Unknown, Image(i), StandIn(i)}
  BY DEF Opened
<1> QED
  BY <1>1, <1>2 DEF Override, Unknown, Image, StandIn, Stream

LEMMA WordFacts ==
  /\ Word \subseteq Nat /\ 0 \in Word
  /\ \A a \in Int : a % W \in Word
  /\ \A a \in Word : a % W = a
  BY WordAssumption DEF Word

LEMMA InitInv == Init => IInv
<1> SUFFICES ASSUME Init
             PROVE  IInv
  OBVIOUS
<1>1. input \in InputType
  BY InputAssumption DEF Init
<1>2. input.size \in Word
  BY <1>1 DEF InputType
<1>3. DOMAIN map = {}
  BY DEF Init
<1>4. <<>> \in Seq(Stream) /\ <<>> \in Seq(Point)
  OBVIOUS
<1>5. TypeOK
  BY <1>2, <1>3, <1>4, WordFacts DEF Init, TypeOK
<1> QED
  BY <1>3, <1>5 DEF Init, IInv, LayoutInv, StreamsInv

LEMMA InitStreamVectorInv ==
  ASSUME IInv, InitStreamVector
  PROVE  IInv'
<1>1. streams' \in Seq(Stream)
  <2>1. \A i \in 1 .. Len(input.lines) : Opened(input, i) \in Stream
    BY InputTypes, OpenedType DEF IInv
  <2>2. streams' = [i \in 1 .. Len(input.lines) |-> Opened(input, i)] /\ Len(input.lines) \in Nat
    BY InputTypes DEF InitStreamVector, IInv
  <2> QED
    BY <2>1, <2>2
<1>2. TypeOK'
  BY <1>1 DEF IInv, TypeOK, InitStreamVector
<1>3. LayoutInv'
  BY DEF IInv, LayoutInv, InitStreamVector, TodoInv, Laid, Waits, LaidAs, IsHole
<1>4. StreamsInv'
  BY DEF IInv, StreamsInv, InitStreamVector
<1> QED
  BY <1>2, <1>3, <1>4 DEF IInv

LEMMA NoMapSegmentInv ==
  ASSUME IInv, NoMapSegment
  PROVE  IInv'
<1>1. <<>> \in Seq(Stream)
  OBVIOUS
<1>2. TypeOK'
  BY <1>1, WordFacts DEF IInv, TypeOK, NoMapSegment
<1> QED
  BY <1>2 DEF IInv, LayoutInv, StreamsInv, NoMapSegment

\* Sorting permutes the points.
LEMMA SortingsAre ==
  ASSUME NEW s \in Seq(Point), NEW t \in Sortings(s)
  PROVE  /\ t \in Seq(Point) /\ SortedByOffset(t) /\ DOMAIN t = DOMAIN s
         /\ \A i \in DOMAIN t : \E j \in DOMAIN s : t[i] = s[j]
         /\ \A j \in DOMAIN s : \E i \in DOMAIN t : t[i] = s[j]
         /\ \E f \in [DOMAIN s -> DOMAIN s] :
              /\ \A i, j \in DOMAIN s : i # j => f[i] # f[j]
              /\ \A i \in DOMAIN s : t[i] = s[f[i]]
<1>1. PICK f \in Bijection(DOMAIN s, DOMAIN s) : t = [i \in DOMAIN s |-> s[f[i]]]
  BY DEF Sortings
<1>2. /\ f \in [DOMAIN s -> DOMAIN s]
      /\ \A i, j \in DOMAIN s : i # j => f[i] # f[j]
      /\ \A j \in DOMAIN s : \E i \in DOMAIN s : f[i] = j
  BY <1>1 DEF Bijection, Injection, Surjection, IsInjective
<1>3. DOMAIN t = DOMAIN s /\ \A i \in DOMAIN s : t[i] = s[f[i]]
  BY <1>1
<1>4. DOMAIN s = 1 .. Len(s) /\ Len(s) \in Nat /\ \A i \in DOMAIN s : s[i] \in Point
  BY LenProperties, ElementOfSeq
<1>5. t \in Seq(Point)
  <2>1. t \in [1 .. Len(s) -> Point]
    BY <1>1, <1>2, <1>4
  <2> QED
    BY <1>4, <2>1
<1>6. SortedByOffset(t)
  BY DEF Sortings
<1> QED
  BY <1>2, <1>3, <1>5, <1>6, SMTT(30)

LEMMA LoadPointsInv ==
  ASSUME IInv, LoadPoints
  PROVE  IInv'
<1>1. /\ phase = "points" /\ input.points # <<>> /\ phase' = "map"
      /\ gapId' = Len(streams) /\ streams' = Append(streams, Gap)
      /\ todo' \in Sortings(input.points)
      /\ UNCHANGED <<input, offset, map, length, closed>>
  BY DEF LoadPoints
<1>2. streams = [i \in DOMAIN input.lines |-> Opened(input, i)]
  BY <1>1 DEF IInv, StreamsInv
<1>3. Len(streams) = Len(input.lines) /\ streams \in Seq(Stream) /\ Len(streams) \in Nat
  <2>1. streams \in Seq(Stream) /\ DOMAIN streams = 1 .. Len(input.lines) /\ Len(input.lines) \in Nat
    BY <1>2, InputTypes DEF IInv, TypeOK
  <2> QED
    BY <2>1, LenProperties
<1>4. Gap \in Stream
  BY DEF Gap, Stream
<1>5. /\ todo' \in Seq(Point) /\ SortedByOffset(todo') /\ DOMAIN todo' = DOMAIN input.points
      /\ \A i \in DOMAIN todo' : \E j \in DOMAIN input.points : todo'[i] = input.points[j]
      /\ \A j \in DOMAIN input.points : \E i \in DOMAIN todo' : todo'[i] = input.points[j]
      /\ \E f \in [DOMAIN input.points -> DOMAIN input.points] :
           /\ \A i, j \in DOMAIN input.points : i # j => f[i] # f[j]
           /\ \A i \in DOMAIN input.points : todo'[i] = input.points[f[i]]
  BY <1>1, SortingsAre, InputTypes DEF IInv
<1>6. TypeOK'
  BY <1>1, <1>3, <1>4, <1>5 DEF IInv, TypeOK
<1>7. LayoutInv'
  <2> SUFFICES ASSUME WellFormed(input)
               PROVE  /\ Tiles(map, offset) /\ TodoInv'
                      /\ DOMAIN map = {} /\ offset = 0
                      /\ \A i \in DOMAIN input.points : Waits(input.points[i])'
    BY <1>1 DEF LayoutInv
  <2>1. DOMAIN map = {} /\ offset = 0
    BY <1>1 DEF IInv, LayoutInv
  <2>2. Tiles(map, offset)
    BY <2>1 DEF Tiles
  <2>3. \A i \in DOMAIN todo' : todo'[i] \in Point /\ todo'[i].offset \in Nat /\ todo'[i].length \in Nat
    <3>1. \A i \in DOMAIN todo' : todo'[i] \in Point
      BY <1>5, ElementOfSeq
    <3> QED
      BY <3>1, WordFacts DEF Point
  <2>4. \A i, j \in DOMAIN todo' : i < j => todo'[i].offset + todo'[i].length <= todo'[j].offset
    <3> SUFFICES ASSUME NEW i \in DOMAIN todo', NEW j \in DOMAIN todo', i < j
                 PROVE  todo'[i].offset + todo'[i].length <= todo'[j].offset
      OBVIOUS
    <3>1. todo'[i].offset <= todo'[j].offset
      BY <1>5 DEF SortedByOffset
    <3>2. i \in Nat /\ j \in Nat /\ i # j
      <4>1. DOMAIN todo' = 1 .. Len(todo') /\ Len(todo') \in Nat
        BY <1>5, LenProperties
      <4> QED
        BY <4>1
    <3>3. PICK a \in DOMAIN input.points, b \in DOMAIN input.points :
            a # b /\ todo'[i] = input.points[a] /\ todo'[j] = input.points[b]
      BY <1>5, <3>2
    <3>4. /\ input.points[b].length > 0
          /\ \/ input.points[a].offset + input.points[a].length <= input.points[b].offset
             \/ input.points[b].offset + input.points[b].length <= input.points[a].offset
      BY <3>3 DEF WellFormed
    <3> QED
      BY <2>3, <3>1, <3>3, <3>4
  <2>5. TodoInv'
    <3>1. \A i \in DOMAIN todo' : 0 <= todo'[i].offset
      BY <2>3
    <3> QED
      BY <1>1, <1>5, <2>1, <2>4, <3>1 DEF TodoInv
  <2> QED
    BY <1>1, <1>5, <2>1, <2>2, <2>5 DEF Waits
<1>8. StreamsInv'
  <2>1. Len(streams') = Len(input.lines) + 1 /\ streams'[Len(input.lines) + 1] = Gap
        /\ \A i \in 1 .. Len(input.lines) : streams'[i] = Opened(input, i)
    BY <1>1, <1>2, <1>3, InputTypes DEF IInv
  <2>2. \A n \in 0 .. Len(streams') - 1 : streams'[n + 1] = Slot(n)
    BY <1>3, <2>1 DEF Slot
  <2>3. \A q \in DOMAIN map : map[q].streamID < Len(streams')
    BY <1>1 DEF IInv, StreamsInv
  <2> QED
    BY <1>1, <1>3, <2>1, <2>2, <2>3 DEF IInv, StreamsInv, Slot
<1> QED
  BY <1>6, <1>7, <1>8 DEF IInv

\* A hole is filled up to its end, and nothing else changes.
LEMMA FillHoleTiles ==
  ASSUME NEW m, Entries(m), NEW o \in Word, NEW end \in Word, o <= end, Tiles(m, o)
  PROVE  LET h == FillHole(m, o, end)
         IN  /\ Entries(h) /\ Tiles(h, end)
             /\ \A q \in DOMAIN m : q \in DOMAIN h /\ h[q] = m[q]
             /\ \A q \in DOMAIN h : q \in DOMAIN m \/ (q = o /\ h[q] = Sparse(o, end))
             /\ DOMAIN h \subseteq DOMAIN m \cup {o}
<1>1. CASE o = end
  BY <1>1 DEF FillHole
<1>2. CASE o # end
  <2> DEFINE e == Sparse(o, end)
             h == Store(m, o, e)
  <2>1. o \in Nat /\ end \in Nat /\ o < end /\ end - o \in Word
    <3>1. o \in Nat /\ end \in Nat /\ end < W /\ W \in Nat
      BY WordAssumption DEF Word
    <3> QED
      BY <1>2, <3>1 DEF Word
  <2>2. e.offset = o /\ e.length = end - o
    BY <2>1, WordFacts DEF Sparse
  <2> HIDE DEF e
  <2>3. Entries(h) /\ Tiles(h, o + e.length) /\ o \notin DOMAIN m
    BY <2>1, <2>2, StoreTiles
  <2>4. FillHole(m, o, end) = h
    BY <1>2 DEF FillHole, e
  <2>5. DOMAIN h = DOMAIN m \cup {o} /\ h[o] = e
    BY DEF Store
  <2>6. \A q \in DOMAIN m : h[q] = m[q]
    BY <2>3 DEF Store
  <2>7. o + e.length = end
    BY <2>1, <2>2
  <2> HIDE DEF h
  <2> QED
    BY <2>3, <2>4, <2>5, <2>6, <2>7 DEF e
<1> QED
  BY <1>1, <1>2

\* Types of what a step puts in the map.
LEMMA FillHoleType ==
  ASSUME NEW m, DOMAIN m \subseteq Word, \A q \in DOMAIN m : m[q] \in Point,
         NEW o \in Word, NEW end \in Word, gapId \in Nat
  PROVE  /\ DOMAIN FillHole(m, o, end) \subseteq Word
         /\ \A q \in DOMAIN FillHole(m, o, end) : FillHole(m, o, end)[q] \in Point
<1>1. Sparse(o, end) \in Point
  <2>1. (end - o) % W \in Word
    BY WordFacts
  <2> QED
    BY <2>1 DEF Sparse, Point
<1> QED
  BY <1>1 DEF FillHole, Store

LEMMA StoreType ==
  ASSUME NEW m, DOMAIN m \subseteq Word, \A q \in DOMAIN m : m[q] \in Point,
         NEW o \in Word, NEW e \in Point
  PROVE  /\ DOMAIN Store(m, o, e) \subseteq Word
         /\ \A q \in DOMAIN Store(m, o, e) : Store(m, o, e)[q] \in Point
  BY DEF Store

LEMMA TailIs ==
  ASSUME TypeOK, todo # <<>>
  PROVE  /\ Tail(todo) \in Seq(Point) /\ Head(todo) = todo[1] /\ 1 \in DOMAIN todo
         /\ \A i \in DOMAIN Tail(todo) : i \in Nat /\ i + 1 \in DOMAIN todo /\ Tail(todo)[i] = todo[i + 1]
         /\ \A i \in DOMAIN todo : i \in Nat /\ i >= 1
                                   /\ (i # 1 => i - 1 \in DOMAIN Tail(todo) /\ Tail(todo)[i - 1] = todo[i])
         /\ \A i \in DOMAIN todo : todo[i] \in Point
<1>1. todo \in Seq(Point)
  BY DEF TypeOK
<1>2. /\ Tail(todo) \in Seq(Point) /\ Len(Tail(todo)) = Len(todo) - 1
      /\ \A i \in 1 .. Len(Tail(todo)) : Tail(todo)[i] = todo[i + 1]
      /\ Head(todo) = todo[1]
  BY <1>1, HeadTailProperties
<1>3. Len(todo) \in Nat /\ DOMAIN todo = 1 .. Len(todo) /\ Len(todo) # 0 /\ DOMAIN Tail(todo) = 1 .. Len(Tail(todo))
  BY <1>1, <1>2, LenProperties, EmptySeq
<1> QED
  BY <1>1, <1>2, <1>3, ElementOfSeq

LEMMA AddPointInv ==
  ASSUME IInv, AddPoint
  PROVE  IInv'
<1> DEFINE p == Head(todo)
           listed == p.streamID < Len(streams)
           entry == IF listed THEN p ELSE [p EXCEPT !.streamID = Len(streams)]
           m == FillHole(map, offset, p.offset)
<1>1. /\ phase = "map" /\ todo # <<>>
      /\ map' = Store(m, p.offset, entry)
      /\ offset' = (p.offset + p.length) % W
      /\ streams' = IF listed THEN streams ELSE Append(streams, Unknown)
      /\ todo' = Tail(todo)
      /\ UNCHANGED <<input, phase, gapId, length, closed>>
  BY DEF AddPoint
<1>2. TypeOK /\ offset \in Word /\ streams \in Seq(Stream) /\ Len(streams) \in Nat /\ gapId \in Nat
      /\ DOMAIN map \subseteq Word /\ \A q \in DOMAIN map : map[q] \in Point
  BY LenProperties DEF IInv, TypeOK
<1>3. p \in Point /\ p = todo[1] /\ 1 \in DOMAIN todo
  BY <1>1, <1>2, TailIs
<1>4. p.offset \in Word /\ p.length \in Word /\ p.streamOffset \in Word /\ p.streamID \in Nat
  BY <1>3 DEF Point
<1>5. /\ entry \in Point /\ entry.offset = p.offset /\ entry.length = p.length
      /\ entry.streamOffset = p.streamOffset
      /\ entry.streamID = IF listed THEN p.streamID ELSE Len(streams)
  BY <1>2, <1>3 DEF Point
<1> HIDE DEF p, entry
<1>6. /\ Len(input.lines) < Len(streams) /\ gapId = Len(input.lines)
      /\ \A n \in 0 .. Len(streams) - 1 : streams[n + 1] = Slot(n)
      /\ \A q \in DOMAIN map : map[q].streamID < Len(streams)
      /\ length = input.size /\ ~closed /\ input.points # <<>>
  BY <1>1 DEF IInv, StreamsInv
<1>7. Len(input.lines) \in Nat /\ DOMAIN input.points = 1 .. Len(input.points) /\ Len(input.points) \in Nat
  BY <1>2, InputTypes
<1>8. TypeOK'
  <2>1. DOMAIN m \subseteq Word /\ \A q \in DOMAIN m : m[q] \in Point
    BY <1>2, <1>4, FillHoleType
  <2> HIDE DEF m
  <2>2. DOMAIN map' \subseteq Word /\ \A q \in DOMAIN map' : map'[q] \in Point
    <3> DEFINE s == Store(m, p.offset, entry)
    <3>1. DOMAIN s \subseteq Word /\ \A q \in DOMAIN s : s[q] \in Point
      BY <1>4, <1>5, <2>1, StoreType
    <3> HIDE DEF s
    <3> QED
      BY <1>1, <3>1 DEF s
  <2>3. offset' \in Word
    <3>1. p.offset + p.length \in Int
      BY <1>4, WordAssumption DEF Word
    <3> QED
      BY <1>1, <3>1, WordFacts
  <2>4. streams' \in Seq(Stream)
    <3>1. Unknown \in Stream
      BY DEF Unknown, Stream
    <3> QED
      BY <1>1, <1>2, <3>1
  <2>5. todo' \in Seq(Point)
    BY <1>1, <1>2, TailIs
  <2> QED
    BY <1>1, <2>2, <2>3, <2>4, <2>5 DEF IInv, TypeOK
<1>9. /\ DOMAIN m \subseteq DOMAIN map \cup {offset}
      /\ \A q \in DOMAIN m : m[q].streamID < Len(streams)
  <2>1. Sparse(offset, p.offset).streamID = gapId
    BY DEF Sparse
  <2> QED
    BY <1>6, <2>1 DEF FillHole, Store
<1>10. StreamsInv'
  <2>1. Len(streams) <= Len(streams') /\ Len(streams') \in Nat
        /\ \A n \in 0 .. Len(streams') - 1 : streams'[n + 1] = Slot(n)
    <3>1. CASE listed
      BY <1>1, <1>2, <1>6, <3>1
    <3>2. CASE ~listed
      <4>1. /\ streams' = Append(streams, Unknown) /\ Len(streams') = Len(streams) + 1
            /\ \A n \in 1 .. Len(streams) : streams'[n] = streams[n]
            /\ streams'[Len(streams) + 1] = Unknown
        BY <1>1, <1>2, <3>2
      <4>2. Slot(Len(streams)) = Unknown
        BY <1>2, <1>6, <1>7 DEF Slot
      <4> QED
        BY <1>2, <1>6, <4>1, <4>2
    <3> QED
      BY <3>1, <3>2
  <2>2. entry.streamID < Len(streams')
    <3>1. CASE listed
      BY <1>1, <1>5, <3>1
    <3>2. CASE ~listed
      <4>1. Len(streams') = Len(streams) + 1
        BY <1>1, <1>2, <3>2
      <4> QED
        BY <1>2, <1>5, <3>2, <4>1
    <3> QED
      BY <3>1, <3>2
  <2>3. \A q \in DOMAIN m : m[q] \in Point
    BY <1>2, <1>4, FillHoleType
  <2> HIDE DEF m
  <2>4. \A q \in DOMAIN map' : map'[q].streamID < Len(streams')
    <3>1. \A q \in DOMAIN m : m[q].streamID \in Nat
      BY <2>3 DEF Point
    <3>2. \A q \in DOMAIN map' : (q = p.offset /\ map'[q] = entry) \/ (q \in DOMAIN m /\ map'[q] = m[q])
      BY <1>1 DEF Store
    <3> QED
      BY <1>2, <1>9, <2>1, <2>2, <3>1, <3>2
  <2>5. Slot(0)' = Slot(0) /\ \A n \in 0 .. Len(streams') - 1 : Slot(n)' = Slot(n)
    BY <1>1 DEF Slot
  <2> QED
    BY <1>1, <1>2, <1>6, <1>7, <2>1, <2>4, <2>5 DEF StreamsInv
<1>11. LayoutInv'
  <2> SUFFICES ASSUME WellFormed(input), input.points # <<>>
               PROVE  LayoutInv'
    BY <1>1 DEF LayoutInv
  <2>1. /\ Tiles(map, offset) /\ TodoInv
        /\ \A q \in DOMAIN map :
             IsHole(map[q]) \/ \E i \in DOMAIN input.points : LaidAs(map[q], input.points[i])
        /\ \A i \in DOMAIN input.points : Laid(input.points[i]) \/ Waits(input.points[i])
    BY <1>1 DEF IInv, LayoutInv
  <2>2. PICK k \in DOMAIN input.points : p = input.points[k]
    BY <1>3, <2>1 DEF TodoInv
  <2>3. p.length > 0 /\ p.offset + p.length < W /\ offset <= p.offset
    BY <1>3, <2>1, <2>2 DEF WellFormed, TodoInv
  <2>4. /\ Entries(m) /\ Tiles(m, p.offset)
        /\ \A q \in DOMAIN map : q \in DOMAIN m /\ m[q] = map[q]
        /\ \A q \in DOMAIN m : q \in DOMAIN map \/ (q = offset /\ m[q] = Sparse(offset, p.offset))
    BY <1>2, <1>4, <2>1, <2>3, FillHoleTiles, TypeEntries
  <2>5. IsHole(Sparse(offset, p.offset))
    BY <1>6 DEF IsHole, Sparse
  <2> HIDE DEF m
  <2>6. offset' = p.offset + p.length /\ p.offset \in Nat /\ p.length \in Nat
    <3>1. p.offset + p.length \in Word
      BY <1>4, <2>3, WordAssumption DEF Word
    <3> QED
      BY <1>1, <1>4, <3>1, WordFacts
  <2>7. Tiles(map', offset') /\ p.offset \notin DOMAIN m
    BY <1>1, <1>5, <2>3, <2>4, <2>6, StoreTiles
  <2>8. /\ p.offset \in DOMAIN map' /\ map'[p.offset] = entry
        /\ \A q \in DOMAIN map : q \in DOMAIN map' /\ map'[q] = map[q]
        /\ \A q \in DOMAIN map' : \/ q = p.offset
                                  \/ q \in DOMAIN map /\ map'[q] = map[q]
                                  \/ map'[q] = Sparse(offset, p.offset)
    BY <1>1, <2>4, <2>7 DEF Store
  <2>9. LaidAs(entry, p)
    BY <1>2, <1>4, <1>5, <1>6, <1>7 DEF LaidAs
  <2>10. ASSUME NEW i \in DOMAIN input.points
         PROVE  Laid(input.points[i])' \/ Waits(input.points[i])'
    <3>1. CASE Laid(input.points[i])
      BY <1>1, <2>8, <3>1 DEF Laid, LaidAs
    <3>2. CASE Waits(input.points[i])
      <4>1. PICK j \in DOMAIN todo : todo[j] = input.points[i]
        BY <3>2 DEF Waits
      <4>2. CASE j = 1
        BY <1>1, <1>3, <2>8, <2>9, <4>1, <4>2 DEF Laid, LaidAs
      <4>3. CASE j # 1
        <5>1. j - 1 \in DOMAIN Tail(todo) /\ Tail(todo)[j - 1] = todo[j]
          BY <1>1, <1>2, <4>3, TailIs
        <5>2. j - 1 \in DOMAIN todo' /\ todo'[j - 1] = input'.points[i] /\ phase' = "map"
          BY <1>1, <4>1, <5>1
        <5> QED
          BY <5>2 DEF Waits
      <4> QED
        BY <4>2, <4>3
    <3> QED
      BY <2>1, <3>1, <3>2
  <2>11. ASSUME NEW q \in DOMAIN map'
         PROVE  (IsHole(map[q]) \/ \E i \in DOMAIN input.points : LaidAs(map[q], input.points[i]))'
    <3>1. CASE q = p.offset
      BY <1>1, <2>2, <2>8, <2>9, <3>1 DEF LaidAs
    <3>2. CASE q \in DOMAIN map /\ map'[q] = map[q]
      BY <1>1, <2>1, <3>2 DEF LaidAs, IsHole
    <3>3. CASE map'[q] = Sparse(offset, p.offset)
      BY <1>1, <2>5, <3>3 DEF IsHole
    <3> QED
      BY <2>8, <3>1, <3>2, <3>3
  <2>12. TodoInv'
    <3>1. \A i \in DOMAIN todo' : i \in Nat /\ i + 1 \in DOMAIN todo /\ todo'[i] = todo[i + 1] /\ todo[i + 1] \in Point
      BY <1>1, <1>2, TailIs
    <3>2. \A i \in DOMAIN todo' : offset' <= todo'[i].offset
      <4> SUFFICES ASSUME NEW i \in DOMAIN todo'
                   PROVE  offset' <= todo'[i].offset
        OBVIOUS
      <4>1. i + 1 \in DOMAIN todo /\ 1 < i + 1
        <5>1. \A j \in DOMAIN todo : j >= 1 /\ j \in Nat
          BY <1>1, <1>2, TailIs
        <5>2. i \in DOMAIN Tail(todo)
          BY <1>1
        <5>3. i >= 1
          <6>1. Tail(todo) \in Seq(Point)
            BY <1>1, <1>2, TailIs
          <6> QED
            BY <5>2, <6>1, LenProperties
        <5> QED
          BY <3>1, <5>3
      <4>2. todo[1].offset + todo[1].length <= todo[i + 1].offset
        BY <1>3, <2>1, <4>1 DEF TodoInv
      <4> QED
        BY <1>3, <2>6, <3>1, <4>2
    <3>3. \A i, j \in DOMAIN todo' : i < j => todo'[i].offset + todo'[i].length <= todo'[j].offset
      <4> SUFFICES ASSUME NEW i \in DOMAIN todo', NEW j \in DOMAIN todo', i < j
                   PROVE  todo'[i].offset + todo'[i].length <= todo'[j].offset
        OBVIOUS
      <4>1. i + 1 < j + 1
        BY <3>1
      <4> QED
        BY <2>1, <3>1, <4>1 DEF TodoInv
    <3>4. \A i \in DOMAIN todo' : \E j \in DOMAIN input.points : todo'[i] = input.points[j]
      BY <2>1, <3>1 DEF TodoInv
    <3> QED
      BY <1>1, <3>2, <3>3, <3>4 DEF TodoInv
  <2>13. \E i \in DOMAIN input.points : input.points[i].offset + input.points[i].length = offset'
    BY <2>2, <2>6
  <2> QED
    BY <1>1, <2>7, <2>10, <2>11, <2>12, <2>13 DEF LayoutInv
<1> QED
  BY <1>8, <1>10, <1>11 DEF IInv

LEMMA FinishMapInv ==
  ASSUME IInv, FinishMap
  PROVE  IInv'
<1> DEFINE m == IF offset < length THEN FillHole(map, offset, length) ELSE map
<1>1. /\ phase = "map" /\ todo = <<>> /\ phase' = "ready"
      /\ map' = m
      /\ length' = IF length = 0 THEN offset ELSE length
      /\ closed' = (length' = 0)
      /\ streams' = IF length' = 0 THEN <<>> ELSE streams
      /\ UNCHANGED <<input, gapId, todo, offset>>
  BY DEF FinishMap
<1>2. /\ TypeOK /\ offset \in Word /\ length \in Word /\ streams \in Seq(Stream) /\ gapId \in Nat
      /\ DOMAIN map \subseteq Word /\ \A q \in DOMAIN map : map[q] \in Point
  BY DEF IInv, TypeOK
<1>3. /\ Len(input.lines) < Len(streams) /\ gapId = Len(input.lines)
      /\ \A n \in 0 .. Len(streams) - 1 : streams[n + 1] = Slot(n)
      /\ \A q \in DOMAIN map : map[q].streamID < Len(streams)
      /\ length = input.size /\ ~closed
  BY <1>1 DEF IInv, StreamsInv
<1>4. TypeOK'
  <2>1. DOMAIN m \subseteq Word /\ \A q \in DOMAIN m : m[q] \in Point
    BY <1>2, FillHoleType
  <2>2. <<>> \in Seq(Stream)
    OBVIOUS
  <2>3. length' \in Word /\ closed' \in BOOLEAN /\ streams' \in Seq(Stream)
    BY <1>1, <1>2, <2>2
  <2> HIDE DEF m
  <2> QED
    BY <1>1, <2>1, <2>3 DEF IInv, TypeOK
<1>5. \A q \in DOMAIN m : m[q].streamID < Len(streams)
  <2>1. Sparse(offset, length).streamID = gapId
    BY DEF Sparse
  <2> QED
    BY <1>3, <2>1 DEF FillHole, Store
<1>6. input.points # <<>>
  BY <1>1 DEF IInv, StreamsInv
<1>7. StreamsInv'
  <2> HIDE DEF m
  <2>1. \A n \in 0 .. Len(streams) - 1 : Slot(n)' = Slot(n)
    BY <1>1 DEF Slot
  <2>2. CASE length' = 0
    BY <1>1, <2>2 DEF StreamsInv
  <2>3. CASE length' # 0
    BY <1>1, <1>3, <1>5, <1>6, <2>1, <2>3 DEF StreamsInv
  <2> QED
    BY <2>2, <2>3
<1>8. LayoutInv'
  <2> SUFFICES ASSUME WellFormed(input), input.points # <<>>
               PROVE  LayoutInv'
    BY <1>1 DEF LayoutInv
  <2>1. /\ Tiles(map, offset)
        /\ \A q \in DOMAIN map :
             IsHole(map[q]) \/ \E i \in DOMAIN input.points : LaidAs(map[q], input.points[i])
        /\ \A i \in DOMAIN input.points : Laid(input.points[i]) \/ Waits(input.points[i])
        /\ offset = 0 \/ \E i \in DOMAIN input.points :
                            input.points[i].offset + input.points[i].length = offset
    BY <1>1 DEF IInv, LayoutInv
  <2>2. \A i \in DOMAIN input.points : Laid(input.points[i])
    BY <1>1, <2>1 DEF Waits
  <2>3. Entries(map) /\ offset \in Nat /\ length \in Nat
    BY <1>2, TypeEntries, WordFacts
  <2>4. offset > 0
    <3>1. 1 \in DOMAIN input.points
      BY <1>2, InputTypes, EmptySeq
    <3>2. PICK q \in DOMAIN map : TRUE
      BY <2>2, <3>1 DEF Laid
    <3>3. q \in Nat /\ map[q].length \in Nat /\ map[q].length > 0 /\ q + map[q].length <= offset
      BY <2>1, <2>3 DEF Entries, Tiles
    <3> QED
      BY <2>3, <3>3
  <2>5. /\ length' > 0 /\ length' = IF input.size > 0 THEN input.size ELSE offset
        /\ Larger(offset, length') = IF offset < length THEN length ELSE offset
    BY <1>1, <1>3, <2>3, <2>4 DEF Larger
  <2>6. /\ Tiles(m, Larger(offset, length'))
        /\ \A q \in DOMAIN map : q \in DOMAIN m /\ m[q] = map[q]
        /\ \A q \in DOMAIN m : (q \in DOMAIN map /\ m[q] = map[q]) \/ m[q] = Sparse(offset, length)
    <3>1. CASE offset < length
      <4> DEFINE h == FillHole(map, offset, length)
      <4>1. /\ Tiles(h, length)
            /\ \A q \in DOMAIN map : q \in DOMAIN h /\ h[q] = map[q]
            /\ \A q \in DOMAIN h : q \in DOMAIN map \/ (q = offset /\ h[q] = Sparse(offset, length))
        BY <1>2, <2>1, <2>3, <3>1, FillHoleTiles
      <4> HIDE DEF h
      <4>2. m = h
        BY <3>1 DEF h
      <4> HIDE DEF m
      <4> QED
        BY <2>5, <3>1, <4>1, <4>2
    <3>2. CASE ~(offset < length)
      BY <2>1, <2>5, <3>2
    <3> QED
      BY <3>1, <3>2
  <2>7. IsHole(Sparse(offset, length))
    BY <1>3 DEF IsHole, Sparse
  <2> HIDE DEF m
  <2>8. \A i \in DOMAIN input.points : Laid(input.points[i])'
    BY <1>1, <2>2, <2>6 DEF Laid, LaidAs
  <2>9. ASSUME NEW q \in DOMAIN map'
        PROVE  (IsHole(map[q]) \/ \E i \in DOMAIN input.points : LaidAs(map[q], input.points[i]))'
    BY <1>1, <2>1, <2>6, <2>7, <2>9 DEF IsHole, LaidAs
  <2>10. Tiles(map', Larger(offset', length'))
    BY <1>1, <2>6
  <2> QED
    BY <1>1, <2>1, <2>5, <2>8, <2>9, <2>10 DEF LayoutInv
<1> QED
  BY <1>4, <1>7, <1>8 DEF IInv

LEMMA BuildInv == IInv /\ [BuildNext]_mapVars => IInv'
<1> SUFFICES ASSUME IInv, [BuildNext]_mapVars
             PROVE  IInv'
  OBVIOUS
<1>1. CASE UNCHANGED mapVars
  BY <1>1 DEF mapVars, IInv, TypeOK, LayoutInv, StreamsInv, TodoInv, Laid, LaidAs, IsHole, Waits, Slot
<1> QED
  BY <1>1, InitStreamVectorInv, NoMapSegmentInv, LoadPointsInv, AddPointInv, FinishMapInv DEF BuildNext

-----------------------------------------------------------------------------
(* What the invariant means.                                               *)

LEMMA InvTiled == IInv => MapIsTiled
  BY DEF IInv, LayoutInv, MapIsTiled

\* No two entries cover the same byte.
LEMMA CoverOnce ==
  ASSUME Entries(map), NEW total, Tiles(map, total), NEW q \in DOMAIN map, NEW r \in DOMAIN map, NEW o \in Nat,
         Covers(map[q], o), Covers(map[r], o)
  PROVE  q = r
<1>1. /\ q \in Nat /\ r \in Nat /\ map[q].length \in Nat /\ map[r].length \in Nat
      /\ map[q].offset = q /\ map[r].offset = r
      /\ q < r => q + map[q].length <= r
      /\ r < q => r + map[r].length <= q
  BY DEF Entries, Tiles
<1> QED
  BY <1>1 DEF Covers

LEMMA EndIs ==
  ASSUME NEW in, NEW end \in Word,
         \A i \in DOMAIN in.points : in.points[i].offset + in.points[i].length <= end,
         \E i \in DOMAIN in.points : in.points[i].offset + in.points[i].length = end
  PROVE  End(in) = end
<1> DEFINE P(e) == /\ \A i \in DOMAIN in.points : in.points[i].offset + in.points[i].length <= e
                   /\ \E i \in DOMAIN in.points : in.points[i].offset + in.points[i].length = e
           x == CHOOSE e \in Word : P(e)
<1>1. x \in Word /\ P(x)
  OBVIOUS
<1>2. End(in) = x
  BY DEF End
<1>3. \A e \in Word : P(e) => e <= end /\ end <= e
  OBVIOUS
<1>4. \A e \in Word : e \in Nat
  BY WordFacts
<1> HIDE DEF x, P
<1>5. x <= end /\ end <= x
  BY <1>1, <1>3
<1> QED
  BY <1>1, <1>2, <1>4, <1>5

LEMMA InvLength ==
  ASSUME IInv, phase = "ready", WellFormed(input), input.points # <<>>
  PROVE  length = IF input.size > 0 THEN input.size ELSE End(input)
<1>1. /\ Tiles(map, Larger(offset, length))
      /\ length > 0 /\ length = IF input.size > 0 THEN input.size ELSE offset
      /\ \A i \in DOMAIN input.points : Laid(input.points[i])
      /\ offset = 0 \/ \E i \in DOMAIN input.points :
                          input.points[i].offset + input.points[i].length = offset
  BY DEF IInv, LayoutInv, Waits
<1>2. offset \in Word /\ offset \in Nat /\ length \in Nat
  BY WordFacts DEF IInv, TypeOK
<1>3. CASE ~(input.size > 0)
  <2>1. length = offset /\ Larger(offset, length) = offset
    BY <1>1, <1>3 DEF Larger
  <2>2. \A i \in DOMAIN input.points : input.points[i].offset + input.points[i].length <= offset
    BY <1>1, <2>1 DEF Laid, LaidAs, Tiles
  <2>3. \E i \in DOMAIN input.points : input.points[i].offset + input.points[i].length = offset
    BY <1>1, <1>2, <2>1
  <2>4. End(input) = offset
    BY <1>2, <2>2, <2>3, EndIs
  <2> QED
    BY <1>3, <2>1, <2>4
<1> QED
  BY <1>1, <1>3

LEMMA InvLookup ==
  ASSUME IInv, phase = "ready", WellFormed(input), input.points # <<>>, ~closed, ~GapAliased(input),
         NEW o \in 0 .. length - 1
  PROVE  LET e == EntryAt(o)
         IN  [stream |-> StreamAt(e), at |-> e.streamOffset + (o - e.offset)] = Meaning(input, o)
<1> DEFINE total == Larger(offset, length)
<1>1. /\ Tiles(map, total)
      /\ \A q \in DOMAIN map :
           IsHole(map[q]) \/ \E i \in DOMAIN input.points : LaidAs(map[q], input.points[i])
      /\ \A i \in DOMAIN input.points : Laid(input.points[i])
  BY DEF IInv, LayoutInv, Waits
<1>2. /\ Len(input.lines) < Len(streams)
      /\ \A n \in 0 .. Len(streams) - 1 : streams[n + 1] = Slot(n)
      /\ \A q \in DOMAIN map : map[q].streamID < Len(streams)
  BY DEF IInv, StreamsInv
<1>3. /\ Entries(map) /\ offset \in Nat /\ length \in Nat /\ Len(streams) \in Nat /\ Len(input.lines) \in Nat
      /\ \A q \in DOMAIN map : map[q] \in Point
      /\ \A i \in DOMAIN input.points : input.points[i] \in Point
  BY TypeEntries, WordFacts, InputTypes, LenProperties DEF IInv, TypeOK
<1>4. total \in Nat /\ o \in 0 .. total - 1 /\ o \in Nat
  BY <1>3 DEF Larger
<1> HIDE DEF total
<1>5. PICK q \in DOMAIN map : Covers(map[q], o)
  BY <1>1, <1>4 DEF Tiles
<1> DEFINE e == map[q]
<1>6. EntryAt(o) = e
  BY <1>1, <1>3, <1>4, <1>5, LookupFinds DEF EntryAt
<1>7. e \in Point /\ e.offset = q /\ e.streamID \in Nat /\ e.streamOffset \in Nat /\ e.offset \in Nat
  BY <1>1, <1>3, WordFacts DEF Tiles, Point
<1>8. StreamAt(e) = Slot(e.streamID)
  BY <1>2, <1>3, <1>7 DEF StreamAt
<1>9. \A i \in DOMAIN input.points :
        Covers(input.points[i], o) => input.points[i].offset = q /\ LaidAs(e, input.points[i])
  <2> SUFFICES ASSUME NEW i \in DOMAIN input.points, Covers(input.points[i], o)
               PROVE  input.points[i].offset = q /\ LaidAs(e, input.points[i])
    OBVIOUS
  <2> DEFINE r == input.points[i].offset
  <2>1. r \in DOMAIN map /\ LaidAs(map[r], input.points[i])
    BY <1>1 DEF Laid
  <2>2. Covers(map[r], o)
    BY <2>1 DEF LaidAs, Covers
  <2> HIDE DEF r
  <2>3. r = q
    BY <1>1, <1>3, <1>4, <1>5, <2>1, <2>2, CoverOnce
  <2> QED
    BY <2>1, <2>3 DEF r
<1>10. CASE \E i \in DOMAIN input.points : Covers(input.points[i], o)
  <2> DEFINE i == CHOOSE i1 \in DOMAIN input.points : Covers(input.points[i1], o)
             p == input.points[i]
  <2>1. i \in DOMAIN input.points /\ Covers(p, o)
    BY <1>10
  <2>2. Meaning(input, o) =
          [stream |-> IF p.streamID < Len(input.lines) THEN Opened(input, p.streamID + 1) ELSE Unknown,
           at |-> p.streamOffset + (o - p.offset)]
    BY <1>10 DEF Meaning
  <2> HIDE DEF i
  <2>3. LaidAs(e, p) /\ p \in Point /\ p.streamID \in Nat
    BY <1>3, <1>9, <2>1 DEF Point
  <2>4. p.streamID # Len(input.lines)
    BY <2>1 DEF GapAliased
  <2> HIDE DEF p, e
  <2>5. e.streamOffset + (o - e.offset) = p.streamOffset + (o - p.offset)
    BY <2>3 DEF LaidAs
  <2>6. Slot(e.streamID) = IF p.streamID < Len(input.lines) THEN Opened(input, p.streamID + 1) ELSE Unknown
    <3>1. CASE e.streamID = p.streamID
      BY <1>3, <2>3, <2>4, <3>1 DEF Slot
    <3>2. CASE Len(input.lines) < e.streamID /\ Len(input.lines) < p.streamID
      BY <1>3, <1>7, <2>3, <3>2 DEF Slot
    <3> QED
      BY <2>3, <3>1, <3>2 DEF LaidAs
  <2> QED
    BY <1>6, <1>8, <2>2, <2>5, <2>6
<1>11. CASE ~ \E i \in DOMAIN input.points : Covers(input.points[i], o)
  <2>1. Meaning(input, o) = [stream |-> Gap, at |-> o]
    BY <1>11 DEF Meaning
  <2>2. IsHole(e)
    <3>1. ASSUME NEW i \in DOMAIN input.points, LaidAs(e, input.points[i])
          PROVE  FALSE
      BY <1>5, <1>11, <3>1 DEF LaidAs, Covers
    <3> QED
      BY <1>1, <3>1
  <2>3. Slot(e.streamID) = Gap
    BY <1>3, <2>2 DEF IsHole, Slot
  <2>4. e.streamOffset + (o - e.offset) = o
    BY <1>4, <1>7, <2>2 DEF IsHole
  <2> HIDE DEF e
  <2> QED
    BY <1>6, <1>8, <2>1, <2>3, <2>4
<1> QED
  BY <1>10, <1>11

LEMMA InvUnaliased == IInv => UnaliasedLookup
<1> SUFFICES ASSUME IInv, ~GapAliased(input), phase = "ready", WellFormed(input), input.points # <<>>
             PROVE  /\ length = IF input.size > 0 THEN input.size ELSE End(input)
                    /\ ~closed => \A o \in 0 .. length - 1 :
                         LET e == EntryAt(o)
                         IN  [stream |-> StreamAt(e), at |-> e.streamOffset + (o - e.offset)] = Meaning(input, o)
  BY DEF UnaliasedLookup, LookupMeansPoints
<1> QED
  BY InvLength, InvLookup

(* Construction tiles the address space (MapStream.cc:251-284), for every  *)
(* map segment and every order std::sort may leave equal offsets in.       *)
THEOREM Tiled == BuildSpec => []MapIsTiled
<1>1. BuildSpec => []IInv
  BY InitInv, BuildInv, PTL DEF BuildSpec
<1> QED
  BY <1>1, InvTiled, PTL
=============================================================================
