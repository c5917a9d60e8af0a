---------------------------- MODULE MCMapStream ----------------------------
(***************************************************************************)
(* Built: every map segment of up to two points, and of three points that  *)
(* name the first stream, over a small address space.  Read, any range:    *)
(* maps of one to three entries, adjacent, apart, out of order, with IDs   *)
(* beyond the idx, short of the map's size, across units of the pattern.   *)
(***************************************************************************)
EXTENDS MapStream, SparseCheck

CONSTANTS MaxPointOffset, MaxPointLength, MaxID

Points(ids) == [offset : 0 .. MaxPointOffset, length : 0 .. MaxPointLength,
                streamOffset : {1}, streamID : ids]

Segments == UNION {[1 .. n -> Points(0 .. MaxID)] : n \in 1 .. 2}
            \cup [1 .. 3 -> {p \in Points({0}) : p.length \in {1, 2}}]

BuiltInputs ==
    [lines : {<<>>, <<"local">>, <<"external", "unknown">>}, points : Segments,
     size : {0, 4}, resolver : {TRUE}, override : {TRUE}, spareGap : {TRUE}]
    \cup
    [lines : {<<"absent", "unknown", "external">>}, points : {<<>>} \cup [{1} -> Points(0 .. MaxID)],
     size : {0, 7}, resolver : BOOLEAN, override : BOOLEAN, spareGap : BOOLEAN]

P(o, n, s, id) == [offset |-> o, length |-> n, streamOffset |-> s, streamID |-> id]

MapOf(points, size) ==
    [lines |-> <<"local", "unknown">>, points |-> points, size |-> size,
     resolver |-> FALSE, override |-> FALSE, spareGap |-> FALSE]

SoundInputs == {
    MapOf(<<>>, 0),
    MapOf(<<P(0, 2, 1, 0), P(2, 2, 0, 1)>>, 4),
    MapOf(<<P(3, 1, 0, 0), P(0, 2, 1, 0)>>, 0),
    MapOf(<<P(1, 2, 0, 5)>>, 5),
    MapOf(<<P(0, 1, 0, 0), P(1, 8, 2, 1)>>, 0),
    MapOf(<<P(1, 1, 2, 0), P(0, 1, 1, 0), P(2, 2, 0, 0)>>, 3)}

\* Entries past the end of their stream, empty, or overlapping.
LooseInputs == {
    MapOf(<<P(0, 3, 2, 0)>>, 4),
    MapOf(<<P(0, 0, 0, 0), P(1, 2, 0, 1)>>, 4),
    MapOf(<<P(0, 3, 0, 0), P(1, 1, 0, 1)>>, 4)}

MCReadInputs == SoundInputs \cup LooseInputs
MCInputs == BuiltInputs \cup MCReadInputs

MCCalls == [offset : {0, 1, 3, 5}, count : {0, 1, 3, W - 1}]
=============================================================================
