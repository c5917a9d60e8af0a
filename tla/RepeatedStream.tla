--------------------------- MODULE RepeatedStream ---------------------------
(***************************************************************************)
(* The stream that stands in for one nobody has: a pattern repeated in     *)
(* units (stream/RepeatedImageStream.cc), "UNKNOWN" in units of 1 MB for   *)
(* the Unknown stream.  Letters are the indexes of the pattern.            *)
(***************************************************************************)
EXTENDS Naturals, Sequences

CONSTANTS
    Unit,       \* UNITS_M
    Letters,    \* the length of the pattern
    MaxRequest  \* bounds the bytes of a request

ASSUME RepeatedAssumption == {Unit, Letters} \subseteq Nat \ {0} /\ MaxRequest \in Nat

Smaller(a, b) == IF a < b THEN a ELSE b

\* symbol.copy: the first n letters
Copied(n) == [i \in 1 .. n |-> i]

(* The constructor writes the pattern to the rest of the unit, from i on,  *)
(* and cuts the last copy.                                                 *)
Filled[i \in 0 .. Unit + Letters] ==
    IF i >= Unit THEN <<>> ELSE Copied(Smaller(Unit - i, Letters)) \o Filled[i + Letters]

Buffer == Filled[0]

BufferFrom(boffset, limit) == SubSeq(Buffer, boffset + 1, boffset + limit)

\* The turns of read()'s loop after the first, which start at the unit's beginning.
Turns[remainder \in 0 .. MaxRequest] ==
    IF remainder = 0 THEN <<>>
    ELSE LET limit == Smaller(remainder, Unit)
         IN  BufferFrom(0, limit) \o Turns[remainder - limit]

FirstTurnAtStart(at, n) == BufferFrom(0, n)

FirstTurn(at, n) == BufferFrom(at % Unit, n)

FirstLimit(at, n) == Smaller(n, Unit - (at % Unit))

\* The letters read(buf, n, at) puts in the buffer.
Repeated(at, n) == LET limit == FirstLimit(at, n) IN FirstTurn(at, limit) \o Turns[n - limit]

\* What the pattern, begun anew at each unit, has at an offset.
LetterAt(at) == 1 + ((at % Unit) % Letters)
=============================================================================
