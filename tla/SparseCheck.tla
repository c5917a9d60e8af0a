---------------------------- MODULE SparseCheck ----------------------------
(***************************************************************************)
(* What the X-Ways plugin answers when it is asked whether a range of an   *)
(* image holds no data (win32/xwaysPlugin: IIO_Work, isSparse in Util.cc): *)
(* it walks the entries of the map stream as read() does.                  *)
(***************************************************************************)
EXTENDS MapIndex

\* isSpareResource(): a stand-in for a missing stream has that stream's name,
\* and the metadata may name a gap stream that has data.
IsSparseStream(s) == s = Unknown \/ (s = Gap /\ input.spareGap)

Capped(o, n) == IF o + n > length THEN n - (o + n - length) ELSE n

RestOfEntry(e, o) == e.length

SparseLength(e, o) == (e.length - (o - e.offset)) % W

(* isSparse(): "stuck" stands for the loop that an empty entry keeps       *)
(* turning.                                                                *)
Walked(o, n) ==
    LET end == o + n
        From[q \in Word] ==
            IF q >= end THEN "sparse"
            ELSE LET e == EntryAt(q)
                     step == SparseLength(e, q)
                 IN  IF ~IsSparseStream(StreamAt(e)) THEN "data"
                     ELSE IF step = 0 THEN "stuck"
                     ELSE IF step >= end - q THEN "sparse" ELSE From[q + step]
    IN  From[o]

SparseDetected(o, n) == Capped(o, n) > 0 /\ Walked(o, Capped(o, n)) = "sparse"

(* IIO_SPARSE_DETECTED tells the caller not to look at the range: it is    *)
(* given exactly when no byte of the range below the end of the image      *)
(* comes from a stream with data ("requested range of data is entirely     *)
(* sparse", xwaysPlugin.h:48), for every map whose points are well formed. *)
SparseHasNoData ==
    phase = "ready" /\ ~closed /\ WellFormed(input) /\ ~GapAliased(input) =>
        \A o, n \in 0 .. length :
            SparseDetected(o, n) <=>
                /\ o < length /\ n > 0
                /\ \A q \in o .. o + n - 1 :
                     q < length => IsSparseStream(Meaning(input, q).stream)
=============================================================================
