--------------------------- MODULE MCImageStream ---------------------------
(***************************************************************************)
(* A stream of seven bytes in four chunks of two, two chunks to a bevvy:   *)
(* chunk 0 is compressed (one byte stored), the others are stored as they  *)
(* are; beyond them there is no bevvy.                                     *)
(***************************************************************************)
EXTENDS ImageStream, TLC

MCStored == 0 :> 1 @@ 1 :> 2 @@ 2 :> 2 @@ 3 :> 2

Ranges == [offset : {0, 3, 8}, count : {1, 4, W - 1}]

\* Reads that cross chunk and bevvy boundaries, within the three chunks the cache can hold.
FewRanges == {[offset |-> 0, count |-> 4], [offset |-> 3, count |-> 2], [offset |-> 1, count |-> 5]}

MCCalls == Ranges \cup FewRanges

\* One reader of an intact file, or of one that ends early and whose chunks and
\* indexes may be damaged, with evictions; two readers, without.
MCWorkloads ==
    [readers : {{CHOOSE t \in Threads : TRUE}}, calls : {Ranges}, faults : {{}, {"eof", "codec", "index"}}]
    \cup {[readers |-> Threads, calls |-> FewRanges, faults |-> {}]}

\* What IsByteStream is proved from.
ASSUME BytesHypotheses == StreamEnds /\ NothingDangles

FailingFile == [readers : {Threads}, calls : {Ranges}, faults : {{"error"}}]

=============================================================================
