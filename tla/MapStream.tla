----------------------------- MODULE MapStream -----------------------------
(***************************************************************************)
(* An aff4:Map stream in use (stream/MapStream.cc): MapIndex builds it,    *)
(* then threads read it, one map entry after another, and its owner        *)
(* closes it.                                                              *)
(*                                                                         *)
(* A byte is the pair of the stream it comes from and its offset there; of *)
(* the Unknown stream, which repeats a pattern, it is a letter.  An image  *)
(* stream holds ImageSize bytes; the gap and the Unknown stream have an    *)
(* answer at every offset.                                                 *)
(***************************************************************************)
EXTENDS MapIndex, RepeatedStream

CONSTANTS
    Threads,
    ReadInputs, \* the maps that are read, the others are only built
    Calls,      \* the [offset, count] a thread may ask read() for
    ImageSize,
    NoCall, NoReply, Unwritten

ASSUME CallsAssumption == Calls \subseteq [offset : Word, count : Word]
ASSUME ImageSizeAssumption == ImageSize \in Word
ASSUME ReadInputsAssumption == ReadInputs \subseteq Inputs
ASSUME ReplyAssumption == NoReply \notin Int
ASSUME PatternAssumption == Letters \in Word
ASSUME RequestAssumption == Word \subseteq 0 .. MaxRequest

VARIABLES
    pc,     \* where each thread is in read()
    call,   \* the arguments of read(), and whether the stream was closed by then
    next,   \* offset, while the loop runs
    left,   \* leftToRead
    buf,    \* what the loop has put in the caller's buffer
    result  \* what read() returned, NoReply until then

readVars == <<pc, call, next, left, buf, result>>
vars == <<mapVars, readVars>>

Byte == [stream : Stream, at : Word] \cup {Unwritten}

ASSUME CallAssumption == NoCall \notin [offset : Word, count : Word, late : BOOLEAN]
ASSUME BytesAssumption == NoReply \notin [n : Word \cup {-1}, bytes : Seq(Byte)]

ReadTypeOK ==
    /\ TypeOK
    /\ pc \in [Threads -> {"idle", "called", "loop"}]
    /\ call \in [Threads -> [offset : Word, count : Word, late : BOOLEAN] \cup {NoCall}]
    /\ next \in [Threads -> Word]
    /\ left \in [Threads -> Word]
    /\ buf \in [Threads -> Seq(Byte)]
    /\ result \in [Threads -> Word \cup {-1, NoReply}]

ReadInit ==
    /\ Init
    /\ pc = [t \in Threads |-> "idle"]
    /\ call = [t \in Threads |-> NoCall]
    /\ next = [t \in Threads |-> 0]
    /\ left = [t \in Threads |-> 0]
    /\ buf = [t \in Threads |-> <<>>]
    /\ result = [t \in Threads |-> NoReply]

Build == BuildNext /\ UNCHANGED readVars

-----------------------------------------------------------------------------
(* read(buf, count, offset)                                                *)

Call(t, c) ==
    /\ phase = "ready"
    /\ input \in ReadInputs
    /\ pc[t] = "idle"
    /\ pc' = [pc EXCEPT ![t] = "called"]
    /\ call' = [call EXCEPT ![t] = [offset |-> c.offset, count |-> c.count, late |-> closed]]
    /\ buf' = [buf EXCEPT ![t] = <<>>]
    /\ result' = [result EXCEPT ![t] = NoReply]
    /\ UNCHANGED <<mapVars, next, left>>

Return(t, n) ==
    /\ pc' = [pc EXCEPT ![t] = "idle"]
    /\ result' = [result EXCEPT ![t] = n]

Refuse(t) ==
    /\ pc[t] = "called"
    /\ closed \/ call[t].offset > length
    /\ Return(t, IF closed THEN -1 ELSE 0)
    /\ UNCHANGED <<mapVars, call, next, left, buf>>

Untruncated(o, c) == c

\* The sum is of 64 bit words: a large enough count is not truncated.
Truncated(o, c) ==
    LET sum == (o + c) % W
    IN  IF sum > length THEN (c - (sum - length)) % W ELSE c

Enter(t) ==
    /\ pc[t] = "called"
    /\ ~closed
    /\ call[t].offset <= length
    /\ pc' = [pc EXCEPT ![t] = "loop"]
    /\ next' = [next EXCEPT ![t] = call[t].offset]
    /\ left' = [left EXCEPT ![t] = Truncated(call[t].offset, call[t].count)]
    /\ UNCHANGED <<mapVars, call, buf, result>>

(* The bytes a stream has of the n asked for: symbolic streams fill any    *)
(* range, an image stream ends.                                            *)
Available(s, at, n) ==
    IF s.kind # "image" THEN n
    ELSE IF at > ImageSize THEN 0
    ELSE IF at + n > ImageSize THEN ImageSize - at ELSE n

\* Its first n bytes from an offset on, Unwritten where the stream has none.
SubBytes(s, at, res, n) ==
    LET letters == IF s.kind = "unknown" THEN Repeated(at, n) ELSE <<>>
    IN  [i \in 1 .. n |->
            IF i > res THEN Unwritten
            ELSE [stream |-> s, at |-> IF s.kind = "unknown" THEN letters[i] ELSE (at + i - 1) % W]]

\* The results of stream->read(): an image stream may also fail.
SubRead(s, at, n) == {Available(s, at, n)} \cup (IF s.kind = "image" THEN {-1} ELSE {})

FailedOnlyIfNegative(res) == res < 0

Failed(res) == res <= 0

PartOfEntry(t) == LET e == EntryAt(next[t]) IN (e.length - (next[t] - e.offset)) % W

\* The part of the request that the entry found for it serves.
PartLength(t) ==
    LET e == EntryAt(next[t])
        rest == (e.length - (next[t] - e.offset)) % W
    IN  IF left[t] < rest THEN left[t] ELSE rest

StreamOffset(t) == LET e == EntryAt(next[t]) IN (e.streamOffset + (next[t] - e.offset)) % W

(* One turn of the loop.  The stream writes only the bytes it has, but the *)
(* loop counts all it asked for as read.                                   *)
ReadEntry(t) ==
    /\ pc[t] = "loop"
    /\ left[t] > 0
    /\ streams # <<>>
    /\ LET s == StreamAt(EntryAt(next[t]))
           n == PartLength(t)
           at == StreamOffset(t)
       IN  \E res \in SubRead(s, at, n) :
             IF Failed(res)
             THEN Return(t, -1) /\ UNCHANGED <<next, left, buf>>
             ELSE /\ buf' = [buf EXCEPT ![t] = @ \o SubBytes(s, at, res, n)]
                  /\ next' = [next EXCEPT ![t] = (@ + n) % W]
                  /\ left' = [left EXCEPT ![t] = @ - n]
                  /\ UNCHANGED <<pc, result>>
    /\ UNCHANGED <<mapVars, call>>

(* close() has emptied the vector under the reader: it indexes freed       *)
(* memory, and whatever it does next is undefined.                         *)
ReadCleared(t) ==
    /\ pc[t] = "loop"
    /\ left[t] > 0
    /\ streams = <<>>
    /\ \E n \in {-1, call[t].count} : Return(t, n)
    /\ UNCHANGED <<mapVars, call, next, left, buf>>

FinishWithTotal(t) ==
    /\ pc[t] = "loop"
    /\ left[t] = 0
    /\ Return(t, next[t])
    /\ UNCHANGED <<mapVars, call, next, left, buf>>

Finish(t) ==
    /\ pc[t] = "loop"
    /\ left[t] = 0
    /\ Return(t, Len(buf[t]))
    /\ UNCHANGED <<mapVars, call, next, left, buf>>

-----------------------------------------------------------------------------
(* close(): the flag is exchanged first, then the vector is cleared; no    *)
(* lock keeps readers out in between or afterwards.                        *)
Close ==
    /\ phase = "ready"
    /\ input \in ReadInputs
    /\ ~closed
    /\ closed' = TRUE
    /\ UNCHANGED <<input, phase, streams, gapId, todo, offset, map, length, readVars>>

ClearStreams ==
    /\ closed
    /\ streams # <<>>
    /\ streams' = <<>>
    /\ UNCHANGED <<input, phase, gapId, todo, offset, map, length, closed, readVars>>

Next ==
    \/ Build
    \/ Close
    \/ ClearStreams
    \/ \E t \in Threads :
         \/ \E c \in Calls : Call(t, c)
         \/ Refuse(t) \/ Enter(t) \/ ReadEntry(t) \/ ReadCleared(t) \/ Finish(t)

Spec == ReadInit /\ [][Next]_vars

\* A thread inside read() keeps running.
ReadStep(t) == Refuse(t) \/ Enter(t) \/ ReadEntry(t) \/ ReadCleared(t) \/ Finish(t)
FairSpec == Spec /\ \A t \in Threads : WF_vars(ReadStep(t))

-----------------------------------------------------------------------------
(* Properties.                                                             *)

SizeOf(in) ==
    IF in.points = <<>> THEN 0 ELSE IF in.size > 0 THEN in.size ELSE End(in)

(* Well formed maps that keep clear of the gap stream's ID and whose       *)
(* entries lie within the streams they refer to: an image stream holds     *)
(* ImageSize bytes, the others as many as a word counts.                   *)
Sound(in) ==
    /\ WellFormed(in)
    /\ ~GapAliased(in)
    /\ \A i \in DOMAIN in.points :
         LET p == in.points[i]
             image == p.streamID < Len(in.lines) /\ Opened(in, p.streamID + 1).kind = "image"
         IN  p.streamOffset + p.length <= IF image THEN ImageSize ELSE W

\* The byte of a map's address space: a letter of the pattern where no stream is known.
ByteAt(in, o) ==
    LET b == Meaning(in, o) IN IF b.stream.kind = "unknown" THEN [b EXCEPT !.at = LetterAt(@)] ELSE b

(* A sound map is a byte stream: every read gives the bytes the map means, *)
(* or fails, whatever the entries it crosses (MapStream.cc:62-134).        *)
Bytes == INSTANCE ByteStream WITH
    content <- [o \in 0 .. SizeOf(input) - 1 |-> ByteAt(input, o)],
    open <- ~closed,
    call <- [t \in Threads |-> IF Sound(input) THEN call[t] ELSE NoCall],
    reply <- [t \in Threads |->
        IF ~Sound(input) \/ result[t] = NoReply THEN NoReply
        ELSE [n |-> result[t], bytes |-> buf[t]]]
IsByteStream == Bytes!Spec

(* The bytes reported as read were put in the buffer ("The number of bytes *)
(* read", IAFF4Stream.h:63), for every well formed map: also one with an   *)
(* entry that reaches past the end of the stream it refers to.             *)
ReportedIsWritten ==
    \A t \in Threads :
        WellFormed(input) /\ ~closed /\ result[t] \in Nat =>
            \A i \in 1 .. result[t] : buf[t][i] # Unwritten

(* A read never ends part of the way: while the map is open it fails or    *)
(* serves all of the request that lies below the end of the stream, so a   *)
(* caller that gets fewer bytes has reached the end.                       *)
AllOrError ==
    \A t \in Threads :
        WellFormed(input) /\ ~closed /\ result[t] \in Nat =>
            LET end == call[t].offset + call[t].count
            IN  result[t] = IF call[t].offset > length THEN 0
                            ELSE IF end > length THEN length - call[t].offset ELSE call[t].count

(* Every read returns, also from a map whose entries are empty or overlap: *)
(* each turn of the loop makes progress or fails.                          *)
ReadsEnd == \A t \in Threads : pc[t] # "idle" ~> pc[t] = "idle"
=============================================================================
