------------------------------- MODULE MCZip -------------------------------
(***************************************************************************)
(* Archives of up to three segments, laid out as a zip writer does: stored *)
(* and deflated, plain and zip64, with extra fields and comments, alone or *)
(* behind another file; and some whose extra fields have a wrong length.   *)
(***************************************************************************)
EXTENDS Zip, SequencesExt, Functions

\* A segment to be written: its bytes, method, and where its sizes go.
S(name, method, bytes, wide, stamp) ==
    [name |-> name, method |-> method, bytes |-> bytes, wide |-> wide, stamp |-> stamp]

Packed(s) == IF s.method = "deflate" THEN Len(s.bytes) + 1 ELSE Len(s.bytes)

Data(s) ==
    [i \in 1 .. Packed(s) |->
        IF s.method = "deflate"
        THEN [kind |-> "data", byte |-> <<s.name, i>>, packed |-> IF i = 1 THEN Packed(s) ELSE 0,
              deflates |-> IF i = 1 THEN s.bytes ELSE <<>>]
        ELSE [kind |-> "data", byte |-> s.bytes[i], packed |-> 0, deflates |-> <<>>]]

\* The local header has a name and one extra field.
Local(s) ==
    <<[kind |-> "local", nameLen |-> 1, extraLen |-> 1], [kind |-> "name", name |-> s.name],
      [kind |-> "extra", id |-> 2, words |-> 0]>> \o Data(s)

Starts(segments) == [i \in DOMAIN segments |-> Len(FlattenSeq([j \in 1 .. i - 1 |-> Local(segments[j])]))]

Word(v) == [kind |-> "word", value |-> v]

\* The words of the zip64 field: the values of the fields in wide, in this order.
Words(s, start) ==
    (IF "size" \in s.wide THEN <<Word(Len(s.bytes))>> ELSE <<>>)
    \o (IF "csize" \in s.wide THEN <<Word(Packed(s))>> ELSE <<>>)
    \o (IF "headerOffset" \in s.wide THEN <<Word(start)>> ELSE <<>>)

\* The zip64 field comes after a time stamp.
Header(s, start) ==
    LET extras == (IF s.stamp THEN <<[kind |-> "extra", id |-> 2, words |-> 1], Word(7)>> ELSE <<>>)
                  \o (IF s.wide # {}
                      THEN <<[kind |-> "extra", id |-> 1, words |-> Cardinality(s.wide)]>> \o Words(s, start)
                      ELSE <<>>)
        commentLen == IF s.stamp THEN 1 ELSE 0
    IN  <<[kind |-> "entry", method |-> s.method, extraLen |-> Len(extras), commentLen |-> commentLen,
           size |-> IF "size" \in s.wide THEN Max32 ELSE Len(s.bytes),
           csize |-> IF "csize" \in s.wide THEN Max32 ELSE Packed(s),
           headerOffset |-> IF "headerOffset" \in s.wide THEN Max32 ELSE start],
          [kind |-> "name", name |-> s.name]>>
        \o extras \o [i \in 1 .. commentLen |-> [kind |-> "comment", text |-> "c"]]

\* Where each header is, given where the first one is.
Entries(headers, first) ==
    [i \in DOMAIN headers |-> first + Len(FlattenSeq([j \in 1 .. i - 1 |-> headers[j]]))]

Archive(segments, zip64, comments, shift) ==
    LET starts == Starts(segments)
        locals == FlattenSeq([i \in DOMAIN segments |-> Local(segments[i])])
        parts == [i \in DOMAIN segments |-> Header(segments[i], starts[i])]
        headers == FlattenSeq(parts)
        at == Entries(parts, shift + Len(locals))
        end == [kind |-> "end", offset |-> IF zip64 THEN Max32 ELSE Len(locals), size |-> Len(headers),
                count |-> Len(segments), commentLen |-> comments]
        end64 == [kind |-> "end64", offset |-> Len(locals), size |-> Len(headers), count |-> Len(segments)]
    IN  [cells |-> [i \in 1 .. shift |-> [kind |-> "other"]] \o locals \o headers
                   \o (IF zip64 THEN <<end64, [kind |-> "locator"]>> ELSE <<>>)
                   \o <<end>> \o [i \in 1 .. comments |-> [kind |-> "comment", text |-> "a"]],
         shift |-> shift,
         members |-> [i \in DOMAIN segments |->
            [name |-> segments[i].name, method |-> segments[i].method, bytes |-> segments[i].bytes,
             packed |-> Packed(segments[i]), entry |-> at[i], header |-> starts[i], start |-> starts[i] + 3]]]

All == {"size", "csize", "headerOffset"}
Plain(n) == S(n, "stored", <<"x", "y", "z">>, {}, FALSE)
Small(n) == S(n, "deflate", <<"p", "q">>, {}, TRUE)
Wider(n) == S(n, "stored", <<"u", "v">>, All, TRUE)
Large(n) == S(n, "deflate", <<"k", "l", "m", "n">>, All \ {"csize"}, FALSE)
Far(n) == S(n, "stored", <<"w">>, {"headerOffset"}, TRUE)
Bulky(n) == S(n, "stored", <<"s", "t">>, {"size", "csize"}, TRUE)
Odd(n) == S(n, "other", <<"o">>, {}, FALSE)

Alone == {
    Archive(<<Plain("a"), Small("b")>>, FALSE, 0, 0),
    Archive(<<Small("b"), Wider("a"), Far("c")>>, FALSE, 2, 0),
    Archive(<<Large("b"), Wider("a")>>, TRUE, 0, 0),
    Archive(<<Wider("b"), Odd("a")>>, TRUE, 1, 0),
    Archive(<<Bulky("b"), Plain("a")>>, FALSE, 0, 0)}

(* The field at x in the directory entry of the one segment has another    *)
(* length: back to the first field, back to itself, or past the last.      *)
WithLength(x, words) ==
    LET a == Archive(<<Far("a")>>, FALSE, 0, 0)
    IN  [a EXCEPT !.cells[a.members[1].entry + 3 + x].words = words]

Misfit == {WithLength(0, W16 - 1), WithLength(2, W16 - 3), WithLength(2, 3)}
Openable == Alone \cup Misfit

Appended == {Archive(<<Plain("a"), Wider("b")>>, z, 0, 4) : z \in BOOLEAN}

MCByte == {"x", "y", "z", "p", "q", "u", "v", "k", "l", "m", "n", "w", "o", "s", "t"}

AllFaults == {{}, {"read"}, {"parse"}}

MCCalls == [offset : {0, 1, 4}, count : {0, 1, 5}]
=============================================================================
