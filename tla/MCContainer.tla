---------------------------- MODULE MCContainer ----------------------------
(***************************************************************************)
(* Volume "own" has four images.  The map of "disk" names a stream of its  *)
(* own, a plain segment of the volume "third" and data without a source;   *)
(* "whole" is its own map, over two other volumes; "broken" names a map    *)
(* where a stream should be and a stream of a damaged volume; the map of   *)
(* "empty" has length 0, and names a stream nobody knows.                  *)
(***************************************************************************)
EXTENDS Container, TLC

CONSTANTS own, next, third, damaged, disk, whole, broken, empty, layout, none,
          local, indexed, far, farther, lost, nested, segment, stray, unknown

MCVolumes == {own, next, third, damaged}
MCResources == MCVolumes \cup {disk, whole, broken, empty, layout, none, local, indexed, far, farther,
                               lost, nested, segment, stray, unknown}

From(f, default) == [r \in MCResources |-> IF r \in DOMAIN f THEN f[r] ELSE default]

MCTypes == (
    own :> From(disk :> {"image"} @@ [r \in {whole, broken} |-> {"image", "map"}] @@ empty :> {"image"}
                @@ layout :> {"map"} @@ none :> {"map"} @@ nested :> {"map"}
                @@ [r \in {local, indexed, far, farther, lost} |-> {"stream"}], {})) @@
    (next :> From(far :> {"stream"} @@ farther :> {"stream"}, {})) @@
    (third :> From(farther :> {"stream"}, {})) @@
    (damaged :> From(lost :> {"stream"}, {}))

MCStored == (
    own :> From(local :> <<next, own>> @@ far :> <<next>> @@ farther :> <<third, next>>
                @@ lost :> <<damaged>> @@ nested :> <<own>> @@ segment :> <<third>>, <<>>)) @@
    (next :> From(far :> <<next>> @@ farther :> <<third>>, <<>>)) @@
    (third :> From(farther :> <<third>>, <<>>)) @@
    (damaged :> From(lost :> <<damaged>>, <<>>))

MCIndexed == (own :> {indexed}) @@ [v \in {next, third, damaged} |-> {}]
MCSegments == [v \in MCVolumes |-> IF v = third THEN {segment} ELSE {}]
MCDataStream == From(disk :> layout @@ empty :> none, NoResource)
MCIdx == From(layout :> <<local, segment, unknown>> @@ whole :> <<far, indexed, farther>>
              @@ broken :> <<nested, lost>> @@ none :> <<stray>>, <<>>)
MCSize == From([r \in {layout, whole, broken} |-> 8], 0)
=============================================================================
