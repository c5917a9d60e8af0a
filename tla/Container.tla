----------------------------- MODULE Container -----------------------------
(***************************************************************************)
(* Making the stream of an image: the container (container/               *)
(* AFF4ZipContainer.cc:149-334), its image and map objects (image/         *)
(* AFF4Image.cc:73-99, map/AFF4Map.cc:143-160), and the look for the       *)
(* streams its idx names, in the container itself or in other volumes the  *)
(* resolver finds (stream/MapStream.cc:28-60, 136-197, 308-360).           *)
(*                                                                         *)
(* Threads make and close streams of one container, each through map       *)
(* objects of its own, while volume files come and go.  The resolver is    *)
(* what module Resolver shows of it: it knows volumes by a map that may be *)
(* out of date, and looks at the directory when it does not know one.      *)
(***************************************************************************)
EXTENDS Naturals, Sequences

CONSTANTS
    Threads,
    Resources,    \* resource IDs
    Volumes,      \* those of volumes
    Movable,      \* those whose files come and go (a bound)
    Own,          \* the volume the container is
    UnknownData,  \* the symbolic stream that can be overridden
    Symbolic,     \* streams made from their name alone
    Truncated,    \* volumes that have an ID but no directory of entries
    Types,        \* Types[v][r]: what the model of v says r is
    Stored,       \* Stored[v][r]: the volumes the model of v says r is stored in
    Indexed,      \* Indexed[v]: the resources v has index segments of
    Segments,     \* Segments[v]: the resources v has a segment named like them
    DataStream,   \* DataStream[i]: the map of image i, or NoResource
    Idx,          \* Idx[m]: the lines of the idx of map m
    Size,         \* Size[m]: its length
    NoResource

ASSUME ResourcesAssumption ==
    /\ Volumes \subseteq Resources /\ Movable \subseteq Volumes
    /\ Own \in Volumes /\ Truncated \subseteq Volumes \ {Own}
    /\ Symbolic \subseteq Resources \ Volumes /\ UnknownData \in Symbolic
    /\ NoResource \notin Resources
ASSUME ModelsAssumption ==
    /\ Types \in [Volumes -> [Resources -> SUBSET {"image", "map", "stream"}]]
    /\ Stored \in [Volumes -> [Resources -> Seq(Volumes)]]
    /\ Indexed \in [Volumes -> SUBSET Resources]
    /\ Segments \in [Volumes -> SUBSET Resources]
    /\ DataStream \in [Resources -> Resources \cup {NoResource}]
    /\ Idx \in [Resources -> Seq(Resources)]
    /\ Size \in [Resources -> Nat]

VARIABLES
    resolver,  \* whether the container was given one: setResolver()
    present,   \* the volumes whose file is in the resolver's directory
    volumes,   \* volumes: those the resolver has a file name of
    pc,        \* where each thread is
    map,       \* the map whose stream it makes
    override,  \* whether the map has an unknownOverride
    line,      \* the lines of idx it has done
    streams,   \* streams of its map stream
    externalContainers,
    stayed     \* the volumes present ever since it asked for the line (history)

resolverVars == <<resolver, present, volumes>>
streamVars == <<streams, externalContainers>>
lookupVars == <<line, stayed>>
vars == <<resolverVars, pc, map, override, lookupVars, streamVars>>

(* A stream of the vector: what it is, and the container it reads from, an *)
(* index in externalContainers or 0 for the map stream's own.              *)
Stream(kind, volume, n) == [kind |-> kind, volume |-> volume, container |-> n]

StreamType ==
    [kind : {"image", "segment", "symbolic", "override", "stand-in"},
     volume : Volumes \cup {NoResource}, container : Nat]

Steps == {"idle", "lines", "hasLine", "openLine", "hasVolume", "openVolume", "child",
          "ready", "closing", "crashed"}

TypeOK ==
    /\ resolver \in BOOLEAN
    /\ present \subseteq Volumes /\ volumes \subseteq Volumes
    /\ pc \in [Threads -> Steps]
    /\ map \in [Threads -> Resources \cup {NoResource}]
    /\ override \in [Threads -> BOOLEAN]
    /\ line \in [Threads -> Nat]
    /\ streams \in [Threads -> Seq(StreamType)]
    /\ externalContainers \in [Threads -> Seq(Volumes)]
    /\ stayed \in [Threads -> SUBSET Volumes]
    \* The points of a map name streams by their line: each has taken its place.
    /\ \A t \in Threads :
         /\ pc[t] \notin {"idle", "closing"} => Len(streams[t]) = line[t]
         /\ pc[t] = "ready" => line[t] = Len(Idx[map[t]])

Init ==
    /\ resolver \in BOOLEAN
    /\ \E S \in SUBSET Movable : present = (Volumes \ Movable) \cup S
    /\ volumes = present
    /\ pc = [t \in Threads |-> "idle"]
    /\ map = [t \in Threads |-> NoResource]
    /\ override = [t \in Threads |-> FALSE]
    /\ line = [t \in Threads |-> 0]
    /\ streams = [t \in Threads |-> <<>>]
    /\ externalContainers = [t \in Threads |-> <<>>]
    /\ stayed = [t \in Threads |-> {}]

Goto(t, step) == pc' = [pc EXCEPT ![t] = step]

-----------------------------------------------------------------------------
(* What a container finds in its volume.                                   *)

\* An aff4:ImageStream stored in v: so it says, or else the index is there.
HasImageStream(v, r) ==
    /\ "stream" \in Types[v][r]
    /\ IF Stored[v][r] # <<>> THEN \E n \in DOMAIN Stored[v][r] : Stored[v][r][n] = v
                              ELSE r \in Indexed[v]

\* open(): image, map, image stream and segment are tried in this order.
OpenIn(v, r) ==
    IF "image" \in Types[v][r] THEN "image"
    ELSE IF "map" \in Types[v][r] THEN "map"
    ELSE IF HasImageStream(v, r) THEN "stream"
    ELSE IF r \in Segments[v] THEN "segment" ELSE "none"

Images == {r \in Resources : "image" \in Types[Own][r]}

\* AFF4Image::getMap(): its data stream, or itself.
MapOf(i) ==
    IF DataStream[i] # NoResource THEN DataStream[i]
    ELSE IF "map" \in Types[Own][i] THEN i ELSE NoResource

-----------------------------------------------------------------------------
(* initStreamVector                                                        *)

GetStream(t, i, o) ==
    /\ pc[t] = "idle"
    /\ i \in Images /\ MapOf(i) # NoResource
    /\ map' = [map EXCEPT ![t] = MapOf(i)]
    /\ override' = [override EXCEPT ![t] = o]
    /\ Goto(t, "lines")
    /\ UNCHANGED <<resolverVars, lookupVars, streamVars>>

HasLine(t) == line[t] < Len(Idx[map[t]])
LineOf(t) == Idx[map[t]][line[t] + 1]

Put(t, s) == streams' = [streams EXCEPT ![t] = Append(@, s)]

NextLine(t) ==
    /\ line' = [line EXCEPT ![t] = @ + 1]
    /\ stayed' = [stayed EXCEPT ![t] = {}]
    /\ Goto(t, "lines")

OverrideHere(t) == LineOf(t) = UnknownData /\ override[t]
SymbolicHere(t) == LineOf(t) \in Symbolic
StoredHere(t) == HasImageStream(Own, LineOf(t))

PutLocal(t) ==
    /\ pc[t] = "lines" /\ HasLine(t)
    /\ \/ /\ OverrideHere(t)
          /\ Put(t, Stream("override", NoResource, 0))
       \/ /\ SymbolicHere(t) /\ ~OverrideHere(t)
          /\ Put(t, Stream("symbolic", NoResource, 0))
       \/ /\ StoredHere(t) /\ ~SymbolicHere(t)
          /\ Put(t, Stream("image", Own, 0))
    /\ NextLine(t)
    /\ UNCHANGED <<resolverVars, map, override, externalContainers>>

QueryResolver(t) ==
    /\ pc[t] = "lines" /\ HasLine(t)
    /\ ~SymbolicHere(t) /\ ~StoredHere(t)
    /\ resolver
    /\ stayed' = [stayed EXCEPT ![t] = present]
    /\ Goto(t, "hasLine")
    /\ UNCHANGED <<resolverVars, map, override, line, streamVars>>

-----------------------------------------------------------------------------
(* queryResolver: the stream is asked for, then the volume it is stored in *)
(* according to the container's own model.  The resolver only has volumes, *)
(* so what it opens for the first question is never the stream.            *)

OwnVolume(t) == Own

ParentVolume(t) == Stored[Own][LineOf(t)][1]

AsksForLine(t) == pc[t] \in {"hasLine", "openLine"}
Asked(t) == IF AsksForLine(t) THEN LineOf(t) ELSE ParentVolume(t)

LeftOut(t) == NextLine(t) /\ UNCHANGED streams

StandIn(t) == Put(t, Stream("stand-in", NoResource, 0)) /\ NextLine(t)

NoResolver(t) ==
    /\ pc[t] = "lines" /\ HasLine(t)
    /\ ~SymbolicHere(t) /\ ~StoredHere(t)
    /\ ~resolver
    /\ StandIn(t)
    /\ UNCHANGED <<resolverVars, map, override, externalContainers>>

AskNext(t) ==
    IF AsksForLine(t) /\ Stored[Own][LineOf(t)] # <<>>
    THEN Goto(t, "hasVolume") /\ UNCHANGED <<lookupVars, streams>>
    ELSE StandIn(t)

\* The map is believed; when it does not help the directory is scanned.
Scanned(t) == IF Asked(t) \in volumes THEN volumes ELSE volumes \cup present

HasResource(t) ==
    /\ pc[t] \in {"hasLine", "hasVolume"}
    /\ volumes' = Scanned(t)
    /\ IF Asked(t) \in Scanned(t)
       THEN /\ Goto(t, IF AsksForLine(t) THEN "openLine" ELSE "openVolume")
            /\ UNCHANGED <<lookupVars, streams>>
       ELSE AskNext(t)
    /\ UNCHANGED <<resolver, present, map, override, externalContainers>>

Kept(t) == [externalContainers EXCEPT ![t] = Append(@, Asked(t))]

\* open() looks again, and drops the entry of a file that is gone.
Open(t) ==
    /\ pc[t] \in {"openLine", "openVolume"}
    /\ Asked(t) \in present \ Truncated
    /\ volumes' = Scanned(t)
    /\ IF AsksForLine(t)
       THEN AskNext(t) /\ UNCHANGED externalContainers
       ELSE /\ externalContainers' = Kept(t)
            /\ Goto(t, "child")
            /\ UNCHANGED <<lookupVars, streams>>
    /\ UNCHANGED <<resolver, present, map, override>>

\* It gives null, which queryResolver dereferences.
OpenNull(t) ==
    /\ pc[t] \in {"openLine", "openVolume"}
    /\ Asked(t) \notin present \ Truncated
    /\ volumes' = Scanned(t) \ ({Asked(t)} \ present)
    /\ Goto(t, "crashed")
    /\ UNCHANGED <<resolver, present, map, override, lookupVars, streamVars>>

\* A plain segment calls itself an image stream, too.
KindOf(found) == IF found = "stream" THEN "image" ELSE found

FindChild(t) ==
    /\ pc[t] = "child"
    /\ LET found == OpenIn(ParentVolume(t), LineOf(t))
       IN  IF found \in {"stream", "segment"}
           THEN /\ Put(t, Stream(KindOf(found), ParentVolume(t), Len(externalContainers[t])))
                /\ NextLine(t)
           ELSE StandIn(t)
    /\ UNCHANGED <<resolverVars, map, override, externalContainers>>

-----------------------------------------------------------------------------
(* The end of the constructor, and close() or ~MapStream().                *)

ContainersFirst(t) ==
    /\ externalContainers' = [externalContainers EXCEPT ![t] = <<>>]
    /\ UNCHANGED streams

ClearedFirst(t) ==
    /\ streams' = [streams EXCEPT ![t] = <<>>]
    /\ UNCHANGED externalContainers

\* A map of length 0 is closed at once.
FinishMap(t) ==
    /\ pc[t] = "lines" /\ ~HasLine(t)
    /\ IF Size[map[t]] = 0 THEN Goto(t, "closing") /\ ClearedFirst(t)
                            ELSE Goto(t, "ready") /\ UNCHANGED streamVars
    /\ UNCHANGED <<resolverVars, map, override, lookupVars>>

Close(t) ==
    /\ pc[t] = "ready"
    /\ ClearedFirst(t)
    /\ Goto(t, "closing")
    /\ UNCHANGED <<resolverVars, map, override, lookupVars>>

ClearExternals(t) ==
    /\ pc[t] = "closing"
    /\ streams' = [streams EXCEPT ![t] = <<>>]
    /\ externalContainers' = [externalContainers EXCEPT ![t] = <<>>]
    /\ map' = [map EXCEPT ![t] = NoResource]
    /\ override' = [override EXCEPT ![t] = FALSE]
    /\ line' = [line EXCEPT ![t] = 0]
    /\ Goto(t, "idle")
    /\ UNCHANGED <<resolverVars, stayed>>

Arrive(v) ==
    /\ v \notin present
    /\ present' = present \cup {v}
    /\ UNCHANGED <<resolver, volumes, pc, map, override, lookupVars, streamVars>>

Leave(v) ==
    /\ v \in present
    /\ present' = present \ {v}
    /\ stayed' = [t \in Threads |-> stayed[t] \ {v}]
    /\ UNCHANGED <<resolver, volumes, pc, map, override, line, streamVars>>

Step(t) ==
    \/ PutLocal(t) \/ QueryResolver(t) \/ NoResolver(t) \/ HasResource(t) \/ Open(t) \/ OpenNull(t)
    \/ FindChild(t) \/ FinishMap(t) \/ Close(t) \/ ClearExternals(t)
    \/ \E i \in Resources, o \in BOOLEAN : GetStream(t, i, o)

\* A null dereference ends the process.
Next ==
    /\ \A t \in Threads : pc[t] # "crashed"
    /\ \/ \E t \in Threads : Step(t)
       \/ \E v \in Movable : Arrive(v) \/ Leave(v)

Spec == Init /\ [][Next]_vars

-----------------------------------------------------------------------------
(* Properties.                                                             *)

(* Where the stream of a line is to be found: the container's own volume,  *)
(* or the first one its model says stores it, when that is in the          *)
(* directory all the time and has it as an image stream or a segment, and  *)
(* not as an image or a map, which would be found before it.               *)
Findable(t, v) ==
    \/ v = Own /\ HasImageStream(Own, LineOf(t))
    \/ /\ Stored[Own][LineOf(t)] # <<>> /\ v = Stored[Own][LineOf(t)][1]
       /\ resolver /\ v \in stayed[t] \ Truncated
       /\ HasImageStream(v, LineOf(t)) \/ LineOf(t) \in Segments[v]
       /\ Types[v][LineOf(t)] \subseteq {"stream"}

FindsItsStream(t) ==
    /\ Len(streams'[t]) > Len(streams[t]) =>
         LET s == streams'[t][Len(streams'[t])]
         IN  /\ s.kind = "image" => HasImageStream(s.volume, LineOf(t))
             /\ s.kind = "segment" => /\ LineOf(t) \in Segments[s.volume]
                                      /\ ~HasImageStream(s.volume, LineOf(t))
             /\ s.kind = "stand-in" => \A v \in Volumes : ~Findable(t, v)
    /\ pc'[t] = "crashed" => Asked(t) \notin stayed[t] \ Truncated

(* What a line of idx becomes (MapStream.cc:162-193, 308-360), while other *)
(* threads' lookups and the file system change what the resolver knows:    *)
(* a stream that is read from a volume is that line's, and that volume has *)
(* it, as an image stream or, failing that, a plain segment; a stand-in,   *)
(* which reads as a pattern, is put only for one that was not to be found; *)
(* and null comes back from the resolver only for a volume that was not    *)
(* there all the time or is damaged.                                       *)
FindsItsStreams == [][\A t \in Threads : FindsItsStream(t)]_vars

ContainerKept(t, s) ==
    s.kind \in {"image", "segment"} =>
        IF s.container = 0
        THEN s.volume = Own
        ELSE /\ s.container \in DOMAIN externalContainers[t]
             /\ externalContainers[t][s.container] = s.volume

(* A stream of another volume reads through a bare pointer to its          *)
(* container: the map stream keeps that container as long as it has the    *)
(* stream, whatever else it opened, and also while it closes               *)
(* (MapStream.cc:57-58, 342).                                              *)
ExternalsKept ==
    \A t \in Threads : \A n \in DOMAIN streams[t] : ContainerKept(t, streams[t][n])
=============================================================================
