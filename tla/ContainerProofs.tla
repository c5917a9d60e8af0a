-------------------------- MODULE ContainerProofs --------------------------
(***************************************************************************)
(* Proofs about Container: its types, that the containers streams read     *)
(* from are kept, and what a line of idx becomes, for any volumes, models, *)
(* maps and number of threads.                                             *)
(***************************************************************************)
EXTENDS Container, TLAPS

VarsType ==
    /\ resolver \in BOOLEAN
    /\ present \subseteq Volumes /\ volumes \subseteq Volumes
    /\ pc \in [Threads -> Steps]
    /\ map \in [Threads -> Resources \cup {NoResource}]
    /\ override \in [Threads -> BOOLEAN]
    /\ line \in [Threads -> Nat]
    /\ streams \in [Threads -> Seq(StreamType)]
    /\ externalContainers \in [Threads -> Seq(Volumes)]
    /\ stayed \in [Threads -> SUBSET Volumes]

Lookups == {"hasLine", "openLine", "hasVolume", "openVolume", "child"}

\* A map stream being made, in use, or closed.
Made(t) ==
    /\ pc[t] \in {"idle", "closing"} => streams[t] = <<>>
    /\ pc[t] = "idle" => line[t] = 0
    /\ pc[t] \notin {"idle", "closing"} =>
         /\ map[t] \in Resources
         /\ Len(streams[t]) = line[t]
         /\ line[t] <= Len(Idx[map[t]])
    /\ pc[t] = "ready" => line[t] = Len(Idx[map[t]])

\* What is known of the line that is looked up.
LookedUp(t) ==
    /\ pc[t] \in Lookups => line[t] < Len(Idx[map[t]]) /\ ~HasImageStream(Own, LineOf(t))
    /\ pc[t] \in {"hasVolume", "openVolume", "child"} => Stored[Own][LineOf(t)] # <<>>
    /\ pc[t] = "child" =>
         /\ externalContainers[t] # <<>>
         /\ externalContainers[t][Len(externalContainers[t])] = ParentVolume(t)

StreamsKept(t) == \A n \in DOMAIN streams[t] : ContainerKept(t, streams[t][n])

ThreadInv(t) == Made(t) /\ LookedUp(t) /\ StreamsKept(t)

IInv ==
    /\ VarsType
    /\ \A t \in Threads : stayed[t] \subseteq present
    /\ \A t \in Threads : ThreadInv(t)

LEMMA InvImplies == IInv => TypeOK /\ ExternalsKept
  BY DEF IInv, VarsType, ThreadInv, Made, StreamsKept, TypeOK, ExternalsKept

-----------------------------------------------------------------------------
(* Operators.                                                              *)

\* What open() returns is the image stream, or the segment, just when nothing
\* comes before it.
LEMMA OpenInStream ==
  ASSUME NEW v, NEW r
  PROVE  /\ OpenIn(v, r) = "stream" <=>
              "image" \notin Types[v][r] /\ "map" \notin Types[v][r] /\ HasImageStream(v, r)
         /\ OpenIn(v, r) = "segment" <=>
              /\ "image" \notin Types[v][r] /\ "map" \notin Types[v][r] /\ ~HasImageStream(v, r)
              /\ r \in Segments[v]
  BY DEF OpenIn

LEMMA MapOfType ==
  ASSUME NEW i \in Resources, MapOf(i) # NoResource
  PROVE  MapOf(i) \in Resources
  BY ModelsAssumption, ResourcesAssumption DEF MapOf

LEMMA LineType ==
  ASSUME NEW t \in Threads, VarsType, map[t] \in Resources, line[t] < Len(Idx[map[t]])
  PROVE  LineOf(t) \in Resources
<1>1. Idx[map[t]] \in Seq(Resources)
  BY ModelsAssumption
<1>2. line[t] \in Nat
  BY DEF VarsType
<1> QED
  BY <1>1, <1>2 DEF LineOf

LEMMA ParentType ==
  ASSUME NEW t \in Threads, VarsType, map[t] \in Resources, line[t] < Len(Idx[map[t]]),
         Stored[Own][LineOf(t)] # <<>>
  PROVE  ParentVolume(t) \in Volumes
<1>1. LineOf(t) \in Resources
  BY LineType
<1>2. Stored[Own][LineOf(t)] \in Seq(Volumes)
  BY <1>1, ModelsAssumption, ResourcesAssumption
<1> QED
  BY <1>2 DEF ParentVolume

\* A step of another thread leaves what is said of u.
LEMMA OthersKeep ==
  ASSUME NEW u \in Threads, ThreadInv(u),
         pc'[u] = pc[u], map'[u] = map[u], line'[u] = line[u],
         streams'[u] = streams[u], externalContainers'[u] = externalContainers[u]
  PROVE  ThreadInv(u)'
  BY DEF ThreadInv, Made, LookedUp, StreamsKept, ContainerKept, LineOf, ParentVolume

\* A stream is put for the line, and the next one is up.
LEMMA PutKeeps ==
  ASSUME NEW t \in Threads, IInv, NEW s \in StreamType, Put(t, s), NextLine(t),
         pc[t] \notin {"idle", "closing"}, line[t] < Len(Idx[map[t]]),
         ContainerKept(t, s), UNCHANGED <<map, externalContainers>>
  PROVE  /\ ThreadInv(t)'
         /\ streams' \in [Threads -> Seq(StreamType)]
         /\ line' \in [Threads -> Nat]
         /\ pc' \in [Threads -> Steps]
         /\ stayed' \in [Threads -> SUBSET Volumes]
<1>1. streams[t] \in Seq(StreamType) /\ line[t] \in Nat /\ Len(streams[t]) = line[t]
      /\ map[t] \in Resources /\ Idx[map[t]] \in Seq(Resources)
  BY ModelsAssumption DEF IInv, VarsType, ThreadInv, Made
<1>2. streams'[t] = Append(streams[t], s) /\ line'[t] = line[t] + 1 /\ pc'[t] = "lines"
  BY DEF Put, NextLine, Goto, IInv, VarsType
<1>3. Made(t)'
  BY <1>1, <1>2 DEF Made
<1>4. LookedUp(t)'
  BY <1>2 DEF LookedUp, Lookups
<1>5. StreamsKept(t)'
  <2> SUFFICES ASSUME NEW n \in DOMAIN streams'[t]
               PROVE  ContainerKept(t, streams[t][n])'
    BY DEF StreamsKept
  <2>1. \/ n \in DOMAIN streams[t] /\ streams'[t][n] = streams[t][n]
        \/ streams'[t][n] = s
    BY <1>1, <1>2
  <2>2. ContainerKept(t, streams'[t][n])
    BY <2>1 DEF IInv, ThreadInv, StreamsKept
  <2> QED
    BY <2>2 DEF ContainerKept
<1>6. /\ streams' \in [Threads -> Seq(StreamType)]
      /\ line' \in [Threads -> Nat]
      /\ pc' \in [Threads -> Steps]
      /\ stayed' \in [Threads -> SUBSET Volumes]
  BY <1>1 DEF Put, NextLine, Goto, IInv, VarsType, Steps
<1> QED
  BY <1>3, <1>4, <1>5, <1>6 DEF ThreadInv

-----------------------------------------------------------------------------
(* Each step keeps the invariant.                                          *)

Elsewhere(t) ==
    \A u \in Threads \ {t} :
        /\ pc'[u] = pc[u] /\ map'[u] = map[u] /\ line'[u] = line[u]
        /\ streams'[u] = streams[u] /\ externalContainers'[u] = externalContainers[u]

LEMMA InvOf ==
  ASSUME NEW t \in Threads, IInv, Elsewhere(t), VarsType', ThreadInv(t)',
         \A u \in Threads : stayed'[u] \subseteq present'
  PROVE  IInv'
<1>1. ASSUME NEW u \in Threads PROVE ThreadInv(u)'
  <2>1. CASE u = t
    BY <2>1
  <2>2. CASE u # t
    BY <2>2, OthersKeep DEF Elsewhere, IInv
  <2> QED
    BY <2>1, <2>2
<1> QED
  BY <1>1 DEF IInv

\* The frame of a step that ends a line.
LEMMA PutInv ==
  ASSUME NEW t \in Threads, IInv, NEW s \in StreamType, Put(t, s), NextLine(t),
         pc[t] \notin {"idle", "closing"}, line[t] < Len(Idx[map[t]]), ContainerKept(t, s),
         volumes' \subseteq Volumes,
         UNCHANGED <<resolver, present, map, override, externalContainers>>
  PROVE  IInv'
<1>1. ThreadInv(t)' /\ VarsType'
  BY PutKeeps DEF VarsType, IInv
<1>2. Elsewhere(t)
  BY DEF Elsewhere, Put, NextLine, Goto, IInv, VarsType
<1>3. \A u \in Threads : stayed'[u] \subseteq present'
  BY DEF NextLine, IInv, VarsType
<1> QED
  BY <1>1, <1>2, <1>3, InvOf

LEMMA GetStreamInv ==
  ASSUME NEW t \in Threads, IInv, NEW i \in Resources, NEW o \in BOOLEAN, GetStream(t, i, o)
  PROVE  IInv'
<1> USE DEF GetStream, Goto
<1>1. VarsType'
  BY MapOfType DEF VarsType, IInv, resolverVars, lookupVars, streamVars, Steps
<1>2. pc'[t] = "lines" /\ map'[t] = MapOf(i) /\ line'[t] = 0 /\ streams'[t] = <<>>
  BY DEF VarsType, IInv, ThreadInv, Made, lookupVars, streamVars
<1>3. Made(t)'
  <2>1. Idx[MapOf(i)] \in Seq(Resources) /\ MapOf(i) \in Resources
    BY MapOfType, ModelsAssumption
  <2> QED
    BY <1>2, <2>1 DEF Made
<1>4. LookedUp(t)' /\ StreamsKept(t)'
  BY <1>2 DEF LookedUp, StreamsKept, Lookups
<1>5. Elsewhere(t)
  BY DEF Elsewhere, IInv, VarsType, lookupVars, streamVars
<1>6. \A u \in Threads : stayed'[u] \subseteq present'
  BY DEF IInv, lookupVars, resolverVars
<1> QED
  BY <1>1, <1>3, <1>4, <1>5, <1>6, InvOf DEF ThreadInv

LEMMA StreamTypes ==
  /\ \A kind \in {"override", "symbolic", "stand-in"} : Stream(kind, NoResource, 0) \in StreamType
  /\ \A kind \in {"image", "segment"}, v \in Volumes, n \in Nat : Stream(kind, v, n) \in StreamType
  BY DEF Stream, StreamType

LEMMA PutLocalInv ==
  ASSUME NEW t \in Threads, IInv, PutLocal(t)
  PROVE  IInv'
<1>1. PICK s \in {Stream("override", NoResource, 0), Stream("symbolic", NoResource, 0),
                  Stream("image", Own, 0)} : Put(t, s)
  BY DEF PutLocal
<1>2. s \in StreamType
  BY StreamTypes, ResourcesAssumption
<1>3. ContainerKept(t, s)
  BY DEF ContainerKept, Stream
<1> QED
  BY <1>1, <1>2, <1>3, PutInv DEF PutLocal, resolverVars, HasLine, IInv, VarsType

LEMMA StandInInv ==
  ASSUME NEW t \in Threads, IInv, StandIn(t),
         pc[t] \notin {"idle", "closing"}, line[t] < Len(Idx[map[t]]), volumes' \subseteq Volumes,
         UNCHANGED <<resolver, present, map, override, externalContainers>>
  PROVE  IInv'
<1>1. Stream("stand-in", NoResource, 0) \in StreamType
  BY StreamTypes
<1>2. ContainerKept(t, Stream("stand-in", NoResource, 0))
  BY DEF ContainerKept, Stream
<1> QED
  BY <1>1, <1>2, PutInv DEF StandIn

LEMMA NoResolverInv ==
  ASSUME NEW t \in Threads, IInv, NoResolver(t)
  PROVE  IInv'
  BY StandInInv DEF NoResolver, resolverVars, HasLine, IInv, VarsType

LEMMA QueryResolverInv ==
  ASSUME NEW t \in Threads, IInv, QueryResolver(t)
  PROVE  IInv'
<1> USE DEF QueryResolver, Goto
<1>1. VarsType'
  BY DEF VarsType, IInv, resolverVars, streamVars, Steps
<1>2. /\ pc'[t] = "hasLine" /\ map'[t] = map[t] /\ line'[t] = line[t] /\ streams'[t] = streams[t]
      /\ externalContainers'[t] = externalContainers[t]
  BY DEF VarsType, IInv, streamVars
<1>3. Made(t)'
  BY <1>2 DEF Made, IInv, ThreadInv
<1>4. LookedUp(t)'
  BY <1>2 DEF LookedUp, Lookups, HasLine, StoredHere, LineOf
<1>5. StreamsKept(t)'
  BY <1>2 DEF StreamsKept, ContainerKept, IInv, ThreadInv
<1>6. Elsewhere(t)
  BY DEF Elsewhere, IInv, VarsType, streamVars
<1>7. \A u \in Threads : stayed'[u] \subseteq present'
  BY DEF IInv, VarsType, resolverVars
<1> QED
  BY <1>1, <1>3, <1>4, <1>5, <1>6, <1>7, InvOf DEF ThreadInv

\* A step of a lookup that only moves on: the next question, or the child.
LEMMA MoveInv ==
  ASSUME NEW t \in Threads, IInv, NEW step \in {"openLine", "hasVolume", "openVolume", "crashed"},
         Goto(t, step), pc[t] \in Lookups,
         step \in {"hasVolume", "openVolume"} => Stored[Own][LineOf(t)] # <<>>,
         volumes' \subseteq Volumes,
         UNCHANGED <<resolver, present, map, override, lookupVars, streamVars>>
  PROVE  IInv'
<1> USE DEF Goto, lookupVars, streamVars
<1>1. VarsType'
  BY DEF VarsType, IInv, Steps
<1>2. pc'[t] = step
  BY DEF VarsType, IInv
<1>3. Made(t)'
  BY <1>2 DEF Made, IInv, ThreadInv, Lookups
<1>4. LookedUp(t)'
  BY <1>2 DEF LookedUp, Lookups, LineOf, IInv, ThreadInv
<1>5. StreamsKept(t)'
  BY DEF StreamsKept, ContainerKept, IInv, ThreadInv
<1>6. Elsewhere(t)
  BY DEF Elsewhere, IInv, VarsType
<1>7. \A u \in Threads : stayed'[u] \subseteq present'
  BY DEF IInv
<1> QED
  BY <1>1, <1>3, <1>4, <1>5, <1>6, <1>7, InvOf DEF ThreadInv

LEMMA LookupFacts ==
  ASSUME NEW t \in Threads, IInv, pc[t] \in Lookups
  PROVE  /\ line[t] < Len(Idx[map[t]]) /\ map[t] \in Resources /\ LineOf(t) \in Resources
         /\ ~HasImageStream(Own, LineOf(t))
         /\ pc[t] \notin {"hasLine", "openLine"} => Stored[Own][LineOf(t)] # <<>>
                                                    /\ ParentVolume(t) \in Volumes
<1>1. line[t] < Len(Idx[map[t]]) /\ map[t] \in Resources
  BY DEF IInv, ThreadInv, Made, LookedUp, Lookups
<1>2. pc[t] \notin {"hasLine", "openLine"} => Stored[Own][LineOf(t)] # <<>>
  BY DEF IInv, ThreadInv, LookedUp, Lookups
<1>3. VarsType /\ ~HasImageStream(Own, LineOf(t))
  BY DEF IInv, ThreadInv, LookedUp
<1> QED
  BY <1>1, <1>2, <1>3, LineType, ParentType

LEMMA ScannedType ==
  ASSUME NEW t \in Threads, IInv
  PROVE  Scanned(t) \subseteq Volumes
  BY DEF Scanned, IInv, VarsType

LEMMA AskNextInv ==
  ASSUME NEW t \in Threads, IInv, AskNext(t), pc[t] \in Lookups, volumes' \subseteq Volumes,
         UNCHANGED <<resolver, present, map, override, externalContainers>>
  PROVE  IInv'
<1>1. CASE AsksForLine(t) /\ Stored[Own][LineOf(t)] # <<>>
  BY <1>1, MoveInv DEF AskNext, streamVars
<1>2. CASE ~(AsksForLine(t) /\ Stored[Own][LineOf(t)] # <<>>)
  BY <1>2, StandInInv, LookupFacts DEF AskNext, Lookups
<1> QED
  BY <1>1, <1>2

LEMMA HasResourceInv ==
  ASSUME NEW t \in Threads, IInv, HasResource(t)
  PROVE  IInv'
<1>1. pc[t] \in Lookups /\ volumes' \subseteq Volumes
  BY ScannedType DEF HasResource, Lookups
<1>2. CASE Asked(t) \in Scanned(t)
  <2>1. CASE AsksForLine(t)
    BY <1>1, <1>2, <2>1, MoveInv DEF HasResource, streamVars
  <2>2. CASE ~AsksForLine(t)
    <3>1. Stored[Own][LineOf(t)] # <<>>
      BY <1>1, <2>2, LookupFacts DEF AsksForLine
    <3> QED
      BY <1>1, <1>2, <2>2, <3>1, MoveInv DEF HasResource, streamVars
  <2> QED
    BY <2>1, <2>2
<1>3. CASE Asked(t) \notin Scanned(t)
  BY <1>1, <1>3, AskNextInv DEF HasResource
<1> QED
  BY <1>2, <1>3

LEMMA OpenInv ==
  ASSUME NEW t \in Threads, IInv, Open(t)
  PROVE  IInv'
<1>1. pc[t] \in Lookups /\ volumes' \subseteq Volumes
  BY ScannedType DEF Open, Lookups
<1>2. CASE AsksForLine(t)
  BY <1>1, <1>2, AskNextInv DEF Open
<1>3. CASE ~AsksForLine(t)
  <2> USE DEF Goto, lookupVars
  <2>1. /\ ParentVolume(t) \in Volumes /\ Asked(t) = ParentVolume(t)
        /\ Stored[Own][LineOf(t)] # <<>> /\ pc[t] = "openVolume"
    BY <1>1, <1>3, LookupFacts DEF Open, Asked, AsksForLine
  <2>2. VarsType'
    <3>1. externalContainers' \in [Threads -> Seq(Volumes)]
      <4>1. Append(externalContainers[t], ParentVolume(t)) \in Seq(Volumes)
        BY <2>1 DEF VarsType, IInv
      <4>2. externalContainers' = [externalContainers EXCEPT
                                     ![t] = Append(externalContainers[t], ParentVolume(t))]
        BY <1>3, <2>1 DEF Open, Kept
      <4> QED
        BY <4>1, <4>2 DEF VarsType, IInv
    <3>2. pc' \in [Threads -> Steps]
      BY <1>3 DEF Open, VarsType, IInv, Steps
    <3> QED
      BY <1>1, <1>3, <3>1, <3>2 DEF Open, VarsType, IInv
  <2>3. /\ pc'[t] = "child" /\ map'[t] = map[t] /\ line'[t] = line[t] /\ streams'[t] = streams[t]
        /\ externalContainers'[t] = Append(externalContainers[t], ParentVolume(t))
        /\ externalContainers[t] \in Seq(Volumes)
    BY <1>3, <2>1 DEF Open, Kept, VarsType, IInv
  <2>4. Made(t)'
    BY <2>1, <2>3 DEF Made, IInv, ThreadInv
  <2>5. LookedUp(t)'
    <3>1. LineOf(t)' = LineOf(t) /\ ParentVolume(t)' = ParentVolume(t)
      BY <2>3, <1>3 DEF LineOf, ParentVolume, Open
    <3>2. /\ externalContainers'[t] # <<>>
          /\ externalContainers'[t][Len(externalContainers'[t])] = ParentVolume(t)
      BY <2>1, <2>3
    <3> QED
      BY <1>1, <2>1, <2>3, <3>1, <3>2, LookupFacts DEF LookedUp, Lookups
  <2>6. StreamsKept(t)'
    <3> SUFFICES ASSUME NEW n \in DOMAIN streams[t]
                 PROVE  ContainerKept(t, streams[t][n])'
      BY <2>3 DEF StreamsKept
    <3>1. ContainerKept(t, streams[t][n])
      BY DEF IInv, ThreadInv, StreamsKept
    <3> QED
      BY <2>1, <2>3, <3>1 DEF ContainerKept
  <2>7. Elsewhere(t)
    BY <1>3 DEF Open, Kept, Elsewhere, IInv, VarsType
  <2>8. \A u \in Threads : stayed'[u] \subseteq present'
    BY <1>3 DEF Open, IInv
  <2> QED
    BY <2>2, <2>4, <2>5, <2>6, <2>7, <2>8, InvOf DEF ThreadInv
<1> QED
  BY <1>2, <1>3

LEMMA OpenNullInv ==
  ASSUME NEW t \in Threads, IInv, OpenNull(t)
  PROVE  IInv'
<1>1. pc[t] \in Lookups /\ volumes' \subseteq Volumes
  BY ScannedType DEF OpenNull, Lookups
<1> QED
  BY <1>1, MoveInv DEF OpenNull

LEMMA FindChildInv ==
  ASSUME NEW t \in Threads, IInv, FindChild(t)
  PROVE  IInv'
<1>1. /\ pc[t] \in Lookups /\ pc[t] \notin {"idle", "closing"} /\ volumes' \subseteq Volumes
      /\ line[t] < Len(Idx[map[t]]) /\ ParentVolume(t) \in Volumes
  BY LookupFacts DEF FindChild, Lookups, resolverVars, IInv, VarsType
<1> DEFINE found == OpenIn(ParentVolume(t), LineOf(t))
<1>2. CASE found \in {"stream", "segment"}
  <2> DEFINE last == Len(externalContainers[t])
             s == Stream(KindOf(found), ParentVolume(t), last)
  <2>1. /\ externalContainers[t] \in Seq(Volumes) /\ externalContainers[t] # <<>>
        /\ externalContainers[t][last] = ParentVolume(t)
    BY DEF FindChild, IInv, VarsType, ThreadInv, LookedUp
  <2>2. last \in 1 .. last
    BY <2>1
  <2>3. s \in StreamType
    BY <1>1, <1>2, <2>2, StreamTypes DEF KindOf
  <2>4. ContainerKept(t, s)
    BY <2>1, <2>2 DEF ContainerKept, Stream
  <2> QED
    BY <1>1, <1>2, <2>3, <2>4, PutInv DEF FindChild, resolverVars
<1>3. CASE found \notin {"stream", "segment"}
  BY <1>1, <1>3, StandInInv DEF FindChild, resolverVars
<1> QED
  BY <1>2, <1>3

\* The streams go, or the object is done; the containers that stay are of no account.
LEMMA FinishInv ==
  ASSUME NEW t \in Threads, IInv, FinishMap(t) \/ Close(t)
  PROVE  IInv'
<1> USE DEF FinishMap, Close, ClearedFirst, Goto, streamVars, lookupVars, resolverVars
<1>1. VarsType'
  <2>1. streams' \in [Threads -> Seq(StreamType)]
    <3>1. <<>> \in Seq(StreamType)
      OBVIOUS
    <3> HIDE DEF StreamType
    <3> QED
      BY <3>1 DEF VarsType, IInv
  <2>2. pc' \in [Threads -> Steps]
    BY DEF VarsType, IInv, Steps
  <2> QED
    BY <2>1, <2>2 DEF VarsType, IInv
<1>2. /\ map'[t] = map[t] /\ line'[t] = line[t] /\ externalContainers'[t] = externalContainers[t]
      /\ \/ pc'[t] = "closing" /\ streams'[t] = <<>>
         \/ pc[t] = "lines" /\ ~HasLine(t) /\ pc'[t] = "ready" /\ streams'[t] = streams[t]
  BY DEF VarsType, IInv
<1>3. Made(t)'
  <2>1. pc[t] = "lines" /\ ~HasLine(t) => line[t] = Len(Idx[map[t]])
    <3>1. line[t] \in Nat /\ map[t] \in Resources \cup {NoResource}
      BY DEF IInv, VarsType
    <3>2. pc[t] = "lines" => Idx[map[t]] \in Seq(Resources) /\ line[t] <= Len(Idx[map[t]])
      BY ModelsAssumption DEF IInv, ThreadInv, Made
    <3> QED
      BY <3>1, <3>2 DEF HasLine
  <2> QED
    BY <1>2, <2>1 DEF Made, IInv, ThreadInv
<1>4. LookedUp(t)'
  BY <1>2 DEF LookedUp, Lookups
<1>5. StreamsKept(t)'
  BY <1>2 DEF StreamsKept, ContainerKept, IInv, ThreadInv
<1>6. Elsewhere(t)
  BY DEF Elsewhere, IInv, VarsType
<1>7. \A u \in Threads : stayed'[u] \subseteq present'
  BY DEF IInv
<1> QED
  BY <1>1, <1>3, <1>4, <1>5, <1>6, <1>7, InvOf DEF ThreadInv

LEMMA ClearExternalsInv ==
  ASSUME NEW t \in Threads, IInv, ClearExternals(t)
  PROVE  IInv'
<1> USE DEF ClearExternals, Goto, resolverVars
<1>1. VarsType'
  BY DEF VarsType, IInv, Steps
<1>2. pc'[t] = "idle" /\ streams'[t] = <<>> /\ line'[t] = 0
  BY DEF VarsType, IInv
<1>3. ThreadInv(t)'
  BY <1>2 DEF ThreadInv, Made, LookedUp, StreamsKept, Lookups
<1>4. Elsewhere(t)
  BY DEF Elsewhere, IInv, VarsType
<1>5. \A u \in Threads : stayed'[u] \subseteq present'
  BY DEF IInv
<1> QED
  BY <1>1, <1>3, <1>4, <1>5, InvOf

LEMMA FilesInv ==
  ASSUME IInv, NEW v \in Movable, Arrive(v) \/ Leave(v)
  PROVE  IInv'
<1> USE DEF Arrive, Leave, lookupVars, streamVars
<1>1. VarsType'
  BY ResourcesAssumption DEF VarsType, IInv
<1>2. \A u \in Threads : stayed'[u] \subseteq present'
  BY DEF IInv, VarsType
<1>3. \A u \in Threads : ThreadInv(u)'
  BY OthersKeep DEF IInv
<1> QED
  BY <1>1, <1>2, <1>3 DEF IInv

LEMMA StutterInv ==
  ASSUME IInv, UNCHANGED vars
  PROVE  IInv'
<1> USE DEF vars, resolverVars, lookupVars, streamVars
<1>1. \A u \in Threads : ThreadInv(u)'
  BY OthersKeep DEF IInv
<1>2. VarsType' /\ \A u \in Threads : stayed'[u] \subseteq present'
  BY DEF IInv, VarsType
<1> QED
  BY <1>1, <1>2 DEF IInv

LEMMA InitInv == Init => IInv
<1> SUFFICES ASSUME Init PROVE IInv
  OBVIOUS
<1>1. VarsType
  BY ResourcesAssumption DEF Init, VarsType, Steps
<1>2. \A u \in Threads : ThreadInv(u) /\ stayed[u] \subseteq present
  BY DEF Init, ThreadInv, Made, LookedUp, StreamsKept, Lookups
<1> QED
  BY <1>1, <1>2 DEF IInv

LEMMA NextInv == IInv /\ [Next]_vars => IInv'
<1> SUFFICES ASSUME IInv, [Next]_vars PROVE IInv'
  OBVIOUS
<1>1. ASSUME NEW t \in Threads, Step(t) PROVE IInv'
  BY <1>1, GetStreamInv, PutLocalInv, QueryResolverInv, NoResolverInv, HasResourceInv, OpenInv,
     OpenNullInv, FindChildInv, FinishInv, ClearExternalsInv DEF Step
<1>2. ASSUME NEW v \in Movable, Arrive(v) \/ Leave(v) PROVE IInv'
  BY <1>2, FilesInv
<1>3. CASE UNCHANGED vars
  BY <1>3, StutterInv
<1> QED
  BY <1>1, <1>2, <1>3 DEF Next

\* The invariant that the others follow from.
THEOREM IndInv == Spec => []IInv
  BY InitInv, NextInv, PTL DEF Spec

(* Every reachable state is well typed, and each line of idx that was read *)
(* has taken its place in the vector the points of the map index.          *)
THEOREM TypeCorrect == Spec => []TypeOK
  BY IndInv, InvImplies, PTL

(* As long as a map stream has a stream that reads from another volume, it *)
(* keeps the container of that volume (MapStream.cc:57-58, 342).           *)
THEOREM KeepsExternals == Spec => []ExternalsKept
  BY IndInv, InvImplies, PTL

-----------------------------------------------------------------------------
(* What becomes of a line.                                                 *)

\* The property of thread t's part of a step in which it puts s, or nothing.
LEMMA PutFinds ==
  ASSUME NEW t \in Threads, IInv, NEW s \in StreamType, Put(t, s), pc'[t] # "crashed",
         s.kind = "image" => HasImageStream(s.volume, LineOf(t)),
         s.kind = "segment" => LineOf(t) \in Segments[s.volume] /\ ~HasImageStream(s.volume, LineOf(t)),
         s.kind = "stand-in" => \A v \in Volumes : ~Findable(t, v)
  PROVE  FindsItsStream(t)
<1>1. streams[t] \in Seq(StreamType) /\ streams'[t] = Append(streams[t], s)
  BY DEF Put, IInv, VarsType
<1>2. streams'[t][Len(streams'[t])] = s
  BY <1>1
<1> QED
  BY <1>2 DEF FindsItsStream

LEMMA KeepsFinds ==
  ASSUME NEW t \in Threads, IInv, streams'[t] \in {streams[t], <<>>}, pc'[t] # "crashed"
  PROVE  FindsItsStream(t)
<1>1. streams[t] \in Seq(StreamType)
  BY DEF IInv, VarsType
<1>2. ~(Len(streams'[t]) > Len(streams[t]))
  BY <1>1
<1> QED
  BY <1>2 DEF FindsItsStream

LEMMA StandInFinds ==
  ASSUME NEW t \in Threads, IInv, StandIn(t), \A v \in Volumes : ~Findable(t, v)
  PROVE  FindsItsStream(t)
<1>1. Stream("stand-in", NoResource, 0) \in StreamType
  BY StreamTypes
<1>2. pc'[t] # "crashed"
  BY DEF StandIn, NextLine, Goto, IInv, VarsType
<1> QED
  BY <1>1, <1>2, PutFinds DEF StandIn, Stream

LEMMA PutLocalFinds ==
  ASSUME NEW t \in Threads, IInv, PutLocal(t)
  PROVE  FindsItsStream(t)
<1>1. PICK s \in {Stream("override", NoResource, 0), Stream("symbolic", NoResource, 0),
                  Stream("image", Own, 0)} :
        Put(t, s) /\ (s = Stream("image", Own, 0) => StoredHere(t))
  BY DEF PutLocal, Stream
<1>2. s \in StreamType
  BY StreamTypes, ResourcesAssumption
<1>3. s.kind = "image" => HasImageStream(s.volume, LineOf(t))
  BY <1>1 DEF Stream, StoredHere
<1>4. s.kind \notin {"segment", "stand-in"}
  BY DEF Stream
<1>5. pc'[t] # "crashed"
  BY DEF PutLocal, NextLine, Goto, IInv, VarsType
<1> QED
  BY <1>1, <1>2, <1>3, <1>4, <1>5, PutFinds

LEMMA NoResolverFinds ==
  ASSUME NEW t \in Threads, IInv, NoResolver(t)
  PROVE  FindsItsStream(t)
<1>1. \A v \in Volumes : ~Findable(t, v)
  BY DEF NoResolver, Findable, StoredHere
<1> QED
  BY <1>1, StandInFinds DEF NoResolver

\* Asked for in vain: it is not in the directory now.
LEMMA AskNextFinds ==
  ASSUME NEW t \in Threads, IInv, AskNext(t), pc[t] \in Lookups,
         AsksForLine(t) \/ Asked(t) \notin present
  PROVE  FindsItsStream(t)
<1>1. ~HasImageStream(Own, LineOf(t)) /\ stayed[t] \subseteq present
  BY LookupFacts DEF IInv
<1>2. CASE AsksForLine(t) /\ Stored[Own][LineOf(t)] # <<>>
  <2>1. streams'[t] = streams[t] /\ pc'[t] # "crashed"
    BY <1>2 DEF AskNext, Goto, IInv, VarsType
  <2> QED
    BY <2>1, KeepsFinds
<1>3. CASE ~(AsksForLine(t) /\ Stored[Own][LineOf(t)] # <<>>)
  <2>1. \A v \in Volumes : ~Findable(t, v)
    BY <1>1, <1>3 DEF Findable, Asked, ParentVolume
  <2> QED
    BY <1>3, <2>1, StandInFinds DEF AskNext
<1> QED
  BY <1>2, <1>3

LEMMA HasResourceFinds ==
  ASSUME NEW t \in Threads, IInv, HasResource(t)
  PROVE  FindsItsStream(t)
<1>1. CASE Asked(t) \in Scanned(t)
  <2>1. streams'[t] = streams[t] /\ pc'[t] # "crashed"
    BY <1>1 DEF HasResource, Goto, IInv, VarsType
  <2> QED
    BY <2>1, KeepsFinds
<1>2. CASE Asked(t) \notin Scanned(t)
  <2>1. Asked(t) \notin present /\ pc[t] \in Lookups
    BY <1>2 DEF Scanned, HasResource, Lookups
  <2> QED
    BY <1>2, <2>1, AskNextFinds DEF HasResource
<1> QED
  BY <1>1, <1>2

LEMMA OpenFinds ==
  ASSUME NEW t \in Threads, IInv, Open(t)
  PROVE  FindsItsStream(t)
<1>1. CASE AsksForLine(t)
  BY <1>1, AskNextFinds DEF Open, Lookups
<1>2. CASE ~AsksForLine(t)
  <2>1. streams'[t] = streams[t] /\ pc'[t] # "crashed"
    BY <1>2 DEF Open, Goto, IInv, VarsType
  <2> QED
    BY <2>1, KeepsFinds
<1> QED
  BY <1>1, <1>2

\* Null comes back for a volume that is not there, or damaged.
LEMMA OpenNullFinds ==
  ASSUME NEW t \in Threads, IInv, OpenNull(t)
  PROVE  FindsItsStream(t)
<1>1. Asked(t) \notin stayed[t] \ Truncated
  BY DEF OpenNull, IInv
<1>2. streams'[t] = streams[t] /\ streams[t] \in Seq(StreamType)
  BY DEF OpenNull, streamVars, IInv, VarsType
<1>3. ~(Len(streams'[t]) > Len(streams[t]))
  BY <1>2
<1> QED
  BY <1>1, <1>3 DEF FindsItsStream

LEMMA FindChildFinds ==
  ASSUME NEW t \in Threads, IInv, FindChild(t)
  PROVE  FindsItsStream(t)
<1>1. ~HasImageStream(Own, LineOf(t)) /\ ParentVolume(t) \in Volumes
  BY LookupFacts DEF FindChild, Lookups
<1> DEFINE found == OpenIn(ParentVolume(t), LineOf(t))
<1>2. CASE found \in {"stream", "segment"}
  <2> DEFINE s == Stream(KindOf(found), ParentVolume(t), Len(externalContainers[t]))
  <2>1. externalContainers[t] \in Seq(Volumes)
    BY DEF IInv, VarsType
  <2>2. s \in StreamType
    BY <1>1, <1>2, <2>1, StreamTypes DEF KindOf
  <2>3. \/ s.kind = "image" /\ HasImageStream(s.volume, LineOf(t))
        \/ /\ s.kind = "segment" /\ LineOf(t) \in Segments[s.volume]
           /\ ~HasImageStream(s.volume, LineOf(t))
    BY <1>2, OpenInStream DEF Stream, KindOf
  <2>4. pc'[t] # "crashed"
    BY <1>2 DEF FindChild, NextLine, Goto, IInv, VarsType
  <2>5. Put(t, s)
    BY <1>2 DEF FindChild
  <2> QED
    BY <2>2, <2>3, <2>4, <2>5, PutFinds
<1>3. CASE found \notin {"stream", "segment"}
  <2>1. \A v \in Volumes : ~Findable(t, v)
    BY <1>1, <1>3, OpenInStream DEF Findable, ParentVolume
  <2> QED
    BY <1>3, <2>1, StandInFinds DEF FindChild
<1> QED
  BY <1>2, <1>3

\* Steps that put no stream.
LEMMA QuietFinds ==
  ASSUME NEW t \in Threads, IInv,
         \/ \E i \in Resources, o \in BOOLEAN : GetStream(t, i, o)
         \/ QueryResolver(t) \/ FinishMap(t) \/ Close(t) \/ ClearExternals(t)
  PROVE  FindsItsStream(t)
<1>1. streams'[t] \in {streams[t], <<>>}
  BY DEF GetStream, QueryResolver, FinishMap, Close, ClearExternals, ClearedFirst, streamVars,
         IInv, VarsType
<1>2. pc'[t] # "crashed"
  BY DEF GetStream, QueryResolver, FinishMap, Close, ClearExternals, Goto, IInv, VarsType
<1> QED
  BY <1>1, <1>2, KeepsFinds

\* What a step of t leaves of the others.
LEMMA StepElsewhere ==
  ASSUME NEW t \in Threads, IInv, Step(t), NEW u \in Threads, u # t
  PROVE  streams'[u] = streams[u] /\ pc'[u] = pc[u]
<1> USE DEF Goto, Put, NextLine, StandIn, AskNext, streamVars, IInv, VarsType
<1>1. ASSUME NEW i \in Resources, NEW o \in BOOLEAN, GetStream(t, i, o)
      PROVE  streams'[u] = streams[u] /\ pc'[u] = pc[u]
  BY <1>1 DEF GetStream
<1>2. CASE PutLocal(t) \/ QueryResolver(t) \/ NoResolver(t)
  BY <1>2 DEF PutLocal, QueryResolver, NoResolver
<1>3. CASE HasResource(t) \/ Open(t) \/ OpenNull(t)
  BY <1>3 DEF HasResource, Open, OpenNull
<1>4. CASE FindChild(t)
  BY <1>4 DEF FindChild
<1>5. CASE FinishMap(t) \/ Close(t) \/ ClearExternals(t)
  BY <1>5 DEF FinishMap, Close, ClearExternals, ClearedFirst
<1> QED
  BY <1>1, <1>2, <1>3, <1>4, <1>5 DEF Step

LEMMA StepFinds ==
  ASSUME IInv, Next, NEW u \in Threads
  PROVE  FindsItsStream(u)
<1>1. ASSUME NEW t \in Threads, Step(t) PROVE FindsItsStream(u)
  <2>1. CASE u = t
    BY <1>1, <2>1, QuietFinds, PutLocalFinds, NoResolverFinds, HasResourceFinds, OpenFinds,
       OpenNullFinds, FindChildFinds DEF Step
  <2>2. CASE u # t
    BY <1>1, <2>2, StepElsewhere, KeepsFinds DEF Next
  <2> QED
    BY <2>1, <2>2
<1>2. ASSUME NEW v \in Movable, Arrive(v) \/ Leave(v) PROVE FindsItsStream(u)
  BY <1>2, KeepsFinds DEF Arrive, Leave, Next, streamVars
<1> QED
  BY <1>1, <1>2 DEF Next

(* A line becomes the stream it names, from a volume that has it as an     *)
(* image stream or, failing that, as a plain segment, or else a stand-in   *)
(* when that was not to be found, for any number of lookups that share the *)
(* resolver and whichever files come and go; null comes from the resolver  *)
(* only when the volume was not there all the time or is damaged.          *)
THEOREM FindsStreams == Spec => FindsItsStreams
<1>1. IInv /\ [Next]_vars => [\A t \in Threads : FindsItsStream(t)]_vars
  BY StepFinds
<1> QED
  BY <1>1, IndInv, PTL DEF Spec, FindsItsStreams
=============================================================================
