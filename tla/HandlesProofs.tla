--------------------------- MODULE HandlesProofs ---------------------------
(***************************************************************************)
(* Proofs about Handles: that descriptors are those of open zips, and that *)
(* the libraries are a table of handles, for any number of threads, files, *)
(* descriptors and handles.                                                *)
(***************************************************************************)
EXTENDS Handles, TLAPS

VarsType ==
    /\ api \in {"c", "iio"}
    /\ files \in [Descriptors -> Files \cup {NoFile}]
    /\ zips \in [Images -> Seq(Zip)]
    /\ handles \in [DOMAIN handles -> Images]
    /\ DOMAIN handles \subseteq Handle
    /\ nextHandle \in 1 .. MaxHandle + 1
    /\ apiLock \in Threads \cup {NoThread}
    /\ pc \in [Threads -> {"idle", "opening", "working", "closing"}]
    /\ arg \in [Threads -> Files \cup Handle \cup {NoFile}]
    /\ held \in [Threads -> Images \cup {NoImage}]
    /\ got \in [Threads -> Seq(Files)]
    /\ given \subseteq Handle
    /\ asked \in [Threads -> [handle : Handle, file : Files \cup {NoFile}] \cup {Nothing}]
    /\ reply \in [Threads -> Seq(Files) \cup {NoReply, Failed}]

\* Image i has a zip for each of the first n parts of file f.
Opened(i, f, n) ==
    /\ Len(zips[i]) = n
    /\ \A k \in 1 .. n : zips[i][k].file = Parts[f][k]

TableWhole ==
    \A h \in DOMAIN handles :
        /\ zips[handles[h]] # <<>>
        /\ Opened(handles[h], zips[handles[h]][1].file, Len(Parts[zips[handles[h]][1].file]))

LockHeld == \A t \in Threads : pc[t] \in {"opening", "closing"} => apiLock = t

\* An image that is being opened is nobody else's, and there is a handle for it.
OpeningInv ==
    \A t \in Threads : pc[t] = "opening" =>
        /\ arg[t] \in Files /\ held[t] \in Images \ Range(handles)
        /\ Len(zips[held[t]]) \in 1 .. Len(Parts[arg[t]])
        /\ Opened(held[t], arg[t], Len(zips[held[t]]))
        /\ nextHandle <= MaxHandle

\* DescriptorsAreOurs, zip by zip.
IsOpen(i, n) == i \in Images /\ n \in DOMAIN zips[i] /\ ~zips[i][n].closed

OpenRead ==
    \A i \in Images, n \in Nat : IsOpen(i, n) => files[zips[i][n].fd] = zips[i][n].file

OpenDiffer ==
    \A i, j \in Images, n, m \in Nat :
        IsOpen(i, n) /\ IsOpen(j, m) /\ zips[i][n].fd = zips[j][m].fd => i = j /\ n = m

NoneLeak ==
    \A d \in Descriptors :
        files[d] # NoFile => \E i \in Images, n \in Nat : IsOpen(i, n) /\ zips[i][n].fd = d

OwnInv == OpenRead /\ OpenDiffer /\ NoneLeak

IInv == VarsType /\ TableWhole /\ LockHeld /\ OpeningInv /\ OwnInv

-----------------------------------------------------------------------------
(* Descriptors.                                                            *)

\* The zips by pairs, as the property has them, and by image and number.
LEMMA OwnMeans ==
  ASSUME VarsType, OwnInv
  PROVE  DescriptorsAreOurs
<1>1. ASSUME NEW p
      PROVE  p \in OpenZips <=> \E i \in Images, n \in Nat : IsOpen(i, n) /\ p = <<i, n>>
  BY DEF OpenZips, IsOpen, VarsType
<1>2. \A p \in OpenZips : \E i \in Images, n \in Nat :
        IsOpen(i, n) /\ p = <<i, n>> /\ ZipAt(p) = zips[i][n]
  BY <1>1 DEF ZipAt
<1>3. \A i \in Images, n \in Nat : IsOpen(i, n) => <<i, n>> \in OpenZips
  BY <1>1
<1>4. \A p \in OpenZips : files[ZipAt(p).fd] = ZipAt(p).file
  BY <1>2 DEF OwnInv, OpenRead
<1>5. \A p, q \in OpenZips : ZipAt(p).fd = ZipAt(q).fd => p = q
  BY <1>2 DEF OwnInv, OpenDiffer
<1>6. ASSUME NEW d \in Descriptors, files[d] # NoFile
      PROVE  \E p \in OpenZips : ZipAt(p).fd = d
  <2>1. PICK i \in Images, n \in Nat : IsOpen(i, n) /\ zips[i][n].fd = d
    BY <1>6 DEF OwnInv, NoneLeak
  <2>2. <<i, n>> \in OpenZips /\ ZipAt(<<i, n>>).fd = d
    BY <1>3, <2>1 DEF ZipAt
  <2> QED
    BY <2>2
<1> QED
  BY <1>4, <1>5, <1>6 DEF DescriptorsAreOurs

\* A zip that is opened gets a descriptor nobody has.
LEMMA OpenZipTypes ==
  ASSUME VarsType, NEW i \in Images, NEW f \in Files, OpenZip(i, f)
  PROVE  /\ files' \in [Descriptors -> Files \cup {NoFile}]
         /\ zips' \in [Images -> Seq(Zip)]
         /\ \A j \in Images \ {i} : zips'[j] = zips[j]
         /\ Len(zips'[i]) = Len(zips[i]) + 1
         /\ \A n \in 1 .. Len(zips[i]) : zips'[i][n] = zips[i][n]
         /\ zips'[i][Len(zips[i]) + 1].file = f
<1>1. PICK d \in Descriptors :
        /\ files' = [files EXCEPT ![d] = f]
        /\ zips' = [zips EXCEPT ![i] = Append(@, [fd |-> d, file |-> f, closed |-> FALSE])]
  BY DEF OpenZip, Free
<1> DEFINE z == [fd |-> d, file |-> f, closed |-> FALSE]
<1>2. z \in Zip /\ zips[i] \in Seq(Zip) /\ z.file = f
  BY DEF VarsType, Zip
<1> HIDE DEF z
<1>3. zips'[i] = Append(zips[i], z) /\ \A j \in Images \ {i} : zips'[j] = zips[j]
  BY <1>1 DEF VarsType, z
<1>4. Append(zips[i], z) \in Seq(Zip)
  BY <1>2
<1>5. zips' \in [Images -> Seq(Zip)]
  BY <1>1, <1>4 DEF VarsType, z
<1>6. files' \in [Descriptors -> Files \cup {NoFile}]
  BY <1>1 DEF VarsType
<1> QED
  BY <1>2, <1>3, <1>5, <1>6

LEMMA OpenZipOwn ==
  ASSUME VarsType, OwnInv, NEW i \in Images, NEW f \in Files, OpenZip(i, f)
  PROVE  OwnInv'
<1>1. PICK d \in Descriptors :
        /\ files[d] = NoFile
        /\ files' = [files EXCEPT ![d] = f]
        /\ zips' = [zips EXCEPT ![i] = Append(@, [fd |-> d, file |-> f, closed |-> FALSE])]
  BY DEF OpenZip, Free
<1> DEFINE k == Len(zips[i]) + 1
<1>2. k \in Nat /\ zips[i] \in Seq(Zip)
  BY DEF VarsType
<1>3. ASSUME NEW j \in Images, NEW n \in Nat
      PROVE  IsOpen(j, n)' <=> IsOpen(j, n) \/ (j = i /\ n = k)
  <2>1. CASE j = i
    <3>1. zips'[i] = Append(zips[i], [fd |-> d, file |-> f, closed |-> FALSE])
      BY <1>1 DEF VarsType
    <3> QED
      BY <2>1, <3>1, <1>2 DEF IsOpen
  <2>2. CASE j # i
    BY <2>2, <1>1 DEF IsOpen, VarsType
  <2> QED
    BY <2>1, <2>2
<1>4. ASSUME NEW j \in Images, NEW n \in Nat, IsOpen(j, n)
      PROVE  /\ zips'[j][n] = zips[j][n] /\ zips[j][n] \in Zip
             /\ zips[j][n].fd \in Descriptors \ {d} /\ zips[j][n].file \in Files
  <2>1. zips[j] \in Seq(Zip) /\ n \in DOMAIN zips[j]
    BY <1>4 DEF VarsType, IsOpen
  <2>2. zips[j][n] \in Zip
    BY <2>1
  <2>3. zips'[j][n] = zips[j][n]
    BY OpenZipTypes, <2>1, SMTT(30)
  <2>4. zips[j][n].fd \in Descriptors /\ zips[j][n].file \in Files
    BY <2>2 DEF Zip
  <2>5. files[zips[j][n].fd] = zips[j][n].file
    BY <1>4 DEF OwnInv, OpenRead
  <2> QED
    BY <2>2, <2>3, <2>4, <2>5, <1>1, SentinelsAssumption
<1>5. zips'[i][k] = [fd |-> d, file |-> f, closed |-> FALSE]
  BY <1>1, <1>2 DEF VarsType
<1>6. OpenRead'
  <2> SUFFICES ASSUME NEW j \in Images, NEW n \in Nat, IsOpen(j, n)'
               PROVE  files'[zips'[j][n].fd] = zips'[j][n].file
    BY DEF OpenRead
  <2>1. CASE IsOpen(j, n)
    <3>1. zips'[j][n] = zips[j][n] /\ zips[j][n].fd \in Descriptors \ {d}
      BY <2>1, <1>4
    <3>2. files[zips[j][n].fd] = zips[j][n].file
      BY <2>1 DEF OpenRead, OwnInv
    <3>3. files'[zips[j][n].fd] = files[zips[j][n].fd]
      BY <3>1, <1>1 DEF VarsType
    <3> QED
      BY <3>1, <3>2, <3>3
  <2>2. CASE j = i /\ n = k
    BY <2>2, <1>1, <1>5 DEF VarsType
  <2> QED
    BY <2>1, <2>2, <1>3
<1>7. OpenDiffer'
  BY <1>3, <1>4, <1>5 DEF OpenDiffer, OwnInv
<1>8. NoneLeak'
  <2> SUFFICES ASSUME NEW e \in Descriptors, files'[e] # NoFile
               PROVE  \E j \in Images, n \in Nat : IsOpen(j, n)' /\ zips'[j][n].fd = e
    BY DEF NoneLeak
  <2>1. CASE e = d
    BY <2>1, <1>2, <1>3, <1>5
  <2>2. CASE e # d
    <3>1. PICK j \in Images, n \in Nat : IsOpen(j, n) /\ zips[j][n].fd = e
      BY <2>2, <1>1 DEF VarsType, OwnInv, NoneLeak
    <3> QED
      BY <3>1, <1>3, <1>4
  <2> QED
    BY <2>1, <2>2
<1> QED
  BY <1>6, <1>7, <1>8 DEF OwnInv

\* The images that die give back what they have, the others keep it.
LEMMA AssignTypes ==
  ASSUME VarsType, NEW table, NEW calls, Assign(table, calls)
  PROVE  /\ files' \in [Descriptors -> Files \cup {NoFile}]
         /\ zips' \in [Images -> Seq(Zip)]
         /\ \A i \in Images : zips'[i] = zips[i] \/ zips'[i] = <<>>
         /\ \A i \in Images \cap Living(table, calls) : zips'[i] = zips[i]
<1>1. <<>> \in Seq(Zip)
  OBVIOUS
<1> QED
  BY <1>1 DEF VarsType, Assign

LEMMA AssignOwn ==
  ASSUME VarsType, OwnInv, NEW table, NEW calls, Assign(table, calls)
  PROVE  OwnInv'
<1> DEFINE dead == {i \in Images : zips[i] # <<>> /\ i \notin Living(table, calls)}
           closing == UNION {ClosedNow(zips[i]) : i \in dead}
<1>1. /\ zips' = [i \in Images |-> IF i \in dead THEN <<>> ELSE zips[i]]
      /\ files' = [d \in Descriptors |-> IF d \in closing THEN NoFile ELSE files[d]]
  BY DEF Assign
<1>2. ASSUME NEW d \in Descriptors
      PROVE  d \in closing <=> \E i \in dead, n \in Nat : IsOpen(i, n) /\ zips[i][n].fd = d
  <2>1. ASSUME NEW i \in Images
        PROVE  d \in ClosedNow(zips[i]) <=> \E n \in Nat : IsOpen(i, n) /\ zips[i][n].fd = d
    <3>1. DOMAIN zips[i] \subseteq Nat
      BY DEF VarsType
    <3> QED
      BY <3>1 DEF ClosedNow, IsOpen
  <2> QED
    BY <2>1
<1> HIDE DEF dead, closing
<1>3. ASSUME NEW i \in Images, NEW n \in Nat
      PROVE  IsOpen(i, n)' <=> IsOpen(i, n) /\ i \notin dead
  BY <1>1 DEF IsOpen
<1>4. ASSUME NEW i \in Images, NEW n \in Nat, IsOpen(i, n)'
      PROVE  /\ zips'[i] = zips[i] /\ IsOpen(i, n) /\ zips[i][n].fd \in Descriptors
             /\ zips[i][n].fd \notin closing
  <2>1. IsOpen(i, n) /\ i \notin dead /\ zips'[i] = zips[i]
    BY <1>1, <1>3, <1>4
  <2>2. zips[i][n].fd \in Descriptors
    <3>1. zips[i] \in Seq(Zip) /\ n \in DOMAIN zips[i]
      BY <2>1 DEF IsOpen, VarsType
    <3>2. zips[i][n] \in Zip
      BY <3>1
    <3> QED
      BY <3>2 DEF Zip
  <2>3. zips[i][n].fd \notin closing
    BY <2>1, <2>2, <1>2 DEF OwnInv, OpenDiffer, dead
  <2> QED
    BY <2>1, <2>2, <2>3
<1>5. OpenRead'
  BY <1>1, <1>4 DEF OpenRead, OwnInv
<1>6. OpenDiffer'
  BY <1>4 DEF OpenDiffer, OwnInv
<1>7. NoneLeak'
  <2> SUFFICES ASSUME NEW d \in Descriptors, files'[d] # NoFile
               PROVE  \E i \in Images, n \in Nat : IsOpen(i, n)' /\ zips'[i][n].fd = d
    BY DEF NoneLeak
  <2>1. d \notin closing /\ files[d] # NoFile
    BY <1>1
  <2>2. PICK i \in Images, n \in Nat : IsOpen(i, n) /\ zips[i][n].fd = d
    BY <2>1 DEF OwnInv, NoneLeak
  <2>3. i \notin dead
    BY <2>1, <2>2, <1>2
  <2> QED
    BY <2>2, <2>3, <1>1, <1>3
<1> QED
  BY <1>5, <1>6, <1>7 DEF OwnInv

\* close() on the container of an image closes its first zip.
LEMMA CloseOwn ==
  ASSUME VarsType, OwnInv, NEW i \in Images, zips[i] # <<>>,
         zips' = [zips EXCEPT ![i][1].closed = TRUE],
         files' = [d \in Descriptors |-> IF d \in ClosedNow(<<zips[i][1]>>) THEN NoFile ELSE files[d]]
  PROVE  OwnInv' /\ zips' \in [Images -> Seq(Zip)]
                 /\ files' \in [Descriptors -> Files \cup {NoFile}]
<1>1. zips[i] \in Seq(Zip) /\ 1 \in DOMAIN zips[i]
  BY DEF VarsType
<1>2. zips[i][1] \in Zip
  BY <1>1
<1> DEFINE z == [zips[i][1] EXCEPT !.closed = TRUE]
<1>3. z \in Zip /\ z.closed
  BY <1>2 DEF Zip
<1> HIDE DEF z
<1>4. zips' = [zips EXCEPT ![i] = [zips[i] EXCEPT ![1] = z]]
  BY <1>1 DEF VarsType, z
<1>5. [zips[i] EXCEPT ![1] = z] \in Seq(Zip)
  BY <1>1, <1>3
<1>6. zips' \in [Images -> Seq(Zip)]
  BY <1>4, <1>5 DEF VarsType
<1>7. files' \in [Descriptors -> Files \cup {NoFile}]
  BY DEF VarsType
<1>8. ASSUME NEW j \in Images, NEW n \in Nat
      PROVE  IsOpen(j, n)' <=> IsOpen(j, n) /\ <<j, n>> # <<i, 1>>
  BY <1>1, <1>3, <1>4, <1>5 DEF IsOpen, VarsType
<1>9. ASSUME NEW j \in Images, NEW n \in Nat, IsOpen(j, n)'
      PROVE  zips'[j][n] = zips[j][n] /\ zips[j][n].fd \in Descriptors
             /\ files'[zips[j][n].fd] = files[zips[j][n].fd]
  <2>1. IsOpen(j, n) /\ <<j, n>> # <<i, 1>>
    BY <1>8, <1>9
  <2>2. zips'[j][n] = zips[j][n]
    BY <2>1, <1>1, <1>4 DEF IsOpen, VarsType
  <2>3. zips[j][n].fd \in Descriptors
    <3>1. zips[j] \in Seq(Zip) /\ n \in DOMAIN zips[j]
      BY <2>1 DEF IsOpen, VarsType
    <3>2. zips[j][n] \in Zip
      BY <3>1
    <3> QED
      BY <3>2 DEF Zip
  <2>4. zips[j][n].fd \notin ClosedNow(<<zips[i][1]>>)
    <3>1. ClosedNow(<<zips[i][1]>>) = IF zips[i][1].closed THEN {} ELSE {zips[i][1].fd}
      BY <1>2 DEF ClosedNow
    <3>2. CASE ~zips[i][1].closed
      <4>1. IsOpen(i, 1)
        BY <3>2, <1>1 DEF IsOpen
      <4>2. zips[j][n].fd # zips[i][1].fd
        BY <4>1, <2>1 DEF OwnInv, OpenDiffer
      <4> QED
        BY <4>2, <3>1
    <3> QED
      BY <3>1, <3>2
  <2> QED
    BY <2>2, <2>3, <2>4
<1>10. OpenRead'
  BY <1>8, <1>9 DEF OpenRead, OwnInv
<1>11. OpenDiffer'
  BY <1>8, <1>9 DEF OpenDiffer, OwnInv
<1>12. NoneLeak'
  <2> SUFFICES ASSUME NEW d \in Descriptors, files'[d] # NoFile
               PROVE  \E j \in Images, n \in Nat : IsOpen(j, n)' /\ zips'[j][n].fd = d
    BY DEF NoneLeak
  <2>1. d \notin ClosedNow(<<zips[i][1]>>) /\ files[d] # NoFile
    OBVIOUS
  <2>2. PICK j \in Images, n \in Nat : IsOpen(j, n) /\ zips[j][n].fd = d
    BY <2>1 DEF OwnInv, NoneLeak
  <2>3. <<j, n>> # <<i, 1>>
    BY <2>1, <2>2 DEF ClosedNow, IsOpen
  <2> QED
    BY <2>2, <2>3, <1>8, <1>9
<1> QED
  BY <1>6, <1>7, <1>10, <1>11, <1>12 DEF OwnInv

-----------------------------------------------------------------------------
(* The inductive invariant.                                                *)

LEMMA InvImplies == IInv => TypeOK /\ DescriptorsAreOurs
<1> SUFFICES ASSUME IInv
             PROVE  TypeOK /\ DescriptorsAreOurs
  OBVIOUS
<1>1. ASSUME NEW h \in DOMAIN handles
      PROVE  LET z == zips[handles[h]]
             IN  z # <<>> /\ [n \in DOMAIN z |-> z[n].file] = Parts[z[1].file]
  <2> DEFINE z == zips[handles[h]]
             f == z[1].file
  <2>1. z \in Seq(Zip) /\ z # <<>>
    BY DEF IInv, VarsType, TableWhole
  <2>2. z[1] \in Zip
    BY <2>1
  <2>3. f \in Files
    BY <2>2 DEF Zip
  <2>4. Parts[f] \in Seq(Files)
    BY <2>3, FilesAssumption
  <2>5. Len(z) = Len(Parts[f]) /\ \A k \in 1 .. Len(z) : z[k].file = Parts[f][k]
    BY DEF IInv, TableWhole, Opened
  <2> HIDE DEF z, f
  <2>6. [n \in DOMAIN z |-> z[n].file] = Parts[f]
    BY <2>1, <2>4, <2>5
  <2> QED
    BY <2>1, <2>6 DEF z, f
<1> QED
  BY <1>1, OwnMeans DEF IInv, VarsType, TypeOK

LEMMA InitInv == Init => IInv
<1> SUFFICES ASSUME Init
             PROVE  IInv
  OBVIOUS
<1>1. VarsType
  BY BoundAssumption DEF Init, VarsType, Handle
<1>2. TableWhole /\ LockHeld /\ OpeningInv
  BY DEF Init, TableWhole, LockHeld, OpeningInv
<1>3. OwnInv
  BY DEF Init, OwnInv, OpenRead, OpenDiffer, NoneLeak, IsOpen
<1> QED
  BY <1>1, <1>2, <1>3 DEF IInv

\* A new table of images that are whole is a table of whole images.
LEMMA AssignTable ==
  ASSUME VarsType, NEW table, NEW calls, Assign(table, calls),
         table \in [DOMAIN table -> Images],
         \A h \in DOMAIN table :
            /\ zips[table[h]] # <<>>
            /\ Opened(table[h], zips[table[h]][1].file, Len(Parts[zips[table[h]][1].file]))
  PROVE  TableWhole' /\ handles' = table /\ held' = calls
<1>1. handles' = table /\ held' = calls
  BY DEF Assign
<1>2. \A h \in DOMAIN table : zips'[table[h]] = zips[table[h]]
  BY AssignTypes DEF Living, Range
<1> QED
  BY <1>1, <1>2 DEF TableWhole, Opened

\* At most the thread with the lock opens.
LEMMA OneOpens ==
  ASSUME LockHeld, NEW t \in Threads, NEW u \in Threads, pc[u] = "opening",
         apiLock \in {t, NoThread}
  PROVE  u = t
  BY SentinelsAssumption DEF LockHeld

LEMMA OpenContainerInv ==
  ASSUME IInv, NEW t \in Threads, NEW f \in Files, OpenContainer(t, f)
  PROVE  IInv'
<1> DEFINE i == NewImage
<1>1. VarsType /\ OwnInv /\ apiLock = NoThread /\ OpenZip(i, f)
  BY DEF IInv, OpenContainer, MayCall
<1>2. i \in Images /\ zips[i] = <<>> /\ Len(zips[i]) + 1 = 1
  BY DEF OpenContainer, NewImage, Unused
<1> HIDE DEF i
<1>3. /\ files' \in [Descriptors -> Files \cup {NoFile}]
      /\ zips' \in [Images -> Seq(Zip)]
      /\ \A j \in Images \ {i} : zips'[j] = zips[j]
      /\ Len(zips'[i]) = 1 /\ zips'[i][1].file = f
  BY <1>1, <1>2, OpenZipTypes, ZenonT(30)
<1>4. /\ held' = [held EXCEPT ![t] = i] /\ arg' = [arg EXCEPT ![t] = f]
      /\ pc' = [pc EXCEPT ![t] = "opening"] /\ apiLock' = t
      /\ UNCHANGED <<api, handles, nextHandle, given, readVars>>
      /\ nextHandle <= MaxHandle
  BY DEF OpenContainer, Goto, i
<1>5. VarsType'
  BY <1>1, <1>2, <1>3, <1>4 DEF VarsType, readVars
<1>6. i \notin Range(handles)
  BY <1>2 DEF IInv, TableWhole, Range
<1>7. TableWhole'
  BY <1>1, <1>3, <1>4, <1>6 DEF IInv, TableWhole, Opened, Range, VarsType
<1>8. LockHeld'
  BY <1>1, <1>4, SentinelsAssumption DEF IInv, LockHeld, VarsType
<1>9. OpeningInv'
  <2> SUFFICES ASSUME NEW u \in Threads, pc'[u] = "opening"
               PROVE  /\ arg'[u] \in Files /\ held'[u] \in Images \ Range(handles')
                      /\ Len(zips'[held'[u]]) \in 1 .. Len(Parts[arg'[u]])
                      /\ Opened(held[u], arg[u], Len(zips[held[u]]))'
                      /\ nextHandle' <= MaxHandle
    BY DEF OpeningInv
  <2>1. u = t
    BY <1>1, <1>4, OneOpens DEF IInv, VarsType
  <2>2. arg'[u] = f /\ held'[u] = i
    BY <2>1, <1>1, <1>4 DEF VarsType
  <2>3. 1 \in 1 .. Len(Parts[f]) /\ Parts[f][1] = f
    <3>1. Parts[f] \in Seq(Files) /\ Parts[f] # <<>>
      BY FilesAssumption
    <3> QED
      BY <3>1, FilesAssumption
  <2>4. Opened(held[u], arg[u], Len(zips[held[u]]))'
    BY <2>2, <2>3, <1>3 DEF Opened
  <2> QED
    BY <2>2, <2>3, <2>4, <1>2, <1>3, <1>4, <1>6
<1>10. OwnInv'
  BY <1>1, <1>2, OpenZipOwn
<1> QED
  BY <1>5, <1>7, <1>8, <1>9, <1>10 DEF IInv

LEMMA OpenPartInv ==
  ASSUME IInv, NEW t \in Threads, OpenPart(t)
  PROVE  IInv'
<1> DEFINE i == held[t]
           f == arg[t]
           n == Len(zips[i])
<1>1. /\ VarsType /\ OwnInv /\ pc[t] = "opening" /\ apiLock = t
      /\ OpenZip(i, Parts[f][n + 1]) /\ n < Len(Parts[f])
      /\ UNCHANGED <<api, handles, nextHandle, callVars, given, readVars>>
  BY DEF IInv, OpenPart, LockHeld
<1>2. /\ f \in Files /\ i \in Images /\ i \notin Range(handles)
      /\ Opened(i, f, n) /\ n \in 1 .. Len(Parts[f]) /\ nextHandle <= MaxHandle
  BY <1>1 DEF IInv, OpeningInv
<1> HIDE DEF i, f, n
<1>3. Parts[f] \in Seq(Files) /\ n + 1 \in 1 .. Len(Parts[f])
  BY <1>1, <1>2, FilesAssumption
<1>4. Parts[f][n + 1] \in Files
  BY <1>3
<1>5. /\ files' \in [Descriptors -> Files \cup {NoFile}]
      /\ zips' \in [Images -> Seq(Zip)]
      /\ \A j \in Images \ {i} : zips'[j] = zips[j]
      /\ Len(zips'[i]) = n + 1
      /\ \A k \in 1 .. n : zips'[i][k] = zips[i][k]
      /\ zips'[i][n + 1].file = Parts[f][n + 1]
  BY <1>1, <1>2, <1>4, OpenZipTypes DEF n
<1>6. VarsType'
  BY <1>1, <1>5 DEF VarsType, callVars, readVars
<1>7. TableWhole'
  BY <1>1, <1>2, <1>5 DEF IInv, TableWhole, Opened, Range, VarsType
<1>8. LockHeld'
  BY <1>1 DEF IInv, LockHeld, callVars
<1>9. OpeningInv'
  <2> SUFFICES ASSUME NEW u \in Threads, pc'[u] = "opening"
               PROVE  /\ arg'[u] \in Files /\ held'[u] \in Images \ Range(handles')
                      /\ Len(zips'[held'[u]]) \in 1 .. Len(Parts[arg'[u]])
                      /\ Opened(held[u], arg[u], Len(zips[held[u]]))'
                      /\ nextHandle' <= MaxHandle
    BY DEF OpeningInv
  <2>1. u = t
    BY <1>1, OneOpens DEF IInv, callVars
  <2>2. arg'[u] = f /\ held'[u] = i
    BY <2>1, <1>1 DEF callVars, f, i
  <2>3. \A k \in 1 .. n + 1 : zips'[i][k].file = Parts[f][k]
    <3> SUFFICES ASSUME NEW k \in 1 .. n + 1
                 PROVE  zips'[i][k].file = Parts[f][k]
      OBVIOUS
    <3>1. k \in 1 .. n \/ k = n + 1
      BY <1>2
    <3> QED
      BY <3>1, <1>2, <1>5 DEF Opened
  <2>4. Opened(held[u], arg[u], Len(zips[held[u]]))'
    BY <2>2, <2>3, <1>5 DEF Opened
  <2> QED
    BY <2>2, <2>4, <1>1, <1>2, <1>3, <1>5
<1>10. OwnInv'
  BY <1>1, <1>2, <1>4, OpenZipOwn
<1> QED
  BY <1>6, <1>7, <1>8, <1>9, <1>10 DEF IInv

LEMMA StoreImageInv ==
  ASSUME IInv, NEW t \in Threads, StoreImage(t)
  PROVE  IInv'
<1> DEFINE i == held[t]
           h == NewHandle
           table == [k \in DOMAIN handles \cup {h} |-> IF k = h THEN i ELSE handles[k]]
<1>1. /\ VarsType /\ OwnInv /\ pc[t] = "opening" /\ apiLock = t
      /\ Assign(table, Dropped(t)) /\ Len(zips[i]) = Len(Parts[arg[t]])
      /\ nextHandle' = nextHandle + 1 /\ given' = given \cup {h}
      /\ apiLock' = NoThread /\ pc' = [pc EXCEPT ![t] = "idle"] /\ arg' = [arg EXCEPT ![t] = NoFile]
      /\ UNCHANGED <<api, readVars>>
  BY DEF IInv, StoreImage, LockHeld, AllOpened, GiveOut, UnlockWith, Goto
<1>2. /\ arg[t] \in Files /\ i \in Images
      /\ Opened(i, arg[t], Len(zips[i])) /\ zips[i] # <<>> /\ h \in Handle
  BY <1>1, BoundAssumption DEF IInv, OpeningInv, VarsType, NewHandle, Handle
<1>3. zips[i][1].file = arg[t] /\ Len(zips[i]) = Len(Parts[zips[i][1].file])
  <2>1. 1 \in 1 .. Len(zips[i])
    BY <1>1, <1>2 DEF VarsType
  <2> QED
    BY <2>1, <1>1, <1>2, FilesAssumption DEF Opened
<1> HIDE DEF i, h
<1>4. table \in [DOMAIN table -> Images] /\ DOMAIN table \subseteq Handle
  BY <1>1, <1>2 DEF VarsType
<1>5. \A k \in DOMAIN table :
        /\ zips[table[k]] # <<>>
        /\ Opened(table[k], zips[table[k]][1].file, Len(Parts[zips[table[k]][1].file]))
  BY <1>2, <1>3 DEF IInv, TableWhole
<1> HIDE DEF table
<1>6. TableWhole' /\ handles' = table /\ held' = [held EXCEPT ![t] = NoImage]
  BY <1>1, <1>4, <1>5, AssignTable DEF Dropped
<1>7. VarsType'
  BY <1>1, <1>2, <1>4, <1>6, AssignTypes, BoundAssumption, SMTT(30) DEF VarsType, readVars, Handle, h, NewHandle
<1>8. LockHeld' /\ OpeningInv'
  BY <1>1, OneOpens, SentinelsAssumption DEF IInv, LockHeld, OpeningInv, VarsType
<1>9. OwnInv'
  BY <1>1, AssignOwn
<1> QED
  BY <1>6, <1>7, <1>8, <1>9 DEF IInv

\* The table stays as it is, and a call ends.
LEMMA KeepTable ==
  ASSUME IInv, NEW t \in Threads, Assign(handles, Dropped(t))
  PROVE  /\ TableWhole' /\ OwnInv' /\ handles' = handles /\ held' = [held EXCEPT ![t] = NoImage]
         /\ files' \in [Descriptors -> Files \cup {NoFile}] /\ zips' \in [Images -> Seq(Zip)]
         /\ \A j \in Range(handles) : zips'[j] = zips[j]
<1>1. \A h \in DOMAIN handles :
        /\ zips[handles[h]] # <<>>
        /\ Opened(handles[h], zips[handles[h]][1].file, Len(Parts[zips[handles[h]][1].file]))
  BY DEF IInv, TableWhole
<1>2. VarsType /\ handles \in [DOMAIN handles -> Images]
  BY DEF IInv, VarsType
<1>3. TableWhole' /\ handles' = handles /\ held' = [held EXCEPT ![t] = NoImage]
  BY <1>1, <1>2, AssignTable DEF Dropped
<1>4. OwnInv'
  BY AssignOwn DEF IInv
<1>5. /\ files' \in [Descriptors -> Files \cup {NoFile}] /\ zips' \in [Images -> Seq(Zip)]
      /\ \A j \in Range(handles) : zips'[j] = zips[j]
  BY <1>2, AssignTypes DEF Living, Range
<1> QED
  BY <1>3, <1>4, <1>5

LEMMA GiveUpInv ==
  ASSUME IInv, NEW t \in Threads, GiveUp(t)
  PROVE  IInv'
<1>1. /\ VarsType /\ pc[t] = "opening" /\ apiLock = t
      /\ Assign(handles, Dropped(t))
      /\ IF api = "iio" THEN GiveOut(NewHandle) ELSE UNCHANGED <<nextHandle, given>>
      /\ apiLock' = NoThread /\ pc' = [pc EXCEPT ![t] = "idle"] /\ arg' = [arg EXCEPT ![t] = NoFile]
      /\ UNCHANGED <<api, readVars>>
  BY DEF IInv, GiveUp, LockHeld, UnlockWith, Goto
<1>2. NewHandle \in Handle /\ nextHandle <= MaxHandle
  BY <1>1, BoundAssumption DEF IInv, OpeningInv, VarsType, NewHandle, Handle
<1>3. nextHandle' \in 1 .. MaxHandle + 1 /\ given' \subseteq Handle
  BY <1>1, <1>2, BoundAssumption DEF GiveOut, VarsType, Handle
<1>4. VarsType'
  BY <1>1, <1>3, KeepTable DEF VarsType, readVars
<1>5. LockHeld' /\ OpeningInv'
  BY <1>1, OneOpens, SentinelsAssumption DEF IInv, LockHeld, OpeningInv, VarsType
<1> QED
  BY <1>1, <1>4, <1>5, KeepTable DEF IInv

LEMMA FindImageInv ==
  ASSUME IInv, NEW t \in Threads, NEW h \in Handle, FindImage(t, h)
  PROVE  IInv'
<1>1. /\ VarsType /\ apiLock = NoThread
      /\ pc' = [pc EXCEPT ![t] = "working"]
      /\ held' = [held EXCEPT ![t] = IF h \in DOMAIN handles THEN handles[h] ELSE NoImage]
      /\ asked' = [asked EXCEPT ![t] = [handle |-> h, file |-> IF h \in Bound THEN BoundFile[h] ELSE NoFile]]
      /\ reply' = [reply EXCEPT ![t] = NoReply]
      /\ UNCHANGED <<api, files, zips, handles, nextHandle, apiLock, arg, got, given>>
  BY DEF IInv, FindImage, MayCall, Goto
<1>2. ASSUME h \in Bound
      PROVE  BoundFile[h] \in Files
  <2>1. zips[handles[h]] \in Seq(Zip) /\ zips[handles[h]] # <<>> /\ BoundFile[h] = zips[handles[h]][1].file
    BY <1>1, <1>2 DEF IInv, TableWhole, VarsType, Bound, BoundFile
  <2>2. zips[handles[h]][1] \in Zip
    BY <2>1
  <2> QED
    BY <2>1, <2>2 DEF Zip
<1>3. [handle |-> h, file |-> IF h \in Bound THEN BoundFile[h] ELSE NoFile]
        \in [handle : Handle, file : Files \cup {NoFile}]
  BY <1>2
<1>4. VarsType'
  BY <1>1, <1>3 DEF VarsType
<1>5. TableWhole' /\ OwnInv'
  BY <1>1 DEF IInv, TableWhole, Opened, OwnInv, OpenRead, OpenDiffer, NoneLeak, IsOpen
<1>6. LockHeld' /\ OpeningInv'
  BY <1>1, OneOpens, SentinelsAssumption DEF IInv, LockHeld, OpeningInv, VarsType
<1> QED
  BY <1>4, <1>5, <1>6 DEF IInv

LEMMA ReadPartInv ==
  ASSUME IInv, NEW t \in Threads, ReadPart(t)
  PROVE  IInv'
<1>1. /\ VarsType /\ held[t] \in Images /\ Len(got[t]) < Len(zips[held[t]])
      /\ files[NextZip(t).fd] # NoFile
      /\ got' = [got EXCEPT ![t] = Append(@, files[NextZip(t).fd])]
      /\ UNCHANGED <<api, files, zips, handles, nextHandle, callVars, given, asked, reply>>
  BY DEF IInv, ReadPart, VarsType
<1>2. NextZip(t) \in Zip
  <2>1. zips[held[t]] \in Seq(Zip) /\ Len(got[t]) + 1 \in 1 .. Len(zips[held[t]])
    BY <1>1 DEF VarsType
  <2> QED
    BY <2>1 DEF NextZip
<1>3. files[NextZip(t).fd] \in Files
  BY <1>1, <1>2 DEF VarsType, Zip
<1>4. got' \in [Threads -> Seq(Files)]
  BY <1>1, <1>3 DEF VarsType
<1>5. VarsType'
  BY <1>1, <1>4 DEF VarsType, callVars
<1> QED
  BY <1>1, <1>5 DEF IInv, TableWhole, Opened, LockHeld, OpeningInv, OwnInv, OpenRead, OpenDiffer,
                    NoneLeak, IsOpen, callVars

LEMMA ReturnInv ==
  ASSUME IInv, NEW t \in Threads, pc[t] = "working", NEW r \in Seq(Files) \cup {Failed}, Return(t, r)
  PROVE  IInv'
<1>1. /\ VarsType /\ Assign(handles, Dropped(t))
      /\ reply' = [reply EXCEPT ![t] = r]
      /\ pc' = [pc EXCEPT ![t] = "idle"]
      /\ got' = [got EXCEPT ![t] = <<>>]
      /\ asked' = [asked EXCEPT ![t] = Nothing]
      /\ UNCHANGED <<api, nextHandle, apiLock, arg, given>>
  BY DEF IInv, Return, Goto
<1>2. VarsType'
  <2>1. /\ files' \in [Descriptors -> Files \cup {NoFile}] /\ zips' \in [Images -> Seq(Zip)]
        /\ handles' = handles /\ held' = [held EXCEPT ![t] = NoImage]
    BY <1>1, KeepTable
  <2>2. got' \in [Threads -> Seq(Files)] /\ reply' \in [Threads -> Seq(Files) \cup {NoReply, Failed}]
    <3>1. <<>> \in Seq(Files)
      OBVIOUS
    <3> QED
      BY <3>1, <1>1 DEF VarsType
  <2> QED
    BY <2>1, <2>2, <1>1 DEF VarsType
<1>3. LockHeld'
  BY <1>1 DEF IInv, LockHeld, VarsType
<1>4. OpeningInv'
  <2> SUFFICES ASSUME NEW u \in Threads, pc'[u] = "opening"
               PROVE  /\ arg'[u] \in Files /\ held'[u] \in Images \ Range(handles')
                      /\ Len(zips'[held'[u]]) \in 1 .. Len(Parts[arg'[u]])
                      /\ Opened(held[u], arg[u], Len(zips[held[u]]))'
                      /\ nextHandle' <= MaxHandle
    BY DEF OpeningInv
  <2>1. u # t /\ pc[u] = "opening"
    BY <1>1 DEF VarsType
  <2>2. handles' = handles /\ held'[u] = held[u] /\ held[u] \in Images
    BY <2>1, <1>1, KeepTable DEF IInv, OpeningInv, VarsType
  <2>3. held[u] \in Living(handles, Dropped(t))
    BY <2>1, <2>2, <1>1, SentinelsAssumption DEF Living, Dropped, Range, VarsType
  <2>4. zips'[held[u]] = zips[held[u]]
    BY <2>2, <2>3, <1>1, AssignTypes
  <2> QED
    BY <2>1, <2>2, <2>4, <1>1 DEF IInv, OpeningInv, Opened
<1> QED
  BY <1>1, <1>2, <1>3, <1>4, KeepTable DEF IInv

LEMMA CloseContainerInv ==
  ASSUME IInv, NEW t \in Threads, NEW h \in Handle, CloseContainer(t, h)
  PROVE  IInv'
<1> DEFINE i == handles[h]
<1>1. /\ VarsType /\ OwnInv /\ apiLock = NoThread /\ h \in DOMAIN handles
      /\ held' = [held EXCEPT ![t] = i]
      /\ zips' = [zips EXCEPT ![i][1].closed = TRUE]
      /\ files' = [d \in Descriptors |-> IF d \in ClosedNow(<<zips[i][1]>>) THEN NoFile ELSE files[d]]
      /\ apiLock' = t /\ pc' = [pc EXCEPT ![t] = "closing"] /\ arg' = [arg EXCEPT ![t] = h]
      /\ UNCHANGED <<api, handles, nextHandle, given, readVars>>
  BY DEF IInv, CloseContainer, MayCall, Goto
<1>2. i \in Images /\ zips[i] # <<>> /\ zips[i] \in Seq(Zip)
  BY <1>1 DEF IInv, TableWhole, VarsType
<1> HIDE DEF i
<1>3. OwnInv' /\ zips' \in [Images -> Seq(Zip)] /\ files' \in [Descriptors -> Files \cup {NoFile}]
  BY <1>1, <1>2, CloseOwn
<1>4. VarsType'
  BY <1>1, <1>2, <1>3 DEF VarsType, readVars
<1>5. \A j \in Images : /\ Len(zips'[j]) = Len(zips[j])
                        /\ \A n \in 1 .. Len(zips[j]) : zips'[j][n].file = zips[j][n].file
  <2>1. zips[i][1] \in Zip
    BY <1>2
  <2>2. [zips[i][1] EXCEPT !.closed = TRUE].file = zips[i][1].file
    BY <2>1 DEF Zip
  <2>3. \A j \in Images : zips'[j] = IF j = i THEN [zips[i] EXCEPT ![1] = [zips[i][1] EXCEPT !.closed = TRUE]]
                                              ELSE zips[j]
    BY <1>1, <1>2 DEF VarsType
  <2> QED
    BY <2>2, <2>3, <1>1, <1>2 DEF VarsType
<1>6. TableWhole'
  <2> SUFFICES ASSUME NEW k \in DOMAIN handles
               PROVE  /\ zips'[handles[k]] # <<>>
                      /\ Opened(handles[k], zips[handles[k]][1].file, Len(Parts[zips[handles[k]][1].file]))'
    BY <1>1 DEF TableWhole
  <2>1. /\ handles[k] \in Images /\ zips[handles[k]] # <<>> /\ zips[handles[k]] \in Seq(Zip)
        /\ Opened(handles[k], zips[handles[k]][1].file, Len(Parts[zips[handles[k]][1].file]))
    BY <1>1 DEF IInv, TableWhole, VarsType
  <2>2. zips'[handles[k]] \in Seq(Zip) /\ Len(zips[handles[k]]) >= 1
    BY <2>1, <1>3
  <2>3. zips'[handles[k]] # <<>> /\ zips'[handles[k]][1].file = zips[handles[k]][1].file
    BY <2>1, <2>2, <1>5
  <2> QED
    BY <2>1, <2>3, <1>1, <1>5 DEF Opened
<1>7. LockHeld' /\ OpeningInv'
  BY <1>1, OneOpens, SentinelsAssumption DEF IInv, LockHeld, OpeningInv, VarsType
<1> QED
  BY <1>3, <1>4, <1>6, <1>7 DEF IInv

LEMMA EraseHandleInv ==
  ASSUME IInv, NEW t \in Threads, EraseHandle(t)
  PROVE  IInv'
<1> DEFINE table == Restrict(handles, DOMAIN handles \ {arg[t]})
<1>1. /\ VarsType /\ OwnInv /\ pc[t] = "closing" /\ apiLock = t /\ Assign(table, Dropped(t))
      /\ apiLock' = NoThread /\ pc' = [pc EXCEPT ![t] = "idle"] /\ arg' = [arg EXCEPT ![t] = NoFile]
      /\ UNCHANGED <<api, nextHandle, given, readVars>>
  BY DEF IInv, EraseHandle, LockHeld, UnlockWith, Goto
<1>2. /\ DOMAIN table \subseteq DOMAIN handles /\ table \in [DOMAIN table -> Images]
      /\ \A k \in DOMAIN table : table[k] = handles[k]
  BY <1>1 DEF Restrict, VarsType
<1> HIDE DEF table
<1>3. TableWhole' /\ handles' = table /\ held' = [held EXCEPT ![t] = NoImage]
  BY <1>1, <1>2, AssignTable DEF IInv, TableWhole, Dropped
<1>4. VarsType'
  BY <1>1, <1>2, <1>3, AssignTypes DEF VarsType, readVars
<1>5. LockHeld' /\ OpeningInv'
  BY <1>1, OneOpens, SentinelsAssumption DEF IInv, LockHeld, OpeningInv, VarsType
<1>6. OwnInv'
  BY <1>1, AssignOwn
<1> QED
  BY <1>3, <1>4, <1>5, <1>6 DEF IInv

LEMMA InitAgainInv ==
  ASSUME IInv, NEW t \in Threads, InitAgain(t)
  PROVE  IInv'
<1> DEFINE table == [h \in {} |-> NoImage]
<1>1. /\ VarsType /\ OwnInv /\ apiLock = NoThread /\ Assign(table, held)
      /\ nextHandle' = 1 /\ given' = {}
      /\ UNCHANGED <<api, apiLock, pc, arg, readVars>>
  BY DEF IInv, InitAgain, MayCall
<1>2. DOMAIN table = {} /\ table \in [DOMAIN table -> Images]
  OBVIOUS
<1> HIDE DEF table
<1>3. TableWhole' /\ handles' = table /\ held' = held
  BY <1>1, <1>2, AssignTable
<1>4. VarsType'
  BY <1>1, <1>2, <1>3, AssignTypes, BoundAssumption DEF VarsType, readVars
<1>5. LockHeld' /\ OpeningInv'
  BY <1>1, OneOpens, SentinelsAssumption DEF IInv, LockHeld, OpeningInv
<1>6. OwnInv'
  BY <1>1, AssignOwn
<1> QED
  BY <1>3, <1>4, <1>5, <1>6 DEF IInv

LEMMA NextInv == IInv /\ [Next]_vars => IInv'
<1> SUFFICES ASSUME IInv, [Next]_vars
             PROVE  IInv'
  OBVIOUS
<1>1. CASE UNCHANGED vars
  BY <1>1 DEF vars, callVars, readVars, IInv, VarsType, TableWhole, Opened, LockHeld, OpeningInv,
              OwnInv, OpenRead, OpenDiffer, NoneLeak, IsOpen
<1>2. ASSUME NEW t \in Threads, CallStep(t)
      PROVE  IInv'
  <2>1. ASSUME ReturnBytes(t)
        PROVE  IInv'
    BY <2>1, ReturnInv DEF ReturnBytes, IInv, VarsType
  <2>2. ASSUME ReturnFailed(t)
        PROVE  IInv'
    BY <2>2, ReturnInv DEF ReturnFailed
  <2> QED
    BY <1>2, <2>1, <2>2, OpenPartInv, StoreImageInv, GiveUpInv, ReadPartInv, EraseHandleInv DEF CallStep
<1> QED
  BY <1>1, <1>2, InitAgainInv, OpenContainerInv, FindImageInv, CloseContainerInv DEF Next

\* The invariant that the others follow from.
THEOREM IndInv == Spec => []IInv
  BY InitInv, NextInv, PTL DEF Spec

(* Every reachable state is well typed, and an image in the table has all  *)
(* the zips of its file (TypeOK).                                          *)
THEOREM TypeCorrect == Spec => []TypeOK
  BY IndInv, InvImplies, PTL

(* Descriptors are those of the open zips, one each, whatever was closed   *)
(* and opened again (DescriptorsAreOurs).                                  *)
THEOREM OwnsDescriptors == Spec => []DescriptorsAreOurs
  BY IndInv, InvImplies, PTL

-----------------------------------------------------------------------------
(* Handles implements HandleTable: what a read through a handle gives      *)
(* depends on what the descriptors of its image were given out for while   *)
(* the read ran without the lock.                                          *)

\* A handle has an image of its own, and was given out.
TableInv ==
    /\ \A h, k \in DOMAIN handles : handles[h] = handles[k] => h = k
    /\ DOMAIN handles \subseteq given
    /\ \A h \in given : h < nextHandle

\* close() closes the first zip of an image only; the others wait for the destructor.
FirstClosed == \A i \in Images : \A n \in DOMAIN zips[i] : zips[i][n].closed => n = 1

\* A closed image is in the table only until the call that closed it has erased it.
CloserInv ==
    /\ \A t \in Threads : pc[t] = "opening" =>
         \A n \in DOMAIN zips[held[t]] : ~zips[held[t]][n].closed
    /\ \A t \in Threads : pc[t] = "closing" =>
         arg[t] \in DOMAIN handles /\ zips[handles[arg[t]]][1].closed
    /\ \A h \in DOMAIN handles : zips[handles[h]][1].closed =>
         \E t \in Threads : pc[t] = "closing" /\ arg[t] = h

\* What a read has so far, as long as its handle is open.
ReadSoFar(t) ==
    asked[t].file # NoFile /\ asked[t].handle \in Bound =>
        /\ handles[asked[t].handle] = held[t]
        /\ zips[held[t]][1].file = asked[t].file
        /\ \A k \in DOMAIN got[t] : got[t][k] = Parts[asked[t].file][k]

ReadInv(t) ==
    /\ pc[t] = "working" <=> asked[t] # Nothing
    /\ pc[t] # "working" => got[t] = <<>>
    /\ pc[t] = "working" =>
         /\ asked[t].file # NoFile => asked[t].handle \in given
         /\ held[t] # NoImage => asked[t].file # NoFile
         /\ ReadSoFar(t)

RInv == IInv /\ TableInv /\ FirstClosed /\ CloserInv /\ \A t \in Threads : ReadInv(t)

LEMMA InitRInv == Init => RInv
<1> SUFFICES ASSUME Init
             PROVE  RInv
  OBVIOUS
<1>1. IInv
  BY InitInv
<1>2. TableInv /\ FirstClosed /\ CloserInv /\ \A t \in Threads : ReadInv(t)
  BY DEF Init, TableInv, FirstClosed, CloserInv, ReadInv
<1> QED
  BY <1>1, <1>2 DEF RInv

-----------------------------------------------------------------------------
(* Steps that leave the table and its images as they are.                  *)

SameTable ==
    /\ handles' = handles
    /\ \A i \in Range(handles) : zips'[i] = zips[i]

SameClosers ==
    \A u \in Threads : /\ pc'[u] = "closing" <=> pc[u] = "closing"
                       /\ pc[u] = "closing" => arg'[u] = arg[u]

LEMMA BoundSame ==
  ASSUME SameTable
  PROVE  Bound' = Bound /\ BoundFile' = BoundFile
<1>1. \A h \in DOMAIN handles : zips'[handles[h]] = zips[handles[h]]
  BY DEF SameTable, Range
<1>2. Bound' = Bound
  BY <1>1 DEF SameTable, Bound
<1> QED
  BY <1>1, <1>2 DEF SameTable, BoundFile, Bound

LEMMA ReadSame ==
  ASSUME RInv, SameTable, given \subseteq given', NEW t \in Threads,
         asked'[t] = asked[t], held'[t] = held[t], got'[t] = got[t],
         pc'[t] = "working" <=> pc[t] = "working"
  PROVE  ReadInv(t)'
<1>1. Bound' = Bound /\ handles' = handles
  BY BoundSame DEF SameTable
<1>2. ReadSoFar(t) => ReadSoFar(t)'
  BY <1>1 DEF ReadSoFar, SameTable, Range, Bound
<1> QED
  BY <1>1, <1>2 DEF RInv, ReadInv

LEMMA CloserSame ==
  ASSUME RInv, SameTable, SameClosers,
         \A t \in Threads : pc'[t] = "opening" =>
           \A n \in DOMAIN zips'[held'[t]] : ~zips'[held'[t]][n].closed
  PROVE  CloserInv'
<1>1. \A h \in DOMAIN handles : zips'[handles[h]] = zips[handles[h]]
  BY DEF SameTable, Range
<1>2. CloserInv /\ handles' = handles
  BY DEF RInv, SameTable
<1>3. \A t \in Threads : pc'[t] = "closing" =>
        arg'[t] \in DOMAIN handles' /\ zips'[handles'[arg'[t]]][1].closed
  BY <1>1, <1>2 DEF CloserInv, SameClosers
<1>4. \A h \in DOMAIN handles' : zips'[handles'[h]][1].closed =>
        \E t \in Threads : pc'[t] = "closing" /\ arg'[t] = h
  BY <1>1, <1>2 DEF CloserInv, SameClosers
<1> QED
  BY <1>3, <1>4 DEF CloserInv

\* No image is closed while nobody holds the lock.
LEMMA AllBound ==
  ASSUME RInv, apiLock = NoThread
  PROVE  Bound = DOMAIN handles
<1>1. \A t \in Threads : pc[t] # "closing"
  BY SentinelsAssumption DEF RInv, IInv, LockHeld
<1>2. \A h \in DOMAIN handles : ~zips[handles[h]][1].closed
  BY <1>1 DEF RInv, CloserInv
<1> QED
  BY <1>2 DEF Bound

\* Images that die leave nothing behind that is closed.
LEMMA AssignClosed ==
  ASSUME RInv, NEW table, NEW calls, Assign(table, calls)
  PROVE  FirstClosed'
  BY DEF RInv, FirstClosed, Assign

\* The zip that is opened is not closed.
LEMMA OpenZipClosed ==
  ASSUME RInv, NEW i \in Images, NEW f \in Files, OpenZip(i, f)
  PROVE  FirstClosed' /\ ~zips'[i][Len(zips[i]) + 1].closed
<1>1. PICK d \in Descriptors :
        zips' = [zips EXCEPT ![i] = Append(@, [fd |-> d, file |-> f, closed |-> FALSE])]
  BY DEF OpenZip, Free
<1>2. zips[i] \in Seq(Zip) /\ zips \in [Images -> Seq(Zip)]
  BY DEF RInv, IInv, VarsType
<1> DEFINE z == [fd |-> d, file |-> f, closed |-> FALSE]
<1>3. ~z.closed
  OBVIOUS
<1> HIDE DEF z
<1>4. zips'[i] = Append(zips[i], z) /\ \A j \in Images \ {i} : zips'[j] = zips[j]
  BY <1>1, <1>2 DEF z
<1>5. zips'[i][Len(zips[i]) + 1] = z
  BY <1>2, <1>4
<1>6. \A n \in DOMAIN zips'[i] : n = Len(zips[i]) + 1 \/ (n \in DOMAIN zips[i] /\ zips'[i][n] = zips[i][n])
  BY <1>2, <1>4
<1> QED
  BY <1>3, <1>4, <1>5, <1>6 DEF RInv, FirstClosed

-----------------------------------------------------------------------------
(* Every step of the libraries keeps the invariant, and is a step of the   *)
(* table or none.                                                          *)

Implements == Table!Next \/ UNCHANGED Table!tableVars

LEMMA OpenContainerRefines ==
  ASSUME RInv, NEW t \in Threads, NEW f \in Files, OpenContainer(t, f)
  PROVE  RInv' /\ Implements
<1> DEFINE i == NewImage
<1>1. /\ IInv /\ apiLock = NoThread /\ pc[t] = "idle" /\ OpenZip(i, f)
      /\ held' = [held EXCEPT ![t] = i] /\ arg' = [arg EXCEPT ![t] = f]
      /\ pc' = [pc EXCEPT ![t] = "opening"]
      /\ UNCHANGED <<api, handles, nextHandle, given, got, asked, reply>>
  BY DEF RInv, OpenContainer, MayCall, Goto, readVars
<1>2. i \in Images /\ zips[i] = <<>> /\ Len(zips[i]) + 1 = 1
  BY DEF OpenContainer, NewImage, Unused
<1> HIDE DEF i
<1>3. IInv'
  BY <1>1, OpenContainerInv
<1>4. /\ Len(zips'[i]) = 1 /\ zips'[i] \in Seq(Zip)
      /\ \A j \in Images \ {i} : zips'[j] = zips[j]
  BY <1>1, <1>2, OpenZipTypes DEF IInv
<1>5. FirstClosed' /\ ~zips'[i][1].closed
  BY <1>1, <1>2, OpenZipClosed
<1>6. SameTable
  BY <1>1, <1>2, <1>4 DEF SameTable, IInv, TableWhole, Range, VarsType
<1>7. TableInv'
  BY <1>1 DEF RInv, TableInv
<1>8. CloserInv'
  <2>1. SameClosers
    BY <1>1 DEF SameClosers, IInv, VarsType
  <2>2. ASSUME NEW u \in Threads, pc'[u] = "opening"
        PROVE  \A n \in DOMAIN zips'[held'[u]] : ~zips'[held'[u]][n].closed
    <3>1. u = t
      BY <2>2, <1>1, OneOpens DEF IInv, VarsType
    <3> QED
      BY <3>1, <1>1, <1>4, <1>5 DEF IInv, VarsType
  <2> QED
    BY <2>1, <2>2, <1>6, CloserSame
<1>9. ASSUME NEW u \in Threads
      PROVE  ReadInv(u)'
  <2>1. CASE u = t
    BY <2>1, <1>1 DEF RInv, ReadInv, IInv, VarsType
  <2>2. CASE u # t
    BY <2>2, <1>1, <1>6, ReadSame DEF IInv, VarsType
  <2> QED
    BY <2>1, <2>2
<1>10. UNCHANGED Table!tableVars
  BY <1>1, <1>6, BoundSame DEF Table!tableVars
<1> QED
  BY <1>3, <1>5, <1>7, <1>8, <1>9, <1>10 DEF RInv, Implements

LEMMA OpenPartRefines ==
  ASSUME RInv, NEW t \in Threads, OpenPart(t)
  PROVE  RInv' /\ Implements
<1> DEFINE i == held[t]
           f == Parts[arg[t]][Len(zips[i]) + 1]
<1>1. /\ IInv /\ apiLock = t /\ pc[t] = "opening" /\ OpenZip(i, f) /\ Len(zips[i]) < Len(Parts[arg[t]])
      /\ UNCHANGED <<api, handles, nextHandle, given, pc, arg, held, got, asked, reply>>
  BY DEF RInv, OpenPart, callVars, readVars, IInv, LockHeld
<1>2. i \in Images /\ i \notin Range(handles) /\ Parts[arg[t]] \in Seq(Files) /\ Len(zips[i]) \in Nat
  BY <1>1, FilesAssumption DEF IInv, OpeningInv
<1>3. f \in Files
  BY <1>1, <1>2
<1> HIDE DEF i, f
<1>4. IInv'
  BY OpenPartInv DEF RInv
<1>5. /\ Len(zips'[i]) = Len(zips[i]) + 1 /\ zips'[i] \in Seq(Zip)
      /\ \A j \in Images \ {i} : zips'[j] = zips[j]
      /\ \A n \in 1 .. Len(zips[i]) : zips'[i][n] = zips[i][n]
  BY <1>1, <1>2, <1>3, OpenZipTypes DEF IInv
<1>6. FirstClosed' /\ ~zips'[i][Len(zips[i]) + 1].closed
  BY <1>1, <1>2, <1>3, OpenZipClosed
<1>7. SameTable
  BY <1>1, <1>2, <1>5 DEF SameTable, Range, IInv, VarsType
<1>8. TableInv'
  BY <1>1 DEF RInv, TableInv
<1>9. CloserInv'
  <2>1. SameClosers
    BY <1>1 DEF SameClosers
  <2>2. ASSUME NEW u \in Threads, pc'[u] = "opening"
        PROVE  \A n \in DOMAIN zips'[held'[u]] : ~zips'[held'[u]][n].closed
    <3>1. u = t /\ held'[u] = i
      BY <2>2, <1>1, OneOpens DEF IInv, i
    <3>2. \A n \in DOMAIN zips[i] : ~zips[i][n].closed
      BY <1>1 DEF RInv, CloserInv, i
    <3>3. zips[i] \in Seq(Zip)
      BY <1>1, <1>2 DEF IInv, VarsType
    <3>4. \A n \in DOMAIN zips'[i] : n \in 1 .. Len(zips[i]) \/ n = Len(zips[i]) + 1
      BY <1>2, <1>5
    <3> QED
      BY <3>1, <3>2, <3>3, <3>4, <1>5, <1>6
  <2> QED
    BY <2>1, <2>2, <1>7, CloserSame
<1>10. \A u \in Threads : ReadInv(u)'
  BY <1>1, <1>7, ReadSame
<1>11. UNCHANGED Table!tableVars
  BY <1>1, <1>7, BoundSame DEF Table!tableVars
<1> QED
  BY <1>4, <1>6, <1>8, <1>9, <1>10, <1>11 DEF RInv, Implements

LEMMA StoreImageRefines ==
  ASSUME RInv, NEW t \in Threads, StoreImage(t)
  PROVE  RInv' /\ Implements
<1> DEFINE i == held[t]
           h == NewHandle
           table == [k \in DOMAIN handles \cup {h} |-> IF k = h THEN i ELSE handles[k]]
<1>1. /\ IInv /\ pc[t] = "opening" /\ apiLock = t
      /\ Assign(table, Dropped(t)) /\ Len(zips[i]) = Len(Parts[arg[t]])
      /\ nextHandle' = nextHandle + 1 /\ given' = given \cup {h}
      /\ pc' = [pc EXCEPT ![t] = "idle"] /\ arg' = [arg EXCEPT ![t] = NoFile]
      /\ UNCHANGED <<api, got, asked, reply>>
  BY DEF RInv, IInv, StoreImage, LockHeld, AllOpened, GiveOut, UnlockWith, Goto, readVars
<1>2. /\ arg[t] \in Files /\ i \in Images /\ i \notin Range(handles) /\ zips[i] # <<>>
      /\ zips[i] \in Seq(Zip) /\ Opened(i, arg[t], Len(zips[i]))
  BY <1>1 DEF IInv, OpeningInv, VarsType
<1>3. h = nextHandle /\ h \in Handle /\ h \notin given /\ h \notin DOMAIN handles
  BY <1>1, BoundAssumption DEF RInv, TableInv, IInv, OpeningInv, VarsType, NewHandle, Handle
<1>4. 1 \in DOMAIN zips[i] /\ zips[i][1].file = arg[t] /\ ~zips[i][1].closed
  <2>1. 1 \in DOMAIN zips[i] /\ 1 \in 1 .. Len(zips[i])
    BY <1>2
  <2> QED
    BY <2>1, <1>1, <1>2, FilesAssumption, ZenonT(30) DEF Opened, RInv, CloserInv
<1> HIDE DEF i, h
<1>5. IInv'
  BY StoreImageInv DEF RInv
<1>6. /\ handles' = table /\ held' = [held EXCEPT ![t] = NoImage]
      /\ DOMAIN table = DOMAIN handles \cup {h} /\ table[h] = i
      /\ \A k \in DOMAIN handles : table[k] = handles[k] /\ table[k] \in Images
      /\ \A k \in DOMAIN table : zips'[table[k]] = zips[table[k]]
  <2>1. handles' = table /\ held' = [held EXCEPT ![t] = NoImage]
    BY <1>1 DEF Assign, Dropped
  <2>2. /\ DOMAIN table = DOMAIN handles \cup {h} /\ table[h] = i
        /\ \A k \in DOMAIN handles : table[k] = handles[k] /\ table[k] \in Images
    BY <1>1, <1>3 DEF IInv, VarsType
  <2>3. \A k \in DOMAIN table : table[k] \in Images \cap Living(table, Dropped(t))
    BY <2>2, <1>2 DEF Living, Range
  <2> HIDE DEF table
  <2>4. \A k \in DOMAIN table : zips'[table[k]] = zips[table[k]]
    BY <2>3, <1>1, AssignTypes DEF IInv
  <2> QED
    BY <2>1, <2>2, <2>4
<1> HIDE DEF table
<1>7. /\ Bound' = Bound \cup {h} /\ h \notin Bound
      /\ BoundFile' = [k \in Bound \cup {h} |-> IF k = h THEN arg[t] ELSE BoundFile[k]]
  <2>1. \A k \in DOMAIN handles : zips'[handles'[k]] = zips[handles[k]] /\ k # h
    BY <1>3, <1>6
  <2>2. zips'[handles'[h]] = zips[i]
    BY <1>6
  <2>3. Bound' = Bound \cup {h} /\ h \notin Bound
    BY <2>1, <2>2, <1>3, <1>4, <1>6 DEF Bound
  <2> QED
    BY <2>1, <2>2, <2>3, <1>4 DEF BoundFile, Bound
<1>8. TableInv'
  <2>1. \A k \in DOMAIN handles : handles[k] # i
    BY <1>2 DEF Range
  <2>2. \A k, l \in DOMAIN handles' : handles'[k] = handles'[l] => k = l
    BY <2>1, <1>3, <1>6 DEF RInv, TableInv
  <2>3. DOMAIN handles' \subseteq given' /\ \A k \in given' : k < nextHandle'
    BY <1>1, <1>3, <1>6 DEF RInv, TableInv, IInv, VarsType, Handle
  <2> QED
    BY <2>2, <2>3 DEF TableInv
<1>9. FirstClosed'
  BY <1>1, AssignClosed
<1>10. CloserInv'
  <2>1. \A u \in Threads : pc[u] \notin {"opening", "closing"} \/ u = t
    BY <1>1 DEF IInv, LockHeld
  <2>2. \A u \in Threads : pc'[u] \notin {"opening", "closing"}
    BY <2>1, <1>1 DEF IInv, VarsType
  <2>3. \A k \in DOMAIN handles : ~zips[handles[k]][1].closed
    BY <2>1, <1>1 DEF RInv, CloserInv
  <2>4. \A k \in DOMAIN handles' : ~zips'[handles'[k]][1].closed
    BY <2>3, <1>4, <1>6
  <2> QED
    BY <2>2, <2>4 DEF CloserInv
<1>11. ASSUME NEW u \in Threads
       PROVE  ReadInv(u)'
  <2>1. CASE u = t
    BY <2>1, <1>1 DEF RInv, ReadInv, IInv, VarsType
  <2>2. CASE u # t
    <3>1. /\ pc'[u] = pc[u] /\ held'[u] = held[u] /\ asked'[u] = asked[u] /\ got'[u] = got[u]
          /\ ReadInv(u)
      BY <2>2, <1>1, <1>6 DEF RInv, IInv, VarsType
    <3>2. CASE pc[u] = "working"
      <4>1. asked[u].file # NoFile => asked[u].handle # h
        BY <3>1, <3>2, <1>3 DEF ReadInv
      <4>2. ReadSoFar(u)'
        <5> SUFFICES ASSUME asked[u].file # NoFile, asked[u].handle \in Bound'
                     PROVE  /\ handles'[asked[u].handle] = held[u]
                            /\ zips'[held[u]][1].file = asked[u].file
                            /\ \A k \in DOMAIN got[u] : got[u][k] = Parts[asked[u].file][k]
          BY <3>1 DEF ReadSoFar
        <5>1. asked[u].handle \in Bound /\ asked[u].handle \in DOMAIN handles
          BY <4>1, <1>7 DEF Bound
        <5>2. /\ handles[asked[u].handle] = held[u]
              /\ zips[held[u]][1].file = asked[u].file
              /\ \A k \in DOMAIN got[u] : got[u][k] = Parts[asked[u].file][k]
          BY <5>1, <3>1, <3>2 DEF ReadInv, ReadSoFar
        <5> QED
          BY <5>1, <5>2, <1>6
      <4> QED
        BY <4>2, <3>1, <3>2, <1>1 DEF ReadInv
    <3>3. CASE pc[u] # "working"
      BY <3>1, <3>3 DEF ReadInv
    <3> QED
      BY <3>2, <3>3
  <2> QED
    BY <2>1, <2>2
<1>12. Table!Open(h, arg[t])
  <2>1. DOMAIN BoundFile = Bound
    BY DEF BoundFile
  <2> QED
    BY <2>1, <1>1, <1>3, <1>7 DEF Table!Open
<1>13. Table!Next
  BY <1>2, <1>3, <1>12 DEF Table!Next
<1> QED
  BY <1>5, <1>8, <1>9, <1>10, <1>11, <1>13 DEF RInv, Implements

LEMMA GiveUpRefines ==
  ASSUME RInv, NEW t \in Threads, GiveUp(t)
  PROVE  RInv' /\ Implements
<1>1. /\ IInv /\ pc[t] = "opening" /\ apiLock = t /\ Assign(handles, Dropped(t))
      /\ IF api = "iio" THEN GiveOut(NewHandle) ELSE UNCHANGED <<nextHandle, given>>
      /\ pc' = [pc EXCEPT ![t] = "idle"] /\ arg' = [arg EXCEPT ![t] = NoFile]
      /\ UNCHANGED <<api, got, asked, reply>>
  BY DEF RInv, IInv, GiveUp, LockHeld, UnlockWith, Goto, readVars
<1>2. SameTable /\ held' = [held EXCEPT ![t] = NoImage]
  BY <1>1, KeepTable DEF SameTable
<1>3. \/ UNCHANGED <<nextHandle, given>>
      \/ /\ NewHandle \in Handle \ given /\ given' = given \cup {NewHandle}
         /\ nextHandle' = nextHandle + 1 /\ NewHandle = nextHandle
  BY <1>1, BoundAssumption DEF GiveOut, RInv, TableInv, IInv, OpeningInv, VarsType, NewHandle, Handle
<1>4. IInv'
  BY GiveUpInv DEF RInv
<1>5. TableInv' /\ given \subseteq given'
  <2>1. TableInv /\ handles' = handles
    BY <1>2 DEF RInv, SameTable
  <2>2. nextHandle \in Nat /\ given \subseteq Nat
    BY <1>1 DEF IInv, VarsType, Handle
  <2>3. given \subseteq given' /\ \A h \in given' : h < nextHandle'
    <3>1. CASE UNCHANGED <<nextHandle, given>>
      BY <2>1, <3>1 DEF TableInv
    <3>2. CASE /\ given' = given \cup {NewHandle}
               /\ nextHandle' = nextHandle + 1 /\ NewHandle = nextHandle
      BY <2>1, <2>2, <3>2 DEF TableInv
    <3> QED
      BY <3>1, <3>2, <1>3
  <2> QED
    BY <2>1, <2>3 DEF TableInv
<1>6. FirstClosed'
  BY <1>1, AssignClosed
<1>7. CloserInv'
  <2>1. SameClosers
    BY <1>1 DEF SameClosers, IInv, VarsType
  <2>2. \A u \in Threads : pc'[u] # "opening"
    BY <1>1 DEF IInv, VarsType, LockHeld
  <2> QED
    BY <2>1, <2>2, <1>2, CloserSame
<1>8. ASSUME NEW u \in Threads
      PROVE  ReadInv(u)'
  <2>1. CASE u = t
    BY <2>1, <1>1 DEF RInv, ReadInv, IInv, VarsType
  <2>2. CASE u # t
    BY <2>2, <1>1, <1>2, <1>5, ReadSame DEF IInv, VarsType
  <2> QED
    BY <2>1, <2>2
<1>9. Bound' = Bound /\ BoundFile' = BoundFile
  BY <1>2, BoundSame
<1>10. Implements
  <2>1. CASE UNCHANGED <<nextHandle, given>>
    BY <2>1, <1>1, <1>9 DEF Implements, Table!tableVars
  <2>2. CASE NewHandle \in Handle \ given /\ given' = given \cup {NewHandle}
    <3>1. Table!Spend(NewHandle)
      BY <2>2, <1>1, <1>9 DEF Table!Spend
    <3> QED
      BY <3>1, <2>2 DEF Implements, Table!Next
  <2> QED
    BY <2>1, <2>2, <1>3
<1> QED
  BY <1>4, <1>5, <1>6, <1>7, <1>8, <1>10 DEF RInv

LEMMA FindImageRefines ==
  ASSUME RInv, NEW t \in Threads, NEW h \in Handle, FindImage(t, h)
  PROVE  RInv' /\ Implements
<1> DEFINE q == [handle |-> h, file |-> IF h \in Bound THEN BoundFile[h] ELSE NoFile]
<1>1. /\ IInv /\ apiLock = NoThread /\ pc[t] = "idle"
      /\ pc' = [pc EXCEPT ![t] = "working"]
      /\ held' = [held EXCEPT ![t] = IF h \in DOMAIN handles THEN handles[h] ELSE NoImage]
      /\ asked' = [asked EXCEPT ![t] = q]
      /\ reply' = [reply EXCEPT ![t] = NoReply]
      /\ UNCHANGED <<api, files, zips, handles, nextHandle, apiLock, arg, got, given>>
  BY DEF RInv, FindImage, MayCall, Goto
<1>2. Bound = DOMAIN handles
  BY <1>1, AllBound
<1>3. /\ h \in DOMAIN handles => q.file = zips[handles[h]][1].file /\ q.file \in Files
      /\ h \notin DOMAIN handles => q.file = NoFile
      /\ q.handle = h
  <2>1. ASSUME h \in DOMAIN handles
        PROVE  zips[handles[h]][1].file \in Files
    <3>1. zips[handles[h]] \in Seq(Zip) /\ zips[handles[h]] # <<>>
      BY <2>1 DEF RInv, IInv, TableWhole, VarsType
    <3>2. zips[handles[h]][1] \in Zip
      BY <3>1
    <3> QED
      BY <3>2 DEF Zip
  <2> QED
    BY <2>1, <1>2 DEF BoundFile
<1>4. IInv'
  BY FindImageInv DEF RInv
<1>5. q # Nothing
  <2>1. q.file \in Files \cup {NoFile}
    BY <1>3
  <2>2. q \in [handle : Handle, file : Files \cup {NoFile}]
    BY <2>1
  <2> QED
    BY <2>2, SentinelsAssumption DEF Handle
<1> HIDE DEF q
<1>6. SameTable
  BY <1>1 DEF SameTable
<1>7. TableInv' /\ FirstClosed'
  BY <1>1 DEF RInv, TableInv, FirstClosed
<1>8. CloserInv'
  <2>1. SameClosers
    BY <1>1 DEF SameClosers, IInv, VarsType
  <2>2. \A u \in Threads : pc'[u] # "opening"
    BY <1>1, SentinelsAssumption DEF IInv, VarsType, LockHeld
  <2> QED
    BY <2>1, <2>2, <1>6, CloserSame
<1>9. ASSUME NEW u \in Threads
      PROVE  ReadInv(u)'
  <2>1. CASE u = t
    <3>1. /\ pc'[t] = "working" /\ asked'[t] = q /\ got'[t] = <<>>
          /\ held'[t] = IF h \in DOMAIN handles THEN handles[h] ELSE NoImage
      BY <1>1 DEF RInv, ReadInv, IInv, VarsType
    <3>2. ReadSoFar(t)'
      BY <3>1, <1>1, <1>2, <1>3 DEF ReadSoFar, Bound
    <3>3. /\ asked'[t].file # NoFile => asked'[t].handle \in given'
          /\ held'[t] # NoImage => asked'[t].file # NoFile
      BY <3>1, <1>1, <1>3, SentinelsAssumption DEF RInv, TableInv
    <3> QED
      BY <2>1, <3>1, <3>2, <3>3, <1>5 DEF ReadInv
  <2>2. CASE u # t
    BY <2>2, <1>1, <1>6, ReadSame DEF IInv, VarsType
  <2> QED
    BY <2>1, <2>2
<1>10. Bound' = Bound /\ BoundFile' = BoundFile
  BY <1>6, BoundSame
<1>11. Table!Ask(t, h)
  <2>1. DOMAIN BoundFile = Bound
    BY DEF BoundFile
  <2>2. asked[t] = Nothing
    BY <1>1 DEF RInv, ReadInv
  <2> QED
    BY <2>1, <2>2, <1>1, <1>10 DEF Table!Ask, Table!FileOf, q
<1> QED
  BY <1>4, <1>7, <1>8, <1>9, <1>11 DEF RInv, Implements, Table!Next

LEMMA ReadPartRefines ==
  ASSUME RInv, NEW t \in Threads, ReadPart(t)
  PROVE  RInv' /\ Implements
<1> DEFINE n == Len(got[t])
           file == files[NextZip(t).fd]
<1>1. /\ IInv /\ pc[t] = "working" /\ held[t] \in Images /\ n < Len(zips[held[t]]) /\ file # NoFile
      /\ got' = [got EXCEPT ![t] = Append(got[t], file)]
      /\ UNCHANGED <<api, files, zips, handles, nextHandle, apiLock, pc, arg, held, given, asked, reply>>
  BY DEF RInv, IInv, ReadPart, callVars, VarsType
<1>2. IInv'
  BY ReadPartInv DEF RInv
<1>3. SameTable
  BY <1>1 DEF SameTable
<1>4. TableInv' /\ FirstClosed'
  BY <1>1 DEF RInv, TableInv, FirstClosed
<1>5. CloserInv'
  BY <1>1 DEF RInv, CloserInv
<1>6. Bound' = Bound /\ BoundFile' = BoundFile
  BY <1>3, BoundSame
<1>7. got[t] \in Seq(Files) /\ got'[t] = Append(got[t], file) /\ n \in Nat
  BY <1>1 DEF IInv, VarsType
<1>8. ReadSoFar(t)'
  <2> SUFFICES ASSUME asked[t].file # NoFile, asked[t].handle \in Bound
               PROVE  /\ handles[asked[t].handle] = held[t]
                      /\ zips[held[t]][1].file = asked[t].file
                      /\ \A k \in DOMAIN got'[t] : got'[t][k] = Parts[asked[t].file][k]
    BY <1>1, <1>6 DEF ReadSoFar
  <2>1. /\ handles[asked[t].handle] = held[t]
        /\ zips[held[t]][1].file = asked[t].file
        /\ \A k \in DOMAIN got[t] : got[t][k] = Parts[asked[t].file][k]
        /\ ~zips[held[t]][1].closed
    BY <1>1 DEF RInv, ReadInv, ReadSoFar, Bound
  <2>2. n + 1 \in DOMAIN zips[held[t]] /\ n + 1 \in 1 .. Len(zips[held[t]])
    BY <1>1, <1>7 DEF IInv, VarsType
  <2>3. IsOpen(held[t], n + 1)
    BY <2>1, <2>2, <1>1 DEF RInv, FirstClosed, IsOpen
  <2>4. file = zips[held[t]][n + 1].file
    BY <2>3, <1>1, <1>7 DEF IInv, OwnInv, OpenRead, NextZip
  <2>5. Opened(held[t], asked[t].file, Len(Parts[asked[t].file]))
    BY <2>1 DEF RInv, IInv, TableWhole, Bound
  <2>6. file = Parts[asked[t].file][n + 1]
    BY <2>2, <2>4, <2>5 DEF Opened
  <2> HIDE DEF file
  <2>7. \A k \in DOMAIN got'[t] : (k \in DOMAIN got[t] /\ got'[t][k] = got[t][k]) \/ (k = n + 1 /\ got'[t][k] = file)
    BY <1>7
  <2> QED
    BY <2>1, <2>6, <2>7
<1>9. ASSUME NEW u \in Threads
      PROVE  ReadInv(u)'
  <2>1. CASE u = t
    BY <2>1, <1>1, <1>8 DEF RInv, ReadInv
  <2>2. CASE u # t
    BY <2>2, <1>1, <1>3, ReadSame DEF IInv, VarsType
  <2> QED
    BY <2>1, <2>2
<1>10. UNCHANGED Table!tableVars
  BY <1>1, <1>6 DEF Table!tableVars
<1> QED
  BY <1>2, <1>4, <1>5, <1>9, <1>10 DEF RInv, Implements

\* What a read returns is the image of its handle, if that is still open.
LEMMA ReturnRefines ==
  ASSUME RInv, NEW t \in Threads, pc[t] = "working", NEW r \in Seq(Files) \cup {Failed}, Return(t, r),
         Table!Promised(asked[t], r)
  PROVE  RInv' /\ Implements
<1>1. /\ IInv /\ Assign(handles, Dropped(t))
      /\ reply' = [reply EXCEPT ![t] = r]
      /\ pc' = [pc EXCEPT ![t] = "idle"]
      /\ got' = [got EXCEPT ![t] = <<>>]
      /\ asked' = [asked EXCEPT ![t] = Nothing]
      /\ UNCHANGED <<api, nextHandle, apiLock, arg, given>>
  BY DEF RInv, Return, Goto
<1>2. SameTable /\ held' = [held EXCEPT ![t] = NoImage]
  BY <1>1, KeepTable DEF SameTable
<1>3. IInv'
  BY <1>1, ReturnInv
<1>4. TableInv'
  BY <1>1, <1>2 DEF RInv, TableInv, SameTable
<1>5. FirstClosed'
  BY <1>1, AssignClosed
<1>6. CloserInv'
  <2>1. SameClosers
    BY <1>1 DEF SameClosers, IInv, VarsType
  <2>2. ASSUME NEW u \in Threads, pc'[u] = "opening"
        PROVE  \A n \in DOMAIN zips'[held'[u]] : ~zips'[held'[u]][n].closed
    <3>1. u # t /\ pc[u] = "opening" /\ held'[u] = held[u]
      BY <2>2, <1>1, <1>2 DEF IInv, VarsType
    <3>2. held[u] \in Images
      BY <3>1, <1>1 DEF IInv, OpeningInv
    <3>3. zips'[held[u]] = zips[held[u]] \/ zips'[held[u]] = <<>>
      BY <3>2, <1>1, AssignTypes DEF IInv
    <3> QED
      BY <3>1, <3>3, SMTT(30) DEF RInv, CloserInv
  <2> QED
    BY <2>1, <2>2, <1>2, CloserSame
<1>7. ASSUME NEW u \in Threads
      PROVE  ReadInv(u)'
  <2>1. CASE u = t
    BY <2>1, <1>1 DEF ReadInv, IInv, VarsType
  <2>2. CASE u # t
    BY <2>2, <1>1, <1>2, ReadSame DEF IInv, VarsType
  <2> QED
    BY <2>1, <2>2
<1>8. Bound' = Bound /\ BoundFile' = BoundFile
  BY <1>2, BoundSame
<1>9. Table!Answer(t)
  <2>1. asked[t] # Nothing
    BY DEF RInv, ReadInv
  <2>2. reply'[t] = r /\ \A u \in Threads : reply'[u] = reply[u] \/ u = t
    BY <1>1 DEF IInv, VarsType
  <2> QED
    BY <2>1, <2>2, <1>1, <1>8 DEF Table!Answer
<1> QED
  BY <1>3, <1>4, <1>5, <1>6, <1>7, <1>9 DEF RInv, Implements, Table!Next

LEMMA ReturnBytesRefines ==
  ASSUME RInv, NEW t \in Threads, ReturnBytes(t)
  PROVE  RInv' /\ Implements
<1>1. /\ IInv /\ pc[t] = "working" /\ held[t] # NoImage /\ Len(got[t]) = Len(zips[held[t]])
      /\ Return(t, got[t]) /\ got[t] \in Seq(Files)
  BY DEF RInv, IInv, VarsType, ReturnBytes
<1>2. asked[t].file # NoFile /\ ReadSoFar(t) /\ asked[t] # Nothing
  BY <1>1 DEF RInv, ReadInv
<1>3. ASSUME Table!FileOf(asked[t].handle) = asked[t].file
      PROVE  got[t] = Parts[asked[t].file]
  <2>1. DOMAIN BoundFile = Bound
    BY DEF BoundFile
  <2>2. asked[t].handle \in Bound
    BY <2>1, <1>2, <1>3 DEF Table!FileOf
  <2>3. /\ handles[asked[t].handle] = held[t]
        /\ zips[held[t]][1].file = asked[t].file
        /\ \A k \in DOMAIN got[t] : got[t][k] = Parts[asked[t].file][k]
    BY <2>2, <1>2 DEF ReadSoFar
  <2>4. Len(zips[held[t]]) = Len(Parts[asked[t].file])
    BY <2>2, <2>3, <1>1 DEF IInv, TableWhole, Opened, Bound
  <2>5. Parts[asked[t].file] \in Seq(Files)
    <3>1. asked[t].file \in Files
      BY <1>1, <1>2 DEF IInv, VarsType
    <3> QED
      BY <3>1, FilesAssumption
  <2> QED
    BY <2>3, <2>4, <2>5, <1>1
<1>4. Table!Promised(asked[t], got[t])
  BY <1>2, <1>3 DEF Table!Promised, Content
<1> QED
  BY <1>1, <1>4, ReturnRefines

LEMMA ReturnFailedRefines ==
  ASSUME RInv, NEW t \in Threads, ReturnFailed(t)
  PROVE  RInv' /\ Implements
<1>1. Table!Promised(asked[t], Failed)
  BY DEF Table!Promised
<1> QED
  BY <1>1, ReturnRefines DEF ReturnFailed

\* Closing an image takes it from the table's promise before it leaves the table.
LEMMA CloseContainerRefines ==
  ASSUME RInv, NEW t \in Threads, NEW h \in Handle, CloseContainer(t, h)
  PROVE  RInv' /\ Implements
<1> DEFINE i == handles[h]
<1>1. /\ IInv /\ apiLock = NoThread /\ h \in DOMAIN handles /\ pc[t] = "idle"
      /\ held' = [held EXCEPT ![t] = i]
      /\ zips' = [zips EXCEPT ![i][1].closed = TRUE]
      /\ pc' = [pc EXCEPT ![t] = "closing"] /\ arg' = [arg EXCEPT ![t] = h]
      /\ UNCHANGED <<api, handles, nextHandle, given, got, asked, reply>>
  BY DEF RInv, CloseContainer, MayCall, Goto, readVars
<1>2. i \in Images /\ zips[i] # <<>> /\ zips[i] \in Seq(Zip)
  BY <1>1 DEF IInv, TableWhole, VarsType
<1> HIDE DEF i
<1>3. IInv'
  BY CloseContainerInv DEF RInv
<1>4. /\ \A j \in Images \ {i} : zips'[j] = zips[j]
      /\ DOMAIN zips'[i] = DOMAIN zips[i]
      /\ zips'[i][1].closed /\ zips'[i][1].file = zips[i][1].file
      /\ \A n \in DOMAIN zips[i] : n = 1 \/ zips'[i][n] = zips[i][n]
  <2>1. zips[i][1] \in Zip /\ 1 \in DOMAIN zips[i]
    BY <1>2
  <2>2. zips'[i] = [zips[i] EXCEPT ![1] = [zips[i][1] EXCEPT !.closed = TRUE]]
    BY <1>1, <1>2 DEF IInv, VarsType
  <2>3. [zips[i][1] EXCEPT !.closed = TRUE].closed /\ [zips[i][1] EXCEPT !.closed = TRUE].file = zips[i][1].file
    BY <2>1 DEF Zip
  <2>4. \A j \in Images \ {i} : zips'[j] = zips[j]
    BY <1>1 DEF IInv, VarsType
  <2> QED
    BY <2>1, <2>2, <2>3, <2>4
<1>5. \A k \in DOMAIN handles : k # h => handles[k] \in Images \ {i} /\ zips'[handles[k]] = zips[handles[k]]
  BY <1>1, <1>4 DEF RInv, TableInv, IInv, VarsType, i
<1>6. /\ h \in Bound /\ Bound' = Bound \ {h}
      /\ BoundFile' = [k \in Bound \ {h} |-> BoundFile[k]]
  <2>1. Bound = DOMAIN handles
    BY <1>1, AllBound
  <2>2. Bound' = Bound \ {h}
    BY <2>1, <1>1, <1>4, <1>5 DEF Bound, i
  <2> QED
    BY <2>1, <2>2, <1>1, <1>5 DEF BoundFile
<1>7. TableInv'
  BY <1>1 DEF RInv, TableInv
<1>8. FirstClosed'
  BY <1>2, <1>4 DEF RInv, FirstClosed
<1>9. CloserInv'
  <2>1. \A u \in Threads : pc[u] \notin {"opening", "closing"}
    BY <1>1, SentinelsAssumption DEF IInv, LockHeld
  <2>2. \A u \in Threads : pc'[u] \in {"opening", "closing"} => u = t /\ pc'[u] = "closing" /\ arg'[u] = h
    BY <2>1, <1>1 DEF IInv, VarsType
  <2>3. pc'[t] = "closing" /\ arg'[t] = h
    BY <1>1 DEF IInv, VarsType
  <2>4. \A k \in DOMAIN handles : ~zips[handles[k]][1].closed
    BY <2>1 DEF RInv, CloserInv
  <2>5. \A k \in DOMAIN handles' : zips'[handles'[k]][1].closed => k = h
    BY <2>4, <1>1, <1>5
  <2> QED
    BY <2>2, <2>3, <2>5, <1>1, <1>4 DEF CloserInv, i
<1>10. ASSUME NEW u \in Threads
       PROVE  ReadInv(u)'
  <2>1. CASE u = t
    BY <2>1, <1>1 DEF RInv, ReadInv, IInv, VarsType
  <2>2. CASE u # t
    <3>1. /\ pc'[u] = pc[u] /\ held'[u] = held[u] /\ asked'[u] = asked[u] /\ got'[u] = got[u]
          /\ ReadInv(u)
      BY <2>2, <1>1 DEF RInv, IInv, VarsType
    <3>2. ASSUME ReadSoFar(u)
          PROVE  ReadSoFar(u)'
      <4> SUFFICES ASSUME asked[u].file # NoFile, asked[u].handle \in Bound'
                   PROVE  /\ handles'[asked[u].handle] = held[u]
                          /\ zips'[held[u]][1].file = asked[u].file
                          /\ \A k \in DOMAIN got[u] : got[u][k] = Parts[asked[u].file][k]
        BY <3>1 DEF ReadSoFar
      <4>1. asked[u].handle \in Bound /\ asked[u].handle # h /\ asked[u].handle \in DOMAIN handles
        BY <1>6 DEF Bound
      <4> QED
        BY <4>1, <3>2, <1>1, <1>5 DEF ReadSoFar
    <3> QED
      BY <3>1, <3>2, <1>1 DEF ReadInv
  <2> QED
    BY <2>1, <2>2
<1>11. Table!Close(h)
  <2>1. DOMAIN BoundFile = Bound
    BY DEF BoundFile
  <2> QED
    BY <2>1, <1>1, <1>6 DEF Table!Close
<1> QED
  BY <1>3, <1>7, <1>8, <1>9, <1>10, <1>11 DEF RInv, Implements, Table!Next

LEMMA EraseHandleRefines ==
  ASSUME RInv, NEW t \in Threads, EraseHandle(t)
  PROVE  RInv' /\ Implements
<1> DEFINE h == arg[t]
           table == Restrict(handles, DOMAIN handles \ {h})
<1>1. /\ IInv /\ pc[t] = "closing" /\ apiLock = t /\ Assign(table, Dropped(t))
      /\ pc' = [pc EXCEPT ![t] = "idle"] /\ arg' = [arg EXCEPT ![t] = NoFile]
      /\ UNCHANGED <<api, nextHandle, given, got, asked, reply>>
  BY DEF RInv, IInv, EraseHandle, LockHeld, UnlockWith, Goto, readVars
<1>2. h \in DOMAIN handles /\ zips[handles[h]][1].closed
  BY <1>1 DEF RInv, CloserInv
<1> HIDE DEF h
<1>3. /\ DOMAIN table = DOMAIN handles \ {h}
      /\ \A k \in DOMAIN table : table[k] = handles[k] /\ table[k] \in Images
  BY <1>1 DEF Restrict, IInv, VarsType
<1> HIDE DEF table
<1>4. /\ handles' = table /\ held' = [held EXCEPT ![t] = NoImage]
      /\ \A k \in DOMAIN table : zips'[handles[k]] = zips[handles[k]]
  <2>1. \A k \in DOMAIN table : table[k] \in Images \cap Living(table, Dropped(t))
    BY <1>3 DEF Living, Range
  <2>2. \A k \in DOMAIN table : zips'[table[k]] = zips[table[k]]
    BY <2>1, <1>1, AssignTypes DEF IInv
  <2> QED
    BY <2>2, <1>1, <1>3 DEF Assign, Dropped
<1>5. IInv'
  BY EraseHandleInv DEF RInv
<1>6. Bound' = Bound /\ BoundFile' = BoundFile
  <2>1. Bound' = Bound
    BY <1>2, <1>3, <1>4 DEF Bound
  <2> QED
    BY <2>1, <1>2, <1>3, <1>4 DEF BoundFile, Bound
<1>7. TableInv'
  BY <1>1, <1>3, <1>4 DEF RInv, TableInv
<1>8. FirstClosed'
  BY <1>1, AssignClosed
<1>9. CloserInv'
  <2>1. \A u \in Threads : pc'[u] \notin {"opening", "closing"}
    BY <1>1 DEF IInv, VarsType, LockHeld
  <2>2. \A u \in Threads : pc[u] = "closing" => u = t
    BY <1>1 DEF IInv, LockHeld
  <2>3. \A k \in DOMAIN handles : zips[handles[k]][1].closed => k = h
    BY <2>2 DEF RInv, CloserInv, h
  <2>4. \A k \in DOMAIN handles' : ~zips'[handles'[k]][1].closed
    BY <2>3, <1>3, <1>4
  <2> QED
    BY <2>1, <2>4 DEF CloserInv
<1>10. ASSUME NEW u \in Threads
       PROVE  ReadInv(u)'
  <2>1. CASE u = t
    BY <2>1, <1>1 DEF RInv, ReadInv, IInv, VarsType
  <2>2. CASE u # t
    <3>1. /\ pc'[u] = pc[u] /\ held'[u] = held[u] /\ asked'[u] = asked[u] /\ got'[u] = got[u]
          /\ ReadInv(u)
      BY <2>2, <1>1, <1>4 DEF RInv, IInv, VarsType
    <3>2. ASSUME ReadSoFar(u)
          PROVE  ReadSoFar(u)'
      <4> SUFFICES ASSUME asked[u].file # NoFile, asked[u].handle \in Bound
                   PROVE  /\ handles'[asked[u].handle] = held[u]
                          /\ zips'[held[u]][1].file = asked[u].file
                          /\ \A k \in DOMAIN got[u] : got[u][k] = Parts[asked[u].file][k]
        BY <3>1, <1>6 DEF ReadSoFar
      <4>1. asked[u].handle \in DOMAIN table
        BY <1>2, <1>3 DEF Bound
      <4> QED
        BY <4>1, <3>2, <1>3, <1>4 DEF ReadSoFar
    <3> QED
      BY <3>1, <3>2, <1>1 DEF ReadInv
  <2> QED
    BY <2>1, <2>2
<1>11. UNCHANGED Table!tableVars
  BY <1>1, <1>6 DEF Table!tableVars
<1> QED
  BY <1>5, <1>7, <1>8, <1>9, <1>10, <1>11 DEF RInv, Implements

\* The C API is in no call when it is initialised again.
LEMMA InitAgainRefines ==
  ASSUME RInv, NEW t \in Threads, InitAgain(t)
  PROVE  RInv' /\ Implements
<1> DEFINE table == [h \in {} |-> NoImage]
<1>1. /\ IInv /\ Assign(table, held) /\ \A u \in Threads : pc[u] = "idle"
      /\ given' = {} /\ UNCHANGED <<api, pc, arg, got, asked, reply>>
  BY DEF RInv, InitAgain, MayCall, readVars
<1>2. handles' = table /\ DOMAIN handles' = {}
  BY <1>1 DEF Assign
<1>3. IInv'
  BY InitAgainInv DEF RInv
<1>4. TableInv'
  BY <1>1, <1>2 DEF TableInv
<1>5. FirstClosed'
  BY <1>1, AssignClosed
<1>6. CloserInv'
  BY <1>1, <1>2 DEF CloserInv
<1>7. \A u \in Threads : ReadInv(u)'
  BY <1>1 DEF RInv, ReadInv
<1>8. Table!Reset
  <2>1. Bound' = {} /\ BoundFile' = [h \in {} |-> NoFile]
    BY <1>2 DEF Bound, BoundFile
  <2> QED
    BY <2>1, <1>1 DEF Table!Reset
<1> QED
  BY <1>3, <1>4, <1>5, <1>6, <1>7, <1>8 DEF RInv, Implements, Table!Next

LEMMA NextRefines ==
  ASSUME RInv, [Next]_vars
  PROVE  RInv' /\ [Table!Next]_(Table!tableVars)
<1>1. CASE UNCHANGED vars
  <2>1. IInv'
    BY <1>1, NextInv DEF RInv
  <2>2. SameTable /\ UNCHANGED Table!tableVars
    BY <1>1, BoundSame DEF vars, callVars, readVars, SameTable, Table!tableVars
  <2>3. \A t \in Threads : ReadInv(t)'
    BY <1>1, <2>2, ReadSame DEF vars, callVars, readVars
  <2> QED
    BY <1>1, <2>1, <2>2, <2>3 DEF RInv, TableInv, FirstClosed, CloserInv, vars, callVars, readVars
<1>2. ASSUME NEW t \in Threads, CallStep(t)
      PROVE  RInv' /\ Implements
  BY <1>2, OpenPartRefines, StoreImageRefines, GiveUpRefines, ReadPartRefines, ReturnBytesRefines,
     ReturnFailedRefines, EraseHandleRefines DEF CallStep
<1>3. CASE Next
  BY <1>2, <1>3, InitAgainRefines, OpenContainerRefines, FindImageRefines, CloseContainerRefines
     DEF Next, Implements
<1> QED
  BY <1>1, <1>3

LEMMA InitRefines == Init => Table!Init
  BY DEF Init, Table!Init, BoundFile, Bound

(* Both libraries are a table of handles (IsHandleTable): a handle is new  *)
(* when it is given out and reads its own image until it is closed, for    *)
(* any number of threads, files, descriptors and handles.                  *)
THEOREM ImplementsTable == Spec => IsHandleTable
<1>1. RInv /\ [Next]_vars => RInv' /\ [Table!Next]_(Table!tableVars)
  BY NextRefines
<1> QED
  BY <1>1, InitRInv, InitRefines, PTL DEF Spec, IsHandleTable, Table!Spec

=============================================================================
