------------------------------ MODULE Handles ------------------------------
(***************************************************************************)
(* The two libraries that give images out by number: the C API (aff4-c.cc) *)
(* and the X-Ways plugin (win32/xwaysPlugin/xwaysPlugin.cc), above the     *)
(* file descriptors their containers read from (zip/Zip.cc:108-127, 374).  *)
(*                                                                         *)
(* A call opens an image under the lock: its container, then the ones its  *)
(* map needs, each with a descriptor.  The tuple of resolver, container    *)
(* and stream is one object here, an image: it lives while the table or a  *)
(* call has it, and closes its descriptors when it dies.  A descriptor     *)
(* that is closed may be given to the next file that is opened.            *)
(***************************************************************************)
EXTENDS Integers, Sequences, Functions, FiniteSets

CONSTANTS
    Threads,
    Files,       \* file names
    Kinds,       \* Kinds[f]: "image", or "empty": a container without an image
    Parts,       \* Parts[f]: the files its map reads from, f first
    Descriptors,
    Images,      \* names of the objects
    MaxHandle,   \* bounds nextHandle
    NoFile, NoImage, NoThread, NoReply, Failed, Nothing

ASSUME FilesAssumption ==
    /\ Kinds \in [Files -> {"image", "empty"}]
    /\ Parts \in [Files -> Seq(Files)]
    /\ \A f \in Files : Parts[f] # <<>> /\ Parts[f][1] = f
ASSUME BoundAssumption == MaxHandle \in Nat
ASSUME SentinelsAssumption ==
    /\ NoFile \notin Files /\ NoImage \notin Images /\ NoThread \notin Threads
    /\ Failed # NoReply /\ {Failed, NoReply} \cap Seq(Files) = {}
    /\ Nothing \notin [handle : 1 .. MaxHandle, file : Files \cup {NoFile}]

VARIABLES
    api,         \* "c" or "iio"
    files,       \* the operating system: the file of each descriptor, NoFile when free
    zips,        \* zips[i]: the zips of image i, its own first: [fd, file, closed]
    handles,     \* handles: handle -> image
    nextHandle,
    apiLock,     \* the thread that holds it; for the C API, that is in a call
    pc, arg,     \* where each thread is, and the file or handle it was called with
    held,        \* the image a call has in a local variable
    got,         \* the files IIO_Work has read from so far
    given,       \* the handles given out since the table was made (history)
    asked, reply \* of reads: what was asked (history), what was returned

callVars == <<apiLock, pc, arg, held>>
readVars == <<got, asked, reply>>
vars == <<api, files, zips, handles, nextHandle, callVars, given, readVars>>

Handle == 1 .. MaxHandle
Zip == [fd : Descriptors, file : Files, closed : BOOLEAN]

\* An image in the table is whole: it has a zip for every part of its file.
TypeOK ==
    /\ api \in {"c", "iio"}
    /\ files \in [Descriptors -> Files \cup {NoFile}]
    /\ zips \in [Images -> Seq(Zip)]
    /\ DOMAIN handles \subseteq Handle
    /\ \A h \in DOMAIN handles :
         LET z == zips[handles[h]]
         IN  z # <<>> /\ [n \in DOMAIN z |-> z[n].file] = Parts[z[1].file]
    /\ nextHandle \in 1 .. MaxHandle + 1
    /\ apiLock \in Threads \cup {NoThread}
    /\ pc \in [Threads -> {"idle", "opening", "working", "closing"}]
    /\ arg \in [Threads -> Files \cup Handle \cup {NoFile}]
    /\ held \in [Threads -> Images \cup {NoImage}]
    /\ got \in [Threads -> Seq(Files)]
    /\ given \subseteq Handle
    /\ asked \in [Threads -> [handle : Handle, file : Files \cup {NoFile}] \cup {Nothing}]
    /\ reply \in [Threads -> Seq(Files) \cup {NoReply, Failed}]

Init ==
    /\ api \in {"c", "iio"}
    /\ files = [d \in Descriptors |-> NoFile]
    /\ zips = [i \in Images |-> <<>>]
    /\ handles = [h \in {} |-> NoImage]
    /\ nextHandle = 1
    /\ apiLock = NoThread
    /\ pc = [t \in Threads |-> "idle"]
    /\ arg = [t \in Threads |-> NoFile]
    /\ held = [t \in Threads |-> NoImage]
    /\ got = [t \in Threads |-> <<>>]
    /\ given = {}
    /\ asked = [t \in Threads |-> Nothing]
    /\ reply = [t \in Threads |-> NoReply]

-----------------------------------------------------------------------------
(* Descriptors and the lifetime of images.                                 *)

Free == {d \in Descriptors : files[d] = NoFile}

\* The name of a new object is of no account.
Unused == {i \in Images : zips[i] = <<>>}
NewImage == CHOOSE i \in Unused : TRUE

\* The operating system gives any free descriptor.
OpenZip(i, f) ==
    \E d \in Free :
        /\ files' = [files EXCEPT ![d] = f]
        /\ zips' = [zips EXCEPT ![i] = Append(@, [fd |-> d, file |-> f, closed |-> FALSE])]

ClosedAgain(z) == {z[n].fd : n \in DOMAIN z}

\* ~Zip() and close(): closed.exchange(true) keeps the second from closing a descriptor.
ClosedNow(z) == {z[n].fd : n \in {m \in DOMAIN z : ~z[m].closed}}

\* The images somebody still has a copy of.
Living(table, calls) == Range(table) \cup (Range(calls) \ {NoImage})

(* handles and the calls' local variables become table and calls; images   *)
(* nobody has any more are destroyed, with the zips that are still open.   *)
Assign(table, calls) ==
    LET dead == {i \in Images : zips[i] # <<>> /\ i \notin Living(table, calls)}
        closing == UNION {ClosedNow(zips[i]) : i \in dead}
    IN  /\ handles' = table
        /\ held' = calls
        /\ zips' = [i \in Images |-> IF i \in dead THEN <<>> ELSE zips[i]]
        /\ files' = [d \in Descriptors |-> IF d \in closing THEN NoFile ELSE files[d]]

KeptByCall(t) == held

Dropped(t) == [held EXCEPT ![t] = NoImage]

Goto(t, step) == pc' = [pc EXCEPT ![t] = step]

\* The C API is used by one thread at a time ("NOT MT-SAFE", aff4-c.h:65).
MayCall(t) ==
    /\ pc[t] = "idle"
    /\ apiLock = NoThread
    /\ api = "c" => \A u \in Threads : pc[u] = "idle"

-----------------------------------------------------------------------------
(* AFF4_open, IIO_Init                                                     *)

(* The descriptors suffice for the image; a file that is no container is   *)
(* refused and changes nothing.                                            *)
OpenContainer(t, f) ==
    /\ MayCall(t)
    /\ nextHandle <= MaxHandle
    /\ Cardinality(Free) >= Len(Parts[f])
    /\ Unused # {}
    /\ OpenZip(NewImage, f)
    /\ held' = [held EXCEPT ![t] = NewImage]
    /\ apiLock' = t
    /\ Goto(t, "opening")
    /\ arg' = [arg EXCEPT ![t] = f]
    /\ UNCHANGED <<api, handles, nextHandle, given, readVars>>

\* The map stream's constructor opens the other containers its idx needs.
OpenPart(t) ==
    LET i == held[t]
        done == Len(zips[i])
    IN  /\ pc[t] = "opening"
        /\ Kinds[arg[t]] = "image"
        /\ done < Len(Parts[arg[t]])
        /\ OpenZip(i, Parts[arg[t]][done + 1])
        /\ UNCHANGED <<api, handles, nextHandle, callVars, given, readVars>>

UnlockWith(t) ==
    /\ apiLock' = NoThread
    /\ Goto(t, "idle")
    /\ arg' = [arg EXCEPT ![t] = NoFile]

BySize == Cardinality(DOMAIN handles) + 1

NewHandle == nextHandle

GiveOut(h) ==
    /\ nextHandle' = nextHandle + 1
    /\ given' = given \cup {h}

OwnOpened(t) == zips[held[t]] # <<>>

\* getStream() returns when the constructor of the map stream is done.
AllOpened(t) == Len(zips[held[t]]) = Len(Parts[arg[t]])

StoreImage(t) ==
    /\ pc[t] = "opening"
    /\ AllOpened(t)
    /\ Kinds[arg[t]] = "image"
    /\ Assign([h \in DOMAIN handles \cup {NewHandle} |-> IF h = NewHandle THEN held[t] ELSE handles[h]],
              Dropped(t))
    /\ GiveOut(NewHandle)
    /\ UnlockWith(t)
    /\ UNCHANGED <<api, readVars>>

(* No image in the container.  The plugin gives out a handle even so, for  *)
(* the error message; the C API returns -1.                                *)
GiveUp(t) ==
    /\ pc[t] = "opening"
    /\ Kinds[arg[t]] = "empty"
    /\ Assign(handles, Dropped(t))
    /\ IF api = "iio" THEN GiveOut(NewHandle) ELSE UNCHANGED <<nextHandle, given>>
    /\ UnlockWith(t)
    /\ UNCHANGED <<api, readVars>>

-----------------------------------------------------------------------------
(* AFF4_read, IIO_Work: the tuple is copied under the lock, and the copy   *)
(* read from without it.                                                   *)

Bound == {h \in DOMAIN handles : ~zips[handles[h]][1].closed}
BoundFile == [h \in Bound |-> zips[handles[h]][1].file]

FindImage(t, h) ==
    /\ MayCall(t)
    /\ Goto(t, "working")
    /\ held' = [held EXCEPT ![t] = IF h \in DOMAIN handles THEN handles[h] ELSE NoImage]
    /\ asked' = [asked EXCEPT ![t] =
                   [handle |-> h, file |-> IF h \in Bound THEN BoundFile[h] ELSE NoFile]]
    /\ reply' = [reply EXCEPT ![t] = NoReply]
    /\ UNCHANGED <<api, files, zips, handles, nextHandle, apiLock, arg, got, given>>

NextZip(t) == zips[held[t]][Len(got[t]) + 1]

\* fileRead() does not look at closed: it reads from whatever the descriptor is now.
ReadPart(t) ==
    /\ pc[t] = "working"
    /\ held[t] # NoImage
    /\ Len(got[t]) < Len(zips[held[t]])
    /\ files[NextZip(t).fd] # NoFile
    /\ got' = [got EXCEPT ![t] = Append(@, files[NextZip(t).fd])]
    /\ UNCHANGED <<api, files, zips, handles, nextHandle, callVars, given, asked, reply>>

Return(t, r) ==
    /\ reply' = [reply EXCEPT ![t] = r]
    /\ Assign(handles, Dropped(t))
    /\ Goto(t, "idle")
    /\ got' = [got EXCEPT ![t] = <<>>]
    /\ asked' = [asked EXCEPT ![t] = Nothing]
    /\ UNCHANGED <<api, nextHandle, apiLock, arg, given>>

ReturnBytes(t) ==
    /\ pc[t] = "working"
    /\ held[t] # NoImage
    /\ Len(got[t]) = Len(zips[held[t]])
    /\ Return(t, got[t])

(* The handle is not in the table, or its container was closed: then       *)
(* fileRead() fails, or a segment the read needs is no longer listed.      *)
ReturnFailed(t) ==
    /\ pc[t] = "working"
    /\ held[t] # NoImage => Len(got[t]) < Len(zips[held[t]]) /\ NextZip(t).closed
    /\ Return(t, Failed)

-----------------------------------------------------------------------------
(* AFF4_close, IIO_Done                                                    *)

CloseContainer(t, h) ==
    /\ MayCall(t)
    /\ h \in DOMAIN handles
    /\ LET i == handles[h]
       IN  /\ held' = [held EXCEPT ![t] = i]
           /\ zips' = [zips EXCEPT ![i][1].closed = TRUE]
           /\ files' = [d \in Descriptors |-> IF d \in ClosedNow(<<zips[i][1]>>) THEN NoFile ELSE files[d]]
    /\ apiLock' = t
    /\ Goto(t, "closing")
    /\ arg' = [arg EXCEPT ![t] = h]
    /\ UNCHANGED <<api, handles, nextHandle, given, readVars>>

EraseHandle(t) ==
    /\ pc[t] = "closing"
    /\ Assign(Restrict(handles, DOMAIN handles \ {arg[t]}), Dropped(t))
    /\ UnlockWith(t)
    /\ UNCHANGED <<api, nextHandle, given, readVars>>

\* AFF4_init() again: the table is dropped with its images, and numbering starts anew.
InitAgain(t) ==
    /\ api = "c"
    /\ MayCall(t)
    /\ Assign([h \in {} |-> NoImage], held)
    /\ nextHandle' = 1
    /\ given' = {}
    /\ UNCHANGED <<api, apiLock, pc, arg, readVars>>

\* A thread in a call that need not wait for the lock.
CallStep(t) ==
    \/ OpenPart(t) \/ StoreImage(t) \/ GiveUp(t)
    \/ ReadPart(t) \/ ReturnBytes(t) \/ ReturnFailed(t)
    \/ EraseHandle(t)

Next ==
    \E t \in Threads :
        \/ CallStep(t)
        \/ InitAgain(t)
        \/ \E f \in Files : OpenContainer(t, f)
        \/ \E h \in Handle : FindImage(t, h) \/ CloseContainer(t, h)

Spec == Init /\ [][Next]_vars

FairSpec == Spec /\ \A t \in Threads : WF_vars(CallStep(t))

-----------------------------------------------------------------------------
(* Properties.                                                             *)

ZipAt(p) == zips[p[1]][p[2]]
OpenZips == UNION {{<<i, n>> : n \in {m \in DOMAIN zips[i] : ~zips[i][m].closed}} : i \in Images}

(* No zip reads from another's file while it is open, and nothing leaks:   *)
(* the descriptors in use are those of the open zips, one each, whatever   *)
(* was closed, destroyed and opened again meanwhile (Zip.cc:108-127).      *)
DescriptorsAreOurs ==
    /\ \A p \in OpenZips : files[ZipAt(p).fd] = ZipAt(p).file
    /\ \A p, q \in OpenZips : ZipAt(p).fd = ZipAt(q).fd => p = q
    /\ \A d \in Descriptors : files[d] # NoFile => \E p \in OpenZips : ZipAt(p).fd = d

(* Both libraries keep the promise of a table of handles: a handle is new  *)
(* when it is given out, also one for a failed IIO_Init, and reads its own *)
(* image until it is closed, though another thread opens and closes others *)
(* while IIO_Work reads without the lock (xwaysPlugin.cc:384-452).         *)
Content(f) == Parts[f]
Table == INSTANCE HandleTable WITH
    Handles <- Handle, ContentOf <- Content, bound <- BoundFile
IsHandleTable == Table!Spec

(* What an image holds is given back: once it is in the table no more, its *)
(* descriptors are closed as soon as the reads under way have returned,    *)
(* those of the other containers of its map too (xwaysPlugin.cc:458-475).  *)
ClosedIsFreed ==
    \A i \in Images :
        zips[i] # <<>> /\ i \notin Range(handles) ~> zips[i] = <<>> \/ i \in Range(handles)
=============================================================================
