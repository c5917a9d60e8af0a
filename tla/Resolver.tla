----------------------------- MODULE Resolver -----------------------------
(***************************************************************************)
(* The resolver that finds the volume files of a directory by their        *)
(* resource IDs (resolver/LightResolver.cc), and the opening of a volume   *)
(* file (AFF4Containers.cc:56-107, 115-300).  Threads ask it for resources *)
(* while files come and go in the directory.                               *)
(*                                                                         *)
(* The name of a file stands for its path.  Files are moved in and out,    *)
(* not rewritten: one that returns has the content it had.                 *)
(***************************************************************************)
EXTENDS Naturals

CONSTANTS
    Threads,
    Files,      \* names of volume files below basePath
    Resources,
    Content,    \* Content[f]: [id, large, first]: its resource ID, whether it
                \* fills the buffer, and whether it begins with its description
    NoFile, NoId, NoThread, NoReply

ASSUME SentinelsAssumption ==
    /\ NoFile \notin Files
    /\ NoId \notin Resources
    /\ NoReply \notin Resources /\ NoReply # NoId
    /\ NoThread \notin Threads
ASSUME ContentAssumption ==
    Content \in [Files -> [id : Resources, large : BOOLEAN, first : BOOLEAN]]

VARIABLES
    disk,          \* the files that exist
    volumes,       \* the file of each resource, NoFile if it is not in the map
    mapLock,       \* the thread that holds it, or NoThread
    ready,         \* the constructor has returned
    pc,            \* where each thread is
    op, want,      \* what it was called for
    visited, due,  \* the directory entries the holder's scan has gone through,
                   \* and those it must come to: there when it began
    file, id,      \* the file the holder opens, and what getResourceID() gave
    reply,         \* the object returned, or NoId (hasResource(): want is TRUE)
    stayed         \* the files that were there ever since the call (history)

callVars == <<op, want>>
holderVars == <<visited, due, file, id>>
vars == <<disk, volumes, mapLock, ready, pc, callVars, holderVars, reply, stayed>>

Reply == Resources \cup {NoId, NoReply}

TypeOK ==
    /\ disk \in SUBSET Files
    /\ volumes \in [Resources -> Files \cup {NoFile}]
    /\ mapLock \in Threads \cup {NoThread}
    /\ ready \in BOOLEAN
    /\ pc \in [Threads -> {"idle", "has", "scan", "scanSlow", "open", "id", "idSlow", "zip"}]
    /\ op \in [Threads -> {"new", "has", "open", "none"}]
    /\ want \in [Threads -> Resources]
    /\ visited \in SUBSET Files
    /\ due \in SUBSET Files
    /\ file \in Files \cup {NoFile}
    /\ id \in Resources \cup {NoId}
    /\ reply \in [Threads -> Reply]
    /\ stayed \in [Threads -> SUBSET Files]

\* One thread is in the constructor, which holds the lock and scans.
Init ==
    /\ disk \in SUBSET Files
    /\ volumes = [r \in Resources |-> NoFile]
    /\ ready = FALSE
    /\ mapLock \in Threads
    /\ pc = [t \in Threads |-> IF t = mapLock THEN "scan" ELSE "idle"]
    /\ op = [t \in Threads |-> IF t = mapLock THEN "new" ELSE "none"]
    /\ \E r \in Resources : want = [t \in Threads |-> r]
    /\ visited = {} /\ due = disk
    /\ file = NoFile /\ id = NoId
    /\ reply = [t \in Threads |-> NoReply]
    /\ stayed = [t \in Threads |-> {}]

Goto(t, step) == pc' = [pc EXCEPT ![t] = step]

Return(t, r) ==
    /\ Goto(t, "idle")
    /\ op' = [op EXCEPT ![t] = "none"]
    /\ reply' = [reply EXCEPT ![t] = r]

Call(t, o, r) ==
    /\ ready
    /\ pc[t] = "idle"
    /\ Goto(t, "has")
    /\ op' = [op EXCEPT ![t] = o]
    /\ want' = [want EXCEPT ![t] = r]
    /\ reply' = [reply EXCEPT ![t] = NoReply]
    /\ stayed' = [stayed EXCEPT ![t] = disk]
    /\ UNCHANGED <<disk, volumes, mapLock, ready, holderVars>>

-----------------------------------------------------------------------------
(* hasResource() and scanForAFF4Volumes()                                  *)

Known(r) == volumes[r] # NoFile

\* What the holder worked with goes out of scope with its lock.
Unlock ==
    /\ mapLock' = NoThread
    /\ visited' = {} /\ due' = {}
    /\ file' = NoFile /\ id' = NoId

(* What follows hasResource(): its caller returns, or open() goes on to    *)
(* take the lock again; the lock is released in between.                   *)
HasReturns(t, yes) ==
    /\ Unlock
    /\ IF op[t] = "open" /\ yes
       THEN Goto(t, "open") /\ UNCHANGED <<op, reply>>
       ELSE Return(t, IF op[t] = "new" THEN NoReply ELSE IF yes THEN want[t] ELSE NoId)

HasHit(t) ==
    /\ pc[t] = "has"
    /\ mapLock = NoThread
    /\ Known(want[t])
    /\ HasReturns(t, TRUE)
    /\ UNCHANGED <<disk, volumes, ready, want, stayed>>

NoRescan(t) == HasReturns(t, FALSE)

Rescan(t) ==
    /\ mapLock' = t
    /\ Goto(t, "scan")
    /\ visited' = {}
    /\ due' = disk
    /\ UNCHANGED <<op, file, id, reply>>

HasMiss(t) ==
    /\ pc[t] = "has"
    /\ mapLock = NoThread
    /\ ~Known(want[t])
    /\ Rescan(t)
    /\ UNCHANGED <<disk, volumes, ready, want, stayed>>

MapContains(f) == \E r \in Resources : volumes[r] = f

AsWanted(f) == volumes' = [volumes EXCEPT ![want[mapLock]] = f]

AddSwapped(f) == volumes' = [volumes EXCEPT ![Content[f].id] = Content[f].id]

Add(f) == volumes' = [volumes EXCEPT ![Content[f].id] = f]

Revisit(f) == visited

Visit(f) == visited \cup {f}

(* One directory entry: one that was there all along, or one that came in  *)
(* between.  A file that is gone, known, or too short for the buffer is    *)
(* passed over; one that does not begin with its description is opened     *)
(* again as a zip file.                                                    *)
ScanFile(t, f) ==
    /\ pc[t] = "scan"
    /\ f \in (disk \cup due) \ visited
    /\ visited' = Visit(f)
    /\ LET reads == f \in disk /\ ~MapContains(f) /\ Content[f].large
       IN  /\ IF reads /\ Content[f].first THEN Add(f) ELSE UNCHANGED volumes
           /\ IF reads /\ ~Content[f].first
              THEN Goto(t, "scanSlow") /\ file' = f
              ELSE UNCHANGED <<pc, file>>
    /\ UNCHANGED <<disk, mapLock, ready, callVars, due, id, reply, stayed>>

ScanSlowly(t) ==
    /\ pc[t] = "scanSlow"
    /\ IF file \in disk THEN Add(file) ELSE UNCHANGED volumes
    /\ Goto(t, "scan")
    /\ file' = NoFile
    /\ UNCHANGED <<disk, mapLock, ready, callVars, visited, due, id, reply, stayed>>

ScanEnds(t) ==
    /\ pc[t] = "scan"
    /\ due \subseteq visited
    /\ HasReturns(t, Known(want[t]))
    /\ ready' = TRUE
    /\ UNCHANGED <<disk, volumes, want, stayed>>

-----------------------------------------------------------------------------
(* open(): the file of the volume, then openContainer()                    *)

FileOf(r) == volumes[r]

(* The map may have changed since hasResource(); operator[] then gives an  *)
(* empty name, which no file has.                                          *)
OpenFile(t) ==
    /\ pc[t] = "open"
    /\ mapLock = NoThread
    /\ FileOf(want[t]) \in disk
    /\ mapLock' = t
    /\ file' = FileOf(want[t])
    /\ Goto(t, "id")
    /\ UNCHANGED <<disk, volumes, ready, callVars, visited, due, id, reply, stayed>>

OpenGone(t) ==
    /\ pc[t] = "open"
    /\ mapLock = NoThread
    /\ FileOf(want[t]) \notin disk
    /\ volumes' = [volumes EXCEPT ![want[t]] = NoFile]
    /\ Return(t, NoId)
    /\ UNCHANGED <<disk, mapLock, ready, want, holderVars, stayed>>

OpenReturns(t, r) == Unlock /\ Return(t, r)

ReadID(t) ==
    /\ pc[t] = "id"
    /\ IF file \in disk /\ Content[file].large
       THEN /\ id' = Content[file].id
            /\ Goto(t, IF Content[file].first THEN "zip" ELSE "idSlow")
            /\ UNCHANGED <<mapLock, op, visited, due, file, reply>>
       ELSE OpenReturns(t, NoId)
    /\ UNCHANGED <<disk, volumes, ready, want, stayed>>

ReadIDSlowly(t) ==
    /\ pc[t] = "idSlow"
    /\ IF file \in disk
       THEN Goto(t, "zip") /\ UNCHANGED <<mapLock, op, holderVars, reply>>
       ELSE OpenReturns(t, NoId)
    /\ UNCHANGED <<disk, volumes, ready, want, stayed>>

\* A zip file without entries, or gone by now, gives no container.
OpenZip(t) ==
    /\ pc[t] = "zip"
    /\ OpenReturns(t, IF file \in disk THEN id ELSE NoId)
    /\ UNCHANGED <<disk, volumes, ready, want, stayed>>

-----------------------------------------------------------------------------
(* The directory                                                           *)

Arrive(f) ==
    /\ f \notin disk
    /\ disk' = disk \cup {f}
    /\ UNCHANGED <<volumes, mapLock, ready, pc, callVars, holderVars, reply, stayed>>

Leave(f) ==
    /\ f \in disk
    /\ disk' = disk \ {f}
    /\ stayed' = [t \in Threads |-> stayed[t] \ {f}]
    /\ UNCHANGED <<volumes, mapLock, ready, pc, callVars, holderVars, reply>>

Step(t) ==
    \/ HasHit(t) \/ HasMiss(t)
    \/ (\E f \in Files : ScanFile(t, f)) \/ ScanSlowly(t) \/ ScanEnds(t)
    \/ OpenFile(t) \/ OpenGone(t) \/ ReadID(t) \/ ReadIDSlowly(t) \/ OpenZip(t)

Next ==
    \/ \E t \in Threads : Step(t) \/ \E o \in {"has", "open"}, r \in Resources : Call(t, o, r)
    \/ \E f \in Files : Arrive(f) \/ Leave(f)

Spec == Init /\ [][Next]_vars

\* A thread that can go on does; nothing is said of who gets a free lock.
FairSpec == Spec /\ \A t \in Threads : WF_vars(Step(t))

-----------------------------------------------------------------------------
(* Properties.                                                             *)

(* open() returns the object that was asked for, or nothing, whatever      *)
(* other threads and the directory do between its look at the map and the  *)
(* opening of the file (LightResolver.cc:44-60).                           *)
OpensWhatWasAsked ==
    \A t \in Threads : pc[t] = "idle" => reply[t] \in {want[t], NoId, NoReply}

(* A resource whose volume files, one or several with its ID, stay in the  *)
(* directory for the whole call is found ("The object if found",           *)
(* IAFF4Resolver.h:70), also if it came after the last scan or another     *)
(* thread drops and rescans entries meanwhile (LightResolver.cc:62-80).    *)
Holders(r) == {f \in Files : Content[f].id = r}
FindsWhatStays ==
    \A t \in Threads :
        LET f == Holders(want[t])
        IN  /\ f # {} /\ f \subseteq stayed[t]
            /\ \A g \in f : Content[g].large
            /\ pc[t] = "idle" /\ reply[t] # NoReply
            => reply[t] = want[t]

(* A thread that holds the lock lets go of it, however the directory       *)
(* changes while it scans.                                                 *)
LockIsReleased == \A t \in Threads : mapLock = t ~> mapLock # t
=============================================================================
