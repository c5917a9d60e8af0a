-------------------------- MODULE ResolverProofs --------------------------
(***************************************************************************)
(* The resolver returns the volume asked for, and finds one whose files    *)
(* stay, for any threads, files, resources and contents of the files.      *)
(***************************************************************************)
EXTENDS Resolver, TLAPS

\* Inside a scan, or in openContainer(): with the lock held.
Holding == {"scan", "scanSlow", "id", "idSlow", "zip"}

\* The map names files by the IDs they hold.
MapIsTrue == \A r \in Resources : volumes[r] # NoFile => Content[volumes[r]].id = r

\* Whoever works with the map for more than a step holds the lock.
HolderInv == \A t \in Threads : pc[t] \in Holding => mapLock = t

\* The file that is open is one of the resource wanted.
FileInv ==
    \A t \in Threads :
        /\ pc[t] = "scanSlow" => file \in Files
        /\ pc[t] \in {"id", "idSlow", "zip"} => file \in Holders(want[t])
        /\ pc[t] \in {"idSlow", "zip"} => id = want[t]

StayedInv == \A t \in Threads : stayed[t] \subseteq disk

\* The volume t wants has been there, every file of it, since t called.
Stays(t) ==
    /\ Holders(want[t]) # {}
    /\ Holders(want[t]) \subseteq stayed[t]
    /\ \A f \in Holders(want[t]) : Content[f].large

(* How far a call for it has come: the scan has yet to meet each of its    *)
(* files or has put one in the map, and then the map keeps one.            *)
SearchInv ==
    \A t \in Threads : Stays(t) =>
        /\ pc[t] \in {"scan", "scanSlow"} => Holders(want[t]) \subseteq due
        /\ pc[t] = "scan" => (Holders(want[t]) \cap visited = {} \/ Known(want[t]))
        /\ pc[t] = "scanSlow" =>
              (Holders(want[t]) \cap visited \subseteq {file} \/ Known(want[t]))
        /\ pc[t] = "open" => Known(want[t])
        /\ pc[t] = "idle" => reply[t] \in {want[t], NoReply}

IInv ==
    /\ TypeOK /\ MapIsTrue /\ HolderInv /\ FileInv /\ StayedInv
    /\ SearchInv /\ OpensWhatWasAsked

-----------------------------------------------------------------------------
\* The constructor starts in a state that satisfies the invariant.
LEMMA Initially == Init => IInv
<1> SUFFICES ASSUME Init PROVE IInv
  OBVIOUS
<1> USE SentinelsAssumption DEF Init
<1>1. TypeOK
  BY DEF TypeOK, Reply
<1>2. MapIsTrue /\ HolderInv /\ FileInv
  BY DEF MapIsTrue, HolderInv, FileInv, Holding
<1>3. StayedInv /\ OpensWhatWasAsked
  BY DEF StayedInv, OpensWhatWasAsked
<1>4. SearchInv
  BY DEF SearchInv, Stays
<1> QED
  BY <1>1, <1>2, <1>3, <1>4 DEF IInv

(* A call leaves all but the caller as it was.                             *)
LEMMA CallStep == ASSUME IInv, NEW t \in Threads, NEW o \in {"has", "open"}, NEW r \in Resources, Call(t, o, r) PROVE IInv'
<1> USE SentinelsAssumption, ContentAssumption
<1>1. TypeOK'
  BY DEF IInv, TypeOK, FileInv, Holders, Reply, Call, Goto, holderVars, callVars
<1>2. MapIsTrue'
  BY DEF IInv, TypeOK, MapIsTrue, FileInv, Holders, Call, Goto, holderVars, callVars
<1>3. HolderInv'
  BY DEF IInv, TypeOK, HolderInv, Holding, Call, Goto, holderVars, callVars
<1>4. FileInv'
  BY DEF IInv, TypeOK, MapIsTrue, HolderInv, FileInv, Holders, Holding, Call, Goto, holderVars, callVars
<1>5. StayedInv'
  BY DEF IInv, TypeOK, StayedInv, Call, Goto, holderVars, callVars
<1>6. SearchInv'
  BY DEF IInv, TypeOK, MapIsTrue, HolderInv, FileInv, StayedInv, SearchInv, Stays, Known, Holders, Holding, Call, Goto, holderVars, callVars
<1>7. OpensWhatWasAsked'
  BY DEF IInv, TypeOK, HolderInv, FileInv, OpensWhatWasAsked, Call, Goto, holderVars, callVars
<1> QED
  BY <1>1, <1>2, <1>3, <1>4, <1>5, <1>6, <1>7 DEF IInv

(* A resource in the map is known.                                         *)
LEMMA HasHitStep == ASSUME IInv, NEW t \in Threads, HasHit(t) PROVE IInv'
<1> USE SentinelsAssumption, ContentAssumption
<1>1. TypeOK'
  BY DEF IInv, TypeOK, FileInv, Holders, Reply, HasHit, HasReturns, Unlock, Return, Goto, holderVars, callVars
<1>2. MapIsTrue'
  BY DEF IInv, TypeOK, MapIsTrue, FileInv, Holders, HasHit, HasReturns, Unlock, Return, Goto, holderVars, callVars
<1>3. HolderInv'
  BY DEF IInv, TypeOK, HolderInv, Holding, HasHit, HasReturns, Unlock, Return, Goto, holderVars, callVars
<1>4. FileInv'
  BY DEF IInv, TypeOK, MapIsTrue, HolderInv, FileInv, Holders, Holding, HasHit, HasReturns, Unlock, Return, Goto, holderVars, callVars
<1>5. StayedInv'
  BY DEF IInv, TypeOK, StayedInv, HasHit, HasReturns, Unlock, Return, Goto, holderVars, callVars
<1>6. SearchInv'
  BY DEF IInv, TypeOK, MapIsTrue, HolderInv, FileInv, StayedInv, SearchInv, Stays, Known, Holders, Holding, HasHit, HasReturns, Unlock, Return, Goto, holderVars, callVars
<1>7. OpensWhatWasAsked'
  BY DEF IInv, TypeOK, HolderInv, FileInv, OpensWhatWasAsked, HasHit, HasReturns, Unlock, Return, Goto, holderVars, callVars
<1> QED
  BY <1>1, <1>2, <1>3, <1>4, <1>5, <1>6, <1>7 DEF IInv

(* A scan begins with every file of a volume that stays still to come.     *)
LEMMA HasMissStep == ASSUME IInv, NEW t \in Threads, HasMiss(t) PROVE IInv'
<1> USE SentinelsAssumption, ContentAssumption
<1>1. TypeOK'
  BY DEF IInv, TypeOK, FileInv, Holders, Reply, HasMiss, Rescan, Goto, holderVars, callVars
<1>2. MapIsTrue'
  BY DEF IInv, TypeOK, MapIsTrue, FileInv, Holders, HasMiss, Rescan, Goto, holderVars, callVars
<1>3. HolderInv'
  BY DEF IInv, TypeOK, HolderInv, Holding, HasMiss, Rescan, Goto, holderVars, callVars
<1>4. FileInv'
  BY DEF IInv, TypeOK, MapIsTrue, HolderInv, FileInv, Holders, Holding, HasMiss, Rescan, Goto, holderVars, callVars
<1>5. StayedInv'
  BY DEF IInv, TypeOK, StayedInv, HasMiss, Rescan, Goto, holderVars, callVars
<1>6. SearchInv'
  BY DEF IInv, TypeOK, MapIsTrue, HolderInv, FileInv, StayedInv, SearchInv, Stays, Known, Holders, Holding, HasMiss, Rescan, Goto, holderVars, callVars
<1>7. OpensWhatWasAsked'
  BY DEF IInv, TypeOK, HolderInv, FileInv, OpensWhatWasAsked, HasMiss, Rescan, Goto, holderVars, callVars
<1> QED
  BY <1>1, <1>2, <1>3, <1>4, <1>5, <1>6, <1>7 DEF IInv

(* Going past a file of a volume that stays puts it in the map.            *)
LEMMA ScanFileStep == ASSUME IInv, NEW t \in Threads, NEW f \in Files, ScanFile(t, f) PROVE IInv'
<1> USE SentinelsAssumption, ContentAssumption
<1>1. TypeOK'
  BY DEF IInv, TypeOK, FileInv, Holders, Reply, ScanFile, Add, Visit, Goto, MapContains, holderVars, callVars
<1>2. MapIsTrue'
  BY DEF IInv, TypeOK, MapIsTrue, FileInv, Holders, ScanFile, Add, Visit, Goto, MapContains, holderVars, callVars
<1>3. HolderInv'
  BY DEF IInv, TypeOK, HolderInv, Holding, ScanFile, Add, Visit, Goto, MapContains, holderVars, callVars
<1>4. FileInv'
  BY DEF IInv, TypeOK, MapIsTrue, HolderInv, FileInv, Holders, Holding, ScanFile, Add, Visit, Goto, MapContains, holderVars, callVars
<1>5. StayedInv'
  BY DEF IInv, TypeOK, StayedInv, ScanFile, Add, Visit, Goto, MapContains, holderVars, callVars
<1>6. SearchInv'
  BY DEF IInv, TypeOK, MapIsTrue, HolderInv, FileInv, StayedInv, SearchInv, Stays, Known, Holders, Holding, ScanFile, Add, Visit, Goto, MapContains, holderVars, callVars
<1>7. OpensWhatWasAsked'
  BY DEF IInv, TypeOK, HolderInv, FileInv, OpensWhatWasAsked, ScanFile, Add, Visit, Goto, MapContains, holderVars, callVars
<1> QED
  BY <1>1, <1>2, <1>3, <1>4, <1>5, <1>6, <1>7 DEF IInv

(* So does the slow way to its ID.                                         *)
LEMMA ScanSlowlyStep == ASSUME IInv, NEW t \in Threads, ScanSlowly(t) PROVE IInv'
<1> USE SentinelsAssumption, ContentAssumption
<1>1. TypeOK'
  BY DEF IInv, TypeOK, FileInv, Holders, Reply, ScanSlowly, Add, Goto, holderVars, callVars
<1>2. MapIsTrue'
  BY DEF IInv, TypeOK, MapIsTrue, FileInv, Holders, ScanSlowly, Add, Goto, holderVars, callVars
<1>3. HolderInv'
  BY DEF IInv, TypeOK, HolderInv, Holding, ScanSlowly, Add, Goto, holderVars, callVars
<1>4. FileInv'
  BY DEF IInv, TypeOK, MapIsTrue, HolderInv, FileInv, Holders, Holding, ScanSlowly, Add, Goto, holderVars, callVars
<1>5. StayedInv'
  BY DEF IInv, TypeOK, StayedInv, ScanSlowly, Add, Goto, holderVars, callVars
<1>6. SearchInv'
  BY DEF IInv, TypeOK, MapIsTrue, HolderInv, FileInv, StayedInv, SearchInv, Stays, Known, Holders, Holding, ScanSlowly, Add, Goto, holderVars, callVars
<1>7. OpensWhatWasAsked'
  BY DEF IInv, TypeOK, HolderInv, FileInv, OpensWhatWasAsked, ScanSlowly, Add, Goto, holderVars, callVars
<1> QED
  BY <1>1, <1>2, <1>3, <1>4, <1>5, <1>6, <1>7 DEF IInv

(* A scan that is through has met every file that stayed.                  *)
LEMMA ScanEndsStep == ASSUME IInv, NEW t \in Threads, ScanEnds(t) PROVE IInv'
<1> USE SentinelsAssumption, ContentAssumption
<1>1. TypeOK'
  BY DEF IInv, TypeOK, FileInv, Holders, Reply, ScanEnds, HasReturns, Unlock, Return, Goto, holderVars, callVars
<1>2. MapIsTrue'
  BY DEF IInv, TypeOK, MapIsTrue, FileInv, Holders, ScanEnds, HasReturns, Unlock, Return, Goto, holderVars, callVars
<1>3. HolderInv'
  BY DEF IInv, TypeOK, HolderInv, Holding, ScanEnds, HasReturns, Unlock, Return, Goto, holderVars, callVars
<1>4. FileInv'
  BY DEF IInv, TypeOK, MapIsTrue, HolderInv, FileInv, Holders, Holding, ScanEnds, HasReturns, Unlock, Return, Goto, holderVars, callVars
<1>5. StayedInv'
  BY DEF IInv, TypeOK, StayedInv, ScanEnds, HasReturns, Unlock, Return, Goto, holderVars, callVars
<1>6. SearchInv'
  BY DEF IInv, TypeOK, MapIsTrue, HolderInv, FileInv, StayedInv, SearchInv, Stays, Known, Holders, Holding, ScanEnds, HasReturns, Unlock, Return, Goto, holderVars, callVars
<1>7. OpensWhatWasAsked'
  BY DEF IInv, TypeOK, HolderInv, FileInv, OpensWhatWasAsked, ScanEnds, HasReturns, Unlock, Return, Goto, holderVars, callVars
<1> QED
  BY <1>1, <1>2, <1>3, <1>4, <1>5, <1>6, <1>7 DEF IInv

(* The file taken from the map is one of the resource.                     *)
LEMMA OpenFileStep == ASSUME IInv, NEW t \in Threads, OpenFile(t) PROVE IInv'
<1> USE SentinelsAssumption, ContentAssumption
<1>1. TypeOK'
  BY DEF IInv, TypeOK, FileInv, Holders, Reply, OpenFile, FileOf, Goto, holderVars, callVars
<1>2. MapIsTrue'
  BY DEF IInv, TypeOK, MapIsTrue, FileInv, Holders, OpenFile, FileOf, Goto, holderVars, callVars
<1>3. HolderInv'
  BY DEF IInv, TypeOK, HolderInv, Holding, OpenFile, FileOf, Goto, holderVars, callVars
<1>4. FileInv'
  BY DEF IInv, TypeOK, MapIsTrue, HolderInv, FileInv, Holders, Holding, OpenFile, FileOf, Goto, holderVars, callVars
<1>5. StayedInv'
  BY DEF IInv, TypeOK, StayedInv, OpenFile, FileOf, Goto, holderVars, callVars
<1>6. SearchInv'
  BY DEF IInv, TypeOK, MapIsTrue, HolderInv, FileInv, StayedInv, SearchInv, Stays, Known, Holders, Holding, OpenFile, FileOf, Goto, holderVars, callVars
<1>7. OpensWhatWasAsked'
  BY DEF IInv, TypeOK, HolderInv, FileInv, OpensWhatWasAsked, OpenFile, FileOf, Goto, holderVars, callVars
<1> QED
  BY <1>1, <1>2, <1>3, <1>4, <1>5, <1>6, <1>7 DEF IInv

(* A resource with a file that stays is not taken for gone.                *)
LEMMA OpenGoneStep == ASSUME IInv, NEW t \in Threads, OpenGone(t) PROVE IInv'
<1> USE SentinelsAssumption, ContentAssumption
<1>1. TypeOK'
  BY DEF IInv, TypeOK, FileInv, Holders, Reply, OpenGone, FileOf, Return, Goto, holderVars, callVars
<1>2. MapIsTrue'
  BY DEF IInv, TypeOK, MapIsTrue, FileInv, Holders, OpenGone, FileOf, Return, Goto, holderVars, callVars
<1>3. HolderInv'
  BY DEF IInv, TypeOK, HolderInv, Holding, OpenGone, FileOf, Return, Goto, holderVars, callVars
<1>4. FileInv'
  BY DEF IInv, TypeOK, MapIsTrue, HolderInv, FileInv, Holders, Holding, OpenGone, FileOf, Return, Goto, holderVars, callVars
<1>5. StayedInv'
  BY DEF IInv, TypeOK, StayedInv, OpenGone, FileOf, Return, Goto, holderVars, callVars
<1>6. SearchInv'
  BY DEF IInv, TypeOK, MapIsTrue, HolderInv, FileInv, StayedInv, SearchInv, Stays, Known, Holders, Holding, OpenGone, FileOf, Return, Goto, holderVars, callVars
<1>7. OpensWhatWasAsked'
  BY DEF IInv, TypeOK, HolderInv, FileInv, OpensWhatWasAsked, OpenGone, FileOf, Return, Goto, holderVars, callVars
<1> QED
  BY <1>1, <1>2, <1>3, <1>4, <1>5, <1>6, <1>7 DEF IInv

(* The ID read is the one wanted.                                          *)
LEMMA ReadIDStep == ASSUME IInv, NEW t \in Threads, ReadID(t) PROVE IInv'
<1> USE SentinelsAssumption, ContentAssumption
<1>1. TypeOK'
  BY DEF IInv, TypeOK, FileInv, Holders, Reply, ReadID, OpenReturns, Unlock, Return, Goto, holderVars, callVars
<1>2. MapIsTrue'
  BY DEF IInv, TypeOK, MapIsTrue, FileInv, Holders, ReadID, OpenReturns, Unlock, Return, Goto, holderVars, callVars
<1>3. HolderInv'
  BY DEF IInv, TypeOK, HolderInv, Holding, ReadID, OpenReturns, Unlock, Return, Goto, holderVars, callVars
<1>4. FileInv'
  BY DEF IInv, TypeOK, MapIsTrue, HolderInv, FileInv, Holders, Holding, ReadID, OpenReturns, Unlock, Return, Goto, holderVars, callVars
<1>5. StayedInv'
  BY DEF IInv, TypeOK, StayedInv, ReadID, OpenReturns, Unlock, Return, Goto, holderVars, callVars
<1>6. SearchInv'
  BY DEF IInv, TypeOK, MapIsTrue, HolderInv, FileInv, StayedInv, SearchInv, Stays, Known, Holders, Holding, ReadID, OpenReturns, Unlock, Return, Goto, holderVars, callVars
<1>7. OpensWhatWasAsked'
  BY DEF IInv, TypeOK, HolderInv, FileInv, OpensWhatWasAsked, ReadID, OpenReturns, Unlock, Return, Goto, holderVars, callVars
<1> QED
  BY <1>1, <1>2, <1>3, <1>4, <1>5, <1>6, <1>7 DEF IInv

(* The slow way changes nothing in that.                                   *)
LEMMA ReadIDSlowlyStep == ASSUME IInv, NEW t \in Threads, ReadIDSlowly(t) PROVE IInv'
<1> USE SentinelsAssumption, ContentAssumption
<1>1. TypeOK'
  BY DEF IInv, TypeOK, FileInv, Holders, Reply, ReadIDSlowly, OpenReturns, Unlock, Return, Goto, holderVars, callVars
<1>2. MapIsTrue'
  BY DEF IInv, TypeOK, MapIsTrue, FileInv, Holders, ReadIDSlowly, OpenReturns, Unlock, Return, Goto, holderVars, callVars
<1>3. HolderInv'
  BY DEF IInv, TypeOK, HolderInv, Holding, ReadIDSlowly, OpenReturns, Unlock, Return, Goto, holderVars, callVars
<1>4. FileInv'
  BY DEF IInv, TypeOK, MapIsTrue, HolderInv, FileInv, Holders, Holding, ReadIDSlowly, OpenReturns, Unlock, Return, Goto, holderVars, callVars
<1>5. StayedInv'
  BY DEF IInv, TypeOK, StayedInv, ReadIDSlowly, OpenReturns, Unlock, Return, Goto, holderVars, callVars
<1>6. SearchInv'
  BY DEF IInv, TypeOK, MapIsTrue, HolderInv, FileInv, StayedInv, SearchInv, Stays, Known, Holders, Holding, ReadIDSlowly, OpenReturns, Unlock, Return, Goto, holderVars, callVars
<1>7. OpensWhatWasAsked'
  BY DEF IInv, TypeOK, HolderInv, FileInv, OpensWhatWasAsked, ReadIDSlowly, OpenReturns, Unlock, Return, Goto, holderVars, callVars
<1> QED
  BY <1>1, <1>2, <1>3, <1>4, <1>5, <1>6, <1>7 DEF IInv

(* The container returned is the one wanted.                               *)
LEMMA OpenZipStep == ASSUME IInv, NEW t \in Threads, OpenZip(t) PROVE IInv'
<1> USE SentinelsAssumption, ContentAssumption
<1>1. TypeOK'
  BY DEF IInv, TypeOK, FileInv, Holders, Reply, OpenZip, OpenReturns, Unlock, Return, Goto, holderVars, callVars
<1>2. MapIsTrue'
  BY DEF IInv, TypeOK, MapIsTrue, FileInv, Holders, OpenZip, OpenReturns, Unlock, Return, Goto, holderVars, callVars
<1>3. HolderInv'
  BY DEF IInv, TypeOK, HolderInv, Holding, OpenZip, OpenReturns, Unlock, Return, Goto, holderVars, callVars
<1>4. FileInv'
  BY DEF IInv, TypeOK, MapIsTrue, HolderInv, FileInv, Holders, Holding, OpenZip, OpenReturns, Unlock, Return, Goto, holderVars, callVars
<1>5. StayedInv'
  BY DEF IInv, TypeOK, StayedInv, OpenZip, OpenReturns, Unlock, Return, Goto, holderVars, callVars
<1>6. SearchInv'
  BY DEF IInv, TypeOK, MapIsTrue, HolderInv, FileInv, StayedInv, SearchInv, Stays, Known, Holders, Holding, OpenZip, OpenReturns, Unlock, Return, Goto, holderVars, callVars
<1>7. OpensWhatWasAsked'
  BY DEF IInv, TypeOK, HolderInv, FileInv, OpensWhatWasAsked, OpenZip, OpenReturns, Unlock, Return, Goto, holderVars, callVars
<1> QED
  BY <1>1, <1>2, <1>3, <1>4, <1>5, <1>6, <1>7 DEF IInv

(* A file that comes in takes nothing away.                                *)
LEMMA ArriveStep == ASSUME IInv, NEW f \in Files, Arrive(f) PROVE IInv'
<1> USE SentinelsAssumption, ContentAssumption
<1>1. TypeOK'
  BY DEF IInv, TypeOK, FileInv, Holders, Reply, Arrive, holderVars, callVars
<1>2. MapIsTrue'
  BY DEF IInv, TypeOK, MapIsTrue, FileInv, Holders, Arrive, holderVars, callVars
<1>3. HolderInv'
  BY DEF IInv, TypeOK, HolderInv, Holding, Arrive, holderVars, callVars
<1>4. FileInv'
  BY DEF IInv, TypeOK, MapIsTrue, HolderInv, FileInv, Holders, Holding, Arrive, holderVars, callVars
<1>5. StayedInv'
  BY DEF IInv, TypeOK, StayedInv, Arrive, holderVars, callVars
<1>6. SearchInv'
  BY DEF IInv, TypeOK, MapIsTrue, HolderInv, FileInv, StayedInv, SearchInv, Stays, Known, Holders, Holding, Arrive, holderVars, callVars
<1>7. OpensWhatWasAsked'
  BY DEF IInv, TypeOK, HolderInv, FileInv, OpensWhatWasAsked, Arrive, holderVars, callVars
<1> QED
  BY <1>1, <1>2, <1>3, <1>4, <1>5, <1>6, <1>7 DEF IInv

(* A file that leaves no longer stays.                                     *)
LEMMA LeaveStep == ASSUME IInv, NEW f \in Files, Leave(f) PROVE IInv'
<1> USE SentinelsAssumption, ContentAssumption
<1>1. TypeOK'
  BY DEF IInv, TypeOK, FileInv, Holders, Reply, Leave, holderVars, callVars
<1>2. MapIsTrue'
  BY DEF IInv, TypeOK, MapIsTrue, FileInv, Holders, Leave, holderVars, callVars
<1>3. HolderInv'
  BY DEF IInv, TypeOK, HolderInv, Holding, Leave, holderVars, callVars
<1>4. FileInv'
  BY DEF IInv, TypeOK, MapIsTrue, HolderInv, FileInv, Holders, Holding, Leave, holderVars, callVars
<1>5. StayedInv'
  BY DEF IInv, TypeOK, StayedInv, Leave, holderVars, callVars
<1>6. SearchInv'
  BY DEF IInv, TypeOK, MapIsTrue, HolderInv, FileInv, StayedInv, SearchInv, Stays, Known, Holders, Holding, Leave, holderVars, callVars
<1>7. OpensWhatWasAsked'
  BY DEF IInv, TypeOK, HolderInv, FileInv, OpensWhatWasAsked, Leave, holderVars, callVars
<1> QED
  BY <1>1, <1>2, <1>3, <1>4, <1>5, <1>6, <1>7 DEF IInv

-----------------------------------------------------------------------------
(* The invariant holds in every state of the resolver.                     *)
THEOREM Invariance == Spec => []IInv
<1>1. Init => IInv
  BY Initially
<1>2. IInv /\ [Next]_vars => IInv'
  <2> SUFFICES ASSUME IInv, [Next]_vars PROVE IInv'
    OBVIOUS
  <2>1. CASE UNCHANGED vars
    BY <2>1 DEF IInv, TypeOK, MapIsTrue, HolderInv, FileInv, StayedInv, SearchInv, OpensWhatWasAsked,
                Stays, Known, Holders, vars, callVars, holderVars
  <2>2. ASSUME NEW t \in Threads, Step(t) PROVE IInv'
    BY <2>2, HasHitStep, HasMissStep, ScanFileStep, ScanSlowlyStep, ScanEndsStep, OpenFileStep,
       OpenGoneStep, ReadIDStep, ReadIDSlowlyStep, OpenZipStep DEF Step
  <2>3. ASSUME NEW t \in Threads, NEW o \in {"has", "open"}, NEW r \in Resources, Call(t, o, r) PROVE IInv'
    BY <2>3, CallStep
  <2>4. ASSUME NEW f \in Files, Arrive(f) \/ Leave(f) PROVE IInv'
    BY <2>4, ArriveStep, LeaveStep
  <2> QED
    BY <2>1, <2>2, <2>3, <2>4 DEF Next
<1> QED
  BY <1>1, <1>2, PTL DEF Spec

(* The resolver's variables keep their types.                              *)
THEOREM TypeCorrect == Spec => []TypeOK
<1>1. IInv => TypeOK
  BY DEF IInv
<1> QED
  BY <1>1, Invariance, PTL

(* open() returns what was asked for, or nothing (LightResolver.cc:44-60). *)
THEOREM OpensRight == Spec => []OpensWhatWasAsked
<1>1. IInv => OpensWhatWasAsked
  BY DEF IInv
<1> QED
  BY <1>1, Invariance, PTL

(* A volume whose files stay in the directory for the whole call is found, *)
(* however the other threads' calls and the other files come and go.       *)
THEOREM FindsRight == Spec => []FindsWhatStays
<1>1. IInv => FindsWhatStays
  BY DEF IInv, SearchInv, Stays, FindsWhatStays
<1> QED
  BY <1>1, Invariance, PTL
=============================================================================
