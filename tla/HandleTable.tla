---------------------------- MODULE HandleTable ----------------------------
(***************************************************************************)
(* What a table of image handles promises (aff4-c.h, xwaysPlugin.h): every *)
(* handle it gives out is new, and until it is closed a read through it    *)
(* gives that image or fails; a read through a handle that is not open     *)
(* fails.  Nothing is promised to a read that the closing of its handle    *)
(* overtakes.                                                              *)
(***************************************************************************)
EXTENDS Naturals

CONSTANTS Threads, Handles, Files, ContentOf(_), NoFile, NoReply, Failed, Nothing

VARIABLES
    bound,  \* the image of each open handle
    given,  \* the handles given out since the table was made
    asked,  \* asked[t]: the handle thread t reads, and the image it was open on
    reply   \* reply[t]: what the read gave

tableVars == <<bound, given, asked, reply>>

Init ==
    /\ bound = [h \in {} |-> NoFile]
    /\ given = {}
    /\ asked = [t \in Threads |-> Nothing]
    /\ reply = [t \in Threads |-> NoReply]

Open(h, f) ==
    /\ h \notin given
    /\ given' = given \cup {h}
    /\ bound' = [i \in DOMAIN bound \cup {h} |-> IF i = h THEN f ELSE bound[i]]
    /\ UNCHANGED <<asked, reply>>

\* The handle of an image that could not be opened, for its error message.
Spend(h) ==
    /\ h \notin given
    /\ given' = given \cup {h}
    /\ UNCHANGED <<bound, asked, reply>>

Close(h) ==
    /\ h \in DOMAIN bound
    /\ bound' = [i \in DOMAIN bound \ {h} |-> bound[i]]
    /\ UNCHANGED <<given, asked, reply>>

\* AFF4_init(): the table is made anew.
Reset ==
    /\ bound' = [h \in {} |-> NoFile]
    /\ given' = {}
    /\ UNCHANGED <<asked, reply>>

FileOf(h) == IF h \in DOMAIN bound THEN bound[h] ELSE NoFile

Ask(t, h) ==
    /\ asked[t] = Nothing
    /\ asked' = [asked EXCEPT ![t] = [handle |-> h, file |-> FileOf(h)]]
    /\ reply' = [reply EXCEPT ![t] = NoReply]
    /\ UNCHANGED <<bound, given>>

Promised(q, r) ==
    \/ r = Failed
    \/ /\ q.file # NoFile
       /\ FileOf(q.handle) = q.file => r = ContentOf(q.file)

Answer(t) ==
    /\ asked[t] # Nothing
    /\ asked' = [asked EXCEPT ![t] = Nothing]
    /\ \A u \in Threads : reply'[u] = reply[u] \/ u = t
    /\ Promised(asked[t], reply'[t])
    /\ UNCHANGED <<bound, given>>

Next ==
    \/ \E h \in Handles : Close(h) \/ Spend(h) \/ \E f \in Files : Open(h, f)
    \/ Reset
    \/ \E t \in Threads : Answer(t) \/ \E h \in Handles : Ask(t, h)

Spec == Init /\ [][Next]_tableVars
=============================================================================
