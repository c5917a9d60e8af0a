----------------------------- MODULE ByteStream -----------------------------
(***************************************************************************)
(* What an aff4::IAFF4Stream promises its callers (IAFF4Stream.h): a       *)
(* stream has a fixed content until it is closed; read(buf, count, offset) *)
(* returns the number of bytes it put in the buffer, or -1, and the bytes  *)
(* are those of the content from that offset on.  A read begun after the   *)
(* stream was closed fails.  Nothing is promised to a read that close()    *)
(* overtakes.                                                              *)
(***************************************************************************)
EXTENDS Integers, Sequences

CONSTANTS Threads, Calls, NoCall, NoReply

VARIABLES
    content,  \* the bytes: a function on 0 .. size - 1
    open,
    call,     \* call[t]: what thread t asked for last, and whether too late
    reply     \* reply[t]: the count and the bytes it was given

streamVars == <<content, open, call, reply>>

Init ==
    /\ call = [t \in Threads |-> NoCall]
    /\ reply = [t \in Threads |-> NoReply]

Ask(t) ==
    /\ call[t] # NoCall => reply[t] # NoReply
    /\ \E c \in Calls :
         call' = [call EXCEPT ![t] = [offset |-> c.offset, count |-> c.count, late |-> ~open]]
    /\ reply' = [reply EXCEPT ![t] = NoReply]
    /\ UNCHANGED <<content, open>>

\* The first n bytes asked for, as the content has them.
Served(c, n) == [i \in 1 .. n |-> content[c.offset + i - 1]]

Promised(c, r) ==
    \/ r.n = -1
    \/ /\ ~c.late
       /\ \/ ~open
          \/ /\ r.n \in 0 .. c.count
             /\ \A i \in 1 .. r.n : c.offset + i - 1 \in DOMAIN content
             /\ r.bytes = Served(c, r.n)

Answer(t) ==
    /\ call[t] # NoCall
    /\ reply[t] = NoReply
    /\ \A u \in Threads : reply'[u] = reply[u] \/ u = t
    /\ reply'[t] # NoReply
    /\ Promised(call[t], reply'[t])
    /\ UNCHANGED <<content, open, call>>

Close ==
    /\ open
    /\ open' = FALSE
    /\ UNCHANGED <<content, call, reply>>

Next == Close \/ \E t \in Threads : Ask(t) \/ Answer(t)

Spec == Init /\ [][Next]_streamVars
=============================================================================
