------------------------- MODULE ImageStreamProofs -------------------------
(***************************************************************************)
(* Proofs about ImageStream, for any number of readers, any sizes of       *)
(* chunks, bevvies and caches, and any of its faults.                      *)
(***************************************************************************)
EXTENDS ImageStream, SequenceTheorems, FiniteSetTheorems, TLAPS

ChunkEntry == [key : Nat, value : ChunkValue]
BevvyEntry == [key : Nat, value : {"points", "garbage"}]

-----------------------------------------------------------------------------
(* The caches hold old entries and at most one new one.                    *)

LEMMA SubSeqEntries ==
  ASSUME NEW S, NEW s \in Seq(S), NEW m \in Nat \ {0}, NEW n \in Nat, n <= Len(s)
  PROVE  SubSeq(s, m, n) \in Seq(S) /\ Range(SubSeq(s, m, n)) \subseteq Range(s)
<1>1. Len(s) \in Nat /\ DOMAIN s = 1 .. Len(s) /\ \A i \in 1 .. Len(s) : s[i] \in S
  BY LenProperties, ElementOfSeq
<1>2. m \in Int /\ n \in Int /\ \A i \in m .. n : i \in 1 .. Len(s)
  BY <1>1
<1>3. \A i \in m .. n : s[i] \in S
  BY <1>1, <1>2
<1> DEFINE b == SubSeq(s, m, n)
<1>4. /\ b \in Seq(S) /\ Len(b) = IF m <= n THEN n - m + 1 ELSE 0
      /\ \A i \in 1 .. n - m + 1 : b[i] = s[m + i - 1]
  BY <1>2, <1>3, SubSeqProperties
<1> HIDE DEF b
<1>5. DOMAIN b = 1 .. Len(b)
  BY <1>4, LenProperties
<1>6. \A i \in DOMAIN b : i \in 1 .. n - m + 1 /\ m + i - 1 \in 1 .. Len(s)
  BY <1>1, <1>4, <1>5
<1>7. \A i \in DOMAIN b : b[i] \in Range(s)
  BY <1>1, <1>4, <1>6 DEF Range
<1> QED
  BY <1>4, <1>7 DEF Range, b

LEMMA RemoveAtEntries ==
  ASSUME NEW S, NEW s \in Seq(S), NEW i \in DOMAIN s
  PROVE  RemoveAt(s, i) \in Seq(S) /\ Range(RemoveAt(s, i)) \subseteq Range(s)
<1>1. Len(s) \in Nat /\ i \in 1 .. Len(s)
  BY LenProperties
<1> DEFINE a == SubSeq(s, 1, i - 1)
           b == SubSeq(s, i + 1, Len(s))
<1>2. a \in Seq(S) /\ Range(a) \subseteq Range(s)
  BY <1>1, SubSeqEntries
<1>3. b \in Seq(S) /\ Range(b) \subseteq Range(s)
  BY <1>1, SubSeqEntries
<1>4. RemoveAt(s, i) = a \o b
  BY DEF RemoveAt
<1> HIDE DEF a, b
<1>5. a \o b \in Seq(S) /\ Range(a \o b) = Range(a) \cup Range(b)
  BY <1>2, <1>3, ConcatProperties, RangeConcatenation
<1> QED
  BY <1>2, <1>3, <1>4, <1>5

LEMMA PrependEntries ==
  ASSUME NEW S, NEW e \in S, NEW r \in Seq(S)
  PROVE  /\ <<e>> \o r \in Seq(S) /\ Range(<<e>> \o r) = {e} \cup Range(r)
         /\ Len(<<e>> \o r) >= 1 /\ (<<e>> \o r)[1] = e
<1> DEFINE one == <<e>>
<1>1. one \in Seq(S) /\ Len(one) = 1 /\ one[1] = e /\ DOMAIN one = {1}
  OBVIOUS
<1> HIDE DEF one
<1>2. Range(one) = {e}
  BY <1>1 DEF Range
<1>3. Range(one \o r) = Range(one) \cup Range(r)
  BY <1>1, RangeConcatenation
<1>4. one \o r \in Seq(S) /\ Len(one \o r) = 1 + Len(r) /\ (one \o r)[1] = e
  <2>1. /\ one \o r \in Seq(S) /\ Len(one \o r) = Len(one) + Len(r)
        /\ \A i \in 1 .. Len(one) + Len(r) :
             (one \o r)[i] = IF i <= Len(one) THEN one[i] ELSE r[i - Len(one)]
    BY <1>1, ConcatProperties, ZenonT(30)
  <2>2. 1 \in 1 .. Len(one) + Len(r)
    BY <1>1, LenProperties
  <2> QED
    BY <2>1, <2>2, <1>1
<1> QED
  BY <1>2, <1>3, <1>4, LenProperties DEF one

LEMMA ChunksWithout ==
  ASSUME NEW S, NEW s \in Seq(S), NEW k
  PROVE  /\ Chunks!Without(s, k) \in Seq(S) /\ Range(Chunks!Without(s, k)) \subseteq Range(s)
         /\ k \in Chunks!KeysOf(s) => Chunks!Place(s, k) \in DOMAIN s
<1>1. k \in Chunks!KeysOf(s) => Chunks!Place(s, k) \in DOMAIN s
  BY DEF Chunks!KeysOf, Chunks!Place
<1> QED
  <2>1. CASE k \in Chunks!KeysOf(s)
    <3> DEFINE p == Chunks!Place(s, k)
    <3>1. Chunks!Without(s, k) = RemoveAt(s, p)
      BY <2>1 DEF Chunks!Without, Chunks!RemoveAt, RemoveAt
    <3>2. p \in DOMAIN s
      BY <2>1, <1>1
    <3> HIDE DEF p
    <3> QED
      BY <3>1, <3>2, <1>1, <2>1, RemoveAtEntries
  <2>2. CASE k \notin Chunks!KeysOf(s)
    BY <2>2 DEF Chunks!Without
  <2> QED
    BY <2>1, <2>2, <1>1

LEMMA BevviesWithout ==
  ASSUME NEW S, NEW s \in Seq(S), NEW k
  PROVE  /\ Bevvies!Without(s, k) \in Seq(S) /\ Range(Bevvies!Without(s, k)) \subseteq Range(s)
         /\ k \in Bevvies!KeysOf(s) => Bevvies!Place(s, k) \in DOMAIN s
<1>1. k \in Bevvies!KeysOf(s) => Bevvies!Place(s, k) \in DOMAIN s
  BY DEF Bevvies!KeysOf, Bevvies!Place
<1> QED
  <2>1. CASE k \in Bevvies!KeysOf(s)
    <3> DEFINE p == Bevvies!Place(s, k)
    <3>1. Bevvies!Without(s, k) = RemoveAt(s, p)
      BY <2>1 DEF Bevvies!Without, Bevvies!RemoveAt, RemoveAt
    <3>2. p \in DOMAIN s
      BY <2>1, <1>1
    <3> HIDE DEF p
    <3> QED
      BY <3>1, <3>2, <1>1, <2>1, RemoveAtEntries
  <2>2. CASE k \notin Bevvies!KeysOf(s)
    BY <2>2 DEF Bevvies!Without
  <2> QED
    BY <2>1, <2>2, <1>1

LEMMA BoundedEntries ==
  ASSUME NEW S, NEW s \in Seq(S), NEW max \in Nat \ {0}, Len(s) >= 1
  PROVE  LET n == IF Len(s) > max THEN max ELSE Len(s)
         IN  /\ SubSeq(s, 1, n) \in Seq(S) /\ Range(SubSeq(s, 1, n)) \subseteq Range(s)
             /\ SubSeq(s, 1, n) # <<>> /\ SubSeq(s, 1, n)[1] = s[1]
<1> DEFINE n == IF Len(s) > max THEN max ELSE Len(s)
<1>1. n \in Nat \ {0} /\ n <= Len(s) /\ Len(s) \in Nat
  BY LenProperties
<1> HIDE DEF n
<1>2. SubSeq(s, 1, n) \in Seq(S) /\ Range(SubSeq(s, 1, n)) \subseteq Range(s)
  BY <1>1, SubSeqEntries
<1>3. \A i \in 1 .. n : s[i] \in S
  BY <1>1, ElementOfSeq
<1>4. Len(SubSeq(s, 1, n)) = n /\ SubSeq(s, 1, n)[1] = s[1]
  BY <1>1, <1>3, SubSeqProperties
<1>5. SubSeq(s, 1, n) # <<>>
  BY <1>1, <1>4
<1> QED
  BY <1>2, <1>4, <1>5 DEF n

LEMMA ChunksLoaded ==
  ASSUME chunkCache \in Seq(ChunkEntry), NEW c \in Nat, NEW v \in ChunkValue
  PROVE  LET s == Chunks!Loaded(chunkCache, c, v)
         IN  /\ s \in Seq(ChunkEntry)
             /\ Range(s) \subseteq {[key |-> c, value |-> v]} \cup Range(chunkCache)
<1> DEFINE e == [key |-> c, value |-> v]
           r == Chunks!Without(chunkCache, c)
<1>1. e \in ChunkEntry
  BY DEF ChunkEntry
<1>2. Chunks!Loaded(chunkCache, c, v) = Chunks!Bounded(<<e>> \o r)
  BY DEF Chunks!Loaded
<1> HIDE DEF e, r
<1>3. r \in Seq(ChunkEntry) /\ Range(r) \subseteq Range(chunkCache)
  BY ChunksWithout DEF r
<1>4. <<e>> \o r \in Seq(ChunkEntry) /\ Range(<<e>> \o r) = {e} \cup Range(r) /\ Len(<<e>> \o r) >= 1
  BY <1>1, <1>3, PrependEntries
<1> DEFINE all == <<e>> \o r
           s == Chunks!Bounded(all)
<1>5. all \in Seq(ChunkEntry) /\ Len(all) >= 1 /\ ChunkCacheSize \in Nat \ {0}
  BY <1>4, SizesAssumption
<1> HIDE DEF all
<1>6. s \in Seq(ChunkEntry) /\ Range(s) \subseteq Range(all)
  BY <1>5, BoundedEntries DEF Chunks!Bounded
<1> QED
  BY <1>2, <1>3, <1>4, <1>6 DEF e, all

LEMMA ChunksRefreshed ==
  ASSUME chunkCache \in Seq(ChunkEntry), NEW c \in Chunks!KeysOf(chunkCache)
  PROVE  LET s == Chunks!Refreshed(chunkCache, c)
         IN  /\ s \in Seq(ChunkEntry) /\ Range(s) \subseteq Range(chunkCache)
             /\ s[1] \in Range(chunkCache) /\ s[1] \in ChunkEntry
<1> DEFINE e == chunkCache[Chunks!Place(chunkCache, c)]
           r == Chunks!Without(chunkCache, c)
<1>1. e \in ChunkEntry /\ e \in Range(chunkCache)
  BY ChunksWithout DEF Range
<1>2. Chunks!Refreshed(chunkCache, c) = <<e>> \o r
  BY DEF Chunks!Refreshed
<1> HIDE DEF e, r
<1>3. r \in Seq(ChunkEntry) /\ Range(r) \subseteq Range(chunkCache)
  BY ChunksWithout DEF r
<1>4. <<e>> \o r \in Seq(ChunkEntry) /\ Range(<<e>> \o r) = {e} \cup Range(r) /\ (<<e>> \o r)[1] = e
  BY <1>1, <1>3, PrependEntries
<1> QED
  BY <1>1, <1>2, <1>3, <1>4

LEMMA BevviesLoaded ==
  ASSUME bevvyCache \in Seq(BevvyEntry), NEW b \in Nat, NEW v \in {"points", "garbage"}
  PROVE  LET s == Bevvies!Loaded(bevvyCache, b, v)
         IN  /\ s \in Seq(BevvyEntry) /\ s[1] = [key |-> b, value |-> v]
             /\ Range(s) \subseteq {[key |-> b, value |-> v]} \cup Range(bevvyCache)
<1> DEFINE e == [key |-> b, value |-> v]
           r == Bevvies!Without(bevvyCache, b)
<1>1. e \in BevvyEntry
  BY DEF BevvyEntry
<1>2. Bevvies!Loaded(bevvyCache, b, v) = Bevvies!Bounded(<<e>> \o r)
  BY DEF Bevvies!Loaded
<1> HIDE DEF e, r
<1>3. r \in Seq(BevvyEntry) /\ Range(r) \subseteq Range(bevvyCache)
  BY BevviesWithout DEF r
<1>4. /\ <<e>> \o r \in Seq(BevvyEntry) /\ Range(<<e>> \o r) = {e} \cup Range(r)
      /\ Len(<<e>> \o r) >= 1 /\ (<<e>> \o r)[1] = e
  BY <1>1, <1>3, PrependEntries
<1> DEFINE all == <<e>> \o r
           s == Bevvies!Bounded(all)
<1>5. all \in Seq(BevvyEntry) /\ Len(all) >= 1 /\ BevvyCacheSize \in Nat \ {0}
  BY <1>4, SizesAssumption
<1> HIDE DEF all
<1>6. s \in Seq(BevvyEntry) /\ Range(s) \subseteq Range(all) /\ s[1] = all[1]
  BY <1>5, BoundedEntries DEF Bevvies!Bounded
<1> QED
  BY <1>2, <1>3, <1>4, <1>6 DEF e, all

LEMMA BevviesRefreshed ==
  ASSUME bevvyCache \in Seq(BevvyEntry), NEW b \in Bevvies!KeysOf(bevvyCache)
  PROVE  LET s == Bevvies!Refreshed(bevvyCache, b)
         IN  /\ s \in Seq(BevvyEntry) /\ Range(s) \subseteq Range(bevvyCache)
             /\ s[1] \in Range(bevvyCache) /\ s[1] \in BevvyEntry
<1> DEFINE e == bevvyCache[Bevvies!Place(bevvyCache, b)]
           r == Bevvies!Without(bevvyCache, b)
<1>1. e \in BevvyEntry /\ e \in Range(bevvyCache)
  BY BevviesWithout DEF Range
<1>2. Bevvies!Refreshed(bevvyCache, b) = <<e>> \o r
  BY DEF Bevvies!Refreshed
<1> HIDE DEF e, r
<1>3. r \in Seq(BevvyEntry) /\ Range(r) \subseteq Range(bevvyCache)
  BY BevviesWithout DEF r
<1>4. <<e>> \o r \in Seq(BevvyEntry) /\ Range(<<e>> \o r) = {e} \cup Range(r) /\ (<<e>> \o r)[1] = e
  BY <1>1, <1>3, PrependEntries
<1> QED
  BY <1>1, <1>2, <1>3, <1>4

-----------------------------------------------------------------------------
(* The inductive invariant.                                                *)

\* How far a load has come: the bytes so far are the first ones, if nothing goes wrong.
FileInv(t) ==
    pc[t] = "file" =>
        /\ file[t].pos <= file[t].len /\ file[t].right <= file[t].len
        /\ faults = {} => file[t].index = "points" /\ file[t].pos = file[t].right

RightValue(v) == v.size = 0 \/ v.right = ChunkSize

CachesRight ==
    faults = {} =>
        /\ \A e \in Range(chunkCache) : RightValue(e.value)
        /\ \A e \in Range(bevvyCache) : e.value = "points"

\* A read under way, or one that has an answer, was asked for.
CallRecord == [offset : 0 .. W - 1, count : 0 .. W - 1, late : BOOLEAN]
Asked(t) == pc[t] # "idle" \/ result[t] # NoReply => call[t] \in CallRecord

IInv == TypeOK /\ LoadsExclude /\ CachesRight /\ \A t \in Threads : FileInv(t) /\ Asked(t)

LEMMA InvImplies == IInv => TypeOK /\ CachedIsRight /\ LoadsExclude
  BY DEF IInv, CachesRight, CachedIsRight, RightValue, Range

LEMMA ModType == \A a \in Int : a % W \in 0 .. W - 1
  BY SizesAssumption

LEMMA ModSame == \A a \in 0 .. W - 1 : a % W = a
  BY SizesAssumption

LEMMA ChunkOfType == \A o \in Nat : ChunkOf(o) \in Nat /\ BevvyOf(o) \in Nat
  BY SizesAssumption DEF ChunkOf, BevvyOf

LEMMA InitInv == Init => IInv
<1> SUFFICES ASSUME Init
             PROVE  IInv
  OBVIOUS
<1>1. <<>> \in Seq(ChunkEntry) /\ <<>> \in Seq(BevvyEntry) /\ <<>> \in Seq(Nat \cup {Garbage})
  OBVIOUS
<1>2. length \in 0 .. W - 1 /\ 0 \in 0 .. W - 1
  BY SizesAssumption DEF Init
<1>3. TypeOK
  BY <1>1, <1>2 DEF Init, TypeOK, NoFile, NoEntry, ChunkEntry, BevvyEntry
<1>4. Range(chunkCache) = {} /\ Range(bevvyCache) = {}
  BY DEF Init, Range
<1> QED
  BY <1>3, <1>4 DEF Init, IInv, LoadsExclude, CachesRight, FileInv, Asked

\* The steps of a reader that leave caches and loads alone.
Quiet(t) ==
    /\ UNCHANGED <<workload, length, chunkCache, bevvyCache, chunkLock>>
    /\ \A u \in Threads \ {t} :
         /\ pc'[u] = pc[u] /\ next'[u] = next[u] /\ file'[u] = file[u]
         /\ call'[u] = call[u] /\ result'[u] = result[u]
    /\ pc'[t] \notin {"index", "file"}
    /\ Asked(t)'

LEMMA QuietInv ==
  ASSUME IInv, NEW t \in Threads, TypeOK', Quiet(t)
  PROVE  IInv'
<1>1. LoadsExclude'
  BY DEF IInv, LoadsExclude, Quiet
<1>2. CachesRight'
  BY DEF IInv, CachesRight, Quiet, faults
<1>3. \A u \in Threads : FileInv(u)'
  BY DEF IInv, FileInv, Quiet, faults
<1>4. \A u \in Threads : Asked(u)'
  BY DEF IInv, Asked, Quiet
<1> QED
  BY <1>1, <1>2, <1>3, <1>4 DEF IInv

LEMMA CallInv ==
  ASSUME IInv, NEW t \in Threads, NEW c \in Calls, Call(t, c)
  PROVE  IInv'
<1>1. c.offset \in 0 .. W - 1 /\ c.count \in 0 .. W - 1 /\ <<>> \in Seq(Nat \cup {Garbage})
  BY CallsAssumption
<1>2. TypeOK'
  <2> DEFINE r == [offset |-> c.offset, count |-> c.count, late |-> closed]
  <2>1. r \in [offset : Nat, count : Nat, late : BOOLEAN]
    BY <1>1, SizesAssumption DEF IInv, TypeOK
  <2>2. call' = [call EXCEPT ![t] = r]
    BY DEF Call
  <2> HIDE DEF r
  <2>3. call' \in [Threads -> [offset : Nat, count : Nat, late : BOOLEAN] \cup {NoCall}]
    BY <2>1, <2>2 DEF IInv, TypeOK
  <2>4. buf' \in [Threads -> Seq(Nat \cup {Garbage})]
    BY <1>1 DEF IInv, TypeOK, Call
  <2>5. result' \in [Threads -> Nat \cup {-1, NoReply}]
    BY DEF IInv, TypeOK, Call
  <2>6. pc' \in [Threads -> {"idle", "called", "loop", "index", "file", "copy"}]
    BY DEF IInv, TypeOK, Call
  <2>7. UNCHANGED <<workload, closed, length, chunkCache, bevvyCache, chunkLock, next, left, file, entry>>
    BY DEF Call, cacheVars
  <2> QED
    BY <2>3, <2>4, <2>5, <2>6, <2>7 DEF IInv, TypeOK
<1>3. Asked(t)'
  BY <1>1, <1>2 DEF IInv, TypeOK, Call, Asked, CallRecord
<1>4. Quiet(t)
  BY <1>3 DEF Quiet, Call, cacheVars, IInv, TypeOK
<1> QED
  BY <1>2, <1>4, QuietInv

LEMMA RefuseInv ==
  ASSUME IInv, NEW t \in Threads, Refuse(t)
  PROVE  IInv'
<1>1. TypeOK'
  BY DEF IInv, TypeOK, Refuse, Return, cacheVars
<1>2. Quiet(t)
  BY DEF Quiet, Refuse, Return, cacheVars, IInv, TypeOK, Asked
<1> QED
  BY <1>1, <1>2, QuietInv

LEMMA FinishInv ==
  ASSUME IInv, NEW t \in Threads, Finish(t)
  PROVE  IInv'
<1>1. Len(buf[t]) \in Nat
  BY DEF IInv, TypeOK
<1>2. TypeOK'
  BY <1>1 DEF IInv, TypeOK, Finish, Return, cacheVars
<1>3. Quiet(t)
  BY DEF Quiet, Finish, Return, cacheVars, IInv, TypeOK, Asked
<1> QED
  BY <1>2, <1>3, QuietInv

LEMMA CloseInv ==
  ASSUME IInv, Close
  PROVE  IInv'
<1>1. TypeOK'
  BY DEF IInv, TypeOK, Close, cacheVars
<1> QED
  BY <1>1 DEF IInv, LoadsExclude, CachesRight, FileInv, Asked, Close, cacheVars, faults

LEMMA ChunkMissInv ==
  ASSUME IInv, NEW t \in Threads, ChunkMiss(t)
  PROVE  IInv'
<1>1. TypeOK'
  BY DEF IInv, TypeOK, ChunkMiss
<1>2. LoadsExclude'
  BY SentinelsAssumption DEF IInv, TypeOK, LoadsExclude, ChunkMiss
<1>3. CachesRight' /\ \A u \in Threads : FileInv(u)' /\ Asked(u)'
  BY DEF IInv, TypeOK, CachesRight, FileInv, Asked, ChunkMiss, faults
<1> QED
  BY <1>1, <1>2, <1>3 DEF IInv

LEMMA ChunkHitInv ==
  ASSUME IInv, NEW t \in Threads, ChunkHit(t)
  PROVE  IInv'
<1> DEFINE c == ChunkOf(next[t])
<1>1. chunkCache \in Seq(ChunkEntry) /\ c \in Chunks!KeysOf(chunkCache)
  BY DEF IInv, TypeOK, ChunkEntry, ChunkHit
<1> HIDE DEF c
<1>2. /\ chunkCache' = Chunks!Refreshed(chunkCache, c) /\ chunkLock = NoThread
      /\ entry' = [entry EXCEPT ![t] = chunkCache'[1]]
      /\ pc' = [pc EXCEPT ![t] = "copy"]
      /\ UNCHANGED <<workload, closed, length, bevvyCache, chunkLock, call, next, left, file, buf, result>>
  BY DEF ChunkHit, c
<1>3. /\ chunkCache' \in Seq(ChunkEntry) /\ Range(chunkCache') \subseteq Range(chunkCache)
      /\ chunkCache'[1] \in ChunkEntry
  BY <1>1, <1>2, ChunksRefreshed
<1>4. TypeOK'
  BY <1>2, <1>3 DEF IInv, TypeOK, ChunkEntry
<1>5. LoadsExclude'
  <2>1. \A u \in Threads : pc[u] \notin {"index", "file"}
    BY <1>2, SentinelsAssumption DEF IInv, LoadsExclude
  <2> QED
    BY <2>1, <1>2 DEF IInv, TypeOK, LoadsExclude
<1>6. CachesRight'
  BY <1>2, <1>3 DEF IInv, CachesRight, faults
<1>7. \A u \in Threads : FileInv(u)'
  BY <1>2 DEF IInv, TypeOK, FileInv, faults
<1>8. \A u \in Threads : Asked(u)'
  <2>1. pc[t] = "loop" /\ \A u \in Threads \ {t} : pc'[u] = pc[u]
    BY <1>2 DEF IInv, TypeOK, ChunkHit
  <2>2. call' = call /\ result' = result /\ CallRecord' = CallRecord
    BY <1>2 DEF CallRecord
  <2> QED
    BY <2>1, <2>2 DEF IInv, Asked
<1> QED
  BY <1>4, <1>5, <1>6, <1>7, <1>8 DEF IInv

LEMMA TruncatedType ==
  ASSUME length \in 0 .. W - 1, NEW o \in 0 .. W - 1, NEW c \in 0 .. W - 1
  PROVE  Truncated(o, c) \in 0 .. W - 1
<1>1. \A a \in Int : a % W \in 0 .. W - 1 /\ a % W \in Int
  BY ModType
<1>2. (o + c) % W \in Int
  BY <1>1
<1>3. (c - (((o + c) % W) - length)) % W \in 0 .. W - 1
  BY <1>1, <1>2
<1> QED
  BY <1>3 DEF Truncated

LEMMA EnterInv ==
  ASSUME IInv, NEW t \in Threads, Enter(t)
  PROVE  IInv'
<1>1. call[t].offset \in 0 .. W - 1 /\ call[t].count \in 0 .. W - 1 /\ call[t] \in CallRecord
  BY DEF IInv, Asked, Enter, CallRecord
<1> DEFINE n == Truncated(call[t].offset, call[t].count)
<1>2. n \in 0 .. W - 1
  BY <1>1, TruncatedType DEF IInv, TypeOK
<1>3. left' = [left EXCEPT ![t] = n]
  BY DEF Enter
<1> HIDE DEF n
<1>4. TypeOK'
  BY <1>1, <1>2, <1>3, ZenonT(30) DEF IInv, TypeOK, Enter, cacheVars
<1>5. Quiet(t)
  BY <1>1 DEF Quiet, Enter, cacheVars, IInv, TypeOK, Asked
<1> QED
  BY <1>4, <1>5, QuietInv

LEMMA CopiedType ==
  ASSUME NEW c \in Nat, NEW v \in ChunkValue, NEW d \in Nat, NEW n \in Nat
  PROVE  Copied(c, v, d, n) \in Seq(Nat \cup {Garbage}) /\ Len(Copied(c, v, d, n)) = n
<1>1. c * ChunkSize \in Nat
  BY SizesAssumption
<1>2. \A i \in 1 .. n : c * ChunkSize + d + i - 1 \in Nat
  BY <1>1
<1> QED
  BY <1>2 DEF Copied

\* What Copy() finds where its reference points to.
CopyValues(t) == IF entry[t].value = Dangling THEN {FailedChunk, Chunk(0)} ELSE {entry[t].value}

LEMMA CopyValuesType ==
  ASSUME TypeOK, NEW t \in Threads, NEW v \in CopyValues(t)
  PROVE  /\ v \in ChunkValue /\ v.size \in {0, ChunkSize} /\ entry[t].key \in Nat
         /\ next[t] % ChunkSize \in 0 .. ChunkSize - 1
<1>1. FailedChunk \in ChunkValue /\ Chunk(0) \in ChunkValue
  BY SizesAssumption DEF FailedChunk, Chunk, ChunkValue
<1>2. entry[t].value \in ChunkValue \cup {Dangling} /\ entry[t].key \in Nat /\ next[t] \in Nat
  <2>1. entry[t] \in [key : Nat, value : ChunkValue \cup {Dangling}] /\ next[t] \in 0 .. W - 1
    BY DEF TypeOK
  <2> QED
    BY <2>1, SizesAssumption
<1>3. v \in ChunkValue
  BY <1>1, <1>2 DEF CopyValues
<1>4. next[t] % ChunkSize \in 0 .. ChunkSize - 1
  BY <1>2, SizesAssumption
<1> QED
  BY <1>2, <1>3, <1>4 DEF ChunkValue

LEMMA CopyLengthType ==
  ASSUME TypeOK, NEW t \in Threads, NEW v \in CopyValues(t)
  PROVE  CopyLength(t, v) \in 0 .. W - 1 /\ CopyLength(t, v) <= left[t]
<1> DEFINE rest == (v.size - (next[t] % ChunkSize)) % W
<1>1. rest \in 0 .. W - 1
  BY CopyValuesType, ModType, SizesAssumption
<1>2. CopyLength(t, v) = IF left[t] < rest THEN left[t] ELSE rest
  BY DEF CopyLength
<1>3. left[t] \in 0 .. W - 1
  BY DEF TypeOK
<1> HIDE DEF rest
<1> QED
  BY <1>1, <1>2, <1>3, SizesAssumption

LEMMA CopyInv ==
  ASSUME IInv, NEW t \in Threads, Copy(t)
  PROVE  IInv'
<1>1. PICK v \in CopyValues(t) :
        IF IsFailed(v)
        THEN Return(t, FailureResult(t)) /\ UNCHANGED <<next, left, buf>>
        ELSE /\ buf' = [buf EXCEPT ![t] = @ \o Copied(entry[t].key, v, next[t] % ChunkSize, CopyLength(t, v))]
             /\ next' = [next EXCEPT ![t] = (@ + CopyLength(t, v)) % W]
             /\ left' = [left EXCEPT ![t] = @ - CopyLength(t, v)]
             /\ pc' = [pc EXCEPT ![t] = "loop"]
             /\ UNCHANGED result
  BY DEF Copy, CopyValues
<1>2. /\ entry' = [entry EXCEPT ![t] = NoEntry] /\ pc[t] = "copy"
      /\ UNCHANGED <<workload, closed, length, chunkCache, bevvyCache, chunkLock, call, file>>
  BY DEF Copy, cacheVars
<1>3. NoEntry \in [key : Nat, value : ChunkValue \cup {Dangling}]
  BY DEF NoEntry
<1>4. CASE IsFailed(v)
  <2>1. TypeOK'
    BY <1>1, <1>2, <1>3, <1>4 DEF IInv, TypeOK, Return, FailureResult
  <2>2. Quiet(t)
    BY <1>1, <1>2, <1>4 DEF Quiet, Return, IInv, TypeOK, Asked
  <2> QED
    BY <2>1, <2>2, QuietInv
<1>5. CASE ~IsFailed(v)
  <2> DEFINE n == CopyLength(t, v)
             d == next[t] % ChunkSize
             more == Copied(entry[t].key, v, d, n)
  <2>1. n \in 0 .. W - 1 /\ n <= left[t] /\ n \in Nat
    BY CopyLengthType, SizesAssumption DEF IInv
  <2>2. d \in Nat /\ v \in ChunkValue /\ entry[t].key \in Nat
    BY CopyValuesType, SizesAssumption DEF IInv
  <2>3. /\ buf' = [buf EXCEPT ![t] = @ \o more]
        /\ next' = [next EXCEPT ![t] = (@ + n) % W]
        /\ left' = [left EXCEPT ![t] = @ - n]
        /\ pc' = [pc EXCEPT ![t] = "loop"]
        /\ UNCHANGED result
    BY <1>1, <1>5
  <2> HIDE DEF n, d
  <2>4. more \in Seq(Nat \cup {Garbage})
    BY <2>1, <2>2, CopiedType
  <2> HIDE DEF more
  <2>5. buf' \in [Threads -> Seq(Nat \cup {Garbage})]
    <3>1. buf[t] \in Seq(Nat \cup {Garbage})
      BY DEF IInv, TypeOK
    <3>2. buf[t] \o more \in Seq(Nat \cup {Garbage})
      BY <3>1, <2>4, ConcatProperties
    <3> QED
      BY <3>2, <2>3 DEF IInv, TypeOK
  <2>6. left' \in [Threads -> 0 .. W - 1]
    <3> left[t] \in 0 .. W - 1
      BY DEF IInv, TypeOK
    <3>1. left[t] - n \in 0 .. W - 1
      BY <2>1, SizesAssumption
    <3> QED
      BY <3>1, <2>3 DEF IInv, TypeOK
  <2>7. next' \in [Threads -> 0 .. W - 1]
    <3> next[t] \in 0 .. W - 1
      BY DEF IInv, TypeOK
    <3>1. (next[t] + n) % W \in 0 .. W - 1
      BY <2>1, SizesAssumption, ModType
    <3> QED
      BY <3>1, <2>3 DEF IInv, TypeOK
  <2>8. TypeOK'
    BY <1>2, <1>3, <2>3, <2>5, <2>6, <2>7 DEF IInv, TypeOK
  <2>9. Quiet(t)
    BY <1>2, <2>3 DEF Quiet, IInv, TypeOK, Asked
  <2> QED
    BY <2>8, <2>9, QuietInv
<1> QED
  BY <1>4, <1>5

-----------------------------------------------------------------------------
(* The loader.                                                             *)

\* What a load that is done leaves behind, whatever it does to the bevvies.
LEMMA DeliverInv ==
  ASSUME IInv, NEW t \in Threads, NEW v \in ChunkValue, Deliver(t, v),
         pc[t] \in {"index", "file"}, faults = {} => RightValue(v),
         UNCHANGED <<workload, closed, length, call, next, left, buf, result>>,
         bevvyCache' \in Seq(BevvyEntry),
         faults = {} => \A e \in Range(bevvyCache') : e.value = "points",
         file' = file \/ file' = [file EXCEPT ![t] = NoFile]
  PROVE  IInv'
<1> DEFINE c == ChunkOf(next[t])
<1>1. next[t] \in Nat /\ c \in Nat
  <2>1. next[t] \in 0 .. W - 1
    BY DEF IInv, TypeOK
  <2>2. next[t] \in Nat
    BY <2>1, SizesAssumption
  <2> QED
    BY <2>2, ChunkOfType
<1> HIDE DEF c
<1>2. /\ chunkCache' = Chunks!Loaded(chunkCache, c, v)
      /\ chunkLock' = NoThread
      /\ pc' = [pc EXCEPT ![t] = "copy"]
  BY DEF Deliver, c
<1>3. /\ chunkCache' \in Seq(ChunkEntry)
      /\ Range(chunkCache') \subseteq {[key |-> c, value |-> v]} \cup Range(chunkCache)
  BY <1>1, <1>2, ChunksLoaded DEF IInv, TypeOK, ChunkEntry
<1>4. entry' \in [Threads -> [key : Nat, value : ChunkValue \cup {Dangling}]]
  <2>1. \A u \in Threads : entry[u] \in [key : Nat, value : ChunkValue \cup {Dangling}]
    BY DEF IInv, TypeOK
  <2>2. [key |-> c, value |-> v] \in [key : Nat, value : ChunkValue \cup {Dangling}]
    BY <1>1
  <2>3. \A u \in Threads :
          [entry[u] EXCEPT !.value = Dangling] \in [key : Nat, value : ChunkValue \cup {Dangling}]
    BY <2>1
  <2> QED
    BY <2>1, <2>2, <2>3 DEF Deliver, c
<1>5. file' \in [Threads -> [index : {"points", "garbage"}, len : Nat, pos : Int, right : Nat]]
  <2>1. NoFile \in [index : {"points", "garbage"}, len : Nat, pos : Int, right : Nat]
    BY DEF NoFile
  <2>2. file \in [Threads -> [index : {"points", "garbage"}, len : Nat, pos : Int, right : Nat]]
    BY DEF IInv, TypeOK
  <2> QED
    BY <2>1, <2>2
<1>6. pc' \in [Threads -> {"idle", "called", "loop", "index", "file", "copy"}]
  BY <1>2 DEF IInv, TypeOK
<1>7. TypeOK'
  BY <1>2, <1>3, <1>4, <1>5, <1>6 DEF IInv, TypeOK, ChunkEntry, BevvyEntry
<1>8. \A u \in Threads \ {t} : pc[u] \notin {"index", "file"} /\ pc'[u] = pc[u]
  BY <1>2 DEF IInv, TypeOK, LoadsExclude
<1>9. pc'[t] = "copy"
  BY <1>2 DEF IInv, TypeOK
<1>10. \A u \in Threads : pc'[u] \notin {"index", "file"}
  BY <1>8, <1>9
<1>11. LoadsExclude'
  BY <1>10 DEF LoadsExclude
<1>12. CachesRight'
  <2> SUFFICES ASSUME faults = {}
               PROVE  /\ \A e \in Range(chunkCache') : RightValue(e.value)
                      /\ \A e \in Range(bevvyCache') : e.value = "points"
    BY DEF CachesRight, faults
  <2>1. \A e \in Range(chunkCache) : RightValue(e.value)
    BY DEF IInv, CachesRight
  <2>2. [key |-> c, value |-> v].value = v
    OBVIOUS
  <2> QED
    BY <1>3, <2>1, <2>2
<1>13. \A u \in Threads : FileInv(u)'
  BY <1>10 DEF FileInv
<1>14. \A u \in Threads : Asked(u)'
  BY <1>8, <1>9 DEF IInv, Asked, CallRecord
<1> QED
  BY <1>7, <1>11, <1>12, <1>13, <1>14 DEF IInv

LEMMA LoadIndexInv ==
  ASSUME IInv, NEW t \in Threads, LoadIndex(t)
  PROVE  IInv'
<1> DEFINE c == ChunkOf(next[t])
           b == BevvyOf(c)
           index == bevvyCache'[1].value
<1>1. next[t] \in Nat /\ c \in Nat /\ b \in Nat
  <2> next[t] \in 0 .. W - 1
    BY DEF IInv, TypeOK
  <2> QED
    BY SizesAssumption, ChunkOfType
<1>2. /\ pc[t] = "index"
      /\ UNCHANGED <<workload, closed, length, call, next, left, buf, result>>
  BY DEF LoadIndex
<1>3. /\ bevvyCache' \in Seq(BevvyEntry) /\ index \in {"points", "garbage"}
      /\ faults = {} => index = "points" /\ \A e \in Range(bevvyCache') : e.value = "points"
  <2>1. bevvyCache \in Seq(BevvyEntry) /\ (faults = {} => \A e \in Range(bevvyCache) : e.value = "points")
    BY DEF IInv, TypeOK, CachesRight, BevvyEntry
  <2>2. CASE b \in Bevvies!KeysOf(bevvyCache)
    <3>1. bevvyCache' = Bevvies!Refreshed(bevvyCache, b)
      BY <2>2 DEF LoadIndex
    <3> HIDE DEF b
    <3>2. /\ bevvyCache' \in Seq(BevvyEntry) /\ Range(bevvyCache') \subseteq Range(bevvyCache)
          /\ bevvyCache'[1] \in Range(bevvyCache) /\ bevvyCache'[1] \in BevvyEntry
      BY <2>1, <2>2, <3>1, BevviesRefreshed
    <3> QED
      BY <2>1, <3>2 DEF BevvyEntry
  <2>3. CASE b \notin Bevvies!KeysOf(bevvyCache)
    <3>1. PICK points \in IndexRead : bevvyCache' = Bevvies!Loaded(bevvyCache, b, points)
      BY <2>3 DEF LoadIndex
    <3>2. points \in {"points", "garbage"} /\ (faults = {} => points = "points")
      BY <3>1 DEF IndexRead
    <3> HIDE DEF b
    <3>3. /\ bevvyCache' \in Seq(BevvyEntry) /\ bevvyCache'[1] = [key |-> b, value |-> points]
          /\ Range(bevvyCache') \subseteq {[key |-> b, value |-> points]} \cup Range(bevvyCache)
      BY <1>1, <2>1, <3>1, <3>2, BevviesLoaded
    <3>4. [key |-> b, value |-> points].value = points
      OBVIOUS
    <3> QED
      BY <2>1, <3>2, <3>3, <3>4
  <2> QED
    BY <2>2, <2>3
<1>4. PICK len \in PointLengths(c, index) :
        IF len = 0
        THEN Deliver(t, FailedChunk) /\ UNCHANGED file
        ELSE /\ file' = [file EXCEPT ![t] = [index |-> index, len |-> len, pos |-> 0, right |-> 0]]
             /\ pc' = [pc EXCEPT ![t] = "file"]
             /\ UNCHANGED <<chunkCache, chunkLock, entry>>
  BY DEF LoadIndex
<1>5. len \in Nat
  BY <1>3, SizesAssumption DEF PointLengths
<1> HIDE DEF c, b, index
<1>6. CASE len = 0
  <2>1. FailedChunk \in ChunkValue /\ RightValue(FailedChunk)
    BY SizesAssumption DEF FailedChunk, ChunkValue, RightValue
  <2> QED
    BY <1>2, <1>3, <1>4, <1>6, <2>1, DeliverInv
<1>7. CASE len # 0
  <2> DEFINE f == [index |-> index, len |-> len, pos |-> 0, right |-> 0]
  <2>1. /\ file' = [file EXCEPT ![t] = f]
        /\ pc' = [pc EXCEPT ![t] = "file"]
        /\ UNCHANGED <<chunkCache, chunkLock, entry>>
    BY <1>4, <1>7
  <2>2. f \in [index : {"points", "garbage"}, len : Nat, pos : Int, right : Nat]
    BY <1>3, <1>5
  <2>3. f.pos = 0 /\ f.right = 0 /\ f.len = len /\ f.index = index
    OBVIOUS
  <2> HIDE DEF f
  <2>4. file' \in [Threads -> [index : {"points", "garbage"}, len : Nat, pos : Int, right : Nat]]
        /\ pc' \in [Threads -> {"idle", "called", "loop", "index", "file", "copy"}]
    BY <2>1, <2>2 DEF IInv, TypeOK
  <2>5. TypeOK'
    BY <1>2, <1>3, <2>1, <2>4 DEF IInv, TypeOK, BevvyEntry
  <2>6. file'[t] = f /\ pc'[t] = "file" /\ \A u \in Threads \ {t} : pc'[u] = pc[u] /\ file'[u] = file[u]
    BY <2>1 DEF IInv, TypeOK
  <2>7. LoadsExclude'
    BY <1>2, <2>1, <2>6 DEF IInv, LoadsExclude
  <2>8. CachesRight'
    BY <1>2, <1>3, <2>1 DEF IInv, CachesRight, faults
  <2>9. \A u \in Threads : FileInv(u)'
    BY <1>2, <1>3, <1>5, <2>3, <2>6 DEF IInv, FileInv, faults
  <2>10. \A u \in Threads : Asked(u)'
    BY <1>2, <2>6 DEF IInv, Asked, CallRecord
  <2> QED
    BY <2>5, <2>7, <2>8, <2>9, <2>10 DEF IInv
<1> QED
  BY <1>5, <1>6, <1>7

LEMMA ReadFileInv ==
  ASSUME IInv, NEW t \in Threads, ReadFile(t)
  PROVE  IInv'
<1> DEFINE f == file[t]
<1>1. f \in [index : {"points", "garbage"}, len : Nat, pos : Int, right : Nat]
  BY DEF IInv, TypeOK
<1>2. PICK res \in FileRead(f) : res # 0 /\ file' = [file EXCEPT ![t] = Advanced(@, res)]
  BY DEF ReadFile
<1>3. /\ pc[t] = "file" /\ f.pos < f.len
      /\ UNCHANGED <<workload, closed, length, chunkCache, bevvyCache, chunkLock, pc, call, next, left, entry, buf, result>>
  BY DEF ReadFile, cacheVars
<1>4. f.pos <= f.len /\ f.right <= f.len /\ (faults = {} => f.index = "points" /\ f.pos = f.right)
  BY <1>3 DEF IInv, FileInv
<1> HIDE DEF f
<1>5. res \in Int /\ f.pos + res <= f.len
  BY <1>1, <1>2, <1>3 DEF FileRead
<1>6. faults = {} => res >= 0
  BY <1>1, <1>2, <1>3, <1>4 DEF FileRead
<1> DEFINE g == Advanced(f, res)
<1>7. /\ g \in [index : {"points", "garbage"}, len : Nat, pos : Int, right : Nat]
      /\ g.pos = f.pos + res /\ g.right = Larger(f.right, f.pos + res) /\ g.len = f.len /\ g.index = f.index
  <2>1. Larger(f.right, f.pos + res) \in Nat /\ f.pos + res \in Int
    BY <1>1, <1>5 DEF Larger
  <2>2. g = [f EXCEPT !.pos = f.pos + res, !.right = Larger(f.right, f.pos + res)]
    BY DEF Advanced
  <2> QED
    BY <1>1, <2>1, <2>2
<1>8. file' = [file EXCEPT ![t] = g]
  BY <1>2 DEF f
<1> HIDE DEF g
<1>9. TypeOK'
  BY <1>3, <1>7, <1>8 DEF IInv, TypeOK
<1>10. file'[t] = g /\ \A u \in Threads \ {t} : file'[u] = file[u]
  BY <1>8 DEF IInv, TypeOK
<1>11. g.pos <= g.len /\ g.right <= g.len /\ (faults = {} => g.index = "points" /\ g.pos = g.right)
  BY <1>1, <1>4, <1>5, <1>6, <1>7 DEF Larger
<1>12. \A u \in Threads : FileInv(u)'
  BY <1>3, <1>10, <1>11 DEF IInv, FileInv, faults
<1>13. LoadsExclude' /\ CachesRight' /\ \A u \in Threads : Asked(u)'
  BY <1>3 DEF IInv, LoadsExclude, CachesRight, Asked, CallRecord, faults
<1> QED
  BY <1>9, <1>12, <1>13 DEF IInv

\* What the loader makes of a chunk: all of it, when nothing is wrong with the file.
LEMMA LoadedIsRight ==
  ASSUME IInv, NEW t \in Threads, Load(t), NEW v \in Decoded(file[t])
  PROVE  v \in ChunkValue /\ (faults = {} => RightValue(v))
<1> DEFINE f == file[t]
<1>1. f \in [index : {"points", "garbage"}, len : Nat, pos : Int, right : Nat]
  BY DEF IInv, TypeOK
<1>2. pc[t] = "file" /\ (f.pos = f.len \/ 0 \in FileRead(f)) /\ v \in Decoded(f)
  BY DEF Load
<1>3. f.pos <= f.len /\ f.right <= f.len /\ (faults = {} => f.index = "points" /\ f.pos = f.right)
  BY <1>2 DEF IInv, FileInv
<1> HIDE DEF f
<1>4. v \in ChunkValue
  BY <1>1, <1>2, <1>3, SizesAssumption DEF Decoded, Chunk, ChunkValue
<1>5. faults = {} => RightValue(v)
  <2> SUFFICES ASSUME faults = {}
               PROVE  v.right = ChunkSize
    BY DEF RightValue
  <2>1. Start + f.pos >= 0
    BY <1>1, <1>3, SizesAssumption
  <2>2. 0 \notin FileRead(f)
    <3>1. "error" \notin faults /\ "eof" \notin faults
      BY Zenon
    <3>2. f.index # "garbage"
      BY <1>3
    <3>3. ~(Start + f.pos < 0)
      BY <1>1, <2>1, SizesAssumption
    <3>4. FileRead(f) = 1 .. f.len - f.pos
      BY <3>1, <3>2, <3>3 DEF FileRead
    <3> QED
      BY <3>4
  <2>3. f.right = f.len
    BY <1>2, <1>3, <2>2
  <2> QED
    BY <1>2, <1>3, <2>3 DEF Decoded, Chunk
<1> QED
  BY <1>4, <1>5

LEMMA LoadInv ==
  ASSUME IInv, NEW t \in Threads, Load(t)
  PROVE  IInv'
<1>1. PICK v \in Decoded(file[t]) : Deliver(t, v)
  BY DEF Load
<1>2. /\ pc[t] = "file" /\ file' = [file EXCEPT ![t] = NoFile]
      /\ UNCHANGED <<workload, closed, length, bevvyCache, call, next, left, buf, result>>
  BY DEF Load
<1>3. v \in ChunkValue /\ (faults = {} => RightValue(v))
  BY LoadedIsRight
<1>4. bevvyCache' \in Seq(BevvyEntry)
  BY <1>2 DEF IInv, TypeOK, BevvyEntry
<1>5. faults = {} => \A e \in Range(bevvyCache') : e.value = "points"
  BY <1>2 DEF IInv, CachesRight
<1> QED
  BY <1>1, <1>2, <1>3, <1>4, <1>5, DeliverInv

-----------------------------------------------------------------------------
LEMMA NextInv == IInv /\ [Next]_vars => IInv'
<1> SUFFICES ASSUME IInv, [Next]_vars
             PROVE  IInv'
  OBVIOUS
<1>1. CASE UNCHANGED vars
  BY <1>1 DEF IInv, TypeOK, LoadsExclude, CachesRight, FileInv, Asked, CallRecord, faults, vars
<1>2. CASE Close
  BY <1>2, CloseInv
<1>3. ASSUME NEW t \in Threads, ReadStep(t) PROVE IInv'
  BY <1>3, RefuseInv, EnterInv, FinishInv, CopyInv, ChunkHitInv, ChunkMissInv,
     LoadIndexInv, ReadFileInv, LoadInv DEF ReadStep
<1>4. ASSUME NEW t \in Threads, NEW c \in Calls, Call(t, c) PROVE IInv'
  BY <1>4, CallInv
<1> QED
  BY <1>1, <1>2, <1>3, <1>4 DEF Next

LEMMA Invariance == Spec => []IInv
<1> QED
  BY InitInv, NextInv, PTL DEF Spec

(* Every state of the stream is well formed, also while loads of several   *)
(* readers fail, end early or go through an index that was not read.       *)
THEOREM TypeCorrect == Spec => []TypeOK
<1> QED
  BY Invariance, InvImplies, PTL

(* A chunk in the cache of ImageStream::read is a failed one or the        *)
(* stream's own, for any sizes of the caches and any pieces fileRead gives *)
(* the stored bytes in.                                                    *)
THEOREM CachedAreRight == Spec => []CachedIsRight
<1> QED
  BY Invariance, InvImplies, PTL

(* The chunk cache's mutex keeps ChunkLoader::load to one thread, which    *)
(* loads a chunk that is not cached, for any number of readers.            *)
THEOREM OneLoads == Spec => []LoadsExclude
<1> QED
  BY Invariance, InvImplies, PTL

-----------------------------------------------------------------------------
(* What a read returns, when no request reaches past the largest uint64_t. *)

NoWrap == \A c \in Calls : c.offset + c.count < W

Share(o, c) == IF o > length THEN 0 ELSE IF o + c > length THEN length - o ELSE c

InLoop == {"loop", "index", "file", "copy"}

\* What a reader has and what it still wants make up its share.
Served(t) ==
    /\ pc[t] = "called" => buf[t] = <<>>
    /\ pc[t] \in InLoop =>
         call[t].offset <= length /\ Len(buf[t]) + left[t] = Share(call[t].offset, call[t].count)
    /\ result[t] \in Nat => pc[t] = "idle" /\ result[t] = Share(call[t].offset, call[t].count)
    /\ pc[t] # "idle" \/ result[t] # NoReply => call[t].offset + call[t].count < W

SInv == IInv /\ \A t \in Threads : Served(t)

LEMMA SInvImplies == SInv => AllOrError
  BY DEF SInv, Served, AllOrError, Share

LEMMA SInitInv == Init => SInv
  BY InitInv, SentinelsAssumption DEF Init, SInv, Served, InLoop

\* The steps of read()'s loop that hand the caller nothing.
Turns(t) ==
    /\ UNCHANGED <<length, call, left, buf, result>>
    /\ \A u \in Threads \ {t} : pc'[u] = pc[u]
    /\ pc[t] \in InLoop /\ pc'[t] \in InLoop

LEMMA TurnsServed ==
  ASSUME SInv, NEW t \in Threads, Turns(t)
  PROVE  \A u \in Threads : Served(u)'
<1>1. ASSUME NEW u \in Threads PROVE Share(call[u].offset, call[u].count)' = Share(call[u].offset, call[u].count)
  BY DEF Turns, Share
<1> QED
  BY <1>1 DEF SInv, Served, Turns, Share, InLoop

LEMMA OtherServed ==
  ASSUME SInv, NEW t \in Threads, length' = length,
         NEW u \in Threads \ {t},
         pc'[u] = pc[u], call'[u] = call[u], left'[u] = left[u], buf'[u] = buf[u], result'[u] = result[u]
  PROVE  Served(u)'
  BY DEF SInv, Served, Share

LEMMA CallServed ==
  ASSUME SInv, NoWrap, NEW t \in Threads, NEW c \in Calls, Call(t, c)
  PROVE  \A u \in Threads : Served(u)'
<1>1. /\ pc'[t] = "called" /\ buf'[t] = <<>> /\ result'[t] = NoReply
      /\ call'[t].offset = c.offset /\ call'[t].count = c.count
  BY DEF Call, SInv, IInv, TypeOK
<1>2. c.offset + c.count < W
  BY DEF NoWrap
<1>3. Served(t)'
  BY <1>1, <1>2, SentinelsAssumption DEF Served, InLoop
<1>4. /\ length' = length
      /\ \A u \in Threads \ {t} : /\ pc'[u] = pc[u] /\ call'[u] = call[u] /\ left'[u] = left[u]
                                  /\ buf'[u] = buf[u] /\ result'[u] = result[u]
  BY DEF Call, SInv, IInv, TypeOK
<1> QED
  BY <1>3, <1>4, OtherServed

LEMMA RefuseServed ==
  ASSUME SInv, NEW t \in Threads, Refuse(t)
  PROVE  \A u \in Threads : Served(u)'
<1>1. /\ length' = length /\ call' = call /\ left' = left /\ buf' = buf
      /\ pc'[t] = "idle" /\ result'[t] = IF closed THEN -1 ELSE 0
      /\ \A u \in Threads \ {t} : pc'[u] = pc[u] /\ result'[u] = result[u]
  BY DEF Refuse, Return, SInv, IInv, TypeOK
<1>2. pc[t] = "called" /\ (closed \/ call[t].offset > length)
  BY DEF Refuse
<1>3. call[t].offset + call[t].count < W
  BY <1>2 DEF SInv, Served
<1>4. closed \in BOOLEAN
  BY DEF SInv, IInv, TypeOK
<1>5. Served(t)'
  BY <1>1, <1>2, <1>3, <1>4 DEF Served, Share, InLoop
<1> QED
  BY <1>1, <1>5, OtherServed

LEMMA TruncatedShare ==
  ASSUME length \in 0 .. W - 1, NEW o \in 0 .. W - 1, NEW c \in 0 .. W - 1, o + c < W, o <= length
  PROVE  Truncated(o, c) = Share(o, c)
<1>1. (o + c) % W = o + c
  BY ModSame, SizesAssumption
<1>2. o + c > length => (c - (o + c - length)) % W = length - o
  <2> HAVE o + c > length
  <2>1. c - (o + c - length) = length - o /\ length - o \in 0 .. W - 1
    BY SizesAssumption
  <2> QED
    BY <2>1, ModSame
<1> QED
  BY <1>1, <1>2 DEF Truncated, Share

LEMMA EnterServed ==
  ASSUME SInv, NEW t \in Threads, Enter(t)
  PROVE  \A u \in Threads : Served(u)'
<1>1. /\ length' = length /\ call' = call /\ result' = result /\ buf' = buf
      /\ pc'[t] = "loop" /\ left'[t] = Truncated(call[t].offset, call[t].count)
      /\ \A u \in Threads \ {t} : pc'[u] = pc[u] /\ left'[u] = left[u]
  BY DEF Enter, SInv, IInv, TypeOK
<1>2. pc[t] = "called" /\ call[t].offset <= length
  BY DEF Enter
<1>3. /\ call[t].offset + call[t].count < W /\ buf[t] = <<>> /\ result[t] \notin Nat
      /\ call[t].offset \in 0 .. W - 1 /\ call[t].count \in 0 .. W - 1
  BY <1>2 DEF SInv, Served, IInv, Asked, CallRecord
<1>4. left'[t] = Share(call[t].offset, call[t].count)
  BY <1>1, <1>2, <1>3, TruncatedShare DEF SInv, IInv, TypeOK
<1>5. Share(call[t].offset, call[t].count) \in Int
  BY <1>3, SizesAssumption, SMTT(30) DEF Share, SInv, IInv, TypeOK
<1>6. Share(call[t].offset, call[t].count)' = Share(call[t].offset, call[t].count)
  BY <1>1 DEF Share
<1>7. Len(buf'[t]) + left'[t] = Share(call[t].offset, call[t].count)
  BY <1>1, <1>3, <1>4, <1>5
<1>8. Served(t)'
  BY <1>1, <1>2, <1>3, <1>6, <1>7 DEF Served, InLoop, Share
<1> QED
  BY <1>1, <1>8, OtherServed

LEMMA FinishServed ==
  ASSUME SInv, NEW t \in Threads, Finish(t)
  PROVE  \A u \in Threads : Served(u)'
<1>1. /\ length' = length /\ call' = call /\ left' = left /\ buf' = buf
      /\ pc'[t] = "idle" /\ result'[t] = Len(buf[t])
      /\ \A u \in Threads \ {t} : pc'[u] = pc[u] /\ result'[u] = result[u]
  BY DEF Finish, Return, SInv, IInv, TypeOK
<1>2. pc[t] = "loop" /\ left[t] = 0
  BY DEF Finish
<1>3. /\ call[t].offset + call[t].count < W
      /\ Len(buf[t]) + left[t] = Share(call[t].offset, call[t].count)
  BY <1>2 DEF SInv, Served, InLoop
<1>4. Len(buf[t]) \in Nat
  BY DEF SInv, IInv, TypeOK
<1>5. Len(buf[t]) = Share(call[t].offset, call[t].count)
  BY <1>2, <1>3, <1>4
<1>6. Share(call[t].offset, call[t].count)' = Share(call[t].offset, call[t].count)
  BY <1>1 DEF Share
<1>7. Served(t)'
  BY <1>1, <1>3, <1>5, <1>6 DEF Served, InLoop
<1> QED
  BY <1>1, <1>7, OtherServed

LEMMA CopyServed ==
  ASSUME SInv, NEW t \in Threads, Copy(t)
  PROVE  \A u \in Threads : Served(u)'
<1>1. PICK v \in CopyValues(t) :
        IF IsFailed(v)
        THEN Return(t, FailureResult(t)) /\ UNCHANGED <<next, left, buf>>
        ELSE /\ buf' = [buf EXCEPT ![t] = @ \o Copied(entry[t].key, v, next[t] % ChunkSize, CopyLength(t, v))]
             /\ left' = [left EXCEPT ![t] = @ - CopyLength(t, v)]
             /\ pc' = [pc EXCEPT ![t] = "loop"]
             /\ UNCHANGED result
  BY DEF Copy, CopyValues
<1>2. pc[t] = "copy" /\ UNCHANGED <<length, call>>
  BY DEF Copy
<1>3. /\ call[t].offset <= length /\ call[t].offset + call[t].count < W /\ result[t] \notin Nat
      /\ Len(buf[t]) + left[t] = Share(call[t].offset, call[t].count)
  BY <1>2 DEF SInv, Served, InLoop
<1>4. Share(call[t].offset, call[t].count)' = Share(call[t].offset, call[t].count)
  BY <1>2 DEF Share
<1>5. CASE IsFailed(v)
  <2>1. /\ pc'[t] = "idle" /\ result'[t] = -1 /\ buf' = buf /\ left' = left
        /\ \A u \in Threads \ {t} : pc'[u] = pc[u] /\ result'[u] = result[u]
    BY <1>1, <1>5 DEF Return, FailureResult, SInv, IInv, TypeOK
  <2>2. Served(t)'
    BY <1>2, <1>3, <2>1 DEF Served, InLoop
  <2> QED
    BY <1>2, <2>1, <2>2, OtherServed
<1>6. CASE ~IsFailed(v)
  <2> DEFINE n == CopyLength(t, v)
             d == next[t] % ChunkSize
             more == Copied(entry[t].key, v, d, n)
  <2>1. n \in Nat
    BY CopyLengthType, SizesAssumption DEF SInv, IInv
  <2>2. d \in Nat /\ v \in ChunkValue /\ entry[t].key \in Nat
    BY CopyValuesType, SizesAssumption DEF SInv, IInv
  <2>3. /\ buf' = [buf EXCEPT ![t] = @ \o more]
        /\ left' = [left EXCEPT ![t] = @ - n]
        /\ pc' = [pc EXCEPT ![t] = "loop"]
        /\ UNCHANGED result
    BY <1>1, <1>6
  <2> HIDE DEF n, d
  <2>4. more \in Seq(Nat \cup {Garbage}) /\ Len(more) = n
    BY <2>1, <2>2, CopiedType
  <2> HIDE DEF more
  <2>5. buf[t] \in Seq(Nat \cup {Garbage}) /\ left[t] \in 0 .. W - 1
    BY DEF SInv, IInv, TypeOK
  <2>6. buf'[t] = buf[t] \o more /\ left'[t] = left[t] - n /\ pc'[t] = "loop"
    BY <2>3 DEF SInv, IInv, TypeOK
  <2>7. Len(buf'[t]) = Len(buf[t]) + n
    BY <2>4, <2>5, <2>6, ConcatProperties
  <2>8. Len(buf[t]) \in Nat /\ left[t] \in Int
    BY <2>5, LenProperties
  <2>9. Len(buf'[t]) + left'[t] = Len(buf[t]) + left[t]
    BY <2>1, <2>6, <2>7, <2>8
  <2>10. Served(t)'
    BY <1>2, <1>3, <1>4, <2>3, <2>6, <2>9 DEF Served, InLoop
  <2>11. \A u \in Threads \ {t} : pc'[u] = pc[u] /\ buf'[u] = buf[u] /\ left'[u] = left[u]
    BY <2>3 DEF SInv, IInv, TypeOK
  <2> QED
    BY <1>2, <2>3, <2>10, <2>11, OtherServed
<1> QED
  BY <1>5, <1>6

LEMMA LoopTurns ==
  ASSUME SInv, NEW t \in Threads,
         ChunkHit(t) \/ ChunkMiss(t) \/ LoadIndex(t) \/ ReadFile(t) \/ Load(t)
  PROVE  Turns(t)
<1> pc \in [Threads -> {"idle", "called", "loop", "index", "file", "copy"}]
  BY DEF SInv, IInv, TypeOK
<1>1. CASE ChunkHit(t)
  BY <1>1 DEF ChunkHit, Turns, InLoop
<1>2. CASE ChunkMiss(t)
  BY <1>2 DEF ChunkMiss, Turns, InLoop
<1>3. CASE LoadIndex(t)
  <2>1. pc' = [pc EXCEPT ![t] = "copy"] \/ pc' = [pc EXCEPT ![t] = "file"]
    BY <1>3 DEF LoadIndex, Deliver
  <2>2. pc[t] = "index" /\ UNCHANGED <<length, call, left, buf, result>>
    BY <1>3 DEF LoadIndex
  <2> QED
    BY <2>1, <2>2 DEF Turns, InLoop
<1>4. CASE ReadFile(t)
  BY <1>4 DEF ReadFile, Turns, InLoop
<1>5. CASE Load(t)
  BY <1>5 DEF Load, Deliver, Turns, InLoop
<1> QED
  BY <1>1, <1>2, <1>3, <1>4, <1>5

LEMMA SNextInv == NoWrap /\ SInv /\ [Next]_vars => SInv'
<1> SUFFICES ASSUME NoWrap, SInv, [Next]_vars
             PROVE  \A u \in Threads : Served(u)'
  BY NextInv DEF SInv
<1>1. CASE UNCHANGED vars
  BY <1>1 DEF SInv, Served, Share, vars
<1>2. CASE Close
  BY <1>2 DEF Close, SInv, Served, Share
<1>3. ASSUME NEW t \in Threads, ReadStep(t) PROVE \A u \in Threads : Served(u)'
  BY <1>3, RefuseServed, EnterServed, FinishServed, CopyServed, LoopTurns, TurnsServed DEF ReadStep
<1>4. ASSUME NEW t \in Threads, NEW c \in Calls, Call(t, c) PROVE \A u \in Threads : Served(u)'
  BY <1>4, CallServed
<1> QED
  BY <1>1, <1>2, <1>3, <1>4 DEF Next

(* ImageStream::read serves all of a request below the end of the stream   *)
(* or fails, whatever goes wrong in the file and whichever chunks are      *)
(* evicted meanwhile, when offset + count does not wrap.                   *)
THEOREM ServesAllOrFails == NoWrap => (Spec => []AllOrError)
<1>1. ASSUME NoWrap PROVE SInv /\ [Next]_vars => SInv'
  BY <1>1, SNextInv
<1> SUFFICES ASSUME NoWrap
             PROVE  Spec => []AllOrError
  OBVIOUS
<1>2. SInv /\ [Next]_vars => SInv'
  BY <1>1
<1> QED
  BY <1>2, SInitInv, SInvImplies, PTL DEF Spec

-----------------------------------------------------------------------------
(* What the cache does to its keys.                                        *)

\* The elements that RemoveAt leaves, and their places.
LEMMA RemoveAtIs ==
  ASSUME NEW S, NEW s \in Seq(S), NEW p \in 1 .. Len(s)
  PROVE  /\ RemoveAt(s, p) \in Seq(S) /\ Len(RemoveAt(s, p)) = Len(s) - 1
         /\ \A i \in 1 .. Len(s) - 1 : RemoveAt(s, p)[i] = IF i < p THEN s[i] ELSE s[i + 1]
<1> DEFINE n == Len(s)
           a == SubSeq(s, 1, p - 1)
           b == SubSeq(s, p + 1, n)
           e == RemoveAt(s, p)
<1>1. n \in Nat /\ \A i \in 1 .. n : s[i] \in S
  BY LenProperties, ElementOfSeq
<1>2. e = a \o b
  BY DEF RemoveAt
<1>3. p \in Int /\ 1 <= p /\ p <= n /\ p - 1 \in Int /\ p + 1 \in Int
  BY <1>1
<1>4. a \in Seq(S) /\ Len(a) = p - 1 /\ \A i \in 1 .. p - 1 : a[i] = s[i]
  <2>1. \A i \in 1 .. p - 1 : s[i] \in S
    BY <1>1, <1>3
  <2>2. /\ a \in Seq(S) /\ Len(a) = IF 1 <= p - 1 THEN (p - 1) - 1 + 1 ELSE 0
        /\ \A i \in 1 .. (p - 1) - 1 + 1 : a[i] = s[1 + i - 1]
    BY <1>3, <2>1, SubSeqProperties
  <2> HIDE DEF a
  <2>3. \A i \in 1 .. p - 1 : i \in 1 .. (p - 1) - 1 + 1 /\ 1 + i - 1 = i
    BY <1>3
  <2>4. (IF 1 <= p - 1 THEN (p - 1) - 1 + 1 ELSE 0) = p - 1
    BY <1>3
  <2> QED
    BY <2>2, <2>3, <2>4
<1>5. b \in Seq(S) /\ Len(b) = n - p /\ \A i \in 1 .. n - p : b[i] = s[p + i]
  <2>1. \A i \in p + 1 .. n : s[i] \in S
    BY <1>1, <1>3
  <2>2. /\ b \in Seq(S) /\ Len(b) = IF p + 1 <= n THEN n - (p + 1) + 1 ELSE 0
        /\ \A i \in 1 .. n - (p + 1) + 1 : b[i] = s[(p + 1) + i - 1]
    BY <1>1, <1>3, <2>1, SubSeqProperties
  <2> HIDE DEF b
  <2>3. \A i \in 1 .. n - p : i \in 1 .. n - (p + 1) + 1 /\ (p + 1) + i - 1 = p + i
    BY <1>1, <1>3
  <2>4. (IF p + 1 <= n THEN n - (p + 1) + 1 ELSE 0) = n - p
    BY <1>1, <1>3
  <2> QED
    BY <2>2, <2>3, <2>4
<1> HIDE DEF n, a, b, e
<1>6. /\ a \o b \in Seq(S) /\ Len(a \o b) = Len(a) + Len(b)
      /\ \A i \in 1 .. Len(a) + Len(b) : (a \o b)[i] = IF i <= Len(a) THEN a[i] ELSE b[i - Len(a)]
  BY <1>4, <1>5, ConcatProperties
<1>7. Len(a) + Len(b) = n - 1
  BY <1>1, <1>3, <1>4, <1>5
<1>8. ASSUME NEW i \in 1 .. n - 1
      PROVE  e[i] = IF i < p THEN s[i] ELSE s[i + 1]
  <2>1. e[i] = IF i <= p - 1 THEN a[i] ELSE b[i - (p - 1)]
    BY <1>2, <1>4, <1>6, <1>7
  <2>2. CASE i < p
    BY <1>3, <1>4, <2>1, <2>2
  <2>3. CASE ~(i < p)
    <3>1. i - (p - 1) \in 1 .. n - p /\ p + (i - (p - 1)) = i + 1 /\ ~(i <= p - 1)
      BY <1>1, <1>3, <2>3
    <3> QED
      BY <1>5, <2>1, <2>3, <3>1
  <2> QED
    BY <2>2, <2>3
<1> QED
  BY <1>2, <1>6, <1>7, <1>8 DEF n, e

Distinct(s) == \A i, j \in DOMAIN s : s[i].key = s[j].key => i = j

\* Prepending an entry of a new key.
LEMMA PrependKeys ==
  ASSUME NEW r \in Seq(ChunkEntry), NEW e \in ChunkEntry, Distinct(r), e.key \notin Chunks!KeysOf(r)
  PROVE  Distinct(<<e>> \o r) /\ Chunks!KeysOf(<<e>> \o r) = {e.key} \cup Chunks!KeysOf(r)
<1> DEFINE one == <<e>>
           s == one \o r
<1>1. one \in Seq(ChunkEntry) /\ Len(one) = 1 /\ one[1] = e
  OBVIOUS
<1>2. Len(r) \in Nat /\ DOMAIN r = 1 .. Len(r)
  BY LenProperties
<1> HIDE DEF one
<1>3. /\ s \in Seq(ChunkEntry) /\ Len(s) = 1 + Len(r)
      /\ \A i \in 1 .. 1 + Len(r) : s[i] = IF i <= 1 THEN one[i] ELSE r[i - 1]
  <2>1. /\ one \o r \in Seq(ChunkEntry) /\ Len(one \o r) = Len(one) + Len(r)
        /\ \A i \in 1 .. Len(one) + Len(r) :
             (one \o r)[i] = IF i <= Len(one) THEN one[i] ELSE r[i - Len(one)]
    BY <1>1, ConcatProperties
  <2> QED
    BY <1>1, <2>1
<1> HIDE DEF s
<1>4. DOMAIN s = 1 .. 1 + Len(r)
  BY <1>3, LenProperties
<1>5. s[1] = e /\ 1 \in DOMAIN s
  BY <1>1, <1>2, <1>3, <1>4
<1>6. \A i \in DOMAIN s : i # 1 => i - 1 \in DOMAIN r /\ s[i] = r[i - 1]
  BY <1>2, <1>3, <1>4
<1>7. \A j \in DOMAIN r : j + 1 \in DOMAIN s /\ j + 1 # 1 /\ (j + 1) - 1 = j
  BY <1>2, <1>4
<1>8. Chunks!KeysOf(s) = {e.key} \cup Chunks!KeysOf(r)
  BY <1>5, <1>6, <1>7 DEF Chunks!KeysOf
<1>9. Distinct(s)
  <2> SUFFICES ASSUME NEW i \in DOMAIN s, NEW j \in DOMAIN s, s[i].key = s[j].key
               PROVE  i = j
    BY DEF Distinct
  <2>1. CASE i = 1 \/ j = 1
    BY <1>5, <1>6, <2>1 DEF Chunks!KeysOf
  <2>2. CASE i # 1 /\ j # 1
    <3>1. i - 1 = j - 1
      BY <1>6, <2>2 DEF Distinct
    <3> QED
      BY <1>4, <1>2, <3>1
  <2> QED
    BY <2>1, <2>2
<1> QED
  BY <1>8, <1>9 DEF s, one

\* A hit keeps the keys, and what it finds is the entry of its key.
LEMMA KeysRefreshed ==
  ASSUME NEW s \in Seq(ChunkEntry), NEW c \in Chunks!KeysOf(s)
  PROVE  /\ Chunks!Refreshed(s, c)[1].key = c
         /\ Distinct(s) => /\ Distinct(Chunks!Refreshed(s, c))
                           /\ Chunks!KeysOf(Chunks!Refreshed(s, c)) = Chunks!KeysOf(s)
<1> DEFINE p == Chunks!Place(s, c)
           r == RemoveAt(s, p)
           e == s[p]
<1>1. p \in DOMAIN s /\ s[p].key = c
  BY DEF Chunks!KeysOf, Chunks!Place
<1>2. Chunks!Refreshed(s, c) = <<e>> \o r
  BY DEF Chunks!Refreshed, Chunks!Without, Chunks!RemoveAt, RemoveAt
<1> HIDE DEF p
<1>3. Len(s) \in Nat /\ DOMAIN s = 1 .. Len(s) /\ e \in ChunkEntry
  BY <1>1, LenProperties, ElementOfSeq
<1>4. /\ r \in Seq(ChunkEntry) /\ Len(r) = Len(s) - 1
      /\ \A i \in 1 .. Len(s) - 1 : r[i] = IF i < p THEN s[i] ELSE s[i + 1]
  BY <1>1, <1>3, RemoveAtIs
<1> HIDE DEF r, e
<1>5. (<<e>> \o r)[1] = e
  BY <1>3, <1>4, PrependEntries
<1>6. ASSUME Distinct(s)
      PROVE  Distinct(<<e>> \o r) /\ Chunks!KeysOf(<<e>> \o r) = Chunks!KeysOf(s)
  <2> DEFINE q(i) == IF i < p THEN i ELSE i + 1
  <2>1. DOMAIN r = 1 .. Len(s) - 1
    BY <1>4, LenProperties
  <2>2. \A i \in DOMAIN r : q(i) \in DOMAIN s /\ q(i) # p /\ r[i] = s[q(i)]
    BY <1>1, <1>3, <1>4, <2>1
  <2>3. \A i, j \in DOMAIN r : q(i) = q(j) => i = j
    BY <1>1, <1>3, <2>1
  <2>4. \A j \in DOMAIN s : j # p => \E i \in DOMAIN r : q(i) = j
    <3> SUFFICES ASSUME NEW j \in DOMAIN s, j # p PROVE \E i \in DOMAIN r : q(i) = j
      OBVIOUS
    <3>1. CASE j < p
      <4>1. j \in DOMAIN r
        BY <1>1, <1>3, <2>1, <3>1
      <4> QED
        BY <3>1, <4>1
    <3>2. CASE ~(j < p)
      <4>1. j - 1 \in DOMAIN r /\ ~(j - 1 < p) /\ (j - 1) + 1 = j
        BY <1>1, <1>3, <2>1, <3>2
      <4> QED
        BY <4>1
    <3> QED
      BY <3>1, <3>2
  <2> HIDE DEF q
  <2>5. Distinct(r)
    BY <1>6, <2>2, <2>3 DEF Distinct
  <2>6. e.key \notin Chunks!KeysOf(r)
    BY <1>1, <1>6, <2>2 DEF Chunks!KeysOf, Distinct, e
  <2>7. {e.key} \cup Chunks!KeysOf(r) = Chunks!KeysOf(s)
    <3>1. \A k \in Chunks!KeysOf(r) : k \in Chunks!KeysOf(s)
      BY <2>2 DEF Chunks!KeysOf
    <3>2. \A k \in Chunks!KeysOf(s) : k = e.key \/ k \in Chunks!KeysOf(r)
      BY <2>2, <2>4 DEF Chunks!KeysOf, e
    <3>3. e.key \in Chunks!KeysOf(s)
      BY <1>1 DEF Chunks!KeysOf, e
    <3> QED
      BY <3>1, <3>2, <3>3
  <2> QED
    BY <1>3, <1>4, <2>5, <2>6, <2>7, PrependKeys
<1> QED
  BY <1>1, <1>2, <1>5, <1>6 DEF e

\* A cache that has a place for every key of T evicts none of them.
LEMMA KeysLoaded ==
  ASSUME NEW s \in Seq(ChunkEntry), NEW c \in Nat, NEW v \in ChunkValue, NEW T,
         Distinct(s), c \notin Chunks!KeysOf(s), Chunks!KeysOf(s) \cup {c} \subseteq T,
         IsFiniteSet(T), Cardinality(T) <= ChunkCacheSize
  PROVE  /\ Distinct(Chunks!Loaded(s, c, v))
         /\ Chunks!KeysOf(Chunks!Loaded(s, c, v)) = Chunks!KeysOf(s) \cup {c}
<1> DEFINE e == [key |-> c, value |-> v]
           all == <<e>> \o s
<1>1. e \in ChunkEntry /\ e.key = c
  BY DEF ChunkEntry
<1>2. Chunks!Loaded(s, c, v) = Chunks!Bounded(all)
  BY DEF Chunks!Loaded, Chunks!Without
<1> HIDE DEF e
<1>3. Distinct(all) /\ Chunks!KeysOf(all) = {c} \cup Chunks!KeysOf(s)
  BY <1>1, PrependKeys
<1>4. all \in Seq(ChunkEntry)
  BY <1>1, PrependEntries
<1> HIDE DEF all
<1>5. Len(all) \in Nat /\ DOMAIN all = 1 .. Len(all)
  BY <1>4, LenProperties
<1>6. Len(all) <= Cardinality(T)
  <2> DEFINE f == [i \in 1 .. Len(all) |-> all[i].key]
  <2>1. f \in [1 .. Len(all) -> T]
    BY <1>3, <1>5 DEF Chunks!KeysOf
  <2>2. \A i, j \in 1 .. Len(all) : f[i] = f[j] => i = j
    BY <1>3, <1>5 DEF Distinct
  <2>3. IsFiniteSet(1 .. Len(all)) /\ Cardinality(1 .. Len(all)) = Len(all)
    <3>1. IsFiniteSet(1 .. Len(all)) /\ Cardinality(1 .. Len(all)) = IF 1 > Len(all) THEN 0 ELSE Len(all) - 1 + 1
      <4> DEFINE n == Len(all)
      <4>1. n \in Int /\ 1 \in Int
        BY <1>5
      <4> HIDE DEF n
      <4>2. IsFiniteSet(1 .. n) /\ Cardinality(1 .. n) = IF 1 > n THEN 0 ELSE n - 1 + 1
        BY ONLY <4>1, FS_Interval
      <4> QED
        BY <4>2 DEF n
    <3> QED
      BY <1>5, <3>1
  <2>4. Cardinality(T) \in Nat
    BY FS_CardinalityType
  <2> HIDE DEF f
  <2>5. ~(Cardinality(T) < Cardinality(1 .. Len(all)))
    BY <2>1, <2>2, <2>3, FS_PigeonHole
  <2> QED
    BY <1>5, <2>3, <2>4, <2>5
<1>7. ~(Len(all) > ChunkCacheSize)
  BY <1>5, <1>6, FS_CardinalityType, SizesAssumption
<1>8. Chunks!Bounded(all) = all
  <2>1. Chunks!Bounded(all) = SubSeq(all, 1, Len(all))
    BY <1>7 DEF Chunks!Bounded
  <2> QED
    BY <1>4, <1>5, <2>1, SubSeqFull
<1> QED
  BY <1>2, <1>3, <1>8

-----------------------------------------------------------------------------
(* The bytes of an intact file.                                            *)

\* An offset is its place in its chunk, and copying to the end of a chunk that
\* is not the last of the address space stays in the address space.
LEMMA ChunkParts ==
  ASSUME NEW o \in Nat
  PROVE  /\ ChunkOf(o) \in Nat /\ o % ChunkSize \in 0 .. ChunkSize - 1
         /\ o = ChunkOf(o) * ChunkSize + (o % ChunkSize)
<1>1. \A a \in Nat, b \in Nat \ {0} :
        a \div b \in Nat /\ a % b \in 0 .. b - 1 /\ a = (a \div b) * b + (a % b)
  OBVIOUS
<1> QED
  BY <1>1, SizesAssumption DEF ChunkOf

LEMMA WithinLast ==
  ASSUME NEW o \in 0 .. W - 1, ChunkOf(o) # ChunkOf(W - 1),
         NEW n \in Nat, n <= ChunkSize - (o % ChunkSize)
  PROVE  o + n <= W - 1
<1> DEFINE c == ChunkOf(o)
           z == ChunkOf(W - 1)
           d == o % ChunkSize
           y == (W - 1) % ChunkSize
<1>1. ChunkSize \in Nat \ {0} /\ W \in Nat \ {0} /\ W - 1 \in Nat /\ o \in Nat
  BY SizesAssumption
<1>2. c \in Nat /\ d \in 0 .. ChunkSize - 1 /\ o = c * ChunkSize + d
  BY <1>1, ChunkParts
<1>3. z \in Nat /\ y \in 0 .. ChunkSize - 1 /\ W - 1 = z * ChunkSize + y
  BY <1>1, ChunkParts
<1>4. c # z /\ n <= ChunkSize - d
  OBVIOUS
<1> HIDE DEF c, z, d, y
<1>5. \A a, b, m \in Nat : a <= b => a * m <= b * m
  OBVIOUS
<1>6. c * ChunkSize \in Nat /\ z * ChunkSize \in Nat
      /\ (c + 1) * ChunkSize = c * ChunkSize + ChunkSize /\ (z + 1) * ChunkSize = z * ChunkSize + ChunkSize
  BY <1>1, <1>2, <1>3
<1>7. c < z
  <2> SUFFICES ASSUME z + 1 <= c PROVE FALSE
    BY <1>2, <1>3, <1>4
  <2>1. z + 1 \in Nat
    BY <1>3
  <2>2. (z + 1) * ChunkSize <= c * ChunkSize
    BY <1>1, <1>2, <1>5, <2>1
  <2> QED
    BY <1>1, <1>2, <1>3, <1>6, <2>2
<1>8. (c + 1) * ChunkSize <= z * ChunkSize
  <2>1. c + 1 \in Nat /\ c + 1 <= z
    BY <1>2, <1>3, <1>7
  <2> QED
    BY <1>1, <1>3, <1>5, <2>1
<1> QED
  BY <1>1, <1>2, <1>3, <1>4, <1>6, <1>8

\* What is left of a request is cut to the stream, or reaches past the address space.
LEMMA TruncatedReach ==
  ASSUME length \in 0 .. W - 1, NEW o \in 0 .. W - 1, NEW c \in 0 .. W - 1, o <= length
  PROVE  /\ Truncated(o, c) \in 0 .. c
         /\ o + Truncated(o, c) <= length \/ o + Truncated(o, c) >= W
<1>1. W \in Nat \ {0} /\ o + c \in Nat
  BY SizesAssumption
<1>2. CASE o + c < W
  <2>1. Truncated(o, c) = Share(o, c)
    BY <1>2, TruncatedShare
  <2> QED
    BY <1>1, <2>1 DEF Share
<1>3. CASE o + c >= W
  <2>1. (o + c) % W = o + c - W
    BY <1>1, <1>3
  <2>2. CASE o + c - W > length
    <3>1. o + c - W <= W - 2 - (W - 1 - o)
      BY <1>1
    <3> QED
      BY <1>1, <2>2, <3>1
  <2>3. CASE ~(o + c - W > length)
    <3>1. Truncated(o, c) = c
      BY <2>1, <2>3 DEF Truncated
    <3> QED
      BY <1>1, <1>3, <3>1
  <2> QED
    BY <2>2, <2>3
<1> QED
  BY <1>1, <1>2, <1>3

\* A chunk's value: a failed one, or the stream's own.
Intact(k, v) == v \in ChunkValue /\ (v.size = 0 \/ (v.right = ChunkSize /\ k \in DOMAIN Stored))

\* What the loop of read() has of the stream, and how far what it still wants reaches.
Underway(t) ==
    LET reach == call[t].offset + Len(buf[t]) + left[t]
    IN  /\ ~call[t].late /\ length = StreamLength
        /\ next[t] = call[t].offset + Len(buf[t])
        /\ Len(buf[t]) + left[t] <= call[t].count
        /\ reach <= length \/ reach >= W
        /\ \A i \in 1 .. Len(buf[t]) : buf[t][i] = call[t].offset + i - 1

Given(t) ==
    /\ call[t] # NoCall => pc[t] # "idle" \/ result[t] # NoReply
    /\ call[t] # NoCall => call[t] \in CallRecord /\ (call[t].late => closed)
    /\ pc[t] # "idle" =>
         /\ t \in workload.readers /\ result[t] = NoReply
         /\ \E c \in workload.calls : c.offset = call[t].offset /\ c.count = call[t].count
    /\ pc[t] = "called" => buf[t] = <<>>
    /\ pc[t] \in InLoop => Underway(t)
    /\ pc[t] \in {"index", "file", "copy"} => left[t] > 0
    /\ pc[t] = "file" => ChunkOf(next[t]) \in DOMAIN Stored
    /\ pc[t] = "copy" => entry[t].key = ChunkOf(next[t]) /\ Intact(entry[t].key, entry[t].value)

\* Nothing that a reader refers to is evicted.
Alone == \A t, u \in workload.readers : t = u
AllFit ==
    /\ IsFiniteSet(Touched(workload)) /\ Cardinality(Touched(workload)) <= ChunkCacheSize
    /\ Distinct(chunkCache) /\ Chunks!KeysOf(chunkCache) \subseteq Touched(workload)
    /\ \A t \in Threads : pc[t] = "copy" => entry[t].key \in Chunks!KeysOf(chunkCache)

Good ==
    /\ ~closed => length = StreamLength
    /\ \A e \in Range(chunkCache) : Intact(e.key, e.value)
    /\ \A t \in Threads : Given(t)
    /\ Alone \/ AllFit

BInv == IInv /\ (faults = {} => Good)

LEMMA TypesKnown ==
  ASSUME IInv
  PROVE  /\ closed \in BOOLEAN /\ length \in 0 .. W - 1 /\ W \in Nat \ {0}
         /\ pc = [t \in Threads |-> pc[t]] /\ call = [t \in Threads |-> call[t]]
         /\ next = [t \in Threads |-> next[t]] /\ left = [t \in Threads |-> left[t]]
         /\ file = [t \in Threads |-> file[t]] /\ entry = [t \in Threads |-> entry[t]]
         /\ buf = [t \in Threads |-> buf[t]] /\ result = [t \in Threads |-> result[t]]
         /\ \A t \in Threads : /\ next[t] \in 0 .. W - 1 /\ left[t] \in 0 .. W - 1
                               /\ buf[t] \in Seq(Nat \cup {Garbage}) /\ Len(buf[t]) \in Nat
                               /\ result[t] \in Nat \cup {-1, NoReply}
<1>1. TypeOK /\ W \in Nat \ {0}
  BY SizesAssumption DEF IInv
<1>2. /\ pc = [t \in Threads |-> pc[t]] /\ call = [t \in Threads |-> call[t]]
      /\ next = [t \in Threads |-> next[t]] /\ left = [t \in Threads |-> left[t]]
      /\ file = [t \in Threads |-> file[t]] /\ entry = [t \in Threads |-> entry[t]]
      /\ buf = [t \in Threads |-> buf[t]] /\ result = [t \in Threads |-> result[t]]
  BY <1>1 DEF TypeOK
<1>3. \A t \in Threads : buf[t] \in Seq(Nat \cup {Garbage}) /\ Len(buf[t]) \in Nat
  BY <1>1, LenProperties DEF TypeOK
<1> QED
  BY <1>1, <1>2, <1>3 DEF TypeOK

\* A step that leaves a thread alone, or only closes the stream.
LEMMA OtherGiven ==
  ASSUME NEW t \in Threads, Given(t), closed \in BOOLEAN,
         workload' = workload, length' = length, closed' = closed \/ closed' = TRUE,
         pc'[t] = pc[t], call'[t] = call[t], next'[t] = next[t], left'[t] = left[t],
         entry'[t] = entry[t], buf'[t] = buf[t], result'[t] = result[t]
  PROVE  Given(t)'
<1>1. CallRecord' = CallRecord
  BY DEF CallRecord
<1>2. Underway(t) => Underway(t)'
  BY DEF Underway
<1> QED
  BY <1>1, <1>2 DEF Given, Intact

\* The loop of read(), as long as it has nothing new to copy.
LEMMA TurnGiven ==
  ASSUME NEW t \in Threads, Given(t), pc[t] \in InLoop, left[t] > 0,
         UNCHANGED <<workload, closed, length, call, next, left, buf, result>>,
         pc'[t] \in {"index", "file", "copy"},
         pc'[t] = "file" => ChunkOf(next[t]) \in DOMAIN Stored,
         pc'[t] = "copy" => entry'[t].key = ChunkOf(next[t]) /\ Intact(entry'[t].key, entry'[t].value)
  PROVE  Given(t)'
<1>1. CallRecord' = CallRecord /\ Underway(t)' = Underway(t)
  BY DEF CallRecord, Underway
<1>2. pc[t] # "idle" /\ pc'[t] # "idle" /\ pc'[t] # "called" /\ pc'[t] \in InLoop
  BY DEF InLoop
<1> QED
  BY <1>1, <1>2 DEF Given, Intact

\* The chunk a read asks the cache for is one that its workload touches.
LEMMA AskedIsTouched ==
  ASSUME IInv, NEW t \in Threads, Given(t), pc[t] \in InLoop, left[t] > 0
  PROVE  ChunkOf(next[t]) \in Touched(workload)
<1>1. PICK c \in workload.calls : c.offset = call[t].offset /\ c.count = call[t].count
  BY DEF Given, InLoop
<1>2. workload.calls \subseteq Calls
  BY WorkloadsAssumption DEF IInv, TypeOK, WorkloadType
<1>3. c.offset \in 0 .. W - 1 /\ c.count \in 0 .. W - 1
  BY <1>1, <1>2, CallsAssumption
<1>4. next[t] = c.offset + Len(buf[t]) /\ Len(buf[t]) + left[t] <= c.count
  BY <1>1 DEF Given, Underway
<1>5. next[t] \in 0 .. W - 1 /\ left[t] \in 0 .. W - 1 /\ Len(buf[t]) \in Nat /\ W \in Nat
  BY TypesKnown
<1>6. next[t] \in (c.offset .. c.offset + c.count - 1) \cap (0 .. W - 1)
  BY <1>3, <1>4, <1>5
<1> QED
  BY <1>6 DEF Touched

LEMMA BInitInv == NothingDangles => (Init => BInv)
<1> SUFFICES ASSUME NothingDangles, Init
             PROVE  BInv
  OBVIOUS
<1>1. IInv
  BY InitInv
<1>5. chunkCache = <<>>
  BY DEF Init
<1>6. Range(chunkCache) = {}
  BY <1>5 DEF Range
<1>2. faults = {} => Alone \/ (IsFiniteSet(Touched(workload)) /\ Cardinality(Touched(workload)) <= ChunkCacheSize)
  BY DEF NothingDangles, NoneDangles, Alone, Init, faults
<1>3. Distinct(chunkCache) /\ Chunks!KeysOf(chunkCache) = {}
  BY <1>5 DEF Distinct, Chunks!KeysOf
<1>4. \A t \in Threads : Given(t)
  BY DEF Init, Given, InLoop
<1> QED
  BY <1>1, <1>2, <1>3, <1>4, <1>5, <1>6 DEF BInv, Good, AllFit, Init

\* The steps of a reader that leave the cache alone and refer to no entry.
LEMMA ApartGood ==
  ASSUME IInv, Good, NEW t \in Threads, Given(t)', pc'[t] # "copy",
         UNCHANGED <<workload, closed, length, chunkCache>>,
         \A u \in Threads \ {t} : /\ pc'[u] = pc[u] /\ call'[u] = call[u] /\ next'[u] = next[u] /\ left'[u] = left[u]
                                  /\ entry'[u] = entry[u] /\ buf'[u] = buf[u] /\ result'[u] = result[u]
  PROVE  Good'
<1>1. \A u \in Threads : Given(u)'
  BY OtherGiven, TypesKnown DEF Good
<1>2. Alone => Alone'
  BY DEF Alone
<1>3. AllFit => AllFit'
  BY DEF AllFit, Distinct, Touched
<1> QED
  BY <1>1, <1>2, <1>3 DEF Good, Intact

LEMMA CallGood ==
  ASSUME IInv, Good, NEW t \in Threads, NEW c \in Calls, Call(t, c)
  PROVE  Good'
<1> DEFINE r == [offset |-> c.offset, count |-> c.count, late |-> closed]
<1>1. r \in CallRecord /\ r.offset = c.offset /\ r.count = c.count /\ r.late = closed
  BY CallsAssumption, TypesKnown DEF CallRecord
<1>2. /\ pc' = [pc EXCEPT ![t] = "called"] /\ call' = [call EXCEPT ![t] = r]
      /\ buf' = [buf EXCEPT ![t] = <<>>] /\ result' = [result EXCEPT ![t] = NoReply]
      /\ t \in workload.readers /\ c \in workload.calls
      /\ UNCHANGED <<workload, closed, length, chunkCache, next, left, entry>>
  BY DEF Call, cacheVars
<1> HIDE DEF r
<1>3. /\ pc'[t] = "called" /\ call'[t] = r /\ buf'[t] = <<>> /\ result'[t] = NoReply
      /\ \A u \in Threads \ {t} : /\ pc'[u] = pc[u] /\ call'[u] = call[u] /\ next'[u] = next[u] /\ left'[u] = left[u]
                                  /\ entry'[u] = entry[u] /\ buf'[u] = buf[u] /\ result'[u] = result[u]
  BY <1>2, TypesKnown
<1>4. CallRecord' = CallRecord
  BY DEF CallRecord
<1>5. Given(t)'
  BY <1>1, <1>2, <1>3, <1>4 DEF Given, InLoop
<1> QED
  BY <1>2, <1>3, <1>5, ApartGood

\* A read that returns.
LEMMA ReturnGood ==
  ASSUME IInv, Good, NEW t \in Threads, NEW n \in Nat \cup {-1}, Return(t, n), pc[t] # "idle",
         UNCHANGED <<workload, closed, length, chunkCache, call, next, left, buf>>,
         \A u \in Threads \ {t} : entry'[u] = entry[u]
  PROVE  Good'
<1>1. /\ pc'[t] = "idle" /\ result'[t] = n /\ n # NoReply
      /\ \A u \in Threads \ {t} : pc'[u] = pc[u] /\ result'[u] = result[u]
  BY TypesKnown, SentinelsAssumption DEF Return
<1>2. CallRecord' = CallRecord
  BY DEF CallRecord
<1>3. Given(t)'
  BY <1>1, <1>2 DEF Good, Given, InLoop
<1> QED
  BY <1>1, <1>3, ApartGood

LEMMA EnterGood ==
  ASSUME IInv, Good, NEW t \in Threads, Enter(t)
  PROVE  Good'
<1> DEFINE n == Truncated(call[t].offset, call[t].count)
<1>1. /\ pc[t] = "called" /\ ~closed /\ call[t].offset <= length
      /\ pc' = [pc EXCEPT ![t] = "loop"] /\ next' = [next EXCEPT ![t] = call[t].offset]
      /\ left' = [left EXCEPT ![t] = n]
      /\ UNCHANGED <<workload, closed, length, chunkCache, call, entry, buf, result>>
  BY DEF Enter, cacheVars
<1>2. call[t] \in CallRecord /\ call[t] # NoCall
  BY <1>1, NoCallAssumption DEF IInv, Asked, CallRecord
<1>3. call[t].offset \in 0 .. W - 1 /\ call[t].count \in 0 .. W - 1
  BY <1>2 DEF CallRecord
<1>4. n \in 0 .. call[t].count /\ (call[t].offset + n <= length \/ call[t].offset + n >= W)
  BY <1>1, <1>3, TruncatedReach, TypesKnown
<1> HIDE DEF n
<1>5. /\ pc'[t] = "loop" /\ next'[t] = call[t].offset /\ left'[t] = n
      /\ \A u \in Threads \ {t} : pc'[u] = pc[u] /\ next'[u] = next[u] /\ left'[u] = left[u]
  BY <1>1, TypesKnown
<1>6. Given(t)
  BY DEF Good
<1>7. buf[t] = <<>> /\ Len(buf[t]) = 0 /\ ~call[t].late /\ length = StreamLength
  BY <1>1, <1>2, <1>6 DEF Given, Good
<1>8. Underway(t)'
  BY <1>1, <1>3, <1>4, <1>5, <1>7 DEF Underway
<1>9. CallRecord' = CallRecord
  BY DEF CallRecord
<1>10. Given(t)'
  BY <1>1, <1>2, <1>5, <1>6, <1>8, <1>9 DEF Given, InLoop
<1> QED
  BY <1>1, <1>5, <1>10, ApartGood

LEMMA FinishGood ==
  ASSUME IInv, Good, NEW t \in Threads, Finish(t)
  PROVE  Good'
<1>1. /\ pc[t] # "idle" /\ Return(t, Len(buf[t]))
      /\ UNCHANGED <<workload, closed, length, chunkCache, call, next, left, buf, entry>>
  BY DEF Finish, cacheVars
<1>2. Len(buf[t]) \in Nat \cup {-1}
  BY TypesKnown
<1> QED
  BY <1>1, <1>2, ReturnGood

LEMMA RefuseGood ==
  ASSUME IInv, Good, NEW t \in Threads, Refuse(t)
  PROVE  Good'
<1>1. /\ pc[t] # "idle" /\ Return(t, IF closed THEN -1 ELSE 0)
      /\ UNCHANGED <<workload, closed, length, chunkCache, call, next, left, buf, entry>>
  BY DEF Refuse, cacheVars
<1>2. (IF closed THEN -1 ELSE 0) \in Nat \cup {-1}
  OBVIOUS
<1> QED
  BY <1>1, <1>2, ReturnGood

\* The bytes of a chunk from a place in it on are those of the stream.
LEMMA CopiedIsRight ==
  ASSUME NEW o \in Nat, NEW v, v.right = ChunkSize, NEW n \in Nat, n <= ChunkSize - (o % ChunkSize)
  PROVE  \A i \in 1 .. n : Copied(ChunkOf(o), v, o % ChunkSize, n)[i] = o + i - 1
<1> DEFINE c == ChunkOf(o)
           d == o % ChunkSize
           base == c * ChunkSize
<1>1. base \in Nat /\ d \in 0 .. ChunkSize - 1 /\ o = base + d /\ ChunkSize \in Nat
  <2>1. c \in Nat /\ d \in 0 .. ChunkSize - 1 /\ o = c * ChunkSize + d
    BY ChunkParts
  <2> QED
    BY <2>1, SizesAssumption
<1>2. Copied(c, v, d, n) = [i \in 1 .. n |-> IF d + i - 1 < v.right THEN base + d + i - 1 ELSE Garbage]
  BY DEF Copied
<1>3. n <= ChunkSize - d
  OBVIOUS
<1> HIDE DEF c, d, base
<1>4. \A i \in 1 .. n : d + i - 1 < v.right /\ base + d + i - 1 = o + i - 1
  BY <1>1, <1>3
<1> QED
  BY <1>2, <1>4 DEF c, d

\* What Copy() takes of an entry that does not dangle.
LEMMA CopyTakes ==
  ASSUME IInv, StreamEnds, NEW t \in Threads, Given(t), pc[t] = "copy",
         NEW v \in CopyValues(t), ~IsFailed(v)
  PROVE  LET n == CopyLength(t, v)
             more == Copied(entry[t].key, v, next[t] % ChunkSize, n)
         IN  /\ n \in Nat /\ n <= left[t] /\ next[t] + n <= W - 1
             /\ more \in Seq(Nat \cup {Garbage}) /\ Len(more) = n
             /\ \A i \in 1 .. n : more[i] = next[t] + i - 1
<1> DEFINE n == CopyLength(t, v)
           o == next[t]
           d == o % ChunkSize
<1>1. entry[t].key = ChunkOf(o) /\ Intact(entry[t].key, entry[t].value)
  BY DEF Given
<1>2. v = entry[t].value
  BY <1>1, DanglingAssumption DEF CopyValues, Intact
<1>3. v \in ChunkValue /\ v.size = ChunkSize /\ v.right = ChunkSize /\ ChunkOf(o) \in DOMAIN Stored
  BY <1>1, <1>2 DEF Intact, IsFailed, ChunkValue
<1>4. o \in 0 .. W - 1 /\ o \in Nat /\ left[t] \in 0 .. W - 1 /\ W \in Nat \ {0} /\ ChunkSize \in Nat \ {0}
  BY TypesKnown, SizesAssumption
<1>5. n \in Nat /\ n <= left[t]
  BY CopyLengthType, SizesAssumption DEF IInv
<1>6. d \in 0 .. ChunkSize - 1 /\ ChunkOf(o) \in Nat
  BY <1>4, ChunkParts
<1>7. n <= ChunkSize - d
  <2> DEFINE r == ChunkSize - d
  <2>1. r \in Nat
    BY <1>4, <1>6
  <2>2. n <= r % W
    <3>1. n = IF left[t] < (v.size - d) % W THEN left[t] ELSE (v.size - d) % W
      BY DEF CopyLength
    <3>2. v.size - d = r
      BY <1>3
    <3>3. r % W \in Int
      BY <1>4, <2>1
    <3> HIDE DEF n, r, d
    <3> QED
      BY <1>4, <3>1, <3>2, <3>3
  <2>3. \A a \in Nat, b \in Nat \ {0} : a % b <= a /\ a % b \in Nat
    OBVIOUS
  <2> HIDE DEF r, n, d
  <2>4. r % W <= r /\ r % W \in Nat
    BY <1>4, <2>1, <2>3
  <2>5. n <= r
    BY <1>5, <2>1, <2>2, <2>4
  <2> QED
    BY <2>5 DEF r
<1>8. ChunkOf(o) # ChunkOf(W - 1)
  BY <1>3 DEF StreamEnds
<1> HIDE DEF n, o
<1>9. o + n <= W - 1
  <2>1. n <= ChunkSize - (o % ChunkSize)
    BY <1>7
  <2>2. o \in 0 .. W - 1 /\ n \in Nat
    BY <1>4, <1>5
  <2> QED
    BY <1>8, <2>1, <2>2, WithinLast, Zenon
<1>10. /\ Copied(ChunkOf(o), v, d, n) \in Seq(Nat \cup {Garbage}) /\ Len(Copied(ChunkOf(o), v, d, n)) = n
  <2>1. d \in Nat
    BY <1>4, <1>6
  <2> HIDE DEF d
  <2> QED
    BY <1>3, <1>5, <1>6, <2>1, CopiedType
<1>11. \A i \in 1 .. n : Copied(ChunkOf(o), v, d, n)[i] = o + i - 1
  BY <1>3, <1>4, <1>5, <1>7, CopiedIsRight
<1> QED
  BY <1>1, <1>5, <1>9, <1>10, <1>11 DEF n, o

LEMMA CopyGood ==
  ASSUME IInv, Good, StreamEnds, NEW t \in Threads, Copy(t)
  PROVE  Good'
<1>1. PICK v \in CopyValues(t) :
        IF IsFailed(v)
        THEN Return(t, FailureResult(t)) /\ UNCHANGED <<next, left, buf>>
        ELSE /\ buf' = [buf EXCEPT ![t] = @ \o Copied(entry[t].key, v, next[t] % ChunkSize, CopyLength(t, v))]
             /\ next' = [next EXCEPT ![t] = (@ + CopyLength(t, v)) % W]
             /\ left' = [left EXCEPT ![t] = @ - CopyLength(t, v)]
             /\ pc' = [pc EXCEPT ![t] = "loop"]
             /\ UNCHANGED result
  BY DEF Copy, CopyValues
<1>2. /\ entry' = [entry EXCEPT ![t] = NoEntry] /\ pc[t] = "copy"
      /\ UNCHANGED <<workload, closed, length, chunkCache, call>>
  BY DEF Copy, cacheVars
<1>3. \A u \in Threads \ {t} : entry'[u] = entry[u]
  BY <1>2, TypesKnown
<1>4. Given(t)
  BY DEF Good
<1>5. CASE IsFailed(v)
  <2>1. Return(t, -1) /\ UNCHANGED <<next, left, buf>> /\ -1 \in Nat \cup {-1}
    BY <1>1, <1>5 DEF FailureResult
  <2> QED
    BY <1>2, <1>3, <2>1, ReturnGood
<1>6. CASE ~IsFailed(v)
  <2> DEFINE n == CopyLength(t, v)
             more == Copied(entry[t].key, v, next[t] % ChunkSize, n)
  <2>1. /\ n \in Nat /\ n <= left[t] /\ next[t] + n <= W - 1
        /\ more \in Seq(Nat \cup {Garbage}) /\ Len(more) = n
        /\ \A i \in 1 .. n : more[i] = next[t] + i - 1
    BY <1>2, <1>4, <1>6, CopyTakes
  <2>2. /\ buf' = [buf EXCEPT ![t] = @ \o more]
        /\ next' = [next EXCEPT ![t] = (@ + n) % W]
        /\ left' = [left EXCEPT ![t] = @ - n]
        /\ pc' = [pc EXCEPT ![t] = "loop"]
        /\ UNCHANGED result
    BY <1>1, <1>6
  <2> HIDE DEF n, more
  <2>3. /\ pc'[t] = "loop" /\ buf'[t] = buf[t] \o more /\ left'[t] = left[t] - n /\ next'[t] = (next[t] + n) % W
        /\ \A u \in Threads \ {t} : /\ pc'[u] = pc[u] /\ next'[u] = next[u] /\ left'[u] = left[u]
                                    /\ buf'[u] = buf[u]
    BY <2>2, TypesKnown
  <2>4. next[t] \in 0 .. W - 1 /\ left[t] \in 0 .. W - 1 /\ W \in Nat \ {0}
        /\ buf[t] \in Seq(Nat \cup {Garbage}) /\ Len(buf[t]) \in Nat
    BY TypesKnown
  <2>5. next'[t] = next[t] + n
    <3>1. next[t] + n \in 0 .. W - 1
      BY <2>1, <2>4
    <3> QED
      BY <2>3, <3>1, ModSame
  <2> DEFINE b == buf[t]
             all == b \o more
  <2>6. /\ Len(all) = Len(b) + n
        /\ \A i \in 1 .. Len(b) + n : all[i] = IF i <= Len(b) THEN b[i] ELSE more[i - Len(b)]
    BY <2>1, <2>4, ConcatProperties, ZenonT(30)
  <2> HIDE DEF all, b
  <2>7. call[t].offset \in 0 .. W - 1 /\ call[t].count \in 0 .. W - 1
    BY <1>2 DEF IInv, Asked, CallRecord
  <2>8. /\ ~call[t].late /\ length = StreamLength
        /\ next[t] = call[t].offset + Len(b)
        /\ Len(b) + left[t] <= call[t].count
        /\ call[t].offset + Len(b) + left[t] <= length \/ call[t].offset + Len(b) + left[t] >= W
        /\ \A i \in 1 .. Len(b) : b[i] = call[t].offset + i - 1
    BY <1>2, <1>4 DEF Given, Underway, InLoop, b
  <2>9. ASSUME NEW i \in 1 .. Len(all) PROVE all[i] = call[t].offset + i - 1
    <3>1. CASE i <= Len(b)
      <4>1. i \in 1 .. Len(b) /\ i \in 1 .. Len(b) + n
        BY <2>1, <2>4, <2>6, <3>1 DEF b
      <4> QED
        BY <2>6, <2>8, <3>1, <4>1
    <3>2. CASE ~(i <= Len(b))
      <4>1. i \in 1 .. Len(b) + n /\ i - Len(b) \in 1 .. n
        BY <2>1, <2>4, <2>6, <3>2 DEF b
      <4> PICK j \in 1 .. n : j = i - Len(b)
        BY <4>1
      <4>2. all[i] = more[j]
        BY <2>6, <3>2, <4>1
      <4>3. more[j] = next[t] + j - 1
        BY <2>1
      <4> QED
        <5>1. next[t] = call[t].offset + Len(b) /\ Len(b) \in Int /\ call[t].offset \in Int /\ i \in Int
          BY <2>1, <2>4, <2>7, <2>8, <4>1 DEF b
        <5> QED
          BY <4>2, <4>3, <5>1
    <3> QED
      BY <3>1, <3>2
  <2>10. Underway(t)'
    <3>1. Len(b) \in Nat /\ left'[t] = left[t] - n /\ buf'[t] = all
      BY <2>3, <2>4 DEF b, all
    <3>2. Len(all) + left'[t] = Len(b) + left[t]
      BY <2>1, <2>4, <2>6, <3>1
    <3>3. next'[t] = call[t].offset + Len(all)
      BY <2>1, <2>4, <2>5, <2>6, <2>7, <2>8, <3>1
    <3>4. call[t].offset + Len(all) + left'[t] = call[t].offset + Len(b) + left[t]
      BY <2>1, <2>4, <2>6, <2>7, <3>1
    <3> QED
      BY <1>2, <2>8, <2>9, <3>1, <3>2, <3>3, <3>4 DEF Underway
  <2>11. CallRecord' = CallRecord
    BY DEF CallRecord
  <2>12. Given(t)'
    BY <1>2, <1>4, <2>2, <2>3, <2>10, <2>11 DEF Given, InLoop
  <2>13. \A u \in Threads \ {t} : call'[u] = call[u] /\ result'[u] = result[u]
    BY <1>2, <2>2
  <2> QED
    BY <1>2, <1>3, <2>3, <2>12, <2>13, ApartGood
<1> QED
  BY <1>5, <1>6

LEMMA ChunkMissGood ==
  ASSUME IInv, Good, NEW t \in Threads, ChunkMiss(t)
  PROVE  Good'
<1>1. /\ pc[t] = "loop" /\ left[t] > 0 /\ pc' = [pc EXCEPT ![t] = "index"]
      /\ UNCHANGED <<workload, closed, length, chunkCache, call, next, left, entry, buf, result>>
  BY DEF ChunkMiss
<1>2. pc'[t] = "index" /\ \A u \in Threads \ {t} : pc'[u] = pc[u]
  BY <1>1, TypesKnown
<1>3. Given(t)'
  BY <1>1, <1>2, TurnGiven DEF Good, InLoop
<1> QED
  BY <1>1, <1>2, <1>3, ApartGood

LEMMA ReadFileGood ==
  ASSUME IInv, Good, NEW t \in Threads, ReadFile(t)
  PROVE  Good'
<1>1. /\ pc[t] = "file"
      /\ UNCHANGED <<workload, closed, length, chunkCache, pc, call, next, left, entry, buf, result>>
  BY DEF ReadFile, cacheVars
<1>2. Given(t) /\ Given(t)'
  <2>1. Given(t) /\ closed \in BOOLEAN
    BY TypesKnown DEF Good
  <2> QED
    BY <1>1, <2>1, OtherGiven
<1> QED
  BY <1>1, <1>2, ApartGood

\* A hit: the entry found is the one of the chunk asked for.
LEMMA ChunkHitGood ==
  ASSUME IInv, Good, NEW t \in Threads, ChunkHit(t)
  PROVE  Good'
<1> DEFINE c == ChunkOf(next[t])
           s == Chunks!Refreshed(chunkCache, c)
<1>1. chunkCache \in Seq(ChunkEntry) /\ c \in Chunks!KeysOf(chunkCache)
  BY DEF IInv, TypeOK, ChunkEntry, ChunkHit
<1>2. /\ pc[t] = "loop" /\ left[t] > 0
      /\ chunkCache' = s /\ entry' = [entry EXCEPT ![t] = chunkCache'[1]]
      /\ pc' = [pc EXCEPT ![t] = "copy"]
      /\ UNCHANGED <<workload, closed, length, call, next, left, buf, result>>
  BY DEF ChunkHit
<1>3. s \in Seq(ChunkEntry) /\ Range(s) \subseteq Range(chunkCache) /\ s[1] \in Range(chunkCache) /\ s[1].key = c
  BY <1>1, ChunksRefreshed, KeysRefreshed
<1>4. Distinct(chunkCache) => Distinct(s) /\ Chunks!KeysOf(s) = Chunks!KeysOf(chunkCache)
  BY <1>1, KeysRefreshed
<1> HIDE DEF s
<1>5. /\ pc'[t] = "copy" /\ entry'[t] = s[1]
      /\ \A u \in Threads \ {t} : pc'[u] = pc[u] /\ entry'[u] = entry[u]
  BY <1>2, TypesKnown
<1>6. Given(t)'
  <2>1. entry'[t].key = c /\ Intact(entry'[t].key, entry'[t].value)
    BY <1>3, <1>5 DEF Good
  <2> QED
    BY <1>2, <1>5, <2>1, TurnGiven DEF Good, InLoop
<1>7. \A u \in Threads : Given(u)'
  BY <1>2, <1>5, <1>6, OtherGiven, TypesKnown DEF Good
<1>8. \A e \in Range(chunkCache') : Intact(e.key, e.value)'
  BY <1>2, <1>3 DEF Good, Intact
<1>9. Alone => Alone'
  BY <1>2 DEF Alone
<1>10. AllFit => AllFit'
  <2> HAVE AllFit
  <2>1. Distinct(chunkCache') /\ Chunks!KeysOf(chunkCache') = Chunks!KeysOf(chunkCache)
    BY <1>2, <1>4 DEF AllFit
  <2>2. Touched(workload)' = Touched(workload)
    BY <1>2 DEF Touched
  <2>3. \A u \in Threads : pc'[u] = "copy" => entry'[u].key \in Chunks!KeysOf(chunkCache')
    BY <1>1, <1>3, <1>5, <2>1 DEF AllFit
  <2> QED
    BY <2>1, <2>2, <2>3 DEF AllFit, Distinct, Chunks!KeysOf
<1> QED
  BY <1>2, <1>7, <1>8, <1>9, <1>10 DEF Good

\* A load puts the chunk asked for in the cache, and no entry that is referred to dangles.
LEMMA DeliverGood ==
  ASSUME IInv, Good, NEW t \in Threads, NEW v, Deliver(t, v), pc[t] \in {"index", "file"},
         Intact(ChunkOf(next[t]), v),
         UNCHANGED <<workload, closed, length, call, next, left, buf, result>>
  PROVE  Good'
<1> DEFINE c == ChunkOf(next[t])
           s == Chunks!Loaded(chunkCache, c, v)
<1>1. chunkCache \in Seq(ChunkEntry) /\ c \in Nat /\ v \in ChunkValue /\ c \notin Chunks!KeysOf(chunkCache)
  <2>1. next[t] \in Nat
    BY TypesKnown, SizesAssumption
  <2> QED
    BY <2>1, ChunkOfType DEF IInv, TypeOK, LoadsExclude, ChunkEntry, Intact
<1>2. /\ chunkCache' = s /\ pc' = [pc EXCEPT ![t] = "copy"]
      /\ entry' = [u \in Threads |->
               IF u = t THEN [key |-> c, value |-> v]
               ELSE IF pc[u] = "copy" /\ entry[u].key \notin Chunks!KeysOf(chunkCache')
               THEN [entry[u] EXCEPT !.value = Dangling] ELSE entry[u]]
  BY DEF Deliver
<1>3. Intact(c, v) /\ Given(t) /\ left[t] > 0 /\ pc[t] \in InLoop
  BY DEF Good, Given, InLoop
<1>4. Range(s) \subseteq {[key |-> c, value |-> v]} \cup Range(chunkCache)
  BY <1>1, ChunksLoaded
<1>5. c \in Touched(workload)
  BY <1>3, AskedIsTouched
<1>6. AllFit => Distinct(s) /\ Chunks!KeysOf(s) = Chunks!KeysOf(chunkCache) \cup {c}
  <2> HAVE AllFit
  <2>1. Chunks!KeysOf(chunkCache) \cup {c} \subseteq Touched(workload)
    BY <1>5 DEF AllFit
  <2>2. IsFiniteSet(Touched(workload)) /\ Cardinality(Touched(workload)) <= ChunkCacheSize /\ Distinct(chunkCache)
    BY DEF AllFit
  <2> QED
    BY <1>1, <2>1, <2>2, KeysLoaded
<1> HIDE DEF c, s
<1>7. pc'[t] = "copy" /\ \A u \in Threads \ {t} : pc'[u] = pc[u]
  BY <1>2, TypesKnown
<1>8. entry'[t] = [key |-> c, value |-> v] /\ entry'[t].key = c /\ entry'[t].value = v
  BY <1>2
<1>9. ASSUME NEW u \in Threads \ {t} PROVE entry'[u] = entry[u]
  <2>1. CASE pc[u] # "copy"
    BY <1>2, <2>1
  <2>2. CASE pc[u] = "copy"
    <3>1. t \in workload.readers /\ u \in workload.readers
      BY <2>2 DEF Good, Given
    <3>2. AllFit
      BY <3>1 DEF Good, Alone
    <3>3. entry[u].key \in Chunks!KeysOf(chunkCache')
      BY <1>2, <1>6, <2>2, <3>2 DEF AllFit
    <3> QED
      BY <1>2, <3>3
  <2> QED
    BY <2>1, <2>2
<1>10. Given(t)'
  BY <1>3, <1>7, <1>8, TurnGiven DEF c
<1>11. \A u \in Threads : Given(u)'
  BY <1>7, <1>9, <1>10, OtherGiven, TypesKnown DEF Good
<1>12. \A e \in Range(chunkCache') : Intact(e.key, e.value)'
  <2>1. \A e \in Range(s) : Intact(e.key, e.value)
    <3>1. \A e \in Range(chunkCache) : Intact(e.key, e.value)
      BY DEF Good
    <3>2. [key |-> c, value |-> v].key = c /\ [key |-> c, value |-> v].value = v
      OBVIOUS
    <3> QED
      BY <1>3, <1>4, <3>1, <3>2
  <2> QED
    BY <1>2, <2>1 DEF Intact
<1>13. Alone => Alone'
  BY DEF Alone
<1>14. AllFit => AllFit'
  <2> HAVE AllFit
  <2>1. Distinct(chunkCache') /\ Chunks!KeysOf(chunkCache') = Chunks!KeysOf(chunkCache) \cup {c}
    BY <1>2, <1>6
  <2>2. Touched(workload)' = Touched(workload)
    BY DEF Touched
  <2>3. \A u \in Threads : pc'[u] = "copy" => entry'[u].key \in Chunks!KeysOf(chunkCache')
    BY <1>7, <1>8, <1>9, <2>1 DEF AllFit
  <2>4. Chunks!KeysOf(chunkCache') \subseteq Touched(workload)
    BY <1>5, <2>1 DEF AllFit
  <2> QED
    BY <2>1, <2>2, <2>3, <2>4 DEF AllFit, Distinct, Chunks!KeysOf
<1> QED
  BY <1>11, <1>12, <1>13, <1>14 DEF Good

LEMMA LoadIndexGood ==
  ASSUME IInv, Good, NEW t \in Threads, LoadIndex(t)
  PROVE  Good'
<1> DEFINE c == ChunkOf(next[t])
<1>1. pc[t] = "index" /\ UNCHANGED <<workload, closed, length, call, next, left, buf, result>>
  BY DEF LoadIndex
<1>2. PICK len \in PointLengths(c, bevvyCache'[1].value) :
        IF len = 0 THEN Deliver(t, FailedChunk) /\ UNCHANGED file
        ELSE /\ file' = [file EXCEPT ![t] = [index |-> bevvyCache'[1].value, len |-> len, pos |-> 0, right |-> 0]]
             /\ pc' = [pc EXCEPT ![t] = "file"]
             /\ UNCHANGED <<chunkCache, chunkLock, entry>>
  BY DEF LoadIndex
<1>3. CASE len = 0
  <2>1. Intact(c, FailedChunk)
    <3>1. FailedChunk \in ChunkValue
      BY SizesAssumption DEF FailedChunk, ChunkValue
    <3>2. FailedChunk.size = 0
      BY DEF FailedChunk
    <3> HIDE DEF c
    <3> QED
      BY <3>1, <3>2 DEF Intact
  <2> QED
    BY <1>1, <1>2, <1>3, <2>1, DeliverGood
<1>4. CASE len # 0
  <2>1. c \in DOMAIN Stored
    BY <1>4 DEF PointLengths
  <2>2. pc'[t] = "file" /\ chunkCache' = chunkCache /\ entry' = entry /\ \A u \in Threads \ {t} : pc'[u] = pc[u]
    BY <1>2, <1>4, TypesKnown
  <2>3. Given(t) /\ left[t] > 0
    BY <1>1 DEF Good, Given
  <2>4. Given(t)'
    BY <1>1, <2>1, <2>2, <2>3, TurnGiven DEF InLoop
  <2> QED
    BY <1>1, <2>2, <2>4, ApartGood
<1> QED
  BY <1>3, <1>4

LEMMA LoadGood ==
  ASSUME IInv, Good, faults = {}, NEW t \in Threads, Load(t)
  PROVE  Good'
<1>1. PICK v \in Decoded(file[t]) : Deliver(t, v)
  BY DEF Load
<1>2. pc[t] = "file" /\ UNCHANGED <<workload, closed, length, call, next, left, buf, result>>
  BY DEF Load
<1>3. v \in ChunkValue /\ RightValue(v)
  BY LoadedIsRight
<1>4. ChunkOf(next[t]) \in DOMAIN Stored
  BY <1>2 DEF Good, Given
<1>5. Intact(ChunkOf(next[t]), v)
  BY <1>3, <1>4 DEF Intact, RightValue
<1> QED
  BY <1>1, <1>2, <1>5, DeliverGood

LEMMA CloseGood ==
  ASSUME IInv, Good, Close
  PROVE  Good'
<1>1. closed' = TRUE /\ UNCHANGED <<workload, length, chunkCache, pc, call, next, left, entry, buf, result>>
  BY DEF Close, cacheVars
<1>2. \A t \in Threads : Given(t)'
  BY <1>1, OtherGiven, TypesKnown DEF Good
<1> QED
  BY <1>1, <1>2 DEF Good, Intact, Alone, AllFit, Distinct, Touched

LEMMA BNextInv == StreamEnds => (BInv /\ [Next]_vars => BInv')
<1> SUFFICES ASSUME StreamEnds, BInv, [Next]_vars
             PROVE  BInv'
  OBVIOUS
<1>1. IInv /\ IInv' /\ (faults = {} => Good)
  BY NextInv DEF BInv
<1>2. workload' = workload
  BY DEF Next, Close, ReadStep, Call, Refuse, Enter, Finish, Copy, ChunkHit, ChunkMiss, LoadIndex, ReadFile, Load, vars
<1>3. (faults = {})' = (faults = {})
  BY <1>2 DEF faults
<1> SUFFICES ASSUME faults = {}, Good
             PROVE  Good'
  BY <1>1, <1>3 DEF BInv
<1>4. CASE UNCHANGED vars
  <2>1. \A t \in Threads : Given(t)'
    BY <1>1, <1>4, OtherGiven, TypesKnown DEF vars, Good
  <2> QED
    BY <1>4, <2>1 DEF vars, Good, Intact, Alone, AllFit, Distinct, Touched
<1>5. CASE Close
  BY <1>1, <1>5, CloseGood
<1>6. ASSUME NEW t \in Threads, ReadStep(t) PROVE Good'
  BY <1>1, <1>6, RefuseGood, EnterGood, FinishGood, CopyGood, ChunkHitGood, ChunkMissGood,
     LoadIndexGood, ReadFileGood, LoadGood DEF ReadStep
<1>7. ASSUME NEW t \in Threads, NEW c \in Calls, Call(t, c) PROVE Good'
  BY <1>1, <1>7, CallGood
<1> QED
  BY <1>4, <1>5, <1>6, <1>7 DEF Next

-----------------------------------------------------------------------------
(* What the callers of an intact file see, and each step as one of the     *)
(* abstract stream.                                                        *)

Content == [o \in 0 .. StreamLength - 1 |-> o]
Asks == [t \in Threads |-> IF faults = {} THEN call[t] ELSE NoCall]
Replies == [t \in Threads |->
    IF faults # {} \/ result[t] = NoReply THEN NoReply
    ELSE [n |-> result[t], bytes |-> buf[t]]]

\* A reply is never mistaken for none.
LEMMA RepliesDiffer ==
  \A n \in Nat \cup {-1} : \A b \in Seq(Nat \cup {Garbage}) : [n |-> n, bytes |-> b] # NoReply
<1> TAKE n \in Nat \cup {-1}
<1> TAKE b \in Seq(Nat \cup {Garbage})
<1>1. [n |-> n, bytes |-> b] \in [n : Nat \cup {-1}, bytes : Seq(Nat \cup {Garbage})]
  OBVIOUS
<1> QED
  BY <1>1, NoReplyAssumption

\* What is seen of a thread does not depend on what a read in progress has put in its buffer.
LEMMA SeenSame ==
  ASSUME workload' = workload, call' = call, result' = result, closed' = closed,
         \A t \in Threads : faults = {} /\ result[t] # NoReply => buf'[t] = buf[t]
  PROVE  UNCHANGED Bytes!streamVars
<1>1. faults' = faults
  BY DEF faults
<1>2. Asks' = Asks
  BY <1>1 DEF Asks
<1>3. Replies' = Replies
  BY <1>1 DEF Replies
<1>4. Content' = Content
  BY DEF Content
<1> QED
  BY <1>2, <1>3, <1>4 DEF Bytes!streamVars, Content, Asks, Replies

LEMMA CloseIsClose ==
  ASSUME Close
  PROVE  Bytes!Close
<1>1. ~closed /\ closed' = TRUE /\ UNCHANGED <<workload, call, buf, result>>
  BY DEF Close
<1>2. faults' = faults
  BY <1>1 DEF faults
<1>3. Asks' = Asks /\ Replies' = Replies
  BY <1>1, <1>2 DEF Asks, Replies
<1>4. Content' = Content
  BY DEF Content
<1> QED
  BY <1>1, <1>3, <1>4 DEF Bytes!Close, Content, Asks, Replies

LEMMA CallIsAsk ==
  ASSUME BInv, NEW t \in Threads, NEW c \in Calls, Call(t, c)
  PROVE  [Bytes!Next]_(Bytes!streamVars)
<1> DEFINE r == [offset |-> c.offset, count |-> c.count, late |-> closed]
<1>1. /\ pc[t] = "idle" /\ workload' = workload /\ closed' = closed
      /\ call' = [call EXCEPT ![t] = r] /\ buf' = [buf EXCEPT ![t] = <<>>]
      /\ result' = [result EXCEPT ![t] = NoReply]
  BY DEF Call
<1>2. IInv /\ closed \in BOOLEAN
  BY TypesKnown DEF BInv
<1>3. faults' = faults /\ Content' = Content
  BY <1>1 DEF faults, Content
<1>4. r = [offset |-> c.offset, count |-> c.count, late |-> ~(~closed)]
  BY <1>2
<1> HIDE DEF r
<1>5. CASE faults = {}
  <2>1. Asks' = [Asks EXCEPT ![t] = r]
    BY <1>1, <1>2, <1>3, <1>5, TypesKnown DEF Asks
  <2>2. Replies' = [Replies EXCEPT ![t] = NoReply]
    <3>1. result'[t] = NoReply /\ \A u \in Threads : u # t => result'[u] = result[u] /\ buf'[u] = buf[u]
      BY <1>1, <1>2, TypesKnown
    <3> QED
      BY <1>3, <1>5, <3>1 DEF Replies
  <2>3. Asks[t] # NoCall => Replies[t] # NoReply
    <3> SUFFICES ASSUME Asks[t] # NoCall PROVE Replies[t] # NoReply
      OBVIOUS
    <3>1. call[t] # NoCall /\ result[t] # NoReply
      BY <1>1, <1>5 DEF Asks, BInv, Good, Given
    <3>2. result[t] \in Nat \cup {-1} /\ buf[t] \in Seq(Nat \cup {Garbage})
      BY <1>2, <3>1, TypesKnown
    <3>3. Replies[t] = [n |-> result[t], bytes |-> buf[t]]
      BY <1>5, <3>1 DEF Replies
    <3> QED
      BY <3>2, <3>3, RepliesDiffer
  <2>4. (~closed)' = ~closed
    BY <1>1
  <2>5. Bytes!Ask(t)
    BY <1>3, <1>4, <2>1, <2>2, <2>3, <2>4 DEF Bytes!Ask, Content, Asks, Replies
  <2> QED
    BY <2>5 DEF Bytes!Next
<1>6. CASE faults # {}
  <2>1. Asks' = Asks /\ Replies' = Replies
    BY <1>3, <1>6 DEF Asks, Replies
  <2> QED
    BY <1>1, <1>3, <2>1 DEF Bytes!streamVars, Content, Asks, Replies
<1> QED
  BY <1>5, <1>6

\* What a read that ends may give back: all it promised of the content, or a failure.
MayGive(t, n) ==
    \/ n = -1
    \/ /\ ~call[t].late /\ n \in 0 .. call[t].count
       /\ \A i \in 1 .. n : call[t].offset + i - 1 \in 0 .. StreamLength - 1
       /\ buf[t] = [i \in 1 .. n |-> call[t].offset + i - 1]

LEMMA ReturnIsAnswer ==
  ASSUME BInv, NEW t \in Threads, NEW n \in Nat \cup {-1}, pc[t] # "idle", faults = {} => MayGive(t, n),
         Return(t, n), UNCHANGED <<workload, closed, call, buf>>
  PROVE  [Bytes!Next]_(Bytes!streamVars)
<1>1. result' = [result EXCEPT ![t] = n]
  BY DEF Return
<1>2. IInv
  BY DEF BInv
<1>3. faults' = faults /\ Content' = Content
  BY DEF faults, Content
<1>4. result'[t] = n /\ \A u \in Threads : result'[u] = result[u] \/ u = t
  BY <1>1, <1>2, TypesKnown
<1>5. Asks' = Asks
  BY <1>3 DEF Asks
<1>6. CASE faults = {}
  <2> DEFINE r == [n |-> n, bytes |-> buf[t]]
  <2>1. n # NoReply /\ result[t] = NoReply /\ call[t] \in CallRecord
    BY <1>2, <1>6, SentinelsAssumption DEF BInv, Good, Given, IInv, Asked
  <2>2. Replies'[t] = r /\ \A u \in Threads : Replies'[u] = Replies[u] \/ u = t
    BY <1>3, <1>4, <1>6, <2>1 DEF Replies
  <2>3. r # NoReply
    BY <1>2, TypesKnown, RepliesDiffer
  <2>4. Replies[t] = NoReply /\ Asks[t] = call[t] /\ call[t] # NoCall
    BY <1>6, <2>1, NoCallAssumption DEF Replies, Asks, CallRecord
  <2>5. Bytes!Promised(Asks[t], r)
    <3>1. r.n = n /\ r.bytes = buf[t]
      OBVIOUS
    <3> HIDE DEF r
    <3>2. DOMAIN Content = 0 .. StreamLength - 1
      BY DEF Content
    <3>3. CASE n = -1
      BY <3>1, <3>3 DEF Bytes!Promised
    <3>4. CASE /\ ~call[t].late /\ n \in 0 .. call[t].count
               /\ \A i \in 1 .. n : call[t].offset + i - 1 \in 0 .. StreamLength - 1
               /\ buf[t] = [i \in 1 .. n |-> call[t].offset + i - 1]
      <4>1. \A i \in 1 .. n : Content[call[t].offset + i - 1] = call[t].offset + i - 1
        BY <3>4 DEF Content
      <4>2. buf[t] = [i \in 1 .. n |-> Content[call[t].offset + i - 1]]
        BY <3>4, <4>1
      <4>3. buf[t] = Bytes!Served(call[t], n)
        BY <4>2 DEF Bytes!Served, Content
      <4>4. \A i \in 1 .. n : call[t].offset + i - 1 \in DOMAIN Content
        BY <3>2, <3>4
      <4> QED
        BY <2>4, <3>1, <3>4, <4>3, <4>4 DEF Bytes!Promised, Content
    <3> QED
      BY <1>6, <3>3, <3>4 DEF MayGive
  <2> HIDE DEF r
  <2>6. (~closed)' = ~closed
    OBVIOUS
  <2>7. Bytes!Answer(t)
    BY <1>3, <1>5, <2>2, <2>3, <2>4, <2>5, <2>6 DEF Bytes!Answer, Content, Asks, Replies
  <2> QED
    BY <2>7 DEF Bytes!Next
<1>7. CASE faults # {}
  <2>1. Replies' = Replies
    BY <1>3, <1>7 DEF Replies
  <2> QED
    BY <1>3, <1>5, <2>1 DEF Bytes!streamVars, Content, Asks, Replies
<1> QED
  BY <1>6, <1>7

LEMMA RefuseIsAnswer ==
  ASSUME BInv, NEW t \in Threads, Refuse(t)
  PROVE  [Bytes!Next]_(Bytes!streamVars)
<1> DEFINE n == IF closed THEN -1 ELSE 0
<1>1. pc[t] = "called" /\ Return(t, n) /\ UNCHANGED <<workload, closed, call, buf>>
  BY DEF Refuse
<1>2. n \in Nat \cup {-1} /\ call[t] \in CallRecord
  BY <1>1 DEF BInv, IInv, Asked
<1>3. ASSUME faults = {} PROVE MayGive(t, n)
  <2>1. CASE closed
    BY <2>1 DEF MayGive
  <2>2. CASE ~closed
    <3>1. call[t] # NoCall /\ call[t].count \in 0 .. W - 1
      BY <1>2, NoCallAssumption DEF CallRecord
    <3>2. ~call[t].late /\ buf[t] = <<>>
      BY <1>1, <1>3, <2>2, <3>1 DEF BInv, Good, Given
    <3>3. n = 0 /\ 1 .. 0 = {} /\ 0 \in 0 .. call[t].count
      BY <2>2, <3>1, SizesAssumption
    <3>4. buf[t] = [i \in 1 .. 0 |-> call[t].offset + i - 1]
      BY <3>2, <3>3
    <3> QED
      BY <3>2, <3>3, <3>4 DEF MayGive
  <2> QED
    BY <2>1, <2>2
<1> HIDE DEF n
<1> QED
  BY <1>1, <1>2, <1>3, ReturnIsAnswer

LEMMA FinishIsAnswer ==
  ASSUME BInv, NEW t \in Threads, Finish(t)
  PROVE  [Bytes!Next]_(Bytes!streamVars)
<1> DEFINE n == Len(buf[t])
<1>1. pc[t] = "loop" /\ left[t] = 0 /\ Return(t, n) /\ UNCHANGED <<workload, closed, call, buf>>
  BY DEF Finish
<1>2. IInv /\ n \in Nat /\ buf[t] \in Seq(Nat \cup {Garbage})
  BY TypesKnown DEF BInv
<1>3. ASSUME faults = {} PROVE MayGive(t, n)
  <2>1. Underway(t)
    BY <1>1, <1>3 DEF BInv, Good, Given, InLoop
  <2>2. call[t].offset \in 0 .. W - 1 /\ call[t].count \in 0 .. W - 1
    BY <1>1, <1>2 DEF IInv, Asked, CallRecord
  <2>3. next[t] \in 0 .. W - 1 /\ length \in 0 .. W - 1 /\ W \in Nat
    BY <1>2, TypesKnown
  <2>4. /\ ~call[t].late /\ length = StreamLength /\ next[t] = call[t].offset + n
        /\ n + left[t] <= call[t].count
        /\ call[t].offset + n + left[t] <= length \/ call[t].offset + n + left[t] >= W
        /\ \A i \in 1 .. n : buf[t][i] = call[t].offset + i - 1
    BY <2>1 DEF Underway
  <2>5. buf[t] = [i \in 1 .. n |-> buf[t][i]]
    BY <1>2
  <2> HIDE DEF n
  <2>6. n <= call[t].count /\ call[t].offset + n <= StreamLength
    BY <1>1, <1>2, <2>2, <2>3, <2>4
  <2>7. \A i \in 1 .. n : call[t].offset + i - 1 \in 0 .. StreamLength - 1
    BY <1>2, <2>2, <2>3, <2>4, <2>6, SMTT(30)
  <2>8. buf[t] = [i \in 1 .. n |-> call[t].offset + i - 1]
    BY <2>4, <2>5
  <2>9. n \in 0 .. call[t].count
    BY <1>2, <2>2, <2>3, <2>6
  <2> QED
    BY <2>4, <2>7, <2>8, <2>9 DEF MayGive
<1> HIDE DEF n
<1> QED
  BY <1>1, <1>2, <1>3, ReturnIsAnswer

\* A turn of the loop is not seen; one that meets a failed chunk ends the read.
LEMMA CopyIsSeen ==
  ASSUME BInv, NEW t \in Threads, Copy(t)
  PROVE  [Bytes!Next]_(Bytes!streamVars)
<1>1. PICK v \in CopyValues(t) :
        IF IsFailed(v)
        THEN Return(t, FailureResult(t)) /\ UNCHANGED <<next, left, buf>>
        ELSE /\ buf' = [buf EXCEPT ![t] = @ \o Copied(entry[t].key, v, next[t] % ChunkSize, CopyLength(t, v))]
             /\ next' = [next EXCEPT ![t] = (@ + CopyLength(t, v)) % W]
             /\ left' = [left EXCEPT ![t] = @ - CopyLength(t, v)]
             /\ pc' = [pc EXCEPT ![t] = "loop"]
             /\ UNCHANGED result
  BY DEF Copy, CopyValues
<1>2. pc[t] = "copy" /\ UNCHANGED <<workload, closed, call>>
  BY DEF Copy
<1>3. CASE IsFailed(v)
  <2>1. Return(t, -1) /\ buf' = buf /\ -1 \in Nat \cup {-1}
    BY <1>1, <1>3 DEF FailureResult
  <2>2. MayGive(t, -1)
    BY DEF MayGive
  <2> QED
    BY <1>2, <2>1, <2>2, ReturnIsAnswer
<1>4. CASE ~IsFailed(v)
  <2>1. result' = result /\ \A u \in Threads \ {t} : buf'[u] = buf[u]
    BY <1>1, <1>4, TypesKnown DEF BInv
  <2>2. faults = {} => result[t] = NoReply
    BY <1>2 DEF BInv, Good, Given
  <2> QED
    BY <1>2, <2>1, <2>2, SeenSame
<1> QED
  BY <1>3, <1>4

LEMMA InitIsInit ==
  ASSUME Init
  PROVE  Bytes!Init
<1>1. Asks = [t \in Threads |-> NoCall] /\ Replies = [t \in Threads |-> NoReply]
  BY DEF Init, Asks, Replies
<1> QED
  BY <1>1 DEF Bytes!Init, Asks, Replies

LEMMA NextIsNext == BInv /\ [Next]_vars => [Bytes!Next]_(Bytes!streamVars)
<1> SUFFICES ASSUME BInv, [Next]_vars
             PROVE  [Bytes!Next]_(Bytes!streamVars)
  OBVIOUS
<1>1. CASE UNCHANGED vars
  BY <1>1, SeenSame DEF vars
<1>2. CASE Close
  BY <1>2, CloseIsClose DEF Bytes!Next
<1>3. ASSUME NEW t \in Threads, NEW c \in Calls, Call(t, c) PROVE [Bytes!Next]_(Bytes!streamVars)
  BY <1>3, CallIsAsk
<1>4. ASSUME NEW t \in Threads,
             Enter(t) \/ ChunkHit(t) \/ ChunkMiss(t) \/ LoadIndex(t) \/ ReadFile(t) \/ Load(t)
      PROVE  [Bytes!Next]_(Bytes!streamVars)
  <2>1. UNCHANGED <<workload, closed, call, buf, result>>
    BY <1>4 DEF Enter, ChunkHit, ChunkMiss, LoadIndex, ReadFile, Load
  <2> QED
    BY <2>1, SeenSame
<1>5. ASSUME NEW t \in Threads, ReadStep(t) PROVE [Bytes!Next]_(Bytes!streamVars)
  BY <1>4, <1>5, RefuseIsAnswer, FinishIsAnswer, CopyIsSeen DEF ReadStep
<1> QED
  BY <1>1, <1>2, <1>3, <1>5 DEF Next

(* An aff4:ImageStream is a byte stream, for any sizes of its chunks,      *)
(* bevvies and caches: in an intact file a read gives the bytes of the     *)
(* stream that were asked for, or fails, whichever chunks are cached, in   *)
(* whatever pieces they are read, also when offset + count wraps.  Needed  *)
(* is that no entry is evicted under a reader that holds a reference to    *)
(* it (Cache.h:94), and that the last chunk of the address space is not    *)
(* stored (ImageStream.cc:176-232).                                        *)
THEOREM ImageIsByteStream == NothingDangles /\ StreamEnds => (Spec => IsByteStream)
<1> SUFFICES ASSUME NothingDangles, StreamEnds
             PROVE  Spec => IsByteStream
  OBVIOUS
<1>1. Init => BInv
  BY BInitInv
<1>2. BInv /\ [Next]_vars => BInv'
  BY BNextInv
<1>3. Init => Bytes!Init
  BY InitIsInit
<1> QED
  BY <1>1, <1>2, <1>3, NextIsNext, PTL DEF Spec, IsByteStream, Bytes!Spec
=============================================================================
