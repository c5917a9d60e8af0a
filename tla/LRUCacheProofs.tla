--------------------------- MODULE LRUCacheProofs ---------------------------
(***************************************************************************)
(* What holds of the cache for every set of threads and keys, every size   *)
(* bound and every loader.                                                 *)
(***************************************************************************)
EXTENDS LRUCache, SequenceTheorems, FiniteSetTheorems, TLAPS

(* What erase() leaves: everything before the place and everything after.  *)
LEMMA RemoveAtElements ==
    ASSUME NEW S, NEW s \in Seq(S), NEW p \in 1 .. Len(s)
    PROVE  /\ RemoveAt(s, p) \in Seq(S)
           /\ Len(RemoveAt(s, p)) = Len(s) - 1
           /\ \A i \in 1 .. Len(s) - 1 : RemoveAt(s, p)[i] = IF i < p THEN s[i] ELSE s[i + 1]
<1> DEFINE a == SubSeq(s, 1, p - 1)
           b == SubSeq(s, p + 1, Len(s))
           e == RemoveAt(s, p)
<1>1. Len(s) \in Nat /\ DOMAIN s = 1 .. Len(s)
  BY LenProperties
<1>2. /\ a \in Seq(S) /\ Len(a) = p - 1
      /\ \A i \in 1 .. p - 1 : a[i] = s[i]
  BY <1>1
<1>3. /\ b \in Seq(S) /\ Len(b) = Len(s) - p
      /\ \A i \in 1 .. Len(s) - p : b[i] = s[p + i]
  <2>1. \A i \in p + 1 .. Len(s) : s[i] \in S
    BY <1>1, ElementOfSeq
  <2>2. Len(s) \in p .. Len(s) /\ p + 1 \in Int /\ p \in Int
    BY <1>1
  <2>3. /\ b \in Seq(S)
        /\ Len(b) = IF p + 1 <= Len(s) THEN Len(s) - (p + 1) + 1 ELSE 0
        /\ \A i \in 1 .. Len(s) - (p + 1) + 1 : b[i] = s[(p + 1) + i - 1]
    BY <1>1, <2>1, <2>2, SubSeqProperties
  <2>4. \A i \in 1 .. Len(s) - p : b[i] = s[p + i]
    <3> TAKE i \in 1 .. Len(s) - p
    <3>1. i \in 1 .. Len(s) - (p + 1) + 1 /\ (p + 1) + i - 1 = p + i
      BY <1>1, <2>2
    <3> HIDE DEF b
    <3>2. QED
      BY <2>3, <3>1
  <2>5. Len(s) - p = IF p + 1 <= Len(s) THEN Len(s) - (p + 1) + 1 ELSE 0
    <3>1. \A m, q \in Int : q <= m => m - q = IF q + 1 <= m THEN m - (q + 1) + 1 ELSE 0
      OBVIOUS
    <3>2. Len(s) \in Int /\ p \in Int /\ p <= Len(s)
      BY <1>1
    <3>3. QED
      BY <3>1, <3>2
  <2> HIDE DEF b
  <2>6. QED
    BY <2>3, <2>4, <2>5
<1>4. e = a \o b
  BY DEF RemoveAt
<1> HIDE DEF a, b, e
<1>5. p \in Int /\ 1 <= p /\ p <= Len(s) /\ Len(s) \in Int
  BY <1>1
<1>6. e \in Seq(S) /\ Len(e) = Len(s) - 1
  <2>1. a \o b \in Seq(S) /\ Len(a \o b) = Len(a) + Len(b)
    BY <1>2, <1>3, ConcatProperties
  <2>2. Len(a) + Len(b) = Len(s) - 1
    BY <1>2, <1>3, <1>5
  <2>3. QED
    BY <1>4, <2>1, <2>2
<1>7. ASSUME NEW i \in 1 .. Len(s) - 1
      PROVE  e[i] = IF i < p THEN s[i] ELSE s[i + 1]
  <2>1. \A j \in 1 .. Len(a) + Len(b) :
            (a \o b)[j] = IF j <= Len(a) THEN a[j] ELSE b[j - Len(a)]
    BY <1>2, <1>3, ConcatProperties
  <2>2. e[i] = IF i <= p - 1 THEN a[i] ELSE b[i - (p - 1)]
    BY <1>1, <1>2, <1>3, <1>4, <2>1
  <2>3. CASE i < p
    BY <1>1, <1>2, <2>2, <2>3
  <2>4. CASE ~(i < p)
    <3>1. /\ i - (p - 1) \in 1 .. Len(s) - p
          /\ p + (i - (p - 1)) = i + 1
          /\ ~(i <= p - 1)
      BY <1>5, <2>4
    <3>2. b[i - (p - 1)] = s[p + (i - (p - 1))]
      BY <1>3, <3>1
    <3>3. QED
      BY <2>2, <2>4, <3>1, <3>2
  <2>5. QED
    BY <2>3, <2>4
<1>8. QED
  BY <1>6, <1>7 DEF e

(* Erasing a listed node from a list without repetitions shortens the list *)
(* by one, takes exactly that node out and repeats nothing.                *)
LEMMA EraseListed ==
    ASSUME NEW S, NEW s \in Seq(S), IsInjective(s), NEW n \in Range(s)
    PROVE  /\ Erase(s, n) \in Seq(S)
           /\ Len(Erase(s, n)) = Len(s) - 1
           /\ Range(Erase(s, n)) = Range(s) \ {n}
           /\ IsInjective(Erase(s, n))
<1> DEFINE p == CHOOSE i \in DOMAIN s : s[i] = n
<1>1. p \in DOMAIN s /\ s[p] = n
  BY DEF Range
<1>2. Erase(s, n) = RemoveAt(s, p)
  BY <1>1 DEF Erase
<1>3. Len(s) \in Nat /\ DOMAIN s = 1 .. Len(s)
  BY LenProperties
<1> HIDE DEF p
<1> DEFINE e == Erase(s, n)
<1>4. /\ e \in Seq(S) /\ Len(e) = Len(s) - 1
      /\ \A i \in 1 .. Len(s) - 1 : e[i] = IF i < p THEN s[i] ELSE s[i + 1]
  BY <1>1, <1>2, <1>3, RemoveAtElements, ZenonT(30)
<1> HIDE DEF e
<1>5. DOMAIN e = 1 .. Len(s) - 1
  BY <1>4
<1>6. Range(e) = Range(s) \ {n}
  <2>1. ASSUME NEW x \in Range(e) PROVE x \in Range(s) \ {n}
    <3>1. PICK i \in 1 .. Len(s) - 1 : x = e[i]
      BY <1>5 DEF Range
    <3>2. CASE i < p
      <4>1. i \in DOMAIN s /\ i # p /\ x = s[i]
        BY <1>1, <1>3, <1>4, <3>1, <3>2
      <4>2. QED
        BY <1>1, <4>1 DEF Range, IsInjective
    <3>3. CASE ~(i < p)
      <4>1. i + 1 \in DOMAIN s /\ i + 1 # p /\ x = s[i + 1]
        BY <1>1, <1>3, <1>4, <3>1, <3>3
      <4>2. QED
        BY <1>1, <4>1 DEF Range, IsInjective
    <3>4. QED
      BY <3>2, <3>3
  <2>2. ASSUME NEW x \in Range(s) \ {n} PROVE x \in Range(e)
    <3>1. PICK i \in 1 .. Len(s) : x = s[i] /\ i # p
      BY <1>1, <1>3 DEF Range
    <3>2. CASE i < p
      <4>1. i \in 1 .. Len(s) - 1 /\ e[i] = x
        BY <1>1, <1>3, <1>4, <3>1, <3>2
      <4>2. QED
        BY <1>5, <4>1 DEF Range
    <3>3. CASE i > p
      <4>1. i - 1 \in 1 .. Len(s) - 1 /\ e[i - 1] = x
        BY <1>1, <1>3, <1>4, <3>1, <3>3
      <4>2. QED
        BY <1>5, <4>1 DEF Range
    <3>4. QED
      BY <1>1, <1>3, <3>1, <3>2, <3>3
  <2>3. QED
    BY <2>1, <2>2
<1>7. IsInjective(e)
  BY <1>1, <1>3, <1>4, <1>5, SMTT(30) DEF IsInjective
<1>8. QED
  BY <1>4, <1>6, <1>7 DEF e

(* Putting a fresh node in front.                                          *)
LEMMA Prepend ==
    ASSUME NEW S, NEW s \in Seq(S), IsInjective(s), NEW n \in S, n \notin Range(s)
    PROVE  /\ <<n>> \o s \in Seq(S)
           /\ Len(<<n>> \o s) = Len(s) + 1
           /\ (<<n>> \o s)[1] = n
           /\ Range(<<n>> \o s) = Range(s) \cup {n}
           /\ IsInjective(<<n>> \o s)
<1> DEFINE e == <<n>> \o s
<1>1. Len(s) \in Nat /\ DOMAIN s = 1 .. Len(s)
  BY LenProperties
<1>2. <<n>> \in Seq(S) /\ Len(<<n>>) = 1 /\ <<n>>[1] = n
  OBVIOUS
<1>3. /\ e \in Seq(S) /\ Len(e) = Len(s) + 1
      /\ \A i \in 1 .. Len(s) + 1 : e[i] = IF i = 1 THEN n ELSE s[i - 1]
  <2>1. /\ e \in Seq(S) /\ Len(e) = 1 + Len(s)
        /\ \A i \in 1 .. 1 + Len(s) : e[i] = IF i <= 1 THEN <<n>>[i] ELSE s[i - 1]
    BY <1>2, ConcatProperties
  <2> HIDE DEF e
  <2>2. QED
    BY <1>1, <1>2, <2>1
<1> HIDE DEF e
<1>4. DOMAIN e = 1 .. Len(s) + 1
  BY <1>1, <1>3, LenProperties
<1>5. Range(e) = Range(s) \cup {n}
  <2>1. ASSUME NEW x \in Range(e) PROVE x \in Range(s) \cup {n}
    BY <1>1, <1>3, <1>4 DEF Range
  <2>2. ASSUME NEW x \in Range(s) PROVE x \in Range(e)
    <3>1. PICK i \in 1 .. Len(s) : x = s[i]
      BY <1>1 DEF Range
    <3>2. i + 1 \in 1 .. Len(s) + 1 /\ e[i + 1] = x
      BY <1>1, <1>3, <3>1
    <3>3. QED
      BY <1>4, <3>2 DEF Range
  <2>3. n \in Range(e)
    BY <1>1, <1>3, <1>4 DEF Range
  <2>4. QED
    BY <2>1, <2>2, <2>3
<1>6. IsInjective(e)
  <2>1. \A i \in 1 .. Len(s) : s[i] # n
    BY <1>1 DEF Range
  <2>2. ASSUME NEW i \in 1 .. Len(s) + 1, NEW j \in 1 .. Len(s) + 1, e[i] = e[j] PROVE i = j
    <3>1. CASE i = 1 \/ j = 1
      BY <1>1, <1>3, <2>1, <2>2, <3>1
    <3>2. CASE i # 1 /\ j # 1
      <4>1. i - 1 \in DOMAIN s /\ j - 1 \in DOMAIN s /\ s[i - 1] = s[j - 1]
        BY <1>1, <1>3, <2>2, <3>2
      <4>2. i - 1 = j - 1
        BY <4>1 DEF IsInjective
      <4>3. QED
        BY <1>1, <4>2
    <3>3. QED
      BY <3>1, <3>2
  <2>3. QED
    BY <1>4, <2>2 DEF IsInjective
<1>7. QED
  BY <1>1, <1>3, <1>5, <1>6 DEF e

(* pop_back() on a list without repetitions.                               *)
LEMMA DropLast ==
    ASSUME NEW S, NEW s \in Seq(S), IsInjective(s), Len(s) > 0
    PROVE  LET e == SubSeq(s, 1, Len(s) - 1)
           IN  /\ e \in Seq(S)
               /\ Len(e) = Len(s) - 1
               /\ Len(s) > 1 => e[1] = s[1]
               /\ s[Len(s)] \in Range(s)
               /\ Range(e) = Range(s) \ {s[Len(s)]}
               /\ IsInjective(e)
<1> DEFINE e == SubSeq(s, 1, Len(s) - 1)
<1>1. Len(s) \in Nat /\ DOMAIN s = 1 .. Len(s)
  BY LenProperties
<1>2. /\ e \in Seq(S) /\ Len(e) = Len(s) - 1
      /\ \A i \in 1 .. Len(s) - 1 : e[i] = s[i]
  BY <1>1
<1> HIDE DEF e
<1>3. DOMAIN e = 1 .. Len(s) - 1
  BY <1>1, <1>2, LenProperties
<1>4. s[Len(s)] \in Range(s)
  BY <1>1 DEF Range
<1>5. Range(e) = Range(s) \ {s[Len(s)]}
  <2>1. ASSUME NEW x \in Range(e) PROVE x \in Range(s) \ {s[Len(s)]}
    BY <1>1, <1>2, <1>3 DEF Range, IsInjective
  <2>2. ASSUME NEW x \in Range(s) \ {s[Len(s)]} PROVE x \in Range(e)
    BY <1>1, <1>2, <1>3 DEF Range
  <2>3. QED
    BY <2>1, <2>2
<1>6. IsInjective(e)
  BY <1>1, <1>2, <1>3 DEF IsInjective
<1>7. Len(s) > 1 => e[1] = s[1]
  BY <1>1, <1>2
<1>8. QED
  BY <1>2, <1>4, <1>5, <1>6, <1>7 DEF e

-----------------------------------------------------------------------------
(* The list, the map and the heap under get()'s two changes.               *)

CacheType ==
    /\ cacheItems \in Seq(Nodes)
    /\ DOMAIN cacheMap \subseteq Keys
    /\ \A k \in DOMAIN cacheMap : cacheMap[k] \in Nodes
    /\ node \in [Nodes -> [key : Keys \cup {NoKey}, value : Values \cup {NoValue}]]

CacheInv == CacheType /\ ListMapAgree /\ size <= MaxSize

(* Refreshing a held entry changes the order of the list and nothing else. *)
LEMMA SpliceAgrees ==
    ASSUME CacheInv, NEW k \in Held
    PROVE  LET n == cacheMap[k]
               s == SpliceToFront(cacheItems, n)
           IN  /\ s \in Seq(Nodes)
               /\ s[1] = n
               /\ Len(s) = Len(cacheItems)
               /\ Range(s) = Range(cacheItems)
               /\ IsInjective(s)
               /\ s # <<>>
<1> DEFINE n == cacheMap[k]
           e == Erase(cacheItems, n)
<1>1. /\ cacheItems \in Seq(Nodes) /\ IsInjective(cacheItems)
      /\ n \in Range(cacheItems) /\ n \in Nodes
  BY DEF CacheInv, CacheType, ListMapAgree, Agree, Held
<1>2. /\ e \in Seq(Nodes) /\ Len(e) = Len(cacheItems) - 1
      /\ Range(e) = Range(cacheItems) \ {n} /\ IsInjective(e)
  BY <1>1, EraseListed
<1>3. SpliceToFront(cacheItems, n) = <<n>> \o e
  BY DEF SpliceToFront
<1>4. Len(cacheItems) \in Nat
  BY <1>1, LenProperties
<1> HIDE DEF n, e
<1>5. /\ <<n>> \o e \in Seq(Nodes) /\ Len(<<n>> \o e) = Len(e) + 1
      /\ (<<n>> \o e)[1] = n /\ Range(<<n>> \o e) = Range(e) \cup {n}
      /\ IsInjective(<<n>> \o e)
  BY <1>1, <1>2, Prepend
<1>6. Len(<<n>> \o e) = Len(cacheItems) /\ Range(<<n>> \o e) = Range(cacheItems)
  <2>1. Len(<<n>> \o e) = Len(cacheItems)
    BY <1>2, <1>4, <1>5
  <2>2. Range(<<n>> \o e) = Range(cacheItems)
    BY <1>1, <1>2, <1>5
  <2>3. QED
    BY <2>1, <2>2
<1>7. <<n>> \o e # <<>>
  BY <1>1, <1>6, EmptySeq DEF Range
<1>8. QED
  BY <1>3, <1>5, <1>6, <1>7 DEF n

(* The list without the entry k may already have.                          *)
Kept(k) == IF k \in Held THEN Erase(cacheItems, cacheMap[k]) ELSE cacheItems

(* The list after put(k, v) into node n.                                   *)
PutInFront(k, n) ==
    LET items == <<n>> \o Kept(k)
    IN  IF Len(items) > MaxSize THEN SubSeq(items, 1, Len(items) - 1) ELSE items

(* put() keeps the structures in agreement and within the bound, and       *)
(* unless nothing at all may be held it leaves the new entry in front; the *)
(* other entries it leaves follow in their order, with what they hold.     *)
LEMMA PutAgrees ==
    ASSUME CacheInv, NEW k \in Keys, NEW n \in Nodes \ Allocated, NEW v \in LoaderResults[k],
           Put(k, v, n)
    PROVE  /\ CacheInv'
           /\ MaxSize > 0 => /\ k \in DOMAIN cacheMap'
                             /\ cacheItems' # <<>> /\ cacheItems'[1] = n
                             /\ node'[n] = [key |-> k, value |-> v]
           /\ cacheItems' = PutInFront(k, n)
           /\ \A m \in Range(cacheItems') :
                  node'[m] = IF m = n THEN [key |-> k, value |-> v] ELSE node[m]
<1> DEFINE old == IF k \in Held THEN {cacheMap[k]} ELSE {}
           kept == IF k \in Held THEN Erase(cacheItems, cacheMap[k]) ELSE cacheItems
           items == <<n>> \o kept
           map == Bind(Unmap(cacheMap, k), k, n)
           heap == [node EXCEPT ![n] = [key |-> k, value |-> v]]
           last == items[Len(items)]
<1>1. /\ cacheItems \in Seq(Nodes) /\ IsInjective(cacheItems) /\ Len(cacheItems) \in Nat
      /\ Len(cacheItems) <= MaxSize /\ Held \subseteq Keys /\ MaxSize \in Nat
      /\ \A j \in Held : cacheMap[j] \in Range(cacheItems) /\ cacheMap[j] \in Nodes
      /\ node \in [Nodes -> [key : Keys \cup {NoKey}, value : Values \cup {NoValue}]]
  BY LenProperties, SizeAssumption DEF CacheInv, CacheType, ListMapAgree, Agree, Held, size
<1>2. /\ kept \in Seq(Nodes) /\ IsInjective(kept) /\ Len(kept) \in Nat /\ Len(kept) <= MaxSize
      /\ Range(kept) = Range(cacheItems) \ old
  <2>1. CASE k \in Held
    BY <1>1, <2>1, EraseListed, LenProperties
  <2>2. CASE k \notin Held
    BY <1>1, <2>2
  <2>3. QED
    BY <2>1, <2>2
<1>3. n \in Nodes /\ n \notin Range(kept) /\ v \in Values
  BY <1>2 DEF Allocated, Values
<1>4. /\ items \in Seq(Nodes) /\ IsInjective(items) /\ Len(items) = Len(kept) + 1
      /\ items[1] = n /\ Range(items) = (Range(cacheItems) \ old) \cup {n}
  <2> HIDE DEF kept, old
  <2>1. QED
    BY <1>2, <1>3, Prepend
<1>5. /\ DOMAIN map = Held \cup {k} /\ map[k] = n
      /\ \A j \in Held \ {k} : map[j] = cacheMap[j]
  BY DEF Bind, Unmap, Held
<1>6. /\ heap \in [Nodes -> [key : Keys \cup {NoKey}, value : Values \cup {NoValue}]]
      /\ heap[n] = [key |-> k, value |-> v]
      /\ \A m \in Nodes \ {n} : heap[m] = node[m]
  BY <1>1, <1>3
<1>7. Agree(items, map, heap)
  <2>1. ASSUME NEW j \in DOMAIN map PROVE map[j] \in Range(items) /\ heap[map[j]].key = j
    <3>1. CASE j = k
      BY <1>4, <1>5, <1>6, <3>1
    <3>2. CASE j # k
      <4>1. /\ j \in Held /\ map[j] = cacheMap[j] /\ cacheMap[j] \in Range(cacheItems)
            /\ cacheMap[j] \in Nodes /\ node[cacheMap[j]].key = j
        BY <1>1, <1>5, <3>2 DEF CacheInv, ListMapAgree, Agree, Held
      <4>2. cacheMap[j] \notin old
        BY <3>2, <4>1 DEF CacheInv, ListMapAgree, Agree, Held
      <4>3. cacheMap[j] # n
        BY <4>1 DEF Allocated
      <4>4. QED
        BY <1>4, <1>6, <4>1, <4>2, <4>3
    <3>3. QED
      BY <3>1, <3>2
  <2>2. ASSUME NEW m \in Range(items)
        PROVE  /\ heap[m].key \in DOMAIN map
               /\ map[heap[m].key] = m
               /\ heap[m].value \in LoaderResults[heap[m].key]
    <3>1. CASE m = n
      BY <1>5, <1>6, <3>1
    <3>2. CASE m # n
      <4>1. /\ m \in Range(cacheItems) /\ m \notin old /\ m \in Nodes
        <5>1. Range(cacheItems) \subseteq Nodes
          BY <1>1, RangeOfSeq
        <5>2. QED
          BY <1>4, <3>2, <5>1
      <4>2. /\ node[m].key \in Held /\ cacheMap[node[m].key] = m
            /\ node[m].value \in LoaderResults[node[m].key]
        BY <4>1 DEF CacheInv, ListMapAgree, Agree, Held
      <4>3. node[m].key # k
        BY <4>1, <4>2
      <4>4. heap[m] = node[m]
        BY <1>6, <3>2, <4>1
      <4>5. QED
        BY <1>5, <4>2, <4>3, <4>4
    <3>3. QED
      BY <3>1, <3>2
  <2>3. QED
    BY <1>4, <2>1, <2>2 DEF Agree
<1>8. PICK res : /\ res = IF Len(items) > MaxSize
                          THEN Evicted(Inserted(k, n), heap[last].key)
                          ELSE Inserted(k, n)
                 /\ cacheItems' = res.items /\ cacheMap' = res.map
                 /\ node' = [m \in Nodes |-> IF m \in res.dead THEN Freed ELSE heap[m]]
  <2> DEFINE ins == Inserted(k, n)
             put == IF Len(ins.items) > MaxSize
                    THEN Evicted(ins, heap[ins.items[Len(ins.items)]].key)
                    ELSE ins
  <2>1. /\ cacheItems' = put.items /\ cacheMap' = put.map
        /\ node' = [m \in Nodes |-> IF m \in put.dead THEN Freed ELSE heap[m]]
    BY Zenon DEF Put, PutBounded
  <2>2. ins.items = items
    BY DEF Inserted
  <2> HIDE DEF ins, items, heap
  <2>3. put = IF Len(items) > MaxSize THEN Evicted(ins, heap[last].key) ELSE ins
    BY <2>2
  <2> HIDE DEF put
  <2>4. QED
    BY <2>1, <2>3 DEF ins
<1>9. Inserted(k, n) = [items |-> items, map |-> map, dead |-> old]
  BY DEF Inserted
<1> HIDE DEF items, map, heap, old, kept
<1>10. /\ cacheItems' \in Seq(Nodes) /\ Len(cacheItems') <= MaxSize
       /\ DOMAIN cacheMap' \subseteq Held \cup {k}
       /\ \A j \in DOMAIN cacheMap' : cacheMap'[j] = map[j]
       /\ Agree(cacheItems', cacheMap', heap)
       /\ res.dead \cap Range(cacheItems') = {}
       /\ MaxSize > 0 => k \in DOMAIN cacheMap' /\ cacheItems' # <<>> /\ cacheItems'[1] = n
  <2>1. CASE ~(Len(items) > MaxSize)
    <3>1. cacheItems' = items /\ cacheMap' = map /\ res.dead = old
      BY <1>8, <1>9, <2>1
    <3>2. Len(items) <= MaxSize
      BY <1>1, <1>2, <1>4, <2>1
    <3>3. n \notin old
      BY <1>1 DEF old, Allocated
    <3>4. items # <<>>
      BY <1>2, <1>4, EmptySeq
    <3>5. QED
      BY <1>4, <1>5, <1>7, <3>1, <3>2, <3>3, <3>4
  <2>2. CASE Len(items) > MaxSize
    <3> DEFINE short == SubSeq(items, 1, Len(items) - 1)
               j == heap[last].key
    <3>1. /\ short \in Seq(Nodes) /\ Len(short) = Len(items) - 1 /\ last \in Range(items)
          /\ Len(items) > 1 => short[1] = items[1]
          /\ Range(short) = Range(items) \ {last} /\ IsInjective(short)
      <4>1. Len(items) > 0
        BY <1>2, <1>4
      <4>2. QED
        BY <1>4, <4>1, DropLast
    <3>2. /\ cacheItems' = short /\ cacheMap' = Unmap(map, j) /\ res.dead = old \cup {last}
      BY <1>8, <1>9, <2>2 DEF Evicted
    <3> HIDE DEF short, last
    <3>3. /\ DOMAIN cacheMap' = DOMAIN map \ {j}
          /\ \A i \in DOMAIN cacheMap' : cacheMap'[i] = map[i]
      BY <3>2 DEF Unmap
    <3>4. j \in DOMAIN map /\ map[j] = last
      BY <1>7, <3>1 DEF Agree
    <3>5. Agree(short, cacheMap', heap)
      <4>1. ASSUME NEW i \in DOMAIN cacheMap'
            PROVE  cacheMap'[i] \in Range(short) /\ heap[cacheMap'[i]].key = i
        <5>1. map[i] \in Range(items) /\ heap[map[i]].key = i /\ i # j
          BY <1>7, <3>3 DEF Agree
        <5>2. map[i] # last
          BY <5>1
        <5>3. QED
          BY <3>1, <3>3, <5>1, <5>2
      <4>2. ASSUME NEW m \in Range(short)
            PROVE  /\ heap[m].key \in DOMAIN cacheMap'
                   /\ cacheMap'[heap[m].key] = m
                   /\ heap[m].value \in LoaderResults[heap[m].key]
        <5>1. /\ heap[m].key \in DOMAIN map /\ map[heap[m].key] = m /\ m # last
              /\ heap[m].value \in LoaderResults[heap[m].key]
          BY <1>7, <3>1 DEF Agree
        <5>2. heap[m].key # j
          BY <3>4, <5>1
        <5>3. QED
          BY <3>3, <5>1, <5>2
      <4>3. QED
        BY <3>1, <4>1, <4>2 DEF Agree
    <3>6. (old \cup {last}) \cap Range(short) = {}
      <4>1. n \notin old
        BY <1>1 DEF old, Allocated
      <4>2. QED
        BY <1>4, <3>1, <4>1
    <3>7. Len(short) <= MaxSize
      BY <1>1, <1>2, <1>4, <3>1
    <3>8. ASSUME MaxSize > 0
          PROVE  k \in DOMAIN cacheMap' /\ short # <<>> /\ short[1] = n
      <4>1. Len(items) > 1 /\ Len(short) > 0
        BY <1>1, <1>2, <1>4, <2>2, <3>1, <3>8
      <4>2. short[1] = n /\ short # <<>>
        BY <1>4, <3>1, <4>1, EmptySeq
      <4>3. 1 \in DOMAIN short
        BY <3>1, <4>1, LenProperties
      <4>4. n \in Range(short)
        BY <4>2, <4>3 DEF Range
      <4>5. QED
        BY <1>6, <3>5, <4>2, <4>4 DEF Agree
    <3>9. QED
      BY <1>5, <3>1, <3>2, <3>3, <3>5, <3>6, <3>7, <3>8
  <2>3. QED
    BY <2>1, <2>2
<1>11. /\ node' \in [Nodes -> [key : Keys \cup {NoKey}, value : Values \cup {NoValue}]]
       /\ \A m \in Range(cacheItems') : node'[m] = heap[m]
  <2>1. Range(cacheItems') \subseteq Nodes
    BY <1>10, RangeOfSeq
  <2>2. QED
    BY <1>6, <1>8, <1>10, <2>1 DEF Freed
<1>12. Agree(cacheItems', cacheMap', node')
  BY <1>10, <1>11, ZenonT(30) DEF Agree
<1>13. CacheInv'
  <2>1. DOMAIN cacheMap' \subseteq Keys /\ \A j \in DOMAIN cacheMap' : cacheMap'[j] \in Nodes
    BY <1>1, <1>3, <1>5, <1>10
  <2>2. QED
    BY <1>10, <1>11, <1>12, <2>1 DEF CacheInv, CacheType, ListMapAgree, size
<1>14. ASSUME MaxSize > 0 PROVE node'[n] = [key |-> k, value |-> v]
  <2>1. 1 \in DOMAIN cacheItems'
    <3>1. Len(cacheItems') \in Nat \ {0}
      BY <1>10, <1>14, EmptySeq
    <3>2. QED
      BY <1>10, <3>1, LenProperties
  <2>2. n \in Range(cacheItems')
    BY <1>10, <1>14, <2>1 DEF Range
  <2>3. QED
    BY <1>6, <1>11, <2>2
<1>15. items = <<n>> \o Kept(k)
  BY DEF items, kept, Kept
<1>16. cacheItems' = PutInFront(k, n)
  <2>1. cacheItems' = IF Len(items) > MaxSize THEN SubSeq(items, 1, Len(items) - 1) ELSE items
    BY <1>8, <1>9 DEF Evicted
  <2>2. QED
    BY <1>15, <2>1 DEF PutInFront
<1>17. ASSUME NEW m \in Range(cacheItems')
       PROVE  node'[m] = IF m = n THEN [key |-> k, value |-> v] ELSE node[m]
  <2>1. m \in Nodes
    BY <1>10, RangeOfSeq
  <2>2. QED
    BY <1>6, <1>11, <2>1
<1>18. QED
  BY <1>10, <1>13, <1>14, <1>16, <1>17

-----------------------------------------------------------------------------
(* The inductive invariant: the structures agree, and cacheLock belongs to *)
(* the one thread that is running loaders, the outermost for its own key.  *)

ThreadInv ==
    \A t \in Threads :
        /\ lock = t <=> pc[t] = "loading"
        /\ loading[t] # <<>> <=> lock = t
        /\ pc[t] \in {"waiting", "loading"} => arg[t] \in Keys
        /\ pc[t] = "loading" => loading[t][1] = arg[t]
        /\ MaxDepth = 1 => Len(loading[t]) <= 1
        /\ MaxDepth = 1 /\ pc[t] = "loading" => arg[t] \notin Held

IInv == TypeOK /\ CacheInv /\ ThreadInv

(* TypeOK includes the types of the three structures.                      *)
LEMMA TypeGivesCacheType == TypeOK => CacheType
BY DEF TypeOK, CacheType

(* The constructed cache: the invariant holds of the empty cache.          *)
LEMMA InitIInv == Init => IInv
<1> SUFFICES ASSUME Init PROVE IInv
  OBVIOUS
<1>1. <<>> \in Seq(Nodes) /\ <<>> \in Seq(Keys) /\ Len(<<>>) = 0 /\ DOMAIN <<>> = {}
  OBVIOUS
<1>2. TypeOK
  BY <1>1 DEF Init, TypeOK, NoEntries, Freed
<1>3. CacheInv
  BY <1>1, <1>2, SizeAssumption, TypeGivesCacheType
  DEF CacheInv, ListMapAgree, Agree, Init, NoEntries, size, Range, IsInjective
<1>4. ThreadInv
  BY ThreadsAssumption DEF ThreadInv, Init
<1>5. QED
  BY <1>2, <1>3, <1>4 DEF IInv

(* The actions that leave the cache's structures alone.                    *)
LEMMA KeepCache ==
    ASSUME CacheInv, UNCHANGED <<cacheItems, cacheMap, node>>
    PROVE  CacheInv' /\ Held' = Held
BY DEF CacheInv, CacheType, ListMapAgree, Agree, size, Held

(* Calling get() only moves the caller to the mutex.                       *)
LEMMA RequestIInv == ASSUME IInv, NEW t \in Threads, NEW k \in Keys, Request(t, k) PROVE IInv'
<1>1. CacheInv' /\ Held' = Held
  BY KeepCache DEF IInv, Request
<1>2. TypeOK'
  BY DEF IInv, TypeOK, Request
<1>3. ThreadInv'
  BY <1>1 DEF IInv, TypeOK, ThreadInv, Request
<1>4. QED
  BY <1>1, <1>2, <1>3 DEF IInv

(* A hit refreshes the entry of the key and returns a reference to it.     *)
LEMMA HitIInv == ASSUME IInv, NEW t \in Threads, Hit(t) PROVE IInv' /\ ReturnsEntry(t)
<1> DEFINE n == cacheMap[arg[t]]
<1>1. /\ cacheItems' \in Seq(Nodes) /\ cacheItems'[1] = n /\ Len(cacheItems') = Len(cacheItems)
      /\ Range(cacheItems') = Range(cacheItems) /\ IsInjective(cacheItems') /\ cacheItems' # <<>>
  BY SpliceAgrees DEF IInv, Hit
<1>2. n \in Nodes /\ node[n].key = arg[t] /\ node[n].value \in Values
  <2>1. /\ arg[t] \in Keys /\ n \in Nodes /\ node[n].key = arg[t]
        /\ node[n].value \in LoaderResults[arg[t]]
    BY DEF IInv, TypeOK, CacheInv, ListMapAgree, Agree, Hit, Held
  <2>2. QED
    BY <2>1 DEF Values
<1>3. TypeOK'
  BY <1>1, <1>2 DEF IInv, TypeOK, Hit
<1>4. CacheInv'
  BY <1>1, <1>3 DEF IInv, CacheInv, CacheType, TypeOK, ListMapAgree, Agree, size, Hit
<1>5. ThreadInv'
  BY DEF IInv, TypeOK, ThreadInv, Hit, Held
<1>6. ReturnsEntry(t)
  <2>1. /\ ref'[t] = n /\ handed'[t] = node[n].value /\ node' = node
    BY DEF IInv, TypeOK, Hit
  <2>2. node[n] = [key |-> arg[t], value |-> node[n].value]
    BY <1>2 DEF IInv, TypeOK
  <2>3. QED
    BY <1>1, <2>1, <2>2 DEF ReturnsEntry
<1>7. QED
  BY <1>3, <1>4, <1>5, <1>6 DEF IInv

(* A miss takes the mutex before its loader runs.                          *)
LEMMA MissIInv == ASSUME IInv, NEW t \in Threads, Miss(t) PROVE IInv'
<1>1. CacheInv' /\ Held' = Held
  BY KeepCache DEF IInv, Miss
<1>2. arg[t] \in Keys /\ <<arg[t]>> \in Seq(Keys) /\ Len(<<arg[t]>>) = 1 /\ <<arg[t]>>[1] = arg[t]
  BY DEF IInv, ThreadInv, Miss
<1>3. TypeOK'
  BY <1>2 DEF IInv, TypeOK, Miss
<1>4. ThreadInv'
  BY <1>1, <1>2, ThreadsAssumption DEF IInv, TypeOK, ThreadInv, Miss
<1>5. QED
  BY <1>1, <1>3, <1>4 DEF IInv

(* A hit of a loader that re-enters the cache refreshes an entry.          *)
LEMMA NestedHitIInv == ASSUME IInv, NEW t \in Threads, NEW k \in Keys, NestedHit(t, k) PROVE IInv'
<1>1. /\ cacheItems' \in Seq(Nodes) /\ Len(cacheItems') = Len(cacheItems)
      /\ Range(cacheItems') = Range(cacheItems) /\ IsInjective(cacheItems')
  BY SpliceAgrees DEF IInv, NestedHit
<1>2. TypeOK'
  BY <1>1 DEF IInv, TypeOK, NestedHit
<1>3. CacheInv'
  BY <1>1, <1>2 DEF IInv, CacheInv, CacheType, TypeOK, ListMapAgree, Agree, size, NestedHit
<1>4. ThreadInv'
  BY DEF IInv, ThreadInv, NestedHit, Held
<1>5. QED
  BY <1>2, <1>3, <1>4 DEF IInv

(* A miss of a loader that re-enters the cache runs one more loader.       *)
LEMMA NestedMissIInv == ASSUME IInv, NEW t \in Threads, NEW k \in Keys, NestedMiss(t, k) PROVE IInv'
<1>1. CacheInv' /\ Held' = Held
  BY KeepCache DEF IInv, NestedMiss
<1> DEFINE stack == Append(loading[t], k)
<1>2. /\ loading[t] \in Seq(Keys) /\ loading[t] # <<>> /\ Len(loading[t]) \in Nat \ {0}
      /\ Len(loading[t]) < MaxDepth
  BY EmptySeq DEF IInv, TypeOK, ThreadInv, NestedMiss
<1>3. stack \in Seq(Keys) /\ stack # <<>> /\ stack[1] = loading[t][1] /\ MaxDepth # 1
  BY <1>2, AppendProperties
<1>4. loading' = [loading EXCEPT ![t] = stack]
  BY DEF NestedMiss
<1> HIDE DEF stack
<1>5. TypeOK'
  BY <1>3, <1>4 DEF IInv, TypeOK, NestedMiss
<1>6. ThreadInv'
  BY <1>1, <1>3, <1>4 DEF IInv, TypeOK, ThreadInv, NestedMiss
<1>7. QED
  BY <1>1, <1>5, <1>6 DEF IInv

(* When a loader returns, its value is put and, if it was the outermost    *)
(* one, the mutex given back and a reference returned.                     *)
LEMMA LoaderReturnsIInv ==
    ASSUME IInv, NEW t \in Threads, LoaderReturns(t)
    PROVE  IInv' /\ (MaxSize > 0 => ReturnsEntry(t))
<1> DEFINE depth == Len(loading[t])
           k == loading[t][depth]
           stack == SubSeq(loading[t], 1, depth - 1)
<1>1. /\ loading[t] \in Seq(Keys) /\ loading[t] # <<>> /\ depth \in Nat \ {0} /\ k \in Keys
      /\ lock = t /\ t # NoThread /\ arg[t] \in Keys /\ loading[t][1] = arg[t]
  <2>1. /\ loading[t] \in Seq(Keys) /\ loading[t] # <<>> /\ lock = t /\ arg[t] \in Keys
        /\ loading[t][1] = arg[t]
    BY DEF IInv, TypeOK, ThreadInv, LoaderReturns
  <2>2. depth \in Nat \ {0}
    BY <2>1, EmptySeq, LenProperties
  <2>3. k \in Keys
    BY <2>1, <2>2, ElementOfSeq
  <2>4. QED
    BY <2>1, <2>2, <2>3, ThreadsAssumption
<1>2. PICK v \in LoaderResults[k], n \in Nodes \ Allocated :
        /\ Put(k, v, n)
        /\ IF depth = 1
           THEN /\ lock' = NoThread
                /\ pc' = [pc EXCEPT ![t] = "returned"]
                /\ ref' = [ref EXCEPT ![t] = IF k \in DOMAIN cacheMap' THEN n ELSE EndNode]
                /\ handed' = [handed EXCEPT ![t] = v]
           ELSE UNCHANGED <<lock, pc, ref, handed>>
  BY DEF LoaderReturns, Unlocked
<1>3. loading' = [loading EXCEPT ![t] = stack] /\ UNCHANGED <<arg, got>> /\ pc[t] = "loading"
  BY DEF LoaderReturns
<1>4. stack \in Seq(Keys) /\ Len(stack) = depth - 1 /\ (depth > 1 => stack[1] = loading[t][1])
  <2>1. \A i \in 1 .. depth - 1 : loading[t][i] \in Keys
    BY <1>1, ElementOfSeq
  <2>2. QED
    BY <1>1, <2>1, SubSeqProperties
<1>5. stack = <<>> <=> depth = 1
  <2> HIDE DEF depth, stack
  <2>1. Len(stack) = 0 <=> depth = 1
    BY <1>1, <1>4
  <2>2. Len(stack) = 0 <=> stack = <<>>
    BY <1>4, EmptySeq
  <2>3. QED
    BY <2>1, <2>2
<1>6. v \in Values
  BY <1>1 DEF Values
<1>7. /\ CacheInv'
      /\ MaxSize > 0 => /\ k \in DOMAIN cacheMap'
                        /\ cacheItems' # <<>> /\ cacheItems'[1] = n
                        /\ node'[n] = [key |-> k, value |-> v]
  BY <1>1, <1>2, PutAgrees DEF IInv
<1> HIDE DEF depth, k, stack
<1>8. TypeOK'
  <2>1. CacheType'
    BY <1>7 DEF CacheInv
  <2>2. CASE depth = 1
    <3>1. /\ lock' = NoThread /\ pc' = [pc EXCEPT ![t] = "returned"]
          /\ handed' = [handed EXCEPT ![t] = v]
      BY <1>2, <2>2
    <3>2. ref' \in [Threads -> Nodes \cup {EndNode}]
      BY <1>2, <2>2 DEF IInv, TypeOK
    <3>3. QED
      BY <1>3, <1>4, <1>6, <2>1, <3>1, <3>2 DEF IInv, TypeOK, CacheType
  <2>3. CASE depth # 1
    BY <1>2, <1>3, <1>4, <1>6, <2>1, <2>3 DEF IInv, TypeOK, CacheType
  <2>4. QED
    BY <2>2, <2>3
<1>9. ThreadInv'
  <2>1. CASE depth = 1
    BY <1>1, <1>2, <1>3, <1>4, <1>5, <2>1, ThreadsAssumption DEF IInv, TypeOK, ThreadInv
  <2>2. CASE depth # 1
    <3>1. MaxDepth # 1
      <4>1. MaxDepth = 1 => Len(loading[t]) <= 1
        BY DEF IInv, ThreadInv
      <4>2. MaxDepth = 1 => depth <= 1
        BY <4>1 DEF depth
      <4>3. QED
        BY <1>1, <2>2, <4>2
    <3>2. depth > 1
      BY <1>1, <2>2
    <3>3. QED
      BY <1>1, <1>2, <1>3, <1>4, <1>5, <2>2, <3>1, <3>2 DEF IInv, TypeOK, ThreadInv
  <2>3. QED
    BY <2>1, <2>2
<1>10. ASSUME MaxSize > 0 PROVE ReturnsEntry(t)
  <2>1. CASE depth = 1
    <3>1. k = arg[t]
      BY <1>1, <2>1 DEF k
    <3>2. ref'[t] = n /\ handed'[t] = v
      BY <1>2, <1>7, <1>10, <2>1 DEF IInv, TypeOK
    <3>3. QED
      BY <1>7, <1>10, <3>1, <3>2 DEF ReturnsEntry
  <2>2. CASE depth # 1
    BY <1>2, <1>3, <2>2 DEF ReturnsEntry
  <2>3. QED
    BY <2>1, <2>2
<1>11. QED
  BY <1>7, <1>8, <1>9, <1>10 DEF IInv

(* The copy of the caller changes nothing in the cache.                    *)
LEMMA CopyOutIInv == ASSUME IInv, NEW t \in Threads, CopyOut(t) PROVE IInv'
<1>1. CacheInv' /\ Held' = Held
  BY KeepCache DEF IInv, CopyOut
<1>2. TypeOK'
  BY DEF IInv, TypeOK, CopyOut
<1>3. ThreadInv'
  BY <1>1 DEF IInv, TypeOK, ThreadInv, CopyOut
<1>4. QED
  BY <1>1, <1>2, <1>3 DEF IInv

(* invalidate() leaves an empty cache.                                     *)
LEMMA InvalidateIInv == ASSUME IInv, NEW t \in Threads, Invalidate(t) PROVE IInv'
<1>1. <<>> \in Seq(Nodes) /\ Len(<<>>) = 0 /\ DOMAIN <<>> = {}
  OBVIOUS
<1>2. TypeOK'
  BY <1>1 DEF IInv, TypeOK, Invalidate, NoEntries, Freed
<1>3. CacheInv'
  BY <1>1, <1>2, SizeAssumption
  DEF CacheInv, CacheType, TypeOK, ListMapAgree, Agree, Invalidate, NoEntries, size, Range, IsInjective
<1>4. ThreadInv'
  BY DEF IInv, ThreadInv, Invalidate, NoEntries, Held
<1>5. QED
  BY <1>2, <1>3, <1>4 DEF IInv

(* Every step keeps the invariant.                                         *)
LEMMA NextIInv == IInv /\ [Next]_vars => IInv'
<1> SUFFICES ASSUME IInv, [Next]_vars PROVE IInv'
  OBVIOUS
<1>1. ASSUME NEW t \in Threads, NEW k \in Keys, Request(t, k) PROVE IInv'
  BY <1>1, RequestIInv
<1>2. ASSUME NEW t \in Threads, NEW k \in Keys, NestedHit(t, k) PROVE IInv'
  BY <1>2, NestedHitIInv
<1>3. ASSUME NEW t \in Threads, NEW k \in Keys, NestedMiss(t, k) PROVE IInv'
  BY <1>3, NestedMissIInv
<1>4. ASSUME NEW t \in Threads, Hit(t) PROVE IInv'
  BY <1>4, HitIInv
<1>5. ASSUME NEW t \in Threads, Miss(t) PROVE IInv'
  BY <1>5, MissIInv
<1>6. ASSUME NEW t \in Threads, LoaderReturns(t) PROVE IInv'
  BY <1>6, LoaderReturnsIInv
<1>7. ASSUME NEW t \in Threads, CopyOut(t) PROVE IInv'
  BY <1>7, CopyOutIInv
<1>8. ASSUME NEW t \in Invalidators, Invalidate(t) PROVE IInv'
  BY <1>8, InvalidateIInv, ThreadsAssumption
<1>9. CASE UNCHANGED vars
  <2>1. CacheInv'
    BY <1>9, KeepCache DEF IInv, vars
  <2>2. TypeOK' /\ ThreadInv'
    BY <1>9 DEF IInv, TypeOK, ThreadInv, Held, vars
  <2>3. QED
    BY <2>1, <2>2 DEF IInv
<1>10. QED
  BY <1>1, <1>2, <1>3, <1>4, <1>5, <1>6, <1>7, <1>8, <1>9 DEF Next

(* The map holds as many keys as the list has nodes.                       *)
LEMMA SizeFact == ASSUME IInv PROVE SizeBounded
<1> DEFINE f == [i \in 1 .. Len(cacheItems) |-> node[cacheItems[i]].key]
<1>1. cacheItems \in Seq(Nodes) /\ Len(cacheItems) \in Nat /\ DOMAIN cacheItems = 1 .. Len(cacheItems)
  BY LenProperties DEF IInv, TypeOK
<1>2. ListMapAgree
  BY DEF IInv, CacheInv
<1>3. \A i \in 1 .. Len(cacheItems) : f[i] \in Held /\ cacheMap[f[i]] = cacheItems[i]
  BY <1>1, <1>2 DEF ListMapAgree, Agree, Range, Held
<1>4. \A k \in Held : \E i \in 1 .. Len(cacheItems) : f[i] = k
  BY <1>1, <1>2 DEF ListMapAgree, Agree, Range, Held
<1>5. \A i, j \in 1 .. Len(cacheItems) : f[i] = f[j] => i = j
  <2> HIDE DEF f
  <2>1. QED
    BY <1>1, <1>2, <1>3 DEF ListMapAgree, Agree, IsInjective
<1>6. f \in [1 .. Len(cacheItems) -> Held]
  BY <1>3
<1> HIDE DEF f
<1>7. f \in Bijection(1 .. Len(cacheItems), Held)
  BY <1>4, <1>5, <1>6 DEF Bijection, Injection, Surjection, IsInjective
<1>8. Cardinality(Held) = Len(cacheItems)
  BY <1>1, <1>7, FS_CountingElements DEF ExistsBijection
<1>9. QED
  BY <1>8 DEF SizeBounded, IInv, CacheInv, size

-----------------------------------------------------------------------------
(* Theorems.                                                               *)

(* Every variable keeps its type.                                          *)
THEOREM TypeCorrect == Spec => []TypeOK
<1>1. IInv => TypeOK
  BY DEF IInv
<1>2. QED
  BY <1>1, InitIInv, NextIInv, PTL DEF Spec

(* The list, the map and the heap agree, whatever the threads and loaders. *)
THEOREM StructuresAgree == Spec => []ListMapAgree
<1>1. IInv => ListMapAgree
  BY DEF IInv, CacheInv
<1>2. QED
  BY <1>1, InitIInv, NextIInv, PTL DEF Spec

(* The cache never holds more than maxSize entries.                        *)
THEOREM SizeIsBounded == Spec => []SizeBounded
BY SizeFact, InitIInv, NextIInv, PTL DEF Spec

(* A loader runs only while its thread owns the mutex: one at a time.      *)
THEOREM LoadersExclude == Spec => []LoaderUnderLock
<1>1. IInv => LoaderUnderLock
  BY DEF IInv, ThreadInv, LoaderUnderLock
<1>2. QED
  BY <1>1, InitIInv, NextIInv, PTL DEF Spec

(* A key that is held is never loaded again.                               *)
THEOREM LoadedOnce == Spec => []NoDoubleLoad
<1>1. IInv => NoDoubleLoad
  BY DEF IInv, ThreadInv, NoDoubleLoad
<1>2. QED
  BY <1>1, InitIInv, NextIInv, PTL DEF Spec

(* Unless the cache may hold nothing at all, every get() returns a         *)
(* reference to its key's entry, then the most recently used one.          *)
THEOREM ReturnsItsEntry == MaxSize > 0 => (Spec => GetReturnsEntry)
<1> SUFFICES ASSUME MaxSize > 0 PROVE Spec => GetReturnsEntry
  OBVIOUS
<1>1. ASSUME IInv, [Next]_vars PROVE [\A t \in Threads : ReturnsEntry(t)]_vars
  <2> SUFFICES ASSUME NEW u \in Threads, Next PROVE ReturnsEntry(u)
    BY <1>1
  <2> SUFFICES ASSUME pc[u] # "returned", pc'[u] = "returned" PROVE Hit(u) \/ LoaderReturns(u)
    BY <1>1, HitIInv, LoaderReturnsIInv DEF ReturnsEntry
  <2>1. pc \in [Threads -> {"idle", "waiting", "loading", "returned"}]
    BY <1>1 DEF IInv, TypeOK
  <2>2. ASSUME NEW t \in Threads, NEW k \in Keys, Request(t, k) PROVE FALSE
    BY <2>1, <2>2 DEF Request
  <2>3. ASSUME NEW t \in Threads, NEW k \in Keys, NestedHit(t, k) \/ NestedMiss(t, k) PROVE FALSE
    BY <2>1, <2>3 DEF NestedHit, NestedMiss
  <2>4. ASSUME NEW t \in Threads, Miss(t) \/ CopyOut(t) \/ Invalidate(t) PROVE FALSE
    BY <2>1, <2>4 DEF Miss, CopyOut, Invalidate
  <2>5. ASSUME NEW t \in Threads, Hit(t) PROVE t = u
    BY <2>1, <2>5 DEF Hit
  <2>6. ASSUME NEW t \in Threads, LoaderReturns(t) PROVE t = u
    <3>1. pc' = pc \/ pc' = [pc EXCEPT ![t] = "returned"]
      BY <2>6 DEF LoaderReturns
    <3>2. QED
      BY <2>1, <3>1
  <2>7. QED
    BY <2>2, <2>3, <2>4, <2>5, <2>6, ThreadsAssumption DEF Next
<1>2. QED
  BY <1>1, InitIInv, NextIInv, PTL DEF Spec, GetReturnsEntry

-----------------------------------------------------------------------------
(* The cache as an LRU order: the entries of the listed nodes.             *)

EntriesOf(items, heap) == [i \in DOMAIN items |-> heap[items[i]]]

Entry == [key : Keys \cup {NoKey}, value : Values \cup {NoValue}]

(* A list of nodes gives a sequence of entries, one per node.              *)
LEMMA EntriesSeq ==
    ASSUME NEW s \in Seq(Nodes), NEW h \in [Nodes -> Entry]
    PROVE  /\ EntriesOf(s, h) \in Seq(Entry)
           /\ Len(EntriesOf(s, h)) = Len(s)
           /\ \A i \in 1 .. Len(s) : EntriesOf(s, h)[i] = h[s[i]]
<1>1. Len(s) \in Nat /\ DOMAIN s = 1 .. Len(s) /\ \A i \in 1 .. Len(s) : s[i] \in Nodes
  BY LenProperties, ElementOfSeq
<1>2. EntriesOf(s, h) = [i \in 1 .. Len(s) |-> h[s[i]]]
  BY <1>1 DEF EntriesOf
<1>3. \A i \in 1 .. Len(s) : h[s[i]] \in Entry
  BY <1>1
<1>4. QED
  BY <1>1, <1>2, <1>3, SeqDef

(* A fresh node put in front of a list puts its entry in front.            *)
LEMMA EntriesPrepend ==
    ASSUME NEW s \in Seq(Nodes), NEW n \in Nodes, NEW h \in [Nodes -> Entry]
    PROVE  EntriesOf(<<n>> \o s, h) = <<h[n]>> \o EntriesOf(s, h)
<1> DEFINE e == EntriesOf(s, h)
<1>1. e \in Seq(Entry) /\ Len(e) = Len(s) /\ \A i \in 1 .. Len(s) : e[i] = h[s[i]]
  BY EntriesSeq
<1>2. <<n>> \in Seq(Nodes) /\ Len(<<n>>) = 1 /\ <<n>>[1] = n
  OBVIOUS
<1>3. <<h[n]>> \in Seq(Entry) /\ Len(<<h[n]>>) = 1 /\ <<h[n]>>[1] = h[n]
  OBVIOUS
<1> DEFINE a == <<n>> \o s
           b == <<h[n]>> \o e
<1>4. /\ a \in Seq(Nodes) /\ Len(a) = 1 + Len(s)
      /\ \A i \in 1 .. 1 + Len(s) : a[i] = IF i <= 1 THEN n ELSE s[i - 1]
  <2>1. /\ a \in Seq(Nodes) /\ Len(a) = Len(<<n>>) + Len(s)
        /\ \A i \in 1 .. Len(<<n>>) + Len(s) :
              a[i] = IF i <= Len(<<n>>) THEN <<n>>[i] ELSE s[i - Len(<<n>>)]
    BY <1>2, ConcatProperties
  <2> HIDE DEF a
  <2>2. QED
    BY <1>2, <2>1
<1> HIDE DEF e
<1>5. /\ b \in Seq(Entry) /\ Len(b) = 1 + Len(s)
      /\ \A i \in 1 .. 1 + Len(s) : b[i] = IF i <= 1 THEN h[n] ELSE e[i - 1]
  <2>1. /\ b \in Seq(Entry) /\ Len(b) = Len(<<h[n]>>) + Len(e)
        /\ \A i \in 1 .. Len(<<h[n]>>) + Len(e) :
              b[i] = IF i <= Len(<<h[n]>>) THEN <<h[n]>>[i] ELSE e[i - Len(<<h[n]>>)]
    BY <1>1, <1>3, ConcatProperties
  <2> HIDE DEF b
  <2>2. QED
    BY <1>1, <1>3, <2>1
<1> HIDE DEF a, b
<1>6. /\ EntriesOf(a, h) \in Seq(Entry) /\ Len(EntriesOf(a, h)) = 1 + Len(s)
      /\ \A i \in 1 .. 1 + Len(s) : EntriesOf(a, h)[i] = h[a[i]]
  BY <1>4, EntriesSeq
<1>7. ASSUME NEW i \in 1 .. 1 + Len(s) PROVE EntriesOf(a, h)[i] = b[i]
  <2>1. CASE i = 1
    BY <1>4, <1>5, <1>6, <2>1
  <2>2. CASE i # 1
    <3>1. i - 1 \in 1 .. Len(s) /\ ~(i <= 1)
      BY <2>2, LenProperties
    <3>2. e[i - 1] = h[s[i - 1]]
      BY <1>1, <3>1
    <3>3. QED
      BY <1>4, <1>5, <1>6, <3>1, <3>2
  <2>3. QED
    BY <2>1, <2>2
<1>8. EntriesOf(a, h) = b
  BY <1>5, <1>6, <1>7, SeqEqual
<1>9. QED
  BY <1>8 DEF a, b, e

(* Erasing node n takes out the entry of its key, the only one.            *)
LEMMA EntriesErase ==
    ASSUME NEW s \in Seq(Nodes), IsInjective(s), NEW n \in Range(s), NEW h \in [Nodes -> Entry],
           \A i, j \in 1 .. Len(s) : h[s[i]].key = h[s[j]].key => i = j
    PROVE  LET e == EntriesOf(s, h)
               k == h[n].key
           IN  /\ k \in LRU!KeysOf(e)
               /\ e[LRU!Place(e, k)] = h[n]
               /\ LRU!Without(e, k) = EntriesOf(Erase(s, n), h)
<1> DEFINE e == EntriesOf(s, h)
           k == h[n].key
           p == CHOOSE i \in DOMAIN s : s[i] = n
           q == LRU!Place(e, k)
<1>1. /\ e \in Seq(Entry) /\ Len(e) = Len(s) /\ Len(s) \in Nat
      /\ \A i \in 1 .. Len(s) : e[i] = h[s[i]]
      /\ DOMAIN s = 1 .. Len(s) /\ DOMAIN e = 1 .. Len(s)
  <2>1. /\ e \in Seq(Entry) /\ Len(e) = Len(s)
        /\ \A i \in 1 .. Len(s) : e[i] = h[s[i]]
    BY EntriesSeq
  <2> HIDE DEF e
  <2>2. QED
    BY <2>1, LenProperties
<1> HIDE DEF e
<1>2. p \in DOMAIN s /\ s[p] = n
  BY DEF Range
<1>3. Erase(s, n) = RemoveAt(s, p)
  BY <1>2 DEF Erase
<1> HIDE DEF p
<1>4. q \in DOMAIN e /\ e[q].key = k
  <2>1. \E i \in DOMAIN e : e[i].key = k
    BY <1>1, <1>2
  <2>2. QED
    BY <2>1 DEF LRU!Place
<1> HIDE DEF q
<1>5. q = p
  BY <1>1, <1>2, <1>4
<1>6. k \in LRU!KeysOf(e)
  BY <1>4 DEF LRU!KeysOf
<1>7. LRU!Without(e, k) = RemoveAt(e, p)
  <2>1. LRU!Without(e, k) = LRU!RemoveAt(e, q)
    BY <1>6 DEF LRU!Without, q
  <2>2. QED
    BY <1>5, <2>1 DEF LRU!RemoveAt, RemoveAt
<1> DEFINE r == RemoveAt(s, p)
           x == RemoveAt(e, p)
<1>8. /\ r \in Seq(Nodes) /\ Len(r) = Len(s) - 1
      /\ \A i \in 1 .. Len(s) - 1 : r[i] = IF i < p THEN s[i] ELSE s[i + 1]
  <2>1. p \in 1 .. Len(s)
    BY <1>1, <1>2
  <2>2. QED
    BY <2>1, RemoveAtElements
<1>9. /\ x \in Seq(Entry) /\ Len(x) = Len(e) - 1
      /\ \A i \in 1 .. Len(e) - 1 : x[i] = IF i < p THEN e[i] ELSE e[i + 1]
  <2>1. e \in Seq(Entry) /\ p \in 1 .. Len(e)
    BY <1>1, <1>2
  <2>2. QED
    BY <2>1, RemoveAtElements
<1> HIDE DEF r, x
<1>10. /\ EntriesOf(r, h) \in Seq(Entry) /\ Len(EntriesOf(r, h)) = Len(r)
       /\ \A i \in 1 .. Len(r) : EntriesOf(r, h)[i] = h[r[i]]
  BY <1>8, EntriesSeq
<1>11. ASSUME NEW i \in 1 .. Len(x) PROVE x[i] = EntriesOf(r, h)[i]
  <2>1. i \in 1 .. Len(s) - 1 /\ i \in 1 .. Len(s) /\ i + 1 \in 1 .. Len(s)
    BY <1>1, <1>9
  <2>2. e[i] = h[s[i]] /\ e[i + 1] = h[s[i + 1]]
    BY <1>1, <2>1
  <2>3. QED
    BY <1>1, <1>8, <1>9, <1>10, <2>1, <2>2, SMTT(30)
<1>12. x = EntriesOf(r, h)
  <2>1. Len(x) = Len(EntriesOf(r, h))
    BY <1>1, <1>8, <1>9, <1>10
  <2>2. QED
    BY <1>9, <1>10, <1>11, <2>1, SeqEqual
<1>13. e[q] = h[n]
  BY <1>1, <1>2, <1>5
<1>14. LRU!Without(e, k) = EntriesOf(Erase(s, n), h)
  BY <1>3, <1>7, <1>12 DEF r, x
<1> HIDE DEF k
<1>15. QED
  BY <1>6, <1>13, <1>14 DEF e, q, k

(* The list's entries have one key each, the keys held.                    *)
LEMMA EntriesAreHeld ==
    ASSUME CacheInv
    PROVE  /\ node \in [Nodes -> Entry]
           /\ \A i, j \in 1 .. Len(cacheItems) :
                  node[cacheItems[i]].key = node[cacheItems[j]].key => i = j
           /\ LRU!KeysOf(EntriesOf(cacheItems, node)) = Held
<1>1. cacheItems \in Seq(Nodes) /\ DOMAIN cacheItems = 1 .. Len(cacheItems) /\ ListMapAgree
  BY LenProperties DEF CacheInv, CacheType
<1>2. node \in [Nodes -> Entry]
  BY DEF CacheInv, CacheType, Entry
<1>3. \A i \in 1 .. Len(cacheItems) : 
          node[cacheItems[i]].key \in Held /\ cacheMap[node[cacheItems[i]].key] = cacheItems[i]
  BY <1>1 DEF ListMapAgree, Agree, Range, Held
<1>4. \A k \in Held : \E i \in 1 .. Len(cacheItems) : node[cacheItems[i]].key = k
  BY <1>1 DEF ListMapAgree, Agree, Range, Held
<1>5. ASSUME NEW i \in 1 .. Len(cacheItems), NEW j \in 1 .. Len(cacheItems),
             node[cacheItems[i]].key = node[cacheItems[j]].key
      PROVE  i = j
  <2>1. cacheItems[i] = cacheItems[j]
    BY <1>3, <1>5
  <2>2. QED
    BY <1>1, <2>1 DEF ListMapAgree, Agree, IsInjective
<1>6. LRU!KeysOf(EntriesOf(cacheItems, node)) = Held
  BY <1>1, <1>3, <1>4 DEF LRU!KeysOf, EntriesOf
<1>7. QED
  BY <1>2, <1>5, <1>6

(* Refreshing a held key is a use of it.                                   *)
LEMMA SpliceIsUse ==
    ASSUME CacheInv, NEW k \in Held,
           cacheItems' = SpliceToFront(cacheItems, cacheMap[k]), node' = node
    PROVE  LRU!Use(k)
<1> DEFINE n == cacheMap[k]
           e == EntriesOf(cacheItems, node)
<1>1. cacheItems \in Seq(Nodes) /\ IsInjective(cacheItems) /\ n \in Range(cacheItems) 
  BY DEF CacheInv, CacheType, ListMapAgree, Agree, Held
<1>2. n \in Nodes /\ node[n].key = k
  BY DEF CacheInv, CacheType, ListMapAgree, Agree, Held
<1> HIDE DEF n
<1>3. /\ k \in LRU!KeysOf(e) /\ e[LRU!Place(e, k)] = node[n]
      /\ LRU!Without(e, k) = EntriesOf(Erase(cacheItems, n), node)
  <2>1. /\ node \in [Nodes -> Entry]
        /\ \A i, j \in 1 .. Len(cacheItems) :
               node[cacheItems[i]].key = node[cacheItems[j]].key => i = j
    BY EntriesAreHeld
  <2>2. QED
    BY <1>1, <1>2, <2>1, EntriesErase
<1>4. EntriesOf(cacheItems', node') = <<node[n]>> \o EntriesOf(Erase(cacheItems, n), node)
  <2>1. Erase(cacheItems, n) \in Seq(Nodes) /\ node \in [Nodes -> Entry]
    BY <1>1, EraseListed, EntriesAreHeld
  <2>2. EntriesOf(<<n>> \o Erase(cacheItems, n), node) = <<node[n]>> \o EntriesOf(Erase(cacheItems, n), node)
    BY <1>2, <2>1, EntriesPrepend
  <2>3. QED
    BY <2>2 DEF SpliceToFront, n
<1>5. EntriesOf(cacheItems', node') = LRU!Refreshed(e, k)
  <2> HIDE DEF e
  <2>1. QED
    BY <1>3, <1>4 DEF LRU!Refreshed
<1>6. QED
  BY <1>3, <1>5 DEF LRU!Use, EntriesOf

(* Nothing changes for the order when the list and the heap stay.          *)
LEMMA SameEntries ==
    ASSUME UNCHANGED <<cacheItems, node>> PROVE UNCHANGED [i \in DOMAIN cacheItems |-> node[cacheItems[i]]]
OBVIOUS

(* Putting a loaded value, replacing what its key had and dropping what    *)
(* is over the bound, is a load of it.                                     *)
LEMMA PutIsLoad ==
    ASSUME CacheInv, NEW k \in Keys, NEW n \in Nodes \ Allocated, NEW v \in LoaderResults[k],
           Put(k, v, n)
    PROVE  LRU!Load(k)
<1> DEFINE e == EntriesOf(cacheItems, node)
           kept == Kept(k)
           items == <<n>> \o kept
           new == [key |-> k, value |-> v]
           heap == [node EXCEPT ![n] = new]
<1>1. cacheItems \in Seq(Nodes) /\ IsInjective(cacheItems) /\ Len(cacheItems) \in Nat
  BY LenProperties DEF CacheInv, CacheType, ListMapAgree, Agree
<1>2. node \in [Nodes -> Entry] /\ new \in Entry /\ n \in Nodes
  BY EntriesAreHeld DEF Entry, Values
<1>3. heap \in [Nodes -> Entry] /\ heap[n] = new /\ \A m \in Nodes \ {n} : heap[m] = node[m]
  BY <1>2
<1> HIDE DEF heap, new
<1>4. /\ kept \in Seq(Nodes) /\ Range(kept) \subseteq Allocated
      /\ LRU!Without(e, k) = EntriesOf(kept, node)
      /\ Len(kept) \in Nat /\ Len(kept) <= Len(cacheItems)
  <2>1. CASE k \in Held
    <3> DEFINE o == cacheMap[k]
    <3>1. o \in Range(cacheItems) /\ node[o].key = k
      BY <2>1 DEF CacheInv, ListMapAgree, Agree, Held
    <3> HIDE DEF o
    <3>2. /\ Erase(cacheItems, o) \in Seq(Nodes) /\ Len(Erase(cacheItems, o)) = Len(cacheItems) - 1
          /\ Range(Erase(cacheItems, o)) = Range(cacheItems) \ {o}
      BY <1>1, <3>1, EraseListed
    <3>3. \A i, j \in 1 .. Len(cacheItems) :
              node[cacheItems[i]].key = node[cacheItems[j]].key => i = j
      BY EntriesAreHeld
    <3>4. LRU!Without(e, k) = EntriesOf(Erase(cacheItems, o), node)
      BY <1>1, <1>2, <3>1, <3>3, EntriesErase
    <3>5. kept = Erase(cacheItems, o)
      BY <2>1 DEF Kept, o
    <3> HIDE DEF kept
    <3>6. QED
      BY <1>1, <3>2, <3>4, <3>5, LenProperties DEF Allocated
  <2>2. CASE k \notin Held
    <3>1. k \notin LRU!KeysOf(e)
      BY <2>2, EntriesAreHeld
    <3>2. kept = cacheItems /\ LRU!Without(e, k) = e
      BY <2>2, <3>1 DEF Kept, LRU!Without
    <3>3. QED
      BY <1>1, <3>2 DEF Allocated
  <2>3. QED
    BY <2>1, <2>2
<1> HIDE DEF kept
<1>5. EntriesOf(kept, heap) = EntriesOf(kept, node)
  <2>1. \A i \in DOMAIN kept : kept[i] \in Nodes /\ kept[i] # n
    BY <1>4, ElementOfSeq, LenProperties DEF Range
  <2>2. \A i \in DOMAIN kept : heap[kept[i]] = node[kept[i]]
    BY <1>3, <2>1
  <2>3. QED
    BY <2>2 DEF EntriesOf
<1>6. /\ items \in Seq(Nodes) /\ Len(items) = Len(kept) + 1
      /\ EntriesOf(items, heap) = <<new>> \o LRU!Without(e, k)
  <2>1. items \in Seq(Nodes) /\ Len(items) = Len(kept) + 1
    <3>1. <<n>> \in Seq(Nodes) /\ Len(<<n>>) = 1
      BY <1>2
    <3>2. items \in Seq(Nodes) /\ Len(items) = Len(<<n>>) + Len(kept)
      BY <1>4, <3>1, ConcatProperties
    <3> HIDE DEF items
    <3>3. QED
      BY <1>4, <3>1, <3>2
  <2>2. EntriesOf(items, heap) = <<heap[n]>> \o EntriesOf(kept, heap)
    BY <1>2, <1>3, <1>4, EntriesPrepend
  <2> HIDE DEF items, e
  <2>3. QED
    BY <1>3, <1>4, <1>5, <2>1, <2>2
<1>7. /\ cacheItems' \in Seq(Nodes) /\ cacheItems' = PutInFront(k, n)
      /\ \A m \in Range(cacheItems') : node'[m] = IF m = n THEN new ELSE node[m]
  BY PutAgrees DEF CacheInv, CacheType, new
<1>8. cacheItems' = IF Len(items) > MaxSize THEN SubSeq(items, 1, Len(items) - 1) ELSE items
  BY <1>7 DEF PutInFront, items, kept
<1>9. EntriesOf(cacheItems', node') = EntriesOf(cacheItems', heap)
  <2>1. \A i \in DOMAIN cacheItems' : cacheItems'[i] \in Range(cacheItems') /\ cacheItems'[i] \in Nodes
    BY <1>7, ElementOfSeq, LenProperties DEF Range
  <2>2. \A i \in DOMAIN cacheItems' : node'[cacheItems'[i]] = heap[cacheItems'[i]]
    BY <1>3, <1>7, <2>1
  <2>3. QED
    BY <2>2 DEF EntriesOf
<1> HIDE DEF items, e
<1> DEFINE f == EntriesOf(items, heap)
<1>10. /\ f \in Seq(Entry) /\ Len(f) = Len(items) /\ Len(items) \in Nat
       /\ \A i \in 1 .. Len(items) : f[i] = heap[items[i]]
  <2>1. items \in Seq(Nodes) /\ Len(items) \in Nat
    BY <1>6, LenProperties
  <2>2. QED
    BY <1>3, <2>1, EntriesSeq
<1>11. EntriesOf(cacheItems', heap) = LRU!Bounded(f)
  <2>0. MaxSize \in Nat /\ Len(items) <= MaxSize + 1
    BY <1>1, <1>4, <1>6, SizeAssumption DEF CacheInv, size
  <2>1. CASE ~(Len(items) > MaxSize)
    <3>1. cacheItems' = items
      BY <1>8, <2>1
    <3>2. LRU!Bounded(f) = SubSeq(f, 1, Len(f))
      BY <1>10, <2>1 DEF LRU!Bounded
    <3> HIDE DEF f
    <3>3. SubSeq(f, 1, Len(f)) = f
      BY <1>10
    <3>4. QED
      BY <3>1, <3>2, <3>3 DEF f
  <2>2. CASE Len(items) > MaxSize
    <3> DEFINE short == SubSeq(items, 1, MaxSize)
               g == SubSeq(f, 1, MaxSize)
    <3>1. MaxSize = Len(items) - 1 /\ MaxSize \in Nat
      BY <1>10, <2>0, <2>2
    <3>2. cacheItems' = short
      BY <1>8, <2>2, <3>1
    <3>3. LRU!Bounded(f) = g
      BY <1>10, <2>2 DEF LRU!Bounded
    <3>4. \A i \in 1 .. MaxSize : items[i] \in Nodes /\ f[i] \in Entry /\ f[i] = heap[items[i]]
      <4> HIDE DEF f
      <4>1. \A i \in 1 .. MaxSize : i \in 1 .. Len(items)
        BY <1>10, <3>1
      <4>2. QED
        BY <1>6, <1>10, <4>1, ElementOfSeq
    <3> HIDE DEF f
    <3>5. /\ short \in Seq(Nodes) /\ Len(short) = MaxSize
          /\ \A i \in 1 .. MaxSize : short[i] = items[i]
      BY <3>1, <3>4, SubSeqProperties
    <3>6. /\ g \in Seq(Entry) /\ Len(g) = MaxSize
          /\ \A i \in 1 .. MaxSize : g[i] = f[i]
      BY <3>1, <3>4, SubSeqProperties
    <3> HIDE DEF short, g
    <3>7. /\ EntriesOf(short, heap) \in Seq(Entry) /\ Len(EntriesOf(short, heap)) = MaxSize
          /\ \A i \in 1 .. MaxSize : EntriesOf(short, heap)[i] = heap[short[i]]
      BY <1>3, <3>5, EntriesSeq
    <3>8. EntriesOf(short, heap) = g
      BY <3>4, <3>5, <3>6, <3>7, SeqEqual
    <3>9. QED
      BY <3>2, <3>3, <3>8
  <2>3. QED
    BY <2>1, <2>2
<1>12. EntriesOf(cacheItems', node') = LRU!Loaded(e, k, v)
  BY <1>6, <1>9, <1>11 DEF LRU!Loaded, new
<1>13. QED
  BY <1>12 DEF LRU!Load, EntriesOf, e

(* Each step of the cache is a step of the order, or leaves it alone.      *)
LEMMA NextIsLRU ==
    ASSUME IInv, [Next]_vars
    PROVE  [LRU!Next]_[i \in DOMAIN cacheItems |-> node[cacheItems[i]]]
<1> DEFINE seen == [i \in DOMAIN cacheItems |-> node[cacheItems[i]]]
<1>0. CacheInv /\ TypeOK
  BY DEF IInv
<1>1. ASSUME UNCHANGED <<cacheItems, node>> PROVE [LRU!Next]_seen
  BY <1>1, SameEntries
<1>2. ASSUME NEW k \in Keys, LRU!Use(k) \/ LRU!Load(k) PROVE LRU!Next
  BY <1>2 DEF LRU!Next
<1> HIDE DEF seen
<1>3. ASSUME NEW t \in Threads, NEW k \in Keys, NestedHit(t, k) PROVE LRU!Next
  BY <1>0, <1>2, <1>3, SpliceIsUse DEF NestedHit
<1>4. ASSUME NEW t \in Threads, Hit(t) PROVE LRU!Next
  <2>1. arg[t] \in Keys
    BY <1>0, <1>4 DEF Hit, CacheInv, CacheType, Held
  <2>2. PICK k \in Keys : k = arg[t]
    BY <2>1
  <2>3. LRU!Use(k)
    BY <1>0, <1>4, <2>2, SpliceIsUse DEF Hit
  <2>4. QED
    BY <1>2, <2>3
<1>5. ASSUME NEW t \in Threads, LoaderReturns(t) PROVE LRU!Next
  <2>1. loading[t][Len(loading[t])] \in Keys
    <3>1. loading[t] \in Seq(Keys) /\ loading[t] # <<>>
      BY <1>5 DEF IInv, TypeOK, ThreadInv, LoaderReturns
    <3>2. Len(loading[t]) \in 1 .. Len(loading[t])
      BY <3>1, EmptySeq, LenProperties
    <3>3. QED
      BY <3>1, <3>2, ElementOfSeq
  <2>2. PICK k \in Keys : k = loading[t][Len(loading[t])]
    BY <2>1
  <2>3. PICK v \in LoaderResults[k], n \in Nodes \ Allocated : Put(k, v, n)
    BY <1>5, <2>2 DEF LoaderReturns
  <2>4. LRU!Load(k)
    BY <1>0, <2>3, PutIsLoad
  <2>5. QED
    BY <1>2, <2>4
<1>6. ASSUME NEW t \in Invalidators, Invalidate(t) PROVE LRU!Next
  <2>1. cacheItems' = <<>>
    BY <1>6 DEF Invalidate
  <2>2. DOMAIN <<>> = {} /\ \A f : [i \in {} |-> f[i]] = <<>>
    OBVIOUS
  <2>3. LRU!Clear
    BY <2>1, <2>2 DEF LRU!Clear
  <2>4. QED
    BY <2>3 DEF LRU!Next
<1>7. CASE UNCHANGED vars
  BY <1>1, <1>7 DEF vars
<1>8. ASSUME NEW t \in Threads, NEW k \in Keys, Request(t, k) \/ NestedMiss(t, k)
      PROVE  UNCHANGED <<cacheItems, node>>
  BY <1>8 DEF Request, NestedMiss
<1>9. ASSUME NEW t \in Threads, Miss(t) \/ CopyOut(t) PROVE UNCHANGED <<cacheItems, node>>
  BY <1>9 DEF Miss, CopyOut
<1>10. QED
  BY <1>1, <1>3, <1>4, <1>5, <1>6, <1>7, <1>8, <1>9 DEF Next, seen

(* The cache is an LRU cache: seen through its list and heap it starts     *)
(* empty, moves a used entry to the front, puts a loaded one there and     *)
(* drops what is over the bound, whatever threads and loaders do.          *)
THEOREM ImplementsLRU == Spec => IsLRU
<1>1. Init => LRU!Init
  <2>1. DOMAIN <<>> = {} /\ \A f : [i \in {} |-> f[i]] = <<>>
    OBVIOUS
  <2>2. QED
    BY <2>1 DEF Init, LRU!Init
<1>2. QED
  BY <1>1, InitIInv, NextIInv, NextIsLRU, PTL DEF Spec, IsLRU, LRU!Spec

-----------------------------------------------------------------------------
(* When the cache has room for every key and nobody invalidates it, the    *)
(* references it hands out stay good after the mutex is released.          *)

NeverEvicts ==
    /\ Invalidators = {} /\ MaxDepth = 1
    /\ IsFiniteSet(Keys) /\ Cardinality(Keys) <= MaxSize

RefInv ==
    \A t \in Threads :
        /\ pc[t] = "returned" => ref[t] \in Allocated /\ node[ref[t]].value = handed[t]
        /\ pc[t] # "idle" => got[t] = NoValue
        /\ got[t] # NoValue => got[t] = handed[t]

(* A put that does not evict leaves every other listed node where it is,   *)
(* with what it holds.                                                     *)
LEMMA PutKeepsNodes ==
    ASSUME NeverEvicts, IInv, NEW k \in Keys \ Held, NEW v, NEW n \in Nodes \ Allocated, Put(k, v, n)
    PROVE  /\ Range(cacheItems') = Allocated \cup {n}
           /\ node' = [node EXCEPT ![n] = [key |-> k, value |-> v]]
<1>1. /\ cacheItems \in Seq(Nodes) /\ IsInjective(cacheItems) /\ Len(cacheItems) \in Nat
      /\ node \in [Nodes -> [key : Keys \cup {NoKey}, value : Values \cup {NoValue}]]
  BY LenProperties DEF IInv, TypeOK, CacheInv, ListMapAgree, Agree
<1> DEFINE items == <<n>> \o cacheItems
<1>2. Len(items) = Len(cacheItems) + 1 /\ Range(items) = Allocated \cup {n}
  BY <1>1, Prepend DEF Allocated
<1>3. Len(cacheItems) + 1 <= MaxSize
  <2>1. Held \subseteq Keys /\ Cardinality(Held) = Len(cacheItems)
    BY SizeFact DEF IInv, TypeOK, Held, SizeBounded, size
  <2>2. IsFiniteSet(Held) /\ IsFiniteSet(Held \cup {k})
    BY <2>1, FS_Subset DEF NeverEvicts
  <2>3. Cardinality(Held \cup {k}) = Cardinality(Held) + 1
    BY <2>2, FS_AddElement
  <2>4. Cardinality(Held \cup {k}) <= Cardinality(Keys)
    BY <2>1, FS_Subset DEF NeverEvicts
  <2>5. Cardinality(Keys) \in Nat /\ MaxSize \in Nat
    BY FS_CardinalityType, SizeAssumption DEF NeverEvicts
  <2>6. QED
    BY <1>1, <2>1, <2>3, <2>4, <2>5 DEF NeverEvicts
<1>4. Inserted(k, n) = [items |-> items, map |-> Bind(Unmap(cacheMap, k), k, n), dead |-> {}]
  BY DEF Inserted
<1>5. ~(Len(items) > MaxSize)
  BY <1>1, <1>2, <1>3, SizeAssumption
<1> DEFINE heap == [node EXCEPT ![n] = [key |-> k, value |-> v]]
<1>6. cacheItems' = items /\ node' = [m \in Nodes |-> heap[m]]
  BY <1>4, <1>5 DEF Put, PutBounded
<1>7. QED
  BY <1>1, <1>2, <1>6

(* Without evictions every reference a caller holds stays good.            *)
LEMMA NextRefInv == ASSUME NeverEvicts PROVE IInv /\ RefInv /\ [Next]_vars => RefInv'
<1> SUFFICES ASSUME IInv, RefInv, [Next]_vars PROVE RefInv'
  OBVIOUS
<1>1. TypeOK
  BY DEF IInv
<1>2. ASSUME NEW t \in Threads, NEW k \in Keys, Request(t, k) PROVE RefInv'
  BY <1>1, <1>2 DEF RefInv, Request, TypeOK, Allocated
<1>3. ASSUME NEW t \in Threads, NEW k \in Keys, NestedHit(t, k) \/ NestedMiss(t, k) PROVE FALSE
  <2>1. Len(loading[t]) \in Nat \ {0}
    BY <1>1, <1>3, EmptySeq DEF IInv, ThreadInv, TypeOK, NestedHit, NestedMiss
  <2>2. QED
    BY <1>3, <2>1 DEF NestedHit, NestedMiss, NeverEvicts
<1>4. ASSUME NEW t \in Threads, Hit(t) PROVE RefInv'
  <2>1. Range(cacheItems') = Range(cacheItems)
    BY <1>4, SpliceAgrees DEF IInv, Hit
  <2>2. cacheMap[arg[t]] \in Allocated
    BY <1>4 DEF Hit, IInv, CacheInv, ListMapAgree, Agree, Held, Allocated
  <2>3. QED
    BY <1>1, <1>4, <2>1, <2>2 DEF RefInv, Hit, TypeOK, Allocated
<1>5. ASSUME NEW t \in Threads, Miss(t) PROVE RefInv'
  BY <1>1, <1>5 DEF RefInv, Miss, TypeOK, Allocated
<1>6. ASSUME NEW t \in Threads, LoaderReturns(t) PROVE RefInv'
  <2>1. Len(loading[t]) = 1 /\ loading[t][1] = arg[t] /\ arg[t] \in Keys \ Held
    <3>1. /\ loading[t] \in Seq(Keys) /\ loading[t] # <<>> /\ Len(loading[t]) <= 1
          /\ loading[t][1] = arg[t] /\ arg[t] \in Keys \ Held
      BY <1>1, <1>6 DEF IInv, ThreadInv, TypeOK, LoaderReturns, NeverEvicts
    <3>2. Len(loading[t]) \in Nat \ {0}
      BY <3>1, EmptySeq
    <3>3. \A d \in Nat \ {0} : d <= 1 => d = 1
      OBVIOUS
    <3>4. Len(loading[t]) = 1
      BY <3>1, <3>2, <3>3, Zenon
    <3>5. QED
      BY <3>1, <3>4
  <2>2. PICK v \in LoaderResults[arg[t]], n \in Nodes \ Allocated :
          /\ Put(arg[t], v, n) /\ pc' = [pc EXCEPT ![t] = "returned"]
          /\ ref' = [ref EXCEPT ![t] = IF arg[t] \in DOMAIN cacheMap' THEN n ELSE EndNode]
          /\ handed' = [handed EXCEPT ![t] = v] /\ got' = got
    BY <1>6, <2>1 DEF LoaderReturns
  <2>3. /\ Range(cacheItems') = Allocated \cup {n}
        /\ node' = [node EXCEPT ![n] = [key |-> arg[t], value |-> v]]
    BY <2>1, <2>2, PutKeepsNodes
  <2>4. MaxSize > 0
    <3>1. Keys # {} /\ Cardinality(Keys) \in Nat /\ MaxSize \in Nat
      BY <2>1, FS_CardinalityType, SizeAssumption DEF NeverEvicts
    <3>2. Cardinality(Keys) # 0
      BY <3>1, FS_EmptySet DEF NeverEvicts
    <3>3. QED
      BY <3>1, <3>2 DEF NeverEvicts
  <2>5. arg[t] \in DOMAIN cacheMap'
    BY <2>1, <2>2, <2>4, PutAgrees DEF IInv
  <2>6. node'[n].value = v /\ \A m \in Allocated : node'[m] = node[m]
    BY <1>1, <2>3 DEF TypeOK
  <2>7. QED
    BY <1>1, <1>6, <2>2, <2>3, <2>5, <2>6 DEF RefInv, LoaderReturns, TypeOK, Allocated
<1>7. ASSUME NEW t \in Threads, CopyOut(t) PROVE RefInv'
  <2>1. pc[t] = "returned" /\ ref[t] \in Allocated /\ node[ref[t]].value = handed[t]
    BY <1>7 DEF CopyOut, RefInv
  <2>2. got' = [got EXCEPT ![t] = handed[t]]
    BY <1>7, <2>1 DEF CopyOut
  <2>3. QED
    BY <1>1, <1>7, <2>2 DEF RefInv, CopyOut, TypeOK, Allocated
<1>8. CASE UNCHANGED vars
  BY <1>8 DEF RefInv, vars, Allocated
<1>9. QED
  BY <1>2, <1>3, <1>4, <1>5, <1>6, <1>7, <1>8 DEF Next, NeverEvicts

(* Without evictions and invalidations every caller copies the very value  *)
(* its get() returned.                                                     *)
THEOREM SafeWithoutEviction == NeverEvicts => (Spec => []CallerSeesEntry)
<1> SUFFICES ASSUME NeverEvicts PROVE Spec => []CallerSeesEntry
  OBVIOUS
<1>1. Init => RefInv
  BY DEF Init, RefInv
<1>2. RefInv => CallerSeesEntry
  BY DEF RefInv, CallerSeesEntry
<1>3. IInv /\ RefInv /\ [Next]_vars => RefInv'
  BY NextRefInv
<1>4. QED
  BY <1>1, <1>2, <1>3, InitIInv, NextIInv, PTL DEF Spec

=============================================================================
