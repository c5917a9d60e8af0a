------------------------------ MODULE LRUCache ------------------------------
(***************************************************************************)
(* aff4::util::cache (utils/Cache.h): a bounded LRU cache whose entries    *)
(* are produced on demand by a loader.  Entries are nodes of a doubly      *)
(* linked list (cacheItems, most recently used first), found through a     *)
(* map from keys to nodes (cacheMap).  get() runs under a recursive mutex  *)
(* and returns a REFERENCE into a node: the caller copies the value after  *)
(* the mutex has been released (ImageStream.cc:210, ChunkLoader.cc:45).    *)
(*                                                                         *)
(* Nodes are heap cells: a node that leaves the list is freed and may be   *)
(* handed out again by the allocator.  Everything get() does while it      *)
(* holds the mutex, apart from running the loader, is one step: only the   *)
(* caller's copy runs without the mutex, and it is a step of its own.      *)
(***************************************************************************)
EXTENDS Integers, Sequences, FiniteSets, SequencesExt

CONSTANTS
    Threads,        \* threads that call get()
    Invalidators,   \* the threads that also call invalidate()
    Keys,           \* key_t
    Nodes,          \* list nodes the allocator can hand out
    MaxSize,        \* maxSize
    LoaderResults,  \* LoaderResults[k]: the values loader(k) may return
    MaxDepth,       \* bound: calls of get() nested in each other by the loader
    EndNode,        \* what cacheMap.end()->second designates: no entry at all
    NoThread, NoKey, NoValue, Garbage

Values == UNION {LoaderResults[k] : k \in Keys}

ASSUME ThreadsAssumption == NoThread \notin Threads /\ Invalidators \subseteq Threads
ASSUME KeysAssumption == NoKey \notin Keys
ASSUME NodesAssumption == EndNode \notin Nodes
ASSUME SizeAssumption == MaxSize \in Nat /\ MaxDepth \in Nat \ {0}
ASSUME LoaderAssumption == DOMAIN LoaderResults = Keys
ASSUME ValuesAssumption == {NoValue, Garbage} \cap Values = {}

VARIABLES
    lock,        \* owner of cacheLock, or NoThread
    cacheItems,  \* the list: nodes, most recently used first
    cacheMap,    \* key -> node, for the keys held
    node,        \* contents of every heap node: [key, value]
    pc,          \* where each thread is in get()
    arg,         \* the key each thread asked for last
    loading,     \* keys whose loader each thread is running, outermost first
    ref,         \* the node a returned reference points into
    handed,      \* history: the value of that entry when get() returned
    got          \* what the caller copied through the reference

vars == <<lock, cacheItems, cacheMap, node, pc, arg, loading, ref, handed, got>>

Freed == [key |-> NoKey, value |-> NoValue]
NoEntries == [k \in {} |-> EndNode]

TypeOK ==
    /\ lock \in Threads \cup {NoThread}
    /\ cacheItems \in Seq(Nodes)
    /\ DOMAIN cacheMap \subseteq Keys
    /\ \A k \in DOMAIN cacheMap : cacheMap[k] \in Nodes
    /\ node \in [Nodes -> [key : Keys \cup {NoKey}, value : Values \cup {NoValue}]]
    /\ pc \in [Threads -> {"idle", "waiting", "loading", "returned"}]
    /\ arg \in [Threads -> Keys \cup {NoKey}]
    /\ loading \in [Threads -> Seq(Keys)]
    /\ ref \in [Threads -> Nodes \cup {EndNode}]
    /\ handed \in [Threads -> Values \cup {NoValue}]
    /\ got \in [Threads -> Values \cup {NoValue, Garbage}]

Init ==
    /\ lock = NoThread
    /\ cacheItems = <<>>
    /\ cacheMap = NoEntries
    /\ node = [n \in Nodes |-> Freed]
    /\ pc = [t \in Threads |-> "idle"]
    /\ arg = [t \in Threads |-> NoKey]
    /\ loading = [t \in Threads |-> <<>>]
    /\ ref = [t \in Threads |-> EndNode]
    /\ handed = [t \in Threads |-> NoValue]
    /\ got = [t \in Threads |-> NoValue]

-----------------------------------------------------------------------------
(* The list and the map.                                                   *)

Held == DOMAIN cacheMap
size == Len(cacheItems)
Allocated == Range(cacheItems)

\* cacheItems.erase(it): the list without node n.
Erase(items, n) ==
    IF \E i \in DOMAIN items : items[i] = n
    THEN RemoveAt(items, CHOOSE i \in DOMAIN items : items[i] = n)
    ELSE items

\* cacheItems.splice(begin, cacheItems, it): node n becomes the front.
SpliceToFront(items, n) == <<n>> \o Erase(items, n)

\* cacheMap.erase(k)
Unmap(map, k) == [j \in DOMAIN map \ {k} |-> map[j]]

BindToEnd(map, k, n) == [j \in DOMAIN map \cup {k} |-> IF j = k THEN EndNode ELSE map[j]]

\* cacheMap[k] = n
Bind(map, k, n) == [j \in DOMAIN map \cup {k} |-> IF j = k THEN n ELSE map[j]]

(* put(k, v) into the fresh node n: the list, the map and the heap after   *)
(* it.  An entry k already has (the loader re-entered the cache for k) is  *)
(* replaced, and the last node goes when there are more than maxSize.      *)
Inserted(k, n) ==
    LET old == IF k \in Held THEN {cacheMap[k]} ELSE {}
        kept == IF k \in Held THEN Erase(cacheItems, cacheMap[k]) ELSE cacheItems
    IN  [items |-> <<n>> \o kept, map |-> Bind(Unmap(cacheMap, k), k, n), dead |-> old]

EvictedStillMapped(put, lastKey) ==
    [items |-> SubSeq(put.items, 1, Len(put.items) - 1),
     map   |-> put.map,
     dead  |-> put.dead \cup {put.items[Len(put.items)]}]

EvictedSecond(put, lastKey) ==
    [items |-> RemoveAt(put.items, 2),
     map   |-> Unmap(put.map, node[put.items[2]].key),
     dead  |-> put.dead \cup {put.items[2]}]

Evicted(put, lastKey) ==
    [items |-> SubSeq(put.items, 1, Len(put.items) - 1),
     map   |-> Unmap(put.map, lastKey),
     dead  |-> put.dead \cup {put.items[Len(put.items)]}]

PutBounded(k, v, n, bound) ==
    LET ins  == Inserted(k, n)
        full == Len(ins.items) > bound
        heap == [node EXCEPT ![n] = [key |-> k, value |-> v]]
        res  == IF full THEN Evicted(ins, heap[ins.items[Len(ins.items)]].key) ELSE ins
    IN  /\ cacheItems' = res.items
        /\ cacheMap' = res.map
        /\ node' = [m \in Nodes |-> IF m \in res.dead THEN Freed ELSE heap[m]]

PutOneTooMany(k, v, n) == PutBounded(k, v, n, MaxSize + 1)
PutOneTooFew(k, v, n) == PutBounded(k, v, n, MaxSize - 1)

Put(k, v, n) == PutBounded(k, v, n, MaxSize)

-----------------------------------------------------------------------------
(* get(key)                                                                *)

\* A thread calls get(k); it needs cacheLock before it can look.
Request(t, k) ==
    /\ pc[t] = "idle"
    /\ pc' = [pc EXCEPT ![t] = "waiting"]
    /\ arg' = [arg EXCEPT ![t] = k]
    /\ handed' = [handed EXCEPT ![t] = NoValue]
    /\ got' = [got EXCEPT ![t] = NoValue]
    /\ UNCHANGED <<lock, cacheItems, cacheMap, node, loading, ref>>

HitInPlace(t) ==
    /\ pc[t] = "waiting" /\ lock = NoThread /\ arg[t] \in Held
    /\ LET n == cacheMap[arg[t]]
       IN  ref' = [ref EXCEPT ![t] = n] /\ handed' = [handed EXCEPT ![t] = node[n].value]
    /\ pc' = [pc EXCEPT ![t] = "returned"]
    /\ UNCHANGED <<lock, cacheItems, cacheMap, node, arg, loading, got>>

\* The key is held: refresh its entry and return a reference into it.
Hit(t) ==
    /\ pc[t] = "waiting"
    /\ lock = NoThread
    /\ arg[t] \in Held
    /\ LET n == cacheMap[arg[t]]
       IN  /\ cacheItems' = SpliceToFront(cacheItems, n)
           /\ ref' = [ref EXCEPT ![t] = n]
           /\ handed' = [handed EXCEPT ![t] = node[n].value]
    /\ pc' = [pc EXCEPT ![t] = "returned"]
    /\ UNCHANGED <<lock, cacheMap, node, arg, loading, got>>

MissUnlocked(t) ==
    /\ pc[t] = "waiting" /\ lock = NoThread /\ arg[t] \notin Held
    /\ loading' = [loading EXCEPT ![t] = <<arg[t]>>]
    /\ pc' = [pc EXCEPT ![t] = "loading"]
    /\ UNCHANGED <<lock, cacheItems, cacheMap, node, arg, ref, handed, got>>

\* The key is not held: run its loader, still holding cacheLock.
Miss(t) ==
    /\ pc[t] = "waiting"
    /\ lock = NoThread
    /\ arg[t] \notin Held
    /\ lock' = t
    /\ loading' = [loading EXCEPT ![t] = <<arg[t]>>]
    /\ pc' = [pc EXCEPT ![t] = "loading"]
    /\ UNCHANGED <<cacheItems, cacheMap, node, arg, ref, handed, got>>

(* The loader itself calls get(k) on this cache: the mutex is recursive,   *)
(* so the same thread goes on.                                             *)
NestedHit(t, k) ==
    /\ pc[t] = "loading"
    /\ Len(loading[t]) < MaxDepth
    /\ k \in Held
    /\ cacheItems' = SpliceToFront(cacheItems, cacheMap[k])
    /\ UNCHANGED <<lock, cacheMap, node, pc, arg, loading, ref, handed, got>>

NestedMiss(t, k) ==
    /\ pc[t] = "loading"
    /\ Len(loading[t]) < MaxDepth
    /\ k \notin Held
    /\ loading' = [loading EXCEPT ![t] = Append(@, k)]
    /\ UNCHANGED <<lock, cacheItems, cacheMap, node, pc, arg, ref, handed, got>>

\* get() gives cacheLock back when its outermost call returns.
KeepLock(t) == lock
Unlocked(t) == NoThread

(* The innermost loader returns v: put it, find it again and move it to    *)
(* the front.  When MaxSize = 0 put() has just evicted it, find() gives    *)
(* cacheMap.end() and the reference designates no entry at all.            *)
LoaderReturns(t) ==
    /\ pc[t] = "loading"
    /\ LET depth == Len(loading[t])
           k == loading[t][depth]
       IN  /\ \E v \in LoaderResults[k], n \in Nodes \ Allocated :
                /\ Put(k, v, n)
                /\ IF depth = 1
                   THEN /\ lock' = Unlocked(t)
                        /\ pc' = [pc EXCEPT ![t] = "returned"]
                        /\ ref' = [ref EXCEPT ![t] = IF k \in DOMAIN cacheMap' THEN n ELSE EndNode]
                        /\ handed' = [handed EXCEPT ![t] = v]
                   ELSE UNCHANGED <<lock, pc, ref, handed>>
           /\ loading' = [loading EXCEPT ![t] = SubSeq(@, 1, depth - 1)]
    /\ UNCHANGED <<arg, got>>

(* The caller copies the value through the reference, without the mutex.   *)
(* A node another thread has freed since then holds anything at all.       *)
CopyOut(t) ==
    /\ pc[t] = "returned"
    /\ \E v \in Values \cup {Garbage} :
         /\ ref[t] \in Allocated => v = node[ref[t]].value
         /\ got' = [got EXCEPT ![t] = v]
    /\ pc' = [pc EXCEPT ![t] = "idle"]
    /\ ref' = [ref EXCEPT ![t] = EndNode]
    /\ UNCHANGED <<lock, cacheItems, cacheMap, node, arg, loading, handed>>

\* invalidate(): also what the destructor does.
Invalidate(t) ==
    /\ pc[t] = "idle"
    /\ lock = NoThread
    /\ cacheItems' = <<>>
    /\ cacheMap' = NoEntries
    /\ node' = [n \in Nodes |-> Freed]
    /\ UNCHANGED <<lock, pc, arg, loading, ref, handed, got>>

Next ==
    \/ \E t \in Threads : 
         \/ \E k \in Keys : Request(t, k) \/ NestedHit(t, k) \/ NestedMiss(t, k)
         \/ Hit(t) \/ Miss(t) \/ LoaderReturns(t) \/ CopyOut(t)
    \/ \E t \in Invalidators : Invalidate(t)

(* A thread that can run does run, and a loader returns; nothing says that *)
(* a thread keeps asking, nor that the mutex is granted in any order.      *)
Fairness ==
    \A t \in Threads : WF_vars(Hit(t) \/ Miss(t)) /\ WF_vars(LoaderReturns(t)) /\ WF_vars(CopyOut(t))

Spec == Init /\ [][Next]_vars
FairSpec == Spec /\ Fairness
-----------------------------------------------------------------------------
(* Properties.                                                             *)

(* A list of nodes, a map and a heap describe the same entries: no node is *)
(* listed twice, the map finds every listed node under its key and nothing *)
(* else, and each value came from its own key's loader.                    *)
Agree(items, map, heap) ==
    /\ IsInjective(items)
    /\ \A k \in DOMAIN map : map[k] \in Range(items) /\ heap[map[k]].key = k
    /\ \A n \in Range(items) :
         /\ heap[n].key \in DOMAIN map
         /\ map[heap[n].key] = n
         /\ heap[n].value \in LoaderResults[heap[n].key]

(* The cache's list, map and heap always agree, although put(), the        *)
(* eviction and the splice each update them separately (Cache.h:89-155).   *)
ListMapAgree == Agree(cacheItems, cacheMap, node)

(* "containing up to max elements" (Cache.h:61): also with a loader that   *)
(* re-enters the cache and puts entries while an outer get() is going on.  *)
SizeBounded == size <= MaxSize /\ Cardinality(Held) = size

(* cacheLock is held for as long as a loader runs, so at most one thread   *)
(* is inside a loader of this cache.                                       *)
LoaderUnderLock == \A t \in Threads : loading[t] # <<>> <=> lock = t

(* get() returns a reference to the entry of the key it was asked for,     *)
(* and that entry is then the most recently used one ("@return The item    *)
(* from the cache", Cache.h:78).                                           *)
ReturnsEntry(t) ==
    (pc[t] # "returned" /\ pc'[t] = "returned") =>
        /\ cacheItems' # <<>>
        /\ ref'[t] = cacheItems'[1]
        /\ node'[ref'[t]] = [key |-> arg[t], value |-> handed'[t]]

GetReturnsEntry == [][\A t \in Threads : ReturnsEntry(t)]_vars

(* A key is never loaded while it is held: the mutex is kept from the      *)
(* failed find() to the put(), so two threads that miss the same key do    *)
(* not both load it.  (Stated for loaders that do not re-enter.)           *)
NoDoubleLoad == MaxDepth = 1 => \A t \in Threads : pc[t] = "loading" => arg[t] \notin Held

(* What the caller copies is the value of the entry get() returned: the    *)
(* reference outlives the mutex, so this needs the entry to stay where it  *)
(* is until the copy ("Base implementation is MT-SAFE", Cache.h:46).       *)
CallerSeesEntry == \A t \in Threads : got[t] # NoValue => got[t] = handed[t]

(* The cache is an LRU cache.                                              *)
LRU == INSTANCE LRUOrder WITH entries <- [i \in DOMAIN cacheItems |-> node[cacheItems[i]]]
IsLRU == LRU!Spec

(* When threads wait for the cache, some get() completes.                  *)
SomeGetCompletes == (\E t \in Threads : pc[t] = "waiting") ~> (\E t \in Threads : pc[t] = "returned")
=============================================================================
