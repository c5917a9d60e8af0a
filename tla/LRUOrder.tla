------------------------------ MODULE LRUOrder ------------------------------
(***************************************************************************)
(* What aff4::util::cache promises (the comments of utils/Cache.h): a      *)
(* sequence of at most MaxSize entries, one per key, most recently used    *)
(* first.  Using a key moves its entry to the front, loading a key puts a  *)
(* value of its loader there, and what does not fit falls off the back.    *)
(***************************************************************************)
EXTENDS Integers, Sequences, SequencesExt

CONSTANTS Keys, MaxSize, LoaderResults

VARIABLE entries

KeysOf(s) == {s[i].key : i \in DOMAIN s}
Place(s, k) == CHOOSE i \in DOMAIN s : s[i].key = k
Without(s, k) == IF k \in KeysOf(s) THEN RemoveAt(s, Place(s, k)) ELSE s
Bounded(s) == SubSeq(s, 1, IF Len(s) > MaxSize THEN MaxSize ELSE Len(s))

\* The entries after k was used, and after k was loaded with value v.
Refreshed(s, k) == <<s[Place(s, k)]>> \o Without(s, k)
Loaded(s, k, v) == Bounded(<<[key |-> k, value |-> v]>> \o Without(s, k))

Init == entries = <<>>

Use(k) == k \in KeysOf(entries) /\ entries' = Refreshed(entries, k)

Load(k) == \E v \in LoaderResults[k] : entries' = Loaded(entries, k, v)

Clear == entries' = <<>>

Next == Clear \/ \E k \in Keys : Use(k) \/ Load(k)

Spec == Init /\ [][Next]_entries
=============================================================================
