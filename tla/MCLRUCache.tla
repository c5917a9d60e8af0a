----------------------------- MODULE MCLRUCache -----------------------------
(***************************************************************************)
(* Small instances of LRUCache: a key's loader returns the key's own data  *)
(* or fails, and a failed load is a value like any other.                  *)
(***************************************************************************)
EXTENDS LRUCache

CONSTANT Failed

MCLoaderResults == [k \in Keys |-> {<<k>>, Failed}]

=============================================================================
