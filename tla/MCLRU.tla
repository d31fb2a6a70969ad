-------------------------------- MODULE MCLRU --------------------------------
(* Bounded instances of ConcurrentLRUCache.                                 *)
EXTENDS LRURefinesCache, LRUInvariant, TLC

\* The batches of a run: single inserts, or also the map of all keys.
OnePair == {{p} : p \in Keys \X Values}
AlsoAllKeys == OnePair \cup {{<<k, v>> : k \in Keys} : v \in Values}

Symmetry == Permutations(Keys) \cup Permutations(Values) \cup Permutations(Nodes)
              \cup Permutations(Clients) \cup Permutations(Evictors)
=============================================================================
