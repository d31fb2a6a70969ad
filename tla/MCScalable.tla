----------------------------- MODULE MCScalable -----------------------------
(* Bounded instances of LRUCache and the ScalableCache it holds.             *)
EXTENDS LRUCache, TLC

CONSTANTS k1, k2, k3

Some == {{k1, k2}, {k3}}

Alternating == k1 :> 0 @@ k2 :> 1 @@ k3 :> 1

Symmetry == Permutations(Clients)
=============================================================================
