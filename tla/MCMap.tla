-------------------------------- MODULE MCMap --------------------------------
(* Bounded instances of ConcurrentMap.                                      *)
EXTENDS ConcurrentMap, TLC

Symmetry == Permutations(Keys) \cup Permutations(Threads)
=============================================================================
