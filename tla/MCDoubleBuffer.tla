--------------------------- MODULE MCDoubleBuffer ---------------------------
(* Bounded instances of DoubleBuffer.                                       *)
EXTENDS DoubleBuffer, TLC

Symmetry == Permutations(Readers)
=============================================================================
