------------------------------ MODULE MCStore ------------------------------
(* Two readers; three names of which two fit, one new name per poll; more   *)
(* messages than a ring of two holds; a reset.                              *)
EXTENDS StoreReaders, TLC

Symmetry == Permutations(Readers) \cup Permutations(Names)
=============================================================================
