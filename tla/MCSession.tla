----------------------------- MODULE MCSession ------------------------------
(* One connection, selections, comparisons and a changing view, across a reset. *)
EXTENDS Session, TLC

Symmetry == Permutations(Names)
=============================================================================
