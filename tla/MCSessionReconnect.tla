------------------------- MODULE MCSessionReconnect -------------------------
(* A lost connection, one the server has not noticed, and a restarted server. *)
EXTENDS Session, TLC

Symmetry == Permutations(Names)
=============================================================================
