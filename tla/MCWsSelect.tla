----------------------------- MODULE MCWsSelect -----------------------------
(* Two connections that select one topic and leave, in any interleaving. *)
EXTENDS WsServer
=============================================================================
