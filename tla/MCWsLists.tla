------------------------------ MODULE MCWsLists ------------------------------
(* One connection that sends every kind of message, across a reset. *)
EXTENDS WsServer
=============================================================================
