---------------------------- MODULE MCWsTeardown ----------------------------
(* Writes may fail while the reader still holds a message. *)
EXTENDS WsServer
=============================================================================
