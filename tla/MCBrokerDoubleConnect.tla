----------------------- MODULE MCBrokerDoubleConnect ------------------------
(* Two connect requests at the same time. *)
EXTENDS Broker
=============================================================================
