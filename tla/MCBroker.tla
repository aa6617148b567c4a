------------------------------ MODULE MCBroker ------------------------------
(* Requests that may overlap and disconnects that may time out.  Two       *)
(* auxiliary variables remember whether either has happened.               *)
EXTENDS Broker

VARIABLES
  overlapped,  \* two requests have been under way at the same time
  expired      \* a disconnect has timed out

MCInit == Init /\ overlapped = FALSE /\ expired = FALSE

MCNext ==
  /\ Next
  /\ overlapped' = (overlapped \/ \E r, s \in Reqs : r # s /\ "idle" \notin {req'[r].pc, req'[s].pc})
  /\ expired' = (expired \/ \E k \in Managers : mgr'[k].life = "cancelled")

MCSpec == MCInit /\ [][MCNext]_<<vars, overlapped, expired>> /\ Fairness

(***************************************************************************)
(* As long as requests have come one after the other, a connection that    *)
(* nobody has told to stop is the one the Manager can still stop, whatever *)
(* timed out (broker.go:60, :226).                                         *)
(***************************************************************************)
OneConnectionInTurn == overlapped \/ OneConnection

(***************************************************************************)
(* As long as, besides, every disconnect was answered in time, the tree    *)
(* holds messages of the present connection only (broker.go:60).           *)
(***************************************************************************)
TreeOfOneBrokerInTurn == overlapped \/ expired \/ TreeOfOneBroker
=============================================================================
