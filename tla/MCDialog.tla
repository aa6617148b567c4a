------------------------------ MODULE MCDialog ------------------------------
(* A profile with a password, or none; two requests at a time.             *)
EXTENDS Dialog

MCStored == <<[id |-> 1, rest |-> "x", password |-> "secret"]>>
=============================================================================
