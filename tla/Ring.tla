-------------------------------- MODULE Ring --------------------------------
(***************************************************************************)
(* The fixed-size message buffer of internal/store/store.go, which keeps   *)
(* the history of a topic while a reader has it selected.  A message is    *)
(* represented by its running number N within its topic: payload, time and *)
(* user properties travel with it and decide nothing.                      *)
(*                                                                         *)
(* buf is indexed from 0, as in the code, and slots that were never        *)
(* written hold 0 (Go's zero Message).  The code's nil *ring is NoRing.    *)
(***************************************************************************)
EXTENDS Sublist

Slots(size) == 0..(size - 1)

RingOf(size, Messages) ==
  [buf : [Slots(size) -> Messages], next : Slots(size), full : BOOLEAN]

NoRing == [buf |-> [i \in {} |-> 0], next |-> 0, full |-> FALSE]

NewRing(size) == [buf |-> [i \in Slots(size) |-> 0], next |-> 0, full |-> FALSE]

PushNoWrap(r, size, m) ==   \* mutant: the write index does not wrap
  [buf  |-> [r.buf EXCEPT ![r.next] = m],
   next |-> r.next + 1,
   full |-> r.full \/ r.next + 1 = size]

Push(r, size, m) ==
  [buf  |-> [r.buf EXCEPT ![r.next] = m],
   next |-> IF r.next + 1 = size THEN 0 ELSE r.next + 1,
   full |-> r.full \/ r.next + 1 = size]

(***************************************************************************)
(* Oldest first: the part from next on, once the ring has been filled,     *)
(* then the part before next.                                              *)
(***************************************************************************)
Contents(r, size) ==
  IF r.full
  THEN [i \in 1..size |-> IF r.next + i - 1 < size
                          THEN r.buf[r.next + i - 1]
                          ELSE r.buf[r.next + i - 1 - size]]
  ELSE [i \in 1..r.next |-> r.buf[i - 1]]

After(r, size, n) == Above(Contents(r, size), n)
=============================================================================
