---------------------------- MODULE ProfileStore ----------------------------
(***************************************************************************)
(* What the book of saved profiles promises (internal/profiles/profiles.go *)
(* 204-295), and what a save and a delete make of it.                      *)
(*                                                                         *)
(* A request takes effect at once, at some time between being asked and    *)
(* being answered.  One that was answered well has taken effect, one that  *)
(* was refused has not, and one that was lost in a crash may or may not    *)
(* have; nothing else changes the book, a crash included.                  *)
(*                                                                         *)
(* rest stands for the fields of a profile other than its id and password. *)
(***************************************************************************)
EXTENDS Integers, Sequences

CONSTANTS
  Reqs,         \* slots for requests
  Ids,          \* what newID makes
  NoId,         \* "", the id of a profile to be created
  Rests,
  Passwords,
  NoPassword,   \* ""
  Stored        \* profiles that may be saved to begin with

VARIABLES
  book,      \* the saved profiles
  stage,     \* slot -> how far its request is
  asked,     \* slot -> the request
  answer     \* slot -> the profiles it is answered with

svars == <<book, stage, asked, answer>>

Requests ==
  [op : {"save", "delete", "list"}, id : Ids \cup {NoId}, rest : Rests,
   password : Passwords \cup {NoPassword}, clear : BOOLEAN]

NoRequest == [op |-> "none"]

Has(list, id) == \E i \in DOMAIN list : list[i].id = id

IndexOf(list, id) == CHOOSE i \in DOMAIN list : list[i].id = id /\ \A j \in 1..(i - 1) : list[j].id # id

Possible(list, q) ==
  CASE q.op = "save"   -> q.id = NoId \/ Has(list, q.id)
    [] q.op = "delete" -> Has(list, q.id)

ResultDropping(list, q, new) ==   \* mutant: an empty password is saved like any other
  LET i == IndexOf(list, q.id)
  IN  CASE q.op = "delete" -> SubSeq(list, 1, i - 1) \o SubSeq(list, i + 1, Len(list))
        [] q.op = "save" /\ q.id = NoId ->
             Append(list, [id |-> new, rest |-> q.rest, password |-> q.password])
        [] q.op = "save" /\ q.id # NoId ->
             [list EXCEPT ![i] = [id |-> q.id, rest |-> q.rest, password |-> q.password]]

\* A new profile gets the id new; an empty password keeps the old one unless it is cleared.
Result(list, q, new) ==
  LET i == IndexOf(list, q.id)
      keeps == q.password = NoPassword /\ ~q.clear
  IN  CASE q.op = "delete" -> SubSeq(list, 1, i - 1) \o SubSeq(list, i + 1, Len(list))
        [] q.op = "save" /\ q.id = NoId ->
             Append(list, [id |-> new, rest |-> q.rest, password |-> q.password])
        [] q.op = "save" /\ q.id # NoId ->
             [list EXCEPT ![i] = [id |-> q.id, rest |-> q.rest,
                                  password |-> IF keeps THEN list[i].password ELSE q.password]]

\* What the request is answered with: the profile as it was saved.
SavedIn(list, q) ==
  IF q.op = "delete" THEN <<>>
  ELSE IF q.id = NoId THEN <<list[Len(list)]>> ELSE <<list[IndexOf(list, q.id)]>>

-----------------------------------------------------------------------------
Ended == {"idle", "ok", "error", "lost"}

Init ==
  /\ book \in {<<>>, Stored}
  /\ stage = [r \in Reqs |-> "idle"]
  /\ asked = [r \in Reqs |-> NoRequest]
  /\ answer = [r \in Reqs |-> <<>>]

Ask(r, q) ==
  /\ stage[r] = "idle"
  /\ stage' = [stage EXCEPT ![r] = "asked"]
  /\ asked' = [asked EXCEPT ![r] = q]
  /\ UNCHANGED <<book, answer>>

Apply(r) ==
  /\ stage[r] = "asked" /\ asked[r].op \in {"save", "delete"}
  /\ Possible(book, asked[r])
  /\ \E new \in Ids : book' = Result(book, asked[r], new)
  /\ answer' = [answer EXCEPT ![r] = SavedIn(book', asked[r])]
  /\ stage' = [stage EXCEPT ![r] = "applied"]
  /\ UNCHANGED asked

Answer(r) ==
  /\ stage[r] = "applied"
  /\ stage' = [stage EXCEPT ![r] = "ok"]
  /\ UNCHANGED <<book, asked, answer>>

Refuse(r) ==
  /\ stage[r] = "asked"
  /\ stage' = [stage EXCEPT ![r] = "error"]
  /\ UNCHANGED <<book, asked, answer>>

Read(r) ==
  /\ stage[r] = "asked" /\ asked[r].op = "list"
  /\ answer' = [answer EXCEPT ![r] = book]
  /\ stage' = [stage EXCEPT ![r] = "ok"]
  /\ UNCHANGED <<book, asked>>

Taken(r) ==
  /\ stage[r] \in {"ok", "error", "lost"}
  /\ stage' = [stage EXCEPT ![r] = "idle"]
  /\ asked' = [asked EXCEPT ![r] = NoRequest]
  /\ answer' = [answer EXCEPT ![r] = <<>>]
  /\ UNCHANGED book

Crash ==
  /\ stage' = [r \in Reqs |-> IF stage[r] \in Ended THEN stage[r] ELSE "lost"]
  /\ UNCHANGED <<book, asked, answer>>

Next ==
  \/ \E r \in Reqs, q \in Requests : Ask(r, q)
  \/ \E r \in Reqs : Apply(r) \/ Answer(r) \/ Refuse(r) \/ Read(r) \/ Taken(r)
  \/ Crash

Spec == Init /\ [][Next]_svars
=============================================================================
