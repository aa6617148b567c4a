-------------------------------- MODULE Book --------------------------------
(***************************************************************************)
(* The book of saved profiles: Save, Delete and List of internal/profiles, *)
(* as the handlers of internal/server call them, one goroutine a request,  *)
(* under the book's mutex; and the file, which is written to a temporary   *)
(* file that replaces it.  Writing and renaming may fail, and the process  *)
(* may crash at any time and be started again.                             *)
(*                                                                         *)
(* A rename is taken to be atomic and lasting, as it is when the process   *)
(* dies; nothing is synced, so this says nothing of a power failure.  What *)
(* is wrong with a profile that Save refuses before it locks is left out.  *)
(***************************************************************************)
EXTENDS Integers, Sequences

CONSTANTS
  Reqs,         \* slots for requests
  Ids,          \* what newID makes, each once
  NoId,         \* "", the id of a profile to be created
  Rests,        \* the other fields of a profile
  Passwords,
  NoPassword,   \* ""
  Stored,       \* profiles that may be saved to begin with
  NoReq         \* nobody holds the mutex

ASSUME BookAssumption == NoReq \notin Reqs /\ NoId \notin Ids /\ Ids # {}

Profile == [id : Ids, rest : Rests, password : Passwords \cup {NoPassword}]

\* A file that this program wrote: no two profiles in it have one id.
ASSUME StoredAssumption ==
  /\ Stored \in Seq(Profile)
  /\ \A i, j \in DOMAIN Stored : Stored[i].id = Stored[j].id => i = j

VARIABLES
  up,       \* whether the process runs
  list,     \* Book.list
  file,     \* profiles.json: [kind, list]
  tmp,      \* profiles.json.tmp
  mu,       \* who holds Book.mu
  next,     \* the list being written
  used,     \* ids made so far
  stage,    \* slot -> how far its request is
  asked,    \* slot -> the request
  answer    \* slot -> the profiles it is answered with

bvars == <<up, list, file, tmp, mu, next, used, stage, asked, answer>>

NoFile == [kind |-> "none", list |-> <<>>]
Part   == [kind |-> "part", list |-> <<>>]   \* not written to its end
Whole(profiles) == [kind |-> "whole", list |-> profiles]

AbsStage ==
  [r \in Reqs |-> CASE stage[r] \in {"writing", "renaming"} -> "asked"
                    [] stage[r] = "renamed" -> "applied"
                    [] OTHER -> stage[r]]

\* The book is what the file says, whether the process runs or not.
Store == INSTANCE ProfileStore WITH book <- file.list, stage <- AbsStage

BookInit ==
  /\ up = TRUE
  /\ file \in {NoFile, Whole(Stored)}
  /\ list = file.list
  /\ tmp = NoFile
  /\ mu = NoReq
  /\ next = <<>>
  /\ used = {file.list[i].id : i \in DOMAIN file.list}
  /\ stage = [r \in Reqs |-> "idle"]
  /\ asked = [r \in Reqs |-> Store!NoRequest]
  /\ answer = [r \in Reqs |-> <<>>]

-----------------------------------------------------------------------------
Ask(r, q) ==
  /\ up /\ stage[r] = "idle" /\ q \in Store!Requests
  /\ stage' = [stage EXCEPT ![r] = "asked"]
  /\ asked' = [asked EXCEPT ![r] = q]
  /\ UNCHANGED <<up, list, file, tmp, mu, next, used, answer>>

\* The check of a profile fails, or there is none with that id.
Refuse(r) ==
  /\ stage[r] = "asked"
  /\ \/ asked[r].op = "save"
     \/ asked[r].op = "delete" /\ mu = NoReq /\ ~Store!Possible(list, asked[r])
  /\ stage' = [stage EXCEPT ![r] = "error"]
  /\ UNCHANGED <<up, list, file, tmp, mu, next, used, asked, answer>>

\* One id that was never made is as good as another.
NewId == CHOOSE id \in Ids : id \notin used

Creates(q) == q.op = "save" /\ q.id = NoId

Lock(r) ==
  /\ stage[r] = "asked" /\ asked[r].op \in {"save", "delete"}
  /\ mu = NoReq /\ Store!Possible(list, asked[r])
  /\ Creates(asked[r]) => Ids \ used # {}
  /\ next' = Store!Result(list, asked[r], NewId)
  /\ used' = IF Creates(asked[r]) THEN used \cup {NewId} ELSE used
  /\ mu' = r
  /\ stage' = [stage EXCEPT ![r] = "writing"]
  /\ UNCHANGED <<up, list, file, tmp, asked, answer>>

WriteInPlace(r) ==   \* mutant: the file itself is written, in two steps
  /\ stage[r] = "writing"
  /\ tmp' = Whole(next)
  /\ file' = Part
  /\ stage' = [stage EXCEPT ![r] = "renaming"]
  /\ UNCHANGED <<up, list, mu, next, used, asked, answer>>

Write(r) ==
  /\ stage[r] = "writing"
  /\ tmp' = Whole(next)
  /\ stage' = [stage EXCEPT ![r] = "renaming"]
  /\ UNCHANGED <<up, list, file, mu, next, used, asked, answer>>

Rename(r) ==
  /\ stage[r] = "renaming"
  /\ file' = tmp
  /\ tmp' = NoFile
  /\ answer' = [answer EXCEPT ![r] = Store!SavedIn(next, asked[r])]
  /\ stage' = [stage EXCEPT ![r] = "renamed"]
  /\ UNCHANGED <<up, list, mu, next, used, asked>>

FailHolding(r) ==   \* mutant: the mutex is not released
  /\ stage[r] \in {"writing", "renaming"}
  /\ tmp' \in {tmp} \cup (IF stage[r] = "writing" THEN {Part} ELSE {})
  /\ stage' = [stage EXCEPT ![r] = "error"]
  /\ UNCHANGED <<up, list, file, mu, next, used, asked, answer>>

FailRemembering(r) ==   \* mutant: the profile is changed in memory before it is written
  /\ stage[r] \in {"writing", "renaming"}
  /\ tmp' \in {tmp} \cup (IF stage[r] = "writing" THEN {Part} ELSE {})
  /\ mu' = NoReq
  /\ list' = next
  /\ stage' = [stage EXCEPT ![r] = "error"]
  /\ UNCHANGED <<up, file, next, used, asked, answer>>

\* The directory, the temporary file or the rename cannot be made; the write may be cut short.
Fail(r) ==
  /\ stage[r] \in {"writing", "renaming"}
  /\ tmp' \in {tmp} \cup (IF stage[r] = "writing" THEN {Part} ELSE {})
  /\ mu' = NoReq
  /\ next' = <<>>
  /\ stage' = [stage EXCEPT ![r] = "error"]
  /\ UNCHANGED <<up, list, file, used, asked, answer>>

FinishForgetting(r) ==   \* mutant: the list in memory stays what it was
  /\ stage[r] = "renamed"
  /\ mu' = NoReq
  /\ next' = <<>>
  /\ stage' = [stage EXCEPT ![r] = "ok"]
  /\ UNCHANGED <<up, list, file, tmp, used, asked, answer>>

Finish(r) ==
  /\ stage[r] = "renamed"
  /\ list' = next
  /\ mu' = NoReq
  /\ next' = <<>>
  /\ stage' = [stage EXCEPT ![r] = "ok"]
  /\ UNCHANGED <<up, file, tmp, used, asked, answer>>

List(r) ==
  /\ stage[r] = "asked" /\ asked[r].op = "list"
  /\ mu = NoReq
  /\ answer' = [answer EXCEPT ![r] = list]
  /\ stage' = [stage EXCEPT ![r] = "ok"]
  /\ UNCHANGED <<up, list, file, tmp, mu, next, used, asked>>

\* Who asked takes the answer, or learns that there is none.
Taken(r) ==
  /\ stage[r] \in {"ok", "error", "lost"}
  /\ stage' = [stage EXCEPT ![r] = "idle"]
  /\ asked' = [asked EXCEPT ![r] = Store!NoRequest]
  /\ answer' = [answer EXCEPT ![r] = <<>>]
  /\ UNCHANGED <<up, list, file, tmp, mu, next, used>>

\* A write that is under way may leave anything of the temporary file.
Crash ==
  /\ up
  /\ up' = FALSE
  /\ list' = <<>>
  /\ next' = <<>>
  /\ mu' = NoReq
  /\ tmp' \in {tmp} \cup (IF mu # NoReq /\ stage[mu] = "writing" THEN {Part, Whole(next)} ELSE {})
  /\ stage' = [r \in Reqs |-> IF stage[r] \in Store!Ended THEN stage[r] ELSE "lost"]
  /\ UNCHANGED <<file, used, asked, answer>>

\* Open: a file that is not whole keeps the process from starting.
Restart ==
  /\ ~up
  /\ file.kind # "part"
  /\ up' = TRUE
  /\ list' = file.list
  /\ UNCHANGED <<file, tmp, mu, next, used, stage, asked, answer>>

Handle(r) == Refuse(r) \/ Lock(r) \/ Write(r) \/ Rename(r) \/ Fail(r) \/ Finish(r) \/ List(r)

BookNext ==
  \/ \E r \in Reqs, q \in Store!Requests : Ask(r, q)
  \/ \E r \in Reqs : Handle(r) \/ Taken(r)
  \/ Crash
  \/ Restart

BookSpec == BookInit /\ [][BookNext]_bvars

-----------------------------------------------------------------------------
(***************************************************************************)
(* Whoever holds the mutex is the one request that is past it, the others  *)
(* are where a slot may be, and nobody is served while the process is down *)
(* (profiles.go:257, 283).                                                 *)
(***************************************************************************)
Holding == {"writing", "renaming", "renamed"}

BookTypeOK ==
  /\ up \in BOOLEAN
  /\ file.kind \in {"none", "part", "whole"} /\ tmp.kind \in {"none", "part", "whole"}
  /\ stage \in [Reqs -> Store!Ended \cup {"asked"} \cup Holding]
  /\ mu \in Reqs \cup {NoReq}
  /\ \A r \in Reqs : stage[r] \in Holding <=> mu = r
  /\ up \/ \A r \in Reqs : stage[r] \in Store!Ended

(***************************************************************************)
(* The file is never part of a list, neither while it is written nor after *)
(* a crash, so that the program starts again (profiles.go:229, 297).       *)
(***************************************************************************)
FileIsWhole == file.kind # "part"

(***************************************************************************)
(* Memory and file agree whenever nobody is between the rename and the     *)
(* assignment: also after a write or a rename that failed, which leaves    *)
(* both as they were (profiles.go:275-278, 290-293).                       *)
(***************************************************************************)
MemoryIsFile ==
  up => IF mu # NoReq /\ stage[mu] = "renamed" THEN file.list = next ELSE file.list = list

(***************************************************************************)
(* The book keeps what ProfileStore promises: requests take effect one     *)
(* after the other and as a whole, one answered well has taken effect, one *)
(* refused has not, and no crash, failed write or request beside it undoes *)
(* or repeats one (profiles.go:254-295, "write replaces the file           *)
(* atomically").                                                           *)
(***************************************************************************)
KeepsItsPromise == Store!Spec

(***************************************************************************)
(* Every request comes to an end, if the goroutines that serve them are    *)
(* scheduled: the mutex is released on every path (profiles.go:258, 283).  *)
(***************************************************************************)
BookFairness == \A r \in Reqs : WF_bvars(Handle(r))

RequestsAnswered == \A r \in Reqs : stage[r] = "asked" ~> stage[r] \in Store!Ended
=============================================================================
