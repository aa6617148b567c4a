----------------------------- MODULE Book_proofs -----------------------------
(***************************************************************************)
(* The book of profiles keeps what ProfileStore promises, whatever is      *)
(* asked, fails or crashes, and so it does under the page's dialog; proved *)
(* for any number of requests and any ids, profiles and passwords.         *)
(*                                                                         *)
(* The promise needs three facts that hold together: what memory and file  *)
(* have in common (MemoryIsFile), that who holds the mutex has prepared    *)
(* the list that its request makes of the book (Prepared), and that the    *)
(* temporary file is that list by the time it is renamed.                  *)
(*                                                                         *)
(* That passwords are kept needs the ids of every list to be distinct      *)
(* (IdsInv); that what was saved is selected needs what each slot of the   *)
(* page knows of the profile it waits for (SlotInv).                       *)
(***************************************************************************)
EXTENDS Dialog, SequenceTheorems, TLAPS

Prepared(r) ==
  stage[r] \in {"writing", "renaming"} =>
    /\ asked[r].op \in {"save", "delete"}
    /\ Store!Possible(list, asked[r])
    /\ \E new \in Ids : next = Store!Result(list, asked[r], new)
    /\ stage[r] = "renaming" => tmp = Whole(next)

BookInv ==
  /\ BookTypeOK
  /\ asked \in [Reqs -> Store!Requests \cup {Store!NoRequest}]
  /\ FileIsWhole
  /\ MemoryIsFile
  /\ \A r \in Reqs : Prepared(r)

-----------------------------------------------------------------------------
(***************************************************************************)
(* The invariant holds when the program has read the file                  *)
(* (profiles.go:220-233).                                                  *)
(***************************************************************************)
THEOREM BookInitInv == BookInit => BookInv
BY BookAssumption
DEF BookInit, BookInv, BookTypeOK, FileIsWhole, MemoryIsFile, Prepared, NoFile, Whole, Holding, Store!Ended

(* Only a request that creates a profile makes an id. *)
LEMMA NewIdMatters ==
  ASSUME NEW profiles0, NEW q, q.op \in {"save", "delete"}, ~Creates(q), NEW a, NEW b
  PROVE  Store!Result(profiles0, q, a) = Store!Result(profiles0, q, b)
BY DEF Store!Result, Creates

LEMMA KeepsAsk ==
  ASSUME BookInv, NEW r \in Reqs, NEW q \in Store!Requests, Ask(r, q)
  PROVE  BookInv'
<1>1. BookTypeOK'
  BY DEF BookInv, Ask, BookTypeOK, Holding, Store!Ended
<1>2. asked' \in [Reqs -> Store!Requests \cup {Store!NoRequest}]
  BY DEF BookInv, Ask
<1>3. MemoryIsFile' /\ FileIsWhole'
  BY DEF BookInv, Ask, BookTypeOK, MemoryIsFile, FileIsWhole
<1>4. ASSUME NEW s \in Reqs
      PROVE  Prepared(s)'
  BY DEF BookInv, Ask, BookTypeOK, Prepared
<1> QED
  BY <1>1, <1>2, <1>3, <1>4 DEF BookInv

LEMMA KeepsRefuse ==
  ASSUME BookInv, NEW r \in Reqs, Refuse(r)
  PROVE  BookInv'
<1>1. BookTypeOK'
  BY DEF BookInv, Refuse, BookTypeOK, Holding, Store!Ended
<1>2. asked' \in [Reqs -> Store!Requests \cup {Store!NoRequest}]
  BY DEF BookInv, Refuse
<1>3. MemoryIsFile' /\ FileIsWhole'
  BY DEF BookInv, Refuse, BookTypeOK, MemoryIsFile, FileIsWhole
<1>4. ASSUME NEW s \in Reqs
      PROVE  Prepared(s)'
  BY DEF BookInv, Refuse, BookTypeOK, Prepared
<1> QED
  BY <1>1, <1>2, <1>3, <1>4 DEF BookInv

LEMMA KeepsLock ==
  ASSUME BookInv, NEW r \in Reqs, Lock(r)
  PROVE  BookInv'
<1>1. BookTypeOK'
  <2>1. stage[r] = "asked" /\ mu = NoReq /\ mu' = r /\ stage' = [stage EXCEPT ![r] = "writing"]
        /\ UNCHANGED <<up, file, tmp>>
    BY DEF Lock
  <2>2. up
    BY DEF BookInv, BookTypeOK, Lock, Store!Ended
  <2> QED
    BY <2>1, <2>2, BookAssumption DEF BookInv, BookTypeOK, Holding, Store!Ended
<1>2. asked' \in [Reqs -> Store!Requests \cup {Store!NoRequest}]
  BY DEF BookInv, Lock
<1>3. MemoryIsFile' /\ FileIsWhole'
  BY BookAssumption DEF BookInv, Lock, BookTypeOK, MemoryIsFile, FileIsWhole
<1>4. \E new \in Ids : next' = Store!Result(list, asked[r], new)
  <2>1. CASE Creates(asked[r])
    <3>1. NewId \in Ids
      BY <2>1 DEF Lock, NewId
    <3> QED
      BY <3>1 DEF Lock
  <2>2. CASE ~Creates(asked[r])
    <3>1. PICK new \in Ids : TRUE
      BY BookAssumption
    <3>2. next' = Store!Result(list, asked[r], new)
      BY <2>2, NewIdMatters DEF Lock
    <3> QED
      BY <3>2
  <2> QED
    BY <2>1, <2>2
<1>5. ASSUME NEW s \in Reqs
      PROVE  Prepared(s)'
  <2>1. CASE s = r
    BY <1>4, <2>1 DEF BookInv, Lock, BookTypeOK, Prepared
  <2>2. CASE s # r
    BY <2>2, BookAssumption DEF BookInv, Lock, BookTypeOK, Holding, Prepared
  <2> QED
    BY <2>1, <2>2
<1> QED
  BY <1>1, <1>2, <1>3, <1>5 DEF BookInv

LEMMA KeepsWrite ==
  ASSUME BookInv, NEW r \in Reqs, Write(r)
  PROVE  BookInv'
<1>1. BookTypeOK'
  BY DEF BookInv, Write, BookTypeOK, Holding, Whole, Store!Ended
<1>2. asked' \in [Reqs -> Store!Requests \cup {Store!NoRequest}]
  BY DEF BookInv, Write
<1>3. MemoryIsFile' /\ FileIsWhole'
  BY DEF BookInv, Write, BookTypeOK, Holding, MemoryIsFile, FileIsWhole
<1>4. ASSUME NEW s \in Reqs
      PROVE  Prepared(s)'
  BY DEF BookInv, Write, BookTypeOK, Holding, Prepared
<1> QED
  BY <1>1, <1>2, <1>3, <1>4 DEF BookInv

LEMMA KeepsRename ==
  ASSUME BookInv, NEW r \in Reqs, Rename(r)
  PROVE  BookInv'
<1>0. tmp = Whole(next) /\ mu = r /\ up
  BY BookAssumption DEF BookInv, Rename, BookTypeOK, Holding, Prepared, Store!Ended
<1>1. BookTypeOK'
  BY <1>0 DEF BookInv, Rename, BookTypeOK, Holding, NoFile, Whole, Store!Ended
<1>2. asked' \in [Reqs -> Store!Requests \cup {Store!NoRequest}]
  BY DEF BookInv, Rename
<1>3. MemoryIsFile' /\ FileIsWhole'
  BY <1>0, BookAssumption DEF BookInv, Rename, BookTypeOK, MemoryIsFile, FileIsWhole, Whole
<1>4. ASSUME NEW s \in Reqs
      PROVE  Prepared(s)'
  BY <1>0 DEF BookInv, Rename, BookTypeOK, Holding, Prepared
<1> QED
  BY <1>1, <1>2, <1>3, <1>4 DEF BookInv

LEMMA KeepsFail ==
  ASSUME BookInv, NEW r \in Reqs, Fail(r)
  PROVE  BookInv'
<1>0. mu = r /\ up
  BY BookAssumption DEF BookInv, Fail, BookTypeOK, Holding, Store!Ended
<1>1. BookTypeOK'
  BY <1>0, BookAssumption DEF BookInv, Fail, BookTypeOK, Holding, Part, Store!Ended
<1>2. asked' \in [Reqs -> Store!Requests \cup {Store!NoRequest}]
  BY DEF BookInv, Fail
<1>3. MemoryIsFile' /\ FileIsWhole'
  BY <1>0 DEF BookInv, Fail, BookTypeOK, MemoryIsFile, FileIsWhole
<1>4. ASSUME NEW s \in Reqs
      PROVE  Prepared(s)'
  BY <1>0 DEF BookInv, Fail, BookTypeOK, Holding, Prepared
<1> QED
  BY <1>1, <1>2, <1>3, <1>4 DEF BookInv

LEMMA KeepsFinish ==
  ASSUME BookInv, NEW r \in Reqs, Finish(r)
  PROVE  BookInv'
<1>0. mu = r /\ up
  BY BookAssumption DEF BookInv, Finish, BookTypeOK, Holding, Store!Ended
<1>1. BookTypeOK'
  BY <1>0, BookAssumption DEF BookInv, Finish, BookTypeOK, Holding, Store!Ended
<1>2. asked' \in [Reqs -> Store!Requests \cup {Store!NoRequest}]
  BY DEF BookInv, Finish
<1>3. MemoryIsFile' /\ FileIsWhole'
  BY <1>0, BookAssumption DEF BookInv, Finish, BookTypeOK, MemoryIsFile, FileIsWhole
<1>4. ASSUME NEW s \in Reqs
      PROVE  Prepared(s)'
  BY <1>0 DEF BookInv, Finish, BookTypeOK, Holding, Prepared
<1> QED
  BY <1>1, <1>2, <1>3, <1>4 DEF BookInv

LEMMA KeepsList ==
  ASSUME BookInv, NEW r \in Reqs, List(r)
  PROVE  BookInv'
<1>1. BookTypeOK'
  BY DEF BookInv, List, BookTypeOK, Holding, Store!Ended
<1>2. asked' \in [Reqs -> Store!Requests \cup {Store!NoRequest}]
  BY DEF BookInv, List
<1>3. MemoryIsFile' /\ FileIsWhole'
  BY DEF BookInv, List, BookTypeOK, MemoryIsFile, FileIsWhole
<1>4. ASSUME NEW s \in Reqs
      PROVE  Prepared(s)'
  BY DEF BookInv, List, BookTypeOK, Prepared
<1> QED
  BY <1>1, <1>2, <1>3, <1>4 DEF BookInv

LEMMA KeepsTaken ==
  ASSUME BookInv, NEW r \in Reqs, Taken(r)
  PROVE  BookInv'
<1>1. BookTypeOK'
  BY DEF BookInv, Taken, BookTypeOK, Holding, Store!Ended
<1>2. asked' \in [Reqs -> Store!Requests \cup {Store!NoRequest}]
  BY DEF BookInv, Taken
<1>3. MemoryIsFile' /\ FileIsWhole'
  BY DEF BookInv, Taken, BookTypeOK, MemoryIsFile, FileIsWhole
<1>4. ASSUME NEW s \in Reqs
      PROVE  Prepared(s)'
  BY DEF BookInv, Taken, BookTypeOK, Prepared
<1> QED
  BY <1>1, <1>2, <1>3, <1>4 DEF BookInv

LEMMA KeepsCrash ==
  ASSUME BookInv, Crash
  PROVE  BookInv'
<1>0. stage' \in [Reqs -> Store!Ended]
  BY DEF BookInv, Crash, Store!Ended
<1>1. BookTypeOK'
  <2>1. tmp'.kind \in {"none", "part", "whole"}
    BY DEF BookInv, Crash, BookTypeOK, Part, Whole
  <2> QED
    BY <1>0, <2>1, BookAssumption DEF BookInv, Crash, BookTypeOK, Holding, Store!Ended
<1>2. MemoryIsFile' /\ FileIsWhole'
  BY DEF BookInv, Crash, MemoryIsFile, FileIsWhole
<1>3. ASSUME NEW s \in Reqs
      PROVE  Prepared(s)'
  BY <1>0 DEF Prepared, Store!Ended
<1> QED
  BY <1>1, <1>2, <1>3 DEF BookInv, Crash

LEMMA KeepsRestart ==
  ASSUME BookInv, Restart
  PROVE  BookInv'
<1>0. mu = NoReq
  BY DEF BookInv, Restart, BookTypeOK, Holding, Store!Ended
<1>1. BookTypeOK' /\ MemoryIsFile' /\ FileIsWhole'
  BY <1>0 DEF BookInv, Restart, BookTypeOK, MemoryIsFile, FileIsWhole, Holding, Store!Ended
<1>2. ASSUME NEW s \in Reqs
      PROVE  Prepared(s)'
  BY <1>0, BookAssumption DEF BookInv, Restart, BookTypeOK, Holding, Prepared
<1> QED
  BY <1>1, <1>2 DEF BookInv, Restart

(***************************************************************************)
(* The invariant holds after every step.                                   *)
(***************************************************************************)
THEOREM BookStep == BookInv /\ [BookNext]_bvars => BookInv'
<1> SUFFICES ASSUME BookInv, [BookNext]_bvars
             PROVE  BookInv'
  OBVIOUS
<1>1. ASSUME NEW r \in Reqs, NEW q \in Store!Requests, Ask(r, q)
      PROVE  BookInv'
  BY <1>1, KeepsAsk
<1>2. ASSUME NEW r \in Reqs, Handle(r) \/ Taken(r)
      PROVE  BookInv'
  BY <1>2, KeepsRefuse, KeepsLock, KeepsWrite, KeepsRename, KeepsFail, KeepsFinish, KeepsList, KeepsTaken
  DEF Handle
<1>3. CASE UNCHANGED bvars
  BY <1>3 DEF bvars, BookInv, BookTypeOK, FileIsWhole, MemoryIsFile, Prepared
<1> QED
  BY <1>1, <1>2, <1>3, KeepsCrash, KeepsRestart DEF BookNext

(***************************************************************************)
(* The invariant holds in every state of the book.                         *)
(***************************************************************************)
THEOREM BookHolds == BookSpec => []BookInv
BY BookInitInv, BookStep, PTL DEF BookSpec

(***************************************************************************)
(* The file is never part of a list, whatever fails and whenever the       *)
(* process dies (profiles.go:297).                                         *)
(***************************************************************************)
THEOREM BookFileIsWhole == BookSpec => []FileIsWhole
BY BookHolds, PTL DEF BookInv

(***************************************************************************)
(* Memory and file agree, also after a write that failed                   *)
(* (profiles.go:275-278, 290-293).                                         *)
(***************************************************************************)
THEOREM BookMemoryIsFile == BookSpec => []MemoryIsFile
BY BookHolds, PTL DEF BookInv

-----------------------------------------------------------------------------
(* How far a request is, seen from the promise. *)
Seen(s) ==
  CASE s \in {"writing", "renaming"} -> "asked"
    [] s = "renamed" -> "applied"
    [] OTHER -> s

LEMMA SeenStage == AbsStage = [r \in Reqs |-> Seen(stage[r])]
BY DEF AbsStage, Seen

LEMMA SeenStep ==
  ASSUME BookTypeOK, NEW r \in Reqs, NEW s, stage' = [stage EXCEPT ![r] = s]
  PROVE  AbsStage' = [AbsStage EXCEPT ![r] = Seen(s)]
<1>1. AbsStage' = [q \in Reqs |-> Seen(stage'[q])]
  BY DEF AbsStage, Seen
<1>2. \A q \in Reqs : stage'[q] = IF q = r THEN s ELSE stage[q]
  BY DEF BookTypeOK
<1> QED
  BY <1>1, <1>2, SeenStage

LEMMA SeenValues ==
  /\ \A s \in {"asked", "writing", "renaming"} : Seen(s) = "asked"
  /\ Seen("renamed") = "applied"
  /\ \A s \in Store!Ended : Seen(s) = s
BY DEF Seen, Store!Ended

LEMMA SeenSame ==
  ASSUME BookTypeOK, NEW r \in Reqs, NEW s, stage' = [stage EXCEPT ![r] = s], Seen(s) = Seen(stage[r])
  PROVE  AbsStage' = AbsStage
<1>1. AbsStage' = [AbsStage EXCEPT ![r] = Seen(s)]
  BY SeenStep
<1>2. AbsStage[r] = Seen(s)
  BY SeenStage
<1> QED
  BY <1>1, <1>2, SeenStage

LEMMA RenameApplies ==
  ASSUME BookInv, NEW r \in Reqs, Rename(r)
  PROVE  Store!Apply(r)
<1>1. /\ mu = r /\ up
      /\ asked[r].op \in {"save", "delete"}
      /\ Store!Possible(list, asked[r])
      /\ \E new \in Ids : next = Store!Result(list, asked[r], new)
      /\ tmp = Whole(next)
  BY BookAssumption DEF BookInv, Rename, BookTypeOK, Holding, Prepared, Store!Ended
<1>2. file.list = list
  BY <1>1, BookAssumption DEF BookInv, MemoryIsFile, Rename
<1>3. file'.list = next
  BY <1>1 DEF Rename, Whole
<1>4. AbsStage' = [AbsStage EXCEPT ![r] = "applied"]
  <2>1. stage' = [stage EXCEPT ![r] = "renamed"] /\ BookTypeOK
    BY DEF Rename, BookInv
  <2>2. AbsStage' = [AbsStage EXCEPT ![r] = Seen("renamed")]
    BY <2>1, SeenStep
  <2> QED
    BY <2>2, SeenValues
<1>5. AbsStage[r] = "asked"
  BY SeenStage, SeenValues DEF Rename
<1> QED
  BY <1>1, <1>2, <1>3, <1>4, <1>5 DEF Rename, Store!Apply

LEMMA HandleKeepsPromise ==
  ASSUME BookInv, NEW r \in Reqs, Handle(r)
  PROVE  [Store!Next]_(Store!svars)
<1> USE SeenStage, SeenValues
<1>1. CASE Refuse(r)
  <2>1. BookTypeOK /\ stage' = [stage EXCEPT ![r] = "error"]
    BY <1>1 DEF Refuse, BookInv
  <2>2. AbsStage' = [AbsStage EXCEPT ![r] = Seen("error")]
    BY <2>1, SeenStep
  <2>3. Seen("error") = "error" /\ AbsStage[r] = "asked"
    BY <1>1 DEF Refuse, Store!Ended
  <2>4. AbsStage' = [AbsStage EXCEPT ![r] = "error"] /\ AbsStage[r] = "asked"
    BY <2>2, <2>3
  <2> QED
    BY <1>1, <2>4 DEF Refuse, Store!Refuse, Store!Next
<1>2. CASE Lock(r)
  <2>1. AbsStage' = AbsStage
    BY <1>2, SeenSame DEF Lock, BookInv
  <2> QED
    BY <1>2, <2>1 DEF Lock, Store!svars
<1>3. CASE Write(r)
  <2>1. AbsStage' = AbsStage
    BY <1>3, SeenSame DEF Write, BookInv
  <2> QED
    BY <1>3, <2>1 DEF Write, Store!svars
<1>4. CASE Rename(r)
  BY <1>4, RenameApplies DEF Store!Next
<1>5. CASE Fail(r)
  <2>1. BookTypeOK /\ stage' = [stage EXCEPT ![r] = "error"]
    BY <1>5 DEF Fail, BookInv
  <2>2. AbsStage' = [AbsStage EXCEPT ![r] = Seen("error")]
    BY <2>1, SeenStep
  <2>3. Seen("error") = "error" /\ AbsStage[r] = "asked"
    BY <1>5 DEF Fail, Store!Ended
  <2>4. AbsStage' = [AbsStage EXCEPT ![r] = "error"] /\ AbsStage[r] = "asked"
    BY <2>2, <2>3
  <2> QED
    BY <1>5, <2>4 DEF Fail, Store!Refuse, Store!Next
<1>6. CASE Finish(r)
  <2>1. BookTypeOK /\ stage' = [stage EXCEPT ![r] = "ok"]
    BY <1>6 DEF Finish, BookInv
  <2>2. AbsStage' = [AbsStage EXCEPT ![r] = Seen("ok")]
    BY <2>1, SeenStep
  <2>3. Seen("ok") = "ok" /\ AbsStage[r] = "applied"
    BY <1>6 DEF Finish, Store!Ended
  <2>4. AbsStage' = [AbsStage EXCEPT ![r] = "ok"] /\ AbsStage[r] = "applied"
    BY <2>2, <2>3
  <2> QED
    BY <1>6, <2>4 DEF Finish, Store!Answer, Store!Next
<1>7. CASE List(r)
  <2>1. BookTypeOK /\ stage' = [stage EXCEPT ![r] = "ok"]
    BY <1>7 DEF List, BookInv
  <2>2. AbsStage' = [AbsStage EXCEPT ![r] = Seen("ok")]
    BY <2>1, SeenStep
  <2>3. Seen("ok") = "ok" /\ AbsStage[r] = "asked"
    BY <1>7 DEF List, Store!Ended
  <2>4. AbsStage' = [AbsStage EXCEPT ![r] = "ok"] /\ AbsStage[r] = "asked"
    BY <2>2, <2>3
  <2>5. up
    BY <1>7 DEF List, BookInv, BookTypeOK, Store!Ended
  <2>6. list = file.list
    BY <1>7, <2>5 DEF List, BookInv, MemoryIsFile
  <2> QED
    BY <1>7, <2>4, <2>6 DEF List, Store!Read, Store!Next
<1> QED
  BY <1>1, <1>2, <1>3, <1>4, <1>5, <1>6, <1>7 DEF Handle

LEMMA CrashKeepsPromise ==
  ASSUME BookInv, Crash
  PROVE  Store!Crash
<1>1. \A s \in Store!Ended \cup {"asked"} \cup Holding :
        IF Seen(s) \in Store!Ended THEN s \in Store!Ended /\ Seen(s) = s ELSE s \notin Store!Ended
  BY DEF Seen, Store!Ended, Holding
<1>2. \A r \in Reqs : Seen(stage'[r]) = IF Seen(stage[r]) \in Store!Ended THEN Seen(stage[r]) ELSE "lost"
  <2> SUFFICES ASSUME NEW r \in Reqs
               PROVE  Seen(stage'[r]) = IF Seen(stage[r]) \in Store!Ended THEN Seen(stage[r]) ELSE "lost"
    OBVIOUS
  <2>1. stage[r] \in Store!Ended \cup {"asked"} \cup Holding
    BY DEF BookInv, BookTypeOK
  <2>2. stage'[r] = IF stage[r] \in Store!Ended THEN stage[r] ELSE "lost"
    BY DEF Crash
  <2>3. Seen("lost") = "lost"
    BY DEF Seen
  <2> QED
    BY <1>1, <2>1, <2>2, <2>3
<1>3. AbsStage' = [r \in Reqs |-> Seen(stage'[r])]
  BY DEF AbsStage, Seen
<1>4. AbsStage' = [r \in Reqs |-> IF AbsStage[r] \in Store!Ended THEN AbsStage[r] ELSE "lost"]
  BY <1>2, <1>3, SeenStage
<1> QED
  BY <1>4 DEF Crash, Store!Crash

LEMMA StepKeepsPromise == BookInv /\ [BookNext]_bvars => [Store!Next]_(Store!svars)
<1> SUFFICES ASSUME BookInv, [BookNext]_bvars
             PROVE  [Store!Next]_(Store!svars)
  OBVIOUS
<1> USE SeenStage, SeenValues
<1>1. ASSUME NEW r \in Reqs, NEW q \in Store!Requests, Ask(r, q)
      PROVE  Store!Next
  <2>1. BookTypeOK /\ stage' = [stage EXCEPT ![r] = "asked"]
    BY <1>1 DEF Ask, BookInv
  <2>2. AbsStage' = [AbsStage EXCEPT ![r] = Seen("asked")]
    BY <2>1, SeenStep
  <2>3. Seen("asked") = "asked" /\ AbsStage[r] = "idle"
    BY <1>1 DEF Ask, Store!Ended
  <2>4. AbsStage' = [AbsStage EXCEPT ![r] = "asked"] /\ AbsStage[r] = "idle"
    BY <2>2, <2>3
  <2> QED
    BY <1>1, <2>4 DEF Ask, Store!Ask, Store!Next
<1>2. ASSUME NEW r \in Reqs, Taken(r)
      PROVE  Store!Next
  <2>1. BookTypeOK /\ stage' = [stage EXCEPT ![r] = "idle"]
    BY <1>2 DEF Taken, BookInv
  <2>2. AbsStage' = [AbsStage EXCEPT ![r] = Seen("idle")]
    BY <2>1, SeenStep
  <2>3. Seen("idle") = "idle" /\ AbsStage[r] = stage[r]
    BY <1>2 DEF Taken, Store!Ended
  <2>4. AbsStage' = [AbsStage EXCEPT ![r] = "idle"] /\ AbsStage[r] = stage[r]
    BY <2>2, <2>3
  <2> QED
    BY <1>2, <2>4 DEF Taken, Store!Taken, Store!Next
<1>3. CASE Crash
  BY <1>3, CrashKeepsPromise DEF Store!Next
<1>4. CASE Restart
  BY <1>4 DEF Restart, AbsStage, Store!svars
<1>5. CASE UNCHANGED bvars
  BY <1>5 DEF bvars, AbsStage, Store!svars
<1> QED
  BY <1>1, <1>2, <1>3, <1>4, <1>5, HandleKeepsPromise DEF BookNext

LEMMA InitKeepsPromise == BookInit => Store!Init
<1> SUFFICES ASSUME BookInit
             PROVE  Store!Init
  OBVIOUS
<1>1. AbsStage = [r \in Reqs |-> "idle"]
  BY DEF BookInit, AbsStage
<1>2. file.list \in {<<>>, Stored}
  BY DEF BookInit, NoFile, Whole
<1> QED
  BY <1>1, <1>2 DEF BookInit, Store!Init

(***************************************************************************)
(* The book implements what it promises: every request takes effect at     *)
(* once and as a whole, or not at all (profiles.go:254-313).               *)
(***************************************************************************)
THEOREM BookKeepsItsPromise == BookSpec => KeepsItsPromise
<1>1. BookInit => Store!Init
  BY InitKeepsPromise
<1>2. BookInv /\ [BookNext]_bvars => [Store!Next]_(Store!svars)
  BY StepKeepsPromise
<1> QED
  BY <1>1, <1>2, BookHolds, PTL DEF BookSpec, KeepsItsPromise, Store!Spec

-----------------------------------------------------------------------------
(***************************************************************************)
(* The page does nothing to the book but send it requests, so that all of  *)
(* this holds under the dialog as well.                                    *)
(***************************************************************************)
LEMMA DialogStep == [Next]_vars => [BookNext]_bvars
<1> SUFFICES ASSUME [Next]_vars
             PROVE  [BookNext]_bvars
  OBVIOUS
<1>1. ASSUME User
      PROVE  [BookNext]_bvars
  <2>1. CASE New \/ Edit \/ Cancel \/ ArmDelete
    BY <2>1 DEF New, Edit, OpenDialog, Cancel, ArmDelete
  <2>2. ASSUME NEW r \in Reqs, NEW rest \in Rests, NEW password \in Passwords \cup {NoPassword},
               NEW clear \in BOOLEAN, Submit(r, rest, password, clear)
        PROVE  BookNext
    BY <2>2 DEF Submit, Send, Ask, BookNext
  <2>3. ASSUME NEW r \in Reqs, ConfirmDelete(r)
        PROVE  BookNext
    BY <2>3 DEF ConfirmDelete, Send, Ask, BookNext
  <2>4. ASSUME NEW id \in used, Choose(id)
        PROVE  UNCHANGED bvars
    BY <2>4 DEF Choose
  <2>5. ASSUME NEW r \in Reqs, NEW op \in {"save", "delete"}, NEW id \in used, Elsewhere(r, op, id)
        PROVE  BookNext
    BY <2>5 DEF Elsewhere, Send, Ask, BookNext
  <2> QED
    BY <1>1, <2>1, <2>2, <2>3, <2>4, <2>5 DEF User
<1>2. CASE Disarm
  BY <1>2 DEF Disarm
<1>3. CASE Server
  BY <1>3 DEF Server, BookNext
<1>4. ASSUME NEW r \in Reqs,
             Saved(r) \/ Deleted(r) \/ Loading(r) \/ Loaded(r) \/ Failed(r) \/ Done(r)
      PROVE  BookNext
  <2>1. CASE Loading(r)
    BY <2>1 DEF Loading, Send, Ask, BookNext
  <2>2. CASE ~Loading(r)
    BY <1>4, <2>2 DEF Saved, Deleted, Load, Loaded, Failed, Done, Leave, BookNext
  <2> QED
    BY <2>1, <2>2
<1>5. CASE UNCHANGED vars
  BY <1>5 DEF vars
<1> QED
  BY <1>1, <1>2, <1>3, <1>4, <1>5 DEF Next

(***************************************************************************)
(* What the browser's page does with the book is what anyone may do.       *)
(***************************************************************************)
THEOREM DialogUsesTheBook == Spec => BookSpec
<1>1. Init => BookInit
  BY DEF Init
<1> QED
  BY <1>1, DialogStep, PTL DEF Spec, BookSpec

(***************************************************************************)
(* The book's properties under the dialog (profiles.go:254-313).           *)
(***************************************************************************)
THEOREM DialogKeepsTheBook == Spec => []FileIsWhole /\ []MemoryIsFile /\ KeepsItsPromise
BY DialogUsesTheBook, BookFileIsWhole, BookMemoryIsFile, BookKeepsItsPromise, PTL

-----------------------------------------------------------------------------
(* The button is only armed in a dialog in which it was clicked. *)
ArmedHere == open /\ armed => sure

LEMMA ArmedHereStep == ArmedHere /\ [Next]_vars => ArmedHere'
<1> SUFFICES ASSUME ArmedHere, [Next]_vars
             PROVE  ArmedHere'
  OBVIOUS
<1>1. CASE User
  BY <1>1 DEF User, New, Edit, OpenDialog, Cancel, ArmDelete, Submit, ConfirmDelete, Choose, Elsewhere, ArmedHere
<1>2. CASE Disarm
  BY <1>2 DEF Disarm, ArmedHere
<1>3. CASE Server
  BY <1>3 DEF Server, dvars, page, ArmedHere
<1>4. ASSUME NEW r \in Reqs,
             Saved(r) \/ Deleted(r) \/ Loading(r) \/ Loaded(r) \/ Failed(r) \/ Done(r)
      PROVE  ArmedHere'
  BY <1>4 DEF Saved, Deleted, Load, Loading, Loaded, Failed, Done, ArmedHere
<1>5. CASE UNCHANGED vars
  BY <1>5 DEF vars, dvars, page, ArmedHere
<1> QED
  BY <1>1, <1>2, <1>3, <1>4, <1>5 DEF Next

(***************************************************************************)
(* A connection is only deleted by the second click in the same dialog     *)
(* (app.js:63-84, 1117).                                                   *)
(***************************************************************************)
THEOREM DialogConfirms == Spec => DeleteWasConfirmed
<1>1. Init => ArmedHere
  BY DEF Init, ArmedHere
<1>2. ArmedHere /\ [Next]_vars => [\A r \in Reqs : ConfirmDelete(r) => sure]_vars
  BY DEF ArmedHere, ConfirmDelete
<1> QED
  BY <1>1, <1>2, ArmedHereStep, PTL DEF Spec, DeleteWasConfirmed

-----------------------------------------------------------------------------
(* A list of profiles with ids that were made, no two with the same one. *)
Distinct(l, made) ==
  /\ l \in Seq(Profile)
  /\ \A i, j \in DOMAIN l : l[i].id = l[j].id => i = j
  /\ \A i \in DOMAIN l : l[i].id \in made

LEMMA DistinctGrows ==
  ASSUME NEW l, NEW a, NEW b, a \subseteq b, Distinct(l, a)
  PROVE  Distinct(l, b)
BY DEF Distinct

LEMMA DistinctEmpty ==
  ASSUME NEW made
  PROVE  Distinct(<<>>, made)
BY EmptySeq DEF Distinct

(* An id that is in the list is found, and where it is. *)
LEMMA IndexFinds ==
  ASSUME NEW made, NEW l, Distinct(l, made), NEW id, Store!Has(l, id)
  PROVE  /\ Store!IndexOf(l, id) \in 1..Len(l)
         /\ l[Store!IndexOf(l, id)].id = id
<1>1. DOMAIN l = 1..Len(l) /\ Len(l) \in Nat
  BY LenProperties DEF Distinct
<1>2. PICK i \in DOMAIN l : l[i].id = id
  BY DEF Store!Has
<1>3. \A j \in 1..(i - 1) : l[j].id # id
  <2> SUFFICES ASSUME NEW j \in 1..(i - 1), l[j].id = id
               PROVE  FALSE
    OBVIOUS
  <2>1. j \in DOMAIN l /\ j # i
    BY <1>1, <1>2
  <2> QED
    BY <2>1, <1>2 DEF Distinct
<1>4. Store!IndexOf(l, id) \in DOMAIN l /\ l[Store!IndexOf(l, id)].id = id
  BY <1>2, <1>3 DEF Store!IndexOf
<1> QED
  BY <1>1, <1>4

(* The list without its i-th profile. *)
Without(l, i) == SubSeq(l, 1, i - 1) \o SubSeq(l, i + 1, Len(l))

LEMMA WithoutIs ==
  ASSUME NEW S, NEW l \in Seq(S), NEW i \in 1..Len(l)
  PROVE  /\ Without(l, i) \in Seq(S)
         /\ Len(Without(l, i)) = Len(l) - 1
         /\ \A j \in 1..(Len(l) - 1) : Without(l, i)[j] = IF j < i THEN l[j] ELSE l[j + 1]
<1>1. Len(l) \in Nat /\ \A j \in 1..Len(l) : l[j] \in S
  BY LenProperties, ElementOfSeq
<1> DEFINE front == SubSeq(l, 1, i - 1)
           back == SubSeq(l, i + 1, Len(l))
<1>2. front \in Seq(S) /\ Len(front) = i - 1 /\ \A j \in 1..(i - 1) : front[j] = l[j]
  <2>1. \A j \in 1..(i - 1) : l[j] \in S
    BY <1>1
  <2>2. /\ front \in Seq(S)
        /\ Len(front) = IF 1 <= i - 1 THEN (i - 1) - 1 + 1 ELSE 0
        /\ \A j \in 1..((i - 1) - 1 + 1) : front[j] = l[1 + j - 1]
    BY <2>1, SubSeqProperties
  <2> QED
    BY <2>2, <1>1
<1>3. /\ back \in Seq(S) /\ Len(back) = Len(l) - i
      /\ \A j \in 1..(Len(l) - i) : back[j] = l[i + j]
  <2>1. \A j \in (i + 1)..Len(l) : l[j] \in S
    BY <1>1
  <2>2. /\ back \in Seq(S)
        /\ Len(back) = IF i + 1 <= Len(l) THEN Len(l) - (i + 1) + 1 ELSE 0
        /\ \A j \in 1..(Len(l) - (i + 1) + 1) : back[j] = l[(i + 1) + j - 1]
    <3>1. i + 1 \in Int /\ Len(l) \in Int
      BY <1>1
    <3> QED
      BY <2>1, <3>1, SubSeqProperties
  <2>3. \A j \in 1..(Len(l) - i) : back[j] = l[i + j]
    <3> SUFFICES ASSUME NEW j \in 1..(Len(l) - i)
                 PROVE  back[j] = l[i + j]
      OBVIOUS
    <3>1. j \in 1..(Len(l) - (i + 1) + 1) /\ (i + 1) + j - 1 = i + j
      BY <1>1
    <3> HIDE DEF back
    <3> QED
      BY <2>2, <3>1
  <2> HIDE DEF back
  <2> QED
    BY <2>2, <2>3, <1>1
<1> HIDE DEF front, back
<1>4. /\ front \o back \in Seq(S)
      /\ Len(front \o back) = Len(front) + Len(back)
      /\ \A j \in 1..(Len(front) + Len(back)) : (front \o back)[j] =
           IF j <= Len(front) THEN front[j] ELSE back[j - Len(front)]
  BY <1>2, <1>3, ConcatProperties
<1>5. \A j \in 1..(Len(l) - 1) : (front \o back)[j] = IF j < i THEN l[j] ELSE l[j + 1]
  <2> SUFFICES ASSUME NEW j \in 1..(Len(l) - 1)
               PROVE  (front \o back)[j] = IF j < i THEN l[j] ELSE l[j + 1]
    OBVIOUS
  <2>1. j \in 1..(Len(front) + Len(back))
    BY <1>1, <1>2, <1>3
  <2>2. CASE j < i
    BY <2>1, <2>2, <1>1, <1>2, <1>4
  <2>3. CASE ~(j < i)
    <3>1. j - (i - 1) \in 1..(Len(l) - i) /\ i + (j - (i - 1)) = j + 1
      BY <2>3, <1>1
    <3>2. back[j - (i - 1)] = l[j + 1]
      BY <3>1, <1>3
    <3> QED
      BY <2>1, <2>3, <3>2, <1>1, <1>2, <1>4
  <2> QED
    BY <2>2, <2>3
<1>6. Len(front \o back) = Len(l) - 1
  BY <1>1, <1>2, <1>3, <1>4
<1> QED
  BY <1>4, <1>5, <1>6 DEF Without, front, back

(***************************************************************************)
(* What a delete, a creation and an update make of the list                *)
(* (profiles.go:254-295).                                                  *)
(***************************************************************************)
LEMMA DeleteResult ==
  ASSUME NEW made, NEW l, Distinct(l, made), NEW q, q.op = "delete", Store!Has(l, q.id), NEW new
  PROVE  \E i \in 1..Len(l) :
           /\ l[i].id = q.id
           /\ Store!Result(l, q, new) \in Seq(Profile)
           /\ Len(Store!Result(l, q, new)) = Len(l) - 1
           /\ \A j \in 1..(Len(l) - 1) :
                Store!Result(l, q, new)[j] = IF j < i THEN l[j] ELSE l[j + 1]
<1> DEFINE i == Store!IndexOf(l, q.id)
<1>1. i \in 1..Len(l) /\ l[i].id = q.id
  BY IndexFinds
<1>2. Store!Result(l, q, new) = Without(l, i)
  BY DEF Store!Result, Without
<1>3. l \in Seq(Profile)
  BY DEF Distinct
<1> HIDE DEF i
<1>4. /\ Without(l, i) \in Seq(Profile)
      /\ Len(Without(l, i)) = Len(l) - 1
      /\ \A j \in 1..(Len(l) - 1) : Without(l, i)[j] = IF j < i THEN l[j] ELSE l[j + 1]
  BY <1>1, <1>3, WithoutIs
<1> QED
  BY <1>1, <1>2, <1>4

LEMMA CreateResult ==
  ASSUME NEW made, NEW l, Distinct(l, made), NEW q \in Store!Requests, Creates(q), NEW new \in Ids
  PROVE  /\ Store!Result(l, q, new) \in Seq(Profile)
         /\ Len(Store!Result(l, q, new)) = Len(l) + 1
         /\ \A j \in 1..Len(l) : Store!Result(l, q, new)[j] = l[j]
         /\ Store!Result(l, q, new)[Len(l) + 1].id = new
<1> DEFINE p == [id |-> new, rest |-> q.rest, password |-> q.password]
<1>1. p \in Profile
  BY DEF Store!Requests, Profile
<1>2. Store!Result(l, q, new) = Append(l, p)
  BY DEF Store!Result, Creates
<1>3. p.id = new
  OBVIOUS
<1>4. l \in Seq(Profile)
  BY DEF Distinct
<1> HIDE DEF p
<1> QED
  BY <1>1, <1>2, <1>3, <1>4, AppendProperties

LEMMA UpdateResult ==
  ASSUME NEW made, NEW l, Distinct(l, made), NEW q \in Store!Requests,
         q.op = "save", q.id # NoId, Store!Has(l, q.id), NEW new
  PROVE  \E i \in 1..Len(l) :
           /\ l[i].id = q.id
           /\ Store!Result(l, q, new) \in Seq(Profile)
           /\ Len(Store!Result(l, q, new)) = Len(l)
           /\ \A j \in 1..Len(l) : j # i => Store!Result(l, q, new)[j] = l[j]
           /\ Store!Result(l, q, new)[i].id = q.id
           /\ q.password = NoPassword /\ ~q.clear
                => Store!Result(l, q, new)[i].password = l[i].password
<1> DEFINE i == Store!IndexOf(l, q.id)
           keeps == q.password = NoPassword /\ ~q.clear
           p == [id |-> q.id, rest |-> q.rest,
                 password |-> IF keeps THEN l[i].password ELSE q.password]
<1>1. i \in 1..Len(l) /\ l[i].id = q.id
  BY IndexFinds
<1>2. Store!Result(l, q, new) = [l EXCEPT ![i] = p]
  BY DEF Store!Result
<1>3. l \in Seq(Profile)
  BY DEF Distinct
<1>4. l[i] \in Profile
  BY <1>1, <1>3, ElementOfSeq
<1>5. q.id \in Ids /\ q.rest \in Rests /\ q.password \in Passwords \cup {NoPassword}
  BY DEF Store!Requests
<1>6. l[i].password \in Passwords \cup {NoPassword}
  BY <1>4 DEF Profile
<1>7. p \in Profile /\ p.id = q.id
  BY <1>5, <1>6 DEF Profile
<1>8. keeps => p.password = l[i].password
  OBVIOUS
<1> HIDE DEF i, p
<1>9. /\ [l EXCEPT ![i] = p] \in Seq(Profile)
      /\ Len([l EXCEPT ![i] = p]) = Len(l)
      /\ \A j \in 1..Len(l) : [l EXCEPT ![i] = p][j] = IF j = i THEN p ELSE l[j]
  BY <1>1, <1>3, <1>7, ExceptSeq
<1> QED
  BY <1>1, <1>2, <1>7, <1>8, <1>9

(***************************************************************************)
(* The ids stay distinct: a new one was never made before.                 *)
(***************************************************************************)
LEMMA ResultDistinct ==
  ASSUME NEW made, NEW l, Distinct(l, made),
         NEW q \in Store!Requests, q.op \in {"save", "delete"}, Store!Possible(l, q),
         NEW new \in Ids, Creates(q) => new \notin made
  PROVE  Distinct(Store!Result(l, q, new), IF Creates(q) THEN made \cup {new} ELSE made)
<1> DEFINE n == Store!Result(l, q, new)
<1>0. DOMAIN l = 1..Len(l) /\ Len(l) \in Nat
  BY LenProperties DEF Distinct
<1>1. /\ \A i, j \in 1..Len(l) : l[i].id = l[j].id => i = j
      /\ \A i \in 1..Len(l) : l[i].id \in made
  BY <1>0 DEF Distinct
<1>2. CASE Creates(q)
  <2>1. /\ n \in Seq(Profile) /\ Len(n) = Len(l) + 1
        /\ \A j \in 1..Len(l) : n[j] = l[j]
        /\ n[Len(l) + 1].id = new
    BY <1>2, CreateResult
  <2> HIDE DEF n
  <2>2. DOMAIN n = 1..(Len(l) + 1)
    BY <2>1, LenProperties
  <2>3. \A j \in 1..(Len(l) + 1) : j \in 1..Len(l) \/ j = Len(l) + 1
    BY <1>0
  <2>4. \A j \in 1..Len(l) : n[j].id \in made
    BY <1>1, <2>1
  <2>5. new \notin made
    BY <1>2
  <2>6. ASSUME NEW i \in DOMAIN n, NEW j \in DOMAIN n, n[i].id = n[j].id
        PROVE  i = j
    <3>1. CASE i \in 1..Len(l) /\ j \in 1..Len(l)
      BY <1>1, <2>1, <2>6, <3>1
    <3>2. CASE i = Len(l) + 1 /\ j \in 1..Len(l)
      BY <2>1, <2>4, <2>5, <2>6, <3>2
    <3>3. CASE j = Len(l) + 1 /\ i \in 1..Len(l)
      BY <2>1, <2>4, <2>5, <2>6, <3>3
    <3> QED
      BY <2>2, <2>3, <3>1, <3>2, <3>3
  <2>7. ASSUME NEW i \in DOMAIN n
        PROVE  n[i].id \in made \cup {new}
    BY <2>1, <2>2, <2>3, <2>4
  <2>8. Distinct(n, made \cup {new})
    BY <2>1, <2>6, <2>7 DEF Distinct
  <2> QED
    BY <1>2, <2>8 DEF n
<1>3. CASE q.op = "delete"
  <2>1. Store!Has(l, q.id)
    BY <1>3 DEF Store!Possible
  <2>2. PICK k \in 1..Len(l) :
          /\ n \in Seq(Profile) /\ Len(n) = Len(l) - 1
          /\ \A j \in 1..(Len(l) - 1) : n[j] = IF j < k THEN l[j] ELSE l[j + 1]
    BY <1>3, <2>1, DeleteResult
  <2> HIDE DEF n
  <2>3. DOMAIN n = 1..(Len(l) - 1)
    BY <2>2, LenProperties
  <2> DEFINE was(j) == IF j < k THEN j ELSE j + 1
  <2>4. \A j \in 1..(Len(l) - 1) : was(j) \in 1..Len(l) /\ n[j] = l[was(j)]
    BY <1>0, <2>2
  <2>5. \A i, j \in 1..(Len(l) - 1) : was(i) = was(j) => i = j
    BY <1>0
  <2> HIDE DEF was
  <2>6. Distinct(n, made)
    BY <1>1, <2>2, <2>3, <2>4, <2>5 DEF Distinct
  <2> QED
    BY <1>3, <2>6 DEF n, Creates
<1>4. CASE q.op = "save" /\ q.id # NoId
  <2>1. Store!Has(l, q.id)
    BY <1>4 DEF Store!Possible
  <2>2. PICK k \in 1..Len(l) :
          /\ l[k].id = q.id
          /\ n \in Seq(Profile) /\ Len(n) = Len(l)
          /\ \A j \in 1..Len(l) : j # k => n[j] = l[j]
          /\ n[k].id = q.id
    BY <1>4, <2>1, UpdateResult
  <2> HIDE DEF n
  <2>3. DOMAIN n = 1..Len(l)
    BY <2>2, LenProperties
  <2>4. \A j \in 1..Len(l) : n[j].id = l[j].id
    BY <2>2
  <2>5. Distinct(n, made)
    BY <1>1, <2>2, <2>3, <2>4 DEF Distinct
  <2> QED
    BY <1>4, <2>5 DEF n, Creates
<1> QED
  BY <1>2, <1>3, <1>4 DEF Creates

(***************************************************************************)
(* Only the profile that is deleted leaves the list.                       *)
(***************************************************************************)
LEMMA ResultKeeps ==
  ASSUME NEW made, NEW l, Distinct(l, made),
         NEW q \in Store!Requests, q.op \in {"save", "delete"}, Store!Possible(l, q),
         NEW new \in Ids, NEW id, Store!Has(l, id), q.op = "delete" => q.id # id
  PROVE  Store!Has(Store!Result(l, q, new), id)
<1> DEFINE n == Store!Result(l, q, new)
<1>0. DOMAIN l = 1..Len(l) /\ Len(l) \in Nat
  BY LenProperties DEF Distinct
<1>1. PICK i \in 1..Len(l) : l[i].id = id
  BY <1>0 DEF Store!Has
<1>2. CASE Creates(q)
  <2>1. n \in Seq(Profile) /\ Len(n) = Len(l) + 1 /\ \A j \in 1..Len(l) : n[j] = l[j]
    BY <1>2, CreateResult
  <2> HIDE DEF n
  <2>2. i \in DOMAIN n /\ n[i].id = id
    BY <1>0, <1>1, <2>1, LenProperties
  <2> QED
    BY <2>2 DEF n, Store!Has
<1>3. CASE q.op = "delete"
  <2>1. Store!Has(l, q.id)
    BY <1>3 DEF Store!Possible
  <2>2. PICK k \in 1..Len(l) :
          /\ l[k].id = q.id
          /\ n \in Seq(Profile) /\ Len(n) = Len(l) - 1
          /\ \A j \in 1..(Len(l) - 1) : n[j] = IF j < k THEN l[j] ELSE l[j + 1]
    <3>1. Distinct(l, made) /\ q.op = "delete" /\ Store!Has(l, q.id)
      BY <1>3, <2>1
    <3> QED
      BY ONLY <3>1, DeleteResult
  <2> HIDE DEF n
  <2>3. DOMAIN n = 1..(Len(l) - 1)
    BY <2>2, LenProperties
  <2>4. i # k
    BY <1>1, <1>3, <2>2
  <2>5. CASE i < k
    <3>1. i \in 1..(Len(l) - 1)
      BY <1>0, <2>5
    <3>2. n[i] = l[i]
      BY <2>2, <2>5, <3>1
    <3> QED
      BY <1>1, <2>3, <3>1, <3>2 DEF n, Store!Has
  <2>6. CASE i > k
    <3>1. i - 1 \in 1..(Len(l) - 1) /\ ~(i - 1 < k) /\ (i - 1) + 1 = i
      BY <1>0, <2>6
    <3>2. n[i - 1] = l[i]
      BY <2>2, <3>1
    <3> QED
      BY <1>1, <2>3, <3>1, <3>2 DEF n, Store!Has
  <2> QED
    BY <2>4, <2>5, <2>6
<1>4. CASE q.op = "save" /\ q.id # NoId
  <2>1. Store!Has(l, q.id)
    BY <1>4 DEF Store!Possible
  <2>2. PICK k \in 1..Len(l) :
          /\ l[k].id = q.id
          /\ n \in Seq(Profile) /\ Len(n) = Len(l)
          /\ \A j \in 1..Len(l) : j # k => n[j] = l[j]
          /\ n[k].id = q.id
    BY <1>4, <2>1, UpdateResult
  <2> HIDE DEF n
  <2>3. n[i].id = id /\ DOMAIN n = 1..Len(l)
    BY <1>1, <2>2, LenProperties
  <2> QED
    BY <2>3 DEF n, Store!Has
<1> QED
  BY <1>2, <1>3, <1>4 DEF Creates

(***************************************************************************)
(* A password in the list only changes when a new one is given or it is    *)
(* cleared (profiles.go:270-272).                                          *)
(***************************************************************************)
LEMMA ResultPasswords ==
  ASSUME NEW made, NEW l, Distinct(l, made),
         NEW q \in Store!Requests, q.op \in {"save", "delete"}, Store!Possible(l, q),
         NEW new \in Ids, NEW made2, Distinct(Store!Result(l, q, new), made2),
         NEW i \in DOMAIN l, NEW j \in DOMAIN Store!Result(l, q, new),
         l[i].id = Store!Result(l, q, new)[j].id,
         l[i].password # Store!Result(l, q, new)[j].password
  PROVE  q.op = "save" /\ q.id = l[i].id /\ (q.clear \/ q.password # NoPassword)
<1> DEFINE n == Store!Result(l, q, new)
<1>0. /\ DOMAIN l = 1..Len(l) /\ Len(l) \in Nat
      /\ DOMAIN n = 1..Len(n) /\ Len(n) \in Nat
  BY LenProperties DEF Distinct
<1>1. /\ \A a, b \in 1..Len(l) : l[a].id = l[b].id => a = b
      /\ \A a, b \in 1..Len(n) : n[a].id = n[b].id => a = b
  BY <1>0 DEF Distinct
<1>2. CASE Creates(q)
  <2>1. Len(n) = Len(l) + 1 /\ \A k \in 1..Len(l) : n[k] = l[k]
    BY <1>2, CreateResult
  <2> HIDE DEF n
  <2>2. n[i] = l[i] /\ i \in 1..Len(n)
    BY <1>0, <2>1
  <2>3. i = j
    BY <1>0, <1>1, <2>2 DEF n
  <2> QED
    BY <2>2, <2>3 DEF n
<1>3. CASE q.op = "delete"
  <2>1. Distinct(l, made) /\ q.op = "delete" /\ Store!Has(l, q.id)
    BY <1>3 DEF Store!Possible
  <2>2. PICK k \in 1..Len(l) :
          /\ Len(n) = Len(l) - 1
          /\ \A b \in 1..(Len(l) - 1) : n[b] = IF b < k THEN l[b] ELSE l[b + 1]
    BY ONLY <2>1, DeleteResult
  <2> HIDE DEF n
  <2>3. PICK a \in 1..Len(l) : n[j] = l[a]
    <3>1. j \in 1..(Len(l) - 1) /\ j + 1 \in 1..Len(l) /\ j \in 1..Len(l)
      BY <1>0, <2>2 DEF n
    <3> QED
      BY <2>2, <3>1
  <2>4. a = i
    BY <1>0, <1>1, <2>3 DEF n
  <2> QED
    BY <2>3, <2>4 DEF n
<1>4. CASE q.op = "save" /\ q.id # NoId
  <2>1. Distinct(l, made) /\ q \in Store!Requests /\ q.op = "save" /\ q.id # NoId /\ Store!Has(l, q.id)
    BY <1>4 DEF Store!Possible
  <2>2. PICK k \in 1..Len(l) :
          /\ l[k].id = q.id
          /\ Len(n) = Len(l)
          /\ \A b \in 1..Len(l) : b # k => n[b] = l[b]
          /\ n[k].id = q.id
          /\ q.password = NoPassword /\ ~q.clear => n[k].password = l[k].password
    BY ONLY <2>1, UpdateResult
  <2> HIDE DEF n
  <2>3. j \in 1..Len(l)
    BY <1>0, <2>2 DEF n
  <2>4. i = j
    <3>1. n[j].id = l[j].id
      BY <2>2, <2>3
    <3> QED
      BY <1>0, <1>1, <2>3, <3>1 DEF n
  <2>5. i = k
    <3>1. n[j].password # l[j].password
      BY <2>4 DEF n
    <3> QED
      BY <2>2, <2>3, <2>4, <3>1
  <2> QED
    BY <1>4, <2>2, <2>4, <2>5 DEF n
<1> QED
  BY <1>2, <1>3, <1>4 DEF Creates

(***************************************************************************)
(* A save is answered with a profile of the list it makes                  *)
(* (profiles.go:264-279).                                                  *)
(***************************************************************************)
LEMMA SavedIsThere ==
  ASSUME NEW made, NEW l, Distinct(l, made),
         NEW q \in Store!Requests, q.op = "save", Store!Possible(l, q),
         NEW new \in Ids, NEW made2, Distinct(Store!Result(l, q, new), made2)
  PROVE  Store!Has(Store!Result(l, q, new), Store!SavedIn(Store!Result(l, q, new), q)[1].id)
<1> DEFINE n == Store!Result(l, q, new)
<1>0. DOMAIN n = 1..Len(n) /\ Len(n) \in Nat /\ Len(l) \in Nat
  BY LenProperties DEF Distinct
<1>1. CASE q.id = NoId
  <2>1. Creates(q)
    BY <1>1 DEF Creates
  <2>2. Len(n) = Len(l) + 1
    BY <2>1, CreateResult
  <2>3. Store!SavedIn(n, q)[1] = n[Len(n)]
    BY <1>1 DEF Store!SavedIn
  <2> HIDE DEF n
  <2>4. Len(n) \in DOMAIN n
    BY <1>0, <2>2
  <2> QED
    BY <2>3, <2>4 DEF n, Store!Has
<1>2. CASE q.id # NoId
  <2>1. Store!Has(l, q.id)
    BY <1>2 DEF Store!Possible
  <2>2. Store!Has(n, q.id)
    BY <2>1, ResultKeeps
  <2>3. Store!IndexOf(n, q.id) \in DOMAIN n
    BY <1>0, <2>2, IndexFinds
  <2>4. Store!SavedIn(n, q)[1] = n[Store!IndexOf(n, q.id)]
    BY <1>2 DEF Store!SavedIn
  <2> QED
    BY <2>3, <2>4 DEF Store!Has
<1> QED
  BY <1>1, <1>2

-----------------------------------------------------------------------------
(***************************************************************************)
(* The lists of the book, in memory, in the file and being written, have   *)
(* distinct ids that were made (profiles.go:254-295).                      *)
(***************************************************************************)
IdsInv ==
  /\ used \subseteq Ids
  /\ Distinct(list, used)
  /\ Distinct(file.list, used)
  /\ \A r \in Reqs : stage[r] \in Holding => Distinct(next, used)

LEMMA IdsInit == BookInit => IdsInv
<1> SUFFICES ASSUME BookInit
             PROVE  IdsInv
  OBVIOUS
<1>1. file.list \in {<<>>, Stored} /\ list = file.list
  BY DEF BookInit, NoFile, Whole
<1>2. <<>> \in Seq(Profile) /\ DOMAIN <<>> = {}
  BY EmptySeq
<1>3. /\ file.list \in Seq(Profile)
      /\ \A i, j \in DOMAIN file.list : file.list[i].id = file.list[j].id => i = j
  BY <1>1, <1>2, StoredAssumption
<1>4. used = {file.list[i].id : i \in DOMAIN file.list}
  BY DEF BookInit
<1>5. \A i \in DOMAIN file.list : file.list[i].id \in Ids /\ file.list[i].id \in used
  <2>1. \A i \in DOMAIN file.list : file.list[i] \in Profile
    BY <1>3, ElementOfSeq, LenProperties
  <2> QED
    BY <1>4, <2>1 DEF Profile
<1>6. used \subseteq Ids
  BY <1>4, <1>5
<1>7. Distinct(file.list, used)
  BY <1>3, <1>5 DEF Distinct
<1> QED
  BY <1>1, <1>6, <1>7 DEF BookInit, IdsInv, Holding

LEMMA IdsLock ==
  ASSUME BookInv, IdsInv, NEW r \in Reqs, Lock(r)
  PROVE  IdsInv'
<1> DEFINE q == asked[r]
<1>1. /\ q \in Store!Requests /\ q.op \in {"save", "delete"}
      /\ Store!Possible(list, q)
      /\ Creates(q) => Ids \ used # {}
      /\ next' = Store!Result(list, q, NewId)
      /\ used' = IF Creates(q) THEN used \cup {NewId} ELSE used
      /\ UNCHANGED <<list, file>>
  BY DEF BookInv, Lock, Store!NoRequest
<1>2. Creates(q) => NewId \in Ids \ used
  BY <1>1 DEF NewId
<1>3. Distinct(list, used) /\ used \subseteq Ids
  BY DEF IdsInv
<1> HIDE DEF q
<1>4. Distinct(next', used')
  <2>1. CASE Creates(q)
    BY <1>1, <1>2, <1>3, <2>1, ResultDistinct
  <2>2. CASE ~Creates(q)
    <3>1. PICK new \in Ids : TRUE
      BY BookAssumption
    <3>2. next' = Store!Result(list, q, new)
      BY <1>1, <2>2, NewIdMatters
    <3>3. Distinct(Store!Result(list, q, new), IF Creates(q) THEN used \cup {new} ELSE used)
      BY <1>1, <1>3, <2>2, ResultDistinct
    <3> QED
      BY <1>1, <2>2, <3>2, <3>3
  <2> QED
    BY <2>1, <2>2
<1>5. used \subseteq used' /\ used' \subseteq Ids
  BY <1>1, <1>2, <1>3
<1>6. Distinct(list', used') /\ Distinct(file'.list, used')
  BY <1>1, <1>5, DistinctGrows DEF IdsInv
<1> QED
  BY <1>4, <1>5, <1>6 DEF IdsInv

(* Every other step moves lists from one place to the next. *)
Preparing == \E r \in Reqs : stage[r] \in Holding

Moves ==
  /\ used' = used
  /\ \/ list' = list \/ list' = <<>> \/ list' = file.list
     \/ Preparing /\ list' = next
  /\ \/ file' = file
     \/ Preparing /\ file'.list = next
  /\ Preparing' => Preparing /\ next' = next

LEMMA IdsMove ==
  ASSUME IdsInv, Moves
  PROVE  IdsInv'
<1>1. Preparing => Distinct(next, used)
  BY DEF IdsInv, Preparing
<1>2. Distinct(list', used')
  BY <1>1, DistinctEmpty DEF IdsInv, Moves
<1>3. Distinct(file'.list, used')
  BY <1>1 DEF IdsInv, Moves
<1>4. Preparing' => Distinct(next', used')
  BY <1>1 DEF Moves
<1> QED
  BY <1>2, <1>3, <1>4 DEF IdsInv, Moves, Preparing

LEMMA IdsStep == BookInv /\ IdsInv /\ [BookNext]_bvars => IdsInv'
<1> SUFFICES ASSUME BookInv, IdsInv, [BookNext]_bvars
             PROVE  IdsInv'
  OBVIOUS
<1>0. stage \in [Reqs -> Store!Ended \cup {"asked"} \cup Holding]
  BY DEF BookInv, BookTypeOK
<1>1. ASSUME NEW r \in Reqs, NEW q \in Store!Requests, Ask(r, q)
      PROVE  Moves
  BY <1>0, <1>1 DEF Ask, Moves, Preparing, Holding
<1>2. ASSUME NEW r \in Reqs, Write(r) \/ Rename(r) \/ Fail(r) \/ Finish(r)
      PROVE  Preparing /\ \A s \in Reqs : s # r => stage[s] \notin Holding
  BY <1>2, BookAssumption DEF Write, Rename, Fail, Finish, BookInv, BookTypeOK, Preparing, Holding
<1>3. ASSUME NEW r \in Reqs, Refuse(r) \/ List(r) \/ Taken(r)
      PROVE  Moves
  <2>1. \E s \in {"error", "ok", "idle"} : stage' = [stage EXCEPT ![r] = s]
    BY <1>3 DEF Refuse, List, Taken
  <2>2. Preparing' => Preparing
    BY <1>0, <2>1 DEF Preparing, Holding
  <2>3. list' = list /\ file' = file /\ used' = used /\ next' = next
    BY <1>3 DEF Refuse, List, Taken
  <2> QED
    BY <2>2, <2>3 DEF Moves
<1>4. ASSUME NEW r \in Reqs, Write(r)
      PROVE  Moves
  BY <1>2, <1>4 DEF Write, Moves
<1>5. ASSUME NEW r \in Reqs, Rename(r)
      PROVE  Moves
  <2>1. tmp.list = next
    BY <1>5 DEF BookInv, Rename, Prepared, Whole
  <2> QED
    BY <1>2, <1>5, <2>1 DEF Rename, Moves
<1>6. ASSUME NEW r \in Reqs, Fail(r) \/ Finish(r)
      PROVE  Moves
  <2>1. \E s \in {"error", "ok"} : stage' = [stage EXCEPT ![r] = s]
    BY <1>6 DEF Fail, Finish
  <2>2. Preparing /\ ~Preparing'
    <3>1. \A s \in Reqs : s # r => stage[s] \notin Holding
      BY <1>2, <1>6
    <3>2. \A s \in Reqs : stage'[s] \notin Holding
      BY <1>0, <2>1, <3>1 DEF Holding
    <3> QED
      BY <1>2, <1>6, <3>2 DEF Preparing
  <2>3. used' = used /\ file' = file /\ (list' = list \/ list' = next)
    BY <1>6 DEF Fail, Finish
  <2> QED
    BY <2>2, <2>3 DEF Moves
<1>7. Crash \/ Restart => Moves
  <2>1. CASE Crash
    <3>1. ~Preparing'
      BY <2>1 DEF Crash, Preparing, Holding, Store!Ended
    <3> QED
      BY <2>1, <3>1 DEF Crash, Moves
  <2>2. CASE Restart
    BY <2>2 DEF Restart, Moves, Preparing
  <2> QED
    BY <2>1, <2>2
<1>8. UNCHANGED bvars => Moves
  BY DEF bvars, Moves, Preparing
<1> QED
  BY <1>1, <1>3, <1>4, <1>5, <1>6, <1>7, <1>8, IdsLock, IdsMove DEF BookNext, Handle

(***************************************************************************)
(* In every state of the book.                                             *)
(***************************************************************************)
THEOREM IdsHold == BookSpec => []IdsInv
BY BookHolds, IdsInit, IdsStep, PTL DEF BookSpec

(* What the rename puts in the place of the file is what the request makes of it. *)
LEMMA RenameMakes ==
  ASSUME BookInv, IdsInv, NEW r \in Reqs, Rename(r)
  PROVE  /\ asked[r] \in Store!Requests /\ asked[r].op \in {"save", "delete"}
         /\ Store!Possible(file.list, asked[r])
         /\ \E new \in Ids : next = Store!Result(file.list, asked[r], new)
         /\ file'.list = next
         /\ Distinct(file.list, used) /\ Distinct(next, used)
<1>2. /\ mu = r /\ up
      /\ asked[r].op \in {"save", "delete"}
      /\ Store!Possible(list, asked[r])
      /\ \E new \in Ids : next = Store!Result(list, asked[r], new)
      /\ tmp = Whole(next)
  BY BookAssumption DEF BookInv, Rename, BookTypeOK, Holding, Prepared, Store!Ended
<1>3. asked[r] \in Store!Requests
  BY <1>2 DEF BookInv, Store!NoRequest
<1>4. file.list = list
  BY <1>2, BookAssumption DEF BookInv, MemoryIsFile, Rename
<1>5. file'.list = next
  BY <1>2 DEF Rename, Whole
<1>6. Distinct(file.list, used) /\ Distinct(next, used)
  BY DEF IdsInv, Rename, Holding
<1> QED
  BY <1>2, <1>3, <1>4, <1>5, <1>6

(* Nothing else changes the file. *)
LEMMA FileChanges ==
  ASSUME [BookNext]_bvars, file'.list # file.list
  PROVE  \E r \in Reqs : Rename(r)
BY DEF BookNext, bvars, Ask, Handle, Refuse, Lock, Write, Fail, Finish, List, Taken, Crash, Restart

Given(id) ==
  \E r \in Reqs : /\ asked[r].op = "save" /\ asked[r].id = id
                  /\ (asked[r].clear \/ asked[r].password # NoPassword)

LEMMA PasswordStep ==
  ASSUME BookInv, IdsInv, [BookNext]_bvars,
         NEW i \in DOMAIN file.list, NEW j \in DOMAIN file'.list,
         file.list[i].id = file'.list[j].id, file.list[i].password # file'.list[j].password
  PROVE  Given(file.list[i].id)
<1>1. CASE file'.list = file.list
  <2>1. i = j
    BY <1>1 DEF IdsInv, Distinct
  <2> QED
    BY <1>1, <2>1
<1>2. CASE file'.list # file.list
  <2>1. PICK r \in Reqs, new \in Ids :
          /\ asked[r] \in Store!Requests /\ asked[r].op \in {"save", "delete"}
          /\ Store!Possible(file.list, asked[r])
          /\ next = Store!Result(file.list, asked[r], new)
          /\ file'.list = next
          /\ Distinct(file.list, used) /\ Distinct(next, used)
    BY <1>2, FileChanges, RenameMakes
  <2>2. PICK l : l = file.list
    OBVIOUS
  <2>3. PICK q : q = asked[r]
    OBVIOUS
  <2>4. PICK n : n = next
    OBVIOUS
  <2>5. /\ q \in Store!Requests /\ q.op \in {"save", "delete"} /\ Store!Possible(l, q)
        /\ n = Store!Result(l, q, new)
        /\ Distinct(l, used) /\ Distinct(n, used)
        /\ i \in DOMAIN l /\ j \in DOMAIN n
        /\ l[i].id = n[j].id /\ l[i].password # n[j].password
    BY <2>1, <2>2, <2>3, <2>4
  <2>6. q.op = "save" /\ q.id = l[i].id /\ (q.clear \/ q.password # NoPassword)
    BY <2>5, ResultPasswords
  <2> QED
    BY <2>2, <2>3, <2>6 DEF Given
<1> QED
  BY <1>1, <1>2

(***************************************************************************)
(* A saved password only changes or goes if a new one was given or it was  *)
(* cleared (profiles.go:252-253, 270-272, app.js:1148).                    *)
(***************************************************************************)
THEOREM DialogKeepsPasswords == Spec => PasswordKept
<1> DEFINE Keeps ==
      \A i \in DOMAIN file.list, j \in DOMAIN file'.list :
        /\ file.list[i].id = file'.list[j].id /\ file.list[i].password # file'.list[j].password
        => \E r \in Reqs : /\ asked[r].op = "save" /\ asked[r].id = file.list[i].id
                            /\ (asked[r].clear \/ asked[r].password # NoPassword)
<1>1. BookInv /\ IdsInv /\ [BookNext]_bvars => Keeps
  BY PasswordStep DEF Given
<1>2. Spec => [][Keeps]_vars
  <2>1. BookInv /\ IdsInv /\ [Next]_vars => [Keeps]_vars
    BY <1>1, DialogStep
  <2> HIDE DEF Keeps
  <2>2. Spec => []BookInv /\ []IdsInv
    BY DialogUsesTheBook, BookHolds, IdsHold, PTL
  <2> QED
    BY <2>1, <2>2, PTL DEF Spec
<1> QED
  BY <1>2 DEF PasswordKept

-----------------------------------------------------------------------------
(***************************************************************************)
(* What is saved stays: an id that nobody asked to delete is in the file.  *)
(***************************************************************************)
Stays(id) == id \in gone \cup {NoId} \/ Store!Has(file.list, id)

(***************************************************************************)
(* What a slot knows of the profile the page waits for (app.js:1000-1019,  *)
(* 1141-1176): the answer to a save names a profile that stays, so does    *)
(* what the list is loaded for, and the list that comes has it.            *)
(***************************************************************************)
SlotOK(r) ==
  /\ then[r] = "saved" => asked[r].op = "save"
  /\ then[r] = "loaded" => asked[r].op = "list"
  /\ asked[r].op = "delete" => asked[r].id \in gone
  /\ stage[r] = "renamed" => asked[r].op # "list"
  /\ asked[r].op = "save" /\ stage[r] \in {"renamed", "ok"} => Stays(answer[r][1].id)
  /\ then[r] \in {"load", "loaded"} => Stays(wanted[r])
  /\ then[r] = "loaded" /\ stage[r] = "ok"
       => wanted[r] \in gone \cup {NoId} \/ Store!Has(answer[r], wanted[r])

SlotInv ==
  /\ DOMAIN then = Reqs /\ DOMAIN wanted = Reqs /\ DOMAIN answer = Reqs
  /\ \A r \in Reqs : SlotOK(r)

LEMMA SlotInit == Init => SlotInv
<1> SUFFICES ASSUME Init
             PROVE  SlotInv
  OBVIOUS
<1>1. /\ stage = [r \in Reqs |-> "idle"] /\ asked = [r \in Reqs |-> Store!NoRequest]
      /\ answer = [r \in Reqs |-> <<>>]
      /\ then = [r \in Reqs |-> "nothing"] /\ wanted = [r \in Reqs |-> NoId]
  BY DEF Init, BookInit
<1>2. ASSUME NEW r \in Reqs
      PROVE  SlotOK(r)
  BY <1>1 DEF SlotOK, Store!NoRequest
<1> QED
  BY <1>1, <1>2 DEF SlotInv

LEMMA GoneGrows == [Next]_vars => gone \subseteq gone'
BY DEF Next, User, New, Edit, OpenDialog, Cancel, ArmDelete, Submit, ConfirmDelete, Choose, Elsewhere,
       Disarm, Server, Saved, Deleted, Load, Loading, Loaded, Failed, Done, vars, dvars, page

LEMMA StaysStep ==
  ASSUME BookInv, IdsInv, SlotInv, [BookNext]_bvars, gone \subseteq gone', NEW id, Stays(id)
  PROVE  Stays(id)'
<1>1. CASE id \in gone \cup {NoId}
  BY <1>1 DEF Stays
<1>2. CASE file'.list = file.list
  BY <1>2 DEF Stays, Store!Has
<1>3. CASE file'.list # file.list /\ id \notin gone \cup {NoId}
  <2>1. PICK r \in Reqs, new \in Ids :
          /\ asked[r] \in Store!Requests /\ asked[r].op \in {"save", "delete"}
          /\ Store!Possible(file.list, asked[r])
          /\ next = Store!Result(file.list, asked[r], new)
          /\ file'.list = next
          /\ Distinct(file.list, used)
    BY <1>3, FileChanges, RenameMakes
  <2>2. Store!Has(file.list, id)
    BY <1>3 DEF Stays
  <2>3. asked[r].op = "delete" => asked[r].id # id
    BY <1>3 DEF SlotInv, SlotOK
  <2>4. PICK l : l = file.list
    OBVIOUS
  <2>5. PICK q : q = asked[r]
    OBVIOUS
  <2>6. /\ q \in Store!Requests /\ q.op \in {"save", "delete"} /\ Store!Possible(l, q)
        /\ Distinct(l, used) /\ Store!Has(l, id) /\ (q.op = "delete" => q.id # id)
    BY <2>1, <2>2, <2>3, <2>4, <2>5
  <2>7. Store!Has(Store!Result(l, q, new), id)
    BY <2>6, ResultKeeps
  <2>8. file'.list = Store!Result(l, q, new)
    BY <2>1, <2>4, <2>5
  <2> QED
    BY <2>7, <2>8 DEF Stays, Store!Has
<1> QED
  BY <1>1, <1>2, <1>3

(* A slot that is not served, or whose request is lost, knows what it knew. *)
LEMMA SlotSame ==
  ASSUME NEW r \in Reqs, SlotOK(r), gone \subseteq gone', \A id : Stays(id) => Stays(id)',
         stage'[r] \in {stage[r], "lost"},
         asked'[r] = asked[r], answer'[r] = answer[r], then'[r] = then[r], wanted'[r] = wanted[r]
  PROVE  SlotOK(r)'
BY DEF SlotOK

(* The slots that a step is not about. *)
OnlySlot(r) ==
  \A s \in Reqs \ {r} :
    /\ stage'[s] = stage[s] /\ asked'[s] = asked[s] /\ answer'[s] = answer[s]
    /\ then'[s] = then[s] /\ wanted'[s] = wanted[s]

Domains == DOMAIN then' = Reqs /\ DOMAIN wanted' = Reqs /\ DOMAIN answer' = Reqs

LEMMA SlotsKept ==
  ASSUME SlotInv, gone \subseteq gone', \A id : Stays(id) => Stays(id)',
         NEW r \in Reqs, OnlySlot(r), Domains, SlotOK(r)'
  PROVE  SlotInv'
<1>1. ASSUME NEW s \in Reqs, s # r
      PROVE  SlotOK(s)'
  BY <1>1, SlotSame DEF OnlySlot, SlotInv
<1> QED
  BY <1>1 DEF SlotInv, Domains

(* The book serves the request of a slot (profiles.go:254-295). *)
LEMMA SlotHandle ==
  ASSUME BookInv, IdsInv, SlotInv, \A id : Stays(id) => Stays(id)',
         NEW r \in Reqs, Handle(r), UNCHANGED dvars
  PROVE  OnlySlot(r) /\ Domains /\ SlotOK(r)'
<1>0. /\ stage \in [Reqs -> Store!Ended \cup {"asked"} \cup Holding]
      /\ DOMAIN asked = Reqs /\ DOMAIN answer = Reqs /\ DOMAIN then = Reqs /\ DOMAIN wanted = Reqs
  BY DEF BookInv, BookTypeOK, SlotInv
<1>1. then' = then /\ wanted' = wanted /\ gone' = gone
  BY DEF dvars, page
<1>2. OnlySlot(r) /\ Domains /\ asked' = asked
  BY <1>0, <1>1 DEF Handle, Refuse, Lock, Write, Rename, Fail, Finish, List, OnlySlot, Domains
<1>3. SlotOK(r)
  BY DEF SlotInv
<1>4. CASE Refuse(r) \/ Lock(r) \/ Write(r) \/ Fail(r)
  <2>1. stage'[r] \in {"error", "writing", "renaming"}
    BY <1>0, <1>4 DEF Refuse, Lock, Write, Fail
  <2> QED
    BY <1>1, <1>2, <1>3, <2>1 DEF SlotOK
<1>5. CASE Rename(r)
  <2>1. stage'[r] = "renamed" /\ answer'[r] = Store!SavedIn(next, asked[r])
    BY <1>0, <1>5 DEF Rename
  <2>2. PICK new \in Ids : next = Store!Result(file.list, asked[r], new)
    BY <1>5, RenameMakes
  <2>3. /\ asked[r] \in Store!Requests /\ asked[r].op \in {"save", "delete"}
        /\ Store!Possible(file.list, asked[r])
        /\ file'.list = next
        /\ Distinct(file.list, used) /\ Distinct(next, used)
    BY <1>5, RenameMakes
  <2>4. asked[r].op = "save" => Store!Has(next, Store!SavedIn(next, asked[r])[1].id)
    <3>1. PICK l : l = file.list
      OBVIOUS
    <3>2. PICK q : q = asked[r]
      OBVIOUS
    <3>3. /\ q \in Store!Requests /\ Store!Possible(l, q) /\ Distinct(l, used)
          /\ next = Store!Result(l, q, new) /\ Distinct(Store!Result(l, q, new), used)
      BY <2>2, <2>3, <3>1, <3>2
    <3>4. q.op = "save" =>
            Store!Has(Store!Result(l, q, new), Store!SavedIn(Store!Result(l, q, new), q)[1].id)
      BY <3>3, SavedIsThere
    <3> QED
      BY <3>2, <3>3, <3>4
  <2>5. asked[r].op = "save" => Stays(answer[r][1].id)'
    BY <2>1, <2>3, <2>4 DEF Stays, Store!Has
  <2> QED
    BY <1>1, <1>2, <1>3, <2>1, <2>3, <2>5 DEF SlotOK
<1>6. CASE Finish(r)
  <2>1. stage[r] = "renamed" /\ stage'[r] = "ok" /\ answer' = answer
    BY <1>0, <1>6 DEF Finish
  <2> QED
    BY <1>1, <1>2, <1>3, <2>1 DEF SlotOK
<1>7. CASE List(r)
  <2>1. stage'[r] = "ok" /\ answer'[r] = list /\ asked[r].op = "list"
    BY <1>0, <1>7 DEF List
  <2>2. up
    BY <1>7 DEF List, BookInv, BookTypeOK, Store!Ended
  <2>3. list = file.list
    BY <1>7, <2>2 DEF List, BookInv, MemoryIsFile
  <2>4. then[r] = "loaded" => wanted[r] \in gone \cup {NoId} \/ Store!Has(list, wanted[r])
    BY <1>3, <2>3 DEF SlotOK, Stays
  <2>5. then[r] \in {"load", "loaded"} => Stays(wanted[r])'
    BY <1>1, <1>3 DEF SlotOK
  <2> QED
    BY <1>1, <1>2, <1>3, <2>1, <2>4, <2>5 DEF SlotOK
<1> QED
  BY <1>2, <1>4, <1>5, <1>6, <1>7 DEF Handle

(* A request is sent (app.js:1000-1019, 1117-1176). *)
LEMMA SlotSend ==
  ASSUME BookInv, SlotInv, NEW r \in Reqs, NEW q, NEW what, NEW want, Ask(r, q),
         then' = [then EXCEPT ![r] = what], wanted' = [wanted EXCEPT ![r] = want],
         what = "saved" => q.op = "save",
         what = "loaded" => q.op = "list",
         q.op = "delete" => q.id \in gone',
         what # "load",
         what = "loaded" => Stays(want)'
  PROVE  OnlySlot(r) /\ Domains /\ SlotOK(r)'
<1>0. /\ stage \in [Reqs -> Store!Ended \cup {"asked"} \cup Holding]
      /\ DOMAIN asked = Reqs /\ DOMAIN answer = Reqs /\ DOMAIN then = Reqs /\ DOMAIN wanted = Reqs
  BY DEF BookInv, BookTypeOK, SlotInv
<1>1. /\ stage' = [stage EXCEPT ![r] = "asked"]
      /\ asked' = [asked EXCEPT ![r] = q]
      /\ answer' = answer
  BY DEF Ask
<1>2. OnlySlot(r) /\ Domains
  BY <1>0, <1>1 DEF OnlySlot, Domains
<1>3. stage'[r] = "asked" /\ asked'[r] = q /\ then'[r] = what /\ wanted'[r] = want
  BY <1>0, <1>1
<1>4. SlotOK(r)'
  BY <1>3 DEF SlotOK
<1> QED
  BY <1>2, <1>4

(* An answer is taken, and the slot is free or loads the list. *)
LEMMA SlotTaken ==
  ASSUME BookInv, SlotInv, NEW r \in Reqs, Taken(r), NEW what \in {"nothing", "load"}, NEW want,
         then' = [then EXCEPT ![r] = what], wanted' = [wanted EXCEPT ![r] = want],
         what = "load" => Stays(want)'
  PROVE  OnlySlot(r) /\ Domains /\ SlotOK(r)'
<1>0. /\ stage \in [Reqs -> Store!Ended \cup {"asked"} \cup Holding]
      /\ DOMAIN asked = Reqs /\ DOMAIN answer = Reqs /\ DOMAIN then = Reqs /\ DOMAIN wanted = Reqs
  BY DEF BookInv, BookTypeOK, SlotInv
<1>1. /\ stage' = [stage EXCEPT ![r] = "idle"]
      /\ asked' = [asked EXCEPT ![r] = Store!NoRequest]
      /\ answer' = [answer EXCEPT ![r] = <<>>]
  BY DEF Taken
<1>2. OnlySlot(r) /\ Domains
  BY <1>0, <1>1 DEF OnlySlot, Domains
<1>3. /\ stage'[r] = "idle" /\ asked'[r].op = "none" /\ then'[r] = what /\ wanted'[r] = want
  BY <1>0, <1>1 DEF Store!NoRequest
<1>4. SlotOK(r)'
  BY <1>3 DEF SlotOK
<1> QED
  BY <1>2, <1>4

(***************************************************************************)
(* The invariant of the slots holds after every step of the page and of    *)
(* the program, a crash included.                                          *)
(***************************************************************************)
LEMMA SlotStep == BookInv /\ IdsInv /\ SlotInv /\ [Next]_vars => SlotInv'
<1> SUFFICES ASSUME BookInv, IdsInv, SlotInv, [Next]_vars
             PROVE  SlotInv'
  OBVIOUS
<1>1. gone \subseteq gone'
  BY GoneGrows
<1>2. \A id : Stays(id) => Stays(id)'
  BY <1>1, DialogStep, StaysStep
<1>3. ASSUME NEW r \in Reqs, OnlySlot(r), Domains, SlotOK(r)'
      PROVE  SlotInv'
  BY <1>1, <1>2, <1>3, SlotsKept
<1>4. ASSUME UNCHANGED <<asked, answer, then, wanted>>,
             \A r \in Reqs : stage'[r] \in {stage[r], "lost"}
      PROVE  SlotInv'
  <2>1. ASSUME NEW r \in Reqs
        PROVE  SlotOK(r)'
    BY <1>1, <1>2, <1>4, SlotSame DEF SlotInv
  <2> QED
    BY <1>4, <2>1 DEF SlotInv
<1>5. CASE User
  <2>1. CASE New \/ Edit \/ Cancel \/ ArmDelete \/ \E id \in used : Choose(id)
    BY <1>4, <2>1 DEF New, Edit, OpenDialog, Cancel, ArmDelete, Choose, bvars
  <2>2. ASSUME NEW r \in Reqs, NEW rest \in Rests, NEW password \in Passwords \cup {NoPassword},
               NEW clear \in BOOLEAN, Submit(r, rest, password, clear)
        PROVE  SlotInv'
    <3>1. PICK e : e = editing
      OBVIOUS
    <3>2. PICK q : q = [op |-> "save", id |-> e, rest |-> rest, password |-> password, clear |-> clear]
      OBVIOUS
    <3>3. /\ Ask(r, q) /\ q.op = "save"
          /\ then' = [then EXCEPT ![r] = "saved"] /\ wanted' = [wanted EXCEPT ![r] = NoId]
      BY <2>2, <3>1, <3>2 DEF Submit, Send
    <3>4. OnlySlot(r) /\ Domains /\ SlotOK(r)'
      BY <3>3, SlotSend
    <3> QED
      BY <1>3, <3>4
  <2>3. ASSUME NEW r \in Reqs, ConfirmDelete(r)
        PROVE  SlotInv'
    <3>1. PICK e : e = editing
      OBVIOUS
    <3>2. PICK q :
            /\ Ask(r, q) /\ q.op = "delete" /\ q.id = e
            /\ then' = [then EXCEPT ![r] = "deleted"] /\ wanted' = [wanted EXCEPT ![r] = NoId]
      BY <2>3, <3>1 DEF ConfirmDelete, Send
    <3>3. e \in gone'
      BY <2>3, <3>1 DEF ConfirmDelete
    <3>4. OnlySlot(r) /\ Domains /\ SlotOK(r)'
      BY <3>2, <3>3, SlotSend
    <3> QED
      BY <1>3, <3>4
  <2>4. ASSUME NEW r \in Reqs, NEW op \in {"save", "delete"}, NEW id \in used, Elsewhere(r, op, id)
        PROVE  SlotInv'
    <3>1. PICK q :
            /\ Ask(r, q) /\ q.op = op /\ q.id = id
            /\ then' = [then EXCEPT ![r] = "elsewhere"] /\ wanted' = [wanted EXCEPT ![r] = NoId]
      BY <2>4 DEF Elsewhere, Send
    <3>2. op = "delete" => id \in gone'
      BY <2>4 DEF Elsewhere
    <3>3. OnlySlot(r) /\ Domains /\ SlotOK(r)'
      BY <3>1, <3>2, SlotSend
    <3> QED
      BY <1>3, <3>3
  <2> QED
    BY <1>5, <2>1, <2>2, <2>3, <2>4 DEF User
<1>6. CASE Disarm
  BY <1>4, <1>6 DEF Disarm, bvars
<1>7. CASE Server
  <2>1. ASSUME NEW r \in Reqs, Handle(r), UNCHANGED dvars
        PROVE  SlotInv'
    BY <1>2, <1>3, <2>1, SlotHandle
  <2>2. CASE Restart /\ UNCHANGED dvars
    BY <1>4, <2>2 DEF Restart, dvars, page
  <2>3. CASE Crash /\ UNCHANGED page
    BY <1>4, <2>3 DEF Crash, page
  <2> QED
    BY <1>7, <2>1, <2>2, <2>3 DEF Server
<1>8. ASSUME NEW r \in Reqs, Saved(r) \/ Deleted(r)
      PROVE  SlotInv'
  <2>1. PICK want :
          /\ Taken(r) /\ then' = [then EXCEPT ![r] = "load"] /\ wanted' = [wanted EXCEPT ![r] = want]
          /\ \/ want = NoId
             \/ then[r] = "saved" /\ stage[r] = "ok" /\ want = answer[r][1].id
    <3>1. CASE Saved(r)
      <4>1. PICK want : want = answer[r][1].id
        OBVIOUS
      <4> QED
        BY <3>1, <4>1 DEF Saved, Load
    <3>2. CASE Deleted(r)
      BY <3>2 DEF Deleted, Load
    <3> QED
      BY <1>8, <3>1, <3>2
  <2>2. Stays(want)
    BY <2>1 DEF SlotInv, SlotOK, Stays
  <2>3. Stays(want)'
    BY <1>2, <2>2
  <2>4. OnlySlot(r) /\ Domains /\ SlotOK(r)'
    BY <2>1, <2>3, SlotTaken
  <2> QED
    BY <1>3, <2>4
<1>9. ASSUME NEW r \in Reqs, Loading(r)
      PROVE  SlotInv'
  <2>1. PICK w : w = wanted[r]
    OBVIOUS
  <2>2. PICK q :
          /\ Ask(r, q) /\ q.op = "list"
          /\ then' = [then EXCEPT ![r] = "loaded"] /\ wanted' = [wanted EXCEPT ![r] = w]
    BY <1>9, <2>1 DEF Loading, Send
  <2>3. Stays(w)
    BY <1>9, <2>1 DEF Loading, SlotInv, SlotOK
  <2>4. Stays(w)'
    BY <1>2, <2>3
  <2>5. OnlySlot(r) /\ Domains /\ SlotOK(r)'
    BY <2>2, <2>4, SlotSend
  <2> QED
    BY <1>3, <2>5
<1>10. ASSUME NEW r \in Reqs, Loaded(r) \/ Failed(r) \/ Done(r)
       PROVE  SlotInv'
  <2>1. /\ Taken(r) /\ then' = [then EXCEPT ![r] = "nothing"]
        /\ wanted' = [wanted EXCEPT ![r] = NoId]
    BY <1>10 DEF Loaded, Failed, Done, Leave
  <2>2. OnlySlot(r) /\ Domains /\ SlotOK(r)'
    BY <2>1, SlotTaken
  <2> QED
    BY <1>3, <2>2
<1>11. CASE UNCHANGED vars
  BY <1>4, <1>11 DEF vars, bvars, dvars, page
<1> QED
  BY <1>5, <1>6, <1>7, <1>8, <1>9, <1>10, <1>11 DEF Next

(***************************************************************************)
(* A connection that was saved is in the list that is loaded after it, and *)
(* is selected there, unless somebody asked to delete it (app.js:1016,     *)
(* 1157).                                                                  *)
(***************************************************************************)
THEOREM DialogSelectsTheSaved == Spec => SavedIsSelected
<1>1. ASSUME SlotInv, NEW r \in Reqs, Loaded(r), wanted[r] \notin gone \cup {NoId}
      PROVE  chosen' = wanted[r]
  <2>1. Store!Has(answer[r], wanted[r])
    BY <1>1 DEF Loaded, SlotInv, SlotOK
  <2>2. profiles' = answer[r]
    BY <1>1 DEF Loaded
  <2>3. Store!Has(profiles', wanted[r])
    BY <2>1, <2>2 DEF Store!Has
  <2>4. wanted[r] # NoId
    BY <1>1
  <2> QED
    BY <1>1, <2>3, <2>4 DEF Loaded
<1> DEFINE Selects ==
      \A r \in Reqs : Loaded(r) /\ wanted[r] \notin gone \cup {NoId} => chosen' = wanted[r]
<1>2. SlotInv /\ [Next]_vars => [Selects]_vars
  BY <1>1
<1> HIDE DEF Selects
<1>3. Spec => []BookInv /\ []IdsInv
  BY DialogUsesTheBook, BookHolds, IdsHold, PTL
<1>4. Spec => []SlotInv
  BY <1>3, SlotInit, SlotStep, PTL DEF Spec
<1>5. Spec => [][Selects]_vars
  BY <1>2, <1>4, PTL DEF Spec
<1> QED
  BY <1>5 DEF SavedIsSelected, Selects
=============================================================================
