------------------------------- MODULE Dialog -------------------------------
(***************************************************************************)
(* The page's dialog for saved connections and its list of them            *)
(* (web/app.js:63-84, 998-1019, 1099-1176) on top of the book of the       *)
(* server.  Every request of the page is a slot of the book; what becomes  *)
(* of its answer depends on what asked.                                    *)
(*                                                                         *)
(* The page is modal: with the dialog open nothing else can be clicked.    *)
(* What the fields of the form hold when it is submitted is any value.     *)
(* The certificate file, which is read while the dialog is used, and the   *)
(* toasts are left out.                                                    *)
(***************************************************************************)
EXTENDS Book, FiniteSets

CONSTANT MaxAsks   \* bound: saves, deletes and crashes

VARIABLES
  open,       \* whether the dialog is shown
  editing,    \* editingId
  armed,      \* whether the delete button waits for its second click
  profiles,   \* profiles: the list the page has
  chosen,     \* the one selected in it, NoId for none
  then,       \* slot -> what the page does with the answer
  wanted,     \* slot -> the id loadProfiles is to select
  sure,       \* auxiliary: whether delete was clicked once in the dialog that is open
  gone,       \* auxiliary: ids that somebody has asked to delete
  asks        \* saves, deletes and crashes so far

page == <<open, editing, armed, profiles, chosen, then, wanted, sure, gone>>
dvars == <<page, asks>>
vars == <<bvars, dvars>>

Init ==
  /\ BookInit
  /\ open = FALSE
  /\ editing = NoId
  /\ armed = FALSE
  /\ profiles = list
  /\ chosen = IF list = <<>> THEN NoId ELSE list[1].id
  /\ then = [r \in Reqs |-> "nothing"]
  /\ wanted = [r \in Reqs |-> NoId]
  /\ sure = FALSE
  /\ gone = {}
  /\ asks = 0

-----------------------------------------------------------------------------
Free(r) == then[r] = "nothing"

\* The request is sent, and its answer will be taken up by what is named last.
Send(r, op, id, rest, password, clear, what, want) ==
  /\ Ask(r, [op |-> op, id |-> id, rest |-> rest, password |-> password, clear |-> clear])
  /\ then' = [then EXCEPT ![r] = what]
  /\ wanted' = [wanted EXCEPT ![r] = want]

Asks == asks < MaxAsks /\ asks' = asks + 1

OpenKeepingArmed(id) ==   \* mutant: an armed button stays armed
  /\ ~open
  /\ open' = TRUE
  /\ editing' = id
  /\ sure' = FALSE
  /\ UNCHANGED <<bvars, armed, profiles, chosen, then, wanted, gone, asks>>

OpenDialog(id) ==
  /\ ~open
  /\ open' = TRUE
  /\ editing' = id
  /\ armed' = FALSE
  /\ sure' = FALSE
  /\ UNCHANGED <<bvars, profiles, chosen, then, wanted, gone, asks>>

New == OpenDialog(NoId)

Edit == profiles # <<>> /\ OpenDialog(IF Store!Has(profiles, chosen) THEN chosen ELSE NoId)

Cancel ==
  /\ open
  /\ open' = FALSE
  /\ sure' = FALSE
  /\ UNCHANGED <<bvars, editing, armed, profiles, chosen, then, wanted, gone, asks>>

Submit(r, rest, password, clear) ==
  /\ Asks /\ open /\ Free(r)
  /\ Send(r, "save", editing, rest, password, clear, "saved", NoId)
  /\ UNCHANGED <<open, editing, armed, profiles, chosen, sure, gone>>

\* The delete button is only shown for a profile that exists.
ArmDelete ==
  /\ open /\ editing # NoId /\ ~armed
  /\ armed' = TRUE
  /\ sure' = TRUE
  /\ UNCHANGED <<bvars, open, editing, profiles, chosen, then, wanted, gone, asks>>

ConfirmDelete(r) ==
  /\ Asks /\ open /\ editing # NoId /\ armed /\ Free(r)
  /\ armed' = FALSE
  /\ gone' = gone \cup {editing}
  /\ \E rest \in Rests : Send(r, "delete", editing, rest, NoPassword, FALSE, "deleted", NoId)
  /\ UNCHANGED <<open, editing, profiles, chosen, sure>>

\* Three seconds after the first click.
Disarm ==
  /\ armed
  /\ armed' = FALSE
  /\ UNCHANGED <<bvars, open, editing, profiles, chosen, then, wanted, sure, gone, asks>>

Choose(id) ==
  /\ ~open /\ chosen # id /\ Store!Has(profiles, id)
  /\ chosen' = id
  /\ UNCHANGED <<bvars, open, editing, armed, profiles, then, wanted, sure, gone, asks>>

\* Another page, or a reload of this one, uses the book.
Elsewhere(r, op, id) ==
  /\ Asks /\ Free(r)
  /\ \E rest \in Rests : Send(r, op, id, rest, NoPassword, FALSE, "elsewhere", NoId)
  /\ gone' = IF op = "delete" THEN gone \cup {id} ELSE gone
  /\ UNCHANGED <<open, editing, armed, profiles, chosen, sure>>

-----------------------------------------------------------------------------
(***************************************************************************)
(* Answers.  A save or a delete closes the dialog, whichever is open then, *)
(* and loads the list anew; the slot is used again for that.  The list     *)
(* selects what was saved, or what is selected when it comes, or else what *)
(* was connected last, as the browser remembers it.                        *)
(***************************************************************************)
Load(r, want) ==
  /\ Taken(r)
  /\ then' = [then EXCEPT ![r] = "load"]
  /\ wanted' = [wanted EXCEPT ![r] = want]
  /\ open' = FALSE
  /\ sure' = FALSE
  /\ UNCHANGED <<editing, armed, profiles, chosen, gone, asks>>

Saved(r) == then[r] = "saved" /\ stage[r] = "ok" /\ Load(r, answer[r][1].id)

Deleted(r) == then[r] = "deleted" /\ stage[r] = "ok" /\ Load(r, NoId)

Loading(r) ==
  /\ then[r] = "load"
  /\ \E rest \in Rests : Send(r, "list", NoId, rest, NoPassword, FALSE, "loaded", wanted[r])
  /\ UNCHANGED <<open, editing, armed, profiles, chosen, sure, gone, asks>>

\* The slot is free again.
Leave(r) ==
  /\ Taken(r)
  /\ then' = [then EXCEPT ![r] = "nothing"]
  /\ wanted' = [wanted EXCEPT ![r] = NoId]

Loaded(r) ==
  /\ then[r] = "loaded" /\ stage[r] = "ok"
  /\ Leave(r)
  /\ profiles' = answer[r]
  /\ \E last \in used \cup {NoId} :
       LET id == IF wanted[r] # NoId THEN wanted[r] ELSE IF chosen # NoId THEN chosen ELSE last
       IN  chosen' = IF Store!Has(profiles', id) THEN id
                     ELSE IF profiles' # <<>> THEN profiles'[1].id ELSE NoId
  /\ UNCHANGED <<open, editing, armed, sure, gone, asks>>

\* An error is shown, and the dialog stays open if it is.
Failed(r) ==
  /\ then[r] \in {"saved", "deleted", "loaded"} /\ stage[r] \in {"error", "lost"}
  /\ Leave(r)
  /\ UNCHANGED <<open, editing, armed, profiles, chosen, sure, gone, asks>>

Done(r) ==
  /\ then[r] = "elsewhere"
  /\ Leave(r)
  /\ UNCHANGED <<open, editing, armed, profiles, chosen, sure, gone, asks>>

User ==
  \/ New \/ Edit \/ Cancel \/ ArmDelete
  \/ \E r \in Reqs, rest \in Rests, password \in Passwords \cup {NoPassword}, clear \in BOOLEAN :
       Submit(r, rest, password, clear)
  \/ \E r \in Reqs : ConfirmDelete(r)
  \/ \E id \in used : Choose(id)
  \/ \E r \in Reqs, op \in {"save", "delete"}, id \in used : Elsewhere(r, op, id)

Server ==
  \/ ((\E r \in Reqs : Handle(r)) \/ Restart) /\ UNCHANGED dvars
  \/ Asks /\ Crash /\ UNCHANGED page

Next ==
  \/ User
  \/ Disarm
  \/ Server
  \/ \E r \in Reqs : Saved(r) \/ Deleted(r) \/ Loading(r) \/ Loaded(r) \/ Failed(r) \/ Done(r)

Spec == Init /\ [][Next]_vars /\ BookFairness

-----------------------------------------------------------------------------
(***************************************************************************)
(* A connection is only deleted by a click on a button that was clicked    *)
(* once before in the same dialog: a button that was armed for another     *)
(* profile, or before the dialog was closed and opened again, is not armed *)
(* any more (app.js:63-84, 1117).                                          *)
(***************************************************************************)
DeleteWasConfirmed == [][\A r \in Reqs : ConfirmDelete(r) => sure]_vars

(***************************************************************************)
(* A saved password only changes or goes if a new one was given or the     *)
(* user name was emptied, although the page does not know it and sends an  *)
(* empty one with every other edit (profiles.go:252-253, app.js:1148).     *)
(***************************************************************************)
PasswordKept ==
  [][\A i \in DOMAIN file.list, j \in DOMAIN file'.list :
       /\ file.list[i].id = file'.list[j].id /\ file.list[i].password # file'.list[j].password
       => \E r \in Reqs : /\ asked[r].op = "save" /\ asked[r].id = file.list[i].id
                           /\ (asked[r].clear \/ asked[r].password # NoPassword)]_vars

(***************************************************************************)
(* A connection that was saved is in the list that is loaded after it, and *)
(* is selected there, whatever else is saved or deleted meanwhile and even *)
(* when the program crashed and was started again in between               *)
(* (app.js:1157, 1016).                                                    *)
(***************************************************************************)
SavedIsSelected ==
  [][\A r \in Reqs : Loaded(r) /\ wanted[r] \notin gone \cup {NoId} => chosen' = wanted[r]]_vars
=============================================================================
