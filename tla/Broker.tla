------------------------------- MODULE Broker -------------------------------
(***************************************************************************)
(* The broker connection, internal/broker/broker.go: a Manager holds at    *)
(* most one autopaho connection manager, and HTTP requests replace or drop *)
(* it.  Its mutex is released while a dropped connection is waited for, so *)
(* requests interleave; each locked section is one step.                   *)
(*                                                                         *)
(* A connection manager (external) connects, reconnects, calls back and    *)
(* delivers messages.  Its callbacks carry the generation they were made   *)
(* for.  The topic store is reduced to the connections whose messages it   *)
(* holds.                                                                  *)
(***************************************************************************)
EXTENDS Integers, Sequences

CONSTANTS
  Reqs,             \* HTTP handler goroutines, each serving request after request
  Profiles,         \* what Connect may be asked to connect to
  MaxRequests,      \* bound: requests served
  MaxSessions,      \* bound: times one connection manager gets through
  DisconnectTimesOut  \* whether cm.Disconnect may give up after its two seconds

ASSUME BrokerAssumption ==
  /\ MaxRequests \in Nat
  /\ MaxSessions \in Nat
  /\ DisconnectTimesOut \in BOOLEAN

VARIABLES
  gen, cm, status,  \* the Manager; m.cancel is set and cleared with m.cm
  req,              \* per handler: where it is, and the manager it took
  mgr,              \* the connection managers started, in order
  subs,             \* subscribe goroutines that wait for an answer
  closing,          \* OnServerDisconnect goroutines that have not run
  held,             \* the managers whose messages the topic tree holds
  served            \* requests begun

vars == <<gen, cm, status, req, mgr, subs, closing, held, served>>

NoManager == 0
NoProfile == "none"
Managers == DOMAIN mgr

Disconnected(why) ==
  [state |-> "disconnected", profile |-> NoProfile, error |-> why, subErrors |-> FALSE]

Connecting(p) == [state |-> "connecting", profile |-> p, error |-> "", subErrors |-> FALSE]

Idle == [pc |-> "idle", op |-> "none", profile |-> NoProfile, took |-> NoManager]

NewManager(g, p) ==
  [gen |-> g, profile |-> p, life |-> "running", link |-> "down", session |-> 0, call |-> "none"]

Init ==
  /\ gen = 0
  /\ cm = NoManager
  /\ status = Disconnected("")
  /\ req = [r \in Reqs |-> Idle]
  /\ mgr = <<>>
  /\ subs = {}
  /\ closing = {}
  /\ held = {}
  /\ served = 0

-----------------------------------------------------------------------------
(***************************************************************************)
(* The requests.  The mutex is free between steps: no handler keeps it     *)
(* while it waits.                                                         *)
(***************************************************************************)
MutexFreeUnlessWaiting == \A r \in Reqs : req[r].pc # "waiting"   \* mutant

MutexFree == TRUE

Begin(r, op, p) ==
  /\ req[r].pc = "idle"
  /\ served < MaxRequests
  /\ served' = served + 1
  /\ req' = [req EXCEPT ![r] = [Idle EXCEPT !.pc = "dropping", !.op = op, !.profile = p]]
  /\ UNCHANGED <<gen, cm, status, mgr, subs, closing, held>>

\* Connect goes on after its Disconnect, a Disconnect request is done.
AfterDrop(rq) == [rq EXCEPT !.pc = IF rq.op = "connect" THEN "resetting" ELSE "idle",
                            !.took = NoManager]

\* The locked section, and the call of cm.Disconnect that follows it: a
\* manager that is told to stop starts no new attempt.  An attempt that begins
\* between the two looks at nothing the section changes: it is one that began before.
Told(k) == IF k = NoManager THEN mgr ELSE [mgr EXCEPT ![k].life = "stopping"]

DropKeepingGen(r) ==   \* mutant: m.gen is not bumped
  /\ req[r].pc = "dropping"
  /\ MutexFree
  /\ cm' = NoManager
  /\ status' = Disconnected("")
  /\ mgr' = Told(cm)
  /\ req' = [req EXCEPT ![r] = IF cm = NoManager THEN AfterDrop(@)
                               ELSE [@ EXCEPT !.pc = "waiting", !.took = cm]]
  /\ UNCHANGED <<gen, subs, closing, held, served>>

DropLeaking(r) ==   \* mutant: the manager is forgotten, not disconnected
  /\ req[r].pc = "dropping"
  /\ MutexFree
  /\ cm' = NoManager
  /\ gen' = gen + 1
  /\ status' = Disconnected("")
  /\ req' = [req EXCEPT ![r] = AfterDrop(@)]
  /\ UNCHANGED <<mgr, subs, closing, held, served>>

Drop(r) ==
  /\ req[r].pc = "dropping"
  /\ MutexFree
  /\ cm' = NoManager
  /\ gen' = gen + 1
  /\ status' = Disconnected("")
  /\ mgr' = Told(cm)
  /\ req' = [req EXCEPT ![r] = IF cm = NoManager THEN AfterDrop(@)
                               ELSE [@ EXCEPT !.pc = "waiting", !.took = cm]]
  /\ UNCHANGED <<subs, closing, held, served>>

\* cm.Disconnect returns when the connection manager has shut down, which it
\* does between callbacks.
DropEnds(r) ==
  /\ req[r].pc = "waiting"
  /\ mgr[req[r].took].call = "none"
  /\ mgr' = [mgr EXCEPT ![req[r].took] = [@ EXCEPT !.life = "stopped", !.link = "down"]]
  /\ req' = [req EXCEPT ![r] = AfterDrop(@)]
  /\ UNCHANGED <<gen, cm, status, subs, closing, held, served>>

\* Its context expires instead; cancel() ends the manager soon after.
DropTimesOut(r) ==
  /\ DisconnectTimesOut
  /\ req[r].pc = "waiting"
  /\ mgr' = [mgr EXCEPT ![req[r].took].life = "cancelled"]
  /\ req' = [req EXCEPT ![r] = AfterDrop(@)]
  /\ UNCHANGED <<gen, cm, status, subs, closing, held, served>>

ResetNothing(r) ==   \* mutant: the tree of the old connection is kept
  /\ req[r].pc = "resetting"
  /\ req' = [req EXCEPT ![r].pc = "starting"]
  /\ UNCHANGED <<gen, cm, status, mgr, subs, closing, held, served>>

ResetStore(r) ==
  /\ req[r].pc = "resetting"
  /\ held' = {}
  /\ req' = [req EXCEPT ![r].pc = "starting"]
  /\ UNCHANGED <<gen, cm, status, mgr, subs, closing, served>>

Start(r) ==
  /\ req[r].pc = "starting"
  /\ MutexFree
  /\ gen' = gen + 1
  /\ status' = Connecting(req[r].profile)
  /\ mgr' = Append(mgr, NewManager(gen + 1, req[r].profile))
  /\ cm' = Len(mgr) + 1
  /\ req' = [req EXCEPT ![r] = Idle]
  /\ UNCHANGED <<subs, closing, held, served>>

\* autopaho.NewConnection refuses the configuration.
StartFails(r) ==
  /\ req[r].pc = "starting"
  /\ MutexFree
  /\ gen' = gen + 1
  /\ status' = Disconnected("refused")
  /\ req' = [req EXCEPT ![r] = Idle]
  /\ UNCHANGED <<cm, mgr, subs, closing, held, served>>

-----------------------------------------------------------------------------
(***************************************************************************)
(* The connection managers.  update is the closure that all callbacks go   *)
(* through: it changes the status only for the current generation.         *)
(***************************************************************************)
Update(k, s) == status' = IF mgr[k].gen = gen THEN s ELSE status

CanConnect(k) ==
  mgr[k].life = "running" /\ mgr[k].link = "down" /\ mgr[k].call = "none"

GetsThrough(k) ==
  /\ CanConnect(k)
  /\ mgr[k].session < MaxSessions
  /\ mgr' = [mgr EXCEPT ![k] = [@ EXCEPT !.link = "up", !.call = "up", !.session = mgr[k].session + 1]]
  /\ UNCHANGED <<gen, cm, status, req, subs, closing, held, served>>

AttemptFails(k) ==
  /\ CanConnect(k)
  /\ mgr' = [mgr EXCEPT ![k].call = "error"]
  /\ UNCHANGED <<gen, cm, status, req, subs, closing, held, served>>

\* The connection is lost, with or without a DISCONNECT packet from the broker.
LinkDrops(k) ==
  /\ mgr[k].link = "up" /\ mgr[k].call = "none"
  /\ mgr' = [mgr EXCEPT ![k] = [@ EXCEPT !.link = "down", !.call = "down"]]
  /\ closing' \in {closing, closing \cup {k}}
  /\ UNCHANGED <<gen, cm, status, req, subs, held, served>>

OnConnectionUp(k) ==
  /\ mgr[k].call = "up"
  /\ MutexFree
  /\ Update(k, [status EXCEPT !.state = "connected", !.error = "", !.subErrors = FALSE])
  /\ subs' = subs \cup {<<k, mgr[k].session>>}
  /\ mgr' = [mgr EXCEPT ![k].call = "none"]
  /\ UNCHANGED <<gen, cm, req, closing, held, served>>

OnConnectionDown(k) ==
  /\ mgr[k].call = "down"
  /\ MutexFree
  /\ Update(k, [status EXCEPT !.state = "connecting", !.error = "lost"])
  /\ mgr' = [mgr EXCEPT ![k].call = "none"]
  /\ UNCHANGED <<gen, cm, req, subs, closing, held, served>>

OnConnectError(k) ==
  /\ mgr[k].call = "error"
  /\ MutexFree
  /\ Update(k, [status EXCEPT !.state = "connecting", !.error = "failed"])
  /\ mgr' = [mgr EXCEPT ![k].call = "none"]
  /\ UNCHANGED <<gen, cm, req, subs, closing, held, served>>

OnServerDisconnect(k) ==
  /\ k \in closing
  /\ MutexFree
  /\ Update(k, [status EXCEPT !.error = "closed"])
  /\ closing' = closing \ {k}
  /\ UNCHANGED <<gen, cm, req, mgr, subs, held, served>>

\* The subscribe goroutine of a session gets its answer, or none in ten
\* seconds; subErrors says whether filters were rejected.
SubscribeEnds(k, session) ==
  /\ <<k, session>> \in subs
  /\ MutexFree
  /\ \E failed \in BOOLEAN : Update(k, [status EXCEPT !.subErrors = failed])
  /\ subs' = subs \ {<<k, session>>}
  /\ UNCHANGED <<gen, cm, req, mgr, closing, held, served>>

\* ingest() does not look at the generation.
Deliver(k) ==
  /\ mgr[k].link = "up"
  /\ held' = held \cup {k}
  /\ UNCHANGED <<gen, cm, status, req, mgr, subs, closing, served>>

\* A cancelled manager ends by itself.
Ends(k) ==
  /\ mgr[k].life = "cancelled" /\ mgr[k].call = "none"
  /\ mgr' = [mgr EXCEPT ![k] = [@ EXCEPT !.life = "stopped", !.link = "down"]]
  /\ UNCHANGED <<gen, cm, status, req, subs, closing, held, served>>

-----------------------------------------------------------------------------
HandlerStep(r) ==
  \/ Drop(r)
  \/ DropEnds(r)
  \/ ResetStore(r)
  \/ Start(r)
  \/ StartFails(r)

Callback(k) ==
  \/ OnConnectionUp(k)
  \/ OnConnectionDown(k)
  \/ OnConnectError(k)
  \/ OnServerDisconnect(k)
  \/ \E session \in 1..MaxSessions : SubscribeEnds(k, session)

Environment(k) ==
  \/ GetsThrough(k)
  \/ AttemptFails(k)
  \/ LinkDrops(k)
  \/ Deliver(k)
  \/ Ends(k)

Next ==
  \/ \E r \in Reqs : \/ \E p \in Profiles : Begin(r, "connect", p)
                     \/ Begin(r, "disconnect", NoProfile)
                     \/ HandlerStep(r)
                     \/ DropTimesOut(r)
  \/ \E k \in Managers : Callback(k) \/ Environment(k)

Spec == Init /\ [][Next]_vars

\* Goroutines that can run do; nothing is assumed of the broker or the user.
Fairness ==
  /\ \A r \in Reqs : WF_vars(HandlerStep(r))
  /\ \A k \in 1..MaxRequests : WF_vars(k \in Managers /\ Callback(k))

-----------------------------------------------------------------------------
ManagerRecord ==
  [gen : Nat, profile : Profiles, life : {"running", "stopping", "cancelled", "stopped"},
   link : {"up", "down"}, session : 0..MaxSessions, call : {"none", "up", "down", "error"}]

TypeOK ==
  /\ gen \in Nat
  /\ mgr \in Seq(ManagerRecord)
  /\ cm \in Managers \cup {NoManager}
  /\ status \in [state : {"disconnected", "connecting", "connected"},
                 profile : Profiles \cup {NoProfile},
                 error : {"", "lost", "failed", "closed", "refused"},
                 subErrors : BOOLEAN]
  /\ req \in [Reqs -> [pc : {"idle", "dropping", "waiting", "resetting", "starting"},
                       op : {"none", "connect", "disconnect"},
                       profile : Profiles \cup {NoProfile},
                       took : Managers \cup {NoManager}]]
  /\ subs \subseteq Managers \X (1..MaxSessions)
  /\ closing \subseteq Managers
  /\ held \subseteq Managers
  /\ \A r \in Reqs : (req[r].pc = "waiting") <=> (req[r].took # NoManager)

(***************************************************************************)
(* The status describes the manager's own connection: a callback of a      *)
(* connection that was dropped or replaced never shows (broker.go:44,      *)
(* "so stale callbacks are ignored").  A status other than disconnected    *)
(* names the profile of the current manager, and "connected" means its     *)
(* link is up or its loss is about to be reported; a disconnected status   *)
(* shows no connection's error or rejected filters.                        *)
(***************************************************************************)
StatusDescribesConnection ==
  IF status.state = "disconnected"
  THEN status.error \in {"", "refused"} /\ ~status.subErrors
  ELSE /\ cm # NoManager
       /\ mgr[cm].gen = gen
       /\ status.profile = mgr[cm].profile
       /\ status.state = "connected" => mgr[cm].link = "up" \/ mgr[cm].call = "down"

(***************************************************************************)
(* A connection manager that nobody has told to stop is the one the        *)
(* Manager can still stop: "Connect drops the current connection"          *)
(* (broker.go:60), "Disconnect closes the connection" (broker.go:226).     *)
(***************************************************************************)
OneConnection == \A k \in Managers : mgr[k].life = "running" => k = cm

(***************************************************************************)
(* While connected or connecting, the tree holds only messages of this     *)
(* connection: "Connect drops the current connection and topic tree"       *)
(* (broker.go:60).                                                         *)
(***************************************************************************)
TreeOfOneBroker == cm # NoManager => held \subseteq {cm}

(***************************************************************************)
(* Every request is answered: a handler waits for a connection to shut     *)
(* down while that connection's callbacks take the mutex, so it must not   *)
(* hold the mutex itself (broker.go:228-241).                              *)
(***************************************************************************)
RequestsEnd == \A r \in Reqs : req[r].pc # "idle" ~> req[r].pc = "idle"
=============================================================================
