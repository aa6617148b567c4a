---------------------------- MODULE Broker_proofs ----------------------------
(***************************************************************************)
(* Proofs about the broker connection, for any number of handlers,         *)
(* profiles, requests and sessions, with or without disconnects that time  *)
(* out.                                                                    *)
(***************************************************************************)
EXTENDS MCBroker, TLAPS

(***************************************************************************)
(* A handler that is about to start a connection was asked for one.        *)
(***************************************************************************)
Profiled ==
  \A r \in Reqs :
    /\ req[r].op = "connect" => req[r].profile \in Profiles
    /\ req[r].pc \in {"resetting", "starting"} => req[r].op = "connect"

(***************************************************************************)
(* Only the manager in cm can have the current generation, and only while  *)
(* the status is not disconnected; managers that were told to stop, and    *)
(* those a handler waits for, have an older one.                           *)
(***************************************************************************)
Generations ==
  /\ \A k \in Managers :
       /\ mgr[k].gen <= gen
       /\ mgr[k].gen = gen => cm = k /\ status.state # "disconnected"
       /\ mgr[k].call = "up" => mgr[k].link = "up" /\ mgr[k].session \in 1..MaxSessions
       /\ mgr[k].life = "cancelled" => mgr[k].gen # gen
  /\ \A r \in Reqs : req[r].pc = "waiting" => mgr[req[r].took].gen # gen

IInv == TypeOK /\ Profiled /\ Generations /\ StatusDescribesConnection

-----------------------------------------------------------------------------
(* Managers are numbered from 1; 0 is none of them. *)
LEMMA ManagerNumbers ==
  ASSUME NEW s \in Seq(ManagerRecord)
  PROVE  DOMAIN s = 1..Len(s) /\ Len(s) \in Nat /\ NoManager \notin DOMAIN s
BY DEF NoManager

(* The fields of a manager. *)
LEMMA ManagerFields ==
  ASSUME mgr \in Seq(ManagerRecord), NEW k \in Managers
  PROVE  /\ mgr[k] \in ManagerRecord
         /\ mgr[k].gen \in Nat /\ mgr[k].profile \in Profiles
         /\ mgr[k].life \in {"running", "stopping", "cancelled", "stopped"}
         /\ mgr[k].link \in {"up", "down"} /\ mgr[k].session \in 0..MaxSessions
         /\ mgr[k].call \in {"none", "up", "down", "error"}
         /\ mgr[k] = [gen |-> mgr[k].gen, profile |-> mgr[k].profile, life |-> mgr[k].life,
                      link |-> mgr[k].link, session |-> mgr[k].session, call |-> mgr[k].call]
<1>1. mgr[k] \in ManagerRecord
  BY DEF Managers
<1> QED
  BY <1>1 DEF ManagerRecord

(* Updates of several fields of a manager. *)
LEMMA ManagerUpdates ==
  ASSUME NEW m \in ManagerRecord, NEW n
  PROVE  /\ [m EXCEPT !.link = "up", !.call = "up", !.session = n]
              = [gen |-> m.gen, profile |-> m.profile, life |-> m.life,
                 link |-> "up", session |-> n, call |-> "up"]
         /\ [m EXCEPT !.link = "down", !.call = "down"]
              = [gen |-> m.gen, profile |-> m.profile, life |-> m.life,
                 link |-> "down", session |-> m.session, call |-> "down"]
         /\ [m EXCEPT !.life = "stopped", !.link = "down"]
              = [gen |-> m.gen, profile |-> m.profile, life |-> "stopped",
                 link |-> "down", session |-> m.session, call |-> m.call]
<1>1. m = [gen |-> m.gen, profile |-> m.profile, life |-> m.life,
           link |-> m.link, session |-> m.session, call |-> m.call]
  BY DEF ManagerRecord
<1>2. ASSUME NEW v, v = [m EXCEPT !.link = "up", !.call = "up", !.session = n]
      PROVE  v = [gen |-> m.gen, profile |-> m.profile, life |-> m.life,
                  link |-> "up", session |-> n, call |-> "up"]
  BY <1>1, <1>2
<1>3. ASSUME NEW v, v = [m EXCEPT !.link = "down", !.call = "down"]
      PROVE  v = [gen |-> m.gen, profile |-> m.profile, life |-> m.life,
                  link |-> "down", session |-> m.session, call |-> "down"]
  BY <1>1, <1>3
<1>4. ASSUME NEW v, v = [m EXCEPT !.life = "stopped", !.link = "down"]
      PROVE  v = [gen |-> m.gen, profile |-> m.profile, life |-> "stopped",
                  link |-> "down", session |-> m.session, call |-> m.call]
  BY <1>1, <1>4
<1> QED
  BY <1>2, <1>3, <1>4, Zenon

(* What replacing one manager's record leaves as it was. *)
LEMMA ManagerChanged ==
  ASSUME mgr \in Seq(ManagerRecord), NEW k \in Managers, NEW x \in ManagerRecord,
         mgr' = [mgr EXCEPT ![k] = x]
  PROVE  /\ mgr' \in Seq(ManagerRecord)
         /\ Managers' = Managers
         /\ mgr'[k] = x
         /\ \A j \in Managers : j # k => mgr'[j] = mgr[j]
BY DEF Managers

(* The fields of a handler. *)
LEMMA RequestFields ==
  ASSUME TypeOK, NEW r \in Reqs
  PROVE  /\ req[r].pc \in {"idle", "dropping", "waiting", "resetting", "starting"}
         /\ req[r].op \in {"none", "connect", "disconnect"}
         /\ req[r].profile \in Profiles \cup {NoProfile}
         /\ req[r].took \in Managers \cup {NoManager}
         /\ req[r] = [pc |-> req[r].pc, op |-> req[r].op, profile |-> req[r].profile,
                      took |-> req[r].took]
BY DEF TypeOK

-----------------------------------------------------------------------------
(***************************************************************************)
(* A step of manager k alone, which leaves it as x: it may change the      *)
(* status only while k has the current generation, and then truthfully.    *)
(***************************************************************************)
StatusRecord ==
  [state : {"disconnected", "connecting", "connected"}, profile : Profiles \cup {NoProfile},
   error : {"", "lost", "failed", "closed", "refused"}, subErrors : BOOLEAN]

ManagerStep(k, x) ==
  /\ mgr' = [mgr EXCEPT ![k] = x]
  /\ x.gen = mgr[k].gen /\ x.profile = mgr[k].profile
  /\ x.call = "up" => x.link = "up" /\ x.session \in 1..MaxSessions
  /\ x.life = "cancelled" => x.gen # gen
  /\ UNCHANGED <<gen, cm, req>>
  /\ subs' \subseteq Managers \X (1..MaxSessions)
  /\ closing' \subseteq Managers /\ held' \subseteq Managers
  /\ status' \in StatusRecord
  /\ mgr[k].gen # gen => status' = status
  /\ mgr[k].gen = gen =>
       /\ status'.state # "disconnected"
       /\ status'.profile = status.profile
       /\ status'.state = "connected" => x.link = "up" \/ x.call = "down"

LEMMA OneManagerStep ==
  ASSUME IInv, NEW k \in Managers, NEW x \in ManagerRecord, ManagerStep(k, x)
  PROVE  IInv'
<1> USE DEF ManagerStep
<1>1. mgr \in Seq(ManagerRecord) /\ gen \in Nat /\ cm \in Managers \cup {NoManager}
  BY DEF IInv, TypeOK
<1>2. /\ mgr' \in Seq(ManagerRecord) /\ Managers' = Managers /\ mgr'[k] = x
      /\ \A j \in Managers : j # k => mgr'[j] = mgr[j]
  BY <1>1, ManagerChanged
<1>3. NoManager \notin Managers
  BY <1>1, ManagerNumbers DEF Managers
<1>4. TypeOK'
  BY <1>1, <1>2 DEF IInv, TypeOK, StatusRecord
<1>5. Profiled'
  BY DEF IInv, Profiled
<1>6. Generations'
  <2>1. ASSUME NEW j \in Managers
        PROVE  /\ mgr'[j].gen = mgr[j].gen
               /\ mgr'[j].call = "up" => mgr'[j].link = "up" /\ mgr'[j].session \in 1..MaxSessions
               /\ mgr'[j].life = "cancelled" => mgr'[j].gen # gen
               /\ mgr'[j].gen <= gen
               /\ mgr'[j].gen = gen => cm = j /\ status'.state # "disconnected"
    BY <1>2 DEF IInv, Generations
  <2>2. ASSUME NEW r \in Reqs, req[r].pc = "waiting"
        PROVE  mgr'[req[r].took].gen # gen
    <3>1. req[r].took \in Managers
      BY <2>2, RequestFields, <1>3 DEF IInv, TypeOK
    <3> QED
      BY <2>1, <2>2, <3>1 DEF IInv, Generations
  <2> QED
    BY <2>1, <2>2, <1>2 DEF Generations
<1>7. StatusDescribesConnection'
  <2>1. CASE mgr[k].gen = gen
    <3>1. cm = k /\ status.state # "disconnected"
      BY <2>1 DEF IInv, Generations
    <3> QED
      BY <2>1, <3>1, <1>2 DEF IInv, StatusDescribesConnection
  <2>2. CASE mgr[k].gen # gen
    <3>1. status.state # "disconnected" => cm \in Managers /\ cm # k
      BY <2>2, <1>1 DEF IInv, StatusDescribesConnection
    <3> QED
      BY <2>2, <3>1, <1>2 DEF IInv, StatusDescribesConnection
  <2> QED
    BY <2>1, <2>2
<1> QED
  BY <1>4, <1>5, <1>6, <1>7 DEF IInv

(* A connection is established: its callback is still to come. *)
LEMMA GetsThroughStep == ASSUME IInv, NEW k \in Managers, GetsThrough(k) PROVE IInv'
<1> DEFINE x == [gen |-> mgr[k].gen, profile |-> mgr[k].profile, life |-> mgr[k].life,
                link |-> "up", session |-> mgr[k].session + 1, call |-> "up"]
<1>1. mgr \in Seq(ManagerRecord) /\ gen \in Nat
  BY DEF IInv, TypeOK
<1>0. mgr[k].session + 1 \in 1..MaxSessions
  <2>1. mgr[k].session \in 0..MaxSessions
    BY <1>1, ManagerFields
  <2>2. mgr[k].session < MaxSessions
    BY DEF GetsThrough
  <2> QED
    BY <2>1, <2>2, BrokerAssumption
<1>2. mgr' = [mgr EXCEPT ![k] = x]
  <2>1. mgr[k] \in ManagerRecord
    BY <1>1, ManagerFields
  <2>2. [mgr[k] EXCEPT !.link = "up", !.call = "up", !.session = mgr[k].session + 1] = x
    BY <2>1, ManagerUpdates
  <2>3. mgr' = [mgr EXCEPT ![k] = [mgr[k] EXCEPT !.link = "up", !.call = "up", !.session = mgr[k].session + 1]]
    BY DEF GetsThrough
  <2> QED
    BY <2>2, <2>3, Zenon
<1>3. x \in ManagerRecord
  <2>1. mgr[k].session + 1 \in 0..MaxSessions
    BY <1>0
  <2> QED
    BY <1>1, <2>1, ManagerFields DEF ManagerRecord
<1>4. x.gen = mgr[k].gen /\ x.profile = mgr[k].profile
  OBVIOUS
<1>5. /\ x.call = "up" => x.link = "up" /\ x.session \in 1..MaxSessions
      /\ x.life = "cancelled" => x.gen # gen
  <2>1. x.link = "up" /\ x.session \in 1..MaxSessions
    BY <1>0
  <2>2. x.life # "cancelled"
    BY DEF GetsThrough, CanConnect
  <2> QED
    BY <2>1, <2>2
<1>6. UNCHANGED <<gen, cm, req>>
  BY DEF GetsThrough
<1>7. /\ subs' \subseteq Managers \X (1..MaxSessions)
      /\ closing' \subseteq Managers /\ held' \subseteq Managers
  BY <1>1, ManagerFields DEF GetsThrough, IInv, TypeOK
<1>8. /\ status' \in StatusRecord
      /\ mgr[k].gen # gen => status' = status
  BY DEF GetsThrough, Update, MutexFree, IInv, TypeOK, StatusRecord
<1>9. mgr[k].gen = gen =>
        /\ status'.state # "disconnected"
        /\ status'.profile = status.profile
        /\ status'.state = "connected" => x.link = "up" \/ x.call = "down"
  BY DEF GetsThrough, CanConnect, Update, IInv, TypeOK, Generations, StatusDescribesConnection
<1> HIDE DEF x
<1>10. ManagerStep(k, x)
  BY <1>2, <1>4, <1>5, <1>6, <1>7, <1>8, <1>9 DEF ManagerStep
<1> QED
  BY <1>3, <1>10, OneManagerStep

(* An attempt to connect fails. *)
LEMMA AttemptFailsStep == ASSUME IInv, NEW k \in Managers, AttemptFails(k) PROVE IInv'
<1> DEFINE x == [gen |-> mgr[k].gen, profile |-> mgr[k].profile, life |-> mgr[k].life,
                link |-> mgr[k].link, session |-> mgr[k].session, call |-> "error"]
<1>1. mgr \in Seq(ManagerRecord) /\ gen \in Nat
  BY DEF IInv, TypeOK
<1>2. mgr' = [mgr EXCEPT ![k] = x]
  <2>1. mgr[k] \in ManagerRecord
    BY <1>1, ManagerFields
  <2>2. [mgr[k] EXCEPT !.call = "error"] = x
    BY <2>1 DEF ManagerRecord
  <2>3. mgr' = [mgr EXCEPT ![k] = [mgr[k] EXCEPT !.call = "error"]]
    BY DEF AttemptFails
  <2> QED
    BY <2>2, <2>3, Zenon
<1>3. x \in ManagerRecord
  BY <1>1, ManagerFields, BrokerAssumption DEF AttemptFails, CanConnect, ManagerRecord
<1>4. x.gen = mgr[k].gen /\ x.profile = mgr[k].profile
  OBVIOUS
<1>5. /\ x.call = "up" => x.link = "up" /\ x.session \in 1..MaxSessions
      /\ x.life = "cancelled" => x.gen # gen
  BY DEF AttemptFails, CanConnect, IInv, Generations
<1>6. UNCHANGED <<gen, cm, req>>
  BY DEF AttemptFails
<1>7. /\ subs' \subseteq Managers \X (1..MaxSessions)
      /\ closing' \subseteq Managers /\ held' \subseteq Managers
  BY <1>1, ManagerFields DEF AttemptFails, IInv, TypeOK
<1>8. /\ status' \in StatusRecord
      /\ mgr[k].gen # gen => status' = status
  BY DEF AttemptFails, Update, MutexFree, IInv, TypeOK, StatusRecord
<1>9. mgr[k].gen = gen =>
        /\ status'.state # "disconnected"
        /\ status'.profile = status.profile
        /\ status'.state = "connected" => x.link = "up" \/ x.call = "down"
  BY DEF AttemptFails, CanConnect, Update, IInv, TypeOK, Generations, StatusDescribesConnection
<1> HIDE DEF x
<1>10. ManagerStep(k, x)
  BY <1>2, <1>4, <1>5, <1>6, <1>7, <1>8, <1>9 DEF ManagerStep
<1> QED
  BY <1>3, <1>10, OneManagerStep

(* The connection is lost: "connected" stays until the callback says so. *)
LEMMA LinkDropsStep == ASSUME IInv, NEW k \in Managers, LinkDrops(k) PROVE IInv'
<1> DEFINE x == [gen |-> mgr[k].gen, profile |-> mgr[k].profile, life |-> mgr[k].life,
                link |-> "down", session |-> mgr[k].session, call |-> "down"]
<1>1. mgr \in Seq(ManagerRecord) /\ gen \in Nat
  BY DEF IInv, TypeOK
<1>2. mgr' = [mgr EXCEPT ![k] = x]
  <2>1. mgr[k] \in ManagerRecord
    BY <1>1, ManagerFields
  <2>2. [mgr[k] EXCEPT !.link = "down", !.call = "down"] = x
    BY <2>1, ManagerUpdates
  <2>3. mgr' = [mgr EXCEPT ![k] = [mgr[k] EXCEPT !.link = "down", !.call = "down"]]
    BY DEF LinkDrops
  <2> QED
    BY <2>2, <2>3, Zenon
<1>3. x \in ManagerRecord
  BY <1>1, ManagerFields, BrokerAssumption DEF LinkDrops, ManagerRecord
<1>4. x.gen = mgr[k].gen /\ x.profile = mgr[k].profile
  OBVIOUS
<1>5. /\ x.call = "up" => x.link = "up" /\ x.session \in 1..MaxSessions
      /\ x.life = "cancelled" => x.gen # gen
  BY DEF LinkDrops, IInv, Generations
<1>6. UNCHANGED <<gen, cm, req>>
  BY DEF LinkDrops
<1>7. /\ subs' \subseteq Managers \X (1..MaxSessions)
      /\ closing' \subseteq Managers /\ held' \subseteq Managers
  BY <1>1, ManagerFields DEF LinkDrops, IInv, TypeOK
<1>8. /\ status' \in StatusRecord
      /\ mgr[k].gen # gen => status' = status
  BY DEF LinkDrops, Update, MutexFree, IInv, TypeOK, StatusRecord
<1>9. mgr[k].gen = gen =>
        /\ status'.state # "disconnected"
        /\ status'.profile = status.profile
        /\ status'.state = "connected" => x.link = "up" \/ x.call = "down"
  BY DEF LinkDrops, Update, IInv, TypeOK, Generations, StatusDescribesConnection
<1> HIDE DEF x
<1>10. ManagerStep(k, x)
  BY <1>2, <1>4, <1>5, <1>6, <1>7, <1>8, <1>9 DEF ManagerStep
<1> QED
  BY <1>3, <1>10, OneManagerStep

(* The callback of an established connection. *)
LEMMA OnConnectionUpStep == ASSUME IInv, NEW k \in Managers, OnConnectionUp(k) PROVE IInv'
<1> DEFINE x == [gen |-> mgr[k].gen, profile |-> mgr[k].profile, life |-> mgr[k].life,
                link |-> mgr[k].link, session |-> mgr[k].session, call |-> "none"]
<1>1. mgr \in Seq(ManagerRecord) /\ gen \in Nat
  BY DEF IInv, TypeOK
<1>2. mgr' = [mgr EXCEPT ![k] = x]
  <2>1. mgr[k] \in ManagerRecord
    BY <1>1, ManagerFields
  <2>2. [mgr[k] EXCEPT !.call = "none"] = x
    BY <2>1 DEF ManagerRecord
  <2>3. mgr' = [mgr EXCEPT ![k] = [mgr[k] EXCEPT !.call = "none"]]
    BY DEF OnConnectionUp
  <2> QED
    BY <2>2, <2>3, Zenon
<1>3. x \in ManagerRecord
  BY <1>1, ManagerFields, BrokerAssumption DEF OnConnectionUp, ManagerRecord
<1>4. x.gen = mgr[k].gen /\ x.profile = mgr[k].profile
  OBVIOUS
<1>5. /\ x.call = "up" => x.link = "up" /\ x.session \in 1..MaxSessions
      /\ x.life = "cancelled" => x.gen # gen
  BY DEF OnConnectionUp, IInv, Generations
<1>6. UNCHANGED <<gen, cm, req>>
  BY DEF OnConnectionUp
<1>7. /\ subs' \subseteq Managers \X (1..MaxSessions)
      /\ closing' \subseteq Managers /\ held' \subseteq Managers
  <2>1. mgr[k].session \in 1..MaxSessions
    BY DEF OnConnectionUp, IInv, Generations
  <2>2. <<k, mgr[k].session>> \in Managers \X (1..MaxSessions)
    BY <2>1
  <2> QED
    BY <2>2 DEF OnConnectionUp, IInv, TypeOK
<1>8. /\ status' \in StatusRecord
      /\ mgr[k].gen # gen => status' = status
  BY DEF OnConnectionUp, Update, MutexFree, IInv, TypeOK, StatusRecord
<1>9. mgr[k].gen = gen =>
        /\ status'.state # "disconnected"
        /\ status'.profile = status.profile
        /\ status'.state = "connected" => x.link = "up" \/ x.call = "down"
  BY DEF OnConnectionUp, Update, IInv, TypeOK, Generations, StatusDescribesConnection
<1> HIDE DEF x
<1>10. ManagerStep(k, x)
  BY <1>2, <1>4, <1>5, <1>6, <1>7, <1>8, <1>9 DEF ManagerStep
<1> QED
  BY <1>3, <1>10, OneManagerStep

(* The callback of a lost connection. *)
LEMMA OnConnectionDownStep == ASSUME IInv, NEW k \in Managers, OnConnectionDown(k) PROVE IInv'
<1> DEFINE x == [gen |-> mgr[k].gen, profile |-> mgr[k].profile, life |-> mgr[k].life,
                link |-> mgr[k].link, session |-> mgr[k].session, call |-> "none"]
<1>1. mgr \in Seq(ManagerRecord) /\ gen \in Nat
  BY DEF IInv, TypeOK
<1>2. mgr' = [mgr EXCEPT ![k] = x]
  <2>1. mgr[k] \in ManagerRecord
    BY <1>1, ManagerFields
  <2>2. [mgr[k] EXCEPT !.call = "none"] = x
    BY <2>1 DEF ManagerRecord
  <2>3. mgr' = [mgr EXCEPT ![k] = [mgr[k] EXCEPT !.call = "none"]]
    BY DEF OnConnectionDown
  <2> QED
    BY <2>2, <2>3, Zenon
<1>3. x \in ManagerRecord
  BY <1>1, ManagerFields, BrokerAssumption DEF OnConnectionDown, ManagerRecord
<1>4. x.gen = mgr[k].gen /\ x.profile = mgr[k].profile
  OBVIOUS
<1>5. /\ x.call = "up" => x.link = "up" /\ x.session \in 1..MaxSessions
      /\ x.life = "cancelled" => x.gen # gen
  BY DEF OnConnectionDown, IInv, Generations
<1>6. UNCHANGED <<gen, cm, req>>
  BY DEF OnConnectionDown
<1>7. /\ subs' \subseteq Managers \X (1..MaxSessions)
      /\ closing' \subseteq Managers /\ held' \subseteq Managers
  BY <1>1, ManagerFields DEF OnConnectionDown, IInv, TypeOK
<1>8. /\ status' \in StatusRecord
      /\ mgr[k].gen # gen => status' = status
  BY DEF OnConnectionDown, Update, MutexFree, IInv, TypeOK, StatusRecord
<1>9. mgr[k].gen = gen =>
        /\ status'.state # "disconnected"
        /\ status'.profile = status.profile
        /\ status'.state = "connected" => x.link = "up" \/ x.call = "down"
  BY DEF OnConnectionDown, Update, IInv, TypeOK, Generations, StatusDescribesConnection
<1> HIDE DEF x
<1>10. ManagerStep(k, x)
  BY <1>2, <1>4, <1>5, <1>6, <1>7, <1>8, <1>9 DEF ManagerStep
<1> QED
  BY <1>3, <1>10, OneManagerStep

(* The callback of a failed attempt. *)
LEMMA OnConnectErrorStep == ASSUME IInv, NEW k \in Managers, OnConnectError(k) PROVE IInv'
<1> DEFINE x == [gen |-> mgr[k].gen, profile |-> mgr[k].profile, life |-> mgr[k].life,
                link |-> mgr[k].link, session |-> mgr[k].session, call |-> "none"]
<1>1. mgr \in Seq(ManagerRecord) /\ gen \in Nat
  BY DEF IInv, TypeOK
<1>2. mgr' = [mgr EXCEPT ![k] = x]
  <2>1. mgr[k] \in ManagerRecord
    BY <1>1, ManagerFields
  <2>2. [mgr[k] EXCEPT !.call = "none"] = x
    BY <2>1 DEF ManagerRecord
  <2>3. mgr' = [mgr EXCEPT ![k] = [mgr[k] EXCEPT !.call = "none"]]
    BY DEF OnConnectError
  <2> QED
    BY <2>2, <2>3, Zenon
<1>3. x \in ManagerRecord
  BY <1>1, ManagerFields, BrokerAssumption DEF OnConnectError, ManagerRecord
<1>4. x.gen = mgr[k].gen /\ x.profile = mgr[k].profile
  OBVIOUS
<1>5. /\ x.call = "up" => x.link = "up" /\ x.session \in 1..MaxSessions
      /\ x.life = "cancelled" => x.gen # gen
  BY DEF OnConnectError, IInv, Generations
<1>6. UNCHANGED <<gen, cm, req>>
  BY DEF OnConnectError
<1>7. /\ subs' \subseteq Managers \X (1..MaxSessions)
      /\ closing' \subseteq Managers /\ held' \subseteq Managers
  BY <1>1, ManagerFields DEF OnConnectError, IInv, TypeOK
<1>8. /\ status' \in StatusRecord
      /\ mgr[k].gen # gen => status' = status
  BY DEF OnConnectError, Update, MutexFree, IInv, TypeOK, StatusRecord
<1>9. mgr[k].gen = gen =>
        /\ status'.state # "disconnected"
        /\ status'.profile = status.profile
        /\ status'.state = "connected" => x.link = "up" \/ x.call = "down"
  BY DEF OnConnectError, Update, IInv, TypeOK, Generations, StatusDescribesConnection
<1> HIDE DEF x
<1>10. ManagerStep(k, x)
  BY <1>2, <1>4, <1>5, <1>6, <1>7, <1>8, <1>9 DEF ManagerStep
<1> QED
  BY <1>3, <1>10, OneManagerStep

(* A cancelled manager ends; it is not the current one. *)
LEMMA EndsStep == ASSUME IInv, NEW k \in Managers, Ends(k) PROVE IInv'
<1> DEFINE x == [gen |-> mgr[k].gen, profile |-> mgr[k].profile, life |-> "stopped",
                link |-> "down", session |-> mgr[k].session, call |-> mgr[k].call]
<1>1. mgr \in Seq(ManagerRecord) /\ gen \in Nat
  BY DEF IInv, TypeOK
<1>2. mgr' = [mgr EXCEPT ![k] = x]
  <2>1. mgr[k] \in ManagerRecord
    BY <1>1, ManagerFields
  <2>2. [mgr[k] EXCEPT !.life = "stopped", !.link = "down"] = x
    BY <2>1, ManagerUpdates
  <2>3. mgr' = [mgr EXCEPT ![k] = [mgr[k] EXCEPT !.life = "stopped", !.link = "down"]]
    BY DEF Ends
  <2> QED
    BY <2>2, <2>3, Zenon
<1>3. x \in ManagerRecord
  BY <1>1, ManagerFields, BrokerAssumption DEF Ends, ManagerRecord
<1>4. x.gen = mgr[k].gen /\ x.profile = mgr[k].profile
  OBVIOUS
<1>5. /\ x.call = "up" => x.link = "up" /\ x.session \in 1..MaxSessions
      /\ x.life = "cancelled" => x.gen # gen
  BY DEF Ends, IInv, Generations
<1>6. UNCHANGED <<gen, cm, req>>
  BY DEF Ends
<1>7. /\ subs' \subseteq Managers \X (1..MaxSessions)
      /\ closing' \subseteq Managers /\ held' \subseteq Managers
  BY <1>1, ManagerFields DEF Ends, IInv, TypeOK
<1>8. /\ status' \in StatusRecord
      /\ mgr[k].gen # gen => status' = status
  BY DEF Ends, Update, MutexFree, IInv, TypeOK, StatusRecord
<1>9. mgr[k].gen = gen =>
        /\ status'.state # "disconnected"
        /\ status'.profile = status.profile
        /\ status'.state = "connected" => x.link = "up" \/ x.call = "down"
  BY DEF Ends, Update, IInv, TypeOK, Generations, StatusDescribesConnection
<1> HIDE DEF x
<1>10. ManagerStep(k, x)
  BY <1>2, <1>4, <1>5, <1>6, <1>7, <1>8, <1>9 DEF ManagerStep
<1> QED
  BY <1>3, <1>10, OneManagerStep

(* A manager that keeps its record was not changed. *)
LEMMA ManagerKept ==
  ASSUME mgr \in Seq(ManagerRecord), NEW k \in Managers, mgr' = mgr
  PROVE  mgr' = [mgr EXCEPT ![k] = mgr[k]]
BY DEF Managers

(***************************************************************************)
(* The steps of a manager that leave its record alone: a DISCONNECT packet *)
(* is reported, a subscribe is answered, a message arrives.                *)
(***************************************************************************)
LEMMA QuietManagerStep ==
  ASSUME IInv, NEW k \in Managers,
         \/ OnServerDisconnect(k)
         \/ \E session \in 1..MaxSessions : SubscribeEnds(k, session)
         \/ Deliver(k)
  PROVE  IInv'
<1>1. mgr \in Seq(ManagerRecord)
  BY DEF IInv, TypeOK
<1>2. mgr' = mgr /\ UNCHANGED <<gen, cm, req>>
  BY DEF OnServerDisconnect, SubscribeEnds, Deliver
<1>3. mgr' = [mgr EXCEPT ![k] = mgr[k]]
  BY <1>1, <1>2, ManagerKept
<1>4. mgr[k] \in ManagerRecord
  BY <1>1, ManagerFields
<1>5. /\ mgr[k].call = "up" => mgr[k].link = "up" /\ mgr[k].session \in 1..MaxSessions
      /\ mgr[k].life = "cancelled" => mgr[k].gen # gen
  BY DEF IInv, Generations
<1>6. /\ subs' \subseteq Managers \X (1..MaxSessions)
      /\ closing' \subseteq Managers /\ held' \subseteq Managers
  BY DEF OnServerDisconnect, SubscribeEnds, Deliver, IInv, TypeOK
<1>7. /\ status' \in StatusRecord
      /\ mgr[k].gen # gen => status' = status
      /\ status'.state = status.state /\ status'.profile = status.profile
  <2>1. status \in StatusRecord
    BY DEF IInv, TypeOK, StatusRecord
  <2>2. ASSUME NEW b \in BOOLEAN
        PROVE  /\ [status EXCEPT !.subErrors = b] \in StatusRecord
               /\ [status EXCEPT !.subErrors = b].state = status.state
               /\ [status EXCEPT !.subErrors = b].profile = status.profile
    BY <2>1 DEF StatusRecord
  <2>3. /\ [status EXCEPT !.error = "closed"] \in StatusRecord
        /\ [status EXCEPT !.error = "closed"].state = status.state
        /\ [status EXCEPT !.error = "closed"].profile = status.profile
    BY <2>1 DEF StatusRecord
  <2>4. CASE OnServerDisconnect(k)
    BY <2>1, <2>3, <2>4 DEF OnServerDisconnect, Update
  <2>5. CASE \E session \in 1..MaxSessions : SubscribeEnds(k, session)
    BY <2>1, <2>2, <2>5 DEF SubscribeEnds, Update
  <2>6. CASE Deliver(k)
    BY <2>1, <2>6 DEF Deliver
  <2> QED
    BY <2>4, <2>5, <2>6
<1>8. mgr[k].gen = gen =>
        /\ status'.state # "disconnected"
        /\ status'.profile = status.profile
        /\ status'.state = "connected" => mgr[k].link = "up" \/ mgr[k].call = "down"
  BY <1>7 DEF IInv, Generations, StatusDescribesConnection
<1>9. ManagerStep(k, mgr[k])
  BY <1>2, <1>3, <1>5, <1>6, <1>7, <1>8 DEF ManagerStep
<1> QED
  BY <1>4, <1>9, OneManagerStep

-----------------------------------------------------------------------------
RequestRecord(managers) ==
  [pc : {"idle", "dropping", "waiting", "resetting", "starting"},
   op : {"none", "connect", "disconnect"},
   profile : Profiles \cup {NoProfile},
   took : managers \cup {NoManager}]

(* A handler's record as the invariant allows it. *)
ValidRequest(y, managers) ==
  /\ y \in RequestRecord(managers)
  /\ (y.pc = "waiting") <=> (y.took # NoManager)
  /\ y.op = "connect" => y.profile \in Profiles
  /\ y.pc \in {"resetting", "starting"} => y.op = "connect"

LEMMA RequestValid ==
  ASSUME IInv, NEW r \in Reqs
  PROVE  ValidRequest(req[r], Managers)
BY DEF IInv, TypeOK, Profiled, ValidRequest, RequestRecord

(* After a drop a connect request goes on and a disconnect request is done. *)
LEMMA AfterDropValid ==
  ASSUME IInv, NEW r \in Reqs
  PROVE  ValidRequest(AfterDrop(req[r]), Managers)
<1>1. ValidRequest(req[r], Managers)
  BY RequestValid
<1> DEFINE y == AfterDrop(req[r])
<1>2. y = [req[r] EXCEPT !.pc = IF req[r].op = "connect" THEN "resetting" ELSE "idle",
                         !.took = NoManager]
  BY DEF AfterDrop
<1>3. req[r] = [pc |-> req[r].pc, op |-> req[r].op, profile |-> req[r].profile,
                took |-> req[r].took]
  BY <1>1 DEF ValidRequest, RequestRecord
<1> HIDE DEF y
<1>4. y = [pc |-> IF req[r].op = "connect" THEN "resetting" ELSE "idle",
           op |-> req[r].op, profile |-> req[r].profile, took |-> NoManager]
  BY <1>2, <1>3
<1>5. ValidRequest(y, Managers)
  BY <1>1, <1>4 DEF ValidRequest, RequestRecord
<1> QED
  BY <1>5 DEF y

(* What changing one handler's record leaves of the invariant. *)
LEMMA RequestChanged ==
  ASSUME IInv, NEW r \in Reqs, NEW y, req' = [req EXCEPT ![r] = y],
         Managers \subseteq Managers', ValidRequest(y, Managers')
  PROVE  /\ req' \in [Reqs -> RequestRecord(Managers')]
         /\ \A q \in Reqs : ValidRequest(req'[q], Managers')
         /\ req'[r] = y
         /\ \A q \in Reqs : q # r => req'[q] = req[q]
<1>1. req \in [Reqs -> RequestRecord(Managers)]
  BY DEF IInv, TypeOK, RequestRecord
<1>2. req'[r] = y /\ \A q \in Reqs : q # r => req'[q] = req[q]
  BY <1>1
<1>3. ASSUME NEW q \in Reqs
      PROVE  ValidRequest(req'[q], Managers')
  <2>1. CASE q = r
    BY <2>1, <1>2
  <2>2. CASE q # r
    <3>1. ValidRequest(req[q], Managers) /\ req'[q] = req[q]
      BY <2>2, <1>2, RequestValid
    <3>2. RequestRecord(Managers) \subseteq RequestRecord(Managers')
      BY DEF RequestRecord
    <3> QED
      BY <3>1, <3>2 DEF ValidRequest
  <2> QED
    BY <2>1, <2>2
<1>4. \A q \in Reqs : req'[q] \in RequestRecord(Managers')
  BY <1>3 DEF ValidRequest
<1>5. req' \in [Reqs -> RequestRecord(Managers')]
  BY <1>1, <1>4
<1> QED
  BY <1>2, <1>3, <1>5

(* Valid records of all handlers are what TypeOK and Profiled ask of req. *)
LEMMA RequestsValid ==
  ASSUME req' \in [Reqs -> RequestRecord(Managers')],
         \A q \in Reqs : ValidRequest(req'[q], Managers')
  PROVE  /\ req' \in [Reqs -> [pc : {"idle", "dropping", "waiting", "resetting", "starting"},
                               op : {"none", "connect", "disconnect"},
                               profile : Profiles \cup {NoProfile},
                               took : Managers' \cup {NoManager}]]
         /\ \A r \in Reqs : (req'[r].pc = "waiting") <=> (req'[r].took # NoManager)
         /\ Profiled'
BY DEF ValidRequest, RequestRecord, Profiled

(***************************************************************************)
(* A handler's step that touches neither the connection nor the status.    *)
(***************************************************************************)
LEMMA QuietRequestStep ==
  ASSUME IInv, NEW r \in Reqs, NEW y, req' = [req EXCEPT ![r] = y],
         ValidRequest(y, Managers), y.pc # "waiting",
         UNCHANGED <<gen, cm, status, mgr, subs, closing>>, held' \subseteq held
  PROVE  IInv'
<1>1. Managers' = Managers
  BY DEF Managers
<1>2. /\ req' \in [Reqs -> RequestRecord(Managers')]
      /\ \A q \in Reqs : ValidRequest(req'[q], Managers')
      /\ req'[r] = y
      /\ \A q \in Reqs : q # r => req'[q] = req[q]
  BY <1>1, RequestChanged
<1>3. TypeOK' /\ Profiled'
  BY <1>1, <1>2, RequestsValid DEF IInv, TypeOK
<1>4. \A q \in Reqs : req'[q].pc = "waiting" => mgr[req'[q].took].gen # gen
  BY <1>2 DEF IInv, Generations
<1>5. Generations'
  BY <1>1, <1>4 DEF IInv, Generations
<1>6. StatusDescribesConnection'
  BY DEF IInv, StatusDescribesConnection
<1> QED
  BY <1>3, <1>5, <1>6 DEF IInv

(* A handler takes up a request. *)
LEMMA BeginStep ==
  ASSUME IInv, NEW r \in Reqs,
         \/ \E p \in Profiles : Begin(r, "connect", p)
         \/ Begin(r, "disconnect", NoProfile)
  PROVE  IInv'
<1>1. ASSUME NEW op, NEW p, Begin(r, op, p),
             (op = "connect" /\ p \in Profiles) \/ (op = "disconnect" /\ p = NoProfile)
      PROVE  IInv'
  <2> DEFINE y == [pc |-> "dropping", op |-> op, profile |-> p, took |-> NoManager]
  <2>1. req' = [req EXCEPT ![r] = y]
    BY <1>1 DEF Begin, Idle
  <2>2. ValidRequest(y, Managers) /\ y.pc # "waiting"
    BY <1>1 DEF ValidRequest, RequestRecord
  <2>3. UNCHANGED <<gen, cm, status, mgr, subs, closing, held>>
    BY <1>1 DEF Begin
  <2> HIDE DEF y
  <2> QED
    BY <2>1, <2>2, <2>3, QuietRequestStep
<1> QED
  BY <1>1

(* The tree of the old connection is emptied. *)
LEMMA ResetStoreStep == ASSUME IInv, NEW r \in Reqs, ResetStore(r) PROVE IInv'
<1> DEFINE y == [req[r] EXCEPT !.pc = "starting"]
<1>1. req' = [req EXCEPT ![r] = y]
  BY DEF ResetStore
<1>2. ValidRequest(req[r], Managers) /\ req[r].pc = "resetting"
  BY RequestValid DEF ResetStore
<1>3. ValidRequest(y, Managers) /\ y.pc # "waiting"
  BY <1>2 DEF ValidRequest, RequestRecord
<1>4. UNCHANGED <<gen, cm, status, mgr, subs, closing>> /\ held' \subseteq held
  BY DEF ResetStore
<1> HIDE DEF y
<1> QED
  BY <1>1, <1>3, <1>4, QuietRequestStep

(***************************************************************************)
(* A step that raises the generation leaves no manager with the current    *)
(* one: whatever is called back later is stale.                            *)
(***************************************************************************)
LEMMA NewGeneration ==
  ASSUME IInv, gen' = gen + 1, NEW k \in Managers
  PROVE  mgr[k].gen <= gen' /\ mgr[k].gen # gen'
<1>1. mgr[k].gen \in Nat /\ gen \in Nat
  BY ManagerFields DEF IInv, TypeOK
<1>2. mgr[k].gen <= gen
  BY DEF IInv, Generations
<1> QED
  BY <1>1, <1>2

(* Starting fails: the manager's status says why. *)
LEMMA StartFailsStep == ASSUME IInv, NEW r \in Reqs, StartFails(r) PROVE IInv'
<1>1. /\ req' = [req EXCEPT ![r] = Idle] /\ gen' = gen + 1
      /\ status' = Disconnected("refused")
      /\ UNCHANGED <<cm, mgr, subs, closing, held>> /\ Managers' = Managers
  BY DEF StartFails, Managers
<1>2. ValidRequest(Idle, Managers')
  BY DEF ValidRequest, RequestRecord, Idle
<1>3. /\ req' \in [Reqs -> RequestRecord(Managers')]
      /\ \A q \in Reqs : ValidRequest(req'[q], Managers')
      /\ req'[r] = Idle
      /\ \A q \in Reqs : q # r => req'[q] = req[q]
  BY <1>1, <1>2, RequestChanged
<1>4. status' \in StatusRecord
  BY <1>1 DEF Disconnected, StatusRecord
<1>5. TypeOK' /\ Profiled'
  <2>1. subs' \subseteq Managers' \X (1..MaxSessions)
    BY <1>1 DEF IInv, TypeOK
  <2>2. /\ closing' \subseteq Managers' /\ held' \subseteq Managers'
        /\ cm' \in Managers' \cup {NoManager} /\ mgr' \in Seq(ManagerRecord)
    BY <1>1 DEF IInv, TypeOK
  <2>3. gen' \in Nat
    <3>1. gen \in Nat /\ gen' = gen + 1
      BY DEF IInv, TypeOK, StartFails
    <3> QED
      BY <3>1
  <2> QED
    BY <1>3, <1>4, <2>1, <2>2, <2>3, RequestsValid DEF TypeOK, StatusRecord
<1>6. \A q \in Reqs : req'[q].pc = "waiting" => req'[q].took \in Managers
  BY <1>1, <1>3 DEF ValidRequest, RequestRecord
<1>7. Generations'
  <2>1. \A k \in Managers : mgr[k].gen <= gen' /\ mgr[k].gen # gen'
    BY <1>1, NewGeneration
  <2>3. \A k \in Managers :
          mgr[k].call = "up" => mgr[k].link = "up" /\ mgr[k].session \in 1..MaxSessions
    BY DEF IInv, Generations
  <2> QED
    BY <1>1, <1>6, <2>1, <2>3 DEF Generations
<1>8. StatusDescribesConnection'
  BY <1>1 DEF StatusDescribesConnection, Disconnected
<1> QED
  BY <1>5, <1>7, <1>8 DEF IInv

(* A connection is started: it alone has the new generation. *)
LEMMA StartStep == ASSUME IInv, NEW r \in Reqs, Start(r) PROVE IInv'
<1> DEFINE n == Len(mgr) + 1
           m == NewManager(gen + 1, req[r].profile)
<1>1. /\ req' = [req EXCEPT ![r] = Idle] /\ gen' = gen + 1 /\ cm' = n
      /\ status' = Connecting(req[r].profile) /\ mgr' = Append(mgr, m)
      /\ UNCHANGED <<subs, closing, held>>
  BY DEF Start
<1>2. mgr \in Seq(ManagerRecord) /\ gen \in Nat
  BY DEF IInv, TypeOK
<1>3. req[r].profile \in Profiles
  BY RequestValid DEF ValidRequest, Start
<1>4. m \in ManagerRecord
  BY <1>2, <1>3, BrokerAssumption DEF NewManager, ManagerRecord
<1>5. m.gen = gen + 1 /\ m.profile = req[r].profile /\ m.call = "none" /\ m.life = "running"
  BY DEF NewManager
<1> HIDE DEF m
<1>6. /\ mgr' \in Seq(ManagerRecord) /\ Managers' = Managers \cup {n}
      /\ n \notin Managers /\ mgr'[n] = m /\ n # NoManager
      /\ \A k \in Managers : mgr'[k] = mgr[k]
  BY <1>1, <1>2, <1>4 DEF Managers, NoManager
<1> HIDE DEF n
<1>7. ValidRequest(Idle, Managers')
  BY DEF ValidRequest, RequestRecord, Idle
<1>8. /\ req' \in [Reqs -> RequestRecord(Managers')]
      /\ \A q \in Reqs : ValidRequest(req'[q], Managers')
      /\ req'[r] = Idle
      /\ \A q \in Reqs : q # r => req'[q] = req[q]
  BY <1>1, <1>6, <1>7, RequestChanged
<1>9. status' \in StatusRecord
  BY <1>1, <1>3 DEF Connecting, StatusRecord
<1>10. TypeOK' /\ Profiled'
  <2>1. /\ subs' \subseteq Managers' \X (1..MaxSessions)
        /\ closing' \subseteq Managers' /\ held' \subseteq Managers'
    BY <1>1, <1>6 DEF IInv, TypeOK
  <2>2. gen' \in Nat /\ cm' \in Managers' \cup {NoManager}
    BY <1>1, <1>2, <1>6
  <2> QED
    BY <1>6, <1>8, <1>9, <2>1, <2>2, RequestsValid DEF TypeOK, StatusRecord
<1>11. Generations'
  <2>1. \A k \in Managers : mgr[k].gen <= gen' /\ mgr[k].gen # gen'
    BY <1>1, NewGeneration
  <2>3. \A k \in Managers :
          mgr[k].call = "up" => mgr[k].link = "up" /\ mgr[k].session \in 1..MaxSessions
    BY DEF IInv, Generations
  <2>4. status'.state # "disconnected"
    BY <1>1 DEF Connecting
  <2>5. ASSUME NEW k \in Managers'
        PROVE  /\ mgr'[k].gen <= gen'
               /\ mgr'[k].gen = gen' => cm' = k /\ status'.state # "disconnected"
               /\ mgr'[k].call = "up" => mgr'[k].link = "up" /\ mgr'[k].session \in 1..MaxSessions
               /\ mgr'[k].life = "cancelled" => mgr'[k].gen # gen'
    <3>1. CASE k \in Managers
      BY <3>1, <1>6, <2>1, <2>3
    <3>2. CASE k = n
      BY <3>2, <1>1, <1>2, <1>5, <1>6, <2>4
    <3> QED
      BY <3>1, <3>2, <1>6
  <2>6. ASSUME NEW q \in Reqs, req'[q].pc = "waiting"
        PROVE  mgr'[req'[q].took].gen # gen'
    <3>1. q # r
      BY <2>6, <1>8 DEF Idle
    <3>2. req'[q] = req[q] /\ req[q].took \in Managers
      BY <3>1, <2>6, <1>8, RequestValid DEF ValidRequest, RequestRecord
    <3> QED
      BY <3>2, <1>6, <2>1
  <2> QED
    BY <2>5, <2>6 DEF Generations
<1>12. StatusDescribesConnection'
  BY <1>1, <1>5, <1>6 DEF StatusDescribesConnection, Connecting
<1> QED
  BY <1>10, <1>11, <1>12 DEF IInv

(***************************************************************************)
(* The locked section of Disconnect: the current manager, if any, is told  *)
(* to stop and waited for.                                                 *)
(***************************************************************************)
LEMMA DropStep == ASSUME IInv, NEW r \in Reqs, Drop(r) PROVE IInv'
<1>1. /\ gen' = gen + 1 /\ cm' = NoManager /\ status' = Disconnected("")
      /\ UNCHANGED <<subs, closing, held>>
  BY DEF Drop
<1>2. mgr \in Seq(ManagerRecord) /\ gen \in Nat /\ cm \in Managers \cup {NoManager}
  BY DEF IInv, TypeOK
<1>3. NoManager \notin Managers
  BY <1>2, ManagerNumbers DEF Managers
<1>4. /\ mgr' \in Seq(ManagerRecord) /\ Managers' = Managers
      /\ \A k \in Managers : /\ mgr'[k].gen = mgr[k].gen
                             /\ mgr'[k].call = mgr[k].call /\ mgr'[k].link = mgr[k].link
                             /\ mgr'[k].session = mgr[k].session
  <2>1. CASE cm = NoManager
    <3>1. mgr' = mgr
      BY <2>1 DEF Drop, Told
    <3> QED
      BY <3>1, <1>2 DEF Managers
  <2>2. CASE cm # NoManager
    <3> DEFINE x == [mgr[cm] EXCEPT !.life = "stopping"]
    <3>1. mgr' = [mgr EXCEPT ![cm] = x]
      BY <2>2 DEF Drop, Told
    <3>2. cm \in Managers
      BY <2>2, <1>2
    <3>3. mgr[cm] \in ManagerRecord
      BY <1>2, <3>2, ManagerFields
    <3>4. /\ x \in ManagerRecord /\ x.gen = mgr[cm].gen /\ x.call = mgr[cm].call
          /\ x.link = mgr[cm].link /\ x.session = mgr[cm].session
      BY <3>3 DEF ManagerRecord
    <3> HIDE DEF x
    <3>5. /\ mgr' \in Seq(ManagerRecord) /\ Managers' = Managers /\ mgr'[cm] = x
          /\ \A j \in Managers : j # cm => mgr'[j] = mgr[j]
      BY <1>2, <3>1, <3>2, <3>4, ManagerChanged
    <3> QED
      BY <3>4, <3>5
  <2> QED
    BY <2>1, <2>2
<1> DEFINE y == IF cm = NoManager THEN AfterDrop(req[r])
                ELSE [req[r] EXCEPT !.pc = "waiting", !.took = cm]
<1>5. req' = [req EXCEPT ![r] = y]
  BY DEF Drop
<1>6. ValidRequest(y, Managers) /\ (y.pc = "waiting" => y.took \in Managers)
  <2>1. CASE cm = NoManager
    <3>1. ValidRequest(y, Managers)
      BY <2>1, AfterDropValid
    <3> HIDE DEF y
    <3> QED
      BY <3>1 DEF ValidRequest, RequestRecord
  <2>2. CASE cm # NoManager
    <3>1. ValidRequest(req[r], Managers)
      BY RequestValid
    <3>2. req[r] = [pc |-> req[r].pc, op |-> req[r].op, profile |-> req[r].profile,
                    took |-> req[r].took]
      BY <3>1 DEF ValidRequest, RequestRecord
    <3>3. y = [req[r] EXCEPT !.pc = "waiting", !.took = cm]
      BY <2>2
    <3> HIDE DEF y
    <3>4. y = [pc |-> "waiting", op |-> req[r].op, profile |-> req[r].profile, took |-> cm]
      BY <3>2, <3>3
    <3>5. cm \in Managers
      BY <2>2, <1>2
    <3> QED
      BY <2>2, <3>1, <3>4, <3>5 DEF ValidRequest, RequestRecord
  <2> QED
    BY <2>1, <2>2
<1> HIDE DEF y
<1>7. /\ req' \in [Reqs -> RequestRecord(Managers')]
      /\ \A q \in Reqs : ValidRequest(req'[q], Managers')
      /\ req'[r] = y
      /\ \A q \in Reqs : q # r => req'[q] = req[q]
  BY <1>4, <1>5, <1>6, RequestChanged
<1>8. status' \in StatusRecord
  BY <1>1 DEF Disconnected, StatusRecord
<1>9. TypeOK' /\ Profiled'
  <2>1. subs' \subseteq Managers' \X (1..MaxSessions)
    BY <1>1, <1>4 DEF IInv, TypeOK
  <2>2. closing' \subseteq Managers' /\ held' \subseteq Managers'
    BY <1>1, <1>4 DEF IInv, TypeOK
  <2>3. gen' \in Nat
    <3>1. gen \in Nat /\ gen' = gen + 1
      BY <1>1, <1>2
    <3> QED
      BY <3>1
  <2>4. cm' \in Managers' \cup {NoManager}
    BY <1>1
  <2> QED
    BY <1>4, <1>7, <1>8, <2>1, <2>2, <2>3, <2>4, RequestsValid DEF TypeOK, StatusRecord
<1>10. Generations'
  <2>1. \A k \in Managers : mgr'[k].gen <= gen' /\ mgr'[k].gen # gen'
    BY <1>1, <1>4, NewGeneration
  <2>2. \A k \in Managers :
          mgr'[k].call = "up" => mgr'[k].link = "up" /\ mgr'[k].session \in 1..MaxSessions
    BY <1>4 DEF IInv, Generations
  <2>3. \A q \in Reqs : req'[q].pc = "waiting" => req'[q].took \in Managers
    BY <1>4, <1>7 DEF ValidRequest, RequestRecord
  <2> QED
    BY <1>4, <2>1, <2>2, <2>3 DEF Generations
<1>11. StatusDescribesConnection'
  BY <1>1 DEF StatusDescribesConnection, Disconnected
<1> QED
  BY <1>9, <1>10, <1>11 DEF IInv

(***************************************************************************)
(* The wait for a manager ends, with its shutdown or without it.  The      *)
(* manager waited for has an older generation than the current one.        *)
(***************************************************************************)
LEMMA WaitEndsStep ==
  ASSUME IInv, NEW r \in Reqs, NEW x \in ManagerRecord, req[r].pc = "waiting",
         mgr' = [mgr EXCEPT ![req[r].took] = x],
         x.gen = mgr[req[r].took].gen,
         x.call = "up" => x.link = "up" /\ x.session \in 1..MaxSessions,
         req' = [req EXCEPT ![r] = AfterDrop(@)],
         UNCHANGED <<gen, cm, status, subs, closing, held>>
  PROVE  IInv'
<1> DEFINE k == req[r].took
           y == AfterDrop(req[r])
<1>1. mgr \in Seq(ManagerRecord) /\ gen \in Nat /\ cm \in Managers \cup {NoManager}
  BY DEF IInv, TypeOK
<1>2. k \in Managers
  BY RequestValid DEF ValidRequest, RequestRecord
<1>3. mgr[k].gen # gen
  BY DEF IInv, Generations
<1>4. /\ mgr' \in Seq(ManagerRecord) /\ Managers' = Managers /\ mgr'[k] = x
      /\ \A j \in Managers : j # k => mgr'[j] = mgr[j]
  BY <1>1, <1>2, ManagerChanged
<1>5. x.gen = mgr[k].gen
  OBVIOUS
<1>6. ValidRequest(y, Managers) /\ req' = [req EXCEPT ![r] = y]
  BY AfterDropValid
<1> HIDE DEF k, y
<1>7. /\ req' \in [Reqs -> RequestRecord(Managers')]
      /\ \A q \in Reqs : ValidRequest(req'[q], Managers')
      /\ req'[r] = y
      /\ \A q \in Reqs : q # r => req'[q] = req[q]
  BY <1>4, <1>6, RequestChanged
<1>8. TypeOK' /\ Profiled'
  BY <1>4, <1>7, RequestsValid DEF IInv, TypeOK
<1>9. Generations'
  <2>1. ASSUME NEW j \in Managers
        PROVE  /\ mgr'[j].gen = mgr[j].gen
               /\ mgr'[j].gen <= gen
               /\ mgr'[j].gen = gen => cm = j /\ status.state # "disconnected"
               /\ mgr'[j].call = "up" => mgr'[j].link = "up" /\ mgr'[j].session \in 1..MaxSessions
               /\ mgr'[j].life = "cancelled" => mgr'[j].gen # gen
    <3>1. CASE j = k
      BY <3>1, <1>3, <1>4, <1>5 DEF IInv, Generations
    <3>2. CASE j # k
      BY <3>2, <1>4 DEF IInv, Generations
    <3> QED
      BY <3>1, <3>2
  <2>2. ASSUME NEW q \in Reqs, req'[q].pc = "waiting"
        PROVE  mgr'[req'[q].took].gen # gen
    <3>1. CASE q = r
      BY <3>1, <2>2, <1>7 DEF y, AfterDrop, ValidRequest, RequestRecord
    <3>2. CASE q # r
      <4>1. req'[q] = req[q] /\ req[q].took \in Managers
        BY <3>2, <2>2, <1>7, RequestValid DEF ValidRequest, RequestRecord
      <4> QED
        BY <4>1, <2>1, <2>2 DEF IInv, Generations
    <3> QED
      BY <3>1, <3>2
  <2> QED
    BY <1>4, <2>1, <2>2 DEF Generations
<1>10. StatusDescribesConnection'
  <2>1. status.state # "disconnected" => cm \in Managers /\ cm # k
    BY <1>1, <1>3 DEF IInv, StatusDescribesConnection
  <2> QED
    BY <2>1, <1>4 DEF IInv, StatusDescribesConnection
<1> QED
  BY <1>8, <1>9, <1>10 DEF IInv

(* cm.Disconnect returned. *)
LEMMA DropEndsStep == ASSUME IInv, NEW r \in Reqs, DropEnds(r) PROVE IInv'
<1> DEFINE k == req[r].took
           x == [gen |-> mgr[k].gen, profile |-> mgr[k].profile, life |-> "stopped",
                 link |-> "down", session |-> mgr[k].session, call |-> mgr[k].call]
<1>1. req[r].pc = "waiting" /\ mgr[k].call = "none"
  BY DEF DropEnds
<1>2. k \in Managers
  BY <1>1, RequestValid DEF ValidRequest, RequestRecord
<1>3. mgr[k] \in ManagerRecord
  BY <1>2, ManagerFields DEF IInv, TypeOK
<1>4. mgr' = [mgr EXCEPT ![k] = x]
  <2>1. [mgr[k] EXCEPT !.life = "stopped", !.link = "down"] = x
    BY <1>3, ManagerUpdates
  <2>2. mgr' = [mgr EXCEPT ![k] = [mgr[k] EXCEPT !.life = "stopped", !.link = "down"]]
    BY DEF DropEnds
  <2> QED
    BY <2>1, <2>2, Zenon
<1>5. x \in ManagerRecord /\ x.gen = mgr[k].gen /\ x.call # "up"
  BY <1>1, <1>3 DEF ManagerRecord
<1>6. req' = [req EXCEPT ![r] = AfterDrop(@)]
      /\ UNCHANGED <<gen, cm, status, subs, closing, held>>
  BY DEF DropEnds
<1> HIDE DEF x
<1> QED
  BY <1>1, <1>4, <1>5, <1>6, WaitEndsStep

(* It gave up, and the manager was cancelled. *)
LEMMA DropTimesOutStep == ASSUME IInv, NEW r \in Reqs, DropTimesOut(r) PROVE IInv'
<1> DEFINE k == req[r].took
           x == [mgr[k] EXCEPT !.life = "cancelled"]
<1>1. req[r].pc = "waiting"
  BY DEF DropTimesOut
<1>2. k \in Managers
  BY <1>1, RequestValid DEF ValidRequest, RequestRecord
<1>3. mgr[k] \in ManagerRecord
  BY <1>2, ManagerFields DEF IInv, TypeOK
<1>4. mgr' = [mgr EXCEPT ![k] = x]
  BY DEF DropTimesOut
<1>5. /\ x \in ManagerRecord /\ x.gen = mgr[k].gen
      /\ x.call = mgr[k].call /\ x.link = mgr[k].link /\ x.session = mgr[k].session
  BY <1>3 DEF ManagerRecord
<1> HIDE DEF x
<1>6. x.call = "up" => x.link = "up" /\ x.session \in 1..MaxSessions
  BY <1>2, <1>5 DEF IInv, Generations
<1>7. req' = [req EXCEPT ![r] = AfterDrop(@)]
      /\ UNCHANGED <<gen, cm, status, subs, closing, held>>
  BY DEF DropTimesOut
<1> QED
  BY <1>1, <1>4, <1>5, <1>6, <1>7, WaitEndsStep

-----------------------------------------------------------------------------
LEMMA InitIInv == Init => IInv
<1> SUFFICES ASSUME Init PROVE IInv
  OBVIOUS
<1>1. Managers = {} /\ mgr \in Seq(ManagerRecord)
  <2>1. mgr = <<>>
    BY DEF Init
  <2> QED
    BY <2>1 DEF Managers
<1>2. TypeOK
  BY <1>1 DEF Init, TypeOK, Disconnected, Idle
<1>3. Profiled /\ Generations /\ StatusDescribesConnection
  BY <1>1 DEF Init, Profiled, Generations, StatusDescribesConnection, Disconnected, Idle
<1> QED
  BY <1>2, <1>3 DEF IInv

LEMMA NextIInv == IInv /\ [Next]_vars => IInv'
<1> SUFFICES ASSUME IInv, [Next]_vars PROVE IInv'
  OBVIOUS
<1>1. CASE \E r \in Reqs : (\E p \in Profiles : Begin(r, "connect", p))
                              \/ Begin(r, "disconnect", NoProfile)
  BY <1>1, BeginStep
<1>2. CASE \E r \in Reqs : HandlerStep(r)
  BY <1>2, DropStep, DropEndsStep, ResetStoreStep, StartStep, StartFailsStep DEF HandlerStep
<1>3. CASE \E r \in Reqs : DropTimesOut(r)
  BY <1>3, DropTimesOutStep
<1>4. CASE \E k \in Managers : Callback(k)
  BY <1>4, OnConnectionUpStep, OnConnectionDownStep, OnConnectErrorStep, QuietManagerStep
     DEF Callback
<1>5. CASE \E k \in Managers : Environment(k)
  BY <1>5, GetsThroughStep, AttemptFailsStep, LinkDropsStep, EndsStep, QuietManagerStep
     DEF Environment
<1>6. CASE UNCHANGED vars
  BY <1>6 DEF vars, IInv, TypeOK, Profiled, Generations, StatusDescribesConnection,
              Managers
<1> QED
  BY <1>1, <1>2, <1>3, <1>4, <1>5, <1>6 DEF Next

(***************************************************************************)
(* The inductive invariant holds in every reachable state.                 *)
(***************************************************************************)
THEOREM BrokerInvariance == Spec => []IInv
<1>1. Init => IInv
  BY InitIInv
<1>2. IInv /\ [Next]_vars => IInv'
  BY NextIInv
<1> QED
  BY <1>1, <1>2, PTL DEF Spec

(***************************************************************************)
(* Every variable keeps its type, and exactly the handlers that wait have  *)
(* taken a manager.                                                        *)
(***************************************************************************)
THEOREM BrokerTypeCorrect == Spec => []TypeOK
<1>1. IInv => TypeOK
  BY DEF IInv
<1> QED
  BY <1>1, BrokerInvariance, PTL

(***************************************************************************)
(* However requests interleave, whatever times out and however late a      *)
(* callback comes, the status describes the manager's own connection       *)
(* (broker.go:44, 87-93).                                                  *)
(***************************************************************************)
THEOREM StatusCorrect == Spec => []StatusDescribesConnection
<1>1. IInv => StatusDescribesConnection
  BY DEF IInv
<1> QED
  BY <1>1, BrokerInvariance, PTL

-----------------------------------------------------------------------------
(***************************************************************************)
(* Requests one after the other.  A handler past its drop has left the     *)
(* Manager without a connection, so the one it starts is the only one; and *)
(* as long as no disconnect has timed out, a link is up only for the       *)
(* Manager's connection or for the one a handler is waiting for, so that   *)
(* nothing can be delivered into the tree between its reset and the start. *)
(***************************************************************************)
PastDrop == {"waiting", "resetting", "starting"}

OneAtATime ==
  /\ \A r, s \in Reqs : req[r].pc # "idle" /\ req[s].pc # "idle" => r = s
  /\ \A r \in Reqs : req[r].pc \in PastDrop => cm = NoManager

LinksAccountedFor ==
  \A k \in Managers :
    mgr[k].link = "up" => k = cm \/ \E r \in Reqs : req[r].pc = "waiting" /\ req[r].took = k

TreeEmptyAtStart == \A r \in Reqs : req[r].pc = "starting" => held = {}

TurnInv ==
  /\ ~overlapped => OneAtATime /\ OneConnection
  /\ ~overlapped /\ ~expired => LinksAccountedFor /\ TreeEmptyAtStart /\ TreeOfOneBroker

\* The auxiliary variables after a step.
Noted ==
  /\ overlapped' = (overlapped \/ \E r, s \in Reqs : r # s /\ "idle" \notin {req'[r].pc, req'[s].pc})
  /\ expired' = (expired \/ \E k \in Managers : mgr'[k].life = "cancelled")

(* Requests that have come one after the other still do. *)
LEMMA StillInTurn ==
  ASSUME Noted, ~overlapped'
  PROVE  ~overlapped /\ \A r, s \in Reqs : req'[r].pc # "idle" /\ req'[s].pc # "idle" => r = s
BY DEF Noted

\* What a connection manager may do of its own: it connects only while it is
\* to run, delivers only while its link is up, and is never told to run again.
OnItsOwn ==
  /\ UNCHANGED <<cm, req>> /\ Managers' = Managers
  /\ \A k \in Managers :
       /\ mgr'[k].life = "running" => mgr[k].life = "running"
       /\ mgr'[k].link = "up" => mgr[k].link = "up" \/ mgr[k].life = "running"
  /\ held' \subseteq held \cup {k \in Managers : mgr[k].link = "up"}

LEMMA ManagersOnTheirOwn ==
  ASSUME TypeOK, NEW k \in Managers, Callback(k) \/ Environment(k)
  PROVE  OnItsOwn
<1>1. mgr \in Seq(ManagerRecord) /\ mgr[k] \in ManagerRecord
  <2>1. mgr \in Seq(ManagerRecord)
    BY DEF TypeOK
  <2> QED
    BY <2>1, ManagerFields
<1>2. ASSUME NEW x \in ManagerRecord, mgr' = [mgr EXCEPT ![k] = x], UNCHANGED <<cm, req, held>>,
             x.life = "running" => mgr[k].life = "running",
             x.link = "up" => mgr[k].link = "up" \/ mgr[k].life = "running"
      PROVE  OnItsOwn
  BY <1>1, <1>2, ManagerChanged DEF OnItsOwn
<1>3. CASE GetsThrough(k) \/ AttemptFails(k) \/ LinkDrops(k) \/ Ends(k)
  <2>1. mgr[k].session < MaxSessions /\ GetsThrough(k) => mgr[k].session + 1 \in 0..MaxSessions
    BY <1>1, BrokerAssumption DEF ManagerRecord
  <2>2. CASE GetsThrough(k)
    <3> DEFINE x == [mgr[k] EXCEPT !.link = "up", !.call = "up", !.session = mgr[k].session + 1]
    <3>1. x \in ManagerRecord /\ x.life = mgr[k].life
      BY <1>1, <2>1, <2>2, ManagerUpdates DEF GetsThrough, ManagerRecord
    <3>2. mgr' = [mgr EXCEPT ![k] = x] /\ UNCHANGED <<cm, req, held>> /\ mgr[k].life = "running"
      BY <2>2 DEF GetsThrough, CanConnect
    <3> HIDE DEF x
    <3> QED
      BY <1>2, <3>1, <3>2
  <2>3. CASE AttemptFails(k)
    <3> DEFINE x == [mgr[k] EXCEPT !.call = "error"]
    <3>1. x \in ManagerRecord /\ x.life = mgr[k].life /\ x.link = mgr[k].link
      BY <1>1 DEF ManagerRecord
    <3>2. mgr' = [mgr EXCEPT ![k] = x] /\ UNCHANGED <<cm, req, held>>
      BY <2>3 DEF AttemptFails
    <3> HIDE DEF x
    <3> QED
      BY <1>2, <3>1, <3>2
  <2>4. CASE LinkDrops(k)
    <3> DEFINE x == [mgr[k] EXCEPT !.link = "down", !.call = "down"]
    <3>1. x \in ManagerRecord /\ x.life = mgr[k].life /\ x.link = "down"
      BY <1>1, ManagerUpdates DEF ManagerRecord
    <3>2. mgr' = [mgr EXCEPT ![k] = x] /\ UNCHANGED <<cm, req, held>>
      BY <2>4 DEF LinkDrops
    <3> HIDE DEF x
    <3> QED
      BY <1>2, <3>1, <3>2
  <2>5. CASE Ends(k)
    <3> DEFINE x == [mgr[k] EXCEPT !.life = "stopped", !.link = "down"]
    <3>1. x \in ManagerRecord /\ x.life = "stopped" /\ x.link = "down"
      BY <1>1, ManagerUpdates DEF ManagerRecord
    <3>2. mgr' = [mgr EXCEPT ![k] = x] /\ UNCHANGED <<cm, req, held>>
      BY <2>5 DEF Ends
    <3> HIDE DEF x
    <3> QED
      BY <1>2, <3>1, <3>2
  <2> QED
    BY <1>3, <2>2, <2>3, <2>4, <2>5
<1>4. CASE OnConnectionUp(k) \/ OnConnectionDown(k) \/ OnConnectError(k)
  <2> DEFINE x == [mgr[k] EXCEPT !.call = "none"]
  <2>1. x \in ManagerRecord /\ x.life = mgr[k].life /\ x.link = mgr[k].link
    BY <1>1 DEF ManagerRecord
  <2>2. mgr' = [mgr EXCEPT ![k] = x] /\ UNCHANGED <<cm, req, held>>
    BY <1>4 DEF OnConnectionUp, OnConnectionDown, OnConnectError
  <2> HIDE DEF x
  <2> QED
    BY <1>2, <2>1, <2>2
<1>5. CASE \/ OnServerDisconnect(k) \/ Deliver(k)
           \/ \E session \in 1..MaxSessions : SubscribeEnds(k, session)
  <2>1. UNCHANGED <<cm, req, mgr>> /\ (held' = held \/ (mgr[k].link = "up" /\ held' = held \cup {k}))
    BY <1>5 DEF OnServerDisconnect, Deliver, SubscribeEnds
  <2> QED
    BY <2>1 DEF OnItsOwn, Managers
<1> QED
  BY <1>3, <1>4, <1>5 DEF Callback, Environment

LEMMA OwnTurn ==
  ASSUME TypeOK, TurnInv, Noted, OnItsOwn
  PROVE  TurnInv'
<1>1. ASSUME ~overlapped'
      PROVE  OneAtATime' /\ OneConnection'
  BY <1>1, StillInTurn DEF TurnInv, OnItsOwn, OneAtATime, OneConnection
<1>2. ASSUME ~overlapped', ~expired'
      PROVE  LinksAccountedFor' /\ TreeEmptyAtStart' /\ TreeOfOneBroker'
  <2>1. OneAtATime /\ OneConnection /\ LinksAccountedFor /\ TreeEmptyAtStart /\ TreeOfOneBroker
    BY <1>2, StillInTurn DEF TurnInv, Noted
  <2>2. LinksAccountedFor'
    BY <2>1 DEF OnItsOwn, LinksAccountedFor, OneConnection
  <2>3. ASSUME NEW r \in Reqs, req[r].pc = "starting"
        PROVE  held' = {}
    <3>1. cm = NoManager /\ \A q \in Reqs : req[q].pc # "waiting"
      BY <2>1, <2>3 DEF OneAtATime, PastDrop
    <3>2. NoManager \notin Managers
      BY ManagerNumbers DEF TypeOK, Managers
    <3>3. \A k \in Managers : mgr[k].link # "up"
      BY <2>1, <3>1, <3>2 DEF LinksAccountedFor
    <3> QED
      BY <2>1, <2>3, <3>3 DEF OnItsOwn, TreeEmptyAtStart
  <2>4. TreeEmptyAtStart'
    BY <2>3 DEF OnItsOwn, TreeEmptyAtStart
  <2>5. ASSUME cm # NoManager
        PROVE  held' \subseteq {cm}
    <3>1. \A r \in Reqs : req[r].pc # "waiting"
      BY <2>1, <2>5 DEF OneAtATime, PastDrop
    <3>2. \A k \in Managers : mgr[k].link = "up" => k = cm
      BY <2>1, <3>1 DEF LinksAccountedFor
    <3> QED
      BY <2>1, <2>5, <3>2 DEF OnItsOwn, TreeOfOneBroker
  <2>6. TreeOfOneBroker'
    BY <2>5 DEF OnItsOwn, TreeOfOneBroker
  <2> QED
    BY <2>2, <2>4, <2>6
<1> QED
  BY <1>1, <1>2 DEF TurnInv

-----------------------------------------------------------------------------
\* What a step of handler r does to the others.
OnlyHandler(r) == \A q \in Reqs : q # r => req'[q] = req[q]

(* A handler's step that leaves the managers alone, and the connection     *)
(* unless it is past its drop.                                             *)
LEMMA QuietTurn ==
  ASSUME TypeOK, TurnInv, Noted, NEW r \in Reqs, OnlyHandler(r),
         UNCHANGED <<mgr, cm>>, held' \in {held, {}},
         req[r].pc # "waiting", req'[r].pc # "waiting",
         req'[r].pc \in PastDrop => req[r].pc \in PastDrop,
         req'[r].pc = "starting" => held' = {}
  PROVE  TurnInv'
<1>0. Managers' = Managers
  BY DEF Managers
<1>1. ASSUME ~overlapped'
      PROVE  OneAtATime' /\ OneConnection'
  <2>1. OneAtATime /\ OneConnection
    BY <1>1, StillInTurn DEF TurnInv
  <2>2. OneAtATime'
    BY <1>1, <2>1, StillInTurn DEF OneAtATime, OnlyHandler
  <2> QED
    BY <1>0, <2>1, <2>2 DEF OneConnection
<1>2. ASSUME ~overlapped', ~expired'
      PROVE  LinksAccountedFor' /\ TreeEmptyAtStart' /\ TreeOfOneBroker'
  <2>1. LinksAccountedFor /\ TreeEmptyAtStart /\ TreeOfOneBroker
    BY <1>2, StillInTurn DEF TurnInv, Noted
  <2>2. LinksAccountedFor'
    BY <1>0, <2>1 DEF LinksAccountedFor, OnlyHandler
  <2>3. TreeEmptyAtStart'
    BY <2>1 DEF TreeEmptyAtStart, OnlyHandler
  <2>4. TreeOfOneBroker'
    BY <2>1 DEF TreeOfOneBroker
  <2> QED
    BY <2>2, <2>3, <2>4
<1> QED
  BY <1>1, <1>2 DEF TurnInv

LEMMA QuietHandlerTurn ==
  ASSUME TypeOK, TurnInv, Noted, NEW r \in Reqs,
         \/ \E op, p : Begin(r, op, p)
         \/ ResetStore(r)
         \/ StartFails(r)
  PROVE  TurnInv'
<1>1. /\ OnlyHandler(r) /\ UNCHANGED <<mgr, cm>> /\ held' \in {held, {}}
      /\ req[r].pc # "waiting" /\ req'[r].pc # "waiting"
      /\ req'[r].pc \in PastDrop => req[r].pc \in PastDrop
      /\ req'[r].pc = "starting" => held' = {}
  <2>1. DOMAIN req = Reqs /\ DOMAIN req[r] = {"pc", "op", "profile", "took"}
    BY DEF TypeOK
  <2>2. CASE \E op, p : Begin(r, op, p)
    BY <2>1, <2>2 DEF Begin, OnlyHandler, Idle, PastDrop
  <2>3. CASE ResetStore(r)
    BY <2>1, <2>3 DEF ResetStore, OnlyHandler, PastDrop
  <2>4. CASE StartFails(r)
    BY <2>1, <2>4 DEF StartFails, OnlyHandler, Idle, PastDrop
  <2> QED
    BY <2>2, <2>3, <2>4
<1> QED
  BY <1>1, QuietTurn

(* A drop leaves no connection; what it stops, the handler waits for. *)
LEMMA DropTurn ==
  ASSUME TypeOK, TurnInv, Noted, NEW r \in Reqs, Drop(r)
  PROVE  TurnInv'
<1>1. /\ req[r].pc = "dropping" /\ cm' = NoManager /\ held' = held
      /\ mgr' = Told(cm)
      /\ req' = [req EXCEPT ![r] = IF cm = NoManager THEN AfterDrop(@)
                                   ELSE [@ EXCEPT !.pc = "waiting", !.took = cm]]
  BY DEF Drop
<1>2. /\ mgr \in Seq(ManagerRecord) /\ NoManager \notin Managers
      /\ DOMAIN req = Reqs /\ DOMAIN req[r] = {"pc", "op", "profile", "took"}
      /\ cm \in Managers \cup {NoManager}
  BY ManagerNumbers DEF TypeOK, Managers
<1>3. OnlyHandler(r) /\ req'[r].pc # "starting"
  BY <1>1, <1>2 DEF OnlyHandler, AfterDrop
<1>4. cm # NoManager => req'[r].pc = "waiting" /\ req'[r].took = cm
  BY <1>1, <1>2
<1>5. /\ Managers' = Managers
      /\ \A k \in Managers : /\ mgr'[k].link = mgr[k].link
                             /\ k # cm => mgr'[k].life = mgr[k].life
                             /\ k = cm => mgr'[k].life = "stopping"
  <2>1. CASE cm = NoManager
    BY <1>1, <1>2, <2>1 DEF Told, Managers
  <2>2. CASE cm # NoManager
    <3> DEFINE x == [mgr[cm] EXCEPT !.life = "stopping"]
    <3>1. cm \in Managers /\ mgr[cm] \in ManagerRecord
      BY <1>2, <2>2, ManagerFields
    <3>2. x \in ManagerRecord /\ x.life = "stopping" /\ x.link = mgr[cm].link
      BY <3>1 DEF ManagerRecord
    <3>3. mgr' = [mgr EXCEPT ![cm] = x]
      BY <1>1, <2>2 DEF Told
    <3> HIDE DEF x
    <3> QED
      BY <1>2, <3>1, <3>2, <3>3, ManagerChanged
  <2> QED
    BY <2>1, <2>2
<1>6. ASSUME ~overlapped'
      PROVE  OneAtATime' /\ OneConnection'
  <2>1. OneConnection
    BY <1>6, StillInTurn DEF TurnInv
  <2>2. OneAtATime'
    BY <1>1, <1>6, StillInTurn DEF OneAtATime
  <2> QED
    BY <1>1, <1>5, <2>1, <2>2 DEF OneConnection
<1>7. ASSUME ~overlapped', ~expired'
      PROVE  LinksAccountedFor' /\ TreeEmptyAtStart' /\ TreeOfOneBroker'
  <2>1. LinksAccountedFor /\ TreeEmptyAtStart /\ TreeOfOneBroker
    BY <1>7, StillInTurn DEF TurnInv, Noted
  <2>2. ASSUME NEW k \in Managers, mgr[k].link = "up"
        PROVE  \E q \in Reqs : req'[q].pc = "waiting" /\ req'[q].took = k
    <3>1. CASE k = cm
      BY <1>2, <1>4, <3>1
    <3>2. CASE k # cm
      <4>1. PICK q \in Reqs : req[q].pc = "waiting" /\ req[q].took = k
        BY <2>1, <2>2, <3>2 DEF LinksAccountedFor
      <4>2. q # r
        BY <1>1, <4>1
      <4> QED
        BY <1>3, <4>1, <4>2 DEF OnlyHandler
    <3> QED
      BY <3>1, <3>2
  <2>3. LinksAccountedFor'
    BY <1>5, <2>2 DEF LinksAccountedFor
  <2>4. TreeEmptyAtStart'
    BY <1>1, <1>3, <2>1 DEF TreeEmptyAtStart, OnlyHandler
  <2>5. TreeOfOneBroker'
    BY <1>1 DEF TreeOfOneBroker
  <2> QED
    BY <2>3, <2>4, <2>5
<1> QED
  BY <1>6, <1>7 DEF TurnInv

(* The wait ends: the link is down, or the disconnect has timed out. *)
LEMMA WaitTurn ==
  ASSUME TypeOK, TurnInv, Noted, NEW r \in Reqs, DropEnds(r) \/ DropTimesOut(r)
  PROVE  TurnInv'
<1> DEFINE k == req[r].took
<1>1. /\ req[r].pc = "waiting" /\ UNCHANGED <<cm, held>>
      /\ req' = [req EXCEPT ![r] = AfterDrop(@)]
      /\ \/ mgr' = [mgr EXCEPT ![k] = [@ EXCEPT !.life = "stopped", !.link = "down"]]
         \/ mgr' = [mgr EXCEPT ![k] = [@ EXCEPT !.life = "cancelled"]]
  BY DEF DropEnds, DropTimesOut
<1>2. /\ mgr \in Seq(ManagerRecord) /\ k \in Managers /\ mgr[k] \in ManagerRecord
      /\ DOMAIN req = Reqs /\ DOMAIN req[r] = {"pc", "op", "profile", "took"}
  <2>1. mgr \in Seq(ManagerRecord) /\ k \in Managers
    BY <1>1 DEF TypeOK
  <2> QED
    BY <2>1, ManagerFields DEF TypeOK
<1>3. OnlyHandler(r) /\ req'[r].pc \in {"resetting", "idle"}
  BY <1>1, <1>2 DEF OnlyHandler, AfterDrop
<1>4. /\ Managers' = Managers
      /\ \A j \in Managers : j # k => mgr'[j] = mgr[j]
      /\ mgr'[k].life # "running"
      /\ mgr'[k].link = "down" \/ mgr'[k].life = "cancelled"
  <2>1. ASSUME NEW x \in ManagerRecord, mgr' = [mgr EXCEPT ![k] = x],
               x.life # "running", x.link = "down" \/ x.life = "cancelled"
        PROVE  /\ Managers' = Managers
               /\ \A j \in Managers : j # k => mgr'[j] = mgr[j]
               /\ mgr'[k].life # "running"
               /\ mgr'[k].link = "down" \/ mgr'[k].life = "cancelled"
    <3> HIDE DEF k
    <3> QED
      BY <1>2, <2>1, ManagerChanged
  <2>2. CASE mgr' = [mgr EXCEPT ![k] = [@ EXCEPT !.life = "stopped", !.link = "down"]]
    <3> DEFINE x == [mgr[k] EXCEPT !.life = "stopped", !.link = "down"]
    <3>1. x \in ManagerRecord /\ x.life = "stopped" /\ x.link = "down"
      BY <1>2, ManagerUpdates DEF ManagerRecord
    <3>2. mgr' = [mgr EXCEPT ![k] = x]
      BY <2>2
    <3> HIDE DEF x, k
    <3> QED
      BY <2>1, <3>1, <3>2
  <2>3. CASE mgr' = [mgr EXCEPT ![k] = [@ EXCEPT !.life = "cancelled"]]
    <3> DEFINE x == [mgr[k] EXCEPT !.life = "cancelled"]
    <3>1. x \in ManagerRecord /\ x.life = "cancelled"
      BY <1>2 DEF ManagerRecord
    <3>2. mgr' = [mgr EXCEPT ![k] = x]
      BY <2>3
    <3> HIDE DEF x, k
    <3> QED
      BY <2>1, <3>1, <3>2
  <2> QED
    BY <1>1, <2>2, <2>3
<1>5. ~expired' => mgr'[k].link = "down"
  BY <1>2, <1>4 DEF Noted
<1> HIDE DEF k
<1>6. ASSUME ~overlapped'
      PROVE  OneAtATime' /\ OneConnection'
  <2>1. OneAtATime /\ OneConnection
    BY <1>6, StillInTurn DEF TurnInv
  <2>2. OneAtATime'
    BY <1>1, <1>3, <1>6, <2>1, StillInTurn DEF OneAtATime, OnlyHandler, PastDrop
  <2>3. OneConnection'
    BY <1>1, <1>4, <2>1 DEF OneConnection
  <2> QED
    BY <2>2, <2>3
<1>7. ASSUME ~overlapped', ~expired'
      PROVE  LinksAccountedFor' /\ TreeEmptyAtStart' /\ TreeOfOneBroker'
  <2>1. LinksAccountedFor /\ TreeEmptyAtStart /\ TreeOfOneBroker
    BY <1>7, StillInTurn DEF TurnInv, Noted
  <2>2. ASSUME NEW j \in Managers, mgr'[j].link = "up"
        PROVE  j = cm' \/ \E q \in Reqs : req'[q].pc = "waiting" /\ req'[q].took = j
    <3>1. j # k /\ mgr[j].link = "up"
      BY <1>4, <1>5, <1>7, <2>2
    <3>2. CASE j = cm
      BY <1>1, <3>2
    <3>3. CASE j # cm
      <4>1. PICK q \in Reqs : req[q].pc = "waiting" /\ req[q].took = j
        BY <2>1, <3>1, <3>3 DEF LinksAccountedFor
      <4>2. q # r
        BY <3>1, <4>1 DEF k
      <4> QED
        BY <1>3, <4>1, <4>2 DEF OnlyHandler
    <3> QED
      BY <3>2, <3>3
  <2>3. LinksAccountedFor'
    BY <1>4, <2>2 DEF LinksAccountedFor
  <2>4. TreeEmptyAtStart'
    BY <1>1, <1>3, <2>1 DEF TreeEmptyAtStart, OnlyHandler
  <2>5. TreeOfOneBroker'
    BY <1>1, <2>1 DEF TreeOfOneBroker
  <2> QED
    BY <2>3, <2>4, <2>5
<1> QED
  BY <1>6, <1>7 DEF TurnInv

(* A connection is started when there is no other, and no link is up. *)
LEMMA StartTurn ==
  ASSUME IInv, TurnInv, Noted, NEW r \in Reqs, Start(r)
  PROVE  TurnInv'
<1> DEFINE n == Len(mgr) + 1
           m == NewManager(gen + 1, req[r].profile)
<1>1. /\ req[r].pc = "starting" /\ held' = held /\ cm' = n
      /\ mgr' = Append(mgr, m) /\ req' = [req EXCEPT ![r] = Idle]
  BY DEF Start
<1>2. /\ mgr \in Seq(ManagerRecord) /\ NoManager \notin Managers /\ DOMAIN req = Reqs
  BY ManagerNumbers DEF IInv, TypeOK, Managers
<1>3. m \in ManagerRecord /\ m.link = "down"
  <2>1. req[r].profile \in Profiles
    BY <1>1, RequestValid DEF ValidRequest
  <2>2. gen \in Nat
    BY DEF IInv, TypeOK
  <2> QED
    BY <2>1, <2>2, BrokerAssumption DEF NewManager, ManagerRecord
<1> HIDE DEF m
<1>4. /\ Managers' = Managers \cup {n} /\ mgr'[n].link = "down"
      /\ \A k \in Managers : mgr'[k] = mgr[k]
  BY <1>1, <1>2, <1>3 DEF Managers
<1> HIDE DEF n
<1>5. OnlyHandler(r) /\ req'[r].pc = "idle"
  BY <1>1, <1>2 DEF OnlyHandler, Idle
<1>6. ASSUME ~overlapped'
      PROVE  OneAtATime' /\ OneConnection' /\ cm = NoManager /\ OneAtATime
  <2>1. OneAtATime /\ OneConnection /\ cm = NoManager
    BY <1>1, <1>6, StillInTurn DEF TurnInv, OneAtATime, PastDrop
  <2>2. \A q \in Reqs : req'[q].pc = "idle"
    BY <1>1, <1>5, <2>1 DEF OneAtATime, OnlyHandler
  <2>3. OneAtATime'
    BY <2>2 DEF OneAtATime, PastDrop
  <2>4. OneConnection'
    BY <1>1, <1>2, <1>4, <2>1 DEF OneConnection
  <2> QED
    BY <2>1, <2>3, <2>4
<1>7. ASSUME ~overlapped', ~expired'
      PROVE  LinksAccountedFor' /\ TreeEmptyAtStart' /\ TreeOfOneBroker'
  <2>1. LinksAccountedFor /\ TreeEmptyAtStart
    BY <1>7, StillInTurn DEF TurnInv, Noted
  <2>2. \A q \in Reqs : req[q].pc # "waiting"
    BY <1>1, <1>6, <1>7 DEF OneAtATime
  <2>3. \A k \in Managers : mgr[k].link # "up"
    BY <1>2, <1>6, <1>7, <2>1, <2>2 DEF LinksAccountedFor
  <2>4. LinksAccountedFor'
    BY <1>4, <2>3 DEF LinksAccountedFor
  <2>5. held' = {}
    BY <1>1, <2>1 DEF TreeEmptyAtStart
  <2> QED
    BY <2>4, <2>5 DEF TreeEmptyAtStart, TreeOfOneBroker
<1> QED
  BY <1>6, <1>7 DEF TurnInv

-----------------------------------------------------------------------------
LEMMA InitTurn == MCInit => IInv /\ TurnInv
<1> SUFFICES ASSUME MCInit PROVE IInv /\ TurnInv
  OBVIOUS
<1>1. IInv
  BY InitIInv DEF MCInit
<1>2. Managers = {} /\ held = {} /\ cm = NoManager /\ \A r \in Reqs : req[r].pc = "idle"
  <2>1. mgr = <<>>
    BY DEF MCInit, Init
  <2>2. Managers = {}
    BY <2>1 DEF Managers
  <2> QED
    BY <2>2 DEF MCInit, Init, Idle
<1>3. OneAtATime /\ OneConnection
  BY <1>2 DEF OneAtATime, OneConnection, PastDrop
<1>4. LinksAccountedFor /\ TreeEmptyAtStart /\ TreeOfOneBroker
  BY <1>2 DEF LinksAccountedFor, TreeEmptyAtStart, TreeOfOneBroker
<1> QED
  BY <1>1, <1>3, <1>4 DEF TurnInv

LEMMA NextTurn == IInv /\ TurnInv /\ [MCNext]_<<vars, overlapped, expired>> => (IInv /\ TurnInv)'
<1> SUFFICES ASSUME IInv, TurnInv, [MCNext]_<<vars, overlapped, expired>>
             PROVE  IInv' /\ TurnInv'
  OBVIOUS
<1>1. IInv'
  BY NextIInv DEF MCNext
<1>2. TypeOK
  BY DEF IInv
<1>3. ASSUME Next, Noted PROVE TurnInv'
  <2>1. CASE \E r \in Reqs : (\E p \in Profiles : Begin(r, "connect", p))
                                \/ Begin(r, "disconnect", NoProfile)
    BY <1>2, <1>3, <2>1, QuietHandlerTurn
  <2>2. CASE \E r \in Reqs : HandlerStep(r) \/ DropTimesOut(r)
    BY <1>2, <1>3, <2>2, DropTurn, WaitTurn, StartTurn, QuietHandlerTurn DEF HandlerStep
  <2>3. CASE \E k \in Managers : Callback(k) \/ Environment(k)
    BY <1>2, <1>3, <2>3, ManagersOnTheirOwn, OwnTurn
  <2> QED
    BY <1>3, <2>1, <2>2, <2>3 DEF Next
<1>4. CASE MCNext
  <2>1. Next /\ Noted
    BY <1>4 DEF MCNext, Noted
  <2> QED
    BY <1>1, <1>3, <2>1
<1>5. CASE UNCHANGED <<vars, overlapped, expired>>
  <2>1. UNCHANGED <<cm, req, mgr, held, overlapped, expired>> /\ Managers' = Managers
    BY <1>5 DEF vars, Managers
  <2>2. /\ OneAtATime' <=> OneAtATime
        /\ OneConnection' <=> OneConnection
        /\ LinksAccountedFor' <=> LinksAccountedFor
        /\ TreeEmptyAtStart' <=> TreeEmptyAtStart
        /\ TreeOfOneBroker' <=> TreeOfOneBroker
    BY <2>1 DEF OneAtATime, OneConnection, LinksAccountedFor, TreeEmptyAtStart, TreeOfOneBroker
  <2> QED
    BY <1>1, <2>1, <2>2 DEF TurnInv
<1> QED
  BY <1>1, <1>4, <1>5

THEOREM TurnInvariance == MCSpec => [](IInv /\ TurnInv)
<1>1. MCInit => IInv /\ TurnInv
  BY InitTurn
<1>2. IInv /\ TurnInv /\ [MCNext]_<<vars, overlapped, expired>> => (IInv /\ TurnInv)'
  BY NextTurn
<1> QED
  BY <1>1, <1>2, PTL DEF MCSpec

(***************************************************************************)
(* As long as requests come one after the other, every connection that     *)
(* nobody has told to stop is the one the Manager can still stop, whatever *)
(* timed out (broker.go:60, 226).                                          *)
(***************************************************************************)
THEOREM OneConnectionCorrect == MCSpec => []OneConnectionInTurn
<1>1. TurnInv => OneConnectionInTurn
  BY DEF TurnInv, OneConnectionInTurn
<1> QED
  BY <1>1, TurnInvariance, PTL

(***************************************************************************)
(* As long as, besides, every disconnect was answered in time, the tree    *)
(* holds messages of the present connection only (broker.go:60).           *)
(***************************************************************************)
THEOREM TreeCorrect == MCSpec => []TreeOfOneBrokerInTurn
<1>1. TurnInv => TreeOfOneBrokerInTurn
  BY DEF TurnInv, TreeOfOneBrokerInTurn
<1> QED
  BY <1>1, TurnInvariance, PTL
=============================================================================
