------------------------------ MODULE WsServer ------------------------------
(***************************************************************************)
(* The connections of ws.go with clients that follow the protocol but are  *)
(* otherwise arbitrary: a client sends, in any order and number, messages  *)
(* about topics it has been told of, with the epoch it was told them in,   *)
(* and leaves when it likes.  What is written to it arrives at once.       *)
(***************************************************************************)
EXTENDS WsConn

CONSTANTS
  Kinds,         \* the kinds of messages clients send in this instance
  MaxInFlight,   \* bound: unread messages of a client
  MaxSent        \* bound: messages all clients together send

VARIABLES
  seen,    \* per connection: the <<epoch, id>> the client has been told of
  sent,    \* how many messages clients have sent
  listed   \* auxiliary: the epochs for which the server's watch and compare
           \* lists of a connection were made

envVars == <<seen, sent, listed>>
vars == <<storeVars, connVars, envVars>>

Init ==
  /\ StoreInit
  /\ ConnInit
  /\ seen = [c \in Conns |-> {}]
  /\ sent = 0
  /\ listed = [c \in Conns |-> [watch |-> 0, compare |-> 0]]

-----------------------------------------------------------------------------
Publish(name) == Ingest(name) /\ UNCHANGED <<connVars, envVars>>

Clear == epoch < MaxEpoch /\ Reset /\ UNCHANGED <<connVars, envVars>>

\* Lists of one topic, and one that MaxWatchedRows or MaxCompared may cut.
ListsOf(e, known) ==
  LET ids == {p[2] : p \in {q \in known : q[1] = e}}
  IN  {<<>>} \cup {<<id>> : id \in ids} \cup (IF ids = {} THEN {} ELSE {SetToSeq(ids)})

MessagesOf(c) ==
  LET known  == seen[c]
      epochs == {p[1] : p \in known}
  IN  (UNION {{WatchMsg(e, ids) : ids \in ListsOf(e, known)} : e \in epochs})
        \cup (UNION {{CompareMsg(e, ids) : ids \in ListsOf(e, known)} : e \in epochs})
        \cup {SelectMsg(p[1], p[2]) : p \in known}
        \cup {SelectMsg(e, NoTopic) : e \in epochs}

ClientSends(c) ==
  /\ ~gone[c] /\ wr[c] # "off"
  /\ sent < MaxSent
  /\ Len(inbox[c]) < MaxInFlight
  /\ \E m \in MessagesOf(c) :
       m.t \in Kinds /\ inbox' = [inbox EXCEPT ![c] = Append(@, m)]
  /\ sent' = sent + 1
  /\ UNCHANGED <<storeVars, clientVars, rd, hand, wr, out, gone, seen, listed>>

ClientLeaves(c) ==
  /\ ~gone[c] /\ wr[c] # "off"
  /\ gone' = [gone EXCEPT ![c] = TRUE]
  /\ UNCHANGED <<storeVars, clientVars, rd, hand, wr, out, inbox, envVars>>

\* The update arrives; a client that has left takes nothing.
Deliver(c) ==
  /\ wr[c] = "writing"
  /\ seen' = [seen EXCEPT ![c] =
       IF gone[c] THEN @
       ELSE @ \cup {<<out[c].epoch, id>> :
                      id \in out[c].firstId..(out[c].firstId + Len(out[c].names) - 1)}]
  /\ Written(c)
  /\ UNCHANGED <<sent, listed>>

\* The auxiliary variable notes for which epoch a list was taken over.
TakesList(c) ==
  /\ HandleWatch(c) \/ HandleCompare(c)
  /\ listed' = IF want' = want THEN listed
               ELSE [listed EXCEPT ![c] = IF hand[c].t = "watch"
                                          THEN [@ EXCEPT !.watch = hand[c].epoch]
                                          ELSE [@ EXCEPT !.compare = hand[c].epoch]]
  /\ UNCHANGED <<seen, sent>>

ReaderStep(c) ==
  \/ TakesList(c)
  \/ /\ ReadMessage(c) \/ ReadFails(c) \/ SelectReleases(c) \/ SelectTakes(c)
     /\ UNCHANGED envVars

WriterStep(c) ==
  \/ Deliver(c)
  \/ /\ SendUpdate(c) \/ SeesCancel(c) \/ Teardown(c)
     /\ UNCHANGED envVars

\* Writes of a cancelled connection fail, a ticker goes on ticking: neither
\* is needed for progress, so neither is assumed to be fair.
WriterChoice(c) == (WriteFails(c) \/ TickerFires(c)) /\ UNCHANGED envVars

Next ==
  \/ \E name \in Names : Publish(name)
  \/ Clear
  \/ \E c \in Conns : \/ Accept(c) /\ UNCHANGED envVars
                      \/ ClientSends(c)
                      \/ ClientLeaves(c)
                      \/ ReaderStep(c)
                      \/ WriterStep(c)
                      \/ WriterChoice(c)

Spec == Init /\ [][Next]_vars

\* The Go scheduler runs every goroutine that can run.  The wait for the
\* ticker or the cancellation sees the cancellation eventually although the
\* ticker may win any number of times: strong fairness of the select
\* statement, whose choice between ready cases is random.
LiveSpec ==
  /\ Spec
  /\ \A c \in Conns : WF_vars(ReaderStep(c)) /\ WF_vars(WriterStep(c))
                      /\ SF_vars(SeesCancel(c) /\ UNCHANGED envVars)

-----------------------------------------------------------------------------
\* Connections that hold a selection of the topic in the current epoch.
Holders(id) ==
  {c \in Conns : wr[c] # "closed" /\ want[c].selected = id /\ selEpoch[c] = epoch}

(***************************************************************************)
(* A topic counts exactly the live connections that have it selected and   *)
(* records history if and only if there is one: "number of readers that    *)
(* have this topic selected" (store.go:40), "History is dropped when       *)
(* nobody has the topic selected" (store.go:125).                          *)
(***************************************************************************)
SelectionsCounted ==
  \A id \in TopicIds :
    /\ topics[id].selected = Cardinality(Holders(id))
    /\ (topics[id].hist = NoRing) <=> (Holders(id) = {})

(***************************************************************************)
(* A tick carries previews, compared messages and history only of topics   *)
(* the client asked for in the very epoch the tick is about: a list made   *)
(* before a reset never names topics of after it (ws.go:168-184, 203-206,  *)
(* store.go:203-204), and every topic named is known to the client by the  *)
(* end of that tick.                                                       *)
(***************************************************************************)
TicksAnswerTheirEpoch ==
  \A c \in Conns :
    wr[c] = "writing" =>
      LET u    == out[c]
          last == u.firstId + Len(u.names) - 1
      IN  /\ DOMAIN u.previews # {} => listed[c].watch = u.epoch
          /\ DOMAIN u.compared # {} => listed[c].compare = u.epoch
          /\ u.history # <<>> => u.selected # NoTopic /\ selEpoch[c] = u.epoch
          /\ \A id \in DOMAIN u.previews \cup DOMAIN u.compared \cup DOMAIN u.counts :
               id <= last
          /\ u.history # <<>> => u.selected <= last

(***************************************************************************)
(* When every client has left, no topic goes on recording history          *)
(* (ws.go:127-133).                                                        *)
(***************************************************************************)
SelectionsEnd ==
  (\A c \in Conns : gone[c]) ~> (\A id \in TopicIds : topics[id].hist = NoRing)
=============================================================================
