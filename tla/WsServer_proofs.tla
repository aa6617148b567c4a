--------------------------- MODULE WsServer_proofs ---------------------------
(***************************************************************************)
(* Proofs about the WebSocket connections, for every number of             *)
(* connections, topics and messages.                                       *)
(***************************************************************************)
EXTENDS WsServer, Store_proofs

-----------------------------------------------------------------------------
(***************************************************************************)
(* The inductive invariant.  What a client may say is bounded by what its  *)
(* connection has told it, and the server's lists and selection by what    *)
(* the client said: so every epoch in a message, a list or a selection is  *)
(* at most the cursor's, and an id of the cursor's epoch is at most its    *)
(* number of topics.                                                       *)
(***************************************************************************)
CursorRecord == [epoch : Nat, topics : Nat, seq : Nat]

WantFields == {"watch", "watchAll", "compare", "compareAll", "selected"}

Told(c, e, id) ==
  /\ e \in 1..cur[c].epoch
  /\ id \in Nat
  /\ e = cur[c].epoch => id <= cur[c].topics

MessageOK(c, m) ==
  /\ m.t \in {"watch", "compare", "select"}
  /\ m.epoch \in 1..cur[c].epoch
  /\ m.t = "select" => Told(c, m.epoch, m.id)

CursorAt(c) ==
  /\ cur[c] \in CursorRecord
  /\ cur[c].epoch <= epoch
  /\ cur[c].epoch = epoch => cur[c].topics <= Len(topics)

WantAt(c) ==
  /\ DOMAIN want[c] = WantFields
  /\ want[c].selected \in Nat
  /\ want[c].selected # NoTopic => /\ selEpoch[c] = cur[c].epoch /\ cur[c].epoch # 0
                                   /\ want[c].selected <= cur[c].topics
  /\ want[c].watch # <<>> => listed[c].watch = cur[c].epoch /\ cur[c].epoch # 0
  /\ want[c].compare # <<>> => listed[c].compare = cur[c].epoch /\ cur[c].epoch # 0

TalkAt(c) ==
  /\ \A p \in seen[c] : Told(c, p[1], p[2])
  /\ rd[c] \in {"handling", "selecting"} => MessageOK(c, hand[c])
  /\ rd[c] = "selecting" => hand[c].t = "select" /\ want[c].selected = NoTopic

UnreadAt(c) == \E S : inbox[c] \in Seq(S) /\ \A m \in S : MessageOK(c, m)

(* The part of TicksAnswerTheirEpoch about one connection. *)
Answers(c) ==
  LET u    == out[c]
      last == u.firstId + Len(u.names) - 1
  IN  /\ DOMAIN u.previews # {} => listed[c].watch = u.epoch
      /\ DOMAIN u.compared # {} => listed[c].compare = u.epoch
      /\ u.history # <<>> => u.selected # NoTopic /\ selEpoch[c] = u.epoch
      /\ \A id \in DOMAIN u.previews \cup DOMAIN u.compared \cup DOMAIN u.counts :
           id <= last
      /\ u.history # <<>> => u.selected <= last

TickAt(c) ==
  wr[c] = "writing" =>
    /\ out[c].epoch = cur[c].epoch /\ cur[c].epoch # 0
    /\ out[c].firstId \in Nat \ {0} /\ Len(out[c].names) \in Nat
    /\ out[c].firstId + Len(out[c].names) - 1 = cur[c].topics
    /\ Answers(c)

ConnAt(c) == CursorAt(c) /\ WantAt(c) /\ TalkAt(c) /\ UnreadAt(c) /\ TickAt(c)

Shapes ==
  /\ DOMAIN cur = Conns /\ DOMAIN histN = Conns /\ DOMAIN want = Conns
  /\ DOMAIN selEpoch = Conns /\ DOMAIN rd = Conns /\ DOMAIN hand = Conns
  /\ DOMAIN wr = Conns /\ DOMAIN out = Conns /\ DOMAIN inbox = Conns
  /\ DOMAIN gone = Conns /\ DOMAIN seen = Conns /\ DOMAIN listed = Conns
  /\ \A c \in Conns : DOMAIN listed[c] = {"watch", "compare"}

WInv == StoreInv /\ Shapes /\ \A c \in Conns : ConnAt(c)

-----------------------------------------------------------------------------
\* The store has gone on to a later epoch, or has no fewer topics in this one.
Grows == epoch' > epoch \/ (epoch' = epoch /\ Len(topics') >= Len(topics))

(* What a step that leaves a part of a connection alone preserves of it. *)
LEMMA CursorKept ==
  ASSUME StoreInv, StoreInv', Grows, NEW c \in Conns, CursorAt(c), cur'[c] = cur[c]
  PROVE  CursorAt(c)'
<1>1. /\ epoch \in Nat /\ epoch' \in Nat
      /\ Len(topics) \in Nat /\ Len(topics') \in Nat
  BY TableDomain DEF StoreInv
<1>2. cur[c].epoch \in Nat /\ cur[c].topics \in Nat
  BY DEF CursorAt, CursorRecord
<1> QED
  BY <1>1, <1>2 DEF CursorAt, Grows

LEMMA WantKept ==
  ASSUME NEW c \in Conns, WantAt(c), want'[c] = want[c], selEpoch'[c] = selEpoch[c],
         listed'[c] = listed[c], cur'[c] = cur[c]
  PROVE  WantAt(c)'
BY DEF WantAt

LEMMA TalkKept ==
  ASSUME NEW c \in Conns, TalkAt(c), seen'[c] = seen[c], rd'[c] = rd[c],
         hand'[c] = hand[c], want'[c].selected = want[c].selected, cur'[c] = cur[c]
  PROVE  TalkAt(c)'
BY DEF TalkAt, Told, MessageOK

LEMMA UnreadKept ==
  ASSUME NEW c \in Conns, UnreadAt(c), inbox'[c] = inbox[c], cur'[c] = cur[c]
  PROVE  UnreadAt(c)'
BY DEF UnreadAt, Told, MessageOK

LEMMA TickKept ==
  ASSUME NEW c \in Conns, TickAt(c), wr'[c] = wr[c], out'[c] = out[c],
         listed'[c] = listed[c], selEpoch'[c] = selEpoch[c], cur'[c] = cur[c]
  PROVE  TickAt(c)'
BY DEF TickAt, Answers

LEMMA ConnKept ==
  ASSUME StoreInv, StoreInv', Grows, NEW c \in Conns, ConnAt(c),
         cur'[c] = cur[c], want'[c] = want[c], selEpoch'[c] = selEpoch[c],
         rd'[c] = rd[c], hand'[c] = hand[c], wr'[c] = wr[c], out'[c] = out[c],
         inbox'[c] = inbox[c], seen'[c] = seen[c], listed'[c] = listed[c]
  PROVE  ConnAt(c)'
BY CursorKept, WantKept, TalkKept, UnreadKept, TickKept DEF ConnAt

\* A step that concerns one connection.
OnlyOf(c) ==
  \A d \in Conns \ {c} :
    /\ cur'[d] = cur[d] /\ want'[d] = want[d] /\ selEpoch'[d] = selEpoch[d]
    /\ rd'[d] = rd[d] /\ hand'[d] = hand[d] /\ wr'[d] = wr[d] /\ out'[d] = out[d]
    /\ inbox'[d] = inbox[d] /\ seen'[d] = seen[d] /\ listed'[d] = listed[d]

LEMMA OneConnection ==
  ASSUME WInv, StoreInv', Grows, Shapes', NEW c \in Conns, OnlyOf(c), ConnAt(c)'
  PROVE  WInv'
<1>1. ASSUME NEW d \in Conns
      PROVE  ConnAt(d)'
  <2>1. CASE d = c
    BY <2>1
  <2>2. CASE d # c
    BY <2>2, ConnKept DEF WInv, OnlyOf
  <2> QED
    BY <2>1, <2>2
<1> QED
  BY <1>1 DEF WInv

(* The store goes on: no connection notices before it polls. *)
LEMMA StoreStep ==
  ASSUME WInv, StoreInv', Grows, UNCHANGED <<connVars, envVars>>
  PROVE  WInv'
<1>1. ASSUME NEW c \in Conns
      PROVE  ConnAt(c)'
  BY ConnKept DEF WInv, connVars, envVars
<1>2. Shapes'
  BY DEF WInv, Shapes, connVars, envVars
<1> QED
  BY <1>1, <1>2 DEF WInv

LEMMA PublishStep ==
  ASSUME WInv, NEW name \in Names, Publish(name)
  PROVE  WInv'
<1>1. StoreInv' /\ Grows
  BY IngestTable DEF WInv, Publish, Grows
<1> QED
  BY <1>1, StoreStep DEF Publish

LEMMA ClearStep ==
  ASSUME WInv, Clear
  PROVE  WInv'
<1>1. StoreInv' /\ epoch' = epoch + 1 /\ epoch \in Nat
  BY ResetTable DEF WInv, Clear, StoreInv
<1>2. Grows
  BY <1>1 DEF Grows
<1> QED
  BY <1>1, <1>2, StoreStep DEF Clear

\* A step in which the store does nothing.
StoreRests == UNCHANGED storeVars

LEMMA RestsGrows ==
  ASSUME StoreInv, StoreRests
  PROVE  StoreInv' /\ Grows
<1>1. Len(topics) \in Nat /\ epoch \in Nat
  BY TableDomain DEF StoreInv
<1> QED
  BY <1>1 DEF StoreRests, storeVars, StoreInv, Grows

LEMMA AcceptStep ==
  ASSUME WInv, NEW c \in Conns, Accept(c), UNCHANGED envVars
  PROVE  WInv'
<1>1. /\ UNCHANGED <<cur, want, selEpoch, hand, out, inbox, seen, listed, histN, gone>>
      /\ rd' = [rd EXCEPT ![c] = "reading"] /\ wr' = [wr EXCEPT ![c] = "polling"]
      /\ StoreRests
  BY DEF Accept, clientVars, envVars, StoreRests
<1>2. StoreInv' /\ Grows /\ ConnAt(c)
  BY <1>1, RestsGrows DEF WInv
<1>3. Shapes' /\ rd'[c] = "reading" /\ wr'[c] = "polling"
  BY <1>1 DEF WInv, Shapes
<1>4. OnlyOf(c)
  BY <1>1 DEF OnlyOf, WInv, Shapes
<1>5. CursorAt(c)' /\ WantAt(c)' /\ UnreadAt(c)'
  BY <1>1, <1>2, CursorKept, WantKept, UnreadKept DEF ConnAt, WInv
<1>6. TalkAt(c)'
  BY <1>1, <1>2, <1>3 DEF ConnAt, TalkAt, Told
<1>7. TickAt(c)'
  BY <1>3 DEF TickAt
<1> QED
  BY <1>2, <1>3, <1>4, <1>5, <1>6, <1>7, OneConnection DEF ConnAt

-----------------------------------------------------------------------------
(* Clients speak of what they have been told of. *)
LEMMA WhatClientsSay ==
  ASSUME WInv, NEW c \in Conns, NEW m \in MessagesOf(c)
  PROVE  MessageOK(c, m)
<1>1. \A p \in seen[c] : Told(c, p[1], p[2])
  BY DEF WInv, ConnAt, TalkAt
<1>2. cur[c].topics \in Nat /\ NoTopic = 0
  BY DEF WInv, ConnAt, CursorAt, CursorRecord, NoTopic
<1>3. ASSUME NEW p \in seen[c]
      PROVE  p[1] \in 1..cur[c].epoch /\ Told(c, p[1], p[2]) /\ Told(c, p[1], NoTopic)
  BY <1>1, <1>2 DEF Told
<1>4. CASE \E p \in seen[c] : \E ids : m = WatchMsg(p[1], ids)
  BY <1>3, <1>4 DEF WatchMsg, MessageOK
<1>5. CASE \E p \in seen[c] : \E ids : m = CompareMsg(p[1], ids)
  BY <1>3, <1>5 DEF CompareMsg, MessageOK
<1>6. CASE \E p \in seen[c] : m = SelectMsg(p[1], p[2]) \/ m = SelectMsg(p[1], NoTopic)
  BY <1>3, <1>6 DEF SelectMsg, MessageOK
<1> QED
  BY <1>4, <1>5, <1>6 DEF MessagesOf

LEMMA ClientSendsStep ==
  ASSUME WInv, NEW c \in Conns, ClientSends(c)
  PROVE  WInv'
<1>1. PICK m \in MessagesOf(c) : inbox' = [inbox EXCEPT ![c] = Append(@, m)]
  BY DEF ClientSends
<1>2. /\ UNCHANGED <<cur, want, selEpoch, rd, hand, wr, out, seen, listed, histN, gone>>
      /\ StoreRests
  BY DEF ClientSends, clientVars, StoreRests
<1>3. StoreInv' /\ Grows /\ ConnAt(c)
  BY <1>2, RestsGrows DEF WInv
<1>4. Shapes' /\ inbox'[c] = Append(inbox[c], m)
  BY <1>1, <1>2 DEF WInv, Shapes
<1>5. OnlyOf(c)
  BY <1>1, <1>2 DEF OnlyOf, WInv, Shapes
<1>6. CursorAt(c)' /\ WantAt(c)' /\ TalkAt(c)' /\ TickAt(c)'
  BY <1>2, <1>3, CursorKept, WantKept, TalkKept, TickKept DEF ConnAt, WInv
<1>7. UnreadAt(c)'
  <2>1. PICK S : inbox[c] \in Seq(S) /\ \A n \in S : MessageOK(c, n)
    BY <1>3 DEF ConnAt, UnreadAt
  <2>2. inbox'[c] \in Seq(S \cup {m})
    BY <1>4, <2>1
  <2>3. \A n \in S \cup {m} : MessageOK(c, n)
    BY <2>1, WhatClientsSay
  <2>4. \A n \in S \cup {m} : MessageOK(c, n)'
    BY <1>2, <2>3 DEF MessageOK, Told
  <2> QED
    BY <2>2, <2>4 DEF UnreadAt
<1> QED
  BY <1>3, <1>4, <1>5, <1>6, <1>7, OneConnection DEF ConnAt

LEMMA ClientLeavesStep ==
  ASSUME WInv, NEW c \in Conns, ClientLeaves(c)
  PROVE  WInv'
<1>1. /\ UNCHANGED <<cur, want, selEpoch, rd, hand, wr, out, inbox, seen, listed, histN>>
      /\ gone' = [gone EXCEPT ![c] = TRUE] /\ StoreRests
  BY DEF ClientLeaves, clientVars, envVars, StoreRests
<1>2. StoreInv' /\ Grows /\ ConnAt(c)
  BY <1>1, RestsGrows DEF WInv
<1>3. Shapes' /\ OnlyOf(c)
  BY <1>1 DEF WInv, Shapes, OnlyOf
<1>4. ConnAt(c)'
  BY <1>1, <1>2, ConnKept DEF WInv
<1> QED
  BY <1>2, <1>3, <1>4, OneConnection

-----------------------------------------------------------------------------
(* The reader. *)
LEMMA ReadMessageStep ==
  ASSUME WInv, NEW c \in Conns, ReadMessage(c), UNCHANGED envVars
  PROVE  WInv'
<1>1. /\ UNCHANGED <<cur, want, selEpoch, wr, out, seen, listed, histN, gone>>
      /\ hand' = [hand EXCEPT ![c] = Head(inbox[c])]
      /\ inbox' = [inbox EXCEPT ![c] = Tail(@)] /\ inbox[c] # <<>>
      /\ rd' = [rd EXCEPT ![c] = "handling"] /\ StoreRests
  BY DEF ReadMessage, clientVars, envVars, StoreRests
<1>2. StoreInv' /\ Grows /\ ConnAt(c)
  BY <1>1, RestsGrows DEF WInv
<1>3. Shapes' /\ OnlyOf(c)
  BY <1>1 DEF WInv, Shapes, OnlyOf
<1>4. rd'[c] = "handling" /\ hand'[c] = Head(inbox[c]) /\ inbox'[c] = Tail(inbox[c])
  BY <1>1 DEF WInv, Shapes
<1>5. CursorAt(c)' /\ WantAt(c)' /\ TickAt(c)'
  BY <1>1, <1>2, CursorKept, WantKept, TickKept DEF ConnAt, WInv
<1>6. PICK S : inbox[c] \in Seq(S) /\ \A m \in S : MessageOK(c, m)
  BY <1>2 DEF ConnAt, UnreadAt
<1>7. Head(inbox[c]) \in S /\ Tail(inbox[c]) \in Seq(S)
  BY <1>1, <1>6
<1>8. \A m \in S : MessageOK(c, m)'
  BY <1>1, <1>6 DEF MessageOK, Told
<1>9. UnreadAt(c)'
  BY <1>4, <1>7, <1>8 DEF UnreadAt
<1>10. MessageOK(c, hand[c])'
  BY <1>4, <1>7, <1>8
<1>11. TalkAt(c)'
  BY <1>1, <1>2, <1>4, <1>10 DEF ConnAt, TalkAt, Told
<1> QED
  BY <1>2, <1>3, <1>5, <1>9, <1>11, OneConnection DEF ConnAt

LEMMA ReadFailsStep ==
  ASSUME WInv, NEW c \in Conns, ReadFails(c), UNCHANGED envVars
  PROVE  WInv'
<1>1. /\ UNCHANGED <<cur, want, selEpoch, hand, wr, out, seen, listed, histN, gone>>
      /\ inbox' = [inbox EXCEPT ![c] = <<>>]
      /\ rd' = [rd EXCEPT ![c] = "done"] /\ StoreRests
  BY DEF ReadFails, clientVars, envVars, StoreRests
<1>2. StoreInv' /\ Grows /\ ConnAt(c)
  BY <1>1, RestsGrows DEF WInv
<1>3. Shapes' /\ OnlyOf(c)
  BY <1>1 DEF WInv, Shapes, OnlyOf
<1>4. rd'[c] = "done" /\ inbox'[c] = <<>>
  BY <1>1 DEF WInv, Shapes
<1>5. CursorAt(c)' /\ WantAt(c)' /\ TickAt(c)'
  BY <1>1, <1>2, CursorKept, WantKept, TickKept DEF ConnAt, WInv
<1>6. UnreadAt(c)'
  <2>1. inbox'[c] \in Seq({})
    BY <1>4
  <2> QED
    BY <2>1 DEF UnreadAt
<1>7. TalkAt(c)'
  BY <1>1, <1>2, <1>4 DEF ConnAt, TalkAt, Told
<1> QED
  BY <1>2, <1>3, <1>5, <1>6, <1>7, OneConnection DEF ConnAt

\* What a handled message leaves of the connection's state.
HandledOnly(c) ==
  /\ UNCHANGED <<cur, histN, selEpoch, wr, out, inbox, gone, seen>>
  /\ rd' = [rd EXCEPT ![c] = "reading"] /\ hand' = [hand EXCEPT ![c] = NoMessage]
  /\ StoreRests

(* A list is taken over only from a message of the cursor's epoch: a tick  *)
(* that is being written, and every tick after it, is of that epoch.       *)
LEMMA WatchTaken ==
  ASSUME WInv, NEW c \in Conns, HandleWatch(c), TakesList(c)
  PROVE  /\ HandledOnly(c)
         /\ \/ UNCHANGED <<want, listed>>
            \/ /\ hand[c].epoch = cur[c].epoch
               /\ want' = [want EXCEPT ![c].watch = Cut(hand[c].ids, MaxWatchedRows),
                                       ![c].watchAll = TRUE]
               /\ listed' = [listed EXCEPT ![c].watch = cur[c].epoch]
BY DEF HandleWatch, TakesList, Handled, HandledOnly, StoreRests

LEMMA CompareTaken ==
  ASSUME WInv, NEW c \in Conns, HandleCompare(c), TakesList(c)
  PROVE  /\ HandledOnly(c)
         /\ \/ UNCHANGED <<want, listed>>
            \/ /\ hand[c].epoch = cur[c].epoch
               /\ want' = [want EXCEPT ![c].compare = Cut(hand[c].ids, MaxCompared),
                                       ![c].compareAll = TRUE]
               /\ listed' = [listed EXCEPT ![c].compare = cur[c].epoch]
BY DEF HandleCompare, TakesList, Handled, HandledOnly, StoreRests

LEMMA TakesListStep ==
  ASSUME WInv, NEW c \in Conns, TakesList(c)
  PROVE  WInv'
<1>1. /\ HandledOnly(c) /\ rd[c] = "handling"
      /\ \/ UNCHANGED <<want, listed>>
         \/ /\ hand[c].epoch = cur[c].epoch
            /\ \/ /\ want' = [want EXCEPT ![c].watch = Cut(hand[c].ids, MaxWatchedRows),
                                          ![c].watchAll = TRUE]
                  /\ listed' = [listed EXCEPT ![c].watch = cur[c].epoch]
               \/ /\ want' = [want EXCEPT ![c].compare = Cut(hand[c].ids, MaxCompared),
                                          ![c].compareAll = TRUE]
                  /\ listed' = [listed EXCEPT ![c].compare = cur[c].epoch]
  <2>1. CASE HandleWatch(c)
    BY <2>1, WatchTaken DEF HandleWatch
  <2>2. CASE HandleCompare(c)
    BY <2>2, CompareTaken DEF HandleCompare
  <2> QED
    BY <2>1, <2>2 DEF TakesList
<1>2. StoreInv' /\ Grows /\ ConnAt(c) /\ Shapes
  BY <1>1, RestsGrows DEF WInv, HandledOnly
<1>3. /\ UNCHANGED <<cur, histN, selEpoch, wr, out, inbox, gone, seen>>
      /\ rd' = [rd EXCEPT ![c] = "reading"] /\ hand' = [hand EXCEPT ![c] = NoMessage]
  BY <1>1 DEF HandledOnly
<1>4. DOMAIN want[c] = WantFields /\ DOMAIN listed[c] = {"watch", "compare"}
  BY <1>2 DEF ConnAt, WantAt, Shapes
<1>5. /\ DOMAIN want' = Conns /\ DOMAIN listed' = Conns
      /\ \A d \in Conns : d # c => want'[d] = want[d] /\ listed'[d] = listed[d]
  BY <1>1, <1>2 DEF Shapes
<1>6. /\ DOMAIN want'[c] = WantFields /\ DOMAIN listed'[c] = {"watch", "compare"}
      /\ want'[c].selected = want[c].selected
      /\ \/ want'[c].watch = want[c].watch /\ listed'[c].watch = listed[c].watch
         \/ hand[c].epoch = cur[c].epoch /\ listed'[c].watch = cur[c].epoch
      /\ \/ want'[c].compare = want[c].compare /\ listed'[c].compare = listed[c].compare
         \/ hand[c].epoch = cur[c].epoch /\ listed'[c].compare = cur[c].epoch
  <2>1. CASE UNCHANGED <<want, listed>>
    BY <1>4, <2>1
  <2>2. CASE /\ hand[c].epoch = cur[c].epoch
             /\ want' = [want EXCEPT ![c].watch = Cut(hand[c].ids, MaxWatchedRows),
                                     ![c].watchAll = TRUE]
             /\ listed' = [listed EXCEPT ![c].watch = cur[c].epoch]
    BY <1>2, <1>4, <2>2 DEF Shapes, WantFields
  <2>3. CASE /\ hand[c].epoch = cur[c].epoch
             /\ want' = [want EXCEPT ![c].compare = Cut(hand[c].ids, MaxCompared),
                                     ![c].compareAll = TRUE]
             /\ listed' = [listed EXCEPT ![c].compare = cur[c].epoch]
    BY <1>2, <1>4, <2>3 DEF Shapes, WantFields
  <2> QED
    BY <1>1, <2>1, <2>2, <2>3
<1>7. Shapes'
  BY <1>2, <1>3, <1>5, <1>6 DEF Shapes
<1>8. OnlyOf(c)
  BY <1>2, <1>3, <1>5 DEF OnlyOf, Shapes
<1>9. hand[c].epoch \in 1..cur[c].epoch /\ cur[c].epoch \in Nat
  BY <1>1, <1>2 DEF ConnAt, TalkAt, MessageOK, CursorAt, CursorRecord
<1>10. cur[c].epoch = hand[c].epoch => cur[c].epoch # 0
  BY <1>9
<1>11. WantAt(c)'
  BY <1>2, <1>3, <1>6, <1>10 DEF ConnAt, WantAt
<1>12. CursorAt(c)' /\ UnreadAt(c)'
  BY <1>2, <1>3, CursorKept, UnreadKept DEF ConnAt, WInv
<1>13. TalkAt(c)'
  BY <1>2, <1>3 DEF ConnAt, TalkAt, Told, Shapes
<1>14. TickAt(c)'
  BY <1>2, <1>3, <1>6 DEF ConnAt, TickAt, Answers
<1> QED
  BY <1>2, <1>7, <1>8, <1>11, <1>12, <1>13, <1>14, OneConnection DEF ConnAt

LEMMA SelectReleasesStep ==
  ASSUME WInv, NEW c \in Conns, SelectReleases(c), UNCHANGED envVars
  PROVE  WInv'
<1>1. /\ UNCHANGED <<epoch, seq, byName, stats>>
      /\ UNCHANGED <<cur, histN, selEpoch, hand, wr, out, inbox, gone, seen, listed>>
      /\ want' = [want EXCEPT ![c].selected = NoTopic]
      /\ rd' = [rd EXCEPT ![c] = "selecting"]
      /\ rd[c] = "handling" /\ hand[c].t = "select"
      /\ topics' = Released(topics, selEpoch[c], want[c].selected)
  BY DEF SelectReleases, envVars
<1>2. SameTopics(topics', topics) /\ topics \in Seq(TopicRecord) /\ epoch \in Nat
  BY <1>1, ReleasedSame DEF WInv, StoreInv
<1>3. StoreInv'
  BY <1>1, <1>2, SelectionTable DEF WInv
<1>4. Grows
  BY <1>1, <1>2, TableDomain DEF Grows, SameTopics
<1>5. ConnAt(c) /\ Shapes /\ DOMAIN want[c] = WantFields /\ NoTopic = 0
  BY DEF WInv, ConnAt, WantAt, NoTopic
<1>6. /\ DOMAIN want'[c] = WantFields /\ want'[c].selected = NoTopic
      /\ want'[c].watch = want[c].watch /\ want'[c].compare = want[c].compare
      /\ DOMAIN want' = Conns
      /\ rd'[c] = "selecting"
  BY <1>1, <1>5 DEF WantFields, Shapes
<1>7. Shapes' /\ OnlyOf(c)
  BY <1>1, <1>5 DEF Shapes, OnlyOf
<1>8. WantAt(c)'
  BY <1>1, <1>5, <1>6 DEF ConnAt, WantAt
<1>9. CursorAt(c)' /\ UnreadAt(c)' /\ TickAt(c)'
  BY <1>1, <1>3, <1>4, <1>5, CursorKept, UnreadKept, TickKept DEF ConnAt, WInv
<1>10. TalkAt(c)'
  BY <1>1, <1>5, <1>6 DEF ConnAt, TalkAt, Told, MessageOK
<1> QED
  BY <1>3, <1>4, <1>7, <1>8, <1>9, <1>10, OneConnection DEF ConnAt

(* The new selection is of the cursor's epoch, which is the store's: the   *)
(* client cannot have been told of a later one.                            *)
LEMMA SelectTakesStep ==
  ASSUME WInv, NEW c \in Conns, SelectTakes(c), UNCHANGED envVars
  PROVE  WInv'
<1> DEFINE e == hand[c].epoch
           id == hand[c].id
<1>1. /\ UNCHANGED <<epoch, seq, byName, stats>>
      /\ UNCHANGED <<cur, wr, out, inbox, gone, seen, listed>>
      /\ rd' = [rd EXCEPT ![c] = "reading"] /\ hand' = [hand EXCEPT ![c] = NoMessage]
      /\ histN' = [histN EXCEPT ![c] = 0]
      /\ rd[c] = "selecting"
      /\ topics' = Selected(topics, e, id)
      /\ \/ /\ e = epoch /\ id \in DOMAIN topics
            /\ want' = [want EXCEPT ![c].selected = id]
            /\ selEpoch' = [selEpoch EXCEPT ![c] = e]
         \/ UNCHANGED <<want, selEpoch>>
  BY DEF SelectTakes, envVars, Handled, IsCurrent
<1>2. SameTopics(topics', topics) /\ topics \in Seq(TopicRecord) /\ epoch \in Nat \ {0}
  BY <1>1, SelectedSame DEF WInv, StoreInv
<1>3. StoreInv'
  BY <1>1, <1>2, SelectionTable DEF WInv
<1>4. Grows
  BY <1>1, <1>2, TableDomain DEF Grows, SameTopics
<1>5. ConnAt(c) /\ Shapes /\ DOMAIN want[c] = WantFields /\ NoTopic = 0
  BY DEF WInv, ConnAt, WantAt, NoTopic
<1>6. /\ hand[c].t = "select" /\ MessageOK(c, hand[c]) /\ want[c].selected = NoTopic
  BY <1>1, <1>5 DEF ConnAt, TalkAt
<1>7. Told(c, e, id) /\ cur[c].epoch \in Nat /\ cur[c].epoch <= epoch
  BY <1>5, <1>6 DEF MessageOK, ConnAt, CursorAt, CursorRecord
<1>8. e = epoch => e = cur[c].epoch /\ id \in Nat /\ id <= cur[c].topics /\ e # 0
  BY <1>2, <1>7 DEF Told
<1> HIDE DEF e, id
<1>9. Shapes' /\ OnlyOf(c)
  BY <1>1, <1>5 DEF Shapes, OnlyOf
<1>10. /\ DOMAIN want'[c] = WantFields
       /\ want'[c].watch = want[c].watch /\ want'[c].compare = want[c].compare
       /\ \/ want'[c].selected = NoTopic /\ selEpoch'[c] = selEpoch[c]
          \/ e = epoch /\ want'[c].selected = id /\ selEpoch'[c] = e
  BY <1>1, <1>5, <1>6 DEF WantFields, Shapes
<1>11. WantAt(c)'
  BY <1>1, <1>5, <1>8, <1>10 DEF ConnAt, WantAt
<1>12. CursorAt(c)' /\ UnreadAt(c)'
  BY <1>1, <1>3, <1>4, <1>5, CursorKept, UnreadKept DEF ConnAt, WInv
<1>13. TalkAt(c)'
  BY <1>1, <1>5 DEF ConnAt, TalkAt, Told, Shapes
<1>14. TickAt(c)'
  BY <1>1, <1>5, <1>8, <1>10 DEF ConnAt, TickAt, Answers
<1> QED
  BY <1>3, <1>4, <1>9, <1>11, <1>12, <1>13, <1>14, OneConnection DEF ConnAt

-----------------------------------------------------------------------------
(* The writer. *)
LEMMA DeliverStep ==
  ASSUME WInv, NEW c \in Conns, Deliver(c)
  PROVE  WInv'
<1> DEFINE new == IF gone[c] THEN seen[c]
                  ELSE seen[c] \cup {<<out[c].epoch, id>> :
                         id \in out[c].firstId..(out[c].firstId + Len(out[c].names) - 1)}
<1>1. /\ UNCHANGED <<cur, want, selEpoch, rd, hand, inbox, listed, histN, gone>>
      /\ seen' = [seen EXCEPT ![c] = new]
      /\ \E s \in {"polling", "waiting"} : wr' = [wr EXCEPT ![c] = s]
      /\ out' = [out EXCEPT ![c] = NoUpdate]
      /\ wr[c] = "writing" /\ StoreRests
  BY DEF Deliver, Written, clientVars, StoreRests
<1>2. StoreInv' /\ Grows /\ ConnAt(c)
  BY <1>1, RestsGrows DEF WInv
<1>3. ASSUME NEW p \in new
      PROVE  Told(c, p[1], p[2])
  <2>1. CASE p \in seen[c]
    BY <1>2, <2>1 DEF ConnAt, TalkAt
  <2>2. CASE p \notin seen[c]
    <3>1. PICK id \in out[c].firstId..(out[c].firstId + Len(out[c].names) - 1) :
            p = <<out[c].epoch, id>>
      BY <2>2
    <3>2. /\ out[c].epoch = cur[c].epoch /\ cur[c].epoch \in Nat \ {0}
          /\ cur[c].topics \in Nat
          /\ out[c].firstId \in Nat
          /\ out[c].firstId + Len(out[c].names) - 1 = cur[c].topics
      BY <1>1, <1>2 DEF ConnAt, TickAt, CursorAt, CursorRecord
    <3> QED
      BY <3>1, <3>2 DEF Told
  <2> QED
    BY <2>1, <2>2
<1> HIDE DEF new
<1>4. Shapes' /\ OnlyOf(c)
  BY <1>1 DEF WInv, Shapes, OnlyOf
<1>5. seen'[c] = new /\ wr'[c] # "writing"
  BY <1>1 DEF WInv, Shapes
<1>6. CursorAt(c)' /\ WantAt(c)' /\ UnreadAt(c)'
  BY <1>1, <1>2, CursorKept, WantKept, UnreadKept DEF ConnAt, WInv
<1>7. TalkAt(c)'
  <2>1. \A p \in seen'[c] : Told(c, p[1], p[2])'
    BY <1>1, <1>3, <1>5 DEF Told
  <2> QED
    BY <1>1, <1>2, <2>1 DEF ConnAt, TalkAt, MessageOK, Told
<1>8. TickAt(c)'
  BY <1>5 DEF TickAt
<1> QED
  BY <1>2, <1>4, <1>6, <1>7, <1>8, OneConnection DEF ConnAt

(* A step of the writer that writes nothing. *)
LEMMA WriterMoves ==
  ASSUME WInv, NEW c \in Conns, UNCHANGED envVars, StoreInv', Grows,
         UNCHANGED <<clientVars, rd, hand, inbox, gone>>,
         NEW s, s # "writing", wr' = [wr EXCEPT ![c] = s],
         UNCHANGED out \/ out' = [out EXCEPT ![c] = NoUpdate]
  PROVE  WInv'
<1>1. UNCHANGED <<cur, want, selEpoch, histN, seen, listed>>
  BY DEF clientVars, envVars
<1>2. Shapes' /\ OnlyOf(c) /\ wr'[c] = s
  BY <1>1 DEF WInv, Shapes, OnlyOf
<1>3. CursorAt(c)' /\ WantAt(c)' /\ UnreadAt(c)' /\ TalkAt(c)'
  BY <1>1, CursorKept, WantKept, UnreadKept, TalkKept DEF ConnAt, WInv
<1>4. TickAt(c)'
  BY <1>2 DEF TickAt
<1> QED
  BY <1>2, <1>3, <1>4, OneConnection DEF ConnAt

LEMMA TeardownStep ==
  ASSUME WInv, NEW c \in Conns, Teardown(c), UNCHANGED envVars
  PROVE  WInv'
<1>1. SameTopics(topics', topics) /\ topics \in Seq(TopicRecord) /\ epoch \in Nat
  BY ReleasedSame DEF WInv, StoreInv, Teardown
<1>2. StoreInv'
  BY <1>1, SelectionTable DEF WInv, Teardown
<1>3. Grows
  BY <1>1, TableDomain DEF Grows, SameTopics, Teardown
<1> QED
  BY <1>2, <1>3, WriterMoves DEF Teardown

LEMMA WriterRestsStep ==
  ASSUME WInv, NEW c \in Conns, WriteFails(c) \/ TickerFires(c) \/ SeesCancel(c),
         UNCHANGED envVars
  PROVE  WInv'
<1>1. StoreInv' /\ Grows
  BY RestsGrows DEF WInv, StoreRests, WriteFails, TickerFires, SeesCancel
<1> QED
  BY <1>1, WriterMoves DEF WriteFails, TickerFires, SeesCancel

-----------------------------------------------------------------------------
(* The names of an update: as many as the poll takes on. *)
LEMMA NamesLength ==
  ASSUME NEW from \in Nat, NEW to \in Nat, from <= to
  PROVE  Len(NamesBetween(from, to)) = to - from
BY DEF NamesBetween

(* What a poll of a connection's cursor returns. *)
LEMMA WhatPollSays ==
  ASSUME StoreInv, NEW c \in Conns, CursorAt(c), WantAt(c)
  PROVE  LET u    == PollUpdate(cur[c], histN[c], want[c])
             w    == StartWant(cur[c], want[c])
             last == NamesEnd(StartCursor(cur[c]).topics)
         IN  /\ u.epoch = epoch /\ last \in 0..Len(topics)
             /\ u.reset \in BOOLEAN /\ (u.reset <=> cur[c].epoch \notin {0, epoch})
             /\ u.firstId \in Nat \ {0} /\ Len(u.names) \in Nat
             /\ u.firstId + Len(u.names) - 1 = last
             /\ \A id \in DOMAIN u.previews \cup DOMAIN u.compared \cup DOMAIN u.counts :
                  id <= last
             /\ DOMAIN u.previews # {} => w.watch # <<>>
             /\ DOMAIN u.compared # {} => w.compare # <<>>
             /\ u.history # <<>> => w.selected \in TopicIds
             /\ cur[c].epoch = epoch => cur[c].topics <= last
<1> DEFINE k == StartCursor(cur[c])
           w == StartWant(cur[c], want[c])
           last == NamesEnd(k.topics)
           u == PollUpdate(cur[c], histN[c], want[c])
<1>1. topics \in Seq(TopicRecord) /\ Len(topics) \in Nat /\ DOMAIN topics = 1..Len(topics)
  BY TableDomain DEF StoreInv
<1>2. /\ cur[c] \in CursorRecord /\ cur[c].topics \in Nat
      /\ cur[c].epoch = epoch => cur[c].topics <= Len(topics)
  BY DEF CursorAt, CursorRecord
<1>3. k.topics \in 0..Len(topics) /\ (cur[c].epoch = epoch => k.topics = cur[c].topics)
  BY <1>1, <1>2 DEF StartCursor, FreshCursor
<1>4. /\ u.reset = (cur[c].epoch \notin {0, epoch})
      /\ u.epoch = epoch /\ u.firstId = k.topics + 1
      /\ u.names = NamesBetween(k.topics, last)
      /\ DOMAIN u.counts = Counted(k)
      /\ u.previews = Latest(w.watch, w.watchAll, last, k.seq)
      /\ u.compared = Latest(w.compare, w.compareAll, last, k.seq)
      /\ u.history = History(w.selected, StartHistN(cur[c], histN[c]))
  BY DEF PollUpdate
<1> HIDE DEF k, u, w
<1>5. last \in k.topics..Len(topics)
  BY <1>1, <1>3, NamesEndRange
<1>6. \A id \in Counted(k) : id <= last
  <2> DEFINE n == k.topics
  <2>1. Counted(k) = {id \in 1..n : topics[id].seq > k.seq} \cup (n + 1)..NamesEnd(n)
    BY DEF Counted
  <2>2. n \in Nat /\ NamesEnd(n) \in Nat /\ n <= NamesEnd(n)
    BY <1>1, <1>3, <1>5
  <2> HIDE DEF n
  <2> QED
    BY <2>1, <2>2 DEF n
<1> HIDE DEF last
<1>7. /\ k.topics \in Nat /\ last \in Nat /\ k.topics <= last /\ last <= Len(topics)
      /\ Len(u.names) = last - k.topics
  <2>1. k.topics \in Nat /\ last \in Nat /\ k.topics <= last /\ last <= Len(topics)
    BY <1>1, <1>3, <1>5
  <2>2. Len(NamesBetween(k.topics, last)) = last - k.topics
    BY <2>1, NamesLength
  <2> QED
    BY <1>4, <2>1, <2>2
<1>8. ASSUME NEW ids, NEW all, NEW since
      PROVE  /\ \A id \in DOMAIN Latest(ids, all, last, since) : id <= last
             /\ DOMAIN Latest(ids, all, last, since) # {} => ids # <<>>
  BY DEF Latest, Range
<1>9. u.history # <<>> => w.selected \in TopicIds
  BY <1>4 DEF History
<1>10. /\ u.firstId \in Nat \ {0} /\ Len(u.names) \in Nat
       /\ u.firstId + Len(u.names) - 1 = last /\ last \in 0..Len(topics)
       /\ cur[c].epoch = epoch => cur[c].topics <= last
  <2>1. u.firstId = k.topics + 1 /\ last \in Int
    BY <1>4, <1>7
  <2>2. u.firstId \in Nat \ {0} /\ Len(u.names) \in Nat
    BY <1>7, <2>1
  <2>3. u.firstId + Len(u.names) - 1 = last
    BY <1>7, <2>1
  <2>4. last \in 0..Len(topics)
    BY <1>1, <1>7
  <2>5. cur[c].epoch = epoch => cur[c].topics <= last
    BY <1>3, <1>7
  <2> QED
    BY <2>2, <2>3, <2>4, <2>5
<1>11. u.reset \in BOOLEAN /\ (u.reset <=> cur[c].epoch \notin {0, epoch})
  BY <1>4
<1> QED
  BY <1>4, <1>6, <1>8, <1>9, <1>10, <1>11 DEF k, u, w, last

LEMMA SendUpdateStep ==
  ASSUME WInv, NEW c \in Conns, SendUpdate(c), UNCHANGED envVars
  PROVE  WInv'
<1> DEFINE u    == PollUpdate(cur[c], histN[c], want[c])
           last == NamesEnd(StartCursor(cur[c]).topics)
           w    == IF u.reset THEN NoWant
                   ELSE [want[c] EXCEPT !.watchAll = FALSE, !.compareAll = FALSE]
           old  == StartWant(cur[c], want[c])
           h    == PollHistN(cur[c], histN[c], want[c])
<1>1. /\ UNCHANGED <<selEpoch, rd, hand, inbox, gone, seen, listed>> /\ StoreRests
      /\ cur' = [cur EXCEPT ![c] = PollCursor(@)]
      /\ histN' = [histN EXCEPT ![c] = h]
      /\ want' = [want EXCEPT ![c] = w]
      /\ out' = [out EXCEPT ![c] = TickOf(u, w.selected)]
      /\ wr' = [wr EXCEPT ![c] = "writing"] /\ rd[c] # "selecting"
      /\ \A d \in Conns : d # c => histN'[d] = histN[d]
  BY DEF SendUpdate, envVars, StoreRests, Unlocked, WInv, Shapes
<1>2. StoreInv' /\ Grows /\ ConnAt(c) /\ Shapes /\ epoch' = epoch /\ topics' = topics
  BY <1>1, RestsGrows DEF WInv, StoreRests, storeVars
<1>3. /\ epoch \in Nat \ {0} /\ seq \in Nat /\ Len(topics) \in Nat
      /\ DOMAIN topics = 1..Len(topics)
  BY TableDomain DEF WInv, StoreInv
<1>4. /\ u.epoch = epoch /\ last \in 0..Len(topics)
      /\ u.reset \in BOOLEAN /\ (u.reset <=> cur[c].epoch \notin {0, epoch})
      /\ u.firstId \in Nat \ {0} /\ Len(u.names) \in Nat
      /\ u.firstId + Len(u.names) - 1 = last
      /\ \A id \in DOMAIN u.previews \cup DOMAIN u.compared \cup DOMAIN u.counts : id <= last
      /\ DOMAIN u.previews # {} => old.watch # <<>>
      /\ DOMAIN u.compared # {} => old.compare # <<>>
      /\ u.history # <<>> => old.selected \in TopicIds
      /\ cur[c].epoch = epoch => cur[c].topics <= last
  BY <1>2, WhatPollSays DEF WInv, ConnAt
<1>5. /\ cur[c].epoch \in Nat /\ cur[c].topics \in Nat /\ cur[c].epoch <= epoch
      /\ DOMAIN want[c] = WantFields /\ NoTopic = 0
  BY <1>2 DEF ConnAt, CursorAt, WantAt, CursorRecord, NoTopic
<1>6. PollCursor(cur[c]) = [epoch |-> epoch, topics |-> last, seq |-> seq]
  BY DEF PollCursor
<1>7. /\ old.selected # NoTopic \/ old.watch # <<>> \/ old.compare # <<>> =>
           cur[c].epoch = epoch /\ old = want[c]
  BY <1>5 DEF StartWant, NoWant
<1>8. /\ DOMAIN w = WantFields
      /\ IF u.reset THEN w.selected = NoTopic /\ w.watch = <<>> /\ w.compare = <<>>
         ELSE /\ w.selected = want[c].selected
              /\ w.watch = want[c].watch /\ w.compare = want[c].compare
  <2>1. CASE u.reset
    BY <2>1 DEF NoWant, WantFields
  <2>2. CASE ~u.reset
    <3>1. w = [want[c] EXCEPT !.watchAll = FALSE, !.compareAll = FALSE]
      BY <2>2
    <3> HIDE DEF w
    <3> QED
      BY <1>5, <2>2, <3>1 DEF WantFields
  <2> QED
    BY <1>4, <2>1, <2>2
<1>9. LET t == TickOf(u, w.selected)
      IN  /\ t.epoch = epoch /\ t.firstId = u.firstId /\ t.names = u.names
          /\ t.previews = u.previews /\ t.compared = u.compared /\ t.counts = u.counts
          /\ t.history = u.history /\ t.selected = w.selected
  BY <1>4 DEF TickOf
<1> DEFINE tick == TickOf(u, w.selected)
<1> HIDE DEF u, last, w, old, h, tick
<1>10. /\ cur'[c].epoch = epoch /\ cur'[c].topics = last /\ cur'[c].seq = seq
       /\ cur'[c] \in CursorRecord
       /\ want'[c] = w /\ out'[c] = tick
       /\ wr'[c] = "writing"
  BY <1>1, <1>2, <1>3, <1>4, <1>6 DEF Shapes, CursorRecord, tick
<1>11. Shapes' /\ OnlyOf(c)
  BY <1>1, <1>2 DEF Shapes, OnlyOf
<1>12. CursorAt(c)'
  BY <1>2, <1>3, <1>4, <1>10 DEF CursorAt
<1>13. WantAt(c)'
  <2>1. WantAt(c)
    BY <1>2 DEF ConnAt
  <2>2. CASE u.reset
    BY <1>5, <1>8, <1>10, <2>2 DEF WantAt
  <2>3. CASE ~u.reset /\ cur[c].epoch = epoch
    BY <1>1, <1>3, <1>4, <1>5, <1>8, <1>10, <2>1, <2>3 DEF WantAt
  <2>4. CASE ~u.reset /\ cur[c].epoch = 0
    BY <1>1, <1>5, <1>8, <1>10, <2>1, <2>4 DEF WantAt
  <2> QED
    BY <1>4, <2>2, <2>3, <2>4
<1>14. ASSUME NEW e, NEW id, Told(c, e, id)
       PROVE  Told(c, e, id)'
  BY <1>3, <1>4, <1>5, <1>10, <1>14 DEF Told
<1>15. ASSUME NEW m, MessageOK(c, m)
       PROVE  MessageOK(c, m)'
  BY <1>3, <1>5, <1>10, <1>14, <1>15 DEF MessageOK
<1>16. TalkAt(c)'
  BY <1>1, <1>2, <1>14, <1>15 DEF ConnAt, TalkAt
<1>17. UnreadAt(c)'
  BY <1>1, <1>2, <1>15 DEF ConnAt, UnreadAt
<1>18. TickAt(c)'
  <2>1. /\ tick.epoch = epoch /\ tick.firstId = u.firstId /\ tick.names = u.names
        /\ tick.previews = u.previews /\ tick.compared = u.compared /\ tick.counts = u.counts
        /\ tick.history = u.history /\ tick.selected = w.selected
    BY <1>9 DEF tick
  <2>2. DOMAIN u.previews # {} => listed[c].watch = epoch
    BY <1>2, <1>4, <1>7 DEF ConnAt, WantAt
  <2>3. DOMAIN u.compared # {} => listed[c].compare = epoch
    BY <1>2, <1>4, <1>7 DEF ConnAt, WantAt
  <2>4. u.history # <<>> => w.selected # NoTopic /\ selEpoch[c] = epoch /\ w.selected <= last
    <3> SUFFICES ASSUME u.history # <<>>
                 PROVE  w.selected # NoTopic /\ selEpoch[c] = epoch /\ w.selected <= last
      OBVIOUS
    <3>1. old.selected # NoTopic
      BY <1>3, <1>4, <1>5 DEF TopicIds
    <3>2. cur[c].epoch = epoch /\ old = want[c]
      BY <1>7, <3>1
    <3>3. ~u.reset /\ w.selected = want[c].selected
      BY <1>4, <1>8, <3>2
    <3>4. selEpoch[c] = cur[c].epoch /\ want[c].selected <= cur[c].topics
          /\ want[c].selected \in Nat
      BY <1>2, <3>1, <3>2 DEF ConnAt, WantAt
    <3> QED
      BY <1>3, <1>4, <1>5, <3>1, <3>2, <3>3, <3>4
  <2> QED
    BY <1>1, <1>3, <1>4, <1>10, <2>1, <2>2, <2>3, <2>4 DEF TickAt, Answers
<1> QED
  BY <1>2, <1>11, <1>12, <1>13, <1>16, <1>17, <1>18, OneConnection DEF ConnAt

-----------------------------------------------------------------------------
LEMMA InitWInv == Init => WInv
<1> SUFFICES ASSUME Init
             PROVE  WInv
  OBVIOUS
<1>1. StoreInv /\ epoch = 1 /\ Len(topics) = 0
  BY DEF Init, StoreInit, StoreInv
<1>2. Shapes
  BY DEF Init, ConnInit, Shapes
<1>3. ASSUME NEW c \in Conns
      PROVE  ConnAt(c)
  <2>1. /\ cur[c] = [epoch |-> 0, topics |-> 0, seq |-> 0] /\ want[c] = NoWant
        /\ rd[c] = "off" /\ wr[c] = "off" /\ inbox[c] = <<>> /\ seen[c] = {}
    BY DEF Init, ConnInit, FreshCursor
  <2>2. CursorAt(c)
    BY <1>1, <2>1 DEF CursorAt, CursorRecord
  <2>3. WantAt(c)
    BY <2>1 DEF WantAt, NoWant, WantFields, NoTopic
  <2>4. inbox[c] \in Seq({})
    BY <2>1
  <2> QED
    BY <2>1, <2>2, <2>3, <2>4 DEF ConnAt, TalkAt, UnreadAt, TickAt
<1> QED
  BY <1>1, <1>2, <1>3 DEF WInv

LEMMA NextWInv == WInv /\ [Next]_vars => WInv'
<1> SUFFICES ASSUME WInv, [Next]_vars
             PROVE  WInv'
  OBVIOUS
<1>1. CASE UNCHANGED vars
  <2>1. StoreInv' /\ Grows
    BY <1>1, RestsGrows DEF WInv, StoreRests, vars
  <2> QED
    BY <1>1, <2>1, StoreStep DEF vars
<1>2. CASE \E name \in Names : Publish(name)
  BY <1>2, PublishStep
<1>3. CASE Clear
  BY <1>3, ClearStep
<1>4. ASSUME NEW c \in Conns,
             \/ Accept(c) /\ UNCHANGED envVars
             \/ ClientSends(c)
             \/ ClientLeaves(c)
      PROVE  WInv'
  BY <1>4, AcceptStep, ClientSendsStep, ClientLeavesStep
<1>5. ASSUME NEW c \in Conns, ReaderStep(c)
      PROVE  WInv'
  BY <1>5, TakesListStep, ReadMessageStep, ReadFailsStep, SelectReleasesStep, SelectTakesStep
     DEF ReaderStep
<1>6. ASSUME NEW c \in Conns, WriterStep(c) \/ WriterChoice(c)
      PROVE  WInv'
  BY <1>6, DeliverStep, SendUpdateStep, TeardownStep, WriterRestsStep
     DEF WriterStep, WriterChoice
<1> QED
  BY <1>1, <1>2, <1>3, <1>4, <1>5, <1>6 DEF Next

THEOREM ConnectionInvariance == Spec => []WInv
<1> QED
  BY InitWInv, NextWInv, PTL DEF Spec

(***************************************************************************)
(* A tick carries previews, compared messages and history only of topics   *)
(* the client asked for in the epoch the tick is about, and names no topic *)
(* the client does not know by its end: for every number of connections,   *)
(* whatever their clients send, and when they leave or cannot be written   *)
(* to.                                                                     *)
(***************************************************************************)
THEOREM TicksCorrect == Spec => []TicksAnswerTheirEpoch
<1>1. WInv => TicksAnswerTheirEpoch
  BY DEF WInv, ConnAt, TickAt, Answers, TicksAnswerTheirEpoch
<1> QED
  BY <1>1, ConnectionInvariance, PTL

-----------------------------------------------------------------------------
(***************************************************************************)
(* Selections.  A write that fails while the reader is not done lets the   *)
(* connection end with a selection still to come (the run of MCWsTeardown  *)
(* shows it), so this part is about connections whose writer ends after    *)
(* their reader.                                                           *)
(***************************************************************************)
ReaderEndsFirst == \A c \in Conns : wr[c] \in {"closing", "closed"} => rd[c] = "done"

SInv == WInv /\ ReaderEndsFirst /\ SelectionsCounted

LEMMA ReaderEndsFirstStep ==
  ASSUME ~WritesMayFail, WInv, ReaderEndsFirst, [Next]_vars
  PROVE  ReaderEndsFirst'
<1>0. DOMAIN rd = Conns /\ DOMAIN wr = Conns
  BY DEF WInv, Shapes
<1>1. CASE \/ UNCHANGED vars
           \/ \E name \in Names : Publish(name)
           \/ Clear
  <2>1. UNCHANGED <<rd, wr>>
    BY <1>1 DEF vars, connVars, Publish, Clear
  <2> QED
    BY <2>1 DEF ReaderEndsFirst
<1>2. ASSUME NEW c \in Conns,
             \/ Accept(c) \/ ClientSends(c) \/ ClientLeaves(c)
             \/ Deliver(c) \/ SendUpdate(c) \/ TickerFires(c)
      PROVE  ReaderEndsFirst'
  <2>1. \/ UNCHANGED <<rd, wr>>
        \/ /\ \E s \in {"polling", "writing", "waiting"} : wr' = [wr EXCEPT ![c] = s]
           /\ \A d \in Conns : d # c => rd'[d] = rd[d]
    BY <1>0, <1>2 DEF Accept, ClientSends, ClientLeaves, Deliver, Written, SendUpdate, TickerFires
  <2> QED
    BY <1>0, <2>1 DEF ReaderEndsFirst
<1>3. ASSUME NEW c \in Conns,
             ReaderStep(c)
      PROVE  ReaderEndsFirst'
  <2>1. /\ wr' = wr /\ rd[c] # "done"
        /\ \A d \in Conns : d # c => rd'[d] = rd[d]
    BY <1>0, <1>3 DEF ReaderStep, TakesList, HandleWatch, HandleCompare, Handled, ReadMessage,
                      ReadFails, SelectReleases, SelectTakes
  <2> QED
    BY <1>0, <2>1 DEF ReaderEndsFirst
<1>4. ASSUME NEW c \in Conns,
             WriteFails(c) \/ SeesCancel(c) \/ Teardown(c)
      PROVE  ReaderEndsFirst'
  <2>1. /\ rd' = rd /\ rd[c] = "done"
        /\ \A d \in Conns : d # c => wr'[d] = wr[d]
    BY <1>0, <1>4 DEF WriteFails, SeesCancel, Teardown, Cancelled, ReaderEndsFirst
  <2> QED
    BY <1>0, <2>1 DEF ReaderEndsFirst
<1> QED
  BY <1>1, <1>2, <1>3, <1>4 DEF Next, WriterStep, WriterChoice

\* The part of SelectionsCounted about one topic.
CountedAt(id) == CountedBy(topics[id], Holders(id))

LEMMA HoldersFinite ==
  ASSUME NEW id
  PROVE  IsFiniteSet(Holders(id))
<1>1. Holders(id) \in SUBSET Conns
  BY DEF Holders
<1> QED
  BY <1>1, ConnAssumption, FS_Subset

(* What a live connection has selected in this epoch is a topic. *)
LEMMA HeldIsTopic ==
  ASSUME WInv, NEW c \in Conns, want[c].selected # NoTopic, selEpoch[c] = epoch
  PROVE  /\ want[c].selected \in DOMAIN topics
         /\ cur[c].epoch = epoch
<1>1. /\ DOMAIN topics = 1..Len(topics) /\ Len(topics) \in Nat /\ NoTopic = 0
  BY TableDomain DEF WInv, StoreInv, NoTopic
<1> QED
  BY <1>1 DEF WInv, ConnAt, WantAt, CursorAt, CursorRecord

(* A step after which the same connections hold every topic. *)
LEMMA HoldersKept ==
  ASSUME SelectionsCounted, epoch' = epoch, WInv, StoreInv',
         \A c \in Conns : \A id \in DOMAIN topics' :
            /\ wr'[c] # "closed" /\ want'[c].selected = id /\ selEpoch'[c] = epoch
            <=> wr[c] # "closed" /\ want[c].selected = id /\ selEpoch[c] = epoch,
         KeepsSelections
  PROVE  SelectionsCounted'
<1> SUFFICES ASSUME NEW id \in DOMAIN topics'
             PROVE  /\ topics'[id].selected = Cardinality(Holders(id)')
                    /\ topics'[id].hist = NoRing <=> Holders(id)' = {}
  BY DEF SelectionsCounted, TopicIds
<1>1. Holders(id)' = Holders(id)
  BY DEF Holders
<1>2. CASE id \in DOMAIN topics
  BY <1>1, <1>2 DEF SelectionsCounted, TopicIds, KeepsSelections
<1>3. CASE id \notin DOMAIN topics
  <2>1. id # NoTopic
    BY TableDomain DEF NoTopic, StoreInv
  <2>2. Holders(id) = {}
    BY <1>3, <2>1, HeldIsTopic DEF Holders
  <2> QED
    BY <1>1, <1>3, <2>2, FS_EmptySet DEF KeepsSelections
<1> QED
  BY <1>2, <1>3

(* One topic changes hands, and the others keep their holders. *)
LEMMA HolderComesOrGoes ==
  ASSUME SelectionsCounted, NEW id \in DOMAIN topics, NEW t,
         topics' = [topics EXCEPT ![id] = t], CountedBy(t, Holders(id)'),
         \A other \in DOMAIN topics : other # id => Holders(other)' = Holders(other)
  PROVE  SelectionsCounted'
<1> SUFFICES ASSUME NEW other \in DOMAIN topics
             PROVE  /\ topics'[other].selected = Cardinality(Holders(other)')
                    /\ topics'[other].hist = NoRing <=> Holders(other)' = {}
  BY DEF SelectionsCounted, TopicIds
<1>1. CASE other = id
  BY <1>1 DEF CountedBy
<1>2. CASE other # id
  BY <1>2 DEF SelectionsCounted, TopicIds
<1> QED
  BY <1>1, <1>2

(* A live connection lets go of its selection, before it takes another or  *)
(* because it ends.                                                        *)
LEMMA LetsGo ==
  ASSUME SelectionsCounted, WInv, StoreInv', NEW c \in Conns, wr[c] # "closed",
         topics' = Released(topics, selEpoch[c], want[c].selected),
         UNCHANGED <<epoch, selEpoch>>,
         wr'[c] = "closed" \/ want'[c].selected = NoTopic,
         \A d \in Conns \ {c} : wr'[d] = wr[d] /\ want'[d].selected = want[d].selected
  PROVE  SelectionsCounted'
<1> DEFINE id == want[c].selected
<1>0. topics \in Seq(TopicRecord) /\ NoTopic \notin DOMAIN topics
  BY TableDomain DEF WInv, StoreInv, NoTopic
<1>1. CASE selEpoch[c] = epoch /\ id # NoTopic
  <2>1. PICK k \in DOMAIN topics : k = id
    BY <1>1, HeldIsTopic
  <2>2. c \in Holders(k) /\ k # NoTopic
    BY <1>1, <2>1 DEF Holders
  <2>3. CountedBy(topics[k], Holders(k)) /\ topics[k] \in TopicRecord
    BY <1>0, <2>1, ElementType DEF SelectionsCounted, CountedBy, TopicIds
  <2>4. topics[k].selected > 0 /\ CountedBy(Dropped(topics[k]), Holders(k) \ {c})
    BY <2>2, <2>3, HoldersFinite, DroppedCounted
  <2>5. topics' = [topics EXCEPT ![k] = Dropped(topics[k])]
    BY <1>1, <2>1, <2>4 DEF Released, IsCurrent
  <2>6. Holders(k)' = Holders(k) \ {c}
    BY <1>1, <2>1, <2>2 DEF Holders
  <2>7. \A other \in DOMAIN topics : other # k => Holders(other)' = Holders(other)
    BY <1>0, <2>1 DEF Holders
  <2> QED
    BY <2>4, <2>5, <2>6, <2>7, HolderComesOrGoes
<1>2. CASE ~(selEpoch[c] = epoch /\ id # NoTopic)
  <2>1. topics' = topics
    BY <1>0, <1>2 DEF Released, IsCurrent
  <2>2. \A other \in DOMAIN topics : Holders(other)' = Holders(other)
    BY <1>0, <1>2 DEF Holders
  <2> QED
    BY <2>1, <2>2 DEF SelectionsCounted, TopicIds
<1> QED
  BY <1>1, <1>2

LEMMA TakesSelection ==
  ASSUME SelectionsCounted, ReaderEndsFirst, WInv, NEW c \in Conns, SelectTakes(c)
  PROVE  SelectionsCounted'
<1> DEFINE e == hand[c].epoch
           id == hand[c].id
<1>0. /\ topics \in Seq(TopicRecord) /\ NoTopic \notin DOMAIN topics
      /\ DOMAIN want = Conns /\ DOMAIN selEpoch = Conns /\ DOMAIN want[c] = WantFields
  BY TableDomain DEF WInv, StoreInv, NoTopic, Shapes, ConnAt, WantAt
<1>1. /\ rd[c] = "selecting" /\ UNCHANGED <<epoch, wr>>
      /\ topics' = Selected(topics, e, id)
      /\ IF IsCurrent(topics, e, id)
         THEN /\ want' = [want EXCEPT ![c].selected = id]
              /\ selEpoch' = [selEpoch EXCEPT ![c] = e]
         ELSE UNCHANGED <<want, selEpoch>>
  BY DEF SelectTakes
<1>2. wr[c] # "closed" /\ want[c].selected = NoTopic
  BY <1>1 DEF ReaderEndsFirst, WInv, ConnAt, TalkAt
<1> HIDE DEF e, id
<1>3. CASE IsCurrent(topics, e, id)
  <2>1. /\ e = epoch /\ id \in DOMAIN topics
        /\ topics' = [topics EXCEPT ![id] = Taken(topics[id])]
    BY <1>1, <1>3 DEF IsCurrent, Selected
  <2>2. /\ want'[c].selected = id /\ selEpoch'[c] = epoch
        /\ \A d \in Conns : d # c => want'[d] = want[d] /\ selEpoch'[d] = selEpoch[d]
    BY <1>0, <1>1, <1>3, <2>1 DEF WantFields
  <2>3. c \notin Holders(id)
    BY <1>0, <1>2, <2>1 DEF Holders
  <2>4. CountedBy(topics[id], Holders(id)) /\ topics[id] \in TopicRecord
    BY <1>0, <2>1, ElementType DEF SelectionsCounted, CountedBy, TopicIds
  <2>5. CountedBy(Taken(topics[id]), Holders(id) \cup {c})
    BY <2>3, <2>4, HoldersFinite, TakenCounted
  <2>6. ASSUME NEW other \in DOMAIN topics
        PROVE  Holders(other)' = IF other = id THEN Holders(other) \cup {c} ELSE Holders(other)
    <3>1. other # NoTopic
      BY <1>0
    <3> QED
      BY <1>1, <1>2, <2>1, <2>2, <3>1 DEF Holders
  <2> QED
    BY <2>1, <2>5, <2>6, HolderComesOrGoes
<1>4. CASE ~IsCurrent(topics, e, id)
  <2>1. UNCHANGED <<topics, want, selEpoch>>
    BY <1>1, <1>4 DEF Selected
  <2>2. \A other : Holders(other)' = Holders(other)
    BY <1>1, <2>1 DEF Holders
  <2> QED
    BY <2>1, <2>2 DEF SelectionsCounted, TopicIds
<1> QED
  BY <1>3, <1>4

(* A step of a connection that leaves the store alone and changes no live  *)
(* selection of this epoch.                                                *)
LEMMA HoldersRest ==
  ASSUME SelectionsCounted, WInv, UNCHANGED storeVars,
         \A c \in Conns : \A id \in DOMAIN topics :
            /\ wr'[c] # "closed" /\ want'[c].selected = id /\ selEpoch'[c] = epoch
            <=> wr[c] # "closed" /\ want[c].selected = id /\ selEpoch[c] = epoch
  PROVE  SelectionsCounted'
<1>1. UNCHANGED <<epoch, topics>> /\ StoreInv'
  BY DEF storeVars, WInv, StoreInv
<1>2. KeepsSelections
  BY <1>1 DEF KeepsSelections
<1> QED
  BY <1>1, <1>2, HoldersKept

LEMMA SelectionsStep ==
  ASSUME ~WritesMayFail, SInv, [Next]_vars
  PROVE  SelectionsCounted'
<1>0. /\ SelectionsCounted /\ WInv /\ ReaderEndsFirst /\ StoreInv
      /\ NoTopic \notin DOMAIN topics
      /\ DOMAIN rd = Conns /\ DOMAIN wr = Conns /\ DOMAIN want = Conns
      /\ \A c \in Conns : DOMAIN want[c] = WantFields
  BY TableDomain DEF SInv, WInv, Shapes, ConnAt, WantAt, StoreInv, NoTopic
<1>a. WInv'
  BY <1>0, NextWInv
<1>b. StoreInv'
  BY <1>a DEF WInv
<1>1. CASE UNCHANGED vars
  BY <1>0, <1>1, HoldersRest DEF vars, connVars, clientVars, storeVars
<1>2. ASSUME NEW name \in Names, Publish(name)
      PROVE  SelectionsCounted'
  <2>1. KeepsSelections /\ UNCHANGED <<epoch, wr, want, selEpoch>>
    BY <1>0, <1>2, IngestTable DEF Publish, connVars
  <2> QED
    BY <1>0, <1>b, <2>1, HoldersKept
<1>3. CASE Clear
  BY <1>3 DEF Clear, Reset, SelectionsCounted, TopicIds
<1>4. ASSUME NEW c \in Conns,
             \/ Accept(c) \/ ClientSends(c) \/ ClientLeaves(c)
             \/ Deliver(c) \/ WriteFails(c) \/ TickerFires(c) \/ SeesCancel(c)
             \/ ReadMessage(c) \/ ReadFails(c)
      PROVE  SelectionsCounted'
  <2>1. /\ UNCHANGED <<storeVars, want, selEpoch>>
        /\ \/ wr' = wr
           \/ \E s : s # "closed" /\ wr[c] # "closed" /\ wr' = [wr EXCEPT ![c] = s]
    BY <1>4 DEF Accept, ClientSends, ClientLeaves, Deliver, Written, WriteFails, TickerFires,
                SeesCancel, ReadMessage, ReadFails, clientVars
  <2>2. \A d \in Conns : wr'[d] = "closed" <=> wr[d] = "closed"
    BY <1>0, <2>1
  <2>3. UNCHANGED <<want, selEpoch>> /\ UNCHANGED storeVars
    BY <2>1
  <2> QED
    BY <1>0, <2>2, <2>3, HoldersRest
<1>5. ASSUME NEW c \in Conns, TakesList(c)
      PROVE  SelectionsCounted'
  <2>1. /\ UNCHANGED <<storeVars, wr, selEpoch>>
        /\ \/ want' = want
           \/ \E x, y : want' = [want EXCEPT ![c].watch = x, ![c].watchAll = y]
           \/ \E x, y : want' = [want EXCEPT ![c].compare = x, ![c].compareAll = y]
    BY <1>5 DEF TakesList, HandleWatch, HandleCompare
  <2>2. \A d \in Conns : want'[d].selected = want[d].selected
    <3>1. DOMAIN want = Conns /\ DOMAIN want[c] = WantFields
      BY <1>0
    <3>2. CASE want' = want
      BY <3>2
    <3>3. CASE \E x, y : want' = [want EXCEPT ![c].watch = x, ![c].watchAll = y]
      BY <3>1, <3>3 DEF WantFields
    <3>4. CASE \E x, y : want' = [want EXCEPT ![c].compare = x, ![c].compareAll = y]
      BY <3>1, <3>4 DEF WantFields
    <3> QED
      BY <2>1, <3>2, <3>3, <3>4
  <2>3. UNCHANGED <<wr, selEpoch>> /\ UNCHANGED storeVars
    BY <2>1
  <2> QED
    BY <1>0, <2>2, <2>3, HoldersRest
<1>6. ASSUME NEW c \in Conns, SelectReleases(c)
      PROVE  SelectionsCounted'
  <2>1. /\ topics' = Released(topics, selEpoch[c], want[c].selected)
        /\ UNCHANGED <<epoch, selEpoch, wr>> /\ rd[c] = "handling"
        /\ want' = [want EXCEPT ![c].selected = NoTopic]
    BY <1>6 DEF SelectReleases
  <2>2. wr[c] # "closed"
    BY <1>0, <2>1 DEF ReaderEndsFirst
  <2>3. /\ want'[c].selected = NoTopic
        /\ \A d \in Conns : d # c => want'[d] = want[d]
    BY <1>0, <2>1 DEF WantFields
  <2> QED
    BY <1>0, <1>b, <2>1, <2>2, <2>3, LetsGo
<1>7. ASSUME NEW c \in Conns, SelectTakes(c)
      PROVE  SelectionsCounted'
  BY <1>0, <1>7, TakesSelection
<1>8. ASSUME NEW c \in Conns, SendUpdate(c)
      PROVE  SelectionsCounted'
  <2>1. /\ UNCHANGED selEpoch /\ UNCHANGED storeVars
        /\ wr' = [wr EXCEPT ![c] = "writing"] /\ wr[c] = "polling"
        /\ \A d \in Conns : d # c => want'[d] = want[d]
        /\ want'[c] = IF cur[c].epoch \notin {0, epoch} THEN NoWant
                      ELSE [want[c] EXCEPT !.watchAll = FALSE, !.compareAll = FALSE]
    BY <1>0, <1>8 DEF SendUpdate, PollUpdate
  <2>2. IF cur[c].epoch \notin {0, epoch} THEN want'[c].selected = NoTopic
        ELSE want'[c].selected = want[c].selected
    BY <1>0, <2>1 DEF NoWant, WantFields
  <2>3. want[c].selected # NoTopic /\ selEpoch[c] = epoch => cur[c].epoch = epoch
    BY <1>0, HeldIsTopic
  <2>4. \A d \in Conns : wr'[d] = "closed" <=> wr[d] = "closed"
    BY <1>0, <2>1
  <2>5. \A d \in Conns : selEpoch[d] = epoch =>
          \A id \in DOMAIN topics : want'[d].selected = id <=> want[d].selected = id
    BY <1>0, <2>1, <2>2, <2>3
  <2> QED
    BY <1>0, <2>1, <2>4, <2>5, HoldersRest
<1>9. ASSUME NEW c \in Conns, Teardown(c)
      PROVE  SelectionsCounted'
  <2>1. /\ topics' = Released(topics, selEpoch[c], want[c].selected)
        /\ UNCHANGED <<epoch, selEpoch, want>> /\ wr[c] = "closing"
        /\ wr' = [wr EXCEPT ![c] = "closed"]
    BY <1>9 DEF Teardown, clientVars
  <2>2. wr'[c] = "closed" /\ \A d \in Conns : d # c => wr'[d] = wr[d]
    BY <1>0, <2>1
  <2> QED
    BY <1>0, <1>b, <2>1, <2>2, LetsGo
<1> QED
  BY <1>1, <1>2, <1>3, <1>4, <1>5, <1>6, <1>7, <1>8, <1>9
     DEF Next, ReaderStep, WriterStep, WriterChoice

(***************************************************************************)
(* A topic counts exactly the live connections that have it selected, and  *)
(* records history if and only if there is one, as long as a writer gives  *)
(* up only when its reader has: for every number of connections, in every  *)
(* interleaving of their readers and writers with the broker's messages    *)
(* and resets.                                                             *)
(***************************************************************************)
THEOREM ConnectionsCounted ==
  ASSUME ~WritesMayFail
  PROVE  Spec => []SelectionsCounted
<1>1. Init => SInv
  <2> SUFFICES ASSUME Init
               PROVE  SInv
    OBVIOUS
  <2>1. ReaderEndsFirst /\ SelectionsCounted
    BY DEF Init, ConnInit, StoreInit, ReaderEndsFirst, SelectionsCounted, TopicIds
  <2> QED
    BY <2>1, InitWInv DEF SInv
<1>2. SInv /\ [Next]_vars => SInv'
  BY NextWInv, ReaderEndsFirstStep, SelectionsStep DEF SInv
<1>3. SInv => SelectionsCounted
  BY DEF SInv
<1> QED
  BY <1>1, <1>2, <1>3, PTL DEF Spec
=============================================================================
