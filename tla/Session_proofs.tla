---------------------------- MODULE Session_proofs ----------------------------
(***************************************************************************)
(* Proofs about the page and its connections, for every number of          *)
(* connections, topics, messages, resets and restarts.                     *)
(***************************************************************************)
EXTENDS Session, Store_proofs, SequenceTheorems

-----------------------------------------------------------------------------
(***************************************************************************)
(* The inductive invariant.                                                *)
(***************************************************************************)
Alive == {"polling", "writing", "waiting", "closing"}

PageFields ==
  {"epoch", "tree", "view", "rows", "queued", "watchKey", "previews", "selected", "shown",
   "names", "ids", "values", "sentCompare", "tab", "era", "from", "missed"}

CountsInv ==
  /\ stats.messages + stats.dropped <= MaxIngest
  /\ \A id \in DOMAIN topics : topics[id].count <= stats.messages

\* Names and counts that the store has for its present topics.
NamesAgree(u) ==
  \A k \in 1..Len(u.names) : /\ u.firstId + k - 1 \in DOMAIN topics
                             /\ u.names[k] = topics[u.firstId + k - 1].name

CountsAgree(counts) ==
  \A id \in DOMAIN counts : id \in DOMAIN topics /\ counts[id] <= topics[id].count

Numbers(counts) == \A id \in DOMAIN counts : counts[id] \in Nat

\* The last topic an update names.
EndOf(u) == u.firstId + Len(u.names) - 1

UpdateFields ==
  {"t", "reset", "epoch", "firstId", "names", "more", "counts", "previews", "compared",
   "selected", "history"}

IsUpdate(u) ==
  u.t = "tick" /\ u.epoch \in Nat \ {0} /\ u.firstId \in Nat \ {0} /\ Len(u.names) \in Nat

CursorAt(c) ==
  /\ cur[c].epoch \in Nat /\ cur[c].topics \in Nat /\ cur[c].seq \in Nat
  /\ cur[c].epoch = 0 => cur[c].topics = 0
  /\ wr[c] = "off" => cur[c].epoch = 0 /\ down[c] = <<>>
  /\ wr[c] \in Alive => /\ cur[c].epoch <= epoch
                        /\ cur[c].epoch = epoch => cur[c].topics <= Len(topics)

WritingAt(c) ==
  wr[c] = "writing" =>
    /\ IsUpdate(out[c]) /\ DOMAIN out[c] = UpdateFields
    /\ out[c].epoch = cur[c].epoch /\ EndOf(out[c]) = cur[c].topics
    /\ DOMAIN out[c].counts \subseteq 1..EndOf(out[c]) /\ Numbers(out[c].counts)
    /\ out[c].epoch = epoch => NamesAgree(out[c]) /\ CountsAgree(out[c].counts)

LinesInv ==
  /\ DOMAIN cur = Conns /\ DOMAIN wr = Conns /\ DOMAIN out = Conns
  /\ DOMAIN gone = Conns /\ DOMAIN down = Conns
  /\ \A c \in Conns : \E S : down[c] \in Seq(S)
  /\ sock \in Nat /\ restarts \in Nat
  /\ link \in {"closed", "connecting", "open"}
  /\ link # "closed" => sock \in Conns
  /\ link = "open" => wr[sock] # "off"
  /\ \A c \in Conns : (c > sock => wr[c] = "off") /\ CursorAt(c) /\ WritingAt(c)

Blank(pg) ==
  DOMAIN pg.tree = {} /\ DOMAIN pg.previews = {} /\ DOMAIN pg.values = {} /\ pg.from = {}

PageInv ==
  /\ DOMAIN b = PageFields
  /\ b.epoch \in Nat
  /\ b.epoch = 0 => Blank(b)
  /\ \A id \in DOMAIN b.tree : DOMAIN b.tree[id] = {"name", "count"} /\ b.tree[id].count \in Nat
  /\ b.era \in Nat \X Nat /\ b.era[1] <= restarts
  /\ b.era[1] = restarts => b.era[2] <= epoch
  /\ NothingOfAnotherTable

\* The frames of a stream, and the page they come to.
Ticks(q) == {j \in DOMAIN q : q[j].t = "tick"}
Counts(q) == {j \in DOMAIN q : q[j].t = "counts"}

Receiver == IF link = "open" THEN b ELSE ResetClient(b)

\* Whether the page knows the topic of that epoch by the time it handles frame k.
Told(q, pg, k, e, id) ==
  \/ pg.epoch = e /\ id \in DOMAIN pg.tree
  \/ \E i \in Ticks(q) : i < k /\ q[i].epoch = e /\ id \in q[i].firstId..EndOf(q[i])

\* An update may come as frame k.
Follows(q, pg, k, u) ==
  /\ \A i \in Ticks(q) : i < k => q[i].epoch <= u.epoch /\ (u.reset => q[i].epoch # u.epoch)
  /\ DOMAIN pg.tree # {} => pg.epoch <= u.epoch /\ (u.reset => pg.epoch # u.epoch)
  /\ \A id \in 1..(u.firstId - 1) : Told(q, pg, k, u.epoch, id)

\* Counts come after the tick that completes the names they need.
CountsFollow(q, pg, j) ==
  /\ Numbers(q[j].counts)
  /\ j > 1 => j - 1 \in Ticks(q) /\ DOMAIN q[j].counts \subseteq 1..EndOf(q[j - 1])
  /\ j = 1 => DOMAIN q[j].counts \subseteq DOMAIN pg.tree

Ordered(q, pg, r) ==
  /\ DOMAIN q = Ticks(q) \cup Counts(q)
  /\ \A j \in Ticks(q) : IsUpdate(q[j]) /\ q[j].era = <<r, q[j].epoch>> /\ Follows(q, pg, j, q[j])
  /\ \A j \in Counts(q) : CountsFollow(q, pg, j)
  /\ Blank(pg) \/ pg.era = <<r, pg.epoch>>

\* What is under way is true of the store's present table, if it is about that.
Agrees(q, pg, r) ==
  r = restarts =>
    /\ \A j \in Ticks(q) : /\ q[j].epoch <= epoch
                           /\ q[j].epoch = epoch => NamesAgree(q[j])
    /\ \A j \in Counts(q) :
         /\ j > 1 /\ q[j - 1].epoch = epoch => CountsAgree(q[j].counts)
         /\ j = 1 /\ pg.epoch = epoch => CountsAgree(q[j].counts)

\* What the writer sends next may come after what is under way.
Continues(c, q, pg, r) ==
  /\ wr[c] \in Alive => r = restarts
  /\ ~gone[c] /\ wr[c] \in {"polling", "waiting"} =>
       /\ \A i \in Ticks(q) : q[i].epoch <= cur[c].epoch
       /\ DOMAIN pg.tree # {} => pg.epoch <= cur[c].epoch
       /\ \A id \in 1..cur[c].topics : Told(q, pg, Len(q) + 1, cur[c].epoch, id)
  /\ ~gone[c] /\ wr[c] = "writing" => Follows(q, pg, Len(q) + 1, out[c])

StreamInv ==
  link # "closed" =>
    \E r \in 0..restarts : /\ Ordered(down[sock], Receiver, r)
                           /\ Agrees(down[sock], Receiver, r)
                           /\ Continues(sock, down[sock], Receiver, r)

PInv == StoreInv /\ CountsInv /\ LinesInv /\ PageInv /\ StreamInv

-----------------------------------------------------------------------------
\* The store has gone on: with the table it had, with a later one, or anew.
MovesOn ==
  \/ /\ restarts' = restarts /\ epoch' = epoch
     /\ Len(topics) <= Len(topics')
     /\ \A id \in DOMAIN topics : /\ id \in DOMAIN topics'
                                  /\ topics'[id].name = topics[id].name
                                  /\ topics[id].count <= topics'[id].count
  \/ restarts' = restarts /\ epoch' > epoch
  \/ restarts' > restarts

(* A message counts for its topic and leaves the names and the other counts. *)
LEMMA PublishMoves ==
  ASSUME StoreInv, CountsInv, restarts \in Nat, NEW name \in Names, Ingest(name),
         restarts' = restarts
  PROVE  StoreInv' /\ CountsInv' /\ MovesOn
<1>1. StoreInv' /\ epoch' = epoch /\ Len(topics) <= Len(topics')
  BY IngestTable DEF KeepsSelections
<1>2. /\ topics \in Seq(TopicRecord) /\ stats \in [messages : Nat, dropped : Nat] /\ seq \in Nat
      /\ \A n \in DOMAIN byName : byName[n] \in DOMAIN topics
      /\ Len(topics) \in Nat /\ DOMAIN topics = 1..Len(topics)
  BY TableDomain DEF StoreInv
<1>3. \A id \in DOMAIN topics : topics[id] \in TopicRecord /\ topics[id].count \in Nat
  BY <1>2, ElementType, TopicFields DEF MessageNumbers
<1>4. /\ stats.messages \in Nat /\ stats.dropped \in Nat
      /\ stats.messages + stats.dropped < MaxIngest
      /\ stats.messages + stats.dropped <= MaxIngest
  BY <1>2 DEF CountsInv, Ingest, IngestDropped, IngestNew, IngestKnown, MayIngest
<1>5. \A id \in DOMAIN topics : topics[id].count <= stats.messages
  BY DEF CountsInv
<1>6. MaxIngest \in Nat /\ CountMod \in Nat /\ MaxIngest < CountMod
  BY StoreAssumption, NoWrap
<1>7. \A n \in 0..stats.messages : Increment(n) = n + 1
  BY <1>4, <1>6 DEF Increment
<1>8. CASE IngestDropped(name)
  <2>1. topics' = topics /\ stats' = [stats EXCEPT !.dropped = @ + 1]
    BY <1>8 DEF IngestDropped
  <2>2. stats'.messages = stats.messages /\ stats'.dropped = stats.dropped + 1
    BY <1>2, <2>1
  <2>3. CountsInv'
    BY <1>4, <1>5, <1>6, <2>1, <2>2 DEF CountsInv
  <2>4. MovesOn
    BY <1>1, <1>3, <2>1 DEF MovesOn
  <2> QED
    BY <1>1, <2>3, <2>4
<1>9. CASE IngestNew(name)
  <2> DEFINE t == Recorded(NewTopic(name))
             id == Len(topics) + 1
  <2>1. topics' = Append(topics, t) /\ stats' = [stats EXCEPT !.messages = @ + 1]
    BY <1>9 DEF IngestNew
  <2>2. t \in TopicRecord /\ t.count = 1
    <3>1. NewTopic(name) \in TopicRecord /\ NewTopic(name).count = 0
      BY NewTopicType
    <3>2. t \in TopicRecord /\ t.count = Increment(0)
      BY <1>2, <3>1, RecordedType
    <3> QED
      BY <1>4, <1>7, <3>2
  <2> HIDE DEF t
  <2>3. stats'.messages = stats.messages + 1 /\ stats'.dropped = stats.dropped
    BY <1>2, <2>1
  <2>4. /\ DOMAIN topics' = DOMAIN topics \cup {id} /\ topics'[id] = t
        /\ \A i \in DOMAIN topics : topics'[i] = topics[i]
    BY <1>2, <2>1, <2>2
  <2> HIDE DEF id
  <2>5. CountsInv'
    <3>1. stats'.messages + stats'.dropped <= MaxIngest
      BY <1>4, <1>6, <2>3
    <3>2. \A i \in DOMAIN topics' : topics'[i].count <= stats'.messages
      BY <1>3, <1>4, <1>5, <2>2, <2>3, <2>4
    <3> QED
      BY <3>1, <3>2 DEF CountsInv
  <2>6. MovesOn
    BY <1>1, <1>3, <2>4 DEF MovesOn
  <2> QED
    BY <1>1, <2>5, <2>6
<1>10. CASE IngestKnown(name)
  <2> DEFINE id == byName[name]
             t == Recorded(topics[id])
  <2>1. /\ topics' = [topics EXCEPT ![id] = t] /\ stats' = [stats EXCEPT !.messages = @ + 1]
        /\ id \in DOMAIN topics
    BY <1>2, <1>10 DEF IngestKnown
  <2>2. t.count = topics[id].count + 1 /\ t.name = topics[id].name
    <3>1. t.name = topics[id].name /\ t.count = Increment(topics[id].count)
      BY <1>2, <1>3, <2>1, RecordedType
    <3>2. topics[id].count \in 0..stats.messages
      BY <1>3, <1>4, <1>5, <2>1
    <3> QED
      BY <1>7, <3>1, <3>2
  <2> HIDE DEF t, id
  <2>3. stats'.messages = stats.messages + 1 /\ stats'.dropped = stats.dropped
    BY <1>2, <2>1
  <2>4. /\ DOMAIN topics' = DOMAIN topics /\ topics'[id] = t
        /\ \A i \in DOMAIN topics : i # id => topics'[i] = topics[i]
    BY <1>2, <2>1
  <2>5. CountsInv'
    <3>1. stats'.messages + stats'.dropped <= MaxIngest
      BY <1>4, <1>6, <2>3
    <3>2. \A i \in DOMAIN topics' : topics'[i].count <= stats'.messages
      BY <1>3, <1>4, <1>5, <2>1, <2>2, <2>3, <2>4
    <3> QED
      BY <3>1, <3>2 DEF CountsInv
  <2>6. MovesOn
    <3>1. ASSUME NEW i \in DOMAIN topics
          PROVE  /\ i \in DOMAIN topics' /\ topics'[i].name = topics[i].name
                 /\ topics[i].count <= topics'[i].count
      <4>1. CASE i = id
        BY <1>3, <2>2, <2>4, <4>1
      <4>2. CASE i # id
        BY <1>3, <2>4, <4>2
      <4> QED
        BY <4>1, <4>2
    <3> QED
      BY <1>1, <3>1 DEF MovesOn
  <2> QED
    BY <1>1, <2>5, <2>6
<1> QED
  BY <1>8, <1>9, <1>10 DEF Ingest

(* A reset and a restart leave no topic. *)
LEMMA ResetMoves ==
  ASSUME StoreInv, Reset, restarts' = restarts
  PROVE  StoreInv' /\ CountsInv' /\ MovesOn
<1>1. /\ StoreInv' /\ epoch' = epoch + 1 /\ topics' = <<>> /\ epoch \in Nat
      /\ stats' = [messages |-> 0, dropped |-> 0]
  BY ResetTable DEF Reset, StoreInv
<1> QED
  BY <1>1, StoreAssumption DEF CountsInv, MovesOn

(* A selection or a release changes neither names nor counts. *)
LEMMA SelectionMoves ==
  ASSUME StoreInv, CountsInv, SameTopics(topics', topics),
         UNCHANGED <<epoch, seq, byName, stats, restarts>>
  PROVE  StoreInv' /\ CountsInv' /\ MovesOn
<1>1. StoreInv'
  BY SelectionTable
<1>2. topics \in Seq(TopicRecord) /\ Len(topics) \in Nat
  BY TableDomain DEF StoreInv
<1>3. \A id \in DOMAIN topics : topics[id].count \in Nat
  BY <1>2, ElementType, TopicFields DEF MessageNumbers
<1> QED
  BY <1>1, <1>2, <1>3 DEF CountsInv, MovesOn, SameTopics

LEMMA RestMoves ==
  ASSUME StoreInv, CountsInv, UNCHANGED <<storeVars, restarts>>
  PROVE  StoreInv' /\ CountsInv' /\ MovesOn
<1>1. topics \in Seq(TopicRecord) /\ Len(topics) \in Nat
  BY TableDomain DEF StoreInv
<1>2. \A id \in DOMAIN topics : topics[id].count \in Nat
  BY <1>1, ElementType, TopicFields DEF MessageNumbers
<1> QED
  BY <1>1, <1>2 DEF StoreInv, CountsInv, MovesOn, storeVars

-----------------------------------------------------------------------------
(* The epoch does not fall while the server runs, and within one epoch the *)
(* table only grows.                                                       *)
LEMMA NoEarlierEpoch ==
  ASSUME StoreInv, StoreInv', restarts \in Nat, MovesOn, restarts' = restarts
  PROVE  epoch <= epoch'
BY DEF StoreInv, MovesOn

LEMMA SameTable ==
  ASSUME StoreInv, restarts \in Nat, MovesOn, restarts' = restarts, epoch' = epoch
  PROVE  /\ Len(topics) <= Len(topics')
         /\ \A id \in DOMAIN topics : /\ id \in DOMAIN topics'
                                      /\ topics'[id].name = topics[id].name
                                      /\ topics[id].count <= topics'[id].count
BY DEF StoreInv, MovesOn

LEMMA CountsAreNumbers ==
  ASSUME NEW table \in Seq(TopicRecord)
  PROVE  \A id \in DOMAIN table : table[id].count \in Nat
BY ElementType, TopicFields DEF MessageNumbers

(* Names and counts of the present table stay true of it. *)
LEMMA NamesStillAgree ==
  ASSUME StoreInv, restarts \in Nat, MovesOn, restarts' = restarts, epoch' = epoch,
         NEW u, NamesAgree(u)
  PROVE  NamesAgree(u)'
BY SameTable DEF NamesAgree

LEMMA CountsStillAgree ==
  ASSUME StoreInv, StoreInv', restarts \in Nat, MovesOn, restarts' = restarts, epoch' = epoch,
         NEW counts, Numbers(counts), CountsAgree(counts)
  PROVE  CountsAgree(counts)'
<1>1. \A id \in DOMAIN topics : topics[id].count \in Nat
  BY CountsAreNumbers DEF StoreInv
<1>2. \A id \in DOMAIN topics' : topics'[id].count \in Nat
  BY CountsAreNumbers DEF StoreInv
<1>3. \A id \in DOMAIN topics : /\ id \in DOMAIN topics'
                                /\ topics[id].count <= topics'[id].count
  BY SameTable
<1> QED
  BY <1>1, <1>2, <1>3 DEF CountsAgree, Numbers

(* What is under way to the page stays true. *)
LEMMA StillAgrees ==
  ASSUME StoreInv, StoreInv', restarts \in Nat, restarts' \in Nat, MovesOn,
         NEW q, NEW pg, NEW r \in 0..restarts, Ordered(q, pg, r), Agrees(q, pg, r),
         pg.epoch \in Nat, r = restarts => pg.epoch <= epoch \/ DOMAIN pg.tree = {}
  PROVE  Agrees(q, pg, r)'
<1> SUFFICES ASSUME r = restarts'
             PROVE  Agrees(q, pg, r)'
  BY DEF Agrees
<1>1. restarts' = restarts
  BY DEF MovesOn, StoreInv
<1>2. epoch \in Nat /\ epoch' \in Nat /\ epoch <= epoch'
  BY <1>1, NoEarlierEpoch DEF StoreInv
<1>3. /\ \A j \in Ticks(q) : q[j].epoch \in Nat /\ q[j].epoch <= epoch
      /\ \A j \in Ticks(q) : q[j].epoch = epoch => NamesAgree(q[j])
  BY <1>1 DEF Agrees, Ordered, IsUpdate
<1>4. ASSUME NEW j \in Ticks(q)
      PROVE  /\ q[j].epoch <= epoch'
             /\ q[j].epoch = epoch' => NamesAgree(q[j])'
  <2>1. q[j].epoch <= epoch'
    BY <1>2, <1>3
  <2>2. ASSUME q[j].epoch = epoch'
        PROVE  NamesAgree(q[j])'
    <3>1. epoch' = epoch
      BY <1>2, <1>3, <2>2
    <3> QED
      BY <1>1, <1>3, <2>2, <3>1, NamesStillAgree
  <2> QED
    BY <2>1, <2>2
<1>5. ASSUME NEW j \in Counts(q)
      PROVE  /\ j > 1 /\ q[j - 1].epoch = epoch' => CountsAgree(q[j].counts)'
             /\ j = 1 /\ pg.epoch = epoch' => CountsAgree(q[j].counts)'
  <2>1. CountsFollow(q, pg, j)
    BY DEF Ordered
  <2>2. Numbers(q[j].counts)
    BY <2>1 DEF CountsFollow
  <2>3. ASSUME j > 1, q[j - 1].epoch = epoch'
        PROVE  CountsAgree(q[j].counts)'
    <3>1. epoch' = epoch
      BY <1>2, <1>3, <2>1, <2>3 DEF CountsFollow
    <3>2. CountsAgree(q[j].counts)
      BY <1>1, <2>3, <3>1 DEF Agrees
    <3> QED
      BY <1>1, <2>2, <3>1, <3>2, CountsStillAgree
  <2>4. ASSUME j = 1, pg.epoch = epoch'
        PROVE  CountsAgree(q[j].counts)'
    <3>1. CASE DOMAIN pg.tree = {}
      <4>1. DOMAIN q[j].counts = {}
        BY <2>1, <2>4, <3>1 DEF CountsFollow
      <4> QED
        BY <4>1 DEF CountsAgree
    <3>2. CASE DOMAIN pg.tree # {}
      <4>1. epoch' = epoch
        BY <1>1, <1>2, <2>4, <3>2
      <4>2. CountsAgree(q[j].counts)
        BY <1>1, <2>4, <4>1 DEF Agrees
      <4> QED
        BY <1>1, <2>2, <4>1, <4>2, CountsStillAgree
    <3> QED
      BY <3>1, <3>2
  <2> QED
    BY <2>3, <2>4
<1> QED
  BY <1>1, <1>4, <1>5 DEF Agrees

-----------------------------------------------------------------------------
(***************************************************************************)
(* Steps of the server that send nothing: the writer rests, waits, gives   *)
(* up or is ended.                                                         *)
(***************************************************************************)
WriterRests(c) ==
  /\ cur'[c] = cur[c]
  /\ wr'[c] = "off" <=> wr[c] = "off"
  /\ wr'[c] \in Alive => wr[c] \in Alive /\ restarts' = restarts /\ (~gone'[c] => ~gone[c])
  /\ wr'[c] \in {"polling", "waiting"} => wr[c] \in {"polling", "waiting"}
  /\ wr'[c] = "writing" => wr[c] = "writing" /\ out'[c] = out[c]

LEMMA CursorKept ==
  ASSUME StoreInv, StoreInv', restarts \in Nat, MovesOn, NEW c \in Conns, CursorAt(c),
         WriterRests(c), wr[c] = "off" => down'[c] = down[c]
  PROVE  CursorAt(c)'
<1>1. /\ cur'[c] = cur[c] /\ (wr'[c] = "off" <=> wr[c] = "off")
      /\ wr'[c] \in Alive => wr[c] \in Alive /\ restarts' = restarts
  BY DEF WriterRests
<1>2. ASSUME wr'[c] \in Alive
      PROVE  /\ cur[c].epoch <= epoch'
             /\ cur[c].epoch = epoch' => cur[c].topics <= Len(topics')
  <2>1. /\ cur[c].epoch <= epoch /\ cur[c].epoch \in Nat /\ cur[c].topics \in Nat
        /\ cur[c].epoch = epoch => cur[c].topics <= Len(topics)
    BY <1>1, <1>2 DEF CursorAt
  <2>2. epoch \in Nat /\ epoch' \in Nat /\ epoch <= epoch'
    BY <1>1, <1>2, NoEarlierEpoch DEF StoreInv
  <2>3. Len(topics) \in Nat /\ Len(topics') \in Nat
    BY TableDomain DEF StoreInv
  <2>4. epoch' = epoch => Len(topics) <= Len(topics')
    BY <1>1, <1>2, SameTable
  <2> QED
    BY <2>1, <2>2, <2>3, <2>4
<1> QED
  BY <1>1, <1>2 DEF CursorAt

LEMMA WritingKept ==
  ASSUME StoreInv, StoreInv', restarts \in Nat, MovesOn, NEW c \in Conns,
         CursorAt(c), WritingAt(c), WriterRests(c)
  PROVE  WritingAt(c)'
<1> SUFFICES ASSUME wr'[c] = "writing"
             PROVE  WritingAt(c)'
  BY DEF WritingAt
<1>1. /\ wr[c] = "writing" /\ out'[c] = out[c] /\ cur'[c] = cur[c] /\ restarts' = restarts
  BY DEF WriterRests, Alive
<1>2. PICK u : u = out[c]
  OBVIOUS
<1>3. /\ IsUpdate(u) /\ DOMAIN u = UpdateFields
      /\ u.epoch = cur[c].epoch /\ EndOf(u) = cur[c].topics
      /\ DOMAIN u.counts \subseteq 1..EndOf(u) /\ Numbers(u.counts)
      /\ u.epoch = epoch => NamesAgree(u) /\ CountsAgree(u.counts)
  BY <1>1, <1>2 DEF WritingAt
<1>4. u.epoch <= epoch
  BY <1>1, <1>3 DEF CursorAt, Alive
<1>5. epoch \in Nat /\ epoch' \in Nat /\ epoch <= epoch'
  BY <1>1, NoEarlierEpoch DEF StoreInv
<1>6. ASSUME u.epoch = epoch'
      PROVE  NamesAgree(u)' /\ CountsAgree(u.counts)'
  <2>1. epoch' = epoch
    BY <1>4, <1>5, <1>6
  <2>2. PICK counts : counts = u.counts
    OBVIOUS
  <2>3. NamesAgree(u)'
    BY <1>1, <1>3, <1>6, <2>1, NamesStillAgree
  <2>4. CountsAgree(counts)'
    BY <1>1, <1>3, <1>6, <2>1, <2>2, CountsStillAgree
  <2> QED
    BY <2>2, <2>3, <2>4
<1> QED
  BY <1>1, <1>2, <1>3, <1>6 DEF WritingAt

LEMMA StillContinues ==
  ASSUME NEW c \in Conns, NEW q, NEW pg, NEW r, Continues(c, q, pg, r), WriterRests(c)
  PROVE  Continues(c, q, pg, r)'
<1>1. wr'[c] \in Alive => r = restarts'
  BY DEF Continues, WriterRests
<1>2. ASSUME ~gone'[c], wr'[c] \in {"polling", "waiting"}
      PROVE  /\ \A i \in Ticks(q) : q[i].epoch <= cur'[c].epoch
             /\ DOMAIN pg.tree # {} => pg.epoch <= cur'[c].epoch
             /\ \A id \in 1..cur'[c].topics : Told(q, pg, Len(q) + 1, cur'[c].epoch, id)
  BY <1>2 DEF Continues, WriterRests, Alive
<1>3. ASSUME ~gone'[c], wr'[c] = "writing"
      PROVE  Follows(q, pg, Len(q) + 1, out'[c])
  BY <1>3 DEF Continues, WriterRests, Alive
<1> QED
  BY <1>1, <1>2, <1>3 DEF Continues

(* What the page shows stays true of the store. *)
LEMMA PageStillAgrees ==
  ASSUME StoreInv, StoreInv', restarts \in Nat, restarts' \in Nat, MovesOn, PageInv, b' = b
  PROVE  PageInv'
<1>1. b.era \in Nat \X Nat /\ b.era[1] \in Nat /\ b.era[2] \in Nat /\ b.era[1] <= restarts
  BY DEF PageInv
<1>2. epoch \in Nat /\ epoch' \in Nat
  BY DEF StoreInv
<1>3. restarts <= restarts'
  BY <1>2 DEF MovesOn
<1>4. ASSUME b.era[1] = restarts'
      PROVE  /\ restarts' = restarts /\ b.era[2] <= epoch /\ epoch <= epoch'
             /\ b.era[2] <= epoch'
  <2>1. restarts' = restarts
    BY <1>1, <1>3, <1>4
  <2>2. b.era[2] <= epoch
    BY <1>4, <2>1 DEF PageInv
  <2>3. epoch <= epoch'
    BY <2>1, NoEarlierEpoch
  <2> QED
    BY <1>1, <1>2, <2>1, <2>2, <2>3
<1>5. ASSUME b.era = <<restarts', epoch'>>, NEW id \in DOMAIN b.tree
      PROVE  /\ id \in DOMAIN topics' /\ b.tree[id].name = topics'[id].name
             /\ b.tree[id].count <= topics'[id].count
  <2>1. b.era[1] = restarts' /\ b.era[2] = epoch'
    BY <1>5
  <2>2. restarts' = restarts /\ epoch' = epoch
    BY <1>1, <1>2, <1>4, <2>1
  <2>3. /\ id \in DOMAIN topics /\ b.tree[id].name = topics[id].name
        /\ b.tree[id].count <= topics[id].count
    <3>1. b.era = Now => \A i \in DOMAIN b.tree :
                           /\ i \in DOMAIN topics /\ b.tree[i].name = topics[i].name
                           /\ b.tree[i].count <= topics[i].count
      BY DEF PageInv, NothingOfAnotherTable, TopicIds
    <3>2. b.era = Now
      BY <1>5, <2>2 DEF Now
    <3> QED
      BY <3>1, <3>2
  <2>4. /\ id \in DOMAIN topics' /\ topics'[id].name = topics[id].name
        /\ topics[id].count <= topics'[id].count
    BY <2>2, <2>3, SameTable
  <2>5. topics[id].count \in Nat /\ topics'[id].count \in Nat /\ b.tree[id].count \in Nat
    BY <2>3, <2>4, CountsAreNumbers DEF StoreInv, PageInv
  <2> QED
    BY <2>3, <2>4, <2>5
<1>6. NothingOfAnotherTable'
  <2>1. /\ \A id \in DOMAIN b.previews : b.previews[id].era = b.era
        /\ \A id \in DOMAIN b.values : b.values[id].era = b.era
        /\ b.from \subseteq {<<b.era, b.selected>>}
    BY DEF PageInv, NothingOfAnotherTable
  <2>2. b.era = Now' => \A id \in DOMAIN b.tree :
                          /\ id \in DOMAIN topics' /\ b.tree[id].name = topics'[id].name
                          /\ b.tree[id].count <= topics'[id].count
    BY <1>5 DEF Now
  <2> QED
    BY <2>1, <2>2, Zenon DEF NothingOfAnotherTable, TopicIds
<1> QED
  BY <1>1, <1>3, <1>4, <1>6 DEF PageInv, Blank

(* The page is not ahead of the store. *)
LEMMA ReceiverNotAhead ==
  ASSUME PInv, NEW q, NEW pg, NEW r, Ordered(q, pg, r), pg = Receiver
  PROVE  /\ pg.epoch \in Nat
         /\ r = restarts => pg.epoch <= epoch \/ DOMAIN pg.tree = {}
<1>1. DOMAIN b = PageFields /\ b.epoch \in Nat
  BY DEF PInv, PageInv
<1>2. pg.epoch = b.epoch /\ pg.era = b.era
  BY <1>1 DEF Receiver, ResetClient, PageFields
<1>3. b.era[1] = restarts => b.era[2] <= epoch
  BY DEF PInv, PageInv
<1> QED
  BY <1>1, <1>2, <1>3 DEF Ordered, Blank

(* A step of the server that sends nothing preserves the invariant. *)
LEMMA ServerStep ==
  ASSUME PInv, StoreInv', CountsInv', restarts' \in Nat, MovesOn,
         UNCHANGED <<sock, link, down, b>>,
         DOMAIN cur' = Conns, DOMAIN wr' = Conns, DOMAIN out' = Conns, DOMAIN gone' = Conns,
         \A c \in Conns : WriterRests(c)
  PROVE  PInv'
<1>1. /\ StoreInv /\ LinesInv /\ PageInv /\ StreamInv /\ restarts \in Nat
      /\ sock' = sock /\ link' = link /\ down' = down /\ b' = b
  BY DEF PInv, LinesInv
<1>2. LinesInv'
  <2>1. \A c \in Conns : CursorAt(c)'
    BY <1>1, CursorKept DEF LinesInv
  <2>2. \A c \in Conns : WritingAt(c)'
    BY <1>1, WritingKept DEF LinesInv
  <2>3. \A c \in Conns : wr'[c] = "off" <=> wr[c] = "off"
    BY DEF WriterRests
  <2> QED
    BY <1>1, <2>1, <2>2, <2>3 DEF LinesInv
<1>3. PageInv'
  BY <1>1, PageStillAgrees
<1>4. StreamInv'
  <2> SUFFICES ASSUME link' # "closed"
               PROVE  StreamInv'
    BY DEF StreamInv
  <2>1. PICK q, pg : q = down[sock] /\ pg = Receiver
    OBVIOUS
  <2>2. PICK r \in 0..restarts : Ordered(q, pg, r) /\ Agrees(q, pg, r) /\ Continues(sock, q, pg, r)
    BY <1>1, <2>1 DEF StreamInv
  <2>3. PICK c \in Conns : c = sock
    BY <1>1 DEF LinesInv
  <2>4. Receiver' = pg /\ down'[sock'] = q
    BY <1>1, <2>1 DEF Receiver
  <2>5. pg.epoch \in Nat /\ (r = restarts => pg.epoch <= epoch \/ DOMAIN pg.tree = {})
    BY <2>1, <2>2, ReceiverNotAhead
  <2>6. Agrees(q, pg, r)'
    BY <1>1, <2>2, <2>5, StillAgrees
  <2>7. Continues(c, q, pg, r)'
    BY <2>2, <2>3, StillContinues
  <2>8. r \in 0..restarts'
    <3>1. restarts <= restarts'
      BY <1>1 DEF MovesOn
    <3> QED
      BY <1>1, <3>1
  <2> QED
    BY <1>1, <2>2, <2>3, <2>4, <2>6, <2>7, <2>8 DEF StreamInv
<1> QED
  BY <1>1, <1>2, <1>3, <1>4 DEF PInv

(* The writers do nothing. *)
LEMMA WritersRest ==
  ASSUME UNCHANGED <<cur, wr, out, gone, restarts>>
  PROVE  \A c \in Conns : WriterRests(c)
BY DEF WriterRests

LEMMA PublishStep ==
  ASSUME PInv, NEW name \in Names, Publish(name)
  PROVE  PInv'
<1>1. Ingest(name) /\ UNCHANGED <<connVars, pageVars>>
  BY DEF Publish
<1>2. StoreInv' /\ CountsInv' /\ MovesOn /\ restarts' \in Nat
  BY <1>1, PublishMoves DEF PInv, LinesInv, pageVars
<1> QED
  BY <1>1, <1>2, WritersRest, ServerStep DEF PInv, LinesInv, connVars, pageVars

LEMMA ClearStep ==
  ASSUME PInv, Clear
  PROVE  PInv'
<1>1. Reset /\ UNCHANGED <<connVars, pageVars>>
  BY DEF Clear
<1>2. StoreInv' /\ CountsInv' /\ MovesOn /\ restarts' \in Nat
  BY <1>1, ResetMoves DEF PInv, LinesInv, pageVars
<1> QED
  BY <1>1, <1>2, WritersRest, ServerStep DEF PInv, LinesInv, connVars, pageVars

LEMMA RestartStep ==
  ASSUME PInv, Restart
  PROVE  PInv'
<1>1. /\ restarts \in Nat /\ restarts' = restarts + 1 /\ epoch' = 1 /\ seq' = 0
      /\ DOMAIN byName' = {} /\ topics' = <<>> /\ stats' = [messages |-> 0, dropped |-> 0]
  BY DEF PInv, LinesInv, Restart
<1>2. StoreInv' /\ CountsInv' /\ MovesOn /\ restarts' \in Nat
  BY <1>1, StoreAssumption DEF StoreInv, CountsInv, MovesOn
<1>3. /\ DOMAIN cur = Conns /\ DOMAIN wr = Conns
      /\ cur' = cur /\ out' = [c \in Conns |-> NoUpdate]
      /\ wr' = [c \in Conns |-> IF wr[c] # "off" THEN "closed" ELSE wr[c]]
      /\ DOMAIN gone' = Conns
      /\ UNCHANGED <<sock, link, down, b>>
  BY DEF PInv, LinesInv, Restart, clientVars
<1>4. \A c \in Conns : WriterRests(c)
  BY <1>3 DEF WriterRests, Alive
<1> QED
  BY <1>2, <1>3, <1>4, ServerStep

LEMMA ReaderTouches ==
  ASSUME StoreInv, NEW c \in Conns, Reader(c)
  PROVE  /\ UNCHANGED <<epoch, seq, byName, stats, cur, wr, out, gone>>
         /\ topics' = topics \/ SameTopics(topics', topics)
<1>1. topics \in Seq(TopicRecord)
  BY DEF StoreInv
<1>2. CASE ReadMessage(c) \/ ReadFails(c) \/ HandleWatch(c) \/ HandleCompare(c)
  BY <1>2 DEF ReadMessage, ReadFails, HandleWatch, HandleCompare, storeVars, clientVars
<1>3. CASE SelectReleases(c)
  BY <1>1, <1>3, ReleasedSame DEF SelectReleases
<1>4. CASE SelectTakes(c)
  BY <1>1, <1>4, SelectedSame DEF SelectTakes
<1> QED
  BY <1>2, <1>3, <1>4 DEF Reader

LEMMA ReaderStepStep ==
  ASSUME PInv, NEW c \in Conns, ReaderStep(c)
  PROVE  PInv'
<1>1. /\ UNCHANGED <<epoch, seq, byName, stats, cur, wr, out, gone>>
      /\ topics' = topics \/ SameTopics(topics', topics)
      /\ UNCHANGED <<sock, link, down, b, restarts>>
  BY ReaderTouches DEF PInv, ReaderStep, pageVars
<1>2. StoreInv' /\ CountsInv' /\ MovesOn
  BY <1>1, RestMoves, SelectionMoves DEF PInv, storeVars
<1> QED
  BY <1>1, <1>2, WritersRest, ServerStep DEF PInv, LinesInv

(* The writer waits, gives up or ends. *)
LEMMA WriterEnds ==
  ASSUME PInv, NEW c \in Conns,
         \/ TickerFires(c) \/ SeesCancel(c) \/ WriteFails(c) \/ Teardown(c),
         UNCHANGED pageVars
  PROVE  PInv'
<1>1. /\ DOMAIN cur = Conns /\ DOMAIN wr = Conns /\ DOMAIN out = Conns /\ DOMAIN gone = Conns
      /\ restarts \in Nat /\ topics \in Seq(TopicRecord)
  BY DEF PInv, LinesInv, StoreInv
<1>2. /\ UNCHANGED <<cur, gone, sock, link, down, b, restarts>>
      /\ UNCHANGED <<epoch, seq, byName, stats>>
      /\ topics' = topics \/ SameTopics(topics', topics)
  BY <1>1, ReleasedSame DEF TickerFires, SeesCancel, WriteFails, Teardown, clientVars,
     storeVars, pageVars
<1>3. StoreInv' /\ CountsInv' /\ MovesOn
  BY <1>2, RestMoves, SelectionMoves DEF PInv, storeVars
<1>4. /\ DOMAIN wr' = Conns /\ DOMAIN out' = Conns
      /\ \A d \in Conns : (wr'[d] = wr[d] /\ out'[d] = out[d]) \/ d = c
      /\ \/ wr[c] = "waiting" /\ wr'[c] = "polling"
         \/ wr[c] \in {"waiting", "writing"} /\ wr'[c] = "closing"
         \/ wr[c] = "closing" /\ wr'[c] = "closed"
  BY <1>1 DEF TickerFires, SeesCancel, WriteFails, Teardown
<1>5. \A d \in Conns : WriterRests(d)
  BY <1>2, <1>4 DEF WriterRests, Alive
<1> QED
  BY <1>1, <1>2, <1>3, <1>4, <1>5, ServerStep

LEMMA ConnectionLostStep ==
  ASSUME PInv, ConnectionLost
  PROVE  PInv'
<1>1. /\ DOMAIN cur = Conns /\ DOMAIN wr = Conns /\ DOMAIN out = Conns /\ DOMAIN gone = Conns
      /\ restarts \in Nat
  BY DEF PInv, LinesInv
<1>2. /\ UNCHANGED <<storeVars, cur, wr, out, sock, link, down, b, restarts>>
      /\ gone' = [gone EXCEPT ![sock] = TRUE]
  BY DEF ConnectionLost, clientVars, pageVars
<1>3. StoreInv' /\ CountsInv' /\ MovesOn
  BY <1>2, RestMoves DEF PInv
<1>4. \A c \in Conns : WriterRests(c)
  BY <1>1, <1>2 DEF WriterRests
<1> QED
  BY <1>1, <1>2, <1>3, <1>4, ServerStep

-----------------------------------------------------------------------------
(***************************************************************************)
(* Steps of one writer, which makes an update or sends it.                 *)
(***************************************************************************)
LEMMA OneWriterStep ==
  ASSUME PInv, UNCHANGED <<storeVars, sock, link, b, restarts>>,
         DOMAIN cur' = Conns, DOMAIN wr' = Conns, DOMAIN out' = Conns, DOMAIN gone' = Conns,
         DOMAIN down' = Conns,
         NEW c \in Conns, wr[c] # "off", wr'[c] # "off", \E S : down'[c] \in Seq(S),
         \A d \in Conns \ {c} : WriterRests(d) /\ down'[d] = down[d],
         CursorAt(c)', WritingAt(c)',
         c = sock /\ link # "closed" => StreamInv'
  PROVE  PInv'
<1>1. /\ StoreInv /\ LinesInv /\ PageInv /\ StreamInv /\ restarts \in Nat
      /\ sock' = sock /\ link' = link /\ b' = b /\ restarts' = restarts
  BY DEF PInv, LinesInv
<1>2. StoreInv' /\ CountsInv' /\ MovesOn
  BY RestMoves DEF PInv
<1>3. LinesInv'
  <2>1. \A d \in Conns : CursorAt(d)'
    BY <1>1, <1>2, CursorKept DEF LinesInv
  <2>2. \A d \in Conns : WritingAt(d)'
    BY <1>1, <1>2, WritingKept DEF LinesInv
  <2>3. \A d \in Conns : \E S : down'[d] \in Seq(S)
    BY <1>1 DEF LinesInv
  <2>4. \A d \in Conns : wr'[d] = "off" <=> wr[d] = "off"
    BY DEF WriterRests
  <2> QED
    BY <1>1, <2>1, <2>2, <2>3, <2>4 DEF LinesInv
<1>4. PageInv'
  BY <1>1, <1>2, PageStillAgrees
<1>5. StreamInv'
  <2> SUFFICES ASSUME link # "closed", c # sock
               PROVE  StreamInv'
    BY <1>1 DEF StreamInv
  <2>1. PICK q, pg : q = down[sock] /\ pg = Receiver
    OBVIOUS
  <2>2. PICK r \in 0..restarts : Ordered(q, pg, r) /\ Agrees(q, pg, r) /\ Continues(sock, q, pg, r)
    BY <1>1, <2>1 DEF StreamInv
  <2>3. PICK d \in Conns : d = sock
    BY <1>1 DEF LinesInv
  <2>4. Receiver' = pg /\ down'[sock'] = q
    BY <1>1, <2>1, <2>3 DEF Receiver
  <2>5. pg.epoch \in Nat /\ (r = restarts => pg.epoch <= epoch \/ DOMAIN pg.tree = {})
    BY <2>1, <2>2, ReceiverNotAhead
  <2>6. Agrees(q, pg, r)'
    BY <1>1, <1>2, <2>2, <2>5, StillAgrees
  <2>7. Continues(d, q, pg, r)'
    BY <2>2, <2>3, StillContinues
  <2> QED
    BY <1>1, <2>2, <2>3, <2>4, <2>6, <2>7 DEF StreamInv
<1> QED
  BY <1>2, <1>3, <1>4, <1>5 DEF PInv

(* An update is about the present table: it names the topics after those the *)
(* cursor counts, and has the counts of topics it or earlier ones named.     *)
LEMMA PollShape ==
  ASSUME StoreInv, NEW k, k.epoch \in Nat, k.topics \in Nat,
         k.epoch = epoch => k.topics <= Len(topics),
         NEW h, NEW w, NEW sel, NEW u, u = TickOf(PollUpdate(k, h, w), sel)
  PROVE  LET known == IF k.epoch = epoch THEN k.topics ELSE 0
         IN  /\ IsUpdate(u) /\ DOMAIN u = UpdateFields /\ u.epoch = epoch /\ u.firstId = known + 1
             /\ k.epoch = epoch => ~u.reset
             /\ EndOf(u) = NamesEnd(known) /\ NamesEnd(known) \in Nat
             /\ NamesEnd(known) <= Len(topics)
             /\ DOMAIN u.counts \subseteq 1..EndOf(u) /\ Numbers(u.counts)
             /\ NamesAgree(u) /\ CountsAgree(u.counts)
             /\ PollCursor(k) = [epoch |-> epoch, topics |-> NamesEnd(known), seq |-> seq]
<1> DEFINE s == StartCursor(k)
           known == IF k.epoch = epoch THEN k.topics ELSE 0
           end == NamesEnd(known)
<1>1. /\ topics \in Seq(TopicRecord) /\ Len(topics) \in Nat /\ DOMAIN topics = 1..Len(topics)
      /\ epoch \in Nat \ {0}
  BY TableDomain DEF StoreInv
<1>2. s.topics = known
  BY DEF StartCursor, FreshCursor
<1>3. known \in 0..Len(topics)
  BY <1>1
<1>4. end \in known..Len(topics)
  BY <1>1, <1>3, NamesEndRange
<1>5. /\ DOMAIN u = UpdateFields /\ u.t = "tick" /\ u.epoch = epoch /\ u.firstId = known + 1
      /\ u.names = NamesBetween(known, end)
      /\ u.counts = [id \in Counted(s) |-> topics[id].count]
      /\ u.reset = (k.epoch \notin {0, epoch})
  BY <1>2 DEF TickOf, PollUpdate, UpdateFields
<1>6. PollCursor(k) = [epoch |-> epoch, topics |-> end, seq |-> seq]
  BY <1>2 DEF PollCursor
<1>7. Counted(s) \subseteq 1..end
  <2>1. Counted(s) = {id \in 1..known : topics[id].seq > s.seq} \cup (known + 1)..end
    BY <1>2 DEF Counted
  <2> HIDE DEF s, known, end
  <2> QED
    BY <1>3, <1>4, <2>1
<1> HIDE DEF s, known, end
<1>8. /\ Len(u.names) = end - known
      /\ \A i \in 1..(end - known) : u.names[i] = topics[known + i].name
  BY <1>3, <1>4, <1>5 DEF NamesBetween
<1>9. EndOf(u) = end
  BY <1>3, <1>4, <1>5, <1>8 DEF EndOf
<1>10. IsUpdate(u)
  BY <1>1, <1>3, <1>4, <1>5, <1>8 DEF IsUpdate
<1>11. NamesAgree(u)
  BY <1>1, <1>3, <1>4, <1>5, <1>8 DEF NamesAgree
<1>12. ASSUME NEW id \in DOMAIN u.counts
       PROVE  /\ id \in 1..end /\ id \in DOMAIN topics
              /\ u.counts[id] \in Nat /\ u.counts[id] <= topics[id].count
  <2>1. id \in Counted(s) /\ id \in 1..end /\ u.counts[id] = topics[id].count
    BY <1>5, <1>7
  <2>2. id \in DOMAIN topics
    BY <1>1, <1>3, <1>4, <2>1
  <2>3. topics[id].count \in Nat
    BY <1>1, <2>2, CountsAreNumbers
  <2> QED
    BY <2>1, <2>2, <2>3
<1>13. /\ DOMAIN u.counts \subseteq 1..EndOf(u) /\ Numbers(u.counts)
       /\ CountsAgree(u.counts)
  BY <1>9, <1>12 DEF Numbers, CountsAgree
<1>14. k.epoch = epoch => ~u.reset
  BY <1>5
<1>15. end \in Nat /\ end <= Len(topics)
  BY <1>1, <1>3, <1>4
<1> QED
  BY <1>5, <1>6, <1>9, <1>10, <1>11, <1>13, <1>14, <1>15 DEF known, end

LEMMA SendUpdateStep ==
  ASSUME PInv, NEW c \in Conns, SendUpdate(c), UNCHANGED pageVars
  PROVE  PInv'
<1>1. /\ DOMAIN cur = Conns /\ DOMAIN wr = Conns /\ DOMAIN out = Conns /\ DOMAIN gone = Conns
      /\ DOMAIN down = Conns /\ restarts \in Nat /\ StoreInv /\ CursorAt(c)
      /\ \E S : down[c] \in Seq(S)
  BY DEF PInv, LinesInv
<1>2. wr[c] = "polling" /\ wr[c] \in Alive
  BY DEF SendUpdate, Alive
<1> DEFINE k == cur[c]
           known == IF k.epoch = epoch THEN k.topics ELSE 0
           end == NamesEnd(known)
           u == out'[c]
<1>3. /\ k.epoch \in Nat /\ k.topics \in Nat /\ k.epoch <= epoch
      /\ k.epoch = epoch => k.topics <= Len(topics)
  BY <1>1, <1>2 DEF CursorAt
<1>4. \E sel : u = TickOf(PollUpdate(k, histN[c], want[c]), sel)
  BY <1>1 DEF SendUpdate
<1>5. /\ IsUpdate(u) /\ DOMAIN u = UpdateFields /\ u.epoch = epoch /\ u.firstId = known + 1
      /\ k.epoch = epoch => ~u.reset
      /\ EndOf(u) = end /\ end \in Nat /\ end <= Len(topics)
      /\ DOMAIN u.counts \subseteq 1..EndOf(u) /\ Numbers(u.counts)
      /\ NamesAgree(u) /\ CountsAgree(u.counts)
      /\ PollCursor(k) = [epoch |-> epoch, topics |-> end, seq |-> seq]
  BY <1>1, <1>3, <1>4, PollShape
<1>6. /\ UNCHANGED <<storeVars, gone, sock, link, down, b, restarts>>
      /\ DOMAIN cur' = Conns /\ DOMAIN wr' = Conns /\ DOMAIN out' = Conns
      /\ cur'[c] = PollCursor(k) /\ wr'[c] = "writing"
      /\ \A d \in Conns \ {c} : cur'[d] = cur[d] /\ wr'[d] = wr[d] /\ out'[d] = out[d]
  BY <1>1 DEF SendUpdate, pageVars
<1>7. /\ epoch' = epoch /\ topics' = topics /\ epoch \in Nat \ {0} /\ seq \in Nat
      /\ gone' = gone /\ restarts' = restarts
  BY <1>1, <1>6 DEF StoreInv, storeVars
<1>8. \A d \in Conns \ {c} : WriterRests(d) /\ down'[d] = down[d]
  BY <1>6 DEF WriterRests
<1>9. cur'[c].epoch = epoch /\ cur'[c].topics = end /\ cur'[c].seq = seq
  BY <1>5, <1>6
<1>10. CursorAt(c)'
  BY <1>5, <1>6, <1>7, <1>9 DEF CursorAt
<1>11. WritingAt(c)'
  <2>1. PICK v : v = out'[c]
    OBVIOUS
  <2>2. NamesAgree(v)' /\ CountsAgree(v.counts)'
    BY <1>5, <1>7, <2>1 DEF NamesAgree, CountsAgree
  <2> QED
    BY <1>5, <1>7, <1>9, <2>1, <2>2 DEF WritingAt
<1>12. ASSUME c = sock, link # "closed"
       PROVE  StreamInv'
  <2>1. PICK q, pg, v : q = down[c] /\ pg = Receiver /\ v = out'[c]
    OBVIOUS
  <2>2. PICK r \in 0..restarts : Ordered(q, pg, r) /\ Agrees(q, pg, r) /\ Continues(c, q, pg, r)
    BY <1>12, <2>1 DEF PInv, StreamInv
  <2>3. Receiver' = pg /\ down'[sock'] = q /\ sock' = c
    BY <1>6, <1>12, <2>1 DEF Receiver
  <2>4. pg.epoch \in Nat
    BY <2>1, <2>2, ReceiverNotAhead
  <2>5. Agrees(q, pg, r)'
    BY <1>7, <2>2 DEF Agrees, NamesAgree, CountsAgree
  <2>6. ASSUME ~gone[c]
        PROVE  Follows(q, pg, Len(q) + 1, v)
    <3>1. /\ \A i \in Ticks(q) : q[i].epoch <= k.epoch
          /\ DOMAIN pg.tree # {} => pg.epoch <= k.epoch
          /\ \A id \in 1..k.topics : Told(q, pg, Len(q) + 1, k.epoch, id)
      BY <1>2, <2>2, <2>6 DEF Continues
    <3>2. \A i \in Ticks(q) : q[i].epoch \in Nat
      BY <2>2 DEF Ordered, IsUpdate
    <3>3. v.epoch = epoch /\ v.firstId = known + 1 /\ (k.epoch = epoch => ~v.reset)
      BY <1>5, <2>1
    <3>4. ASSUME NEW id \in 1..(v.firstId - 1)
          PROVE  Told(q, pg, Len(q) + 1, v.epoch, id)
      <4>1. known = 0 \/ (k.epoch = epoch /\ known = k.topics)
        OBVIOUS
      <4>2. known \in Nat
        BY <1>3
      <4> HIDE DEF known
      <4>3. id \in 1..known
        BY <3>3, <4>2
      <4> QED
        BY <3>1, <3>3, <4>1, <4>3
    <3>5. ASSUME NEW i \in Ticks(q)
          PROVE  q[i].epoch <= v.epoch /\ (v.reset => q[i].epoch # v.epoch)
      BY <1>3, <1>7, <3>1, <3>2, <3>3
    <3>6. DOMAIN pg.tree # {} => pg.epoch <= v.epoch /\ (v.reset => pg.epoch # v.epoch)
      BY <1>3, <1>7, <2>4, <3>1, <3>3
    <3> QED
      BY <3>4, <3>5, <3>6 DEF Follows
  <2>7. Continues(c, q, pg, r)'
    BY <1>2, <1>6, <1>7, <2>1, <2>2, <2>6 DEF Continues, Alive
  <2> QED
    BY <1>7, <2>2, <2>3, <2>5, <2>7 DEF StreamInv
<1> QED
  BY <1>1, <1>2, <1>6, <1>8, <1>10, <1>11, <1>12, OneWriterStep

-----------------------------------------------------------------------------
(***************************************************************************)
(* Frames at the end of a stream.                                          *)
(***************************************************************************)
Extends(q2, q) == DOMAIN q \subseteq DOMAIN q2 /\ \A i \in DOMAIN q : q2[i] = q[i]

LEMMA ToldMore ==
  ASSUME NEW q, NEW q2, Extends(q2, q), DOMAIN q \subseteq Nat, NEW k \in Nat, NEW k2 \in Nat,
         k <= k2, NEW pg, NEW e, NEW id, Told(q, pg, k, e, id)
  PROVE  Told(q2, pg, k2, e, id)
<1>1. CASE pg.epoch = e /\ id \in DOMAIN pg.tree
  BY <1>1 DEF Told
<1>2. CASE \E i \in Ticks(q) : i < k /\ q[i].epoch = e /\ id \in q[i].firstId..EndOf(q[i])
  <2>1. PICK i \in Ticks(q) : i < k /\ q[i].epoch = e /\ id \in q[i].firstId..EndOf(q[i])
    BY <1>2
  <2>2. i \in Ticks(q2) /\ q2[i] = q[i] /\ i \in Nat
    BY <2>1 DEF Ticks, Extends
  <2> QED
    BY <2>1, <2>2 DEF Told
<1> QED
  BY <1>1, <1>2 DEF Told

LEMMA StillFollows ==
  ASSUME NEW n \in Nat, NEW q, NEW q2, DOMAIN q = 1..n, Extends(q2, q), DOMAIN q2 \subseteq Nat \ {0},
         NEW k \in 1..(n + 1), NEW pg, NEW u, Follows(q, pg, k, u)
  PROVE  Follows(q2, pg, k, u)
<1>1. ASSUME NEW i \in Ticks(q2), i < k
      PROVE  i \in Ticks(q) /\ q2[i] = q[i]
  BY <1>1 DEF Ticks, Extends
<1>2. \A id \in 1..(u.firstId - 1) : Told(q2, pg, k, u.epoch, id)
  BY ToldMore DEF Follows
<1> QED
  BY <1>1, <1>2 DEF Follows

(* A tick that follows what is under way. *)
LEMMA TickAdded ==
  ASSUME NEW q, \E S : q \in Seq(S), NEW pg, NEW r, Ordered(q, pg, r),
         NEW f, IsUpdate(f), f.era = <<r, f.epoch>>, Follows(q, pg, Len(q) + 1, f)
  PROVE  Ordered(Append(q, f), pg, r)
<1> DEFINE q2 == Append(q, f)
           n == Len(q)
<1>1. /\ n \in Nat /\ DOMAIN q = 1..n /\ DOMAIN q2 = 1..(n + 1)
      /\ q2[n + 1] = f /\ \A i \in 1..n : q2[i] = q[i]
  OBVIOUS
<1> HIDE DEF q2, n
<1>2. Extends(q2, q) /\ DOMAIN q2 \subseteq Nat \ {0}
  BY <1>1 DEF Extends
<1>3. f.t = "tick" /\ f.t # "counts"
  BY DEF IsUpdate
<1>4. Ticks(q2) = Ticks(q) \cup {n + 1} /\ Counts(q2) = Counts(q)
  BY <1>1, <1>3 DEF Ticks, Counts
<1>5. /\ DOMAIN q = Ticks(q) \cup Counts(q)
      /\ \A j \in Ticks(q) : /\ IsUpdate(q[j]) /\ q[j].era = <<r, q[j].epoch>>
                             /\ Follows(q, pg, j, q[j])
      /\ \A j \in Counts(q) : CountsFollow(q, pg, j)
      /\ Blank(pg) \/ pg.era = <<r, pg.epoch>>
  BY DEF Ordered
<1>6. ASSUME NEW j \in Ticks(q2)
      PROVE  /\ IsUpdate(q2[j]) /\ q2[j].era = <<r, q2[j].epoch>>
             /\ Follows(q2, pg, j, q2[j])
  <2>1. CASE j \in Ticks(q)
    <3>1. j \in 1..(n + 1) /\ q2[j] = q[j]
      BY <1>1, <2>1 DEF Ticks
    <3>2. Follows(q2, pg, j, q[j])
      BY <1>1, <1>2, <1>5, <2>1, <3>1, StillFollows
    <3> QED
      BY <1>5, <2>1, <3>1, <3>2
  <2>2. CASE j = n + 1
    <3>1. Follows(q2, pg, n + 1, f)
      BY <1>1, <1>2, StillFollows DEF n
    <3> QED
      BY <1>1, <2>2, <3>1
  <2> QED
    BY <1>4, <2>1, <2>2
<1>7. ASSUME NEW j \in Counts(q2)
      PROVE  CountsFollow(q2, pg, j)
  <2>1. j \in Counts(q) /\ j \in 1..n /\ CountsFollow(q, pg, j) /\ q2[j] = q[j]
    BY <1>1, <1>4, <1>5 DEF Counts
  <2>2. j > 1 => q2[j - 1] = q[j - 1] /\ j - 1 \in Ticks(q2)
    BY <1>1, <1>4, <2>1 DEF CountsFollow
  <2> QED
    BY <2>1, <2>2 DEF CountsFollow
<1>8. DOMAIN q2 = Ticks(q2) \cup Counts(q2)
  <2>1. 1..(n + 1) = 1..n \cup {n + 1}
    BY <1>1
  <2> QED
    BY <1>1, <1>4, <1>5, <2>1
<1> QED
  BY <1>5, <1>6, <1>7, <1>8 DEF Ordered, q2

(* Its counts. *)
LEMMA CountsAdded ==
  ASSUME NEW q, \E S : q \in Seq(S), NEW pg, NEW r, Ordered(q, pg, r),
         Len(q) \in Ticks(q), NEW g, g.t = "counts", Numbers(g.counts),
         DOMAIN g.counts \subseteq 1..EndOf(q[Len(q)])
  PROVE  Ordered(Append(q, g), pg, r)
<1> DEFINE q2 == Append(q, g)
           n == Len(q)
<1>1. /\ n \in Nat /\ DOMAIN q = 1..n /\ DOMAIN q2 = 1..(n + 1)
      /\ q2[n + 1] = g /\ \A i \in 1..n : q2[i] = q[i]
  OBVIOUS
<1>2. n \in Ticks(q) /\ DOMAIN g.counts \subseteq 1..EndOf(q[n])
  OBVIOUS
<1> HIDE DEF q2, n
<1>3. n > 0
  BY <1>1, <1>2 DEF Ticks
<1>4. Extends(q2, q) /\ DOMAIN q2 \subseteq Nat \ {0}
  BY <1>1 DEF Extends
<1>5. Ticks(q2) = Ticks(q) /\ Counts(q2) = Counts(q) \cup {n + 1}
  BY <1>1 DEF Ticks, Counts
<1>6. /\ DOMAIN q = Ticks(q) \cup Counts(q)
      /\ \A j \in Ticks(q) : /\ IsUpdate(q[j]) /\ q[j].era = <<r, q[j].epoch>>
                             /\ Follows(q, pg, j, q[j])
      /\ \A j \in Counts(q) : CountsFollow(q, pg, j)
      /\ Blank(pg) \/ pg.era = <<r, pg.epoch>>
  BY DEF Ordered
<1>7. ASSUME NEW j \in Ticks(q2)
      PROVE  /\ IsUpdate(q2[j]) /\ q2[j].era = <<r, q2[j].epoch>>
             /\ Follows(q2, pg, j, q2[j])
  <2>1. j \in Ticks(q) /\ j \in 1..(n + 1) /\ q2[j] = q[j]
    BY <1>1, <1>5 DEF Ticks
  <2>2. Follows(q2, pg, j, q[j])
    BY <1>1, <1>4, <1>6, <2>1, StillFollows
  <2> QED
    BY <1>6, <2>1, <2>2
<1>8. ASSUME NEW j \in Counts(q2)
      PROVE  CountsFollow(q2, pg, j)
  <2>1. CASE j \in Counts(q)
    <3>1. j \in 1..n /\ CountsFollow(q, pg, j) /\ q2[j] = q[j]
      BY <1>1, <1>6, <2>1 DEF Counts
    <3>2. j > 1 => q2[j - 1] = q[j - 1] /\ j - 1 \in Ticks(q2)
      BY <1>1, <1>5, <3>1 DEF CountsFollow
    <3> QED
      BY <3>1, <3>2 DEF CountsFollow
  <2>2. CASE j = n + 1
    <3>1. q2[j] = g /\ q2[j - 1] = q[n] /\ j - 1 = n /\ j - 1 \in Ticks(q2) /\ j # 1
      BY <1>1, <1>2, <1>3, <1>5, <2>2
    <3> QED
      BY <1>2, <3>1 DEF CountsFollow
  <2> QED
    BY <1>5, <2>1, <2>2
<1>9. DOMAIN q2 = Ticks(q2) \cup Counts(q2)
  <2>1. DOMAIN q2 = DOMAIN q \cup {n + 1}
    BY <1>1
  <2> QED
    BY <1>5, <1>6, <2>1, Zenon
<1> QED
  BY <1>6, <1>7, <1>8, <1>9 DEF Ordered, q2

(* A frame at the end says what the store has, if it is about its present table. *)
LEMMA TickAgrees ==
  ASSUME NEW q, \E S : q \in Seq(S), NEW pg, NEW r, Ordered(q, pg, r), Agrees(q, pg, r),
         NEW f, IsUpdate(f), f.epoch <= epoch, f.epoch = epoch => NamesAgree(f)
  PROVE  Agrees(Append(q, f), pg, r)
<1> DEFINE q2 == Append(q, f)
           n == Len(q)
<1>1. /\ n \in Nat /\ DOMAIN q = 1..n /\ DOMAIN q2 = 1..(n + 1)
      /\ q2[n + 1] = f /\ \A i \in 1..n : q2[i] = q[i]
  OBVIOUS
<1> HIDE DEF q2, n
<1>2. f.t = "tick" /\ f.t # "counts"
  BY DEF IsUpdate
<1>3. Ticks(q2) = Ticks(q) \cup {n + 1} /\ Counts(q2) = Counts(q)
  BY <1>1, <1>2 DEF Ticks, Counts
<1>4. ASSUME r = restarts, NEW j \in Ticks(q2)
      PROVE  /\ q2[j].epoch <= epoch
             /\ q2[j].epoch = epoch => NamesAgree(q2[j])
  <2>1. CASE j \in Ticks(q)
    <3>1. q2[j] = q[j]
      BY <1>1, <2>1 DEF Ticks
    <3> QED
      BY <1>4, <2>1, <3>1 DEF Agrees
  <2>2. CASE j = n + 1
    BY <1>1, <2>2
  <2> QED
    BY <1>3, <2>1, <2>2
<1>5. ASSUME r = restarts, NEW j \in Counts(q2)
      PROVE  /\ j > 1 /\ q2[j - 1].epoch = epoch => CountsAgree(q2[j].counts)
             /\ j = 1 /\ pg.epoch = epoch => CountsAgree(q2[j].counts)
  <2>1. j \in Counts(q) /\ j \in 1..n /\ q2[j] = q[j]
    BY <1>1, <1>3 DEF Counts
  <2>2. j > 1 => q2[j - 1] = q[j - 1]
    BY <1>1, <2>1
  <2> QED
    BY <1>5, <2>1, <2>2 DEF Agrees
<1> QED
  BY <1>4, <1>5 DEF Agrees, q2

LEMMA CountsFrameAgrees ==
  ASSUME NEW q, \E S : q \in Seq(S), NEW pg, NEW r, Ordered(q, pg, r), Agrees(q, pg, r),
         Len(q) \in Ticks(q), NEW g, g.t = "counts",
         q[Len(q)].epoch = epoch => CountsAgree(g.counts)
  PROVE  Agrees(Append(q, g), pg, r)
<1> DEFINE q2 == Append(q, g)
           n == Len(q)
<1>1. /\ n \in Nat /\ DOMAIN q = 1..n /\ DOMAIN q2 = 1..(n + 1)
      /\ q2[n + 1] = g /\ \A i \in 1..n : q2[i] = q[i]
  OBVIOUS
<1>2. n \in Ticks(q) /\ (q[n].epoch = epoch => CountsAgree(g.counts))
  OBVIOUS
<1> HIDE DEF q2, n
<1>3. n > 0
  BY <1>1, <1>2 DEF Ticks
<1>4. Ticks(q2) = Ticks(q) /\ Counts(q2) = Counts(q) \cup {n + 1}
  BY <1>1 DEF Ticks, Counts
<1>5. ASSUME r = restarts, NEW j \in Ticks(q2)
      PROVE  /\ q2[j].epoch <= epoch
             /\ q2[j].epoch = epoch => NamesAgree(q2[j])
  <2>1. j \in Ticks(q) /\ q2[j] = q[j]
    BY <1>1, <1>4 DEF Ticks
  <2> QED
    BY <1>5, <2>1 DEF Agrees
<1>6. ASSUME r = restarts, NEW j \in Counts(q2)
      PROVE  /\ j > 1 /\ q2[j - 1].epoch = epoch => CountsAgree(q2[j].counts)
             /\ j = 1 /\ pg.epoch = epoch => CountsAgree(q2[j].counts)
  <2>1. CASE j \in Counts(q)
    <3>1. j \in 1..n /\ q2[j] = q[j]
      BY <1>1, <2>1 DEF Counts
    <3>2. j > 1 => q2[j - 1] = q[j - 1]
      BY <1>1, <3>1
    <3> QED
      BY <1>6, <2>1, <3>1, <3>2 DEF Agrees
  <2>2. CASE j = n + 1
    <3>1. q2[j] = g /\ q2[j - 1] = q[n] /\ j # 1
      BY <1>1, <1>3, <2>2
    <3> QED
      BY <1>2, <3>1
  <2> QED
    BY <1>4, <2>1, <2>2
<1> QED
  BY <1>5, <1>6 DEF Agrees, q2

(* Once an update is sent, the next one may follow it. *)
LEMMA ContinuesAfterTick ==
  ASSUME NEW q, \E S : q \in Seq(S), NEW pg, NEW r, Ordered(q, pg, r),
         NEW f, IsUpdate(f), Follows(q, pg, Len(q) + 1, f),
         NEW q2, \E S : q2 \in Seq(S), Extends(q2, Append(q, f)), Ticks(q2) = Ticks(Append(q, f))
  PROVE  /\ \A i \in Ticks(q2) : q2[i].epoch <= f.epoch
         /\ DOMAIN pg.tree # {} => pg.epoch <= f.epoch
         /\ \A id \in 1..EndOf(f) : Told(q2, pg, Len(q2) + 1, f.epoch, id)
<1> DEFINE q1 == Append(q, f)
           n == Len(q)
           m == Len(q2)
<1>1. /\ n \in Nat /\ DOMAIN q = 1..n /\ DOMAIN q1 = 1..(n + 1)
      /\ q1[n + 1] = f /\ \A i \in 1..n : q1[i] = q[i]
  OBVIOUS
<1>2. m \in Nat /\ DOMAIN q2 = 1..m
  OBVIOUS
<1>3. Extends(q2, q1) /\ Ticks(q2) = Ticks(q1) /\ Follows(q, pg, n + 1, f)
  OBVIOUS
<1> HIDE DEF q1, n, m
<1>4. f.t = "tick" /\ f.epoch \in Nat /\ f.firstId \in Nat \ {0} /\ EndOf(f) \in Int
  BY DEF IsUpdate, EndOf
<1>5. Ticks(q2) = Ticks(q) \cup {n + 1} /\ n + 1 <= m /\ q2[n + 1] = f
  <2>1. Ticks(q1) = Ticks(q) \cup {n + 1}
    BY <1>1, <1>4 DEF Ticks
  <2>2. n + 1 \in DOMAIN q2 /\ q2[n + 1] = f
    BY <1>1, <1>3 DEF Extends
  <2> QED
    BY <1>1, <1>2, <1>3, <2>1, <2>2
<1>6. Extends(q2, q)
  BY <1>1, <1>3 DEF Extends
<1>7. ASSUME NEW i \in Ticks(q2)
      PROVE  q2[i].epoch <= f.epoch
  <2>1. CASE i \in Ticks(q)
    <3>1. i \in 1..n /\ q2[i] = q[i]
      BY <1>1, <1>6, <2>1 DEF Ticks, Extends
    <3> QED
      BY <1>1, <1>3, <2>1, <3>1 DEF Follows
  <2>2. CASE i = n + 1
    BY <1>4, <1>5, <2>2
  <2> QED
    BY <1>5, <2>1, <2>2
<1>8. ASSUME NEW id \in 1..EndOf(f)
      PROVE  Told(q2, pg, m + 1, f.epoch, id)
  <2>1. CASE id < f.firstId
    <3>1. id \in 1..(f.firstId - 1)
      BY <1>4, <2>1
    <3>2. Told(q, pg, n + 1, f.epoch, id)
      BY <1>3, <3>1 DEF Follows
    <3>3. DOMAIN q \subseteq Nat /\ n + 1 \in Nat /\ m + 1 \in Nat /\ n + 1 <= m + 1
      BY <1>1, <1>2, <1>5
    <3> QED
      BY <1>6, <3>2, <3>3, ToldMore
  <2>2. CASE ~(id < f.firstId)
    <3>1. id \in f.firstId..EndOf(f)
      BY <1>4, <2>2
    <3>2. n + 1 \in Ticks(q2) /\ n + 1 < m + 1 /\ q2[n + 1] = f
      BY <1>1, <1>2, <1>5
    <3> QED
      BY <3>1, <3>2 DEF Told
  <2> QED
    BY <2>1, <2>2
<1>9. DOMAIN pg.tree # {} => pg.epoch <= f.epoch
  BY <1>3 DEF Follows
<1> QED
  BY <1>7, <1>8, <1>9 DEF m

-----------------------------------------------------------------------------
(* The frames an update is sent as. *)
LEMMA FramesOf ==
  ASSUME NEW u, DOMAIN u = UpdateFields, NEW r, r = restarts, NEW f, f = TickFrame(u)
  PROVE  /\ f.t = u.t /\ f.epoch = u.epoch /\ f.firstId = u.firstId /\ f.names = u.names
         /\ f.reset = u.reset /\ f.era = <<r, u.epoch>>
<1>1. {"t", "epoch", "firstId", "names", "reset", "era"}
        \subseteq DOMAIN [counts |-> <<>>, era |-> <<r, u.epoch>>] \cup DOMAIN u
  BY DEF UpdateFields
<1>2. f = Over([counts |-> <<>>, era |-> <<r, u.epoch>>], u)
  BY DEF TickFrame
<1> QED
  BY <1>1, <1>2 DEF Over

LEMMA FrameIsUpdate ==
  ASSUME NEW u, NEW f, f.t = u.t, f.epoch = u.epoch, f.firstId = u.firstId, f.names = u.names,
         f.reset = u.reset, IsUpdate(u)
  PROVE  /\ IsUpdate(f) /\ EndOf(f) = EndOf(u) /\ (NamesAgree(u) => NamesAgree(f))
         /\ \A q, pg, k : Follows(q, pg, k, u) => Follows(q, pg, k, f)
BY DEF IsUpdate, EndOf, NamesAgree, Follows

LEMMA DeliverStep ==
  ASSUME PInv, NEW c \in Conns, Deliver(c)
  PROVE  PInv'
<1>1. /\ DOMAIN cur = Conns /\ DOMAIN wr = Conns /\ DOMAIN out = Conns /\ DOMAIN gone = Conns
      /\ DOMAIN down = Conns /\ restarts \in Nat /\ StoreInv /\ CursorAt(c) /\ WritingAt(c)
      /\ \E S : down[c] \in Seq(S)
  BY DEF PInv, LinesInv
<1>2. wr[c] = "writing" /\ wr[c] \in Alive /\ wr[c] # "off"
  BY DEF Deliver, Alive
<1>3. PICK q, u : q = down[c] /\ u = out[c]
  OBVIOUS
<1>4. \E S : q \in Seq(S)
  BY <1>1, <1>3
<1>5. /\ IsUpdate(u) /\ DOMAIN u = UpdateFields
      /\ u.epoch = cur[c].epoch /\ EndOf(u) = cur[c].topics
      /\ DOMAIN u.counts \subseteq 1..EndOf(u) /\ Numbers(u.counts)
      /\ u.epoch = epoch => NamesAgree(u) /\ CountsAgree(u.counts)
      /\ u.epoch <= epoch
  BY <1>1, <1>2, <1>3 DEF WritingAt, CursorAt
<1>6. PICK f, g : f = TickFrame(u) /\ g = CountsFrame(u.counts)
  OBVIOUS
<1> DEFINE q1 == Append(q, f)
           q2 == IF u.counts = <<>> THEN q1 ELSE Append(q1, g)
<1>7. /\ f.t = u.t /\ f.epoch = u.epoch /\ f.firstId = u.firstId /\ f.names = u.names
      /\ f.reset = u.reset /\ f.era = <<restarts, f.epoch>>
  BY <1>5, <1>6, FramesOf
<1>8. /\ IsUpdate(f) /\ EndOf(f) = EndOf(u) /\ (NamesAgree(u) => NamesAgree(f))
      /\ \A p, pg, k : Follows(p, pg, k, u) => Follows(p, pg, k, f)
  BY <1>5, <1>7, FrameIsUpdate
<1>9. g.t = "counts" /\ g.t # "tick" /\ g.counts = u.counts
  BY <1>6 DEF CountsFrame
<1>10. /\ Len(q) \in Nat /\ DOMAIN q = 1..Len(q) /\ q \o Frames(u) = q2
       /\ Len(q1) = Len(q) + 1 /\ DOMAIN q1 = 1..(Len(q) + 1) /\ q1[Len(q) + 1] = f
       /\ \E S : q1 \in Seq(S)
  <2>1. PICK S : q \in Seq(S)
    BY <1>4
  <2>2. q \in Seq(S \cup {f, g}) /\ q1 \in Seq(S \cup {f, g})
    BY <2>1
  <2>3. Len(q) \in Nat /\ DOMAIN q = 1..Len(q)
    BY <2>1
  <2>4. q \o Frames(u) = q2
    <3>1. CASE u.counts = <<>>
      <4>1. Frames(u) = <<f>>
        BY <1>6, <3>1 DEF Frames
      <4> QED
        BY <2>2, <3>1, <4>1
    <3>2. CASE u.counts # <<>>
      <4>1. Frames(u) = <<f>> \o <<g>>
        BY <1>6, <3>2 DEF Frames
      <4>2. q \o (<<f>> \o <<g>>) = Append(Append(q, f), g)
        BY <2>2
      <4> QED
        BY <3>2, <4>1, <4>2
    <3> QED
      BY <3>1, <3>2
  <2>5. Len(q1) = Len(q) + 1 /\ DOMAIN q1 = 1..(Len(q) + 1) /\ q1[Len(q) + 1] = f
    BY <2>2
  <2> QED
    BY <2>2, <2>3, <2>4, <2>5
<1> HIDE DEF q1
<1>11. /\ \E S : q2 \in Seq(S)
       /\ Extends(q2, q1) /\ Ticks(q2) = Ticks(q1)
  <2>1. CASE u.counts = <<>>
    BY <1>10, <2>1 DEF Extends
  <2>2. CASE u.counts # <<>>
    <3>1. PICK S : q1 \in Seq(S)
      BY <1>10
    <3>2. q2 = Append(q1, g)
      BY <2>2
    <3>3. /\ q2 \in Seq(S \cup {g}) /\ DOMAIN q2 = DOMAIN q1 \cup {Len(q1) + 1}
          /\ q2[Len(q1) + 1] = g /\ \A i \in DOMAIN q1 : q2[i] = q1[i]
      BY <3>1, <3>2
    <3> HIDE DEF q2
    <3> QED
      BY <1>9, <3>3 DEF Extends, Ticks
  <2> QED
    BY <2>1, <2>2
<1> HIDE DEF q2
<1>12. /\ UNCHANGED <<storeVars, cur, gone, sock, link, b, restarts>>
       /\ DOMAIN wr' = Conns /\ DOMAIN out' = Conns /\ DOMAIN down' = Conns
       /\ wr'[c] \in {"polling", "waiting"}
       /\ down'[c] = IF gone[c] THEN <<>> ELSE q2
       /\ \A d \in Conns \ {c} : wr'[d] = wr[d] /\ out'[d] = out[d] /\ down'[d] = down[d]
  <2>1. /\ down' = [down EXCEPT ![c] = IF gone[c] THEN <<>> ELSE q2]
        /\ wr' = [wr EXCEPT ![c] = IF out[c].more THEN "polling" ELSE "waiting"]
        /\ out' = [out EXCEPT ![c] = NoUpdate]
        /\ UNCHANGED <<storeVars, cur, gone, sock, link, b, restarts>>
    BY <1>3, <1>10 DEF Deliver, Written, clientVars
  <2> QED
    BY <1>1, <2>1
<1>13. /\ wr'[c] # "off" /\ wr'[c] # "writing" /\ wr'[c] \in Alive
       /\ \E S : down'[c] \in Seq(S)
       /\ epoch' = epoch /\ topics' = topics /\ restarts' = restarts /\ cur' = cur
       /\ \A d \in Conns \ {c} : WriterRests(d) /\ down'[d] = down[d]
  <2>1. \E S : down'[c] \in Seq(S)
    <3>1. <<>> \in Seq({})
      OBVIOUS
    <3> QED
      BY <1>11, <1>12, <3>1
  <2> QED
    BY <1>12, <2>1 DEF Alive, WriterRests, storeVars
<1>14. CursorAt(c)'
  BY <1>1, <1>2, <1>12, <1>13 DEF CursorAt
<1>15. WritingAt(c)'
  BY <1>13 DEF WritingAt
<1>16. ASSUME c = sock, link # "closed"
       PROVE  StreamInv'
  <2>1. PICK pg : pg = Receiver
    OBVIOUS
  <2>2. PICK r \in 0..restarts : Ordered(q, pg, r) /\ Agrees(q, pg, r) /\ Continues(c, q, pg, r)
    BY <1>3, <1>16, <2>1 DEF PInv, StreamInv
  <2>3. r = restarts
    BY <1>2, <2>2 DEF Continues
  <2>4. Receiver' = pg /\ sock' = c
    BY <1>12, <1>16, <2>1 DEF Receiver
  <2>5. CASE gone[c]
    <3>1. PICK p : p = <<>>
      OBVIOUS
    <3>2. down'[c] = p /\ Ticks(p) = {} /\ Counts(p) = {} /\ DOMAIN p = {}
      BY <1>12, <2>5, <3>1 DEF Ticks, Counts
    <3>3. Ordered(p, pg, r)
      BY <2>2, <3>2 DEF Ordered
    <3>4. Agrees(p, pg, r)'
      BY <3>2 DEF Agrees
    <3>5. Continues(c, p, pg, r)'
      BY <1>12, <1>13, <2>3, <2>5 DEF Continues
    <3> QED
      BY <1>13, <2>2, <2>4, <3>2, <3>3, <3>4, <3>5 DEF StreamInv
  <2>6. CASE ~gone[c]
    <3>1. Follows(q, pg, Len(q) + 1, f)
      BY <1>2, <1>3, <1>8, <2>2, <2>6 DEF Continues
    <3>2. Ordered(q1, pg, r) /\ Agrees(q1, pg, r)
      <4>1. Ordered(q1, pg, r)
        BY <1>4, <1>7, <1>8, <2>2, <2>3, <3>1, TickAdded DEF q1
      <4>2. Agrees(q1, pg, r)
        BY <1>4, <1>5, <1>7, <1>8, <2>2, TickAgrees DEF q1
      <4> QED
        BY <4>1, <4>2
    <3>3. Len(q1) \in Ticks(q1) /\ q1[Len(q1)] = f
      BY <1>8, <1>10 DEF Ticks, IsUpdate
    <3>4. Ordered(q2, pg, r) /\ Agrees(q2, pg, r)
      <4>1. CASE u.counts = <<>>
        BY <3>2, <4>1 DEF q2
      <4>2. CASE u.counts # <<>>
        <5>1. Ordered(Append(q1, g), pg, r)
          BY <1>5, <1>8, <1>9, <1>10, <3>2, <3>3, CountsAdded
        <5>2. Agrees(Append(q1, g), pg, r)
          BY <1>5, <1>7, <1>9, <1>10, <3>2, <3>3, CountsFrameAgrees
        <5> QED
          BY <4>2, <5>1, <5>2 DEF q2
      <4> QED
        BY <4>1, <4>2
    <3>5. PICK p : p = q2
      OBVIOUS
    <3>6. /\ \A i \in Ticks(p) : p[i].epoch <= f.epoch
          /\ DOMAIN pg.tree # {} => pg.epoch <= f.epoch
          /\ \A id \in 1..EndOf(f) : Told(p, pg, Len(p) + 1, f.epoch, id)
      BY <1>4, <1>8, <1>11, <2>2, <3>1, <3>5, ContinuesAfterTick DEF q1
    <3>7. Continues(c, p, pg, r)'
      BY <1>5, <1>7, <1>8, <1>13, <2>3, <3>6 DEF Continues
    <3>8. Agrees(p, pg, r)'
      BY <1>13, <3>4, <3>5 DEF Agrees, NamesAgree, CountsAgree
    <3>9. down'[sock'] = p
      BY <1>12, <2>4, <2>6, <3>5
    <3> QED
      BY <1>13, <2>2, <2>4, <3>4, <3>5, <3>7, <3>8, <3>9 DEF StreamInv
  <2> QED
    BY <2>5, <2>6
<1> QED
  BY <1>1, <1>2, <1>12, <1>13, <1>14, <1>15, <1>16, OneWriterStep

-----------------------------------------------------------------------------
(***************************************************************************)
(* The page's callbacks.                                                   *)
(***************************************************************************)
LEMMA ResetFields ==
  ASSUME NEW pg, DOMAIN pg = PageFields, NEW p, p = ResetClient(pg)
  PROVE  /\ DOMAIN p = PageFields /\ p.epoch = pg.epoch /\ p.era = pg.era
         /\ p.tree = EmptyMirror /\ p.previews = NoValues /\ p.values = NoValues
         /\ p.from = {} /\ p.selected = NoTopic
         /\ Blank(p)
BY DEF ResetClient, PageFields, Blank, EmptyMirror, NoValues

(* syncCompare drops payloads of topics that are not compared any more. *)
LEMMA SyncFields ==
  ASSUME NEW pg, DOMAIN pg = PageFields, NEW p, p = SyncCompare(pg)
  PROVE  /\ DOMAIN p = PageFields /\ p.epoch = pg.epoch /\ p.era = pg.era
         /\ p.tree = pg.tree /\ p.previews = pg.previews
         /\ p.from = pg.from /\ p.selected = pg.selected
         /\ DOMAIN p.values \subseteq DOMAIN pg.values
         /\ \A id \in DOMAIN p.values : p.values[id] = pg.values[id]
<1>1. CASE pg.epoch = 0
  BY <1>1 DEF SyncCompare
<1>2. CASE pg.epoch # 0
  <2> DEFINE ids == Range(IdsOf(pg.tree, pg.names))
             sent == Streamed(pg)
             kept == Restrict(pg.values, ids \cap DOMAIN pg.values)
  <2>1. p = [pg EXCEPT !.ids = ids, !.values = kept, !.sentCompare = sent]
    BY <1>2 DEF SyncCompare
  <2>2. DOMAIN kept = ids \cap DOMAIN pg.values /\ \A id \in DOMAIN kept : kept[id] = pg.values[id]
    BY DEF Restrict
  <2> HIDE DEF ids, sent, kept
  <2>3. p.values = kept
    BY <2>1 DEF PageFields
  <2>4. /\ DOMAIN p = PageFields /\ p.epoch = pg.epoch /\ p.era = pg.era
        /\ p.tree = pg.tree /\ p.previews = pg.previews
        /\ p.from = pg.from /\ p.selected = pg.selected
    BY <2>1 DEF PageFields
  <2> QED
    BY <2>2, <2>3, <2>4
<1> QED
  BY <1>1, <1>2

(* What is under way depends on the page's tree, epoch and era only. *)
SameReceiver(pg2, pg) ==
  /\ pg2.tree = pg.tree /\ pg2.epoch = pg.epoch /\ pg2.era = pg.era
  /\ Blank(pg) => Blank(pg2)

LEMMA OrderedForSame ==
  ASSUME NEW q, NEW pg, NEW r, Ordered(q, pg, r), NEW pg2, SameReceiver(pg2, pg)
  PROVE  Ordered(q, pg2, r)
BY DEF Ordered, SameReceiver, Follows, Told, CountsFollow

LEMMA AgreesForSame ==
  ASSUME NEW q, NEW pg, NEW r, Agrees(q, pg, r), NEW pg2, SameReceiver(pg2, pg)
  PROVE  Agrees(q, pg2, r)
BY DEF Agrees, SameReceiver

LEMMA ContinuesForSame ==
  ASSUME NEW c, NEW q, NEW pg, NEW r, Continues(c, q, pg, r), NEW pg2, SameReceiver(pg2, pg)
  PROVE  Continues(c, q, pg2, r)
BY DEF Continues, SameReceiver, Follows, Told

\* A callback that leaves the table, the previews and the history's origin alone.
PageRests ==
  /\ DOMAIN b' = PageFields /\ b'.epoch = b.epoch /\ b'.era = b.era
  /\ b'.tree = b.tree /\ b'.previews = b.previews
  /\ DOMAIN b'.values \subseteq DOMAIN b.values
  /\ \A id \in DOMAIN b'.values : b'.values[id] = b.values[id]
  /\ b'.from = {} \/ (b'.from = b.from /\ b'.selected = b.selected)

ServerRests ==
  UNCHANGED <<storeVars, cur, wr, out, gone, sock, link, restarts>>

LEMMA ServerRestsKeeps ==
  ASSUME PInv, ServerRests, UNCHANGED down
  PROVE  StoreInv' /\ CountsInv' /\ LinesInv'
<1>1. StoreInv' /\ CountsInv' /\ restarts' = restarts /\ epoch' = epoch /\ topics' = topics
  BY RestMoves DEF PInv, ServerRests, storeVars
<1>2. ASSUME NEW c \in Conns
      PROVE  CursorAt(c)' /\ WritingAt(c)'
  <2>1. CursorAt(c) /\ WritingAt(c)
    BY DEF PInv, LinesInv
  <2>2. CursorAt(c)'
    BY <1>1, <2>1 DEF CursorAt, ServerRests
  <2>3. WritingAt(c)'
    BY <1>1, <2>1 DEF WritingAt, ServerRests, NamesAgree, CountsAgree
  <2> QED
    BY <2>2, <2>3
<1> QED
  BY <1>1, <1>2 DEF PInv, LinesInv, ServerRests

LEMMA PageRestsStep ==
  ASSUME PInv, ServerRests, UNCHANGED down, PageRests
  PROVE  PInv'
<1>1. /\ StoreInv' /\ CountsInv' /\ LinesInv'
      /\ PageInv /\ StreamInv /\ DOMAIN b = PageFields
      /\ UNCHANGED <<epoch, topics, cur, wr, out, gone, sock, link, down, restarts>>
  BY ServerRestsKeeps DEF PInv, ServerRests, storeVars, PageInv
<1>2. Blank(b) => Blank(b')
  BY DEF Blank, PageRests
<1>3. PageInv'
  <2>1. NothingOfAnotherTable'
    <3>1. /\ \A id \in DOMAIN b'.previews : b'.previews[id].era = b'.era
          /\ \A id \in DOMAIN b'.values : b'.values[id].era = b'.era
      BY <1>1 DEF PageRests, PageInv, NothingOfAnotherTable
    <3>2. b'.from \subseteq {<<b'.era, b'.selected>>}
      BY <1>1 DEF PageRests, PageInv, NothingOfAnotherTable
    <3>3. b'.era = Now' => \A id \in DOMAIN b'.tree :
                              /\ id \in TopicIds' /\ b'.tree[id].name = topics'[id].name
                              /\ b'.tree[id].count <= topics'[id].count
      BY <1>1 DEF PageRests, PageInv, NothingOfAnotherTable, Now, TopicIds
    <3> QED
      BY <3>1, <3>2, <3>3, Zenon DEF NothingOfAnotherTable
  <2>2. b'.epoch = 0 => Blank(b')
    BY <1>1, <1>2 DEF PageRests, PageInv
  <2> QED
    BY <1>1, <2>1, <2>2 DEF PageInv, PageRests
<1>4. StreamInv'
  <2> SUFFICES ASSUME link # "closed"
               PROVE  StreamInv'
    BY <1>1 DEF StreamInv
  <2>1. PICK q, pg, pg2 : q = down[sock] /\ pg = Receiver /\ pg2 = Receiver'
    OBVIOUS
  <2>2. PICK r \in 0..restarts : Ordered(q, pg, r) /\ Agrees(q, pg, r) /\ Continues(sock, q, pg, r)
    BY <1>1, <2>1 DEF StreamInv
  <2>3. SameReceiver(pg2, pg)
    <3>1. CASE link = "open"
      BY <1>1, <1>2, <2>1, <3>1 DEF Receiver, SameReceiver, PageRests
    <3>2. CASE link # "open"
      <4>1. pg = ResetClient(b) /\ pg2 = ResetClient(b')
        BY <1>1, <2>1, <3>2 DEF Receiver
      <4>2. /\ pg.tree = EmptyMirror /\ pg2.tree = EmptyMirror /\ Blank(pg2)
            /\ pg.epoch = b.epoch /\ pg2.epoch = b'.epoch /\ pg.era = b.era /\ pg2.era = b'.era
        BY <1>1, <4>1, ResetFields DEF PageRests
      <4> QED
        BY <4>2 DEF SameReceiver, PageRests
    <3> QED
      BY <3>1, <3>2
  <2>4. Ordered(q, pg2, r) /\ Agrees(q, pg2, r) /\ Continues(sock, q, pg2, r)
    BY <2>2, <2>3, OrderedForSame, AgreesForSame, ContinuesForSame
  <2>5. Agrees(q, pg2, r)'
    BY <1>1, <2>4 DEF Agrees, NamesAgree, CountsAgree
  <2>6. PICK c : c = sock
    OBVIOUS
  <2>7. Continues(c, q, pg2, r)'
    BY <1>1, <2>4, <2>6 DEF Continues
  <2> QED
    BY <1>1, <2>1, <2>2, <2>4, <2>5, <2>6, <2>7 DEF StreamInv
<1> QED
  BY <1>1, <1>3, <1>4 DEF PInv

LEMMA RenderStep ==
  ASSUME PInv, Render
  PROVE  PInv'
<1>1. DOMAIN b = PageFields
  BY DEF PInv, PageInv
<1>2. ServerRests /\ UNCHANGED down
  BY DEF Render, ServerUnchanged, clientVars, ServerRests
<1>3. \E rows, key : b' = [b EXCEPT !.rows = rows, !.queued = FALSE, !.watchKey = key]
  BY DEF Render
<1>4. PageRests
  BY <1>1, <1>3 DEF PageRests, PageFields
<1> QED
  BY <1>2, <1>4, PageRestsStep

LEMMA UserStep ==
  ASSUME PInv, User
  PROVE  PInv'
<1>1. DOMAIN b = PageFields
  BY DEF PInv, PageInv
<1>2. PICK kind, page, msgs : Act(kind, page, msgs)
  BY DEF User, Scroll, Select, ToggleCompare, ShowTab
<1>3. ServerRests /\ UNCHANGED down
  BY <1>2 DEF Act, ServerUnchanged, clientVars, ServerRests
<1> SUFFICES PageRests
  BY <1>3, PageRestsStep
<1>4. CASE \E view \in Views : Scroll(view)
  <2>1. \E view : b' = [b EXCEPT !.view = view, !.queued = TRUE]
    BY <1>4 DEF Scroll, Act
  <2> QED
    BY <1>1, <2>1 DEF PageRests, PageFields
<1>5. CASE \E id \in TopicIds \cup Range(b.rows) : Select(id)
  <2>1. \E id, m : b' = [b EXCEPT !.selected = id, !.shown = <<>>, !.from = {},
                                  !.queued = TRUE, !.missed = m]
    BY <1>5 DEF Select, Act
  <2> QED
    BY <1>1, <2>1 DEF PageRests, PageFields
<1>6. CASE \E name \in Names : ToggleCompare(name)
  <2>1. PICK names, pg : pg = [b EXCEPT !.queued = TRUE, !.names = names] /\ b' = SyncCompare(pg)
    BY <1>6 DEF ToggleCompare, Act
  <2>2. /\ DOMAIN pg = PageFields /\ pg.epoch = b.epoch /\ pg.era = b.era /\ pg.tree = b.tree
        /\ pg.previews = b.previews /\ pg.values = b.values /\ pg.from = b.from
        /\ pg.selected = b.selected
    BY <1>1, <2>1 DEF PageFields
  <2>3. PICK p : p = b' /\ p = SyncCompare(pg)
    BY <2>1
  <2>4. /\ DOMAIN p = PageFields /\ p.epoch = pg.epoch /\ p.era = pg.era
        /\ p.tree = pg.tree /\ p.previews = pg.previews
        /\ p.from = pg.from /\ p.selected = pg.selected
        /\ DOMAIN p.values \subseteq DOMAIN pg.values
        /\ \A id \in DOMAIN p.values : p.values[id] = pg.values[id]
    BY <2>2, <2>3, SyncFields
  <2> QED
    BY <2>2, <2>3, <2>4 DEF PageRests
<1>7. CASE \E tab \in {"topic", "compare"} : ShowTab(tab)
  <2>1. PICK tab, pg : pg = [b EXCEPT !.tab = tab, !.queued = TRUE] /\ b' = SyncCompare(pg)
    BY <1>7 DEF ShowTab, Act
  <2>2. /\ DOMAIN pg = PageFields /\ pg.epoch = b.epoch /\ pg.era = b.era /\ pg.tree = b.tree
        /\ pg.previews = b.previews /\ pg.values = b.values /\ pg.from = b.from
        /\ pg.selected = b.selected
    BY <1>1, <2>1 DEF PageFields
  <2>3. PICK p : p = b' /\ p = SyncCompare(pg)
    BY <2>1
  <2>4. /\ DOMAIN p = PageFields /\ p.epoch = pg.epoch /\ p.era = pg.era
        /\ p.tree = pg.tree /\ p.previews = pg.previews
        /\ p.from = pg.from /\ p.selected = pg.selected
        /\ DOMAIN p.values \subseteq DOMAIN pg.values
        /\ \A id \in DOMAIN p.values : p.values[id] = pg.values[id]
    BY <2>2, <2>3, SyncFields
  <2> QED
    BY <2>2, <2>3, <2>4 DEF PageRests
<1> QED
  BY <1>4, <1>5, <1>6, <1>7 DEF User

-----------------------------------------------------------------------------
(* A stream in which nothing is under way. *)
LEMMA EmptyStream ==
  ASSUME NEW pg, Blank(pg), NEW r, NEW q, q = <<>>
  PROVE  Ordered(q, pg, r) /\ Agrees(q, pg, r) /\ Agrees(q, pg, r)'
<1>1. Ticks(q) = {} /\ Counts(q) = {} /\ DOMAIN q = {}
  BY DEF Ticks, Counts
<1> QED
  BY <1>1 DEF Ordered, Agrees

LEMMA ReceiverOfOpening ==
  ASSUME PInv, link = "connecting"
  PROVE  /\ Receiver = ResetClient(b) /\ Blank(Receiver) /\ sock \in Conns
<1>1. DOMAIN b = PageFields /\ sock \in Conns
  BY DEF PInv, PageInv, LinesInv
<1>2. Receiver = ResetClient(b)
  BY DEF Receiver
<1> QED
  BY <1>1, <1>2, ResetFields

LEMMA ConnectWSStep ==
  ASSUME PInv, ConnectWS
  PROVE  PInv'
<1>1. /\ sock + 1 \in Conns /\ sock' = sock + 1 /\ link' = "connecting"
      /\ UNCHANGED <<storeVars, epoch, topics, stats, cur, wr, out, gone, down, b, restarts>>
      /\ sock \in Nat /\ restarts \in Nat
  BY DEF ConnectWS, connVars, storeVars, PInv, LinesInv
<1>2. StoreInv' /\ CountsInv' /\ MovesOn
  BY <1>1, RestMoves DEF PInv
<1>3. PageInv'
  BY <1>1, <1>2, PageStillAgrees DEF PInv
<1>4. ASSUME NEW c \in Conns
      PROVE  /\ CursorAt(c)' /\ WritingAt(c)' /\ (c > sock' => wr'[c] = "off")
  <2>1. CursorAt(c) /\ WritingAt(c) /\ (c > sock => wr[c] = "off")
    BY DEF PInv, LinesInv
  <2>2. c \in Nat
    BY SessionAssumption
  <2>3. CursorAt(c)'
    BY <1>1, <2>1 DEF CursorAt
  <2>4. WritingAt(c)'
    BY <1>1, <2>1 DEF WritingAt, NamesAgree, CountsAgree
  <2> QED
    BY <1>1, <2>1, <2>2, <2>3, <2>4
<1>5. LinesInv'
  BY <1>1, <1>4 DEF PInv, LinesInv
<1>6. StreamInv'
  <2>1. PICK c, q, pg : c = sock + 1 /\ q = down'[c] /\ pg = Receiver'
    OBVIOUS
  <2>2. wr[c] = "off" /\ q = <<>> /\ c \in Conns
    <3>1. c \in Conns /\ c > sock
      BY <1>1, <2>1
    <3> QED
      BY <1>1, <2>1, <3>1 DEF PInv, LinesInv, CursorAt
  <2>3. Blank(pg)
    <3>1. DOMAIN b = PageFields /\ pg = ResetClient(b)
      BY <1>1, <2>1 DEF Receiver, PInv, PageInv
    <3> QED
      BY <3>1, ResetFields
  <2>4. Ordered(q, pg, 0) /\ Agrees(q, pg, 0)'
    BY <2>2, <2>3, EmptyStream
  <2>5. Continues(c, q, pg, 0)'
    BY <1>1, <2>2 DEF Continues, Alive
  <2>6. 0 \in 0..restarts'
    BY <1>1
  <2> QED
    BY <1>1, <2>1, <2>4, <2>5, <2>6 DEF StreamInv
<1> QED
  BY <1>2, <1>3, <1>5, <1>6 DEF PInv

LEMMA ServeWSStep ==
  ASSUME PInv, ServeWS
  PROVE  PInv'
<1>1. /\ link = "connecting" /\ link' = link /\ sock' = sock /\ wr[sock] = "off"
      /\ wr' = [wr EXCEPT ![sock] = "polling"]
      /\ UNCHANGED <<storeVars, epoch, topics, stats, cur, out, gone, down, b, restarts>>
      /\ sock \in Nat /\ restarts \in Nat /\ epoch \in Nat \ {0} /\ sock \in Conns
      /\ DOMAIN wr = Conns
  BY DEF ServeWS, Accept, pageVars, clientVars, storeVars, PInv, LinesInv, StoreInv
<1>2. StoreInv' /\ CountsInv' /\ MovesOn
  BY <1>1, RestMoves DEF PInv
<1>3. PageInv'
  BY <1>1, <1>2, PageStillAgrees DEF PInv
<1>4. wr'[sock] = "polling" /\ \A c \in Conns \ {sock} : wr'[c] = wr[c]
  BY <1>1
<1>5. PICK s \in Conns : s = sock
  BY <1>1
<1>6. /\ cur[s].epoch = 0 /\ cur[s].topics = 0 /\ cur[s].seq \in Nat /\ down[s] = <<>>
  BY <1>1, <1>5 DEF PInv, LinesInv, CursorAt
<1>7. ASSUME NEW c \in Conns
      PROVE  /\ CursorAt(c)' /\ WritingAt(c)' /\ (c > sock' => wr'[c] = "off")
  <2>1. CursorAt(c) /\ WritingAt(c) /\ (c > sock => wr[c] = "off") /\ c \in Nat
    BY SessionAssumption DEF PInv, LinesInv
  <2>2. CASE c = s
    <3>1. wr'[c] = "polling" /\ cur'[c].epoch = 0 /\ cur'[c].topics = 0 /\ cur'[c].seq \in Nat
      BY <1>1, <1>4, <1>5, <1>6, <2>2
    <3>2. CursorAt(c)'
      BY <1>1, <3>1 DEF CursorAt
    <3>3. WritingAt(c)'
      BY <3>1 DEF WritingAt
    <3> QED
      BY <1>1, <1>5, <2>1, <2>2, <3>2, <3>3
  <2>3. CASE c # s
    <3>1. wr'[c] = wr[c]
      BY <1>4, <1>5, <2>3
    <3>2. CursorAt(c)'
      BY <1>1, <2>1, <3>1 DEF CursorAt
    <3>3. WritingAt(c)'
      BY <1>1, <2>1, <3>1 DEF WritingAt, NamesAgree, CountsAgree
    <3> QED
      BY <1>1, <2>1, <3>1, <3>2, <3>3
  <2> QED
    BY <2>2, <2>3
<1>8. LinesInv'
  BY <1>1, <1>7 DEF PInv, LinesInv
<1>9. StreamInv'
  <2>1. PICK q, pg : q = down[s] /\ pg = Receiver
    OBVIOUS
  <2>2. Receiver' = pg /\ Blank(pg) /\ q = <<>>
    BY <1>1, <1>6, <2>1, ReceiverOfOpening DEF Receiver
  <2>3. Ordered(q, pg, restarts) /\ Agrees(q, pg, restarts)
    BY <2>2, EmptyStream
  <2>4. Agrees(q, pg, restarts)'
    BY <1>1, <2>3 DEF Agrees, NamesAgree, CountsAgree
  <2>5. Ticks(q) = {} /\ DOMAIN pg.tree = {}
    BY <2>2 DEF Ticks, Blank
  <2>6. Continues(s, q, pg, restarts)'
    BY <1>1, <1>4, <1>5, <1>6, <2>5 DEF Continues
  <2>7. restarts' = restarts /\ restarts \in 0..restarts /\ sock' = s /\ down'[s] = q
    BY <1>1, <1>5, <2>1
  <2> QED
    BY <2>2, <2>3, <2>4, <2>6, <2>7 DEF StreamInv
<1> QED
  BY <1>2, <1>3, <1>8, <1>9 DEF PInv

LEMMA OnCloseStep ==
  ASSUME PInv, OnClose
  PROVE  PInv'
<1>1. /\ link' = "closed" /\ sock' = sock /\ wr[sock] # "off" /\ sock \in Conns
      /\ down' = [down EXCEPT ![sock] = <<>>] /\ DOMAIN down = Conns
      /\ UNCHANGED <<storeVars, epoch, topics, stats, cur, wr, out, gone, b, restarts>>
      /\ sock \in Nat /\ restarts \in Nat
  BY DEF OnClose, connVars, storeVars, PInv, LinesInv
<1>2. StoreInv' /\ CountsInv' /\ MovesOn
  BY <1>1, RestMoves DEF PInv
<1>3. PageInv'
  BY <1>1, <1>2, PageStillAgrees DEF PInv
<1>4. ASSUME NEW c \in Conns
      PROVE  CursorAt(c)' /\ WritingAt(c)' /\ \E S : down'[c] \in Seq(S)
  <2>1. CursorAt(c) /\ WritingAt(c) /\ \E S : down[c] \in Seq(S)
    BY DEF PInv, LinesInv
  <2>2. \/ c = sock /\ down'[c] = <<>> /\ wr[c] # "off"
        \/ down'[c] = down[c]
    BY <1>1
  <2>3. CursorAt(c)'
    BY <1>1, <2>1, <2>2 DEF CursorAt
  <2>4. WritingAt(c)'
    BY <1>1, <2>1 DEF WritingAt, NamesAgree, CountsAgree
  <2>5. <<>> \in Seq({})
    OBVIOUS
  <2> QED
    BY <2>1, <2>2, <2>3, <2>4, <2>5
<1>5. LinesInv'
  BY <1>1, <1>4 DEF PInv, LinesInv
<1>6. StreamInv'
  BY <1>1 DEF StreamInv
<1> QED
  BY <1>2, <1>3, <1>5, <1>6 DEF PInv

(* A page that is reset shows nothing. *)
LEMMA ResetPageInv ==
  ASSUME PageInv, b' = ResetClient(b), UNCHANGED <<epoch, restarts>>
  PROVE  PageInv' /\ Blank(b')
<1>1. /\ DOMAIN b = PageFields /\ b.epoch \in Nat /\ b.era \in Nat \X Nat
      /\ b.era[1] <= restarts /\ (b.era[1] = restarts => b.era[2] <= epoch)
  BY DEF PageInv
<1>2. PICK p : p = b' /\ p = ResetClient(b)
  OBVIOUS
<1>3. /\ DOMAIN p = PageFields /\ p.epoch = b.epoch /\ p.era = b.era /\ Blank(p)
  BY <1>1, <1>2, ResetFields
<1>4. NothingOfAnotherTable'
  <2>1. /\ DOMAIN b'.tree = {} /\ DOMAIN b'.previews = {} /\ DOMAIN b'.values = {}
        /\ b'.from = {}
    BY <1>2, <1>3 DEF Blank
  <2> QED
    BY <2>1 DEF NothingOfAnotherTable
<1>5. DOMAIN b'.tree = {}
  BY <1>2, <1>3 DEF Blank
<1> QED
  BY <1>1, <1>2, <1>3, <1>4, <1>5 DEF PageInv

LEMMA OnOpenStep ==
  ASSUME PInv, OnOpen
  PROVE  PInv'
<1>1. /\ link = "connecting" /\ wr[sock] # "off" /\ link' = "open" /\ b' = ResetClient(b)
      /\ UNCHANGED <<storeVars, epoch, topics, stats, cur, wr, out, gone, sock, down, restarts>>
  BY DEF OnOpen, ServerUnchanged, clientVars, storeVars
<1>2. StoreInv' /\ CountsInv'
  BY <1>1, RestMoves DEF PInv
<1>3. PageInv' /\ sock \in Conns
  BY <1>1, ResetPageInv DEF PInv, LinesInv
<1>4. ASSUME NEW c \in Conns
      PROVE  CursorAt(c)' /\ WritingAt(c)'
  <2>1. CursorAt(c) /\ WritingAt(c)
    BY DEF PInv, LinesInv
  <2>2. CursorAt(c)'
    BY <1>1, <2>1 DEF CursorAt
  <2>3. WritingAt(c)'
    BY <1>1, <2>1 DEF WritingAt, NamesAgree, CountsAgree
  <2> QED
    BY <2>2, <2>3
<1>5. LinesInv'
  BY <1>1, <1>3, <1>4 DEF PInv, LinesInv
<1>6. StreamInv'
  <2>1. PICK q, pg : q = down[sock] /\ pg = Receiver
    OBVIOUS
  <2>2. PICK r \in 0..restarts : Ordered(q, pg, r) /\ Agrees(q, pg, r) /\ Continues(sock, q, pg, r)
    BY <1>1, <2>1 DEF PInv, StreamInv
  <2>3. Receiver' = pg /\ sock' = sock /\ down'[sock] = q
    BY <1>1, <2>1 DEF Receiver
  <2>4. PICK c : c = sock
    OBVIOUS
  <2>5. Agrees(q, pg, r)'
    BY <1>1, <2>2 DEF Agrees, NamesAgree, CountsAgree
  <2>6. Continues(c, q, pg, r)'
    BY <1>1, <2>2, <2>4 DEF Continues
  <2> QED
    BY <1>1, <2>2, <2>3, <2>4, <2>5, <2>6 DEF StreamInv
<1> QED
  BY <1>2, <1>3, <1>5, <1>6 DEF PInv

-----------------------------------------------------------------------------
(***************************************************************************)
(* The page handles the first frame of the stream, and the others move up. *)
(***************************************************************************)
Shifted(p, q) ==
  /\ Len(q) \in Nat \ {0} /\ Len(p) = Len(q) - 1
  /\ DOMAIN q = 1..Len(q) /\ DOMAIN p = 1..Len(p)
  /\ \A j \in 1..Len(p) : p[j] = q[j + 1]

\* The page has taken in frame 1: what a later tick builds on is not lost.
Takes(pg2, pg, q) ==
  /\ 1 \in Ticks(q) => pg2.epoch = q[1].epoch
  /\ 1 \notin Ticks(q) => pg2.epoch = pg.epoch /\ DOMAIN pg2.tree = DOMAIN pg.tree
  /\ \A e \in Nat : (1 \in Ticks(q) => q[1].epoch <= e) =>
       \A id : Told(q, pg, 2, e, id) => pg2.epoch = e /\ id \in DOMAIN pg2.tree

LEMMA TailShifts ==
  ASSUME NEW S, NEW q \in Seq(S), q # <<>>, NEW p, p = Tail(q)
  PROVE  Shifted(p, q) /\ p \in Seq(S) /\ Head(q) = q[1]
<1>1. Len(q) \in Nat \ {0} /\ DOMAIN q = 1..Len(q)
  OBVIOUS
<1>2. p \in Seq(S) /\ Len(p) = Len(q) - 1 /\ DOMAIN p = 1..Len(p) /\ Head(q) = q[1]
  BY <1>1
<1>3. \A j \in 1..Len(p) : p[j] = q[j + 1]
  BY <1>1
<1> QED
  BY <1>1, <1>2, <1>3 DEF Shifted

LEMMA FramesShift ==
  ASSUME NEW p, NEW q, Shifted(p, q)
  PROVE  /\ \A j \in Ticks(p) : j \in Nat \ {0} /\ j + 1 \in Ticks(q) /\ p[j] = q[j + 1]
         /\ \A j \in Counts(p) : j \in Nat \ {0} /\ j + 1 \in Counts(q) /\ p[j] = q[j + 1]
         /\ \A i \in Ticks(q) : i \in Nat \ {0}
         /\ \A i \in Ticks(q) : i # 1 => i - 1 \in Ticks(p) /\ p[i - 1] = q[i]
BY DEF Shifted, Ticks, Counts

LEMMA ToldShift ==
  ASSUME NEW p, NEW q, NEW pg, NEW pg2, Shifted(p, q), Takes(pg2, pg, q),
         NEW e \in Nat, 1 \in Ticks(q) => q[1].epoch <= e,
         NEW k \in Nat \ {0}, NEW id, Told(q, pg, k + 1, e, id)
  PROVE  Told(p, pg2, k, e, id)
<1>1. CASE Told(q, pg, 2, e, id)
  BY <1>1 DEF Takes, Told
<1>2. CASE ~Told(q, pg, 2, e, id)
  <2>1. PICK i \in Ticks(q) : i < k + 1 /\ q[i].epoch = e /\ id \in q[i].firstId..EndOf(q[i])
    BY <1>2 DEF Told
  <2>2. i \in Nat \ {0} /\ ~(i < 2)
    BY <1>2, <2>1, FramesShift DEF Told
  <2>3. i - 1 \in Ticks(p) /\ p[i - 1] = q[i] /\ i - 1 < k
    BY <2>1, <2>2, FramesShift
  <2> QED
    BY <2>1, <2>3 DEF Told
<1> QED
  BY <1>1, <1>2

LEMMA FollowsShift ==
  ASSUME NEW p, NEW q, NEW pg, NEW pg2, Shifted(p, q), Takes(pg2, pg, q),
         NEW k \in Nat \ {0}, NEW u, u.epoch \in Nat, Follows(q, pg, k + 1, u)
  PROVE  Follows(p, pg2, k, u)
<1>1. ASSUME NEW i \in Ticks(p), i < k
      PROVE  p[i].epoch <= u.epoch /\ (u.reset => p[i].epoch # u.epoch)
  <2>1. i + 1 \in Ticks(q) /\ p[i] = q[i + 1] /\ i + 1 < k + 1
    BY <1>1, FramesShift
  <2> QED
    BY <2>1 DEF Follows
<1>2. 1 \in Ticks(q) => q[1].epoch <= u.epoch /\ (u.reset => q[1].epoch # u.epoch)
  BY DEF Follows
<1>3. DOMAIN pg2.tree # {} => pg2.epoch <= u.epoch /\ (u.reset => pg2.epoch # u.epoch)
  BY <1>2 DEF Follows, Takes
<1>4. ASSUME NEW id \in 1..(u.firstId - 1)
      PROVE  Told(p, pg2, k, u.epoch, id)
  <2>1. Told(q, pg, k + 1, u.epoch, id)
    BY DEF Follows
  <2> QED
    BY <1>2, <2>1, ToldShift
<1> QED
  BY <1>1, <1>3, <1>4 DEF Follows

(* A tick brings the page all names up to the last one it carries. *)
LEMMA TickTold ==
  ASSUME NEW p, NEW q, NEW pg, NEW pg2, Shifted(p, q), Takes(pg2, pg, q),
         1 \in Ticks(q), IsUpdate(q[1]),
         Follows(q, pg, 1, q[1])
  PROVE  1..EndOf(q[1]) \subseteq DOMAIN pg2.tree
<1>1. PICK u : u = q[1]
  OBVIOUS
<1>2. u.epoch \in Nat /\ u.firstId \in Nat \ {0} /\ Len(u.names) \in Nat
  BY <1>1 DEF IsUpdate
<1>3. EndOf(u) \in Int
  BY <1>2 DEF EndOf
<1>4. ASSUME NEW id \in 1..EndOf(u)
      PROVE  id \in DOMAIN pg2.tree
  <2>1. Told(q, pg, 2, u.epoch, id)
    <3>1. CASE id < u.firstId
      <4>1. Told(q, pg, 1, u.epoch, id)
        BY <1>1, <1>2, <3>1 DEF Follows
      <4>2. \A i \in Ticks(q) : i \in Nat \ {0}
        BY FramesShift
      <4> QED
        BY <4>1, <4>2 DEF Told
    <3>2. CASE id >= u.firstId
      <4>1. id \in u.firstId..EndOf(u)
        BY <1>2, <1>3, <3>2
      <4> QED
        BY <1>1, <4>1 DEF Told
    <3> QED
      BY <1>2, <3>1, <3>2
  <2>2. u.epoch <= u.epoch
    BY <1>2
  <2> QED
    BY <1>1, <1>2, <2>1, <2>2 DEF Takes
<1> QED
  BY <1>1, <1>4

LEMMA OrderedShift ==
  ASSUME NEW p, NEW q, NEW pg, NEW pg2, NEW r, Shifted(p, q), Takes(pg2, pg, q),
         Ordered(q, pg, r), Blank(pg2) \/ pg2.era = <<r, pg2.epoch>>
  PROVE  Ordered(p, pg2, r)
<1>1. DOMAIN p = Ticks(p) \cup Counts(p)
  <2>1. ASSUME NEW j \in DOMAIN p
        PROVE  p[j].t \in {"tick", "counts"}
    <3>1. j + 1 \in DOMAIN q /\ p[j] = q[j + 1]
      BY DEF Shifted
    <3>2. j + 1 \in Ticks(q) \cup Counts(q)
      BY <3>1 DEF Ordered
    <3> QED
      BY <3>1, <3>2 DEF Ticks, Counts
  <2> QED
    BY <2>1 DEF Ticks, Counts
<1>2. ASSUME NEW j \in Ticks(p)
      PROVE  IsUpdate(p[j]) /\ p[j].era = <<r, p[j].epoch>> /\ Follows(p, pg2, j, p[j])
  <2>1. j \in Nat \ {0} /\ j + 1 \in Ticks(q) /\ p[j] = q[j + 1]
    BY FramesShift
  <2>2. IsUpdate(q[j + 1]) /\ q[j + 1].era = <<r, q[j + 1].epoch>> /\ Follows(q, pg, j + 1, q[j + 1])
    BY <2>1 DEF Ordered
  <2>3. q[j + 1].epoch \in Nat
    BY <2>2 DEF IsUpdate
  <2>4. Follows(p, pg2, j, q[j + 1])
    BY <2>1, <2>2, <2>3, FollowsShift
  <2> QED
    BY <2>1, <2>2, <2>4
<1>3. ASSUME NEW j \in Counts(p)
      PROVE  CountsFollow(p, pg2, j)
  <2>1. j \in Nat \ {0} /\ j + 1 \in Counts(q) /\ p[j] = q[j + 1]
    BY FramesShift
  <2>2. CountsFollow(q, pg, j + 1)
    BY <2>1 DEF Ordered
  <2>3. /\ Numbers(p[j].counts) /\ (j + 1) - 1 \in Ticks(q)
        /\ DOMAIN p[j].counts \subseteq 1..EndOf(q[(j + 1) - 1])
    BY <2>1, <2>2 DEF CountsFollow
  <2>4. j \in Ticks(q) /\ DOMAIN p[j].counts \subseteq 1..EndOf(q[j])
    BY <2>1, <2>3
  <2>5. CASE j = 1
    <3>1. IsUpdate(q[1]) /\ Follows(q, pg, 1, q[1])
      BY <2>4, <2>5 DEF Ordered
    <3>2. 1..EndOf(q[1]) \subseteq DOMAIN pg2.tree
      BY <2>4, <2>5, <3>1, TickTold
    <3> QED
      BY <2>3, <2>4, <2>5, <3>2 DEF CountsFollow
  <2>6. CASE j # 1
    <3>1. j - 1 \in Ticks(p) /\ p[j - 1] = q[j]
      BY <2>4, <2>6, FramesShift
    <3> QED
      BY <2>1, <2>3, <2>4, <2>6, <3>1 DEF CountsFollow
  <2> QED
    BY <2>5, <2>6
<1> QED
  BY <1>1, <1>2, <1>3 DEF Ordered

LEMMA AgreesShift ==
  ASSUME NEW p, NEW q, NEW pg, NEW pg2, NEW r, Shifted(p, q), Takes(pg2, pg, q),
         Ordered(q, pg, r), Agrees(q, pg, r)
  PROVE  Agrees(p, pg2, r)
<1> SUFFICES ASSUME r = restarts
             PROVE  Agrees(p, pg2, r)
  BY DEF Agrees
<1>1. ASSUME NEW j \in Ticks(p)
      PROVE  p[j].epoch <= epoch /\ (p[j].epoch = epoch => NamesAgree(p[j]))
  <2>1. j + 1 \in Ticks(q) /\ p[j] = q[j + 1]
    BY FramesShift
  <2> QED
    BY <2>1 DEF Agrees
<1>2. ASSUME NEW j \in Counts(p)
      PROVE  /\ j > 1 /\ p[j - 1].epoch = epoch => CountsAgree(p[j].counts)
             /\ j = 1 /\ pg2.epoch = epoch => CountsAgree(p[j].counts)
  <2>1. j \in Nat \ {0} /\ j + 1 \in Counts(q) /\ p[j] = q[j + 1] /\ j + 1 > 1 /\ (j + 1) - 1 = j
    BY FramesShift
  <2>2. (j + 1) - 1 \in Ticks(q)
    BY <2>1 DEF Ordered, CountsFollow
  <2>3. j \in Ticks(q)
    BY <2>1, <2>2
  <2>4. q[(j + 1) - 1].epoch = epoch => CountsAgree(q[j + 1].counts)
    BY <2>1 DEF Agrees
  <2>5. q[j].epoch = epoch => CountsAgree(p[j].counts)
    BY <2>1, <2>4
  <2>6. j > 1 => p[j - 1] = q[j]
    BY <2>1, <2>3, FramesShift
  <2>7. j = 1 => pg2.epoch = q[j].epoch
    BY <2>3 DEF Takes
  <2> QED
    BY <2>5, <2>6, <2>7
<1> QED
  BY <1>1, <1>2 DEF Agrees

LEMMA ContinuesShift ==
  ASSUME NEW p, NEW q, NEW pg, NEW pg2, NEW r, Shifted(p, q), Takes(pg2, pg, q),
         NEW c, cur[c].epoch \in Nat, wr[c] = "writing" => out[c].epoch \in Nat,
         Continues(c, q, pg, r)
  PROVE  Continues(c, p, pg2, r)
<1>1. Len(q) \in Nat \ {0} /\ Len(p) + 1 = Len(q)
  BY DEF Shifted
<1>2. wr[c] \in Alive => r = restarts
  BY DEF Continues
<1>3. ASSUME ~gone[c], wr[c] \in {"polling", "waiting"}
      PROVE  /\ \A i \in Ticks(p) : p[i].epoch <= cur[c].epoch
             /\ DOMAIN pg2.tree # {} => pg2.epoch <= cur[c].epoch
             /\ \A id \in 1..cur[c].topics : Told(p, pg2, Len(p) + 1, cur[c].epoch, id)
  <2>1. /\ \A i \in Ticks(q) : q[i].epoch <= cur[c].epoch
        /\ DOMAIN pg.tree # {} => pg.epoch <= cur[c].epoch
        /\ \A id \in 1..cur[c].topics : Told(q, pg, Len(q) + 1, cur[c].epoch, id)
    BY <1>3 DEF Continues
  <2>2. \A i \in Ticks(p) : p[i].epoch <= cur[c].epoch
    BY <2>1, FramesShift
  <2>3. DOMAIN pg2.tree # {} => pg2.epoch <= cur[c].epoch
    BY <2>1 DEF Takes
  <2>4. ASSUME NEW id \in 1..cur[c].topics
        PROVE  Told(p, pg2, Len(p) + 1, cur[c].epoch, id)
    <3>1. PICK e : e = cur[c].epoch
      OBVIOUS
    <3>2. e \in Nat /\ (1 \in Ticks(q) => q[1].epoch <= e) /\ Told(q, pg, Len(q) + 1, e, id)
      BY <2>1, <2>4, <3>1
    <3>3. Told(p, pg2, Len(q), e, id)
      BY <1>1, <3>2, ToldShift
    <3> QED
      BY <1>1, <3>1, <3>3
  <2> QED
    BY <2>2, <2>3, <2>4
<1>4. ASSUME ~gone[c], wr[c] = "writing"
      PROVE  Follows(p, pg2, Len(p) + 1, out[c])
  <2>1. PICK u : u = out[c]
    OBVIOUS
  <2>2. Follows(q, pg, Len(q) + 1, u) /\ u.epoch \in Nat
    BY <1>4, <2>1 DEF Continues
  <2>3. Follows(p, pg2, Len(q), u)
    BY <1>1, <2>2, FollowsShift
  <2> QED
    BY <1>1, <2>1, <2>3
<1> QED
  BY <1>2, <1>3, <1>4 DEF Continues

(* A callback that takes one frame off the stream and turns the page into  *)
(* one that has taken it in.                                               *)
LEMMA HandleStep ==
  ASSUME PInv, link = "open", ServerRests, down[sock] # <<>>,
         down' = [down EXCEPT ![sock] = Tail(@)],
         PageInv', Takes(b', b, down[sock]),
         \A r : Ordered(down[sock], b, r) => Blank(b') \/ b'.era = <<r, b'.epoch>>
  PROVE  PInv'
<1>1. /\ UNCHANGED <<epoch, topics, cur, wr, out, gone, sock, link, restarts>>
      /\ StoreInv' /\ CountsInv' /\ sock \in Conns /\ DOMAIN down = Conns
      /\ \E S : down[sock] \in Seq(S)
      /\ CursorAt(sock) /\ WritingAt(sock) /\ wr[sock] # "off"
  BY RestMoves DEF PInv, LinesInv, ServerRests, storeVars
<1>2. PICK q, pg, pg2, p : q = down[sock] /\ pg = b /\ pg2 = b' /\ p = Tail(q)
  OBVIOUS
<1>3. Shifted(p, q) /\ \E S : p \in Seq(S)
  <2>1. PICK S : q \in Seq(S)
    BY <1>1, <1>2
  <2> QED
    BY <1>2, <2>1, TailShifts
<1>4. down'[sock] = p /\ DOMAIN down' = Conns /\ \A c \in Conns \ {sock} : down'[c] = down[c]
  BY <1>1, <1>2
<1>5. ASSUME NEW c \in Conns
      PROVE  CursorAt(c)' /\ WritingAt(c)' /\ \E S : down'[c] \in Seq(S)
  <2>1. CursorAt(c) /\ WritingAt(c) /\ \E S : down[c] \in Seq(S)
    BY DEF PInv, LinesInv
  <2>2. wr'[c] = "off" => down'[c] = down[c]
    BY <1>1, <1>4
  <2>3. CursorAt(c)'
    BY <1>1, <2>1, <2>2 DEF CursorAt
  <2>4. WritingAt(c)'
    BY <1>1, <2>1 DEF WritingAt, NamesAgree, CountsAgree
  <2>5. \E S : down'[c] \in Seq(S)
    BY <1>3, <1>4, <2>1
  <2> QED
    BY <2>3, <2>4, <2>5
<1>6. LinesInv'
  BY <1>1, <1>4, <1>5 DEF PInv, LinesInv
<1>7. StreamInv'
  <2>1. PICK r \in 0..restarts : Ordered(q, pg, r) /\ Agrees(q, pg, r) /\ Continues(sock, q, pg, r)
    BY <1>2 DEF PInv, StreamInv, Receiver
  <2>2. Receiver' = pg2 /\ sock' = sock /\ down'[sock] = p
    BY <1>1, <1>2, <1>4 DEF Receiver
  <2>3. Takes(pg2, pg, q) /\ (Blank(pg2) \/ pg2.era = <<r, pg2.epoch>>)
    BY <1>2, <2>1
  <2>4. Ordered(p, pg2, r)
    BY <1>3, <2>1, <2>3, OrderedShift
  <2>5. Agrees(p, pg2, r)'
    <3>1. Agrees(p, pg2, r)
      BY <1>3, <2>1, <2>3, AgreesShift
    <3> QED
      BY <1>1, <3>1 DEF Agrees, NamesAgree, CountsAgree
  <2>6. PICK c : c = sock
    OBVIOUS
  <2>7. Continues(c, p, pg2, r)'
    <3>1. cur[c].epoch \in Nat /\ (wr[c] = "writing" => out[c].epoch \in Nat)
      BY <1>1, <2>6 DEF CursorAt, WritingAt, IsUpdate
    <3>2. Continues(c, q, pg, r)
      BY <2>1, <2>6
    <3>3. Continues(c, p, pg2, r)
      BY <1>3, <2>3, <3>1, <3>2, ContinuesShift
    <3> QED
      BY <1>1, <3>3 DEF Continues
  <2> QED
    BY <1>1, <2>1, <2>2, <2>4, <2>5, <2>6, <2>7 DEF StreamInv
<1> QED
  BY <1>1, <1>6, <1>7 DEF PInv

-----------------------------------------------------------------------------
(***************************************************************************)
(* Counts.                                                                 *)
(***************************************************************************)
LEMMA CountsApplied ==
  ASSUME NEW mirror, NEW counts, NEW tree, tree = ApplyCounts(mirror, counts),
         \A id \in DOMAIN mirror : DOMAIN mirror[id] = {"name", "count"}
  PROVE  /\ DOMAIN tree = DOMAIN mirror
         /\ \A id \in DOMAIN tree :
              /\ DOMAIN tree[id] = {"name", "count"} /\ tree[id].name = mirror[id].name
              /\ id \in DOMAIN counts => tree[id].count = counts[id]
              /\ id \notin DOMAIN counts => tree[id].count = mirror[id].count
BY DEF ApplyCounts

LEMMA OnCountsStep ==
  ASSUME PInv, OnCounts
  PROVE  PInv'
<1>1. /\ link = "open" /\ down[sock] # <<>> /\ Head(down[sock]).t = "counts"
      /\ down' = [down EXCEPT ![sock] = Tail(@)]
      /\ ServerRests
      /\ b' = [b EXCEPT !.tree = ApplyCounts(@, Head(down[sock]).counts), !.queued = TRUE]
  BY DEF OnCounts, Receives, Handle, ServerUnchanged, clientVars, ServerRests
<1>2. PICK q : q = down[sock]
  OBVIOUS
<1>3. q # <<>> /\ \E S : q \in Seq(S)
  BY <1>1, <1>2 DEF PInv, LinesInv
<1>4. Head(q) = q[1] /\ 1 \in DOMAIN q
  BY <1>3
<1>5. 1 \in Counts(q) /\ 1 \notin Ticks(q)
  BY <1>1, <1>2, <1>4 DEF Counts, Ticks
<1>6. PICK r \in 0..restarts : Ordered(q, b, r) /\ Agrees(q, b, r)
  BY <1>1, <1>2 DEF PInv, StreamInv, Receiver
<1>7. PICK counts : counts = q[1].counts
  OBVIOUS
<1>8. Numbers(counts) /\ DOMAIN counts \subseteq DOMAIN b.tree
  BY <1>5, <1>6, <1>7 DEF Ordered, CountsFollow
<1>9. /\ DOMAIN b = PageFields /\ b.epoch \in Nat /\ (b.epoch = 0 => Blank(b))
      /\ \A id \in DOMAIN b.tree : DOMAIN b.tree[id] = {"name", "count"} /\ b.tree[id].count \in Nat
      /\ b.era \in Nat \X Nat /\ b.era[1] <= restarts
      /\ b.era[1] = restarts => b.era[2] <= epoch
      /\ NothingOfAnotherTable
      /\ UNCHANGED <<epoch, topics, restarts>>
  BY <1>1 DEF PInv, PageInv, ServerRests, storeVars
<1>10. PICK tree : tree = ApplyCounts(b.tree, counts)
  OBVIOUS
<1>11. /\ DOMAIN tree = DOMAIN b.tree
       /\ \A id \in DOMAIN tree :
            /\ DOMAIN tree[id] = {"name", "count"} /\ tree[id].name = b.tree[id].name
            /\ id \in DOMAIN counts => tree[id].count = counts[id]
            /\ id \notin DOMAIN counts => tree[id].count = b.tree[id].count
  <2>1. PICK mirror : mirror = b.tree
    OBVIOUS
  <2>2. \A id \in DOMAIN mirror : DOMAIN mirror[id] = {"name", "count"}
    BY <1>9, <2>1
  <2>3. tree = ApplyCounts(mirror, counts)
    BY <1>10, <2>1
  <2>4. /\ DOMAIN tree = DOMAIN mirror
        /\ \A id \in DOMAIN tree :
             /\ DOMAIN tree[id] = {"name", "count"} /\ tree[id].name = mirror[id].name
             /\ id \in DOMAIN counts => tree[id].count = counts[id]
             /\ id \notin DOMAIN counts => tree[id].count = mirror[id].count
    BY <2>2, <2>3, CountsApplied
  <2> QED
    BY <2>1, <2>4
<1>12. b' = [b EXCEPT !.tree = tree, !.queued = TRUE]
  BY <1>1, <1>2, <1>4, <1>7, <1>10
<1>13. /\ DOMAIN b' = PageFields /\ b'.tree = tree /\ b'.epoch = b.epoch /\ b'.era = b.era
       /\ b'.previews = b.previews /\ b'.values = b.values /\ b'.from = b.from
       /\ b'.selected = b.selected
  BY <1>9, <1>12 DEF PageFields
<1>14. Blank(b) => Blank(b')
  BY <1>11, <1>13 DEF Blank
<1>15. NothingOfAnotherTable'
  <2>1. /\ \A id \in DOMAIN b'.previews : b'.previews[id].era = b'.era
        /\ \A id \in DOMAIN b'.values : b'.values[id].era = b'.era
        /\ b'.from \subseteq {<<b'.era, b'.selected>>}
    BY <1>9, <1>13 DEF NothingOfAnotherTable
  <2>2. ASSUME b'.era = Now', NEW id \in DOMAIN b'.tree
        PROVE  /\ id \in TopicIds' /\ b'.tree[id].name = topics'[id].name
               /\ b'.tree[id].count <= topics'[id].count
    <3>1. b.era = <<restarts, epoch>> /\ b.era = Now
      BY <1>9, <1>13, <2>2 DEF Now
    <3>2. /\ id \in DOMAIN topics /\ b.tree[id].name = topics[id].name
          /\ b.tree[id].count <= topics[id].count
      BY <1>9, <1>11, <1>13, <2>2, <3>1 DEF NothingOfAnotherTable, TopicIds
    <3>3. b.era = <<r, b.epoch>>
      BY <1>6, <1>11, <1>13, <2>2 DEF Ordered, Blank
    <3>4. r = restarts /\ b.epoch = epoch
      BY <3>1, <3>3
    <3>5. CountsAgree(counts)
      BY <1>5, <1>6, <1>7, <3>4 DEF Agrees
    <3>6. tree[id].count <= topics[id].count
      BY <1>11, <1>13, <2>2, <3>2, <3>5 DEF CountsAgree
    <3> QED
      BY <1>9, <1>11, <1>13, <2>2, <3>2, <3>6 DEF TopicIds
  <2> QED
    BY <2>1, <2>2, Zenon DEF NothingOfAnotherTable
<1>16. PageInv'
  BY <1>8, <1>9, <1>11, <1>13, <1>14, <1>15 DEF PageInv, Numbers
<1>17. Takes(b', b, q)
  <2>1. ASSUME NEW e, NEW id, Told(q, b, 2, e, id)
        PROVE  b'.epoch = e /\ id \in DOMAIN b'.tree
    <3>1. ~ \E i \in Ticks(q) : i < 2
      <4>1. \A i \in Ticks(q) : i \in Nat \ {0} /\ i # 1
        BY <1>3, <1>5 DEF Ticks
      <4> QED
        BY <4>1
    <3> QED
      BY <1>11, <1>13, <2>1, <3>1 DEF Told
  <2> QED
    BY <1>5, <1>11, <1>13, <2>1 DEF Takes
<1>18. \A s : Ordered(q, b, s) => Blank(b') \/ b'.era = <<s, b'.epoch>>
  BY <1>13, <1>14 DEF Ordered
<1> QED
  BY <1>1, <1>2, <1>16, <1>17, <1>18, HandleStep

-----------------------------------------------------------------------------
(***************************************************************************)
(* Ticks.  The page starts anew unless the tick goes on with its table.    *)
(***************************************************************************)
GoesOn(pg, t) == ~t.reset /\ t.epoch = pg.epoch

Started(pg, t) == [ForEpoch(pg, t) EXCEPT !.era = t.era]

Named(pg, t) ==
  [pg EXCEPT !.tree = AddTopics(@, t.firstId, t.names),
             !.values = Over(Restrict(Tagged(t.era, t.compared),
                                      DOMAIN t.compared \cap pg.ids), @)]

AfterTick(pg, t) ==
  WithHistory(WithPreviews(SyncCompare(Named(Started(pg, t), t)),
                           Tagged(t.era, t.previews)), t)

OfEra(era, values) == \A id \in DOMAIN values : values[id].era = era

LEMMA StartOfTick ==
  ASSUME NEW pg, DOMAIN pg = PageFields, pg.epoch = 0 => Blank(pg), NEW t,
         NEW s, s = Started(pg, t)
  PROVE  /\ DOMAIN s = PageFields /\ s.epoch = t.epoch /\ s.era = t.era
         /\ \/ /\ GoesOn(pg, t)
               /\ s.tree = pg.tree /\ s.previews = pg.previews /\ s.values = pg.values
               /\ s.from = pg.from /\ s.selected = pg.selected
            \/ ~GoesOn(pg, t) /\ Blank(s)
<1>1. CASE GoesOn(pg, t)
  <2>1. ForEpoch(pg, t) = pg
    BY <1>1 DEF GoesOn, ForEpoch
  <2> QED
    BY <1>1, <2>1 DEF GoesOn, Started, PageFields
<1>2. CASE ~GoesOn(pg, t)
  <2>1. PICK p : p = IF pg.epoch = 0 THEN pg ELSE ResetClient(pg)
    OBVIOUS
  <2>2. DOMAIN p = PageFields /\ Blank(p)
    <3>1. CASE pg.epoch = 0
      BY <2>1, <3>1
    <3>2. CASE pg.epoch # 0
      <4>1. p = ResetClient(pg)
        BY <2>1, <3>2
      <4> QED
        BY <4>1, ResetFields
    <3> QED
      BY <3>1, <3>2
  <2>3. ForEpoch(pg, t) = [p EXCEPT !.epoch = t.epoch]
    BY <1>2, <2>1 DEF GoesOn, ForEpoch
  <2>4. s = [[p EXCEPT !.epoch = t.epoch] EXCEPT !.era = t.era]
    BY <2>3 DEF Started
  <2>5. /\ DOMAIN s = PageFields /\ s.epoch = t.epoch /\ s.era = t.era
        /\ s.tree = p.tree /\ s.previews = p.previews /\ s.values = p.values /\ s.from = p.from
    BY <2>2, <2>4 DEF PageFields
  <2> QED
    BY <1>2, <2>2, <2>5 DEF Blank
<1> QED
  BY <1>1, <1>2

(* What comes with a tick carries its era. *)
LEMMA OverTagged ==
  ASSUME NEW era, NEW new, OfEra(era, new), NEW old, OfEra(era, old)
  PROVE  OfEra(era, Over(new, old))
<1> DEFINE all == Over(new, old)
<1>1. /\ DOMAIN all = DOMAIN new \cup DOMAIN old
      /\ \A id \in DOMAIN new : all[id] = new[id]
      /\ \A id \in DOMAIN old : id \notin DOMAIN new => all[id] = old[id]
  BY DEF Over
<1> QED
  BY <1>1 DEF OfEra

LEMMA WithPreviewsFields ==
  ASSUME NEW pg, DOMAIN pg = PageFields, NEW new, NEW p, p = WithPreviews(pg, new)
  PROVE  /\ DOMAIN p = PageFields /\ p.epoch = pg.epoch /\ p.era = pg.era /\ p.tree = pg.tree
         /\ p.values = pg.values /\ p.from = pg.from /\ p.selected = pg.selected
         /\ p.previews = NoValues \/ p.previews = Over(new, pg.previews)
<1>1. PICK all : all = Over(new, pg.previews)
  OBVIOUS
<1>2. \/ p = [pg EXCEPT !.previews = NoValues, !.watchKey = <<>>]
      \/ p = [pg EXCEPT !.previews = all]
  BY <1>1 DEF WithPreviews
<1>3. p.previews = NoValues \/ p.previews = all
  BY <1>2 DEF PageFields
<1>4. /\ DOMAIN p = PageFields /\ p.epoch = pg.epoch /\ p.era = pg.era /\ p.tree = pg.tree
      /\ p.values = pg.values /\ p.from = pg.from /\ p.selected = pg.selected
  BY <1>2 DEF PageFields
<1> QED
  BY <1>1, <1>3, <1>4

LEMMA WithHistoryFields ==
  ASSUME NEW pg, DOMAIN pg = PageFields, NEW t, pg.from \subseteq {<<t.era, pg.selected>>},
         NEW p, p = WithHistory(pg, t)
  PROVE  /\ DOMAIN p = PageFields /\ p.epoch = pg.epoch /\ p.era = pg.era /\ p.tree = pg.tree
         /\ p.values = pg.values /\ p.previews = pg.previews
         /\ p.from \subseteq {<<t.era, p.selected>>}
<1>1. CASE t.history = <<>> \/ t.selected # pg.selected
  BY <1>1 DEF WithHistory
<1>2. CASE ~(t.history = <<>> \/ t.selected # pg.selected)
  <2>1. PICK shown : shown = AppendHistory(pg.shown, t.history, HistorySize)
    OBVIOUS
  <2>2. p = [pg EXCEPT !.shown = shown, !.from = @ \cup {<<t.era, t.selected>>}]
    BY <1>2, <2>1 DEF WithHistory
  <2>3. /\ DOMAIN p = PageFields /\ p.epoch = pg.epoch /\ p.era = pg.era /\ p.tree = pg.tree
        /\ p.values = pg.values /\ p.previews = pg.previews /\ p.selected = pg.selected
        /\ p.from = pg.from \cup {<<t.era, t.selected>>}
    BY <2>2 DEF PageFields
  <2> QED
    BY <1>2, <2>3
<1> QED
  BY <1>1, <1>2

(* The page after a tick. *)
LEMMA TickFields ==
  ASSUME NEW pg, DOMAIN pg = PageFields, pg.epoch = 0 => Blank(pg), NEW t,
         Blank(pg) \/ t.reset \/ t.epoch # pg.epoch \/
           /\ OfEra(t.era, pg.previews) /\ OfEra(t.era, pg.values)
           /\ pg.from \subseteq {<<t.era, pg.selected>>},
         NEW p, p = AfterTick(pg, t)
  PROVE  /\ DOMAIN p = PageFields /\ p.epoch = t.epoch /\ p.era = t.era
         /\ p.tree = AddTopics(Started(pg, t).tree, t.firstId, t.names)
         /\ OfEra(t.era, p.previews) /\ OfEra(t.era, p.values)
         /\ p.from \subseteq {<<t.era, p.selected>>}
<1>0. PICK start, known : start = Started(pg, t) /\ known = Named(start, t)
  OBVIOUS
<1>1. /\ DOMAIN start = PageFields /\ start.epoch = t.epoch /\ start.era = t.era
      /\ OfEra(t.era, start.previews) /\ OfEra(t.era, start.values)
      /\ start.from \subseteq {<<t.era, start.selected>>}
  <2>1. /\ DOMAIN start = PageFields /\ start.epoch = t.epoch /\ start.era = t.era
        /\ \/ /\ GoesOn(pg, t)
              /\ start.tree = pg.tree /\ start.previews = pg.previews /\ start.values = pg.values
              /\ start.from = pg.from /\ start.selected = pg.selected
           \/ ~GoesOn(pg, t) /\ Blank(start)
    BY <1>0, StartOfTick
  <2>2. CASE Blank(start)
    BY <2>1, <2>2 DEF Blank, OfEra
  <2>3. CASE ~Blank(start)
    BY <2>1, <2>3 DEF Blank, GoesOn
  <2> QED
    BY <2>2, <2>3
<1>2. PICK tree, brought, values :
        /\ tree = AddTopics(start.tree, t.firstId, t.names)
        /\ brought = Restrict(Tagged(t.era, t.compared), DOMAIN t.compared \cap start.ids)
        /\ values = Over(brought, start.values)
  OBVIOUS
<1>3. OfEra(t.era, values)
  <2>1. OfEra(t.era, brought)
    BY <1>2 DEF Restrict, Tagged, OfEra
  <2> QED
    BY <1>1, <1>2, <2>1, OverTagged
<1>4. known = [start EXCEPT !.tree = tree, !.values = values]
  BY <1>0, <1>2 DEF Named
<1>5. /\ DOMAIN known = PageFields /\ known.epoch = t.epoch /\ known.era = t.era
      /\ known.tree = tree /\ known.values = values /\ known.previews = start.previews
      /\ known.from = start.from /\ known.selected = start.selected
  BY <1>1, <1>4 DEF PageFields
<1>6. PICK synced, new, shown :
        /\ synced = SyncCompare(known) /\ new = Tagged(t.era, t.previews)
        /\ shown = WithPreviews(synced, new)
  OBVIOUS
<1>7. /\ DOMAIN synced = PageFields /\ synced.epoch = t.epoch /\ synced.era = t.era
      /\ synced.tree = tree /\ synced.previews = start.previews
      /\ synced.from = start.from /\ synced.selected = start.selected
      /\ OfEra(t.era, synced.values)
  <2>1. /\ DOMAIN synced = PageFields /\ synced.epoch = known.epoch /\ synced.era = known.era
        /\ synced.tree = known.tree /\ synced.previews = known.previews
        /\ synced.from = known.from /\ synced.selected = known.selected
        /\ DOMAIN synced.values \subseteq DOMAIN known.values
        /\ \A id \in DOMAIN synced.values : synced.values[id] = known.values[id]
    <3>1. synced = SyncCompare(known) /\ DOMAIN known = PageFields
      BY <1>5, <1>6
    <3> QED
      BY ONLY <3>1, SyncFields
  <2> QED
    BY <1>3, <1>5, <2>1 DEF OfEra
<1>8. /\ DOMAIN shown = PageFields /\ shown.epoch = t.epoch /\ shown.era = t.era
      /\ shown.tree = tree /\ shown.values = synced.values
      /\ shown.from = start.from /\ shown.selected = start.selected
      /\ OfEra(t.era, shown.previews)
  <2>1. OfEra(t.era, new)
    BY <1>6 DEF Tagged, OfEra
  <2>2. OfEra(t.era, synced.previews)
    BY <1>1, <1>7
  <2>3. /\ DOMAIN shown = PageFields /\ shown.epoch = synced.epoch /\ shown.era = synced.era
        /\ shown.tree = synced.tree /\ shown.values = synced.values
        /\ shown.from = synced.from /\ shown.selected = synced.selected
        /\ OfEra(t.era, shown.previews)
    <3>1. shown = WithPreviews(synced, new) /\ DOMAIN synced = PageFields
      BY <1>6, <1>7
    <3>2. /\ DOMAIN shown = PageFields /\ shown.epoch = synced.epoch /\ shown.era = synced.era
          /\ shown.tree = synced.tree /\ shown.values = synced.values
          /\ shown.from = synced.from /\ shown.selected = synced.selected
          /\ shown.previews = NoValues \/ shown.previews = Over(new, synced.previews)
      BY ONLY <3>1, WithPreviewsFields
    <3>3. OfEra(t.era, Over(new, synced.previews))
      BY <2>1, <2>2, OverTagged
    <3>4. OfEra(t.era, NoValues)
      BY DEF OfEra, NoValues
    <3> QED
      BY <3>2, <3>3, <3>4
  <2> QED
    BY <1>7, <2>3
<1>9. /\ DOMAIN p = PageFields /\ p.epoch = shown.epoch /\ p.era = shown.era
      /\ p.tree = shown.tree /\ p.values = shown.values /\ p.previews = shown.previews
      /\ p.from \subseteq {<<t.era, p.selected>>}
  <2>1. shown.from \subseteq {<<t.era, shown.selected>>} /\ p = WithHistory(shown, t)
    BY <1>0, <1>1, <1>6, <1>8 DEF AfterTick
  <2> QED
    BY <1>8, <2>1, WithHistoryFields
<1> QED
  BY <1>0, <1>2, <1>7, <1>8, <1>9

LEMMA OnTickStep ==
  ASSUME PInv, OnTick
  PROVE  PInv'
<1>1. PICK q, u, pg, start, page :
        /\ q = down[sock] /\ u = Head(q) /\ pg = b
        /\ start = Started(pg, u) /\ page = AfterTick(pg, u)
  OBVIOUS
<1>2. /\ link = "open" /\ q # <<>> /\ u.t = "tick"
      /\ down' = [down EXCEPT ![sock] = Tail(@)] /\ b' = [page EXCEPT !.queued = TRUE]
      /\ ServerRests
  BY <1>1 DEF OnTick, Receives, Handle, ServerUnchanged, clientVars, ServerRests, Started,
              Named, AfterTick
<1>3. \E S : q \in Seq(S)
  BY <1>1, <1>2 DEF PInv, LinesInv
<1>4. u = q[1] /\ 1 \in DOMAIN q /\ \A i \in Ticks(q) : i \in Nat \ {0}
  BY <1>1, <1>2, <1>3 DEF Ticks
<1>5. 1 \in Ticks(q)
  BY <1>2, <1>4 DEF Ticks
<1>6. PICK r \in 0..restarts : Ordered(q, b, r) /\ Agrees(q, b, r)
  BY <1>1, <1>2 DEF PInv, StreamInv, Receiver
<1>7. /\ u.epoch \in Nat \ {0} /\ u.firstId \in Nat \ {0} /\ Len(u.names) \in Nat
      /\ u.era = <<r, u.epoch>> /\ Follows(q, b, 1, u)
      /\ Blank(b) \/ b.era = <<r, b.epoch>>
  BY <1>4, <1>5, <1>6 DEF Ordered, IsUpdate
<1>8. /\ DOMAIN b = PageFields /\ b.epoch \in Nat /\ (b.epoch = 0 => Blank(b))
      /\ \A id \in DOMAIN b.tree : DOMAIN b.tree[id] = {"name", "count"} /\ b.tree[id].count \in Nat
      /\ NothingOfAnotherTable /\ StoreInv
      /\ UNCHANGED <<epoch, topics, restarts>> /\ restarts \in Nat
  BY <1>2 DEF PInv, PageInv, LinesInv, ServerRests, storeVars
<1>9. \/ Blank(b) \/ u.reset \/ u.epoch # b.epoch
      \/ /\ OfEra(u.era, b.previews) /\ OfEra(u.era, b.values)
         /\ b.from \subseteq {<<u.era, b.selected>>}
  BY <1>7, <1>8 DEF NothingOfAnotherTable, OfEra
<1>10. /\ DOMAIN page = PageFields /\ page.epoch = u.epoch /\ page.era = u.era
       /\ page.tree = AddTopics(start.tree, u.firstId, u.names)
       /\ OfEra(u.era, page.previews) /\ OfEra(u.era, page.values)
       /\ page.from \subseteq {<<u.era, page.selected>>}
  <2>1. DOMAIN pg = PageFields /\ (pg.epoch = 0 => Blank(pg)) /\ page = AfterTick(pg, u)
    BY <1>1, <1>8
  <2>2. \/ Blank(pg) \/ u.reset \/ u.epoch # pg.epoch
        \/ /\ OfEra(u.era, pg.previews) /\ OfEra(u.era, pg.values)
           /\ pg.from \subseteq {<<u.era, pg.selected>>}
    BY <1>1, <1>9
  <2>3. /\ DOMAIN page = PageFields /\ page.epoch = u.epoch /\ page.era = u.era
        /\ page.tree = AddTopics(Started(pg, u).tree, u.firstId, u.names)
        /\ OfEra(u.era, page.previews) /\ OfEra(u.era, page.values)
        /\ page.from \subseteq {<<u.era, page.selected>>}
    BY ONLY <2>1, <2>2, TickFields
  <2> QED
    BY <1>1, <2>3
<1>11. /\ DOMAIN b' = PageFields /\ b'.epoch = u.epoch /\ b'.era = u.era /\ b'.tree = page.tree
       /\ OfEra(u.era, b'.previews) /\ OfEra(u.era, b'.values)
       /\ b'.from \subseteq {<<u.era, b'.selected>>}
  BY <1>2, <1>10 DEF PageFields
<1>12. PICK old, tree : old = start.tree /\ tree = b'.tree
  OBVIOUS
<1>13. \/ GoesOn(b, u) /\ old = b.tree
       \/ ~GoesOn(b, u) /\ DOMAIN old = {}
  BY <1>1, <1>8, <1>12, StartOfTick DEF Blank
<1>14. /\ DOMAIN tree = DOMAIN old \cup u.firstId..EndOf(u)
       /\ \A id \in DOMAIN tree :
            /\ id \in DOMAIN old => tree[id] = old[id]
            /\ id \notin DOMAIN old =>
                 /\ DOMAIN tree[id] = {"name", "count"} /\ tree[id].count = 0
                 /\ tree[id].name = u.names[id - u.firstId + 1]
  <2>1. PICK first, names : first = u.firstId /\ names = u.names
    OBVIOUS
  <2>2. tree = AddTopics(old, first, names)
    BY <1>10, <1>11, <1>12, <2>1
  <2>3. /\ DOMAIN tree = DOMAIN old \cup first..(first + Len(names) - 1)
        /\ \A id \in DOMAIN tree :
             /\ id \in DOMAIN old => tree[id] = old[id]
             /\ id \notin DOMAIN old =>
                  /\ DOMAIN tree[id] = {"name", "count"} /\ tree[id].count = 0
                  /\ tree[id].name = names[id - first + 1]
    BY <2>2 DEF AddTopics
  <2> QED
    BY <2>1, <2>3 DEF EndOf
<1>15. \A id \in DOMAIN tree : DOMAIN tree[id] = {"name", "count"} /\ tree[id].count \in Nat
  BY <1>8, <1>13, <1>14
<1>16. u.era \in Nat \X Nat /\ u.era[1] <= restarts /\ (u.era[1] = restarts => u.era[2] <= epoch)
  BY <1>4, <1>5, <1>6, <1>7, <1>8 DEF Agrees
<1>17. ASSUME b'.era = Now', NEW id \in DOMAIN tree
       PROVE  /\ id \in DOMAIN topics /\ tree[id].name = topics[id].name
              /\ tree[id].count <= topics[id].count
  <2>1. r = restarts /\ u.epoch = epoch
    BY <1>7, <1>8, <1>11, <1>17 DEF Now
  <2>2. NamesAgree(u)
    BY <1>4, <1>5, <1>6, <2>1 DEF Agrees
  <2>3. CASE id \in DOMAIN old
    <3>1. id \in DOMAIN b.tree /\ tree[id] = b.tree[id] /\ b.epoch = u.epoch /\ ~Blank(b)
      BY <1>13, <1>14, <2>3 DEF GoesOn, Blank
    <3>2. b.era = <<restarts, epoch>>
      BY <1>7, <2>1, <3>1
    <3>3. b.era = Now
      BY <3>2 DEF Now
    <3> QED
      BY <1>8, <3>1, <3>3 DEF NothingOfAnotherTable, TopicIds
  <2>4. CASE id \notin DOMAIN old
    <3>1. id \in u.firstId..EndOf(u)
      BY <1>14, <2>4
    <3>2. PICK k : k = id - u.firstId + 1
      OBVIOUS
    <3>3. k \in 1..Len(u.names) /\ u.firstId + k - 1 = id
      BY <1>7, <3>1, <3>2 DEF EndOf
    <3>4. id \in DOMAIN topics /\ u.names[k] = topics[id].name
      BY <2>2, <3>3 DEF NamesAgree
    <3>5. tree[id].count = 0 /\ tree[id].name = u.names[k]
      BY <1>14, <2>4, <3>2
    <3>6. topics[id].count \in Nat
      BY <1>8, <3>4, CountsAreNumbers DEF StoreInv
    <3> QED
      BY <3>4, <3>5, <3>6
  <2> QED
    BY <2>3, <2>4
<1>18. NothingOfAnotherTable'
  <2>1. /\ \A id \in DOMAIN b'.previews : b'.previews[id].era = b'.era
        /\ \A id \in DOMAIN b'.values : b'.values[id].era = b'.era
        /\ b'.from \subseteq {<<b'.era, b'.selected>>}
    BY <1>11 DEF OfEra
  <2>2. ASSUME b'.era = Now', NEW id \in DOMAIN b'.tree
        PROVE  /\ id \in TopicIds' /\ b'.tree[id].name = topics'[id].name
               /\ b'.tree[id].count <= topics'[id].count
    BY <1>8, <1>12, <1>17, <2>2 DEF TopicIds
  <2> QED
    BY <2>1, <2>2, Zenon DEF NothingOfAnotherTable
<1>19. PageInv'
  BY <1>7, <1>8, <1>11, <1>12, <1>15, <1>16, <1>18 DEF PageInv
<1>20. Takes(b', b, q)
  <2>1. ASSUME NEW e \in Nat, u.epoch <= e, NEW id, Told(q, b, 2, e, id)
        PROVE  b'.epoch = e /\ id \in DOMAIN b'.tree
    <3>1. CASE b.epoch = e /\ id \in DOMAIN b.tree
      <4>1. b.epoch <= u.epoch /\ (u.reset => b.epoch # u.epoch)
        BY <1>7, <3>1 DEF Follows
      <4>2. b.epoch = u.epoch /\ ~u.reset
        BY <1>7, <1>8, <2>1, <3>1, <4>1
      <4>3. old = b.tree
        BY <1>13, <4>2 DEF GoesOn
      <4> QED
        BY <1>11, <1>12, <1>14, <3>1, <4>2, <4>3
    <3>2. CASE ~(b.epoch = e /\ id \in DOMAIN b.tree)
      <4>1. PICK i \in Ticks(q) : i < 2 /\ q[i].epoch = e /\ id \in q[i].firstId..EndOf(q[i])
        BY <2>1, <3>2 DEF Told
      <4>2. i = 1
        BY <1>4, <4>1
      <4> QED
        BY <1>4, <1>11, <1>12, <1>14, <4>1, <4>2
    <3> QED
      BY <3>1, <3>2
  <2> QED
    BY <1>4, <1>5, <1>11, <2>1 DEF Takes
<1>21. \A s : Ordered(q, b, s) => Blank(b') \/ b'.era = <<s, b'.epoch>>
  <2>1. ASSUME NEW s, Ordered(q, b, s)
        PROVE  b'.era = <<s, b'.epoch>>
    <3>1. u.era = <<s, u.epoch>>
      BY <1>4, <1>5, <2>1 DEF Ordered
    <3> QED
      BY <1>11, <3>1
  <2> QED
    BY <2>1
<1> QED
  BY <1>1, <1>2, <1>19, <1>20, <1>21, HandleStep

-----------------------------------------------------------------------------
(***************************************************************************)
(* The invariant holds always.                                             *)
(***************************************************************************)
LEMMA InitPInv == Init => PInv
<1> SUFFICES ASSUME Init
             PROVE  PInv
  OBVIOUS
<1>1. /\ epoch = 1 /\ seq = 0 /\ byName = [n \in {} |-> NoTopic] /\ topics = <<>>
      /\ stats = [messages |-> 0, dropped |-> 0]
      /\ sock = 0 /\ link = "closed" /\ restarts = 0
  BY DEF Init, StoreInit
<1>2. StoreInv /\ CountsInv
  BY <1>1, StoreAssumption DEF StoreInv, CountsInv
<1>3. ASSUME NEW c \in Conns
      PROVE  /\ wr[c] = "off" /\ down[c] = <<>> /\ CursorAt(c) /\ WritingAt(c)
             /\ \E S : down[c] \in Seq(S)
  <2>1. /\ wr[c] = "off" /\ down[c] = <<>>
        /\ cur[c].epoch = 0 /\ cur[c].topics = 0 /\ cur[c].seq = 0
    BY DEF Init, ConnInit, FreshCursor
  <2>2. <<>> \in Seq({})
    OBVIOUS
  <2> QED
    BY <2>1, <2>2 DEF CursorAt, WritingAt, Alive
<1>4. LinesInv
  BY <1>1, <1>3 DEF LinesInv, Init, ConnInit
<1>5. PageInv
  <2>1. /\ DOMAIN b = PageFields /\ b.epoch = 0 /\ b.tree = EmptyMirror /\ b.from = {}
        /\ b.previews = NoValues /\ b.values = NoValues /\ b.era = <<0, 0>>
    BY DEF Init, FreshPage, PageFields
  <2>2. DOMAIN b.tree = {} /\ DOMAIN b.previews = {} /\ DOMAIN b.values = {}
    BY <2>1 DEF EmptyMirror, NoValues
  <2>3. NothingOfAnotherTable
    BY <2>1, <2>2 DEF NothingOfAnotherTable
  <2> QED
    BY <1>1, <2>1, <2>2, <2>3 DEF PageInv, Blank
<1>6. StreamInv
  BY <1>1 DEF StreamInv
<1> QED
  BY <1>2, <1>4, <1>5, <1>6 DEF PInv

LEMMA StutterPInv ==
  ASSUME PInv, UNCHANGED vars
  PROVE  PInv'
<1>1. DOMAIN b = PageFields
  BY DEF PInv, PageInv
<1>2. ServerRests /\ UNCHANGED <<down, b>>
  BY DEF vars, connVars, clientVars, pageVars, ServerRests
<1>3. PageRests
  BY <1>1, <1>2 DEF PageRests
<1> QED
  BY <1>2, <1>3, PageRestsStep

LEMMA NextPInv ==
  ASSUME PInv, [Next]_vars
  PROVE  PInv'
<1>1. ASSUME NEW name \in Names, Publish(name)
      PROVE  PInv'
  BY <1>1, PublishStep
<1>2. CASE Clear
  BY <1>2, ClearStep
<1>3. CASE Restart
  BY <1>3, RestartStep
<1>4. CASE ConnectWS
  BY <1>4, ConnectWSStep
<1>5. CASE ConnectionLost
  BY <1>5, ConnectionLostStep
<1>6. CASE SocketEvent
  BY <1>6, ServeWSStep, OnOpenStep, OnCloseStep, OnTickStep, OnCountsStep DEF SocketEvent
<1>7. CASE Render
  BY <1>7, RenderStep
<1>8. CASE User
  BY <1>8, UserStep
<1>9. ASSUME NEW c \in Conns, ReaderStep(c)
      PROVE  PInv'
  BY <1>9, ReaderStepStep
<1>10. ASSUME NEW c \in Conns, WriterStep(c)
       PROVE  PInv'
  BY <1>10, DeliverStep, SendUpdateStep, WriterEnds DEF WriterStep
<1>11. ASSUME NEW c \in Conns, FailingWrite(c)
       PROVE  PInv'
  BY <1>11, WriterEnds DEF FailingWrite
<1>12. CASE UNCHANGED vars
  BY <1>12, StutterPInv
<1> QED
  BY <1>1, <1>2, <1>3, <1>4, <1>5, <1>6, <1>7, <1>8, <1>9, <1>10, <1>11, <1>12 DEF Next

(***************************************************************************)
(* The stream to the page stays in order: epochs never fall in it, a tick  *)
(* that resets is of another epoch than all before it, every name a tick   *)
(* builds on has been sent, and all of it comes from one run of the server *)
(* (ws.go:160-220, store.go Poll, app.js:129-172).                         *)
(***************************************************************************)
THEOREM SessionInvariance == Spec => []PInv
<1>1. Init => PInv
  BY InitPInv
<1>2. PInv /\ [Next]_vars => PInv'
  BY NextPInv
<1> QED
  BY <1>1, <1>2, PTL DEF Spec

(***************************************************************************)
(* The page never mixes topic tables: previews, compared values and the    *)
(* shown history are of the table its ids belong to, and while that table  *)
(* is the store's, names and counts are the store's (app.js:43, 129-172),  *)
(* across resets, lost connections and restarts of the server.             *)
(***************************************************************************)
THEOREM PageCorrect == Spec => []NothingOfAnotherTable
<1>1. PInv => NothingOfAnotherTable
  BY DEF PInv, PageInv
<1> QED
  BY <1>1, SessionInvariance, PTL

(***************************************************************************)
(* The page knows every id of a counts frame by the time it handles it     *)
(* (ws.go:197-198).                                                        *)
(***************************************************************************)
THEOREM CountsCorrect == Spec => []CountsFindTheirTopics
<1>1. ASSUME PInv
      PROVE  CountsFindTheirTopics
  <2> SUFFICES ASSUME Receives("counts")
               PROVE  DOMAIN Head(down[sock]).counts \subseteq DOMAIN b.tree
    BY DEF CountsFindTheirTopics
  <2>1. PICK q : q = down[sock]
    OBVIOUS
  <2>2. link = "open" /\ q # <<>> /\ Head(q).t = "counts" /\ \E S : q \in Seq(S)
    BY <1>1, <2>1 DEF Receives, PInv, LinesInv
  <2>3. Head(q) = q[1] /\ 1 \in DOMAIN q
    BY <2>2
  <2>4. 1 \in Counts(q)
    BY <2>2, <2>3 DEF Counts
  <2>5. PICK r \in 0..restarts : Ordered(q, b, r)
    BY <1>1, <2>1, <2>2 DEF PInv, StreamInv, Receiver
  <2>6. DOMAIN q[1].counts \subseteq DOMAIN b.tree
    BY <2>4, <2>5 DEF Ordered, CountsFollow
  <2> QED
    BY <2>1, <2>3, <2>6
<1> QED
  BY <1>1, SessionInvariance, PTL
-----------------------------------------------------------------------------
(***************************************************************************)
(* What the page has told the server.  The messages the server's reader    *)
(* has not handled, and the frames the page has not.                       *)
(***************************************************************************)
Serving ==
  /\ link = "open" /\ ~gone[sock]
  /\ rd[sock] \in {"reading", "handling", "selecting"}
  /\ wr[sock] \in {"polling", "writing", "waiting"}

Pending(c) == (IF rd[c] \in {"handling", "selecting"} THEN <<hand[c]>> ELSE <<>>) \o inbox[c]
Coming(c) == IF wr[c] = "writing" THEN Append(down[c], out[c]) ELSE down[c]

Greatest(S, i) == i \in S /\ \A j \in S : j <= i

\* Frames that make the page start anew, and a page that will not.
ToRenew(q, pg) == \E j \in Ticks(q) : q[j].reset \/ q[j].epoch # pg.epoch
InStep(q, pg, e) == e # 0 /\ pg.epoch = e /\ ~ToRenew(q, pg)

\* The messages of a kind that the server will accept, and the list they make.
Due(p, kind, e) == {i \in DOMAIN p : p[i].t = kind /\ p[i].epoch = e}
WillBe(p, kind, max, e, have, list) ==
  /\ Due(p, kind, e) = {} => have = list
  /\ \A i \in DOMAIN p : Greatest(Due(p, kind, e), i) => Cut(p[i].ids, max) = list

\* A page that has forgotten its watch key does not know what the server watches.
ListAgrees(p, kind, max, q, pg, e, have, list) ==
  /\ \A i \in DOMAIN p : p[i].t = kind => p[i].epoch \in 1..e
  /\ InStep(q, pg, e) => (kind = "watch" /\ list = <<>>) \/ WillBe(p, kind, max, e, have, list)
  /\ ~InStep(q, pg, e) => have = <<>> /\ Due(p, kind, e) = {}

Selects(p) == {i \in DOMAIN p : p[i].t = "select"}

\* Why the server may not have the selection of the page.
Excused(q, pg, e, now) == pg.missed \/ ToRenew(q, pg) \/ e \notin {0, now}

SelectionAgrees(p, q, pg, e, now, have, s) ==
  /\ \A i \in DOMAIN p : Greatest(Selects(p), i) =>
       p[i].id = pg.selected /\ (pg.selected # NoTopic => p[i].epoch = pg.epoch)
  /\ Selects(p) = {} =>
       /\ have = pg.selected \/ (have = NoTopic /\ Excused(q, pg, e, now))
       /\ have # NoTopic => s = now \/ Excused(q, pg, e, now)
  /\ e = 0 /\ pg.selected # NoTopic => pg.missed

Agreement(p, q, pg, e, now, w, s) ==
  /\ ListAgrees(p, "watch", MaxWatchedRows, q, pg, e, w.watch, Cut(pg.watchKey, MaxWatchedRows))
  /\ ListAgrees(p, "compare", MaxCompared, q, pg, e, w.compare, pg.sentCompare)
  /\ SelectionAgrees(p, q, pg, e, now, w.selected, s)

\* The last tick under way is of the cursor's epoch; without one, the page is.
Heard(q, pg, e, state) ==
  /\ \A j \in DOMAIN q : Greatest(Ticks(q), j) => q[j].epoch = e
  /\ e # 0 /\ Ticks(q) = {} => state = "open" /\ pg.epoch = e /\ pg.sentCompare = Streamed(pg)

\* A connection that has heard nothing from the page.
Unheard(c) ==
  /\ want[c].watch = <<>> /\ want[c].compare = <<>> /\ want[c].selected = NoTopic
  /\ inbox[c] = <<>> /\ rd[c] \in {"off", "reading", "done"}

OwnPage(pg) ==
  /\ \E S : pg.names \in Seq(S)
  /\ pg.watchKey # <<>> \/ pg.sentCompare # <<>> => DOMAIN pg.tree # {}
  /\ ~pg.missed /\ pg.selected # NoTopic => pg.selected \in DOMAIN pg.tree
  /\ pg.epoch = 0 => pg.rows = <<>> /\ pg.selected = NoTopic
  /\ ~pg.queued /\ pg.epoch # 0 => pg.watchKey = pg.rows

WantFields == {"watch", "watchAll", "compare", "compareAll", "selected"}

WireInv ==
  /\ DOMAIN rd = Conns /\ DOMAIN hand = Conns /\ DOMAIN want = Conns
  /\ DOMAIN selEpoch = Conns /\ DOMAIN inbox = Conns
  /\ \A c \in Conns : /\ \E S : inbox[c] \in Seq(S)
                      /\ DOMAIN want[c] = WantFields
                      /\ rd[c] = "selecting" => hand[c].t = "select" /\ want[c].selected = NoTopic
                      /\ wr[c] = "off" => Unheard(c)

Listening == link # "closed" /\ ~gone[sock] /\ wr[sock] \in {"polling", "writing", "waiting"}

Talk ==
  /\ link = "connecting" => Unheard(sock)
  /\ Listening => Heard(Coming(sock), b, cur[sock].epoch, link)
  /\ Serving => Agreement(Pending(sock), Coming(sock), b, cur[sock].epoch, epoch,
                          want[sock], selEpoch[sock])

WInv == PInv /\ WireInv /\ OwnPage(b) /\ Talk

-----------------------------------------------------------------------------
(***************************************************************************)
(* Messages join a queue at its end and leave it at its front.             *)
(***************************************************************************)
Joined(p2, p, m) ==
  /\ Len(p) \in Nat /\ DOMAIN p = 1..Len(p)
  /\ DOMAIN p2 = 1..(Len(p) + 1)
  /\ \A i \in 1..Len(p) : p2[i] = p[i]
  /\ p2[Len(p) + 1] = m

LEMMA AppendJoins ==
  ASSUME NEW p, \E S : p \in Seq(S), NEW m, NEW p2, p2 = Append(p, m)
  PROVE  Joined(p2, p, m) /\ \E S : p2 \in Seq(S)
<1>1. PICK S : p \in Seq(S)
  OBVIOUS
<1>2. p \in Seq(S \cup {m}) /\ p2 \in Seq(S \cup {m})
  BY <1>1
<1> QED
  BY <1>1, <1>2 DEF Joined

(* A message of another kind says nothing of the list. *)
LEMMA ListPassesOther ==
  ASSUME NEW p, NEW m, NEW p2, Joined(p2, p, m), NEW kind, m.t # kind,
         NEW max, NEW q, NEW pg, NEW e, NEW have, NEW list,
         ListAgrees(p, kind, max, q, pg, e, have, list)
  PROVE  ListAgrees(p2, kind, max, q, pg, e, have, list)
<1>1. Due(p2, kind, e) = Due(p, kind, e)
  BY DEF Due, Joined
<1>2. \A i \in Due(p, kind, e) : i \in DOMAIN p /\ i \in DOMAIN p2 /\ p2[i] = p[i]
  BY DEF Due, Joined
<1>3. \A i \in DOMAIN p2 : p2[i].t = kind => i \in DOMAIN p /\ p2[i] = p[i]
  BY DEF Joined
<1> QED
  BY <1>1, <1>2, <1>3 DEF ListAgrees, WillBe, Greatest

(* The page tells the list anew, for the epoch it is in. *)
LEMMA ListTold ==
  ASSUME NEW p, NEW m, NEW p2, Joined(p2, p, m), NEW kind, m.t = kind,
         NEW max, NEW q, NEW pg, NEW e, NEW have, NEW old, NEW list,
         ListAgrees(p, kind, max, q, pg, e, have, old),
         m.epoch = pg.epoch, m.epoch \in 1..e, Cut(m.ids, max) = list,
         pg.epoch = e => InStep(q, pg, e)
  PROVE  ListAgrees(p2, kind, max, q, pg, e, have, list)
<1> DEFINE n == Len(p) + 1
<1>1. /\ n \in DOMAIN p2 /\ p2[n] = m /\ n \in Nat
      /\ \A i \in DOMAIN p2 : i \in Nat /\ i <= n /\ (i = n \/ (i \in DOMAIN p /\ p2[i] = p[i]))
  BY DEF Joined
<1> HIDE DEF n
<1>2. \A i \in DOMAIN p2 : p2[i].t = kind => p2[i].epoch \in 1..e
  BY <1>1 DEF ListAgrees
<1>3. CASE InStep(q, pg, e)
  <2>1. n \in Due(p2, kind, e)
    BY <1>1, <1>3 DEF Due, InStep
  <2>2. \A i \in DOMAIN p2 : Greatest(Due(p2, kind, e), i) => i = n
    BY <1>1, <2>1 DEF Greatest
  <2>3. WillBe(p2, kind, max, e, have, list)
    BY <1>1, <2>1, <2>2 DEF WillBe
  <2> QED
    BY <1>2, <1>3, <2>3 DEF ListAgrees
<1>4. CASE ~InStep(q, pg, e)
  <2>1. have = <<>> /\ Due(p, kind, e) = {} /\ m.epoch # e
    BY <1>4 DEF ListAgrees
  <2>2. Due(p2, kind, e) = {}
    BY <1>1, <2>1 DEF Due
  <2> QED
    BY <1>2, <1>4, <2>1, <2>2 DEF ListAgrees
<1> QED
  BY <1>3, <1>4

(* A server that was told nothing agrees with a page that has told nothing. *)
LEMMA ListStarts ==
  ASSUME NEW p, NEW kind, NEW max, NEW q, NEW pg, NEW e, NEW have, NEW old,
         ListAgrees(p, kind, max, q, pg, e, have, old), ~InStep(q, pg, e),
         NEW q2, NEW pg2
  PROVE  ListAgrees(p, kind, max, q2, pg2, e, have, <<>>)
BY DEF ListAgrees, WillBe, Greatest

LEMMA ListKept ==
  ASSUME NEW p, NEW kind, NEW max, NEW q, NEW pg, NEW e, NEW have, NEW list,
         ListAgrees(p, kind, max, q, pg, e, have, list),
         NEW q2, NEW pg2, InStep(q2, pg2, e) <=> InStep(q, pg, e)
  PROVE  ListAgrees(p, kind, max, q2, pg2, e, have, list)
BY DEF ListAgrees

\* A page that forgets its key says less.
LEMMA ListForgotten ==
  ASSUME NEW p, NEW max, NEW q, NEW pg, NEW e, NEW have, NEW list,
         ListAgrees(p, "watch", max, q, pg, e, have, list)
  PROVE  ListAgrees(p, "watch", max, q, pg, e, have, <<>>)
BY DEF ListAgrees

(* The reader takes the first message over, if it is for the cursor's epoch. *)
LEMMA ListHandled ==
  ASSUME NEW p, NEW p2, Shifted(p2, p), NEW kind, NEW max, NEW q, NEW pg, NEW e,
         NEW have, NEW list, ListAgrees(p, kind, max, q, pg, e, have, list),
         NEW have2,
         IF p[1].t = kind /\ p[1].epoch = e THEN have2 = Cut(p[1].ids, max) ELSE have2 = have
  PROVE  ListAgrees(p2, kind, max, q, pg, e, have2, list)
<1>1. /\ \A i \in DOMAIN p2 : i \in Nat /\ i + 1 \in DOMAIN p /\ i + 1 # 1 /\ p2[i] = p[i + 1]
      /\ 1 \in DOMAIN p /\ \A i \in DOMAIN p : i \in Nat /\ (i = 1 \/ i - 1 \in DOMAIN p2)
  BY DEF Shifted
<1>2. \A i \in Due(p2, kind, e) : i \in Nat /\ i + 1 \in Due(p, kind, e)
  BY <1>1 DEF Due
<1>3. \A i \in Due(p, kind, e) : i \in Nat /\ (i = 1 \/ (i - 1) \in Due(p2, kind, e))
  <2> TAKE i \in Due(p, kind, e)
  <2>1. CASE i = 1
    BY <1>1, <2>1 DEF Due
  <2>2. CASE i # 1
    <3>1. i \in Nat /\ i - 1 \in DOMAIN p2 /\ (i - 1) + 1 = i
      BY <1>1, <2>2 DEF Due
    <3>2. p2[i - 1] = p[i]
      BY <1>1, <3>1
    <3> QED
      BY <3>1, <3>2 DEF Due
  <2> QED
    BY <2>1, <2>2
<1>4. \A i \in DOMAIN p2 : p2[i].t = kind => p2[i].epoch \in 1..e
  BY <1>1 DEF ListAgrees
<1>5. CASE ~InStep(q, pg, e)
  <2>1. have = <<>> /\ Due(p, kind, e) = {}
    BY <1>5 DEF ListAgrees
  <2>2. ~(p[1].t = kind /\ p[1].epoch = e)
    BY <1>1, <2>1 DEF Due
  <2>3. Due(p2, kind, e) = {}
    BY <1>2, <2>1
  <2> QED
    BY <1>4, <1>5, <2>1, <2>2, <2>3 DEF ListAgrees
<1>6. CASE InStep(q, pg, e) /\ ~(kind = "watch" /\ list = <<>>)
  <2>1. WillBe(p, kind, max, e, have, list)
    BY <1>6 DEF ListAgrees
  <2>2. \A i \in DOMAIN p2 : Greatest(Due(p2, kind, e), i) => Greatest(Due(p, kind, e), i + 1)
    <3> SUFFICES ASSUME NEW i \in DOMAIN p2, Greatest(Due(p2, kind, e), i),
                        NEW j \in Due(p, kind, e)
                 PROVE  i + 1 \in Due(p, kind, e) /\ j <= i + 1
      BY <1>2 DEF Greatest
    <3>1. i \in Nat /\ i \in Due(p2, kind, e) /\ j \in Nat /\ (j = 1 \/ j - 1 <= i)
      BY <1>1, <1>3 DEF Greatest
    <3> QED
      BY <1>2, <3>1
  <2>3. \A i \in DOMAIN p2 : Greatest(Due(p2, kind, e), i) => Cut(p2[i].ids, max) = list
    BY <1>1, <2>1, <2>2 DEF WillBe
  <2>4. ASSUME Due(p2, kind, e) = {}
        PROVE  have2 = list
    <3>1. \A i \in Due(p, kind, e) : i = 1
      BY <1>3, <2>4
    <3>2. CASE 1 \in Due(p, kind, e)
      <4>1. Greatest(Due(p, kind, e), 1)
        BY <3>1, <3>2 DEF Greatest
      <4> QED
        BY <1>1, <2>1, <3>2, <4>1 DEF WillBe, Due
    <3>3. CASE 1 \notin Due(p, kind, e)
      <4>1. Due(p, kind, e) = {}
        BY <3>1, <3>3
      <4> QED
        BY <1>1, <2>1, <3>3, <4>1 DEF WillBe, Due
    <3> QED
      BY <3>2, <3>3
  <2> QED
    BY <1>4, <1>6, <2>3, <2>4 DEF ListAgrees, WillBe
<1>7. CASE InStep(q, pg, e) /\ kind = "watch" /\ list = <<>>
  BY <1>4, <1>7 DEF ListAgrees
<1> QED
  BY <1>5, <1>6, <1>7

(* The same for the selection. *)
LEMMA SelectionPassesOther ==
  ASSUME NEW p, NEW m, NEW p2, Joined(p2, p, m), m.t # "select",
         NEW q, NEW pg, NEW e, NEW now, NEW have, NEW s,
         SelectionAgrees(p, q, pg, e, now, have, s)
  PROVE  SelectionAgrees(p2, q, pg, e, now, have, s)
<1>1. Selects(p2) = Selects(p)
  BY DEF Selects, Joined
<1>2. \A i \in Selects(p) : i \in DOMAIN p /\ p2[i] = p[i]
  BY DEF Selects, Joined
<1> QED
  BY <1>1, <1>2 DEF SelectionAgrees, Greatest

LEMMA SelectionTold ==
  ASSUME NEW p, NEW m, NEW p2, Joined(p2, p, m), m.t = "select",
         NEW q, NEW pg, NEW e, NEW now, NEW have, NEW s,
         m.id = pg.selected, pg.selected # NoTopic => m.epoch = pg.epoch,
         e = 0 /\ pg.selected # NoTopic => pg.missed
  PROVE  SelectionAgrees(p2, q, pg, e, now, have, s)
<1> DEFINE n == Len(p) + 1
<1>1. /\ n \in DOMAIN p2 /\ p2[n] = m /\ n \in Nat
      /\ \A i \in DOMAIN p2 : i \in Nat /\ i <= n
  BY DEF Joined
<1> HIDE DEF n
<1>2. n \in Selects(p2)
  BY <1>1 DEF Selects
<1>3. \A i \in DOMAIN p2 : Greatest(Selects(p2), i) => i = n
  BY <1>1, <1>2 DEF Greatest
<1> QED
  BY <1>1, <1>2, <1>3 DEF SelectionAgrees

(* What is selected, and why the server may not have it, stay as they were. *)
LEMMA SelectionKept ==
  ASSUME NEW p, NEW q, NEW pg, NEW e, NEW now, NEW have, NEW s,
         SelectionAgrees(p, q, pg, e, now, have, s),
         NEW q2, NEW pg2, NEW e2, NEW now2,
         pg2.selected = pg.selected, pg.selected # NoTopic => pg2.epoch = pg.epoch,
         Excused(q, pg, e, now) => Excused(q2, pg2, e2, now2),
         now2 = now \/ Excused(q2, pg2, e2, now2),
         e2 = 0 /\ pg.selected # NoTopic => pg2.missed
  PROVE  SelectionAgrees(p, q2, pg2, e2, now2, have, s)
BY DEF SelectionAgrees

(* The page gives its selection up: the server will know, or knew nothing. *)
LEMMA SelectionGivenUp ==
  ASSUME NEW p, NEW q, NEW pg, NEW e, NEW now, NEW have, NEW s,
         SelectionAgrees(p, q, pg, e, now, have, s), pg.selected = NoTopic,
         NEW q2, NEW pg2, NEW e2, NEW now2, pg2.selected = NoTopic
  PROVE  SelectionAgrees(p, q2, pg2, e2, now2, have, s)
BY DEF SelectionAgrees

(* The reader has handled the first message. *)
LEMMA SelectionHandled ==
  ASSUME NEW p, NEW p2, Shifted(p2, p), NEW q, NEW pg, NEW e, NEW now, NEW have, NEW s,
         SelectionAgrees(p, q, pg, e, now, have, s),
         NEW have2, NEW s2,
         IF p[1].t = "select"
         THEN p[1].id = pg.selected /\ (pg.selected # NoTopic => p[1].epoch = pg.epoch) =>
                /\ have2 = pg.selected \/ (have2 = NoTopic /\ Excused(q, pg, e, now))
                /\ have2 # NoTopic => s2 = now \/ Excused(q, pg, e, now)
         ELSE have2 = have /\ s2 = s
  PROVE  SelectionAgrees(p2, q, pg, e, now, have2, s2)
<1>1. /\ \A i \in DOMAIN p2 : i \in Nat /\ i + 1 \in DOMAIN p /\ i + 1 # 1 /\ p2[i] = p[i + 1]
      /\ 1 \in DOMAIN p /\ \A i \in DOMAIN p : i \in Nat /\ (i = 1 \/ i - 1 \in DOMAIN p2)
  BY DEF Shifted
<1>2. \A i \in Selects(p2) : i \in Nat /\ i + 1 \in Selects(p)
  BY <1>1 DEF Selects
<1>3. \A i \in Selects(p) : i \in Nat /\ (i = 1 \/ (i - 1) \in Selects(p2))
  <2> TAKE i \in Selects(p)
  <2>1. CASE i = 1
    BY <1>1, <2>1 DEF Selects
  <2>2. CASE i # 1
    <3>1. i \in Nat /\ i - 1 \in DOMAIN p2 /\ (i - 1) + 1 = i
      BY <1>1, <2>2 DEF Selects
    <3>2. p2[i - 1] = p[i]
      BY <1>1, <3>1
    <3> QED
      BY <3>1, <3>2 DEF Selects
  <2> QED
    BY <2>1, <2>2
<1>4. \A i \in DOMAIN p2 : Greatest(Selects(p2), i) => Greatest(Selects(p), i + 1)
  <2> SUFFICES ASSUME NEW i \in DOMAIN p2, Greatest(Selects(p2), i), NEW j \in Selects(p)
               PROVE  i + 1 \in Selects(p) /\ j <= i + 1
    BY <1>2 DEF Greatest
  <2>1. i \in Nat /\ i \in Selects(p2) /\ j \in Nat /\ (j = 1 \/ j - 1 <= i)
    BY <1>1, <1>3 DEF Greatest
  <2> QED
    BY <1>2, <2>1
<1>5. \A i \in DOMAIN p2 : Greatest(Selects(p2), i) =>
        p2[i].id = pg.selected /\ (pg.selected # NoTopic => p2[i].epoch = pg.epoch)
  BY <1>1, <1>4 DEF SelectionAgrees
<1>6. ASSUME Selects(p2) = {}
      PROVE  /\ have2 = pg.selected \/ (have2 = NoTopic /\ Excused(q, pg, e, now))
             /\ have2 # NoTopic => s2 = now \/ Excused(q, pg, e, now)
  <2>1. \A i \in Selects(p) : i = 1
    BY <1>3, <1>6
  <2>2. CASE 1 \in Selects(p)
    <3>1. Greatest(Selects(p), 1) /\ p[1].t = "select"
      BY <2>1, <2>2 DEF Greatest, Selects
    <3> QED
      BY <1>1, <3>1 DEF SelectionAgrees
  <2>3. CASE 1 \notin Selects(p)
    <3>1. Selects(p) = {} /\ p[1].t # "select"
      BY <1>1, <2>1, <2>3 DEF Selects
    <3> QED
      BY <3>1 DEF SelectionAgrees
  <2> QED
    BY <2>2, <2>3
<1> QED
  BY <1>5, <1>6 DEF SelectionAgrees

-----------------------------------------------------------------------------
(***************************************************************************)
(* The frames under way to the page and the cursor they lead to.           *)
(***************************************************************************)
Rises(q, pg, e) ==
  /\ e \in Nat /\ pg.epoch \in Nat
  /\ \E S : q \in Seq(S)
  /\ DOMAIN pg.tree # {} => pg.epoch <= e
  /\ Ticks(q) # {} => \E i \in Ticks(q) : Greatest(Ticks(q), i)
  /\ \A j \in Ticks(q) :
       /\ q[j].epoch \in Nat \ {0} /\ q[j].epoch <= e
       /\ \A i \in Ticks(q) : i < j =>
            q[i].epoch <= q[j].epoch /\ (q[j].reset => q[i].epoch # q[j].epoch)
       /\ DOMAIN pg.tree # {} =>
            pg.epoch <= q[j].epoch /\ (q[j].reset => pg.epoch # q[j].epoch)

LEMMA ComingRises ==
  ASSUME PInv, link = "open", ~gone[sock], wr[sock] \in {"polling", "writing", "waiting"},
         NEW q, q = Coming(sock), NEW pg, pg = b, NEW e, e = cur[sock].epoch
  PROVE  Rises(q, pg, e)
<1>1. PICK d : d = down[sock]
  OBVIOUS
<1>2. /\ sock \in Conns /\ e \in Nat /\ pg.epoch \in Nat /\ (\E S : d \in Seq(S))
      /\ wr[sock] = "writing" => IsUpdate(out[sock]) /\ out[sock].epoch = e
  BY <1>1 DEF PInv, LinesInv, PageInv, CursorAt, WritingAt
<1>3. PICK r \in 0..restarts : Ordered(d, pg, r) /\ Continues(sock, d, pg, r)
  BY <1>1 DEF PInv, StreamInv, Receiver
<1>4. Len(d) \in Nat /\ DOMAIN d = 1..Len(d)
  BY <1>2
<1>5. \A j \in Ticks(d) : j \in 1..Len(d) /\ IsUpdate(d[j]) /\ Follows(d, pg, j, d[j])
  BY <1>3, <1>4 DEF Ordered, Ticks
<1>6. CASE wr[sock] \in {"polling", "waiting"}
  <2>1. q = d
    BY <1>1, <1>6 DEF Coming
  <2>2. /\ \A i \in Ticks(q) : q[i].epoch <= e
        /\ DOMAIN pg.tree # {} => pg.epoch <= e
    BY <1>3, <1>6, <2>1 DEF Continues
  <2>3. ASSUME Ticks(q) # {}
        PROVE  \E i \in Ticks(q) : Greatest(Ticks(q), i)
    <3>1. PICK n : n = Len(q)
      OBVIOUS
    <3>2. n \in Nat /\ n \in DOMAIN q /\ \A i \in Ticks(q) : i \in Nat /\ i <= n
      BY <1>4, <1>5, <2>1, <2>3, <3>1
    <3>3. CASE n \in Ticks(q)
      BY <3>2, <3>3 DEF Greatest
    <3>4. CASE n \notin Ticks(q)
      <4>1. n \in Counts(q)
        BY <1>3, <2>1, <3>2, <3>4 DEF Ordered
      <4>2. n > 1
        BY <1>4, <1>5, <2>1, <2>3, <3>2, <3>4
      <4>3. n - 1 \in Ticks(q)
        BY <1>3, <2>1, <4>1, <4>2 DEF Ordered, CountsFollow
      <4>4. \A i \in Ticks(q) : i <= n - 1
        BY <3>2, <3>4
      <4> QED
        BY <4>3, <4>4 DEF Greatest
    <3> QED
      BY <3>3, <3>4
  <2> QED
    BY <1>2, <1>5, <2>1, <2>2, <2>3 DEF Rises, IsUpdate, Follows
<1>7. CASE wr[sock] = "writing"
  <2>1. PICK u : u = out[sock]
    OBVIOUS
  <2>2. /\ IsUpdate(u) /\ u.epoch = e /\ Follows(d, pg, Len(d) + 1, u)
    BY <1>2, <1>3, <1>7, <2>1 DEF Continues
  <2>3. q = Append(d, u)
    BY <1>1, <1>7, <2>1 DEF Coming
  <2>4. Joined(q, d, u) /\ \E S : q \in Seq(S)
    BY <1>2, <2>3, AppendJoins
  <2> DEFINE n == Len(d) + 1
  <2>5. /\ n \in Nat /\ q[n] = u /\ Ticks(q) = Ticks(d) \cup {n}
        /\ \A i \in Ticks(d) : q[i] = d[i] /\ i \in Nat /\ i < n
    BY <1>4, <2>2, <2>4 DEF Joined, Ticks, IsUpdate
  <2>6. /\ \A i \in Ticks(d) : d[i].epoch <= u.epoch /\ (u.reset => d[i].epoch # u.epoch)
        /\ DOMAIN pg.tree # {} => pg.epoch <= u.epoch /\ (u.reset => pg.epoch # u.epoch)
    BY <2>2, <2>5 DEF Follows
  <2> HIDE DEF n
  <2>7. Greatest(Ticks(q), n)
    BY <2>5 DEF Greatest
  <2>8. ASSUME NEW j \in Ticks(q)
        PROVE  /\ q[j].epoch \in Nat \ {0} /\ q[j].epoch <= e
               /\ \A i \in Ticks(q) : i < j =>
                    q[i].epoch <= q[j].epoch /\ (q[j].reset => q[i].epoch # q[j].epoch)
               /\ DOMAIN pg.tree # {} =>
                    pg.epoch <= q[j].epoch /\ (q[j].reset => pg.epoch # q[j].epoch)
    <3>1. CASE j = n
      <4>1. \A i \in Ticks(q) : i < j => i \in Ticks(d) /\ q[i] = d[i]
        BY <2>5, <3>1
      <4> QED
        BY <1>2, <2>2, <2>5, <2>6, <3>1, <4>1 DEF IsUpdate
    <3>2. CASE j # n
      <4>1. j \in Ticks(d) /\ q[j] = d[j] /\ j < n
        BY <2>5, <3>2
      <4>2. \A i \in Ticks(q) : i < j => i \in Ticks(d) /\ q[i] = d[i]
        BY <2>5, <4>1
      <4>3. d[j].epoch <= e
        BY <2>2, <2>6, <4>1
      <4> QED
        BY <1>5, <4>1, <4>2, <4>3 DEF IsUpdate, Follows
    <3> QED
      BY <3>1, <3>2
  <2> QED
    BY <1>2, <2>2, <2>4, <2>5, <2>6, <2>7, <2>8 DEF Rises
<1> QED
  BY <1>6, <1>7

(* A page that knows topics of the cursor's epoch will not start anew. *)
LEMMA SettledInStep ==
  ASSUME NEW q, NEW pg, NEW e, Rises(q, pg, e), DOMAIN pg.tree # {}, pg.epoch = e, e # 0
  PROVE  InStep(q, pg, e)
BY DEF Rises, InStep, ToRenew

(* A page that will not start anew is of the cursor's epoch. *)
LEMMA StaysInStep ==
  ASSUME NEW q, NEW pg, NEW e, Rises(q, pg, e), NEW state, Heard(q, pg, e, state),
         e # 0, ~ToRenew(q, pg)
  PROVE  InStep(q, pg, e)
<1>1. CASE Ticks(q) = {}
  BY <1>1 DEF Heard, InStep
<1>2. CASE Ticks(q) # {}
  <2>1. PICK i \in Ticks(q) : Greatest(Ticks(q), i)
    BY <1>2 DEF Rises
  <2>2. i \in DOMAIN q /\ q[i].epoch = e
    BY <2>1 DEF Heard, Ticks
  <2>3. q[i].epoch = pg.epoch
    BY DEF ToRenew
  <2> QED
    BY <2>2, <2>3 DEF InStep
<1> QED
  BY <1>1, <1>2

(* After a tick the page is in step exactly if the tick was of the cursor's epoch. *)
LEMMA InStepAfterTick ==
  ASSUME NEW q, NEW pg, NEW e, Rises(q, pg, e), 1 \in Ticks(q),
         NEW q2, Shifted(q2, q), NEW pg2, pg2.epoch = q[1].epoch
  PROVE  InStep(q2, pg2, e) <=> q[1].epoch = e
<1>1. q[1].epoch \in Nat \ {0} /\ q[1].epoch <= e /\ e \in Nat
  BY DEF Rises
<1>2. ASSUME q[1].epoch = e, NEW j \in Ticks(q2)
      PROVE  ~q2[j].reset /\ q2[j].epoch = pg2.epoch
  <2>1. j \in Nat /\ j + 1 \in Ticks(q) /\ q2[j] = q[j + 1] /\ 1 < j + 1
    BY DEF Shifted, Ticks
  <2>2. q[j + 1].epoch \in Nat /\ q[j + 1].epoch <= e /\ q[1].epoch <= q[j + 1].epoch
    BY <2>1 DEF Rises
  <2>3. q[j + 1].reset => q[1].epoch # q[j + 1].epoch
    BY <2>1 DEF Rises
  <2> QED
    BY <1>1, <1>2, <2>1, <2>2, <2>3
<1> QED
  BY <1>1, <1>2 DEF InStep, ToRenew

-----------------------------------------------------------------------------
(***************************************************************************)
(* Steps that leave the page's connection alone.                           *)
(***************************************************************************)
LEMMA TalkElsewhere ==
  ASSUME WInv, UNCHANGED <<sock, link, b, epoch>>,
         link # "closed" =>
           /\ rd'[sock] = rd[sock] /\ hand'[sock] = hand[sock] /\ wr'[sock] = wr[sock]
           /\ out'[sock] = out[sock] /\ inbox'[sock] = inbox[sock] /\ gone'[sock] = gone[sock]
           /\ cur'[sock] = cur[sock] /\ want'[sock] = want[sock] /\ down'[sock] = down[sock]
           /\ selEpoch'[sock] = selEpoch[sock]
  PROVE  OwnPage(b)' /\ Talk'
<1>1. Talk /\ OwnPage(b)
  BY DEF WInv
<1>2. OwnPage(b)'
  BY <1>1 DEF OwnPage
<1>3. CASE link = "closed"
  BY <1>2, <1>3 DEF Talk, Listening, Serving
<1>4. CASE link # "closed"
  <2>1. /\ rd'[sock] = rd[sock] /\ hand'[sock] = hand[sock] /\ wr'[sock] = wr[sock]
        /\ out'[sock] = out[sock] /\ inbox'[sock] = inbox[sock] /\ gone'[sock] = gone[sock]
        /\ cur'[sock] = cur[sock] /\ want'[sock] = want[sock] /\ down'[sock] = down[sock]
        /\ selEpoch'[sock] = selEpoch[sock]
    BY <1>4
  <2>2. Pending(sock)' = Pending(sock) /\ Coming(sock)' = Coming(sock)
    BY <2>1 DEF Pending, Coming
  <2>3. (Listening' <=> Listening) /\ (Serving' <=> Serving) /\ (Unheard(sock) => Unheard(sock)')
    BY <2>1 DEF Listening, Serving, Unheard
  <2> QED
    BY <1>1, <1>2, <2>1, <2>2, <2>3 DEF Talk
<1> QED
  BY <1>3, <1>4

LEMMA StoreStepTalk ==
  ASSUME WInv, UNCHANGED <<connVars, pageVars, epoch>>
  PROVE  WireInv' /\ OwnPage(b)' /\ Talk'
<1>1. UNCHANGED <<cur, want, selEpoch, rd, hand, wr, out, inbox, gone, sock, link, down, b, epoch>>
  BY DEF connVars, pageVars
<1>2. WireInv'
  BY <1>1 DEF WInv, WireInv, Unheard
<1> QED
  BY <1>1, <1>2, TalkElsewhere

(* After a reset of the store the server has nothing of the page any more that *)
(* it would not ask for again.                                                 *)
LEMMA ClearTalk ==
  ASSUME WInv, Clear
  PROVE  WireInv' /\ OwnPage(b)' /\ Talk'
<1>1. /\ UNCHANGED <<cur, want, selEpoch, rd, hand, wr, out, inbox, gone, sock, link, down, b>>
      /\ epoch' = epoch + 1 /\ epoch \in Nat \ {0}
  BY DEF Clear, Reset, connVars, pageVars, WInv, PInv, StoreInv
<1>2. WireInv' /\ OwnPage(b)'
  BY <1>1 DEF WInv, WireInv, Unheard, OwnPage
<1>3. PICK p, q, pg, e, w, s, now, now2 :
        /\ p = Pending(sock) /\ q = Coming(sock) /\ pg = b /\ e = cur[sock].epoch
        /\ w = want[sock] /\ s = selEpoch[sock] /\ now = epoch /\ now2 = epoch'
  OBVIOUS
<1>4. Pending(sock)' = p /\ Coming(sock)' = q
  BY <1>1, <1>3 DEF Pending, Coming
<1>5. ASSUME Serving
      PROVE  Agreement(p, q, pg, e, now2, w, s)
  <2>1. Agreement(p, q, pg, e, now, w, s)
    BY <1>3, <1>5 DEF WInv, Talk
  <2>2. e \in Nat /\ e <= now
    BY <1>3, <1>5 DEF WInv, PInv, LinesInv, CursorAt, Serving, Alive
  <2>3. SelectionAgrees(p, q, pg, e, now2, w.selected, s)
    <3>1. SelectionAgrees(p, q, pg, e, now, w.selected, s)
      BY <2>1 DEF Agreement
    <3>2. e # 0 => e \notin {0, now2}
      BY <1>1, <1>3, <2>2
    <3> QED
      BY <3>1, <3>2 DEF SelectionAgrees, Excused
  <2> QED
    BY <2>1, <2>3 DEF Agreement
<1>6. (Serving' <=> Serving) /\ (Listening' <=> Listening) /\ (Unheard(sock) => Unheard(sock)')
  BY <1>1 DEF Serving, Listening, Unheard
<1>7. Talk'
  <2>1. Listening' => Heard(q, pg, e, link)
    BY <1>3, <1>6 DEF WInv, Talk
  <2>2. link = "connecting" => Unheard(sock)'
    BY <1>6 DEF WInv, Talk
  <2> QED
    BY <1>1, <1>3, <1>4, <1>5, <1>6, <2>1, <2>2 DEF Talk
<1> QED
  BY <1>2, <1>7

LEMMA RestartTalk ==
  ASSUME WInv, Restart
  PROVE  WireInv' /\ OwnPage(b)' /\ Talk'
<1>1. /\ UNCHANGED <<want, selEpoch, cur, sock, link, down, b>>
      /\ rd' = [c \in Conns |-> IF wr[c] # "off" THEN "done" ELSE rd[c]]
      /\ wr' = [c \in Conns |-> IF wr[c] # "off" THEN "closed" ELSE wr[c]]
      /\ DOMAIN hand' = Conns /\ inbox' = [c \in Conns |-> <<>>]
  BY DEF Restart, clientVars
<1>2. ASSUME NEW c \in Conns
      PROVE  /\ \E S : inbox'[c] \in Seq(S)
             /\ rd'[c] # "selecting" /\ (wr'[c] = "off" => Unheard(c)')
             /\ Unheard(c) => Unheard(c)'
             /\ wr'[c] \in {"off", "closed"}
  <2>1. inbox'[c] = <<>> /\ inbox'[c] \in Seq({})
    BY <1>1
  <2>2. wr[c] = "off" => Unheard(c)
    BY DEF WInv, WireInv
  <2> QED
    BY <1>1, <2>1, <2>2 DEF Unheard
<1>3. WireInv'
  BY <1>1, <1>2 DEF WInv, WireInv
<1>4. OwnPage(b)'
  BY <1>1 DEF WInv, OwnPage
<1>5. Talk'
  <2>1. CASE link = "closed"
    BY <1>1, <2>1 DEF Talk, Listening, Serving
  <2>2. CASE link # "closed"
    <3>1. PICK c \in Conns : c = sock
      BY <2>2 DEF WInv, PInv, LinesInv
    <3>2. wr'[sock'] \in {"off", "closed"}
      BY <1>1, <1>2, <3>1
    <3>3. link = "connecting" => Unheard(c)'
      BY <1>2, <3>1 DEF WInv, Talk
    <3> QED
      BY <1>1, <3>1, <3>2, <3>3 DEF Talk, Listening, Serving
  <2> QED
    BY <2>1, <2>2
<1> QED
  BY <1>3, <1>4, <1>5

(* A connection that is being opened has heard nothing. *)
LEMMA OpeningTalk ==
  ASSUME WInv, ConnectWS \/ ServeWS \/ ConnectionLost \/ OnClose
  PROVE  WireInv' /\ OwnPage(b)' /\ Talk'
<1>1. OwnPage(b)' /\ UNCHANGED <<cur, want, selEpoch, hand, out, inbox, b>>
  BY DEF WInv, OwnPage, ConnectWS, ServeWS, ConnectionLost, OnClose, Accept, connVars,
         clientVars, pageVars
<1>2. CASE ConnectWS
  <2>1. /\ UNCHANGED <<rd, wr, gone, down>> /\ sock' = sock + 1 /\ link' = "connecting"
        /\ sock + 1 \in Conns /\ sock \in Nat
    BY <1>2 DEF ConnectWS, connVars, WInv, PInv, LinesInv
  <2>2. WireInv'
    BY <1>1, <2>1 DEF WInv, WireInv, Unheard
  <2>3. PICK c \in Conns : c = sock + 1 /\ wr[c] = "off"
    BY <2>1 DEF WInv, PInv, LinesInv
  <2>4. Unheard(c) /\ wr'[c] = "off"
    BY <2>1, <2>3 DEF WInv, WireInv
  <2>5. Unheard(c)'
    BY <1>1, <2>1, <2>4 DEF Unheard
  <2>6. Talk'
    BY <2>1, <2>3, <2>4, <2>5 DEF Talk, Listening, Serving
  <2> QED
    BY <1>1, <2>2, <2>6
<1>3. CASE ServeWS
  <2>1. /\ UNCHANGED <<gone, down, sock, link>> /\ link = "connecting"
        /\ wr[sock] = "off" /\ sock \in Conns /\ DOMAIN wr = Conns
        /\ rd' = [rd EXCEPT ![sock] = "reading"] /\ wr' = [wr EXCEPT ![sock] = "polling"]
    BY <1>3 DEF ServeWS, Accept, pageVars, WInv, PInv, LinesInv
  <2>2. PICK c \in Conns : c = sock
    BY <2>1
  <2>3. Unheard(c) /\ cur[c].epoch = 0 /\ down[c] = <<>>
    BY <2>1, <2>2 DEF WInv, WireInv, PInv, LinesInv, CursorAt
  <2>4. /\ rd'[c] = "reading" /\ wr'[c] = "polling" /\ DOMAIN rd' = Conns
        /\ \A d \in Conns \ {c} : rd'[d] = rd[d] /\ wr'[d] = wr[d]
    BY <2>1, <2>2 DEF WInv, WireInv
  <2>5. Unheard(c)'
    BY <1>1, <2>3, <2>4 DEF Unheard
  <2>6. WireInv'
    <3>1. ASSUME NEW d \in Conns, d # c
          PROVE  /\ rd'[d] = "selecting" => hand'[d].t = "select" /\ want'[d].selected = NoTopic
                 /\ wr'[d] = "off" => Unheard(d)'
      BY <1>1, <2>4, <3>1 DEF WInv, WireInv, Unheard
    <3> QED
      BY <1>1, <2>4, <3>1 DEF WInv, WireInv
  <2>7. Coming(c)' = <<>> /\ Ticks(<<>>) = {}
    BY <2>1, <2>3, <2>4 DEF Coming, Ticks
  <2>8. PICK e, q, pg : e = cur'[c].epoch /\ q = Coming(c)' /\ pg = b'
    OBVIOUS
  <2>9. Heard(q, pg, e, "connecting")
    BY <1>1, <2>3, <2>7, <2>8 DEF Heard, Greatest
  <2>10. Talk'
    BY <2>1, <2>2, <2>5, <2>8, <2>9 DEF Talk, Serving
  <2> QED
    BY <1>1, <2>6, <2>10
<1>4. CASE ConnectionLost
  <2>1. /\ UNCHANGED <<rd, wr, down, sock, link>> /\ gone' = [gone EXCEPT ![sock] = TRUE]
        /\ DOMAIN gone = Conns /\ sock \in Conns
    BY <1>4 DEF ConnectionLost, pageVars, WInv, PInv, LinesInv
  <2>2. WireInv' /\ gone'[sock]
    BY <1>1, <2>1 DEF WInv, WireInv, Unheard
  <2>3. Unheard(sock) => Unheard(sock)'
    BY <1>1, <2>1 DEF Unheard
  <2>4. Talk'
    BY <2>1, <2>2, <2>3 DEF WInv, Talk, Listening, Serving
  <2> QED
    BY <1>1, <2>2, <2>4
<1>5. CASE OnClose
  <2>1. UNCHANGED <<rd, wr, gone, sock>> /\ link' = "closed"
    BY <1>5 DEF OnClose, connVars
  <2>2. WireInv'
    BY <1>1, <2>1 DEF WInv, WireInv, Unheard
  <2>3. Talk'
    BY <2>1 DEF Talk, Listening, Serving
  <2> QED
    BY <1>1, <2>2, <2>3
<1> QED
  BY <1>2, <1>3, <1>4, <1>5

-----------------------------------------------------------------------------
(***************************************************************************)
(* The reader.                                                             *)
(***************************************************************************)
\* A step of one connection's reader changes nothing of the others.
OnlyReader(c) ==
  /\ UNCHANGED <<cur, wr, out, gone, epoch>>
  /\ \A d \in Conns \ {c} :
       /\ rd'[d] = rd[d] /\ hand'[d] = hand[d] /\ inbox'[d] = inbox[d]
       /\ want'[d] = want[d] /\ selEpoch'[d] = selEpoch[d]

LEMMA ReaderWire ==
  ASSUME WInv, NEW c \in Conns, Reader(c)
  PROVE  OnlyReader(c) /\ WireInv'
<1>1. /\ DOMAIN rd = Conns /\ DOMAIN hand = Conns /\ DOMAIN want = Conns
      /\ DOMAIN selEpoch = Conns /\ DOMAIN inbox = Conns
      /\ \E S : inbox[c] \in Seq(S)
      /\ DOMAIN want[c] = WantFields
      /\ rd[c] = "selecting" => hand[c].t = "select" /\ want[c].selected = NoTopic
      /\ wr[c] = "off" => Unheard(c)
  BY DEF WInv, WireInv
<1>2. /\ UNCHANGED <<cur, wr, out, gone, epoch>>
      /\ DOMAIN rd' = Conns /\ DOMAIN hand' = Conns /\ DOMAIN want' = Conns
      /\ DOMAIN selEpoch' = Conns /\ DOMAIN inbox' = Conns
      /\ \A d \in Conns \ {c} :
           /\ rd'[d] = rd[d] /\ hand'[d] = hand[d] /\ inbox'[d] = inbox[d]
           /\ want'[d] = want[d] /\ selEpoch'[d] = selEpoch[d]
  <2>1. CASE ReadMessage(c) \/ ReadFails(c)
    BY <1>1, <2>1 DEF ReadMessage, ReadFails, storeVars, clientVars
  <2>2. CASE HandleWatch(c) \/ HandleCompare(c)
    BY <1>1, <2>2 DEF HandleWatch, HandleCompare, Handled, storeVars
  <2>3. CASE SelectReleases(c) \/ SelectTakes(c)
    BY <1>1, <2>3 DEF SelectReleases, SelectTakes, Handled
  <2> QED
    BY <2>1, <2>2, <2>3 DEF Reader
<1>3. /\ \E S : inbox'[c] \in Seq(S)
      /\ DOMAIN want'[c] = WantFields
      /\ rd'[c] = "selecting" => hand'[c].t = "select" /\ want'[c].selected = NoTopic
      /\ wr'[c] = "off" => Unheard(c)'
  <2>1. CASE ReadMessage(c)
    <3>1. PICK S : inbox[c] \in Seq(S)
      BY <1>1
    <3>2. inbox'[c] = Tail(inbox[c]) /\ inbox[c] # <<>> /\ rd'[c] = "handling" /\ want' = want
      BY <1>1, <2>1 DEF ReadMessage, clientVars
    <3>3. inbox'[c] \in Seq(S)
      BY <3>1, <3>2
    <3> QED
      BY <1>1, <1>2, <3>2, <3>3 DEF Unheard
  <2>2. CASE ReadFails(c)
    <3>1. inbox'[c] = <<>> /\ inbox'[c] \in Seq({}) /\ rd'[c] = "done" /\ want' = want
      BY <1>1, <2>2 DEF ReadFails, clientVars
    <3> QED
      BY <1>1, <1>2, <3>1 DEF Unheard
  <2>3. CASE HandleWatch(c) \/ HandleCompare(c)
    <3>1. /\ rd[c] = "handling" /\ rd'[c] = "reading" /\ inbox' = inbox
          /\ DOMAIN want'[c] = WantFields
      BY <1>1, <2>3 DEF HandleWatch, HandleCompare, Handled, WantFields
    <3> QED
      BY <1>1, <1>2, <3>1 DEF Unheard
  <2>4. CASE SelectReleases(c)
    <3>1. /\ rd[c] = "handling" /\ hand[c].t = "select" /\ UNCHANGED <<hand, inbox>>
          /\ DOMAIN want'[c] = WantFields /\ want'[c].selected = NoTopic
      BY <1>1, <2>4 DEF SelectReleases, WantFields
    <3> QED
      BY <1>1, <1>2, <3>1 DEF Unheard
  <2>5. CASE SelectTakes(c)
    <3>1. /\ rd[c] = "selecting" /\ rd'[c] = "reading" /\ inbox' = inbox
          /\ DOMAIN want'[c] = WantFields
      BY <1>1, <2>5 DEF SelectTakes, Handled, WantFields
    <3> QED
      BY <1>1, <1>2, <3>1 DEF Unheard
  <2> QED
    BY <2>1, <2>2, <2>3, <2>4, <2>5, Zenon DEF Reader
<1>4. ASSUME NEW d \in Conns, d # c
      PROVE  /\ \E S : inbox'[d] \in Seq(S)
             /\ DOMAIN want'[d] = WantFields
             /\ rd'[d] = "selecting" => hand'[d].t = "select" /\ want'[d].selected = NoTopic
             /\ wr'[d] = "off" => Unheard(d)'
  BY <1>2, <1>4 DEF WInv, WireInv, Unheard
<1> QED
  BY <1>2, <1>3, <1>4 DEF OnlyReader, WireInv

(* The message at hand is the first of those not handled. *)
LEMMA HandledShifts ==
  ASSUME NEW h, NEW box, \E S : box \in Seq(S), NEW p, p = <<h>> \o box
  PROVE  p[1] = h /\ 1 \in DOMAIN p /\ Shifted(box, p)
<1>1. PICK S : box \in Seq(S)
  OBVIOUS
<1>2. /\ <<h>> \in Seq(S \cup {h}) /\ box \in Seq(S \cup {h}) /\ Len(<<h>>) = 1 /\ <<h>>[1] = h
  BY <1>1
<1>3. /\ Len(box) \in Nat /\ DOMAIN box = 1..Len(box)
      /\ Len(p) = Len(box) + 1 /\ DOMAIN p = 1..Len(p)
      /\ p[1] = h /\ \A j \in 1..Len(box) : p[j + 1] = box[j]
  BY <1>2
<1> QED
  BY <1>3 DEF Shifted

(* What the page selects the store knows, unless the page has an excuse. *)
LEMMA SelectionFound ==
  ASSUME WInv, Serving, NEW q, q = Coming(sock), NEW e, e = cur[sock].epoch,
         b.selected # NoTopic, ~Excused(q, b, e, epoch), e = 0 => b.missed
  PROVE  IsCurrent(topics, b.epoch, b.selected)
<1>1. PICK pg : pg = b
  OBVIOUS
<1>2. /\ link = "open" /\ ~gone[sock] /\ wr[sock] \in {"polling", "writing", "waiting"}
      /\ PInv /\ sock \in Conns
  BY DEF Serving, WInv, PInv, LinesInv
<1>3. ~b.missed /\ ~ToRenew(q, pg) /\ e = epoch /\ e # 0
  BY <1>1 DEF Excused
<1>4. Rises(q, pg, e) /\ Heard(q, pg, e, link)
  <2>1. Heard(q, pg, e, link)
    BY <1>1, <1>2 DEF WInv, Talk, Listening
  <2> QED
    BY <1>1, <1>2, <2>1, ComingRises
<1>5. InStep(q, pg, e)
  BY <1>3, <1>4, StaysInStep
<1>6. b.epoch = epoch /\ b.selected \in DOMAIN b.tree
  BY <1>1, <1>3, <1>5 DEF InStep, WInv, OwnPage
<1>7. PICK r \in 0..restarts : Ordered(down[sock], b, r) /\ Continues(sock, down[sock], b, r)
  BY <1>2 DEF PInv, StreamInv, Receiver
<1>8. r = restarts /\ ~Blank(b)
  BY <1>2, <1>6, <1>7 DEF Continues, Alive, Blank
<1>9. b.era = <<restarts, epoch>>
  BY <1>6, <1>7, <1>8 DEF Ordered
<1>10. b.selected \in TopicIds
  BY <1>2, <1>6, <1>9 DEF PInv, PageInv, NothingOfAnotherTable, Now
<1> QED
  BY <1>6, <1>10 DEF IsCurrent, TopicIds

LEMMA ReaderTalk ==
  ASSUME WInv, NEW c \in Conns, ReaderStep(c)
  PROVE  WireInv' /\ OwnPage(b)' /\ Talk'
<1>1. Reader(c) /\ UNCHANGED <<sock, link, down, b>>
  BY DEF ReaderStep, pageVars
<1>2. OnlyReader(c) /\ WireInv'
  BY <1>1, ReaderWire
<1>3. CASE c # sock \/ link = "closed"
  <2>1. link # "closed" => sock \in Conns \ {c}
    BY <1>3 DEF WInv, PInv, LinesInv
  <2> QED
    BY <1>1, <1>2, <2>1, TalkElsewhere DEF OnlyReader
<1>4. CASE c = sock /\ link # "closed"
  <2>1. /\ UNCHANGED <<cur, wr, out, gone, epoch, sock, link, down, b>>
        /\ Coming(c)' = Coming(c) /\ (Listening' <=> Listening)
    BY <1>1, <1>2 DEF OnlyReader, Coming, Listening
  <2>2. OwnPage(b)'
    BY <2>1 DEF WInv, OwnPage
  <2>3. ASSUME link = "connecting"
        PROVE  Unheard(c)'
    <3>1. Unheard(c)
      BY <1>4, <2>3 DEF WInv, Talk
    <3>2. ReadFails(c)
      BY <1>1, <3>1 DEF Unheard, Reader, ReadMessage, HandleWatch, HandleCompare,
                        SelectReleases, SelectTakes
    <3>3. DOMAIN rd = Conns /\ DOMAIN inbox = Conns
      BY DEF WInv, WireInv
    <3> QED
      BY <3>1, <3>2, <3>3 DEF ReadFails, Unheard, clientVars
  <2>4. PICK p, p2, q, pg, e, now, w, w2, s, s2, h :
          /\ p = Pending(c) /\ p2 = Pending(c)' /\ q = Coming(c) /\ pg = b
          /\ e = cur[c].epoch /\ now = epoch /\ w = want[c] /\ w2 = want'[c]
          /\ s = selEpoch[c] /\ s2 = selEpoch'[c] /\ h = hand[c]
    OBVIOUS
  <2>5. ASSUME Serving'
        PROVE  Agreement(p2, q, pg, e, now, w2, s2)
    <3>1. /\ DOMAIN rd = Conns /\ DOMAIN hand = Conns /\ DOMAIN want = Conns
          /\ DOMAIN selEpoch = Conns /\ DOMAIN inbox = Conns
          /\ DOMAIN w = WantFields /\ (\E S : inbox[c] \in Seq(S))
          /\ rd[c] = "selecting" => h.t = "select" /\ w.selected = NoTopic
      BY <2>4 DEF WInv, WireInv
    <3>2. Serving
      <4>1. rd[c] \in {"reading", "handling", "selecting"}
        BY <1>1 DEF Reader, ReadMessage, ReadFails, HandleWatch, HandleCompare,
                    SelectReleases, SelectTakes
      <4> QED
        BY <1>4, <2>1, <2>5, <4>1 DEF Serving
    <3>3. Agreement(p, q, pg, e, now, w, s)
      BY <1>4, <2>4, <3>2 DEF WInv, Talk
    <3>4. CASE ReadMessage(c)
      <4>1. /\ rd[c] = "reading" /\ inbox[c] # <<>> /\ rd'[c] = "handling"
            /\ hand'[c] = Head(inbox[c]) /\ inbox'[c] = Tail(inbox[c])
            /\ w2 = w /\ s2 = s
        BY <2>4, <3>1, <3>4 DEF ReadMessage, clientVars
      <4>2. PICK S : inbox[c] \in Seq(S)
        BY <3>1
      <4>3. p = inbox[c] /\ p2 = <<Head(inbox[c])>> \o Tail(inbox[c])
        BY <2>4, <4>1, <4>2 DEF Pending
      <4>4. p2 = p
        BY <4>1, <4>2, <4>3
      <4> QED
        BY <3>3, <4>1, <4>4
    <3>5. CASE ReadFails(c)
      BY <1>4, <2>1, <2>5, <3>1, <3>5 DEF ReadFails, Serving
    <3>6. CASE SelectReleases(c)
      <4>1. /\ rd[c] = "handling" /\ rd'[c] = "selecting" /\ h.t = "select"
            /\ UNCHANGED <<hand, inbox>> /\ s2 = s
            /\ w2 = [w EXCEPT !.selected = NoTopic]
        BY <2>4, <3>1, <3>6 DEF SelectReleases
      <4>2. p2 = p
        BY <2>4, <4>1 DEF Pending
      <4>3. p[1] = h /\ 1 \in DOMAIN p
        <5>1. p = <<h>> \o inbox[c]
          BY <2>4, <4>1 DEF Pending
        <5> QED
          BY <3>1, <5>1, HandledShifts
      <4>4. Selects(p) # {}
        BY <4>1, <4>3 DEF Selects
      <4>5. w2.watch = w.watch /\ w2.compare = w.compare
        BY <3>1, <4>1 DEF WantFields
      <4>6. SelectionAgrees(p, q, pg, e, now, w2.selected, s)
        BY <3>3, <4>4 DEF Agreement, SelectionAgrees
      <4> QED
        BY <3>3, <4>1, <4>2, <4>5, <4>6 DEF Agreement
    <3>7. CASE HandleWatch(c) \/ HandleCompare(c) \/ SelectTakes(c)
      <4>1. /\ rd[c] \in {"handling", "selecting"} /\ rd'[c] = "reading" /\ inbox' = inbox
        BY <3>1, <3>7 DEF HandleWatch, HandleCompare, SelectTakes, Handled
      <4>2. p = <<h>> \o inbox[c] /\ p2 = inbox[c]
        <5>1. p2 = <<>> \o inbox[c]
          BY <2>4, <4>1 DEF Pending
        <5> QED
          BY <2>4, <3>1, <4>1, <5>1 DEF Pending
      <4>3. p[1] = h /\ Shifted(p2, p)
        BY <3>1, <4>2, HandledShifts
      <4>4. /\ ListAgrees(p, "watch", MaxWatchedRows, q, pg, e, w.watch, Cut(pg.watchKey, MaxWatchedRows))
            /\ ListAgrees(p, "compare", MaxCompared, q, pg, e, w.compare, pg.sentCompare)
            /\ SelectionAgrees(p, q, pg, e, now, w.selected, s)
        BY <3>3 DEF Agreement
      <4>5. ASSUME IF h.t = "watch" /\ h.epoch = e THEN w2.watch = Cut(h.ids, MaxWatchedRows)
                                                   ELSE w2.watch = w.watch,
                   IF h.t = "compare" /\ h.epoch = e THEN w2.compare = Cut(h.ids, MaxCompared)
                                                     ELSE w2.compare = w.compare,
                   SelectionAgrees(p2, q, pg, e, now, w2.selected, s2)
            PROVE  Agreement(p2, q, pg, e, now, w2, s2)
        <5>1. ListAgrees(p2, "watch", MaxWatchedRows, q, pg, e, w2.watch, Cut(pg.watchKey, MaxWatchedRows))
          BY <4>3, <4>4, <4>5, ListHandled
        <5>2. ListAgrees(p2, "compare", MaxCompared, q, pg, e, w2.compare, pg.sentCompare)
          BY <4>3, <4>4, <4>5, ListHandled
        <5> QED
          BY <4>5, <5>1, <5>2 DEF Agreement
      <4>6. ASSUME h.t # "select", w2.selected = w.selected, s2 = s
            PROVE  SelectionAgrees(p2, q, pg, e, now, w2.selected, s2)
        BY <4>3, <4>4, <4>6, SelectionHandled
      <4>7. CASE HandleWatch(c)
        <5>1. /\ h.t = "watch" /\ s2 = s
              /\ w2 = IF h.epoch # e THEN w
                      ELSE [w EXCEPT !.watch = Cut(h.ids, MaxWatchedRows), !.watchAll = TRUE]
          BY <2>4, <3>1, <4>7 DEF HandleWatch
        <5> QED
          BY <3>1, <4>5, <4>6, <5>1 DEF WantFields
      <4>8. CASE HandleCompare(c)
        <5>1. /\ h.t = "compare" /\ s2 = s
              /\ w2 = IF h.epoch # e THEN w
                      ELSE [w EXCEPT !.compare = Cut(h.ids, MaxCompared), !.compareAll = TRUE]
          BY <2>4, <3>1, <4>8 DEF HandleCompare
        <5> QED
          BY <3>1, <4>5, <4>6, <5>1 DEF WantFields
      <4>9. CASE SelectTakes(c)
        <5>1. /\ h.t = "select" /\ w.selected = NoTopic
              /\ \/ /\ IsCurrent(topics, h.epoch, h.id)
                    /\ w2 = [w EXCEPT !.selected = h.id] /\ s2 = h.epoch
                 \/ /\ ~IsCurrent(topics, h.epoch, h.id)
                    /\ w2 = w /\ s2 = s
          <6>1. rd[c] = "selecting"
            BY <4>9 DEF SelectTakes
          <6>2. CASE IsCurrent(topics, h.epoch, h.id)
            BY <2>4, <3>1, <4>9, <6>1, <6>2 DEF SelectTakes
          <6>3. CASE ~IsCurrent(topics, h.epoch, h.id)
            BY <2>4, <3>1, <4>9, <6>1, <6>3 DEF SelectTakes
          <6> QED
            BY <3>1, <6>1, <6>2, <6>3
        <5>2. w2.watch = w.watch /\ w2.compare = w.compare
          BY <3>1, <5>1 DEF WantFields
        <5>3. ASSUME h.id = pg.selected, pg.selected # NoTopic => h.epoch = pg.epoch
              PROVE  /\ w2.selected = pg.selected \/ (w2.selected = NoTopic /\ Excused(q, pg, e, now))
                     /\ w2.selected # NoTopic => s2 = now \/ Excused(q, pg, e, now)
          <6>1. CASE IsCurrent(topics, h.epoch, h.id)
            <7>1. w2.selected = pg.selected /\ s2 = epoch
              BY <3>1, <5>1, <5>3, <6>1 DEF WantFields, IsCurrent
            <7> QED
              BY <2>4, <7>1
          <6>2. CASE ~IsCurrent(topics, h.epoch, h.id)
            <7>1. w2.selected = NoTopic
              BY <5>1, <6>2
            <7>2. CASE pg.selected = NoTopic
              BY <7>1, <7>2
            <7>3. CASE pg.selected # NoTopic
              <8>1. ~IsCurrent(topics, pg.epoch, pg.selected)
                BY <5>3, <6>2, <7>3
              <8>2. e = 0 => pg.missed
                BY <4>4, <7>3 DEF SelectionAgrees
              <8>3. Excused(q, pg, e, now)
                BY <1>4, <2>4, <3>2, <7>3, <8>1, <8>2, SelectionFound
              <8> QED
                BY <7>1, <8>3
            <7> QED
              BY <7>2, <7>3
          <6> QED
            BY <6>1, <6>2
        <5>4. SelectionAgrees(p2, q, pg, e, now, w2.selected, s2)
          BY <4>3, <4>4, <5>1, <5>3, SelectionHandled
        <5> QED
          BY <4>5, <5>1, <5>2, <5>4
      <4> QED
        BY <3>7, <4>7, <4>8, <4>9
    <3> QED
      BY <1>1, <3>4, <3>5, <3>6, <3>7 DEF Reader
  <2>6. Talk'
    <3>1. Listening' => Heard(q, pg, e, link)
      BY <1>4, <2>1, <2>4 DEF WInv, Talk
    <3> QED
      BY <1>4, <2>1, <2>3, <2>4, <2>5, <3>1 DEF Talk
  <2> QED
    BY <1>2, <2>2, <2>6
<1> QED
  BY <1>3, <1>4

-----------------------------------------------------------------------------
(***************************************************************************)
(* The writer.                                                             *)
(***************************************************************************)
OnlyWriter(c) ==
  /\ UNCHANGED <<rd, hand, inbox, selEpoch, gone, epoch, sock, link, b>>
  /\ wr[c] # "off" /\ wr'[c] # "off"
  /\ \A d \in Conns \ {c} : /\ cur'[d] = cur[d] /\ wr'[d] = wr[d] /\ out'[d] = out[d]
                            /\ want'[d] = want[d] /\ down'[d] = down[d]

LEMMA WriterWire ==
  ASSUME WInv, NEW c \in Conns, WriterStep(c) \/ FailingWrite(c)
  PROVE  OnlyWriter(c) /\ WireInv'
<1>1. /\ DOMAIN cur = Conns /\ DOMAIN wr = Conns /\ DOMAIN out = Conns /\ DOMAIN down = Conns
      /\ DOMAIN want = Conns /\ DOMAIN want[c] = WantFields
  BY DEF WInv, WireInv, PInv, LinesInv
<1>2. CASE SendUpdate(c) /\ UNCHANGED pageVars
  <2>1. PICK w : /\ want' = [want EXCEPT ![c] = w]
                 /\ DOMAIN w = WantFields /\ (w.selected = NoTopic \/ w.selected = want[c].selected)
    <3> DEFINE u == PollUpdate(cur[c], histN[c], want[c])
               kept == [want[c] EXCEPT !.watchAll = FALSE, !.compareAll = FALSE]
    <3>1. /\ DOMAIN NoWant = WantFields /\ NoWant.selected = NoTopic
          /\ DOMAIN kept = WantFields /\ kept.selected = want[c].selected
      BY <1>1 DEF NoWant, WantFields
    <3>2. want' = [want EXCEPT ![c] = IF u.reset THEN NoWant ELSE kept]
      BY <1>2 DEF SendUpdate
    <3> HIDE DEF u, kept
    <3> QED
      BY <3>1, <3>2
  <2>2. /\ UNCHANGED <<rd, hand, inbox, selEpoch, gone, epoch, sock, link, down, b>>
        /\ wr[c] = "polling" /\ rd[c] # "selecting" /\ wr' = [wr EXCEPT ![c] = "writing"]
        /\ \A d \in Conns \ {c} : cur'[d] = cur[d] /\ out'[d] = out[d]
    BY <1>1, <1>2 DEF SendUpdate, Unlocked, storeVars, pageVars
  <2>3. OnlyWriter(c) /\ wr'[c] = "writing" /\ DOMAIN want' = Conns /\ want'[c] = w
    BY <1>1, <2>1, <2>2 DEF OnlyWriter
  <2>4. WireInv'
    BY <2>1, <2>2, <2>3 DEF WInv, WireInv, OnlyWriter, Unheard
  <2> QED
    BY <2>3, <2>4
<1>3. CASE ~(SendUpdate(c) /\ UNCHANGED pageVars)
  <2>1. CASE Deliver(c)
    <3>1. /\ UNCHANGED <<rd, hand, inbox, selEpoch, gone, epoch, sock, link, b, cur, want>>
          /\ wr[c] = "writing" /\ wr'[c] \in {"polling", "waiting"}
          /\ \A d \in Conns \ {c} : wr'[d] = wr[d] /\ out'[d] = out[d] /\ down'[d] = down[d]
      BY <1>1, <2>1 DEF Deliver, Written, storeVars, clientVars
    <3>2. OnlyWriter(c)
      BY <3>1 DEF OnlyWriter
    <3>3. WireInv'
      BY <3>1, <3>2 DEF WInv, WireInv, OnlyWriter, Unheard
    <3> QED
      BY <3>2, <3>3
  <2>2. CASE (TickerFires(c) \/ SeesCancel(c) \/ Teardown(c) \/ WriteFails(c)) /\ UNCHANGED pageVars
    <3>1. /\ UNCHANGED <<rd, hand, inbox, selEpoch, gone, epoch, sock, link, down, b, cur, want>>
          /\ wr[c] # "off" /\ wr'[c] # "off"
          /\ \A d \in Conns \ {c} : wr'[d] = wr[d] /\ out'[d] = out[d]
      BY <1>1, <2>2 DEF TickerFires, SeesCancel, Teardown, WriteFails, storeVars, clientVars,
                        pageVars
    <3>2. OnlyWriter(c)
      BY <3>1 DEF OnlyWriter
    <3>3. WireInv'
      BY <3>1, <3>2 DEF WInv, WireInv, OnlyWriter, Unheard
    <3> QED
      BY <3>2, <3>3
  <2> QED
    BY <1>3, <2>1, <2>2 DEF WriterStep, FailingWrite
<1> QED
  BY <1>2, <1>3

(* A frame of the same ticks is as good as the update. *)
SameTicks(q2, q) ==
  /\ Ticks(q2) = Ticks(q)
  /\ \A j \in Ticks(q) : q2[j].epoch = q[j].epoch /\ q2[j].reset = q[j].reset

LEMMA SameTicksAgree ==
  ASSUME NEW q, NEW q2, SameTicks(q2, q), NEW pg, NEW e
  PROVE  /\ InStep(q2, pg, e) <=> InStep(q, pg, e)
         /\ ToRenew(q2, pg) <=> ToRenew(q, pg)
         /\ \A state : Heard(q, pg, e, state) => Heard(q2, pg, e, state)
         /\ \A p, now, w, s : Agreement(p, q, pg, e, now, w, s) => Agreement(p, q2, pg, e, now, w, s)
<1>1. (ToRenew(q2, pg) <=> ToRenew(q, pg)) /\ (InStep(q2, pg, e) <=> InStep(q, pg, e))
  BY DEF SameTicks, ToRenew, InStep
<1>2. \A state : Heard(q, pg, e, state) => Heard(q2, pg, e, state)
  BY DEF Heard, SameTicks, Greatest, Ticks
<1>3. ASSUME NEW p, NEW now, NEW w, NEW s, Agreement(p, q, pg, e, now, w, s)
      PROVE  Agreement(p, q2, pg, e, now, w, s)
  BY <1>1, <1>3 DEF Agreement, ListAgrees, SelectionAgrees, Excused
<1> QED
  BY <1>1, <1>2, <1>3

LEMMA DeliverTalk ==
  ASSUME WInv, NEW c \in Conns, Deliver(c), c = sock, link # "closed"
  PROVE  Talk'
<1>1. /\ UNCHANGED <<rd, hand, inbox, selEpoch, gone, epoch, sock, link, b, cur, want>>
      /\ wr[c] = "writing" /\ wr'[c] \in {"polling", "waiting"}
      /\ down' = [down EXCEPT ![c] = IF gone[c] THEN <<>> ELSE down[c] \o Frames(out[c])]
      /\ DOMAIN down = Conns /\ (\E S : down[c] \in Seq(S)) /\ IsUpdate(out[c])
      /\ DOMAIN out[c] = UpdateFields
  BY DEF Deliver, Written, storeVars, clientVars, WInv, PInv, LinesInv, WritingAt
<1>2. link = "connecting" => Unheard(sock)'
  BY <1>1 DEF WInv, Talk, Unheard
<1>3. CASE gone[c]
  BY <1>1, <1>2, <1>3 DEF Talk, Listening, Serving
<1>4. CASE ~gone[c]
  <2>1. PICK d, u, f, g, q, q2, q3 :
          /\ d = down[c] /\ u = out[c] /\ f = TickFrame(u) /\ g = CountsFrame(u.counts)
          /\ q = Append(d, u) /\ q2 = Append(d, f) /\ q3 = Append(q2, g)
    OBVIOUS
  <2>2. f.t = "tick" /\ u.t = "tick" /\ f.epoch = u.epoch /\ f.reset = u.reset /\ g.t = "counts"
    BY <1>1, <2>1, FramesOf DEF IsUpdate, CountsFrame
  <2>3. Joined(q, d, u) /\ Joined(q2, d, f) /\ \E S : q2 \in Seq(S)
    BY <1>1, <2>1, AppendJoins
  <2>4. Joined(q3, q2, g)
    BY <2>1, <2>3, AppendJoins
  <2>5. SameTicks(q2, q)
    BY <2>2, <2>3 DEF SameTicks, Ticks, Joined
  <2>6. SameTicks(q3, q)
    <3>1. \A j \in DOMAIN q3 : (j \in DOMAIN q2 /\ q3[j] = q2[j]) \/ q3[j] = g
      BY <2>4 DEF Joined
    <3>2. \A j \in DOMAIN q2 : j \in DOMAIN q3 /\ q3[j] = q2[j]
      BY <2>4 DEF Joined
    <3>3. Ticks(q3) = Ticks(q2) /\ \A j \in Ticks(q2) : q3[j] = q2[j]
      BY <2>2, <3>1, <3>2 DEF Ticks
    <3> QED
      BY <2>5, <3>3 DEF SameTicks
  <2>7. d \o Frames(u) \in {q2, q3}
    <3>1. PICK S : d \in Seq(S)
      BY <1>1, <2>1
    <3>2. d \in Seq(S \cup {f, g})
      BY <3>1
    <3>3. CASE u.counts = <<>>
      <4>1. Frames(u) = <<f>>
        BY <2>1, <3>3 DEF Frames
      <4> QED
        BY <2>1, <3>2, <4>1
    <3>4. CASE u.counts # <<>>
      <4>1. Frames(u) = <<f>> \o <<g>>
        BY <2>1, <3>4 DEF Frames
      <4>2. d \o (<<f>> \o <<g>>) = Append(Append(d, f), g)
        BY <3>2
      <4> QED
        BY <2>1, <4>1, <4>2
    <3> QED
      BY <3>3, <3>4
  <2>8. Coming(c) = q /\ Coming(c)' = d \o Frames(u)
    BY <1>1, <1>4, <2>1 DEF Coming
  <2>9. PICK q4 : q4 = Coming(c)' /\ SameTicks(q4, q)
    BY <2>5, <2>6, <2>7, <2>8
  <2>10. Pending(c)' = Pending(c) /\ (Serving' => Serving) /\ Listening
    BY <1>1, <1>4 DEF Pending, Serving, Listening
  <2>11. PICK p, pg, e, now, w, s :
           /\ p = Pending(c) /\ pg = b /\ e = cur[c].epoch /\ now = epoch
           /\ w = want[c] /\ s = selEpoch[c]
    OBVIOUS
  <2>12. Heard(q4, pg, e, link)
    BY <2>8, <2>9, <2>10, <2>11, SameTicksAgree DEF WInv, Talk
  <2>13. Serving => Agreement(p, q4, pg, e, now, w, s)
    BY <2>8, <2>9, <2>11, SameTicksAgree DEF WInv, Talk
  <2> QED
    BY <1>1, <1>2, <2>9, <2>10, <2>11, <2>12, <2>13 DEF Talk
<1> QED
  BY <1>3, <1>4

(* The update goes on with what the cursor stands for, or makes the page start *)
(* anew and forgets what it wanted.                                            *)
LEMMA SendUpdateTalk ==
  ASSUME WInv, NEW c \in Conns, SendUpdate(c), UNCHANGED pageVars, c = sock, link # "closed"
  PROVE  Talk'
<1>1. /\ DOMAIN cur = Conns /\ DOMAIN wr = Conns /\ DOMAIN out = Conns /\ DOMAIN want = Conns
      /\ DOMAIN want[c] = WantFields /\ epoch \in Nat \ {0} /\ CursorAt(c)
      /\ \E S : down[c] \in Seq(S)
  BY DEF WInv, WireInv, PInv, LinesInv, StoreInv
<1>2. PICK q, q2, pg, e, now, w, w2, s, u, p :
        /\ q = Coming(c) /\ q2 = Coming(c)' /\ pg = b /\ e = cur[c].epoch /\ now = epoch
        /\ w = want[c] /\ w2 = want'[c] /\ s = selEpoch[c] /\ u = out'[c] /\ p = Pending(c)
  OBVIOUS
<1>3. /\ UNCHANGED <<rd, hand, inbox, selEpoch, gone, epoch, sock, link, down, b>>
      /\ wr[c] = "polling" /\ wr'[c] = "writing" /\ rd[c] # "selecting"
  BY <1>1 DEF SendUpdate, Unlocked, storeVars, pageVars
<1>4. /\ u.t = "tick" /\ u.epoch = now /\ (u.reset <=> e \notin {0, now})
      /\ cur'[c].epoch = now
      /\ e \notin {0, now} => w2 = NoWant
      /\ e \in {0, now} => w2 = [w EXCEPT !.watchAll = FALSE, !.compareAll = FALSE]
  <2> DEFINE v == PollUpdate(cur[c], histN[c], want[c])
             kept == [w EXCEPT !.watchAll = FALSE, !.compareAll = FALSE]
             new == IF v.reset THEN NoWant ELSE kept
  <2>1. v.epoch = now /\ v.reset = (e \notin {0, now})
    BY <1>2 DEF PollUpdate
  <2>2. /\ cur' = [cur EXCEPT ![c] = PollCursor(@)]
        /\ want' = [want EXCEPT ![c] = new] /\ out' = [out EXCEPT ![c] = TickOf(v, new.selected)]
    BY <1>2 DEF SendUpdate
  <2>3. PollCursor(cur[c]).epoch = now
    BY <1>2 DEF PollCursor
  <2> HIDE DEF v, new
  <2>4. u.t = "tick" /\ u.epoch = v.epoch /\ u.reset = v.reset
    BY <1>1, <1>2, <2>2 DEF TickOf
  <2>5. w2 = new /\ cur'[c].epoch = now
    BY <1>1, <1>2, <2>2, <2>3
  <2>6. v.reset <=> e \notin {0, now}
    BY <2>1
  <2>7. (v.reset => new = NoWant) /\ (~v.reset => new = kept)
    BY DEF new
  <2> QED
    BY <2>1, <2>4, <2>5, <2>6, <2>7
<1>5. q2 = Append(q, u)
  BY <1>2, <1>3 DEF Coming
<1>6. Joined(q2, q, u)
  <2>1. q = down[c]
    BY <1>2, <1>3 DEF Coming
  <2> QED
    BY <1>1, <1>5, <2>1, AppendJoins
<1>7. /\ Len(q) + 1 \in Ticks(q2) /\ q2[Len(q) + 1] = u
      /\ \A j \in Ticks(q2) : j <= Len(q) + 1 /\ (j = Len(q) + 1 \/ (j \in Ticks(q) /\ q2[j] = q[j]))
      /\ \A j \in Ticks(q) : j \in Ticks(q2) /\ q2[j] = q[j]
  <2>1. u.t = "tick"
    BY <1>4
  <2>2. /\ Len(q) + 1 \in DOMAIN q2 /\ q2[Len(q) + 1] = u
        /\ \A j \in DOMAIN q2 : j <= Len(q) + 1 /\ (j = Len(q) + 1 \/ j \in DOMAIN q)
        /\ \A j \in DOMAIN q : j \in DOMAIN q2 /\ q2[j] = q[j]
    BY ONLY <1>6 DEF Joined
  <2> QED
    BY ONLY <2>1, <2>2 DEF Ticks
<1>8. ToRenew(q2, pg) <=> ToRenew(q, pg) \/ u.reset \/ now # pg.epoch
  BY <1>4, <1>7 DEF ToRenew
<1>9. Heard(q2, pg, now, link)
  <2>1. \A j \in DOMAIN q2 : Greatest(Ticks(q2), j) => j = Len(q) + 1
    BY <1>6, <1>7 DEF Greatest, Joined
  <2> QED
    BY <1>4, <1>7, <2>1 DEF Heard
<1>10. ASSUME Serving
       PROVE  Agreement(p, q2, pg, now, now, w2, s)
  <2>1. /\ ListAgrees(p, "watch", MaxWatchedRows, q, pg, e, w.watch, Cut(pg.watchKey, MaxWatchedRows))
        /\ ListAgrees(p, "compare", MaxCompared, q, pg, e, w.compare, pg.sentCompare)
        /\ SelectionAgrees(p, q, pg, e, now, w.selected, s)
    BY <1>2, <1>10 DEF WInv, Talk, Agreement
  <2>2. e \in Nat /\ e <= now /\ now \in Nat \ {0}
    BY <1>1, <1>2, <1>3 DEF CursorAt, Alive
  <2>3. CASE e = now
    <3>1. InStep(q2, pg, now) <=> InStep(q, pg, e)
      BY <1>4, <1>8, <2>3 DEF InStep
    <3>2. w2.watch = w.watch /\ w2.compare = w.compare /\ w2.selected = w.selected
      BY <1>1, <1>2, <1>4, <2>3 DEF WantFields
    <3>3. SelectionAgrees(p, q2, pg, now, now, w2.selected, s)
      BY <1>8, <2>1, <2>3, <3>2 DEF SelectionAgrees, Excused
    <3> QED
      BY <2>1, <2>3, <3>1, <3>2, <3>3, ListKept DEF Agreement
  <2>4. CASE e = 0
    <3>1. w2.watch = w.watch /\ w2.compare = w.compare /\ w2.selected = w.selected
      BY <1>1, <1>2, <1>4, <2>4 DEF WantFields
    <3>2. pg.watchKey = <<>> /\ pg.sentCompare = <<>>
      <4>1. Rises(q, pg, e)
        BY <1>2, <1>3, <1>10, ComingRises DEF WInv, Serving
      <4>2. DOMAIN pg.tree = {}
        <5>1. pg.epoch \in Nat /\ (pg.epoch = 0 => Blank(pg))
          BY <1>2 DEF WInv, PInv, PageInv
        <5> QED
          BY <2>4, <4>1, <5>1 DEF Rises, Blank
      <4> QED
        BY <1>2, <4>2 DEF WInv, OwnPage
    <3>3. Cut(pg.watchKey, MaxWatchedRows) = <<>>
      BY <3>2, ConnAssumption DEF Cut
    <3>4. ASSUME NEW kind, NEW max, NEW have, ListAgrees(p, kind, max, q, pg, e, have, <<>>)
          PROVE  ListAgrees(p, kind, max, q2, pg, now, have, <<>>)
      <4>1. have = <<>> /\ \A i \in DOMAIN p : p[i].t # kind
        BY <2>4, <3>4 DEF ListAgrees, InStep
      <4> QED
        BY <4>1 DEF ListAgrees, WillBe, Due, Greatest
    <3>5. SelectionAgrees(p, q2, pg, now, now, w2.selected, s)
      <4>1. ToRenew(q, pg) => ToRenew(q2, pg)
        BY <1>8
      <4> QED
        BY <2>1, <2>2, <2>4, <3>1, <4>1 DEF SelectionAgrees, Excused
    <3> QED
      BY <2>1, <3>1, <3>2, <3>3, <3>4, <3>5 DEF Agreement
  <2>5. CASE e \notin {0, now}
    <3>1. u.reset /\ w2.watch = <<>> /\ w2.compare = <<>> /\ w2.selected = NoTopic
      BY <1>4, <2>5 DEF NoWant
    <3>2. ToRenew(q2, pg) /\ ~InStep(q2, pg, now)
      BY <1>8, <3>1 DEF InStep
    <3>3. ASSUME NEW kind, NEW max, NEW have, NEW list, ListAgrees(p, kind, max, q, pg, e, have, list)
          PROVE  ListAgrees(p, kind, max, q2, pg, now, <<>>, list)
      <4>1. \A i \in DOMAIN p : p[i].t = kind => p[i].epoch \in 1..now /\ p[i].epoch # now
        BY <2>2, <2>5, <3>3 DEF ListAgrees
      <4> QED
        BY <3>2, <4>1 DEF ListAgrees, Due
    <3>4. SelectionAgrees(p, q2, pg, now, now, w2.selected, s)
      BY <2>1, <2>2, <3>1, <3>2 DEF SelectionAgrees, Excused
    <3> QED
      BY <2>1, <3>1, <3>3, <3>4 DEF Agreement
  <2> QED
    BY <2>3, <2>4, <2>5
<1>11. Pending(c)' = p /\ (Serving' => Serving) /\ (link = "connecting" => Unheard(c)')
  <2>1. Pending(c)' = p /\ (Serving' => Serving)
    BY <1>2, <1>3 DEF Pending, Serving
  <2>2. ASSUME link = "connecting"
        PROVE  Unheard(c)'
    <3>1. Unheard(c)
      BY <2>2 DEF WInv, Talk
    <3>2. w2.watch = <<>> /\ w2.compare = <<>> /\ w2.selected = NoTopic
      <4>1. CASE e \notin {0, now}
        BY <1>4, <4>1 DEF NoWant
      <4>2. CASE e \in {0, now}
        <5>1. w2.watch = w.watch /\ w2.compare = w.compare /\ w2.selected = w.selected
          BY <1>1, <1>2, <1>4, <4>2 DEF WantFields
        <5> QED
          BY <1>2, <3>1, <5>1 DEF Unheard
      <4> QED
        BY <4>1, <4>2
    <3> QED
      BY <1>2, <1>3, <3>1, <3>2 DEF Unheard
  <2> QED
    BY <2>1, <2>2
<1> QED
  BY <1>2, <1>3, <1>4, <1>9, <1>10, <1>11 DEF Talk

LEMMA WriterTalk ==
  ASSUME WInv, NEW c \in Conns, WriterStep(c) \/ FailingWrite(c)
  PROVE  WireInv' /\ OwnPage(b)' /\ Talk'
<1>1. OnlyWriter(c) /\ WireInv'
  BY WriterWire
<1>2. CASE c # sock \/ link = "closed"
  <2>1. link # "closed" => sock \in Conns \ {c}
    BY <1>2 DEF WInv, PInv, LinesInv
  <2> QED
    BY <1>1, <2>1, TalkElsewhere DEF OnlyWriter
<1>3. CASE c = sock /\ link # "closed"
  <2>1. OwnPage(b)'
    BY <1>1 DEF OnlyWriter, WInv, OwnPage
  <2>2. Talk'
    <3>1. CASE Deliver(c)
      BY <1>3, <3>1, DeliverTalk
    <3>2. CASE SendUpdate(c) /\ UNCHANGED pageVars
      BY <1>3, <3>2, SendUpdateTalk
    <3>3. CASE TickerFires(c) /\ UNCHANGED pageVars
      <4>1. /\ UNCHANGED <<cur, want, rd, hand, inbox, selEpoch, out, gone, epoch, sock, link, down, b>>
            /\ wr[c] = "waiting" /\ wr'[c] = "polling"
        BY <3>3 DEF TickerFires, storeVars, clientVars, pageVars, WInv, PInv, LinesInv
      <4>2. Coming(c)' = Coming(c) /\ Pending(c)' = Pending(c)
        BY <4>1 DEF Coming, Pending
      <4>3. (Serving' <=> Serving) /\ (Listening' <=> Listening) /\ (Unheard(c) => Unheard(c)')
        BY <1>3, <4>1 DEF Serving, Listening, Unheard
      <4> QED
        BY <1>3, <4>1, <4>2, <4>3 DEF WInv, Talk
    <3>4. CASE (SeesCancel(c) \/ Teardown(c) \/ WriteFails(c)) /\ UNCHANGED pageVars
      <4>1. /\ UNCHANGED <<want, rd, inbox, sock, link>> /\ wr'[c] \in {"closing", "closed"}
        BY <3>4 DEF SeesCancel, Teardown, WriteFails, storeVars, clientVars, pageVars, WInv,
                    PInv, LinesInv
      <4>2. Unheard(c) => Unheard(c)'
        BY <4>1 DEF Unheard
      <4> QED
        BY <1>3, <4>1, <4>2 DEF WInv, Talk, Listening, Serving
    <3> QED
      BY <3>1, <3>2, <3>3, <3>4 DEF WriterStep, FailingWrite
  <2> QED
    BY <1>1, <2>1, <2>2
<1> QED
  BY <1>2, <1>3

-----------------------------------------------------------------------------
(***************************************************************************)
(* The lists the page makes.                                               *)
(***************************************************************************)
LEMMA ListOf ==
  ASSUME NEW n \in Nat, NEW r, r = [k \in 1..n |-> r[k]]
  PROVE  (\E S : r \in Seq(S)) /\ Len(r) = n
<1> DEFINE S == {r[k] : k \in 1..n}
<1>1. r \in [1..n -> S]
  OBVIOUS
<1> HIDE DEF S
<1>2. r \in Seq(S)
  BY <1>1
<1>3. DOMAIN r = 1..n /\ DOMAIN r = 1..Len(r) /\ Len(r) \in Nat
  BY <1>1, <1>2
<1> QED
  BY <1>2, <1>3

LEMMA ElementsAtList ==
  ASSUME NEW s, NEW kept, IsFiniteSet(kept), NEW r, r = ElementsAt(s, kept)
  PROVE  /\ \E S : r \in Seq(S)
         /\ Len(r) = Cardinality(kept) /\ Cardinality(kept) \in Nat
         /\ kept = {} => r = <<>>
<1> DEFINE At(k) == CHOOSE i \in kept : Cardinality({j \in kept : j < i}) = k - 1
           n == Cardinality(kept)
<1>1. n \in Nat /\ (kept = {} => n = 0)
  BY FS_CardinalityType, FS_EmptySet
<1>2. r = [k \in 1..n |-> s[At(k)]]
  BY DEF ElementsAt
<1> HIDE DEF At, n
<1>3. r = [k \in 1..n |-> r[k]]
  BY <1>2
<1>4. (\E S : r \in Seq(S)) /\ Len(r) = n
  BY <1>1, <1>3, ListOf
<1>5. ASSUME kept = {}
      PROVE  r = <<>>
  <2>1. Len(r) = 0
    BY <1>1, <1>4, <1>5
  <2> QED
    BY <1>4, <2>1
<1> QED
  BY <1>1, <1>4, <1>5 DEF n

LEMMA IndicesFinite ==
  ASSUME NEW s, \E S : s \in Seq(S), NEW kept, kept \subseteq DOMAIN s
  PROVE  IsFiniteSet(kept)
<1>1. Len(s) \in Nat /\ DOMAIN s = 1..Len(s)
  OBVIOUS
<1>2. IsFiniteSet(1..Len(s))
  BY <1>1, FS_Interval
<1> QED
  BY <1>1, <1>2, FS_Subset

(* A page with an empty tree has no row in view and no topic to compare. *)
LEMMA NothingInView ==
  ASSUME NEW S, S = {}
  PROVE  Ascending(S) = <<>>
<1> DEFINE At(k) == CHOOSE i \in S : Cardinality({j \in S : j < i}) = k - 1
           r == Ascending(S)
<1>1. Cardinality(S) = 0 /\ 0 \in Nat
  BY FS_EmptySet
<1>2. r = [k \in 1..0 |-> At(k)]
  BY <1>1 DEF Ascending
<1> HIDE DEF At, r
<1>3. r = [k \in 1..0 |-> r[k]]
  BY <1>2
<1>4. (\E R : r \in Seq(R)) /\ Len(r) = 0
  BY <1>1, <1>3, ListOf
<1>5. r = <<>>
  BY <1>4
<1> QED
  BY <1>5 DEF r

LEMMA IdsNamedCut ==
  ASSUME NEW given, NEW names, \E S : names \in Seq(S), NEW ids, ids = IdsNamed(given, names)
  PROVE  /\ Cut(ids, MaxCompared) = ids
         /\ DOMAIN given = {} => ids = <<>>
<1> DEFINE kept == {i \in DOMAIN names : names[i] \in Range(given)}
           known == ElementsAt(names, kept)
           IdOf(i) == CHOOSE id \in DOMAIN given : given[id] = known[i]
<1>1. ids = [i \in DOMAIN Cut(known, MaxCompared) |-> IdOf(i)]
  BY DEF IdsNamed
<1>2. IsFiniteSet(kept)
  BY IndicesFinite
<1>3. DOMAIN given = {} => kept = {}
  BY DEF Range
<1> HIDE DEF kept, IdOf
<1>4. PICK n \in Nat : (\E S : known \in Seq(S)) /\ Len(known) = n /\ (kept = {} => known = <<>>)
  BY <1>2, ElementsAtList
<1> HIDE DEF known
<1>5. MaxCompared \in Nat \ {0}
  BY ConnAssumption
<1>6. PICK m \in Nat : m <= MaxCompared /\ m <= n /\ DOMAIN Cut(known, MaxCompared) = 1..m
  <2>1. PICK S : known \in Seq(S)
    BY <1>4
  <2>2. CASE n > MaxCompared
    <3>1. SubSeq(known, 1, MaxCompared) \in Seq(S) /\ Len(SubSeq(known, 1, MaxCompared)) = MaxCompared
      BY <1>4, <1>5, <2>1, <2>2, SubSeqProperties
    <3>2. DOMAIN SubSeq(known, 1, MaxCompared) = 1..MaxCompared
      BY <3>1
    <3> QED
      BY <1>4, <1>5, <2>2, <3>2 DEF Cut
  <2>3. CASE ~(n > MaxCompared)
    <3>1. DOMAIN known = 1..n /\ n <= MaxCompared
      BY <1>4, <1>5, <2>1, <2>3
    <3> QED
      BY <1>4, <2>3, <3>1 DEF Cut
  <2> QED
    BY <2>2, <2>3
<1>7. ids = [i \in 1..m |-> ids[i]]
  BY <1>1, <1>6
<1>8. (\E S : ids \in Seq(S)) /\ Len(ids) = m
  BY <1>7, ListOf
<1>9. Cut(ids, MaxCompared) = ids
  BY <1>5, <1>6, <1>8 DEF Cut
<1>10. ASSUME DOMAIN given = {}
       PROVE  ids = <<>>
  <2>1. n = 0
    BY <1>3, <1>4, <1>10
  <2>2. m = 0
    BY <1>6, <2>1
  <2> QED
    BY <1>8, <2>2
<1> QED
  BY <1>9, <1>10

-----------------------------------------------------------------------------
(***************************************************************************)
(* The page's callbacks.  They tell the server with the messages they send.*)
(***************************************************************************)
LEMMA JoinSequences ==
  ASSUME NEW p, \E S : p \in Seq(S), NEW r, \E S : r \in Seq(S)
  PROVE  \E S : p \o r \in Seq(S)
<1>1. PICK S, T : p \in Seq(S) /\ r \in Seq(T)
  OBVIOUS
<1>2. p \in Seq(S \cup T) /\ r \in Seq(S \cup T)
  BY <1>1
<1> QED
  BY <1>2

LEMMA PendingList ==
  ASSUME WireInv, NEW c \in Conns
  PROVE  \E S : Pending(c) \in Seq(S)
<1>1. PICK h, box, r : h = hand[c] /\ box = inbox[c] /\ r = rd[c]
  OBVIOUS
<1>2. PICK S : box \in Seq(S)
  BY <1>1 DEF WireInv
<1>3. <<h>> \in Seq({h}) /\ <<>> \in Seq({h})
  OBVIOUS
<1>4. \E T : (IF r \in {"handling", "selecting"} THEN <<h>> ELSE <<>>) \in Seq(T)
  BY <1>3
<1> QED
  BY <1>1, <1>2, <1>4, JoinSequences DEF Pending

(* What a callback sends goes to the end of what the server has to handle. *)
LEMMA PendingJoins ==
  ASSUME NEW R, NEW p \in Seq(R), NEW S, NEW box \in Seq(S), NEW T, NEW msgs \in Seq(T)
  PROVE  (p \o box) \o msgs = p \o (box \o msgs)
<1> DEFINE U == R \cup S \cup T
<1>1. p \in Seq(U) /\ box \in Seq(U) /\ msgs \in Seq(U)
  OBVIOUS
<1> HIDE DEF U
<1> QED
  BY <1>1, ConcatAssociative

LEMMA PageTalk ==
  ASSUME WInv, UNCHANGED <<cur, want, selEpoch, rd, hand, wr, out, gone, epoch, sock, link>>,
         NEW msgs, \E S : msgs \in Seq(S), Send(msgs), OwnPage(b)',
         NEW q, q = Coming(sock)',
         Listening => Heard(q, b', cur[sock].epoch, link),
         Serving => Agreement(Pending(sock) \o msgs, q, b', cur[sock].epoch, epoch,
                              want[sock], selEpoch[sock])
  PROVE  WireInv' /\ OwnPage(b)' /\ Talk'
<1>1. WireInv /\ (link # "closed" => sock \in Conns) /\ (link = "open" => wr[sock] # "off")
  BY DEF WInv, PInv, LinesInv
<1>2. CASE ~(link = "open" /\ ~gone[sock])
  <2>1. UNCHANGED inbox
    BY <1>2 DEF Send
  <2>2. WireInv'
    BY <1>1, <2>1 DEF WireInv, Unheard
  <2>3. link = "connecting" => Unheard(sock)'
    BY <2>1 DEF WInv, Talk, Unheard
  <2> QED
    BY <1>2, <2>2, <2>3 DEF Talk, Listening, Serving
<1>3. CASE link = "open" /\ ~gone[sock]
  <2>1. PICK c \in Conns : c = sock /\ wr[c] # "off"
    BY <1>1, <1>3
  <2>2. inbox' = [inbox EXCEPT ![c] = inbox[c] \o msgs] /\ DOMAIN inbox = Conns
    BY <1>1, <1>3, <2>1 DEF Send, WireInv
  <2>3. DOMAIN inbox' = Conns /\ inbox'[c] = inbox[c] \o msgs /\ \E S : inbox'[c] \in Seq(S)
    BY <1>1, <2>2, JoinSequences DEF WireInv
  <2>4. \A d \in Conns \ {c} : inbox'[d] = inbox[d]
    BY <2>2
  <2>5. WireInv'
    BY <1>1, <2>1, <2>3, <2>4 DEF WireInv, Unheard
  <2>6. Pending(c)' = Pending(c) \o msgs
    <3>1. PICK box, p : /\ box = inbox[c] /\ (\E S : box \in Seq(S))
                        /\ p = IF rd[c] \in {"handling", "selecting"} THEN <<hand[c]>> ELSE <<>>
      BY <1>1 DEF WireInv
    <3>2. \E S : p \in Seq(S)
      <4>1. <<hand[c]>> \in Seq({hand[c]}) /\ <<>> \in Seq({})
        OBVIOUS
      <4> QED
        BY <3>1, <4>1
    <3>3. (p \o box) \o msgs = p \o (box \o msgs)
      <4>1. PICK R, S, T : p \in Seq(R) /\ box \in Seq(S) /\ msgs \in Seq(T)
        BY <3>1, <3>2
      <4> QED
        BY ONLY <4>1, PendingJoins
    <3>4. Pending(c) = p \o box /\ Pending(c)' = p \o (box \o msgs)
      BY <2>3, <3>1 DEF Pending
    <3> QED
      BY <3>3, <3>4
  <2>7. (Listening' => Listening) /\ (Serving' => Serving) /\ link' # "connecting"
    BY <1>3 DEF Listening, Serving
  <2> QED
    BY <2>1, <2>5, <2>6, <2>7 DEF Talk
<1> QED
  BY <1>2, <1>3

\* Two states of the page that have told the server the same.
SameTold(pg2, pg) ==
  /\ pg2.epoch = pg.epoch /\ pg2.watchKey = pg.watchKey /\ pg2.sentCompare = pg.sentCompare
  /\ pg2.selected = pg.selected /\ pg2.missed = pg.missed

LEMMA AgreementKept ==
  ASSUME NEW p, NEW q, NEW pg, NEW e, NEW now, NEW w, NEW s,
         Agreement(p, q, pg, e, now, w, s), NEW pg2, SameTold(pg2, pg)
  PROVE  Agreement(p, q, pg2, e, now, w, s)
<1>1. (ToRenew(q, pg2) <=> ToRenew(q, pg)) /\ (InStep(q, pg2, e) <=> InStep(q, pg, e))
  BY DEF SameTold, ToRenew, InStep
<1> QED
  BY <1>1 DEF SameTold, Agreement, ListAgrees, SelectionAgrees, Excused

(* syncCompare tells the server what it is to stream, if that is new. *)
LEMMA NothingCut == \A max \in Nat \ {0} : Cut(<<>>, max) = <<>>
BY DEF Cut

LEMMA StreamedCut ==
  ASSUME NEW pg, \E S : pg.names \in Seq(S)
  PROVE  /\ Cut(Streamed(pg), MaxCompared) = Streamed(pg)
         /\ DOMAIN pg.tree = {} => Streamed(pg) = <<>>
<1>1. DOMAIN NamesOf(pg.tree) = DOMAIN pg.tree
  BY DEF NamesOf
<1>2. PICK given, names, ids : /\ given = NamesOf(pg.tree) /\ names = pg.names
                               /\ ids = IdsNamed(given, names)
  OBVIOUS
<1>3. Cut(ids, MaxCompared) = ids /\ (DOMAIN given = {} => ids = <<>>)
  BY <1>2, IdsNamedCut
<1>4. Cut(<<>>, MaxCompared) = <<>>
  BY NothingCut, ConnAssumption
<1> QED
  BY <1>1, <1>2, <1>3, <1>4 DEF Streamed, IdsOf

LEMMA SyncTold ==
  ASSUME NEW p, \E S : p \in Seq(S), NEW q, NEW pg, DOMAIN pg = PageFields,
         \E S : pg.names \in Seq(S), NEW e, NEW now, NEW w, NEW s,
         Agreement(p, q, pg, e, now, w, s),
         pg.epoch # 0 /\ Streamed(pg) # pg.sentCompare =>
           pg.epoch \in 1..e /\ (pg.epoch = e => InStep(q, pg, e)),
         NEW pg2, pg2 = SyncCompare(pg)
  PROVE  Agreement(p \o SyncSends(pg), q, pg2, e, now, w, s)
<1>1. PICK S : p \in Seq(S)
  OBVIOUS
<1>2. p \o <<>> = p
  BY <1>1
<1>3. CASE pg.epoch = 0
  BY <1>2, <1>3 DEF SyncSends, SyncCompare
<1>4. CASE pg.epoch # 0
  <2>1. \E ids, values : pg2 = [pg EXCEPT !.ids = ids, !.values = values, !.sentCompare = Streamed(pg)]
    BY <1>4 DEF SyncCompare
  <2>2. /\ pg2.epoch = pg.epoch /\ pg2.watchKey = pg.watchKey /\ pg2.sentCompare = Streamed(pg)
        /\ pg2.selected = pg.selected /\ pg2.missed = pg.missed
    BY <2>1 DEF PageFields
  <2>3. CASE Streamed(pg) = pg.sentCompare
    <3>1. SameTold(pg2, pg)
      BY <2>2, <2>3 DEF SameTold
    <3> QED
      BY <1>2, <2>3, <3>1, AgreementKept DEF SyncSends
  <2>4. CASE Streamed(pg) # pg.sentCompare
    <3>1. PICK m, p2, list : m = CompareMsg(pg.epoch, list) /\ p2 = Append(p, m) /\ list = Streamed(pg)
      OBVIOUS
    <3>2. p \o SyncSends(pg) = p2
      <4>1. SyncSends(pg) = <<m>>
        BY <1>4, <2>4, <3>1 DEF SyncSends
      <4>2. p \in Seq(S \cup {m}) /\ m \in S \cup {m}
        BY <1>1
      <4> QED
        BY <3>1, <4>1, <4>2
    <3>3. Joined(p2, p, m)
      BY <3>1, AppendJoins
    <3>4. m.t = "compare" /\ m.epoch = pg.epoch /\ m.ids = list /\ Cut(m.ids, MaxCompared) = list
      BY <3>1, StreamedCut DEF CompareMsg
    <3>5. /\ ListAgrees(p, "watch", MaxWatchedRows, q, pg, e, w.watch, Cut(pg.watchKey, MaxWatchedRows))
          /\ ListAgrees(p, "compare", MaxCompared, q, pg, e, w.compare, pg.sentCompare)
          /\ SelectionAgrees(p, q, pg, e, now, w.selected, s)
      BY DEF Agreement
    <3>6. ListAgrees(p2, "watch", MaxWatchedRows, q, pg, e, w.watch, Cut(pg.watchKey, MaxWatchedRows))
      BY <3>3, <3>4, <3>5, ListPassesOther
    <3>7. m.epoch \in 1..e /\ (pg.epoch = e => InStep(q, pg, e))
      BY <1>4, <2>4, <3>4
    <3>8. ListAgrees(p2, "compare", MaxCompared, q, pg, e, w.compare, list)
      BY <3>3, <3>4, <3>5, <3>7, ListTold
    <3>9. SelectionAgrees(p2, q, pg, e, now, w.selected, s)
      BY <3>3, <3>4, <3>5, SelectionPassesOther
    <3>10. (ToRenew(q, pg2) <=> ToRenew(q, pg)) /\ (InStep(q, pg2, e) <=> InStep(q, pg, e))
      BY <2>2 DEF ToRenew, InStep
    <3>11. Agreement(p2, q, pg2, e, now, w, s)
      BY <2>2, <3>1, <3>6, <3>8, <3>9, <3>10 DEF Agreement, ListAgrees, SelectionAgrees, Excused
    <3> QED
      BY <3>2, <3>11
  <2> QED
    BY <2>3, <2>4
<1> QED
  BY <1>3, <1>4

\* The server agrees with what the page has told it, at a page that is served.
LEMMA Served ==
  ASSUME WInv, Serving, NEW q, q = Coming(sock), NEW pg, pg = b, NEW e, e = cur[sock].epoch
  PROVE  /\ sock \in Conns /\ \E S : Pending(sock) \in Seq(S)
         /\ Agreement(Pending(sock), q, pg, e, epoch, want[sock], selEpoch[sock])
         /\ Rises(q, pg, e)
         /\ pg.epoch = 0 => DOMAIN pg.tree = {}
         /\ DOMAIN pg.tree # {} /\ pg.epoch # 0 =>
              pg.epoch \in 1..e /\ (pg.epoch = e => InStep(q, pg, e))
<1>1. /\ link = "open" /\ ~gone[sock] /\ wr[sock] \in {"polling", "writing", "waiting"}
      /\ PInv /\ sock \in Conns /\ WireInv
  BY DEF Serving, WInv, PInv, LinesInv
<1>2. Rises(q, pg, e)
  BY <1>1, ComingRises
<1>3. Agreement(Pending(sock), q, pg, e, epoch, want[sock], selEpoch[sock])
  BY DEF WInv, Talk
<1>4. pg.epoch = 0 => DOMAIN pg.tree = {}
  BY <1>1 DEF PInv, PageInv, Blank
<1>5. ASSUME DOMAIN pg.tree # {}, pg.epoch # 0
      PROVE  pg.epoch \in 1..e /\ (pg.epoch = e => InStep(q, pg, e))
  <2>1. pg.epoch \in Nat /\ e \in Nat /\ pg.epoch <= e
    BY <1>2, <1>5 DEF Rises
  <2>2. e # 0
    BY <1>5, <2>1
  <2> QED
    <3>1. pg.epoch = e => InStep(q, pg, e)
      BY <1>2, <1>5, <2>2, SettledInStep
    <3> QED
      BY <1>5, <2>1, <3>1
<1> QED
  BY <1>1, <1>2, <1>3, <1>4, <1>5, PendingList

\* The last sentence of Heard at a page that has not moved.
LEMMA StillHeard ==
  ASSUME NEW q, NEW pg, NEW e, NEW state, Heard(q, pg, e, state), NEW pg2,
         pg2.epoch = pg.epoch,
         pg.epoch # 0 => pg2.sentCompare = Streamed(pg2) \/
                         (pg2.sentCompare = pg.sentCompare /\ Streamed(pg2) = Streamed(pg))
  PROVE  Heard(q, pg2, e, state)
BY DEF Heard

LEMMA RenderTalk ==
  ASSUME WInv, Render
  PROVE  WireInv' /\ OwnPage(b)' /\ Talk'
<1>1. DOMAIN b = PageFields /\ OwnPage(b) /\ (b.epoch = 0 => DOMAIN b.tree = {})
  BY DEF WInv, PInv, PageInv, Blank
<1>2. PICK rows, news, msgs, q, p, pg, pg2, e, now, w, s :
        /\ rows = Ascending(VisibleIds(b)) /\ news = (rows # b.watchKey /\ b.epoch # 0)
        /\ msgs = IF news THEN <<WatchMsg(b.epoch, rows)>> ELSE <<>>
        /\ q = Coming(sock) /\ p = Pending(sock) /\ pg = b /\ pg2 = b'
        /\ e = cur[sock].epoch /\ now = epoch /\ w = want[sock] /\ s = selEpoch[sock]
  OBVIOUS
<1>3. /\ pg2 = [pg EXCEPT !.rows = rows, !.queued = FALSE,
                          !.watchKey = IF news THEN rows ELSE pg.watchKey]
      /\ Send(msgs)
      /\ UNCHANGED <<cur, want, selEpoch, rd, hand, wr, out, gone, epoch, sock, link, down>>
  BY <1>2 DEF Render, ServerUnchanged, storeVars, clientVars
<1>4. /\ pg2.epoch = pg.epoch /\ pg2.tree = pg.tree /\ pg2.names = pg.names /\ pg2.tab = pg.tab
      /\ pg2.sentCompare = pg.sentCompare /\ pg2.selected = pg.selected
      /\ pg2.missed = pg.missed /\ pg2.rows = rows /\ ~pg2.queued
      /\ pg2.watchKey = IF news THEN rows ELSE pg.watchKey
  BY <1>1, <1>2, <1>3 DEF PageFields
<1>5. (news <=> rows # pg.watchKey /\ pg.epoch # 0) /\ Coming(sock)' = q
  BY <1>2, <1>3 DEF Coming
<1>6. DOMAIN pg.tree = {} => rows = <<>>
  <2>1. DOMAIN pg.tree = {} => VisibleIds(b) = {}
    BY <1>2 DEF VisibleIds
  <2> QED
    BY <1>2, <2>1, NothingInView
<1>7. OwnPage(pg2)
  BY <1>1, <1>2, <1>4, <1>5, <1>6 DEF OwnPage
<1>8. Listening => Heard(q, pg2, e, link)
  <2>1. Listening => Heard(q, pg, e, link)
    BY <1>2 DEF WInv, Talk
  <2>2. Streamed(pg2) = Streamed(pg)
    BY <1>4 DEF Streamed
  <2> QED
    BY <1>4, <2>1, <2>2, StillHeard
<1>9. ASSUME Serving
      PROVE  Agreement(p \o msgs, q, pg2, e, now, w, s)
  <2>1. /\ Agreement(p, q, pg, e, now, w, s) /\ (\E S : p \in Seq(S))
        /\ DOMAIN pg.tree # {} /\ pg.epoch # 0 =>
             pg.epoch \in 1..e /\ (pg.epoch = e => InStep(q, pg, e))
    BY <1>2, <1>9, Served
  <2>2. PICK S : p \in Seq(S)
    BY <2>1
  <2>3. CASE ~news
    <3>1. p \o msgs = p
      BY <1>2, <2>2, <2>3
    <3>2. SameTold(pg2, pg)
      BY <1>4, <2>3 DEF SameTold
    <3> QED
      BY <2>1, <3>1, <3>2, AgreementKept
  <2>4. CASE news
    <3>1. PICK m, p2 : m = WatchMsg(pg.epoch, rows) /\ p2 = Append(p, m)
      OBVIOUS
    <3>2. p \o msgs = p2
      <4>1. msgs = <<m>>
        BY <1>2, <2>4, <3>1
      <4>2. p \in Seq(S \cup {m}) /\ m \in S \cup {m}
        BY <2>2
      <4> QED
        BY <3>1, <4>1, <4>2
    <3>3. Joined(p2, p, m)
      BY <2>1, <3>1, AppendJoins
    <3>4. m.t = "watch" /\ m.epoch = pg.epoch /\ m.ids = rows
      BY <3>1 DEF WatchMsg
    <3>5. DOMAIN pg.tree # {} /\ pg.epoch # 0
      BY <1>1, <1>2, <1>5, <1>6, <2>4 DEF OwnPage
    <3>6. m.epoch \in 1..e /\ (pg.epoch = e => InStep(q, pg, e))
      BY <2>1, <3>4, <3>5
    <3>7. /\ ListAgrees(p, "watch", MaxWatchedRows, q, pg, e, w.watch, Cut(pg.watchKey, MaxWatchedRows))
          /\ ListAgrees(p, "compare", MaxCompared, q, pg, e, w.compare, pg.sentCompare)
          /\ SelectionAgrees(p, q, pg, e, now, w.selected, s)
      BY <2>1 DEF Agreement
    <3>8. ListAgrees(p2, "watch", MaxWatchedRows, q, pg, e, w.watch, Cut(rows, MaxWatchedRows))
      BY <3>3, <3>4, <3>6, <3>7, ListTold
    <3>9. ListAgrees(p2, "compare", MaxCompared, q, pg, e, w.compare, pg.sentCompare)
      BY <3>3, <3>4, <3>7, ListPassesOther
    <3>10. SelectionAgrees(p2, q, pg, e, now, w.selected, s)
      BY <3>3, <3>4, <3>7, SelectionPassesOther
    <3>11. (ToRenew(q, pg2) <=> ToRenew(q, pg)) /\ (InStep(q, pg2, e) <=> InStep(q, pg, e))
      BY <1>4 DEF ToRenew, InStep
    <3>12. Agreement(p2, q, pg2, e, now, w, s)
      BY <1>4, <2>4, <3>8, <3>9, <3>10, <3>11 DEF Agreement, ListAgrees, SelectionAgrees, Excused
    <3> QED
      BY <3>2, <3>12
  <2> QED
    BY <2>3, <2>4
<1>10. \E S : msgs \in Seq(S)
  <2>1. <<WatchMsg(b.epoch, rows)>> \in Seq({WatchMsg(b.epoch, rows)}) /\ <<>> \in Seq({})
    OBVIOUS
  <2> QED
    BY <1>2, <2>1
<1>11. /\ OwnPage(b)' /\ q = Coming(sock)'
       /\ Listening => Heard(q, b', cur[sock].epoch, link)
       /\ Serving => Agreement(Pending(sock) \o msgs, q, b', cur[sock].epoch, epoch,
                               want[sock], selEpoch[sock])
  BY <1>2, <1>5, <1>7, <1>8, <1>9
<1> QED
  BY <1>3, <1>10, <1>11, PageTalk

(***************************************************************************)
(* What the user does.                                                     *)
(***************************************************************************)
LEMMA ActTalk ==
  ASSUME WInv, NEW kind, NEW page, NEW msgs, Act(kind, page, msgs), \E S : msgs \in Seq(S),
         OwnPage(page), page.epoch = b.epoch,
         b.epoch # 0 => page.sentCompare = Streamed(page) \/
                        (page.sentCompare = b.sentCompare /\ Streamed(page) = Streamed(b)),
         Serving => Agreement(Pending(sock) \o msgs, Coming(sock), page, cur[sock].epoch, epoch,
                              want[sock], selEpoch[sock])
  PROVE  WireInv' /\ OwnPage(b)' /\ Talk'
<1>1. /\ b' = page /\ Send(msgs)
      /\ UNCHANGED <<cur, want, selEpoch, rd, hand, wr, out, gone, epoch, sock, link, down>>
  BY DEF Act, ServerUnchanged, storeVars, clientVars
<1>2. PICK q, pg, e : q = Coming(sock) /\ pg = b /\ e = cur[sock].epoch
  OBVIOUS
<1>3. Coming(sock)' = q
  BY <1>1, <1>2 DEF Coming
<1>4. Listening => Heard(q, page, e, link)
  <2>1. Listening => Heard(q, pg, e, link)
    BY <1>2 DEF WInv, Talk
  <2> QED
    BY <1>2, <2>1, StillHeard
<1>5. /\ OwnPage(b)' /\ q = Coming(sock)'
      /\ Listening => Heard(q, b', cur[sock].epoch, link)
      /\ Serving => Agreement(Pending(sock) \o msgs, q, b', cur[sock].epoch, epoch,
                              want[sock], selEpoch[sock])
  BY <1>1, <1>2, <1>3, <1>4
<1>6. \E S : msgs \in Seq(S)
  OBVIOUS
<1> QED
  BY <1>1, <1>5, <1>6, PageTalk

LEMMA ScrollTalk ==
  ASSUME WInv, NEW view, Scroll(view)
  PROVE  WireInv' /\ OwnPage(b)' /\ Talk'
<1>1. DOMAIN b = PageFields /\ OwnPage(b)
  BY DEF WInv, PInv, PageInv
<1>2. PICK page, pg : page = [b EXCEPT !.view = view, !.queued = TRUE] /\ pg = b
  OBVIOUS
<1>3. Act("scroll", page, <<>>)
  BY <1>2 DEF Scroll
<1>4. /\ page.epoch = pg.epoch /\ page.tree = pg.tree /\ page.names = pg.names
      /\ page.tab = pg.tab /\ page.sentCompare = pg.sentCompare /\ page.selected = pg.selected
      /\ page.missed = pg.missed /\ page.rows = pg.rows /\ page.queued
      /\ page.watchKey = pg.watchKey
  BY <1>1, <1>2 DEF PageFields
<1>5. OwnPage(page) /\ SameTold(page, pg) /\ Streamed(page) = Streamed(pg)
  BY <1>1, <1>2, <1>4 DEF OwnPage, SameTold, Streamed
<1>6. ASSUME Serving
      PROVE  Agreement(Pending(sock) \o <<>>, Coming(sock), page, cur[sock].epoch, epoch,
                       want[sock], selEpoch[sock])
  <2>1. PICK p, q, e, w, s, now :
          /\ p = Pending(sock) /\ q = Coming(sock) /\ e = cur[sock].epoch /\ now = epoch
          /\ w = want[sock] /\ s = selEpoch[sock]
    OBVIOUS
  <2>2. Agreement(p, q, pg, e, now, w, s) /\ \E S : p \in Seq(S)
    BY <1>2, <1>6, <2>1, Served
  <2>3. p \o <<>> = p
    BY <2>2
  <2>4. Agreement(p, q, page, e, now, w, s)
    BY <1>5, <2>2, AgreementKept
  <2> QED
    BY <2>1, <2>3, <2>4
<1>7. \E S : <<>> \in Seq(S)
  <2>1. <<>> \in Seq({})
    OBVIOUS
  <2> QED
    BY <2>1
<1> QED
  BY <1>2, <1>3, <1>4, <1>5, <1>6, <1>7, ActTalk

LEMMA SelectTalk ==
  ASSUME WInv, NEW id, Select(id)
  PROVE  WireInv' /\ OwnPage(b)' /\ Talk'
<1>1. DOMAIN b = PageFields /\ OwnPage(b) /\ (b.epoch = 0 => DOMAIN b.tree = {})
  BY DEF WInv, PInv, PageInv, Blank
<1>2. PICK page, pg, m :
        /\ page = [b EXCEPT !.selected = id, !.shown = <<>>, !.from = {}, !.queued = TRUE,
                            !.missed = id \notin DOMAIN b.tree]
        /\ pg = b /\ m = SelectMsg(b.epoch, id)
  OBVIOUS
<1>3. Act("select", page, <<m>>) /\ id \in VisibleIds(pg) \cup Range(pg.rows)
  BY <1>2 DEF Select
<1>4. /\ page.epoch = pg.epoch /\ page.tree = pg.tree /\ page.names = pg.names
      /\ page.tab = pg.tab /\ page.sentCompare = pg.sentCompare /\ page.selected = id
      /\ (page.missed <=> id \notin DOMAIN pg.tree) /\ page.rows = pg.rows /\ page.queued
      /\ page.watchKey = pg.watchKey
  BY <1>1, <1>2 DEF PageFields
<1>5. pg.epoch # 0
  <2>1. ASSUME pg.epoch = 0
        PROVE  FALSE
    <3>1. DOMAIN pg.tree = {} /\ pg.rows = <<>>
      BY <1>1, <1>2, <2>1 DEF OwnPage
    <3>2. VisibleIds(pg) = {} /\ Range(<<>>) = {}
      BY <3>1 DEF VisibleIds, Range
    <3> QED
      BY <1>3, <3>1, <3>2
  <2> QED
    BY <2>1
<1>6. OwnPage(page) /\ Streamed(page) = Streamed(pg)
  BY <1>1, <1>2, <1>4, <1>5 DEF OwnPage, Streamed
<1>7. m.t = "select" /\ m.id = id /\ m.epoch = pg.epoch
  BY <1>2 DEF SelectMsg
<1>8. ASSUME Serving
      PROVE  Agreement(Pending(sock) \o <<m>>, Coming(sock), page, cur[sock].epoch, epoch,
                       want[sock], selEpoch[sock])
  <2>1. PICK p, q, e, w, s, now, p2 :
          /\ p = Pending(sock) /\ q = Coming(sock) /\ e = cur[sock].epoch /\ now = epoch
          /\ w = want[sock] /\ s = selEpoch[sock] /\ p2 = Append(p, m)
    OBVIOUS
  <2>2. Agreement(p, q, pg, e, now, w, s) /\ (\E S : p \in Seq(S)) /\ Rises(q, pg, e)
    BY <1>2, <1>8, <2>1, Served
  <2>3. p \o <<m>> = p2
    <3>1. PICK S : p \in Seq(S)
      BY <2>2
    <3>2. p \in Seq(S \cup {m}) /\ m \in S \cup {m}
      BY <3>1
    <3> QED
      BY <2>1, <3>2
  <2>4. Joined(p2, p, m)
    BY <2>1, <2>2, AppendJoins
  <2>5. /\ ListAgrees(p, "watch", MaxWatchedRows, q, pg, e, w.watch, Cut(pg.watchKey, MaxWatchedRows))
        /\ ListAgrees(p, "compare", MaxCompared, q, pg, e, w.compare, pg.sentCompare)
    BY <2>2 DEF Agreement
  <2>6. /\ ListAgrees(p2, "watch", MaxWatchedRows, q, pg, e, w.watch, Cut(pg.watchKey, MaxWatchedRows))
        /\ ListAgrees(p2, "compare", MaxCompared, q, pg, e, w.compare, pg.sentCompare)
    BY <1>7, <2>4, <2>5, ListPassesOther
  <2>7. e = 0 /\ page.selected # NoTopic => page.missed
    <3>1. ASSUME e = 0
          PROVE  DOMAIN pg.tree = {}
      BY <1>5, <2>2, <3>1 DEF Rises
    <3> QED
      BY <1>4, <3>1
  <2>8. SelectionAgrees(p2, q, page, e, now, w.selected, s)
    BY <1>4, <1>7, <2>4, <2>7, SelectionTold
  <2>9. InStep(q, page, e) <=> InStep(q, pg, e)
    BY <1>4 DEF ToRenew, InStep
  <2>10. Agreement(p2, q, page, e, now, w, s)
    BY <1>4, <2>6, <2>8, <2>9 DEF Agreement, ListAgrees
  <2> QED
    BY <2>1, <2>3, <2>10
<1>9. \E S : <<m>> \in Seq(S)
  <2>1. <<m>> \in Seq({m})
    OBVIOUS
  <2> QED
    BY <2>1
<1> QED
  BY <1>2, <1>3, <1>4, <1>6, <1>8, <1>9, ActTalk

\* What syncCompare leaves as it was, and what it makes of the list it has sent.
LEMMA SyncKeeps ==
  ASSUME NEW pg, DOMAIN pg = PageFields, NEW p, p = SyncCompare(pg)
  PROVE  /\ p.epoch = pg.epoch /\ p.tree = pg.tree /\ p.names = pg.names /\ p.tab = pg.tab
         /\ p.rows = pg.rows /\ p.queued = pg.queued /\ p.watchKey = pg.watchKey
         /\ p.selected = pg.selected /\ p.missed = pg.missed
         /\ Streamed(p) = Streamed(pg)
         /\ p.sentCompare = IF pg.epoch = 0 THEN pg.sentCompare ELSE Streamed(pg)
<1>1. CASE pg.epoch = 0
  BY <1>1 DEF SyncCompare
<1>2. CASE pg.epoch # 0
  <2>1. PICK ids, values, sent :
          p = [pg EXCEPT !.ids = ids, !.values = values, !.sentCompare = sent] /\ sent = Streamed(pg)
    BY <1>2 DEF SyncCompare
  <2>2. /\ p.epoch = pg.epoch /\ p.tree = pg.tree /\ p.names = pg.names /\ p.tab = pg.tab
        /\ p.rows = pg.rows /\ p.queued = pg.queued /\ p.watchKey = pg.watchKey
        /\ p.selected = pg.selected /\ p.missed = pg.missed /\ p.sentCompare = sent
    BY <2>1 DEF PageFields
  <2> QED
    BY <1>2, <2>1, <2>2 DEF Streamed
<1> QED
  BY <1>1, <1>2

LEMMA SyncSendsList ==
  ASSUME NEW pg
  PROVE  \E S : SyncSends(pg) \in Seq(S)
<1>1. PICK m : m = CompareMsg(pg.epoch, Streamed(pg))
  OBVIOUS
<1>2. <<m>> \in Seq({m}) /\ <<>> \in Seq({})
  OBVIOUS
<1> QED
  BY <1>1, <1>2 DEF SyncSends

LEMMA SyncOwn ==
  ASSUME NEW pg, DOMAIN pg = PageFields, OwnPage(pg), pg.epoch = 0 => DOMAIN pg.tree = {},
         NEW p, p = SyncCompare(pg)
  PROVE  OwnPage(p)
<1>1. /\ p.epoch = pg.epoch /\ p.tree = pg.tree /\ p.names = pg.names
      /\ p.rows = pg.rows /\ p.queued = pg.queued /\ p.watchKey = pg.watchKey
      /\ p.selected = pg.selected /\ p.missed = pg.missed
      /\ p.sentCompare = IF pg.epoch = 0 THEN pg.sentCompare ELSE Streamed(pg)
  BY SyncKeeps
<1>2. DOMAIN pg.tree = {} => Streamed(pg) = <<>>
  BY StreamedCut DEF OwnPage
<1> QED
  BY <1>1, <1>2 DEF OwnPage

\* The user has changed the compared names or turned to another tab.
LEMMA CompareTalk ==
  ASSUME WInv, NEW kind, NEW names, \E S : names \in Seq(S), NEW tab,
         NEW pg, pg = [b EXCEPT !.queued = TRUE, !.names = names, !.tab = tab],
         Act(kind, SyncCompare(pg), SyncSends(pg))
  PROVE  WireInv' /\ OwnPage(b)' /\ Talk'
<1>1. DOMAIN b = PageFields /\ OwnPage(b) /\ (b.epoch = 0 => DOMAIN b.tree = {})
  BY DEF WInv, PInv, PageInv, Blank
<1>2. /\ DOMAIN pg = PageFields /\ pg.epoch = b.epoch /\ pg.tree = b.tree /\ pg.names = names
      /\ pg.sentCompare = b.sentCompare /\ pg.selected = b.selected
      /\ pg.missed = b.missed /\ pg.rows = b.rows /\ pg.queued /\ pg.watchKey = b.watchKey
  BY <1>1 DEF PageFields
<1>3. PICK page, msgs : page = SyncCompare(pg) /\ msgs = SyncSends(pg)
  OBVIOUS
<1>4. OwnPage(pg) /\ SameTold(pg, b)
  BY <1>1, <1>2 DEF OwnPage, SameTold
<1>5. OwnPage(page)
  BY <1>1, <1>2, <1>3, <1>4, SyncOwn
<1>6. /\ page.epoch = b.epoch
      /\ b.epoch # 0 => page.sentCompare = Streamed(page)
  <2>1. page = SyncCompare(pg) /\ DOMAIN pg = PageFields
    BY <1>2, <1>3
  <2>2. /\ page.epoch = pg.epoch /\ Streamed(page) = Streamed(pg)
        /\ page.sentCompare = IF pg.epoch = 0 THEN pg.sentCompare ELSE Streamed(pg)
    BY ONLY <2>1, SyncKeeps
  <2> QED
    BY <1>2, <2>2
<1>7. ASSUME Serving
      PROVE  Agreement(Pending(sock) \o msgs, Coming(sock), page, cur[sock].epoch, epoch,
                       want[sock], selEpoch[sock])
  <2>1. PICK p, q, e, w, s, now, old :
          /\ p = Pending(sock) /\ q = Coming(sock) /\ e = cur[sock].epoch /\ now = epoch
          /\ w = want[sock] /\ s = selEpoch[sock] /\ old = b
    OBVIOUS
  <2>2. /\ Agreement(p, q, old, e, now, w, s) /\ (\E S : p \in Seq(S))
        /\ DOMAIN old.tree # {} /\ old.epoch # 0 =>
             old.epoch \in 1..e /\ (old.epoch = e => InStep(q, old, e))
    BY <1>7, <2>1, Served
  <2>3. Agreement(p, q, pg, e, now, w, s)
    BY <1>4, <2>1, <2>2, AgreementKept
  <2>4. InStep(q, old, e) => InStep(q, pg, e)
    BY <1>2, <2>1 DEF InStep, ToRenew
  <2>5. ASSUME pg.epoch # 0, Streamed(pg) # pg.sentCompare
        PROVE  pg.epoch \in 1..e /\ (pg.epoch = e => InStep(q, pg, e))
    <3>1. DOMAIN pg.tree # {}
      BY <1>2, <1>4, <2>5, StreamedCut DEF OwnPage
    <3> QED
      BY <1>2, <2>1, <2>2, <2>4, <2>5, <3>1
  <2>6. Agreement(p \o SyncSends(pg), q, page, e, now, w, s)
    BY <1>2, <1>3, <2>2, <2>3, <2>5, SyncTold
  <2> QED
    BY <1>3, <2>1, <2>6
<1>8. Act(kind, page, msgs) /\ \E S : msgs \in Seq(S)
  BY <1>3, SyncSendsList
<1> QED
  BY <1>5, <1>6, <1>7, <1>8, ActTalk

LEMMA UserTalk ==
  ASSUME WInv, User
  PROVE  WireInv' /\ OwnPage(b)' /\ Talk'
<1>1. DOMAIN b = PageFields /\ \E S : b.names \in Seq(S)
  BY DEF WInv, PInv, PageInv, OwnPage
<1>2. CASE \E view \in Views : Scroll(view)
  BY <1>2, ScrollTalk
<1>3. CASE \E id \in TopicIds \cup Range(b.rows) : Select(id)
  BY <1>3, SelectTalk
<1>4. CASE \E name \in Names : ToggleCompare(name)
  <2>1. PICK name \in Names : ToggleCompare(name)
    BY <1>4
  <2>2. PICK old, kept, shorter, longer :
          /\ old = b.names /\ kept = {i \in DOMAIN old : old[i] # name}
          /\ shorter = ElementsAt(old, kept) /\ longer = Append(old, name)
    OBVIOUS
  <2>3. \E S : shorter \in Seq(S)
    <3>1. IsFiniteSet(kept)
      BY <1>1, <2>2, IndicesFinite
    <3> QED
      BY <2>2, <3>1, ElementsAtList
  <2>4. \E S : longer \in Seq(S)
    BY <1>1, <2>2, AppendJoins
  <2>5. PICK names : /\ names = IF name \in Range(old) THEN shorter ELSE longer
                     /\ \E S : names \in Seq(S)
    BY <2>3, <2>4
  <2>6. PICK pg : pg = [b EXCEPT !.queued = TRUE, !.names = names]
    OBVIOUS
  <2>7. PICK tab : tab = b.tab /\ pg = [b EXCEPT !.queued = TRUE, !.names = names, !.tab = tab]
    BY <1>1, <2>6 DEF PageFields
  <2>8. Act("compare", SyncCompare(pg), SyncSends(pg))
    BY <2>1, <2>2, <2>5, <2>6 DEF ToggleCompare
  <2> QED
    BY <2>5, <2>7, <2>8, CompareTalk
<1>5. CASE \E tab \in {"topic", "compare"} : ShowTab(tab)
  <2>1. PICK tab : ShowTab(tab)
    BY <1>5
  <2>2. PICK pg : pg = [b EXCEPT !.tab = tab, !.queued = TRUE]
    OBVIOUS
  <2>3. pg = [b EXCEPT !.queued = TRUE, !.names = b.names, !.tab = tab]
    BY <1>1, <2>2 DEF PageFields
  <2>4. Act("tab", SyncCompare(pg), SyncSends(pg))
    BY <2>1, <2>2 DEF ShowTab
  <2>5. PICK names : names = b.names /\ \E S : names \in Seq(S)
    BY <1>1
  <2>6. pg = [b EXCEPT !.queued = TRUE, !.names = names, !.tab = tab]
    BY <2>3, <2>5
  <2> QED
    BY <2>4, <2>5, <2>6, CompareTalk
<1> QED
  BY <1>2, <1>3, <1>4, <1>5 DEF User

-----------------------------------------------------------------------------
(***************************************************************************)
(* What comes from the socket.  A page whose connection opens starts anew, *)
(* and the server has heard nothing on it yet.                             *)
(***************************************************************************)
LEMMA ResetOwn ==
  ASSUME NEW pg, DOMAIN pg = PageFields, OwnPage(pg), NEW p, p = ResetClient(pg)
  PROVE  /\ OwnPage(p) /\ p.epoch = pg.epoch /\ p.names = pg.names /\ p.tab = pg.tab
         /\ p.watchKey = <<>> /\ p.sentCompare = <<>> /\ p.selected = NoTopic /\ ~p.missed
<1>1. /\ p.epoch = pg.epoch /\ p.names = pg.names /\ p.watchKey = <<>> /\ p.sentCompare = <<>>
      /\ p.tab = pg.tab /\ p.selected = NoTopic /\ ~p.missed /\ p.queued /\ p.rows = pg.rows
  BY DEF ResetClient, PageFields
<1> QED
  BY <1>1 DEF OwnPage

LEMMA ResetSendsList ==
  ASSUME NEW pg
  PROVE  \E S : ResetSends(pg) \in Seq(S)
<1>1. PICK m : m = SelectMsg(pg.epoch, NoTopic)
  OBVIOUS
<1>2. <<m>> \in Seq({m}) /\ <<>> \in Seq({})
  OBVIOUS
<1> QED
  BY <1>1, <1>2 DEF ResetSends

LEMMA OnOpenTalk ==
  ASSUME WInv, OnOpen
  PROVE  WireInv' /\ OwnPage(b)' /\ Talk'
<1>1. /\ DOMAIN b = PageFields /\ OwnPage(b) /\ WireInv /\ link = "connecting"
      /\ wr[sock] # "off" /\ ~gone[sock] /\ sock \in Conns
  BY DEF WInv, PInv, PageInv, LinesInv, OnOpen
<1>2. /\ link' = "open" /\ b' = ResetClient(b)
      /\ inbox' = [inbox EXCEPT ![sock] = @ \o ResetSends(b)]
      /\ UNCHANGED <<cur, want, selEpoch, rd, hand, wr, out, gone, epoch, sock, down>>
  BY DEF OnOpen, ServerUnchanged, storeVars, clientVars
<1>3. PICK c, q, pg, pg2, e, now, w, s, msgs :
        /\ c \in Conns /\ c = sock /\ q = Coming(sock) /\ pg = b /\ pg2 = b' /\ e = cur[sock].epoch
        /\ now = epoch /\ w = want[sock] /\ s = selEpoch[sock] /\ msgs = ResetSends(b)
  BY <1>1
<1>4. Unheard(c)
  BY <1>1, <1>3 DEF WInv, Talk
<1>5. \E S : msgs \in Seq(S)
  BY <1>3, ResetSendsList
<1>6. DOMAIN inbox' = Conns /\ inbox'[c] = msgs /\ \A d \in Conns \ {c} : inbox'[d] = inbox[d]
  <2>1. DOMAIN inbox = Conns /\ c \in Conns /\ inbox[c] = <<>>
    BY <1>1, <1>3, <1>4 DEF WireInv, Unheard
  <2>2. <<>> \o msgs = msgs
    BY <1>5
  <2>3. inbox' = [inbox EXCEPT ![c] = inbox[c] \o msgs]
    BY <1>2, <1>3
  <2>4. inbox' = [inbox EXCEPT ![c] = msgs]
    BY <2>1, <2>2, <2>3
  <2> QED
    BY ONLY <2>1, <2>4
<1>7. WireInv'
  BY <1>1, <1>2, <1>3, <1>5, <1>6 DEF WireInv, Unheard
<1>8. /\ OwnPage(pg2) /\ pg2.epoch = pg.epoch /\ pg2.watchKey = <<>> /\ pg2.sentCompare = <<>>
      /\ pg2.selected = NoTopic
  BY <1>1, <1>2, <1>3, ResetOwn
<1>9. Coming(c)' = q /\ Pending(c)' = msgs
  <2>1. Coming(c)' = q
    BY <1>2, <1>3 DEF Coming
  <2>2. Pending(c)' = <<>> \o msgs
    BY <1>2, <1>3, <1>4, <1>6 DEF Pending, Unheard
  <2> QED
    BY <1>5, <2>1, <2>2
<1>10. ASSUME Listening'
       PROVE  Heard(q, pg2, e, "open")
  <2>1. Listening
    BY <1>1, <1>2, <1>10 DEF Listening
  <2>2. Heard(q, pg, e, "connecting")
    BY <1>1, <1>3, <2>1 DEF WInv, Talk
  <2> QED
    BY <2>2 DEF Heard
<1>11. Agreement(msgs, q, pg2, e, now, w, s)
  <2>1. w.watch = <<>> /\ w.compare = <<>> /\ w.selected = NoTopic
    BY <1>3, <1>4 DEF Unheard
  <2>2. \A i \in DOMAIN msgs : msgs[i].t = "select" /\ msgs[i].id = NoTopic
    BY <1>3 DEF ResetSends, SelectMsg
  <2>3. Cut(pg2.watchKey, MaxWatchedRows) = <<>>
    BY <1>8, NothingCut, ConnAssumption
  <2>4. \A kind \in {"watch", "compare"} : Due(msgs, kind, e) = {}
    BY <2>2 DEF Due
  <2>5. \A kind \in {"watch", "compare"} : \A max :
          ListAgrees(msgs, kind, max, q, pg2, e, <<>>, <<>>)
    BY <2>2, <2>4 DEF ListAgrees, WillBe, Greatest
  <2>6. SelectionAgrees(msgs, q, pg2, e, now, w.selected, s)
    BY <1>8, <2>1, <2>2 DEF SelectionAgrees, Selects
  <2> QED
    BY <1>8, <2>1, <2>3, <2>5, <2>6 DEF Agreement
<1>12. Talk'
  <2>1. Listening' => Heard(q, pg2, e, link')
    BY <1>2, <1>10
  <2> QED
    BY <1>2, <1>3, <1>9, <1>11, <2>1 DEF Talk
<1> QED
  BY <1>3, <1>7, <1>8, <1>12

(* A frame is handled: the others move up. *)
LEMMA ComingShifts ==
  ASSUME NEW d, \E S : d \in Seq(S), d # <<>>, NEW u
  PROVE  /\ Shifted(Tail(d), d) /\ Shifted(Append(Tail(d), u), Append(d, u))
         /\ d[1] = Head(d) /\ Append(d, u)[1] = Head(d)
<1>1. PICK S : d \in Seq(S)
  OBVIOUS
<1>2. Shifted(Tail(d), d) /\ Tail(d) \in Seq(S) /\ Head(d) = d[1]
  BY <1>1, TailShifts
<1>3. PICK p, p2, d2 : p = Tail(d) /\ p2 = Append(p, u) /\ d2 = Append(d, u)
  OBVIOUS
<1>4. Joined(p2, p, u) /\ Joined(d2, d, u) /\ (\E T : p2 \in Seq(T)) /\ (\E T : d2 \in Seq(T))
  BY <1>1, <1>2, <1>3, AppendJoins
<1>5. /\ Len(d) \in Nat \ {0} /\ Len(p) = Len(d) - 1 /\ \A j \in 1..Len(p) : p[j] = d[j + 1]
  BY <1>2, <1>3 DEF Shifted
<1>6. /\ DOMAIN p2 = 1..Len(p2) /\ DOMAIN d2 = 1..Len(d2) /\ Len(p2) \in Nat /\ Len(d2) \in Nat
  BY <1>4
<1>7. Len(p2) = Len(d) /\ Len(d2) = Len(d) + 1
  <2>1. d \in Seq(S \cup {u}) /\ p \in Seq(S \cup {u}) /\ u \in S \cup {u}
    BY <1>1, <1>2, <1>3
  <2>2. Len(p2) = Len(p) + 1 /\ Len(d2) = Len(d) + 1
    BY <1>3, <2>1, AppendProperties
  <2> QED
    BY <1>5, <2>2
<1>8. \A j \in 1..Len(p2) : p2[j] = d2[j + 1]
  <2> TAKE j \in 1..Len(p2)
  <2>1. CASE j = Len(d)
    BY <1>4, <1>5, <2>1 DEF Joined
  <2>2. CASE j # Len(d)
    <3>1. j \in 1..Len(p) /\ j + 1 \in 1..Len(d)
      BY <1>5, <1>7, <2>2
    <3> QED
      BY <1>4, <1>5, <3>1 DEF Joined
  <2> QED
    BY <2>1, <2>2
<1>9. Shifted(p2, d2)
  BY <1>5, <1>6, <1>7, <1>8 DEF Shifted
<1>10. d2[1] = d[1]
  BY <1>4, <1>5 DEF Joined
<1> QED
  BY <1>2, <1>3, <1>9, <1>10

\* The page handles the first frame.
LEMMA HandledComing ==
  ASSUME WInv, link = "open", down[sock] # <<>>, NEW page, NEW msgs, Handle(page, msgs)
  PROVE  /\ UNCHANGED <<cur, want, selEpoch, rd, hand, wr, out, gone, epoch, sock, link>>
         /\ Send(msgs) /\ b' = page
         /\ Shifted(Coming(sock)', Coming(sock)) /\ Coming(sock)[1] = Head(down[sock])
<1>1. /\ UNCHANGED <<cur, want, selEpoch, rd, hand, wr, out, gone, epoch, sock, link>>
      /\ Send(msgs) /\ b' = page /\ down' = [down EXCEPT ![sock] = Tail(@)]
  BY DEF Handle, ServerUnchanged, storeVars, clientVars
<1>2. PICK d, u : d = down[sock] /\ u = out[sock] /\ \E S : d \in Seq(S)
  BY DEF WInv, PInv, LinesInv
<1>3. down'[sock] = Tail(d)
  BY <1>1, <1>2 DEF WInv, PInv, LinesInv
<1>4. /\ Shifted(Tail(d), d) /\ Shifted(Append(Tail(d), u), Append(d, u))
      /\ d[1] = Head(d) /\ Append(d, u)[1] = Head(d)
  BY <1>2, ComingShifts
<1> QED
  BY <1>1, <1>2, <1>3, <1>4 DEF Coming

(* The greatest tick stays the greatest when the frames move up. *)
LEMMA GreatestShifts ==
  ASSUME NEW q, NEW q2, Shifted(q2, q)
  PROVE  /\ \A j \in Ticks(q2) : j + 1 \in Ticks(q) /\ q2[j] = q[j + 1]
         /\ \A j : Greatest(Ticks(q2), j) => Greatest(Ticks(q), j + 1)
         /\ Ticks(q2) = {} /\ 1 \in Ticks(q) => Greatest(Ticks(q), 1)
         /\ 1 \notin Ticks(q) /\ Ticks(q2) = {} => Ticks(q) = {}
         /\ \A i \in Ticks(q) : i = 1 \/ \E j \in Ticks(q2) : q2[j] = q[i]
<1>1. /\ \A j \in Ticks(q2) : j \in Nat \ {0} /\ j + 1 \in Ticks(q) /\ q2[j] = q[j + 1]
      /\ \A i \in Ticks(q) : i \in Nat \ {0}
      /\ \A i \in Ticks(q) : i # 1 => i - 1 \in Ticks(q2) /\ q2[i - 1] = q[i]
  BY FramesShift
<1>2. ASSUME NEW j, Greatest(Ticks(q2), j)
      PROVE  Greatest(Ticks(q), j + 1)
  <2>1. j \in Nat /\ j + 1 \in Ticks(q)
    BY <1>1, <1>2 DEF Greatest
  <2>2. ASSUME NEW i \in Ticks(q)
        PROVE  i <= j + 1
    <3>1. CASE i = 1
      BY <2>1, <3>1
    <3>2. CASE i # 1
      <4>1. i - 1 <= j /\ i \in Nat
        BY <1>1, <1>2, <3>2 DEF Greatest
      <4> QED
        BY <2>1, <4>1
    <3> QED
      BY <3>1, <3>2
  <2> QED
    BY <2>1, <2>2 DEF Greatest
<1>3. Ticks(q2) = {} => \A i \in Ticks(q) : i = 1
  BY <1>1
<1> QED
  BY <1>1, <1>2, <1>3 DEF Greatest

LEMMA OnCountsTalk ==
  ASSUME WInv, OnCounts
  PROVE  WireInv' /\ OwnPage(b)' /\ Talk'
<1>1. /\ DOMAIN b = PageFields /\ OwnPage(b) /\ link = "open" /\ down[sock] # <<>>
      /\ Head(down[sock]).t = "counts"
  BY DEF WInv, PInv, PageInv, OnCounts, Receives
<1>2. PICK f, page : /\ f = Head(down[sock])
                     /\ page = [b EXCEPT !.tree = ApplyCounts(@, f.counts), !.queued = TRUE]
                     /\ Handle(page, <<>>)
  BY DEF OnCounts
<1>3. PICK q, q2, p, pg, e, now, w, s :
        /\ q = Coming(sock) /\ q2 = Coming(sock)' /\ p = Pending(sock) /\ pg = b
        /\ e = cur[sock].epoch /\ now = epoch /\ w = want[sock] /\ s = selEpoch[sock]
  OBVIOUS
<1>4. /\ UNCHANGED <<cur, want, selEpoch, rd, hand, wr, out, gone, epoch, sock, link>>
      /\ Send(<<>>) /\ b' = page /\ Shifted(q2, q) /\ q[1] = f
  BY <1>1, <1>2, <1>3, HandledComing
<1>5. 1 \notin Ticks(q)
  BY <1>1, <1>2, <1>4 DEF Ticks
<1>6. PICK tree : tree = ApplyCounts(pg.tree, f.counts)
  OBVIOUS
<1>7. /\ page.epoch = pg.epoch /\ page.tree = tree /\ page.names = pg.names
      /\ page.tab = pg.tab /\ page.sentCompare = pg.sentCompare /\ page.selected = pg.selected
      /\ page.missed = pg.missed /\ page.rows = pg.rows /\ page.queued
      /\ page.watchKey = pg.watchKey
  BY <1>1, <1>2, <1>3, <1>6 DEF PageFields
<1>8. DOMAIN tree = DOMAIN pg.tree /\ NamesOf(tree) = NamesOf(pg.tree)
  <2>1. \A id \in DOMAIN pg.tree : DOMAIN pg.tree[id] = {"name", "count"}
    BY <1>3 DEF WInv, PInv, PageInv
  <2>2. DOMAIN tree = DOMAIN pg.tree
    BY <1>6 DEF ApplyCounts
  <2>3. \A id \in DOMAIN tree : tree[id].name = pg.tree[id].name
    BY <1>6, <2>1 DEF ApplyCounts
  <2> QED
    BY <2>2, <2>3 DEF NamesOf
<1>9. OwnPage(page) /\ SameTold(page, pg) /\ Streamed(page) = Streamed(pg)
  BY <1>1, <1>3, <1>7, <1>8 DEF OwnPage, SameTold, Streamed, IdsOf
<1>10. /\ ToRenew(q2, pg) <=> ToRenew(q, pg)
       /\ \A state : Heard(q, pg, e, state) => Heard(q2, pg, e, state)
  <2>1. /\ \A j \in Ticks(q2) : j + 1 \in Ticks(q) /\ q2[j] = q[j + 1]
        /\ \A j : Greatest(Ticks(q2), j) => Greatest(Ticks(q), j + 1)
        /\ Ticks(q2) = {} => Ticks(q) = {}
        /\ \A i \in Ticks(q) : \E j \in Ticks(q2) : q2[j] = q[i]
    BY <1>4, <1>5, GreatestShifts
  <2>2. ToRenew(q2, pg) <=> ToRenew(q, pg)
    BY <2>1 DEF ToRenew
  <2>3. \A j : Greatest(Ticks(q2), j) => j + 1 \in DOMAIN q /\ q2[j] = q[j + 1]
    BY <2>1 DEF Greatest, Ticks
  <2> QED
    BY <2>1, <2>2, <2>3 DEF Heard
<1>11. Listening => Heard(q2, page, e, link)
  <2>1. Listening => Heard(q2, pg, e, link)
    BY <1>3, <1>10 DEF WInv, Talk
  <2> QED
    BY <1>7, <1>9, <2>1, StillHeard
<1>12. ASSUME Serving
       PROVE  Agreement(p \o <<>>, q2, page, e, now, w, s)
  <2>1. Agreement(p, q, pg, e, now, w, s) /\ \E S : p \in Seq(S)
    BY <1>3, <1>12, Served
  <2>2. p \o <<>> = p
    BY <2>1
  <2>3. InStep(q2, pg, e) <=> InStep(q, pg, e)
    BY <1>10 DEF InStep
  <2>4. Agreement(p, q2, pg, e, now, w, s)
    BY <1>10, <2>1, <2>3 DEF Agreement, ListAgrees, SelectionAgrees, Excused
  <2>5. Agreement(p, q2, page, e, now, w, s)
    BY <1>9, <2>4, AgreementKept
  <2> QED
    BY <2>2, <2>5
<1>13. \E S : <<>> \in Seq(S)
  <2>1. <<>> \in Seq({})
    OBVIOUS
  <2> QED
    BY <2>1
<1>14. /\ OwnPage(b)' /\ q2 = Coming(sock)'
       /\ Listening => Heard(q2, b', cur[sock].epoch, link)
       /\ Serving => Agreement(Pending(sock) \o <<>>, q2, b', cur[sock].epoch, epoch,
                               want[sock], selEpoch[sock])
  BY <1>3, <1>4, <1>9, <1>11, <1>12
<1> QED
  BY <1>4, <1>13, <1>14, PageTalk

(***************************************************************************)
(* A tick makes the page start anew, or goes on with what the page knows.  *)
(***************************************************************************)
LEMMA StartedFields ==
  ASSUME NEW pg, DOMAIN pg = PageFields, OwnPage(pg), pg.epoch = 0 => DOMAIN pg.tree = {},
         NEW t, NEW p, p = Started(pg, t)
  PROVE  /\ DOMAIN p = PageFields /\ p.epoch = t.epoch
         /\ p.names = pg.names /\ p.tab = pg.tab /\ p.rows = pg.rows
         /\ GoesOn(pg, t) =>
              /\ p.tree = pg.tree /\ p.watchKey = pg.watchKey /\ p.sentCompare = pg.sentCompare
              /\ p.selected = pg.selected /\ p.missed = pg.missed
         /\ ~GoesOn(pg, t) =>
              p.watchKey = <<>> /\ p.sentCompare = <<>> /\ p.selected = NoTopic
<1>1. CASE GoesOn(pg, t)
  <2>1. ForEpoch(pg, t) = pg
    BY <1>1 DEF GoesOn, ForEpoch
  <2>2. p = [pg EXCEPT !.era = t.era]
    BY <2>1 DEF Started
  <2> QED
    BY <1>1, <2>2 DEF GoesOn, PageFields
<1>2. CASE ~GoesOn(pg, t)
  <2>1. PICK r : r = IF pg.epoch = 0 THEN pg ELSE ResetClient(pg)
    OBVIOUS
  <2>2. /\ DOMAIN r = PageFields /\ r.names = pg.names /\ r.tab = pg.tab /\ r.rows = pg.rows
        /\ r.watchKey = <<>> /\ r.sentCompare = <<>> /\ r.selected = NoTopic
    <3>1. CASE pg.epoch = 0
      BY <2>1, <3>1 DEF OwnPage
    <3>2. CASE pg.epoch # 0
      <4>1. r = ResetClient(pg)
        BY <2>1, <3>2
      <4> QED
        BY <4>1 DEF ResetClient, PageFields
    <3> QED
      BY <3>1, <3>2
  <2>3. ForEpoch(pg, t) = [r EXCEPT !.epoch = t.epoch]
    BY <1>2, <2>1 DEF GoesOn, ForEpoch
  <2>4. p = [[r EXCEPT !.epoch = t.epoch] EXCEPT !.era = t.era]
    BY <2>3 DEF Started
  <2>5. /\ DOMAIN p = PageFields /\ p.epoch = t.epoch /\ p.names = r.names /\ p.tab = r.tab
        /\ p.rows = r.rows /\ p.watchKey = r.watchKey /\ p.sentCompare = r.sentCompare
        /\ p.selected = r.selected
    BY <2>2, <2>4 DEF PageFields
  <2> QED
    BY <1>2, <2>2, <2>5
<1> QED
  BY <1>1, <1>2

LEMMA StartedAgrees ==
  ASSUME NEW p, \E S : p \in Seq(S), NEW q, NEW pg, NEW e, NEW now, NEW w, NEW s,
         Agreement(p, q, pg, e, now, w, s), Rises(q, pg, e),
         DOMAIN pg = PageFields, OwnPage(pg), pg.epoch = 0 => DOMAIN pg.tree = {},
         1 \in Ticks(q), NEW q2, Shifted(q2, q), NEW t, t = q[1],
         NEW start, start = Started(pg, t)
  PROVE  Agreement(p \o ForEpochSends(pg, t), q2, start, e, now, w, s)
<1>1. PICK S : p \in Seq(S)
  OBVIOUS
<1>2. p \o <<>> = p
  BY <1>1
<1>3. /\ start.epoch = t.epoch
      /\ GoesOn(pg, t) =>
           /\ start.watchKey = pg.watchKey /\ start.sentCompare = pg.sentCompare
           /\ start.selected = pg.selected /\ start.missed = pg.missed
      /\ ~GoesOn(pg, t) =>
           start.watchKey = <<>> /\ start.sentCompare = <<>> /\ start.selected = NoTopic
  BY StartedFields
<1>4. /\ ListAgrees(p, "watch", MaxWatchedRows, q, pg, e, w.watch, Cut(pg.watchKey, MaxWatchedRows))
      /\ ListAgrees(p, "compare", MaxCompared, q, pg, e, w.compare, pg.sentCompare)
      /\ SelectionAgrees(p, q, pg, e, now, w.selected, s)
  BY DEF Agreement
<1>5. CASE GoesOn(pg, t)
  <2>1. /\ \A j \in Ticks(q2) : j + 1 \in Ticks(q) /\ q2[j] = q[j + 1]
        /\ \A i \in Ticks(q) : i = 1 \/ \E j \in Ticks(q2) : q2[j] = q[i]
    BY GreatestShifts
  <2>2. ~q[1].reset /\ q[1].epoch = pg.epoch /\ start.epoch = pg.epoch
    BY <1>3, <1>5 DEF GoesOn
  <2>3. (ToRenew(q2, start) <=> ToRenew(q, pg)) /\ (InStep(q2, start, e) <=> InStep(q, pg, e))
    BY <2>1, <2>2 DEF ToRenew, InStep
  <2>4. Agreement(p, q2, start, e, now, w, s)
    BY <1>3, <1>4, <1>5, <2>2, <2>3 DEF Agreement, ListAgrees, SelectionAgrees, Excused
  <2>5. ForEpochSends(pg, t) = <<>>
    BY <1>5 DEF GoesOn, ForEpochSends
  <2> QED
    BY <1>2, <2>4, <2>5
<1>6. CASE ~GoesOn(pg, t)
  <2>1. ToRenew(q, pg) /\ ~InStep(q, pg, e)
    BY <1>6 DEF GoesOn, ToRenew, InStep
  <2>2. /\ ListAgrees(p, "watch", MaxWatchedRows, q2, start, e, w.watch, <<>>)
        /\ ListAgrees(p, "compare", MaxCompared, q2, start, e, w.compare, <<>>)
    BY <1>4, <2>1, ListStarts
  <2>3. Cut(start.watchKey, MaxWatchedRows) = <<>> /\ start.sentCompare = <<>>
    BY <1>3, <1>6, NothingCut, ConnAssumption
  <2>4. CASE pg.epoch = 0 \/ pg.selected = NoTopic
    <3>1. pg.selected = NoTopic
      BY <2>4 DEF OwnPage
    <3>2. ForEpochSends(pg, t) = <<>>
      BY <3>1 DEF ForEpochSends, ResetSends
    <3>3. SelectionAgrees(p, q2, start, e, now, w.selected, s)
      BY <1>3, <1>4, <1>6, <3>1, SelectionGivenUp
    <3>4. Agreement(p, q2, start, e, now, w, s)
      BY <2>2, <2>3, <3>3 DEF Agreement
    <3> QED
      BY <1>2, <3>2, <3>4
  <2>5. CASE pg.epoch # 0 /\ pg.selected # NoTopic
    <3>1. PICK m, p2 : m = SelectMsg(pg.epoch, NoTopic) /\ p2 = Append(p, m)
      OBVIOUS
    <3>2. ForEpochSends(pg, t) = <<m>>
      BY <1>6, <2>5, <3>1 DEF GoesOn, ForEpochSends, ResetSends
    <3>3. p \o <<m>> = p2
      <4>1. p \in Seq(S \cup {m}) /\ m \in S \cup {m}
        BY <1>1
      <4> QED
        BY <3>1, <4>1
    <3>4. Joined(p2, p, m) /\ m.t = "select" /\ m.id = NoTopic
      BY <3>1, AppendJoins DEF SelectMsg
    <3>5. /\ ListAgrees(p2, "watch", MaxWatchedRows, q2, start, e, w.watch, <<>>)
          /\ ListAgrees(p2, "compare", MaxCompared, q2, start, e, w.compare, <<>>)
      BY <2>2, <3>4, ListPassesOther
    <3>6. SelectionAgrees(p2, q2, start, e, now, w.selected, s)
      BY <1>3, <1>6, <3>4, SelectionTold
    <3>7. Agreement(p2, q2, start, e, now, w, s)
      BY <2>3, <3>5, <3>6 DEF Agreement
    <3> QED
      BY <3>2, <3>3, <3>7
  <2> QED
    BY <2>4, <2>5
<1> QED
  BY <1>5, <1>6

\* What the rest of a tick leaves as it was.
LEMMA NamedFields ==
  ASSUME NEW pg, DOMAIN pg = PageFields, NEW t, NEW p, p = Named(pg, t)
  PROVE  /\ DOMAIN p = PageFields /\ SameTold(p, pg)
         /\ p.names = pg.names /\ p.tab = pg.tab /\ p.rows = pg.rows
         /\ DOMAIN pg.tree \subseteq DOMAIN p.tree
<1>1. PICK tree, values : p = [pg EXCEPT !.tree = tree, !.values = values]
                          /\ tree = AddTopics(pg.tree, t.firstId, t.names)
  BY DEF Named
<1>2. /\ DOMAIN p = PageFields /\ SameTold(p, pg) /\ p.tree = tree
      /\ p.names = pg.names /\ p.tab = pg.tab /\ p.rows = pg.rows
  BY <1>1 DEF PageFields, SameTold
<1>3. DOMAIN pg.tree \subseteq DOMAIN tree
  BY <1>1 DEF AddTopics
<1> QED
  BY <1>2, <1>3

ToDraw(pg) == [pg EXCEPT !.queued = TRUE]

LEMMA ShownFields ==
  ASSUME NEW pg, DOMAIN pg = PageFields, NEW t, NEW new, NEW page,
         page = WithHistory(WithPreviews(pg, new), t),
         NEW p, p = ToDraw(page)
  PROVE  /\ p.epoch = pg.epoch /\ p.sentCompare = pg.sentCompare /\ p.selected = pg.selected
         /\ p.missed = pg.missed /\ p.names = pg.names /\ p.tab = pg.tab /\ p.rows = pg.rows
         /\ p.tree = pg.tree /\ p.queued
         /\ p.watchKey = pg.watchKey \/ p.watchKey = <<>>
<1>1. PICK r : r = WithPreviews(pg, new)
  OBVIOUS
<1>2. \E all : \/ r = [pg EXCEPT !.previews = NoValues, !.watchKey = <<>>]
               \/ r = [pg EXCEPT !.previews = all]
  BY <1>1 DEF WithPreviews
<1>3. /\ DOMAIN r = PageFields
      /\ r.epoch = pg.epoch /\ r.sentCompare = pg.sentCompare /\ r.selected = pg.selected
      /\ r.missed = pg.missed /\ r.names = pg.names /\ r.tab = pg.tab /\ r.rows = pg.rows
      /\ r.tree = pg.tree
      /\ r.watchKey = pg.watchKey \/ r.watchKey = <<>>
  BY <1>2 DEF PageFields
<1>4. page = r \/ \E shown, from : page = [r EXCEPT !.shown = shown, !.from = from]
  BY <1>1 DEF WithHistory
<1>5. /\ DOMAIN page = PageFields
      /\ page.epoch = r.epoch /\ page.sentCompare = r.sentCompare /\ page.selected = r.selected
      /\ page.missed = r.missed /\ page.names = r.names /\ page.tab = r.tab /\ page.rows = r.rows
      /\ page.tree = r.tree /\ page.watchKey = r.watchKey
  BY <1>3, <1>4 DEF PageFields
<1>6. /\ p.epoch = page.epoch /\ p.sentCompare = page.sentCompare /\ p.selected = page.selected
      /\ p.missed = page.missed /\ p.names = page.names /\ p.tab = page.tab /\ p.rows = page.rows
      /\ p.tree = page.tree /\ p.watchKey = page.watchKey /\ p.queued
  BY <1>5 DEF PageFields, ToDraw
<1> QED
  BY <1>3, <1>5, <1>6

\* A page that has forgotten its watch key has told the server less.
LEMMA ForgetfulAgrees ==
  ASSUME NEW p, NEW q, NEW pg, NEW e, NEW now, NEW w, NEW s,
         Agreement(p, q, pg, e, now, w, s), NEW pg2,
         pg2.epoch = pg.epoch, pg2.sentCompare = pg.sentCompare, pg2.selected = pg.selected,
         pg2.missed = pg.missed, pg2.watchKey = pg.watchKey \/ pg2.watchKey = <<>>
  PROVE  Agreement(p, q, pg2, e, now, w, s)
<1>1. CASE pg2.watchKey = pg.watchKey
  BY <1>1, AgreementKept DEF SameTold
<1>2. CASE pg2.watchKey = <<>>
  <2>1. Cut(pg2.watchKey, MaxWatchedRows) = <<>>
    BY <1>2, NothingCut, ConnAssumption
  <2>2. ListAgrees(p, "watch", MaxWatchedRows, q, pg, e, w.watch, <<>>)
    BY ListForgotten DEF Agreement
  <2>3. (ToRenew(q, pg2) <=> ToRenew(q, pg)) /\ (InStep(q, pg2, e) <=> InStep(q, pg, e))
    BY DEF ToRenew, InStep
  <2>4. /\ ListAgrees(p, "compare", MaxCompared, q, pg, e, w.compare, pg.sentCompare)
        /\ SelectionAgrees(p, q, pg, e, now, w.selected, s)
    BY DEF Agreement
  <2> QED
    BY <2>1, <2>2, <2>3, <2>4 DEF Agreement, ListAgrees, SelectionAgrees, Excused
<1> QED
  BY <1>1, <1>2

LEMMA OnTickTalk ==
  ASSUME WInv, OnTick
  PROVE  WireInv' /\ OwnPage(b)' /\ Talk'
<1>1. /\ DOMAIN b = PageFields /\ OwnPage(b) /\ (b.epoch = 0 => DOMAIN b.tree = {})
      /\ link = "open" /\ down[sock] # <<>> /\ Head(down[sock]).t = "tick"
  BY DEF WInv, PInv, PageInv, Blank, OnTick, Receives
<1>2. PICK t, pg, start, known, synced, shown, page, msgs :
        /\ t = Head(down[sock]) /\ pg = b /\ start = Started(pg, t) /\ known = Named(start, t)
        /\ synced = SyncCompare(known)
        /\ shown = WithHistory(WithPreviews(synced, Tagged(t.era, t.previews)), t)
        /\ page = [shown EXCEPT !.queued = TRUE]
        /\ msgs = ForEpochSends(pg, t) \o SyncSends(known)
  OBVIOUS
<1>3. Handle(page, msgs)
  BY <1>2 DEF OnTick, Started, Named
<1>4. PICK q, q2, p, e, now, w, s :
        /\ q = Coming(sock) /\ q2 = Coming(sock)' /\ p = Pending(sock)
        /\ e = cur[sock].epoch /\ now = epoch /\ w = want[sock] /\ s = selEpoch[sock]
  OBVIOUS
<1>5. /\ UNCHANGED <<cur, want, selEpoch, rd, hand, wr, out, gone, epoch, sock, link>>
      /\ Send(msgs) /\ b' = page /\ Shifted(q2, q) /\ q[1] = t
  BY <1>1, <1>2, <1>3, <1>4, HandledComing
<1>6. 1 \in Ticks(q)
  <2>1. 1 \in DOMAIN q
    BY <1>5 DEF Shifted
  <2> QED
    BY <1>1, <1>2, <1>5, <2>1 DEF Ticks
<1>7. t.epoch \in Nat \ {0}
  <2>1. PICK d : d = down[sock] /\ d # <<>> /\ \E S : d \in Seq(S)
    BY <1>1 DEF WInv, PInv, LinesInv
  <2>2. d[1] = t /\ 1 \in DOMAIN d
    BY <1>2, <2>1
  <2>3. PICK r \in 0..restarts : Ordered(d, b, r)
    BY <1>1, <2>1 DEF WInv, PInv, StreamInv, Receiver
  <2>4. 1 \in Ticks(d)
    BY <1>1, <1>2, <2>2 DEF Ticks
  <2> QED
    BY <2>2, <2>3, <2>4 DEF Ordered, IsUpdate
<1>8. /\ DOMAIN start = PageFields /\ start.epoch = t.epoch
      /\ start.names = pg.names /\ start.rows = pg.rows
      /\ GoesOn(pg, t) =>
           /\ start.tree = pg.tree /\ start.watchKey = pg.watchKey
           /\ start.sentCompare = pg.sentCompare
           /\ start.selected = pg.selected /\ start.missed = pg.missed
      /\ ~GoesOn(pg, t) =>
           start.watchKey = <<>> /\ start.sentCompare = <<>> /\ start.selected = NoTopic
  BY <1>1, <1>2, StartedFields
<1>9. /\ DOMAIN known = PageFields /\ SameTold(known, start) /\ known.names = start.names
      /\ known.rows = start.rows /\ DOMAIN start.tree \subseteq DOMAIN known.tree
  BY <1>2, <1>8, NamedFields
<1>10. /\ known.epoch = t.epoch /\ (\E S : known.names \in Seq(S))
       /\ known.watchKey # <<>> \/ known.sentCompare # <<>> => DOMAIN known.tree # {}
       /\ ~known.missed /\ known.selected # NoTopic => known.selected \in DOMAIN known.tree
  BY <1>1, <1>2, <1>8, <1>9 DEF OwnPage, SameTold
<1>11. /\ synced.epoch = known.epoch /\ synced.tree = known.tree /\ synced.names = known.names
       /\ synced.tab = known.tab /\ synced.watchKey = known.watchKey
       /\ synced.selected = known.selected /\ synced.missed = known.missed
       /\ Streamed(synced) = Streamed(known) /\ synced.sentCompare = Streamed(known)
       /\ DOMAIN synced = PageFields
  <2>1. synced = SyncCompare(known) /\ DOMAIN known = PageFields /\ known.epoch # 0
    BY <1>2, <1>7, <1>9, <1>10
  <2>2. DOMAIN synced = PageFields
    BY ONLY <2>1, SyncFields
  <2>3. /\ synced.epoch = known.epoch /\ synced.tree = known.tree /\ synced.names = known.names
        /\ synced.tab = known.tab /\ synced.watchKey = known.watchKey
        /\ synced.selected = known.selected /\ synced.missed = known.missed
        /\ Streamed(synced) = Streamed(known) /\ synced.sentCompare = Streamed(known)
    BY ONLY <2>1, SyncKeeps
  <2> QED
    BY <2>2, <2>3
<1>12. /\ page.epoch = synced.epoch /\ page.sentCompare = synced.sentCompare
       /\ page.selected = synced.selected /\ page.missed = synced.missed
       /\ page.names = synced.names /\ page.tab = synced.tab
       /\ page.tree = synced.tree /\ page.queued
       /\ page.watchKey = synced.watchKey \/ page.watchKey = <<>>
  <2>1. PICK new : shown = WithHistory(WithPreviews(synced, new), t)
    BY <1>2
  <2>2. page = ToDraw(shown)
    BY <1>2 DEF ToDraw
  <2>3. DOMAIN synced = PageFields
    BY <1>11
  <2> QED
    BY ONLY <2>1, <2>2, <2>3, ShownFields
<1>13. DOMAIN known.tree = {} => Streamed(known) = <<>>
  <2>1. \E S : known.names \in Seq(S)
    BY <1>10
  <2> QED
    BY ONLY <2>1, StreamedCut
<1>14. OwnPage(page)
  BY <1>7, <1>10, <1>11, <1>12, <1>13 DEF OwnPage
<1>15. page.epoch = t.epoch /\ page.sentCompare = Streamed(page)
  BY <1>10, <1>11, <1>12 DEF Streamed
<1>16. ASSUME Listening
       PROVE  Heard(q2, page, e, link)
  <2>1. Heard(q, pg, e, link)
    BY <1>2, <1>4, <1>16 DEF WInv, Talk
  <2>2. /\ \A j \in Ticks(q2) : j + 1 \in Ticks(q) /\ q2[j] = q[j + 1]
        /\ \A j : Greatest(Ticks(q2), j) => Greatest(Ticks(q), j + 1)
        /\ Ticks(q2) = {} => Greatest(Ticks(q), 1)
    BY <1>5, <1>6, GreatestShifts
  <2>3. \A i : Greatest(Ticks(q), i) => i \in DOMAIN q /\ q[i].epoch = e
    BY <2>1 DEF Heard, Greatest, Ticks
  <2>4. Ticks(q2) = {} => t.epoch = e
    BY <1>5, <2>2, <2>3
  <2>5. \A j : Greatest(Ticks(q2), j) => q2[j].epoch = e
    BY <2>2, <2>3 DEF Greatest
  <2> QED
    BY <1>1, <1>15, <2>4, <2>5 DEF Heard
<1>17. ASSUME Serving
       PROVE  Agreement(p \o msgs, q2, page, e, now, w, s)
  <2>1. Agreement(p, q, pg, e, now, w, s) /\ (\E S : p \in Seq(S)) /\ Rises(q, pg, e)
    BY <1>2, <1>4, <1>17, Served
  <2>2. PICK m1, m2, p1 : /\ m1 = ForEpochSends(pg, t) /\ m2 = SyncSends(known) /\ p1 = p \o m1
                          /\ (\E S : m1 \in Seq(S)) /\ (\E S : m2 \in Seq(S))
    <3>1. \E S : ForEpochSends(pg, t) \in Seq(S)
      <4>1. <<>> \in Seq({})
        OBVIOUS
      <4> QED
        BY <4>1, ResetSendsList DEF ForEpochSends
    <3> QED
      BY <3>1, SyncSendsList
  <2>3. Agreement(p1, q2, start, e, now, w, s)
    BY <1>1, <1>2, <1>5, <1>6, <2>1, <2>2, StartedAgrees
  <2>4. Agreement(p1, q2, known, e, now, w, s)
    BY <1>9, <2>3, AgreementKept
  <2>5. known.epoch \in 1..e /\ (known.epoch = e => InStep(q2, known, e))
    <3>1. InStep(q2, known, e) <=> q[1].epoch = e
      BY <1>5, <1>6, <1>10, <2>1, InStepAfterTick
    <3>2. t.epoch \in 1..e
      BY <1>5, <1>6, <2>1 DEF Rises
    <3> QED
      BY <1>5, <1>10, <3>1, <3>2
  <2>6. \E S : p1 \in Seq(S)
    BY <2>1, <2>2, JoinSequences
  <2>7. Agreement(p1 \o m2, q2, synced, e, now, w, s)
    <3>1. /\ DOMAIN known = PageFields /\ (\E S : known.names \in Seq(S))
          /\ synced = SyncCompare(known) /\ m2 = SyncSends(known)
      BY <1>2, <1>9, <1>10, <2>2
    <3> QED
      BY ONLY <2>4, <2>5, <2>6, <3>1, SyncTold
  <2>8. p1 \o m2 = p \o msgs
    <3>1. PICK R, S, T : p \in Seq(R) /\ m1 \in Seq(S) /\ m2 \in Seq(T)
      BY <2>1, <2>2
    <3>2. (p \o m1) \o m2 = p \o (m1 \o m2)
      BY ONLY <3>1, PendingJoins
    <3> QED
      BY <1>2, <2>2, <3>2
  <2>9. Agreement(p1 \o m2, q2, page, e, now, w, s)
    BY <1>12, <2>7, ForgetfulAgrees
  <2> QED
    BY <2>8, <2>9
<1>18. \E S : msgs \in Seq(S)
  <2>1. \E S : ForEpochSends(pg, t) \in Seq(S)
    <3>1. <<>> \in Seq({})
      OBVIOUS
    <3> QED
      BY <3>1, ResetSendsList DEF ForEpochSends
  <2>2. \E S : SyncSends(known) \in Seq(S)
    BY SyncSendsList
  <2> QED
    BY <1>2, <2>1, <2>2, JoinSequences
<1>19. /\ OwnPage(b)' /\ q2 = Coming(sock)'
       /\ Listening => Heard(q2, b', cur[sock].epoch, link)
       /\ Serving => Agreement(Pending(sock) \o msgs, q2, b', cur[sock].epoch, epoch,
                               want[sock], selEpoch[sock])
  BY <1>4, <1>5, <1>14, <1>16, <1>17
<1> QED
  BY <1>5, <1>18, <1>19, PageTalk

-----------------------------------------------------------------------------
(***************************************************************************)
(* The invariant holds always.                                             *)
(***************************************************************************)
LEMMA InitWInv == Init => WInv
<1> SUFFICES ASSUME Init
             PROVE  WInv
  OBVIOUS
<1>1. PInv
  BY InitPInv
<1>2. /\ DOMAIN rd = Conns /\ DOMAIN hand = Conns /\ DOMAIN want = Conns
      /\ DOMAIN selEpoch = Conns /\ DOMAIN inbox = Conns
      /\ \A c \in Conns : rd[c] = "off" /\ inbox[c] = <<>> /\ want[c] = NoWant
      /\ link = "closed" /\ b = FreshPage(FirstView)
  BY DEF Init, ConnInit
<1>3. WireInv
  <2>1. <<>> \in Seq({})
    OBVIOUS
  <2>2. /\ DOMAIN NoWant = WantFields /\ NoWant.watch = <<>> /\ NoWant.compare = <<>>
        /\ NoWant.selected = NoTopic
    BY DEF NoWant, WantFields
  <2> QED
    BY <1>2, <2>1, <2>2 DEF WireInv, Unheard
<1>4. OwnPage(b)
  <2>1. /\ b.names = <<>> /\ b.watchKey = <<>> /\ b.sentCompare = <<>> /\ b.selected = NoTopic
        /\ b.epoch = 0 /\ b.rows = <<>>
    BY <1>2 DEF FreshPage
  <2>2. <<>> \in Seq({})
    OBVIOUS
  <2> QED
    BY <2>1, <2>2 DEF OwnPage
<1>5. Talk
  BY <1>2 DEF Talk, Listening, Serving
<1> QED
  BY <1>1, <1>3, <1>4, <1>5 DEF WInv

LEMMA NextWInv ==
  ASSUME WInv, [Next]_vars
  PROVE  WInv'
<1>1. PInv'
  BY NextPInv DEF WInv
<1> SUFFICES WireInv' /\ OwnPage(b)' /\ Talk'
  BY <1>1 DEF WInv
<1>2. ASSUME NEW name \in Names, Publish(name)
      PROVE  WireInv' /\ OwnPage(b)' /\ Talk'
  <2>1. UNCHANGED epoch
    BY <1>2 DEF Publish, Ingest, IngestDropped, IngestNew, IngestKnown
  <2> QED
    BY <1>2, <2>1, StoreStepTalk DEF Publish
<1>3. CASE Clear
  BY <1>3, ClearTalk
<1>4. CASE Restart
  BY <1>4, RestartTalk
<1>5. CASE ConnectWS \/ ConnectionLost
  BY <1>5, OpeningTalk
<1>6. CASE SocketEvent
  BY <1>6, OpeningTalk, OnOpenTalk, OnTickTalk, OnCountsTalk DEF SocketEvent
<1>7. CASE Render
  BY <1>7, RenderTalk
<1>8. CASE User
  BY <1>8, UserTalk
<1>9. ASSUME NEW c \in Conns, ReaderStep(c)
      PROVE  WireInv' /\ OwnPage(b)' /\ Talk'
  BY <1>9, ReaderTalk
<1>10. ASSUME NEW c \in Conns, WriterStep(c) \/ FailingWrite(c)
       PROVE  WireInv' /\ OwnPage(b)' /\ Talk'
  BY <1>10, WriterTalk
<1>11. CASE UNCHANGED vars
  <2>1. UNCHANGED <<connVars, pageVars, epoch>>
    BY <1>11 DEF vars, storeVars
  <2> QED
    BY <2>1, StoreStepTalk
<1> QED
  BY <1>2, <1>3, <1>4, <1>5, <1>6, <1>7, <1>8, <1>9, <1>10, <1>11 DEF Next

(***************************************************************************)
(* What the page has told the server is never lost track of: its last      *)
(* watch, compare and select message, or what was made of it, is what the  *)
(* page thinks it has sent, until a tick that makes the page start anew    *)
(* (app.js:129-151, ws.go:165-220).                                        *)
(***************************************************************************)
THEOREM WantsInvariance == Spec => []WInv
<1>1. Init => WInv
  BY InitWInv
<1>2. WInv /\ [Next]_vars => WInv'
  BY NextWInv
<1> QED
  BY <1>1, <1>2, PTL DEF Spec

(***************************************************************************)
(* When nothing is under way, the server's want list is what the page has  *)
(* on screen: no message was dropped for its epoch without the page asking *)
(* again, and none was left out because the page thought it had been sent  *)
(* (app.js:137-142, 336-341, 649-667, ws.go:165-195).                      *)
(***************************************************************************)
THEOREM WantsCorrect == Spec => []WantsAgree
<1>1. ASSUME WInv
      PROVE  WantsAgree
  <2> SUFFICES ASSUME Quiet
               PROVE  /\ b.rows # <<>> => want[sock].watch = Cut(b.rows, MaxWatchedRows)
                      /\ want[sock].compare = Streamed(b)
                      /\ ~b.missed => want[sock].selected = b.selected
                      /\ ~b.missed /\ b.selected # NoTopic => selEpoch[sock] = epoch
    BY DEF WantsAgree
  <2>1. PICK p, q, pg, e, now, w, s :
          /\ p = Pending(sock) /\ q = Coming(sock) /\ pg = b /\ e = cur[sock].epoch
          /\ now = epoch /\ w = want[sock] /\ s = selEpoch[sock]
    OBVIOUS
  <2>2. /\ p = <<>> /\ q = <<>> /\ Serving /\ Listening /\ e = now /\ now # 0
        /\ ~pg.queued /\ link = "open"
    <3>1. now \in Nat \ {0}
      BY <1>1, <2>1 DEF WInv, PInv, StoreInv
    <3>2. q = <<>>
      BY <2>1 DEF Quiet, Coming
    <3>3. p = <<>>
      <4>1. p = <<>> \o <<>>
        BY <2>1 DEF Quiet, Pending
      <4> QED
        BY <4>1
    <3> QED
      BY <2>1, <3>1, <3>2, <3>3 DEF Quiet, Serving, Listening
  <2>3. Ticks(q) = {} /\ ~ToRenew(q, pg) /\ Selects(p) = {} /\ \A kind : Due(p, kind, e) = {}
    BY <2>2 DEF Ticks, ToRenew, Selects, Due
  <2>4. pg.epoch = e /\ pg.sentCompare = Streamed(pg)
    <3>1. Heard(q, pg, e, link)
      BY <1>1, <2>1, <2>2 DEF WInv, Talk
    <3> QED
      BY <2>2, <2>3, <3>1 DEF Heard
  <2>5. InStep(q, pg, e)
    BY <2>2, <2>3, <2>4 DEF InStep
  <2>6. /\ ListAgrees(p, "watch", MaxWatchedRows, q, pg, e, w.watch, Cut(pg.watchKey, MaxWatchedRows))
        /\ ListAgrees(p, "compare", MaxCompared, q, pg, e, w.compare, pg.sentCompare)
        /\ SelectionAgrees(p, q, pg, e, now, w.selected, s)
    BY <1>1, <2>1, <2>2 DEF WInv, Talk, Agreement
  <2>7. Cut(pg.watchKey, MaxWatchedRows) = <<>> \/ w.watch = Cut(pg.watchKey, MaxWatchedRows)
    BY <2>3, <2>5, <2>6 DEF ListAgrees, WillBe
  <2>8. w.compare = pg.sentCompare
    BY <2>3, <2>5, <2>6 DEF ListAgrees, WillBe
  <2>9. ~pg.missed => w.selected = pg.selected /\ (pg.selected # NoTopic => s = now)
    BY <2>2, <2>3, <2>6 DEF SelectionAgrees, Excused
  <2>10. pg.watchKey = pg.rows
    BY <1>1, <2>1, <2>2, <2>4 DEF WInv, OwnPage
  <2>11. pg.rows # <<>> => Cut(pg.rows, MaxWatchedRows) # <<>>
    <3>1. Len(SubSeq(pg.rows, 1, MaxWatchedRows)) = MaxWatchedRows /\ MaxWatchedRows # 0
      BY ConnAssumption
    <3>2. SubSeq(pg.rows, 1, MaxWatchedRows) # <<>>
      BY <3>1
    <3> QED
      BY <3>2 DEF Cut
  <2> QED
    BY <2>1, <2>4, <2>7, <2>8, <2>9, <2>10, <2>11
<1> QED
  BY <1>1, WantsInvariance, PTL
-----------------------------------------------------------------------------
(***************************************************************************)
(* Recording.  A topic counts at least the live connections that have it   *)
(* selected.  It may count more: a poll after a reset drops the want list  *)
(* and with it a selection made, by a click on a row of an earlier life of *)
(* the server, for an epoch the cursor had not reached (ws.go:190, 204).   *)
(***************************************************************************)
ReaderEndsFirst == \A c \in Conns : wr[c] \in {"closing", "closed"} => rd[c] = "done"

Holders(id) ==
  {c \in Conns : wr[c] # "closed" /\ want[c].selected = id /\ selEpoch[c] = epoch}

AtLeast(t, holders) ==
  /\ Cardinality(holders) <= t.selected
  /\ t.hist = NoRing <=> t.selected = 0

HeldAt(c) ==
  wr[c] # "closed" /\ want[c].selected # NoTopic =>
    selEpoch[c] \in 0..epoch /\ (selEpoch[c] = epoch => want[c].selected \in DOMAIN topics)

HInv ==
  /\ ReaderEndsFirst
  /\ \A c \in Conns : HeldAt(c)
  /\ \A id \in DOMAIN topics : AtLeast(topics[id], Holders(id))

LEMMA HoldersFinite ==
  ASSUME NEW id
  PROVE  IsFiniteSet(Holders(id)) /\ Cardinality(Holders(id)) \in Nat
<1>1. Holders(id) \in SUBSET Conns
  BY DEF Holders
<1>2. IsFiniteSet(Holders(id))
  BY <1>1, ConnAssumption, FS_Subset
<1> QED
  BY <1>2, FS_CardinalityType

(* One connection more, and one less. *)
LEMMA TakenAtLeast ==
  ASSUME NEW t \in TopicRecord, NEW holders, IsFiniteSet(holders), AtLeast(t, holders),
         NEW c, c \notin holders
  PROVE  AtLeast(Taken(t), holders \cup {c})
<1>1. t.last \in MessageNumbers /\ t.selected \in Nat /\ Cardinality(holders) \in Nat
  BY TopicFields, FS_CardinalityType
<1>2. /\ Taken(t).selected = t.selected + 1
      /\ Taken(t).hist = IF t.selected = 0
                         THEN Push(NewRing(HistorySize), HistorySize, t.last) ELSE t.hist
  BY TakenType
<1>3. Push(NewRing(HistorySize), HistorySize, t.last) # NoRing
  BY <1>1, NewRingType, PushType, RingFields
<1>4. Cardinality(holders \cup {c}) = Cardinality(holders) + 1
  BY FS_AddElement
<1>5. t.hist = NoRing <=> t.selected = 0
  BY DEF AtLeast
<1>6. Taken(t).hist # NoRing /\ Taken(t).selected # 0
  BY <1>1, <1>2, <1>3, <1>5
<1> QED
  BY <1>1, <1>2, <1>4, <1>6 DEF AtLeast

LEMMA DroppedAtLeast ==
  ASSUME NEW t \in TopicRecord, NEW holders, IsFiniteSet(holders), AtLeast(t, holders),
         NEW c \in holders
  PROVE  t.selected > 0 /\ AtLeast(Dropped(t), holders \ {c})
<1>1. /\ t.selected \in Nat /\ Cardinality(holders) \in Nat
      /\ (Cardinality(holders) = 0 <=> holders = {})
      /\ Cardinality(holders) <= t.selected /\ (t.hist = NoRing <=> t.selected = 0)
  BY TopicFields, FS_CardinalityType, FS_EmptySet DEF AtLeast
<1>2. t.selected > 0
  BY <1>1
<1>3. /\ Dropped(t).selected = t.selected - 1
      /\ Dropped(t).hist = IF t.selected = 1 THEN NoRing ELSE t.hist
  BY <1>2, DroppedType
<1>4. Cardinality(holders \ {c}) = Cardinality(holders) - 1
  BY FS_RemoveElement
<1>5. Dropped(t).hist = NoRing <=> Dropped(t).selected = 0
  BY <1>1, <1>2, <1>3
<1> QED
  BY <1>1, <1>2, <1>3, <1>4, <1>5 DEF AtLeast

-----------------------------------------------------------------------------
(***************************************************************************)
(* No connection takes a selection: it keeps what it has, or loses it.     *)
(***************************************************************************)
Keeps(c) ==
  wr'[c] # "closed" /\ want'[c].selected # NoTopic =>
    wr[c] # "closed" /\ want'[c].selected = want[c].selected /\ selEpoch'[c] = selEpoch[c]

LEMMA HoldersFewer ==
  ASSUME StoreInv, StoreInv', HInv, epoch' = epoch, KeepsSelections,
         \A c \in Conns : Keeps(c)
  PROVE  /\ \A c \in Conns : HeldAt(c)'
         /\ \A id \in DOMAIN topics' : AtLeast(topics'[id], Holders(id)')
<1>1. \A c \in Conns : HeldAt(c)'
  BY DEF HInv, HeldAt, Keeps, KeepsSelections
<1>2. /\ NoTopic \notin DOMAIN topics'
      /\ \A id \in DOMAIN topics' : topics'[id] \in TopicRecord
  BY TableDomain, ElementType DEF StoreInv, NoTopic
<1>3. ASSUME NEW id \in DOMAIN topics'
      PROVE  AtLeast(topics'[id], Holders(id)')
  <2>1. PICK have, held : have = Holders(id) /\ held = Holders(id)'
    OBVIOUS
  <2>2. held \subseteq have
    BY <1>2, <2>1 DEF Holders, Keeps
  <2>3. IsFiniteSet(have) /\ Cardinality(have) \in Nat
    BY <2>1, HoldersFinite
  <2>4. Cardinality(held) \in Nat /\ Cardinality(held) <= Cardinality(have)
    BY <2>2, <2>3, FS_Subset, FS_CardinalityType
  <2>5. topics'[id].selected \in Nat
    BY <1>2, TopicFields
  <2>6. CASE id \in DOMAIN topics
    <3>1. /\ topics'[id].selected = topics[id].selected
          /\ topics'[id].hist = NoRing <=> topics[id].hist = NoRing
      BY <2>6 DEF KeepsSelections
    <3>2. AtLeast(topics[id], have)
      BY <2>1, <2>6 DEF HInv
    <3>3. Cardinality(have) <= topics[id].selected
          /\ (topics[id].hist = NoRing <=> topics[id].selected = 0)
      BY <3>2 DEF AtLeast
    <3>4. Cardinality(held) <= topics'[id].selected
      BY <2>3, <2>4, <2>5, <3>1, <3>3
    <3> QED
      BY <2>1, <3>1, <3>3, <3>4 DEF AtLeast
  <2>7. CASE id \notin DOMAIN topics
    <3>1. topics'[id].selected = 0 /\ topics'[id].hist = NoRing
      BY <2>7 DEF KeepsSelections
    <3>2. have = {}
      BY <1>2, <2>1, <2>7 DEF Holders, HInv, HeldAt
    <3>3. held = {}
      BY <2>2, <3>2
    <3>4. Cardinality(held) = 0
      BY <3>3, FS_EmptySet
    <3> QED
      BY <2>1, <3>1, <3>4 DEF AtLeast
  <2> QED
    BY <2>6, <2>7
<1> QED
  BY <1>1, <1>3

(* One topic changes hands, and the others have no more holders. *)
LEMMA HolderComesOrGoes ==
  ASSUME HInv, NEW id \in DOMAIN topics, NEW t,
         topics' = [topics EXCEPT ![id] = t], AtLeast(t, Holders(id)'),
         \A other \in DOMAIN topics : other # id => Holders(other)' = Holders(other)
  PROVE  \A other \in DOMAIN topics' : AtLeast(topics'[other], Holders(other)')
<1> SUFFICES ASSUME NEW other \in DOMAIN topics
             PROVE  AtLeast(topics'[other], Holders(other)')
  OBVIOUS
<1>1. CASE other = id
  BY <1>1
<1>2. CASE other # id
  BY <1>2 DEF HInv
<1> QED
  BY <1>1, <1>2

\* The part of HInv about selections that are held.
Held ==
  /\ \A c \in Conns : HeldAt(c)
  /\ \A id \in DOMAIN topics : AtLeast(topics[id], Holders(id))

(* A live connection lets go of its selection, before it takes another or  *)
(* because it ends.                                                        *)
LEMMA LetsGo ==
  ASSUME StoreInv, StoreInv', HInv, NEW c \in Conns, wr[c] # "closed",
         topics' = Released(topics, selEpoch[c], want[c].selected),
         UNCHANGED <<epoch, selEpoch>>,
         wr'[c] = "closed" \/ want'[c].selected = NoTopic,
         \A d \in Conns \ {c} : wr'[d] = wr[d] /\ want'[d].selected = want[d].selected
  PROVE  Held'
<1>0. topics \in Seq(TopicRecord) /\ NoTopic \notin DOMAIN topics
  BY TableDomain DEF StoreInv, NoTopic
<1>1. \A d \in Conns : Keeps(d)
  BY DEF Keeps
<1>2. CASE selEpoch[c] = epoch /\ want[c].selected # NoTopic
  <2>1. PICK k \in DOMAIN topics : k = want[c].selected
    BY <1>2 DEF HInv, HeldAt
  <2>2. c \in Holders(k) /\ k # NoTopic
    BY <1>2, <2>1 DEF Holders
  <2>3. AtLeast(topics[k], Holders(k)) /\ topics[k] \in TopicRecord
    BY <1>0, <2>1, ElementType DEF HInv
  <2>4. topics[k].selected > 0 /\ AtLeast(Dropped(topics[k]), Holders(k) \ {c})
    BY <2>2, <2>3, HoldersFinite, DroppedAtLeast
  <2>5. topics' = [topics EXCEPT ![k] = Dropped(topics[k])]
    BY <1>2, <2>1, <2>4 DEF Released, IsCurrent
  <2>6. Holders(k)' = Holders(k) \ {c}
    BY <1>2, <2>1, <2>2 DEF Holders
  <2>7. \A other \in DOMAIN topics : other # k => Holders(other)' = Holders(other)
    BY <1>0, <2>1 DEF Holders
  <2>8. \A other \in DOMAIN topics' : AtLeast(topics'[other], Holders(other)')
    BY <2>4, <2>5, <2>6, <2>7, HolderComesOrGoes
  <2>9. DOMAIN topics' = DOMAIN topics
    BY <2>5
  <2>10. \A d \in Conns : HeldAt(d)'
    BY <1>1, <2>9 DEF HInv, HeldAt, Keeps
  <2> QED
    BY <2>8, <2>10 DEF Held
<1>3. CASE ~(selEpoch[c] = epoch /\ want[c].selected # NoTopic)
  <2>1. topics' = topics
    BY <1>0, <1>3 DEF Released, IsCurrent
  <2>2. KeepsSelections
    BY <2>1 DEF KeepsSelections
  <2> QED
    BY <1>1, <2>2, HoldersFewer DEF Held
<1> QED
  BY <1>2, <1>3

LEMMA TakesSelection ==
  ASSUME WInv, HInv, NEW c \in Conns, SelectTakes(c)
  PROVE  Held'
<1>1. PICK e, id : e = hand[c].epoch /\ id = hand[c].id
  OBVIOUS
<1>2. /\ StoreInv /\ topics \in Seq(TopicRecord) /\ NoTopic \notin DOMAIN topics /\ epoch \in Nat
      /\ DOMAIN want = Conns /\ DOMAIN selEpoch = Conns /\ DOMAIN want[c] = WantFields
  BY TableDomain DEF WInv, PInv, StoreInv, NoTopic, WireInv
<1>3. /\ rd[c] = "selecting" /\ UNCHANGED <<epoch, wr>>
      /\ topics' = Selected(topics, e, id)
      /\ IF IsCurrent(topics, e, id)
         THEN /\ want' = [want EXCEPT ![c].selected = id]
              /\ selEpoch' = [selEpoch EXCEPT ![c] = e]
         ELSE UNCHANGED <<want, selEpoch>>
  BY <1>1 DEF SelectTakes
<1>4. wr[c] # "closed" /\ want[c].selected = NoTopic
  BY <1>3 DEF HInv, ReaderEndsFirst, WInv, WireInv
<1>5. CASE IsCurrent(topics, e, id)
  <2>1. /\ e = epoch /\ id \in DOMAIN topics
        /\ topics' = [topics EXCEPT ![id] = Taken(topics[id])]
    BY <1>3, <1>5 DEF IsCurrent, Selected
  <2>2. /\ want'[c].selected = id /\ selEpoch'[c] = epoch
        /\ \A d \in Conns : d # c => want'[d] = want[d] /\ selEpoch'[d] = selEpoch[d]
    BY <1>2, <1>3, <1>5, <2>1 DEF WantFields
  <2>3. c \notin Holders(id)
    BY <1>2, <1>4, <2>1 DEF Holders
  <2>4. AtLeast(topics[id], Holders(id)) /\ topics[id] \in TopicRecord
    BY <1>2, <2>1, ElementType DEF HInv
  <2>5. AtLeast(Taken(topics[id]), Holders(id) \cup {c})
    BY <2>3, <2>4, HoldersFinite, TakenAtLeast
  <2>6. ASSUME NEW other \in DOMAIN topics
        PROVE  Holders(other)' = IF other = id THEN Holders(other) \cup {c} ELSE Holders(other)
    <3>1. other # NoTopic
      BY <1>2
    <3> QED
      BY <1>3, <1>4, <2>1, <2>2, <3>1 DEF Holders
  <2>7. \A other \in DOMAIN topics' : AtLeast(topics'[other], Holders(other)')
    BY <2>1, <2>5, <2>6, HolderComesOrGoes
  <2>8. DOMAIN topics' = DOMAIN topics
    BY <2>1
  <2>9. \A d \in Conns : HeldAt(d)'
    BY <1>2, <1>3, <2>1, <2>2, <2>8 DEF HInv, HeldAt
  <2> QED
    BY <2>7, <2>9 DEF Held
<1>6. CASE ~IsCurrent(topics, e, id)
  <2>1. UNCHANGED <<topics, want, selEpoch, epoch, wr>>
    BY <1>3, <1>6 DEF Selected
  <2> QED
    BY <2>1 DEF HInv, Held, HeldAt, Holders
<1> QED
  BY <1>5, <1>6

\* A step that takes no selection and leaves the counts alone.
LEMMA OthersHeld ==
  ASSUME StoreInv, HInv, UNCHANGED storeVars, \A c \in Conns : Keeps(c)
  PROVE  Held'
<1>1. UNCHANGED <<epoch, topics>> /\ StoreInv'
  BY DEF storeVars, StoreInv
<1>2. KeepsSelections
  BY <1>1 DEF KeepsSelections
<1> QED
  BY <1>1, <1>2, HoldersFewer DEF Held

-----------------------------------------------------------------------------
(***************************************************************************)
(* The steps.  A write fails only after the reader has ended.              *)
(***************************************************************************)
PageStep ==
  \/ ConnectWS \/ ConnectionLost \/ OnOpen \/ OnClose \/ OnTick \/ OnCounts
  \/ Render \/ User \/ UNCHANGED vars

LEMMA PageStepRests ==
  ASSUME PageStep
  PROVE  UNCHANGED <<epoch, topics, want, selEpoch, rd, wr>> /\ UNCHANGED storeVars
<1>1. CASE UNCHANGED vars
  BY <1>1 DEF vars, connVars, clientVars, storeVars
<1>2. CASE ConnectWS \/ ConnectionLost \/ OnClose
  BY <1>2 DEF ConnectWS, ConnectionLost, OnClose, connVars, clientVars, storeVars
<1>3. CASE OnOpen \/ OnTick \/ OnCounts \/ Render \/ User
  <2>1. ServerUnchanged
    BY <1>3 DEF OnOpen, OnTick, OnCounts, Render, User, Handle, Scroll, Select, ToggleCompare,
                ShowTab, Act
  <2> QED
    BY <2>1 DEF ServerUnchanged, clientVars, storeVars
<1> QED
  BY <1>1, <1>2, <1>3 DEF PageStep

LEMMA ReaderEndsFirstStep ==
  ASSUME ~WritesMayFail, WInv, ReaderEndsFirst, [Next]_vars
  PROVE  ReaderEndsFirst'
<1>0. DOMAIN rd = Conns /\ DOMAIN wr = Conns
  BY DEF WInv, PInv, LinesInv, WireInv
<1>1. CASE PageStep \/ Clear \/ \E name \in Names : Publish(name)
  <2>1. UNCHANGED <<rd, wr>>
    BY <1>1, PageStepRests DEF connVars, Publish, Clear
  <2> QED
    BY <2>1 DEF ReaderEndsFirst
<1>2. CASE Restart
  <2>1. /\ rd' = [c \in Conns |-> IF wr[c] # "off" THEN "done" ELSE rd[c]]
        /\ wr' = [c \in Conns |-> IF wr[c] # "off" THEN "closed" ELSE wr[c]]
    BY <1>2 DEF Restart
  <2> QED
    BY <2>1 DEF ReaderEndsFirst
<1>3. ASSUME NEW c \in Conns,
             (ServeWS /\ c = sock) \/ Deliver(c) \/ SendUpdate(c) \/ TickerFires(c)
      PROVE  ReaderEndsFirst'
  <2>1. /\ \E s \in {"polling", "writing", "waiting"} : wr' = [wr EXCEPT ![c] = s]
        /\ \A d \in Conns : d # c => rd'[d] = rd[d]
    BY <1>0, <1>3 DEF ServeWS, Accept, Deliver, Written, SendUpdate, TickerFires
  <2> QED
    BY <1>0, <2>1 DEF ReaderEndsFirst
<1>4. ASSUME NEW c \in Conns, ReaderStep(c)
      PROVE  ReaderEndsFirst'
  <2>1. /\ wr' = wr /\ rd[c] # "done"
        /\ \A d \in Conns : d # c => rd'[d] = rd[d]
    BY <1>0, <1>4 DEF ReaderStep, Reader, HandleWatch, HandleCompare, Handled, ReadMessage,
                      ReadFails, SelectReleases, SelectTakes
  <2> QED
    BY <1>0, <2>1 DEF ReaderEndsFirst
<1>5. ASSUME NEW c \in Conns, WriteFails(c) \/ SeesCancel(c) \/ Teardown(c)
      PROVE  ReaderEndsFirst'
  <2>1. /\ rd' = rd /\ rd[c] = "done"
        /\ \A d \in Conns : d # c => wr'[d] = wr[d]
    BY <1>0, <1>5 DEF WriteFails, SeesCancel, Teardown, Cancelled, ReaderEndsFirst
  <2> QED
    BY <1>0, <2>1 DEF ReaderEndsFirst
<1>6. ServeWS => sock \in Conns
  BY DEF ServeWS, WInv, PInv, LinesInv
<1> QED
  BY <1>1, <1>2, <1>3, <1>4, <1>5, <1>6
     DEF Next, PageStep, SocketEvent, WriterStep, FailingWrite

LEMMA HeldStep ==
  ASSUME WInv, WInv', HInv, [Next]_vars
  PROVE  Held'
<1>0. /\ StoreInv /\ StoreInv' /\ epoch \in Nat
      /\ DOMAIN rd = Conns /\ DOMAIN wr = Conns /\ DOMAIN want = Conns
      /\ \A c \in Conns : DOMAIN want[c] = WantFields
  BY DEF WInv, PInv, LinesInv, WireInv, StoreInv
<1>1. ASSUME NEW name \in Names, Publish(name)
      PROVE  Held'
  <2>1. KeepsSelections /\ UNCHANGED <<epoch, wr, want, selEpoch>>
    BY <1>0, <1>1, IngestTable DEF Publish, connVars
  <2>2. \A c \in Conns : Keeps(c)
    BY <2>1 DEF Keeps
  <2> QED
    BY <1>0, <2>1, <2>2, HoldersFewer DEF Held
<1>2. CASE Clear
  <2>1. epoch' = epoch + 1 /\ topics' = <<>> /\ UNCHANGED <<wr, want, selEpoch>>
    BY <1>2 DEF Clear, Reset, connVars
  <2>2. \A c \in Conns : HeldAt(c)'
    BY <1>0, <2>1 DEF HInv, HeldAt
  <2> QED
    BY <2>1, <2>2 DEF Held
<1>3. CASE Restart
  <2>1. /\ topics' = <<>> /\ UNCHANGED want
        /\ wr' = [c \in Conns |-> IF wr[c] # "off" THEN "closed" ELSE wr[c]]
    BY <1>3 DEF Restart, clientVars
  <2>2. \A c \in Conns : wr[c] = "off" => want[c].selected = NoTopic
    BY DEF WInv, WireInv, Unheard
  <2>3. \A c \in Conns : HeldAt(c)'
    BY <2>1, <2>2 DEF HeldAt
  <2> QED
    BY <2>1, <2>3 DEF Held
<1>4. CASE PageStep
  <2>1. UNCHANGED <<want, selEpoch, wr>> /\ UNCHANGED storeVars
    BY <1>4, PageStepRests
  <2> QED
    BY <1>0, <2>1, OthersHeld DEF Keeps
<1>5. ASSUME NEW c \in Conns,
             \/ ServeWS /\ c = sock
             \/ Deliver(c) \/ WriteFails(c) \/ TickerFires(c) \/ SeesCancel(c)
             \/ ReadMessage(c) \/ ReadFails(c)
      PROVE  Held'
  <2>1. UNCHANGED <<want, selEpoch>> /\ UNCHANGED storeVars
    BY <1>5 DEF ServeWS, Accept, Deliver, Written, WriteFails, TickerFires, SeesCancel,
                ReadMessage, ReadFails, clientVars
  <2>2. wr' = wr \/ \E s : s # "closed" /\ wr[c] # "closed" /\ wr' = [wr EXCEPT ![c] = s]
    BY <1>5 DEF ServeWS, Accept, Deliver, Written, WriteFails, TickerFires, SeesCancel,
                ReadMessage, ReadFails
  <2>3. \A d \in Conns : wr'[d] = "closed" <=> wr[d] = "closed"
    BY <1>0, <2>2
  <2> QED
    BY <1>0, <2>1, <2>3, OthersHeld DEF Keeps
<1>6. ASSUME NEW c \in Conns, HandleWatch(c) \/ HandleCompare(c)
      PROVE  Held'
  <2>1. /\ UNCHANGED storeVars /\ UNCHANGED <<wr, selEpoch>>
        /\ \/ want' = want
           \/ \E x, y : want' = [want EXCEPT ![c].watch = x, ![c].watchAll = y]
           \/ \E x, y : want' = [want EXCEPT ![c].compare = x, ![c].compareAll = y]
    BY <1>6 DEF HandleWatch, HandleCompare
  <2>2. \A d \in Conns : want'[d].selected = want[d].selected
    <3>1. DOMAIN want = Conns /\ DOMAIN want[c] = WantFields
      BY <1>0
    <3>2. CASE want' = want
      BY <3>2
    <3>3. CASE \E x, y : want' = [want EXCEPT ![c].watch = x, ![c].watchAll = y]
      BY <3>1, <3>3 DEF WantFields
    <3>4. CASE \E x, y : want' = [want EXCEPT ![c].compare = x, ![c].compareAll = y]
      BY <3>1, <3>4 DEF WantFields
    <3> QED
      BY <2>1, <3>2, <3>3, <3>4
  <2>3. \A d \in Conns : Keeps(d)
    BY <2>1, <2>2 DEF Keeps
  <2> QED
    BY <1>0, <2>1, <2>3, OthersHeld
<1>7. ASSUME NEW c \in Conns, SelectReleases(c)
      PROVE  Held'
  <2>1. /\ topics' = Released(topics, selEpoch[c], want[c].selected)
        /\ UNCHANGED <<epoch, selEpoch, wr>> /\ rd[c] = "handling"
        /\ want' = [want EXCEPT ![c].selected = NoTopic]
    BY <1>7 DEF SelectReleases
  <2>2. wr[c] # "closed"
    BY <2>1 DEF HInv, ReaderEndsFirst
  <2>3. /\ want'[c].selected = NoTopic
        /\ \A d \in Conns : d # c => want'[d] = want[d]
    BY <1>0, <2>1 DEF WantFields
  <2> QED
    BY <1>0, <2>1, <2>2, <2>3, LetsGo
<1>8. ASSUME NEW c \in Conns, SelectTakes(c)
      PROVE  Held'
  BY <1>8, TakesSelection
<1>9. ASSUME NEW c \in Conns, SendUpdate(c)
      PROVE  Held'
  <2>1. /\ UNCHANGED selEpoch /\ UNCHANGED storeVars
        /\ wr' = [wr EXCEPT ![c] = "writing"] /\ wr[c] = "polling"
        /\ \A d \in Conns : d # c => want'[d] = want[d]
        /\ \/ want'[c] = NoWant
           \/ want'[c] = [want[c] EXCEPT !.watchAll = FALSE, !.compareAll = FALSE]
    BY <1>0, <1>9 DEF SendUpdate
  <2>2. want'[c].selected \in {NoTopic, want[c].selected}
    <3>1. DOMAIN want[c] = WantFields
      BY <1>0
    <3>2. CASE want'[c] = NoWant
      BY <3>2 DEF NoWant
    <3>3. CASE want'[c] = [want[c] EXCEPT !.watchAll = FALSE, !.compareAll = FALSE]
      BY <3>1, <3>3 DEF WantFields
    <3> QED
      BY <2>1, <3>2, <3>3
  <2>3. \A d \in Conns : wr'[d] = "closed" <=> wr[d] = "closed"
    BY <1>0, <2>1
  <2>4. \A d \in Conns : Keeps(d)
    BY <2>1, <2>2, <2>3 DEF Keeps
  <2> QED
    BY <1>0, <2>1, <2>4, OthersHeld
<1>10. ASSUME NEW c \in Conns, Teardown(c)
       PROVE  Held'
  <2>1. /\ topics' = Released(topics, selEpoch[c], want[c].selected)
        /\ UNCHANGED <<epoch, selEpoch, want>> /\ wr[c] = "closing"
        /\ wr' = [wr EXCEPT ![c] = "closed"]
    BY <1>10 DEF Teardown, clientVars
  <2>2. wr'[c] = "closed" /\ \A d \in Conns : d # c => wr'[d] = wr[d]
    BY <1>0, <2>1
  <2> QED
    BY <1>0, <2>1, <2>2, LetsGo
<1>11. ServeWS => sock \in Conns
  BY DEF ServeWS, WInv, PInv, LinesInv
<1> QED
  BY <1>1, <1>2, <1>3, <1>4, <1>5, <1>6, <1>7, <1>8, <1>9, <1>10, <1>11
     DEF Next, PageStep, SocketEvent, ReaderStep, Reader, WriterStep, FailingWrite

(***************************************************************************)
(* What the page shows as open has its history recorded, whichever other   *)
(* connections have let go of the topic meanwhile, as long as a writer     *)
(* gives up only when its reader has (the run of MCWsTeardown shows what   *)
(* happens otherwise): "History is recorded for a topic while it is open"  *)
(* (README.md:86, store.go:125-139, ws.go:115-127).                        *)
(***************************************************************************)
THEOREM OpenIsRecorded ==
  ASSUME ~WritesMayFail
  PROVE  Spec => []RecordedWhileOpen
<1>1. Init => HInv
  <2> SUFFICES ASSUME Init
               PROVE  HInv
    OBVIOUS
  <2>1. topics = <<>> /\ \A c \in Conns : wr[c] = "off" /\ want[c] = NoWant
    BY DEF Init, ConnInit, StoreInit
  <2>2. \A c \in Conns : want[c].selected = NoTopic
    BY <2>1 DEF NoWant
  <2> QED
    BY <2>1, <2>2 DEF HInv, ReaderEndsFirst, HeldAt
<1>2. WInv /\ WInv' /\ HInv /\ [Next]_vars => HInv'
  BY ReaderEndsFirstStep, HeldStep DEF HInv, Held
<1>3. ASSUME WInv, HInv, WantsAgree
      PROVE  RecordedWhileOpen
  <2> SUFFICES ASSUME Quiet, ~b.missed, b.selected # NoTopic
               PROVE  b.selected \in DOMAIN topics /\ topics[b.selected].hist # NoRing
    BY DEF RecordedWhileOpen, TopicIds
  <2>1. /\ want[sock].selected = b.selected /\ selEpoch[sock] = epoch
        /\ sock \in Conns /\ wr[sock] # "closed"
    BY <1>3 DEF WantsAgree, Quiet, WInv, PInv, LinesInv
  <2>2. b.selected \in DOMAIN topics
    BY <1>3, <2>1 DEF HInv, HeldAt
  <2>3. sock \in Holders(b.selected)
    BY <2>1 DEF Holders
  <2>4. PICK have : have = Holders(b.selected) /\ IsFiniteSet(have)
    BY HoldersFinite
  <2>5. Cardinality(have) \in Nat /\ Cardinality(have) # 0
    BY <2>3, <2>4, FS_CardinalityType, FS_EmptySet
  <2>6. AtLeast(topics[b.selected], have) /\ topics[b.selected] \in TopicRecord
    BY <1>3, <2>2, <2>4, ElementType DEF HInv, WInv, PInv, StoreInv
  <2>7. topics[b.selected].selected # 0
    BY <2>5, <2>6, TopicFields DEF AtLeast
  <2> QED
    BY <2>2, <2>6, <2>7 DEF AtLeast
<1> QED
  BY <1>1, <1>2, <1>3, WantsInvariance, WantsCorrect, PTL DEF Spec
=============================================================================
