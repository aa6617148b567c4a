------------------------- MODULE StoreReaders_proofs -------------------------
(***************************************************************************)
(* Proofs about the store and its readers, for every number of readers,    *)
(* names, topics and messages and every size of the ring: first the tables *)
(* and their copies, then the refinement, then selections and histories.   *)
(***************************************************************************)
EXTENDS StoreReaders, Store_proofs

-----------------------------------------------------------------------------
(***************************************************************************)
(* The inductive invariant.  MirrorExact is not inductive alone: it needs  *)
(* that no cursor is ahead of the store (or a message could be ingested    *)
(* with a stamp the cursor has passed), that a looked-up name is a topic   *)
(* of the table, and the types.                                            *)
(***************************************************************************)
IInv == TypeOK /\ IndexAgrees /\ CursorInRange /\ MirrorExact

ReaderTypes ==
  /\ cur \in [Readers -> CursorRecord]
  /\ sel \in [Readers -> [epoch : Nat, id : Nat, from : MessageNumbers]]
  /\ DOMAIN mirror = Readers
  /\ \A r \in Readers : mirror[r] \in Seq([name : Names, count : MessageNumbers])

(* A step that ingests a message at id: the other topics keep their place. *)
LEMMA IngestStep ==
  ASSUME IInv, NEW id \in Nat, NEW name \in Names,
         seq' = seq + 1,
         UNCHANGED <<epoch, cur, sel, mirror>>,
         topics' \in Seq(TopicRecord),
         byName' \in [DOMAIN byName' -> Nat],
         stats' \in [messages : Nat, dropped : Nat],
         DOMAIN topics' = DOMAIN topics \cup {id},
         topics'[id].seq = seq + 1, topics'[id].name = name,
         \A i \in DOMAIN topics \ {id} : topics'[i] = topics[i],
         id \in DOMAIN topics => topics[id].name = name,
         DOMAIN byName' = DOMAIN byName \cup {name},
         byName'[name] = id,
         \A n \in DOMAIN byName \ {name} : byName'[n] = byName[n],
         id \notin DOMAIN topics => name \notin DOMAIN byName
  PROVE  IInv'
<1>a. /\ DOMAIN topics = 1..Len(topics) /\ Len(topics) \in Nat
      /\ DOMAIN topics' = 1..Len(topics') /\ Len(topics') \in Nat
      /\ Len(topics') >= Len(topics)
  <2>1. topics \in Seq(TopicRecord) /\ topics' \in Seq(TopicRecord)
    BY DEF IInv, TypeOK
  <2>2. /\ DOMAIN topics = 1..Len(topics) /\ Len(topics) \in Nat
        /\ DOMAIN topics' = 1..Len(topics') /\ Len(topics') \in Nat
    BY <2>1, TableDomain, Zenon
  <2>3. Len(topics) # 0 => Len(topics) \in DOMAIN topics'
    BY <2>2
  <2> QED
    BY <2>2, <2>3
<1>b. /\ epoch \in Nat \ {0} /\ seq \in Nat
      /\ DOMAIN byName = {topics[i].name : i \in DOMAIN topics}
      /\ \A i \in DOMAIN topics : byName[topics[i].name] = i /\ topics[i].seq \in 1..seq
  BY DEF IInv, TypeOK, IndexAgrees, TopicIds
<1>1. TypeOK'
  <2>1. DOMAIN byName' \subseteq Names
    BY DEF IInv, TypeOK
  <2>2. ReaderTypes'
    BY DEF IInv, TypeOK, ReaderTypes
  <2>3. epoch' \in Nat \ {0} /\ seq' \in Nat
    BY <1>b
  <2> QED
    BY <2>1, <2>2, <2>3 DEF TypeOK, ReaderTypes
<1>2. IndexAgrees'
  <2>1. ASSUME NEW n \in DOMAIN byName'
        PROVE  n \in {topics'[i].name : i \in DOMAIN topics'}
    <3>1. CASE n = name
      BY <3>1
    <3>2. CASE n # name
      <4>1. PICK i \in DOMAIN topics : topics[i].name = n
        BY <1>b, <2>1, <3>2
      <4>2. i # id
        BY <3>2, <4>1
      <4> QED
        BY <4>1, <4>2
    <3> QED
      BY <3>1, <3>2
  <2>2. ASSUME NEW i \in DOMAIN topics'
        PROVE  /\ topics'[i].name \in DOMAIN byName'
               /\ byName'[topics'[i].name] = i
               /\ topics'[i].seq \in 1..seq'
    <3>1. CASE i = id
      BY <1>b, <3>1
    <3>2. CASE i # id
      <4>1. /\ i \in DOMAIN topics /\ topics'[i] = topics[i]
            /\ topics[i].name \in DOMAIN byName
        BY <1>b, <3>2
      <4>2. topics[i].name # name
        BY <1>b, <3>2, <4>1
      <4> QED
        BY <1>b, <4>1, <4>2
    <3> QED
      BY <3>1, <3>2
  <2> QED
    BY <2>1, <2>2 DEF IndexAgrees, TopicIds
<1>3. CursorInRange'
  <2> SUFFICES ASSUME NEW r \in Readers
               PROVE  /\ cur[r].epoch <= epoch
                      /\ DOMAIN mirror[r] = 1..cur[r].topics
                      /\ cur[r].epoch = epoch => /\ cur[r].topics <= Len(topics')
                                                 /\ cur[r].seq <= seq + 1
    BY DEF CursorInRange
  <2>1. cur[r].topics \in Nat /\ cur[r].seq \in Nat
    BY DEF IInv, TypeOK, CursorRecord
  <2> QED
    BY <1>a, <1>b, <2>1 DEF IInv, CursorInRange
<1>4. MirrorExact'
  <2> SUFFICES ASSUME NEW r \in Readers, cur[r].epoch = epoch, NEW i \in DOMAIN mirror[r]
               PROVE  /\ mirror[r][i].name = topics'[i].name
                      /\ topics'[i].seq <= cur[r].seq => mirror[r][i].count = topics'[i].count
    BY DEF MirrorExact
  <2>1. cur[r].topics \in Nat /\ cur[r].seq \in Nat
    BY DEF IInv, TypeOK, CursorRecord
  <2>2. i \in DOMAIN topics /\ cur[r].seq <= seq
    BY <1>a, <2>1 DEF IInv, CursorInRange
  <2>3. /\ mirror[r][i].name = topics[i].name
        /\ topics[i].seq <= cur[r].seq => mirror[r][i].count = topics[i].count
    BY DEF IInv, MirrorExact
  <2>4. CASE i = id
    BY <1>b, <2>1, <2>2, <2>3, <2>4
  <2>5. CASE i # id
    BY <2>2, <2>3, <2>5
  <2> QED
    BY <2>4, <2>5
<1> QED
  BY <1>1, <1>2, <1>3, <1>4 DEF IInv

(* A step that touches neither names nor counts nor stamps. *)
LEMMA SelectionStep ==
  ASSUME IInv, SameTopics(topics', topics),
         UNCHANGED <<epoch, seq, byName, stats, cur, mirror>>,
         sel' \in [Readers -> [epoch : Nat, id : Nat, from : MessageNumbers]]
  PROVE  IInv'
<1>1. TypeOK'
  BY DEF IInv, TypeOK, SameTopics
<1>2. IndexAgrees'
  BY DEF IInv, IndexAgrees, TopicIds, SameTopics
<1>3. CursorInRange'
  BY DEF IInv, CursorInRange, SameTopics
<1>4. MirrorExact'
  <2> SUFFICES ASSUME NEW r \in Readers, cur[r].epoch = epoch, NEW i \in DOMAIN mirror[r]
               PROVE  /\ mirror[r][i].name = topics'[i].name
                      /\ topics'[i].seq <= cur[r].seq => mirror[r][i].count = topics'[i].count
    BY DEF MirrorExact
  <2>1. i \in DOMAIN topics
    BY DEF IInv, TypeOK, CursorInRange, CursorRecord
  <2>2. /\ mirror[r][i].name = topics[i].name
        /\ topics[i].seq <= cur[r].seq => mirror[r][i].count = topics[i].count
    BY DEF IInv, MirrorExact
  <2> QED
    BY <2>1, <2>2 DEF SameTopics
<1> QED
  BY <1>1, <1>2, <1>3, <1>4 DEF IInv

-----------------------------------------------------------------------------
(* The three outcomes of Ingest. *)
LEMMA PublishStep ==
  ASSUME IInv, NEW name \in Names, Publish(name)
  PROVE  IInv'
<1>1. CASE IngestDropped(name)
  <2>1. UNCHANGED <<epoch, seq, byName, topics, cur, sel, mirror>>
    BY <1>1 DEF Publish, readerVars, IngestDropped
  <2>2. stats' \in [messages : Nat, dropped : Nat]
    BY <1>1, DroppedStats DEF IngestDropped, IInv, TypeOK
  <2>3. TypeOK'
    BY <2>1, <2>2 DEF IInv, TypeOK
  <2>4. IndexAgrees' /\ CursorInRange' /\ MirrorExact'
    BY <2>1 DEF IInv, IndexAgrees, CursorInRange, MirrorExact, TopicIds
  <2> QED
    BY <2>3, <2>4 DEF IInv
<1>2. CASE IngestNew(name)
  <2> DEFINE t == Recorded(NewTopic(name))
  <2>1. t \in TopicRecord /\ t.name = name /\ t.seq = seq + 1
    BY NewTopicType, RecordedType DEF IInv, TypeOK
  <2>2. topics' = Append(topics, t) /\ topics \in Seq(TopicRecord)
    BY <1>2 DEF IngestNew, IInv, TypeOK
  <2> HIDE DEF t
  <2>3. /\ topics' \in Seq(TopicRecord) /\ Len(topics) + 1 \in Nat
        /\ DOMAIN topics' = DOMAIN topics \cup {Len(topics) + 1}
        /\ topics'[Len(topics) + 1] = t
        /\ Len(topics) + 1 \notin DOMAIN topics
        /\ \A i \in DOMAIN topics : topics'[i] = topics[i]
    BY <2>1, <2>2
  <2>4. /\ name \notin DOMAIN byName
        /\ DOMAIN byName' = DOMAIN byName \cup {name}
        /\ byName'[name] = Len(topics) + 1
        /\ \A n \in DOMAIN byName : byName'[n] = byName[n]
    BY <1>2 DEF IngestNew
  <2>5. byName' \in [DOMAIN byName' -> Nat]
    BY <1>2, <2>3 DEF IngestNew, IInv, TypeOK
  <2>6. stats' \in [messages : Nat, dropped : Nat]
    BY <1>2, MessageStats DEF IngestNew, IInv, TypeOK
  <2>7. seq' = seq + 1 /\ UNCHANGED <<epoch, cur, sel, mirror>>
    BY <1>2 DEF IngestNew, Publish, readerVars
  <2> QED
    BY <2>1, <2>3, <2>4, <2>5, <2>6, <2>7, IngestStep
<1>3. CASE IngestKnown(name)
  <2> DEFINE id == byName[name]
             t == Recorded(topics[id])
  <2>1. id \in DOMAIN topics /\ topics[id].name = name /\ topics[id] \in TopicRecord
    <3>1. PICK i \in DOMAIN topics : topics[i].name = name
      BY <1>3 DEF IngestKnown, IInv, IndexAgrees, TopicIds
    <3>2. byName[topics[i].name] = i
      BY DEF IInv, IndexAgrees, TopicIds
    <3> QED
      BY <3>1, <3>2 DEF IInv, TypeOK
  <2>2. t \in TopicRecord /\ t.name = name /\ t.seq = seq + 1
    BY <2>1, RecordedType DEF IInv, TypeOK
  <2>3. topics' = [topics EXCEPT ![id] = t] /\ topics \in Seq(TopicRecord)
    BY <1>3 DEF IngestKnown, IInv, TypeOK
  <2>4. name \in DOMAIN byName /\ UNCHANGED byName
    BY <1>3 DEF IngestKnown
  <2>5. byName \in [DOMAIN byName -> Nat] /\ id \in Nat
    BY <2>4 DEF IInv, TypeOK
  <2>6. stats' \in [messages : Nat, dropped : Nat]
    BY <1>3, MessageStats DEF IngestKnown, IInv, TypeOK
  <2>7. seq' = seq + 1 /\ UNCHANGED <<epoch, cur, sel, mirror>>
    BY <1>3 DEF IngestKnown, Publish, readerVars
  <2>8. DOMAIN byName = DOMAIN byName \cup {name} /\ byName[name] = id
    BY <2>4
  <2> HIDE DEF t, id
  <2>9. topics' \in Seq(TopicRecord) /\ DOMAIN topics' = DOMAIN topics
    BY <2>1, <2>2, <2>3
  <2>10. DOMAIN topics = DOMAIN topics \cup {id}
    BY <2>1
  <2>11. topics'[id] = t /\ \A i \in DOMAIN topics \ {id} : topics'[i] = topics[i]
    BY <2>1, <2>3
  <2> QED
    BY <2>1, <2>2, <2>4, <2>5, <2>6, <2>7, <2>8, <2>9, <2>10, <2>11, IngestStep
<1> QED
  BY <1>1, <1>2, <1>3 DEF Publish, Ingest

(* A reset: no cursor belongs to the new epoch. *)
LEMMA ClearStep ==
  ASSUME IInv, Clear
  PROVE  IInv'
<1>1. /\ epoch' = epoch + 1 /\ seq' = 0 /\ byName' = [n \in {} |-> NoTopic] /\ topics' = <<>>
      /\ stats' = [messages |-> 0, dropped |-> 0] /\ UNCHANGED <<cur, sel, mirror>>
  BY DEF Clear, Reset, readerVars
<1>2. TypeOK'
  <2>1. epoch' \in Nat \ {0} /\ seq' \in Nat
    BY <1>1 DEF IInv, TypeOK
  <2>2. byName' \in [DOMAIN byName' -> Nat] /\ DOMAIN byName' \subseteq Names
    BY <1>1
  <2>3. topics' \in Seq(TopicRecord) /\ stats' \in [messages : Nat, dropped : Nat]
    BY <1>1
  <2>4. ReaderTypes'
    BY <1>1 DEF IInv, TypeOK, ReaderTypes
  <2> QED
    BY <2>1, <2>2, <2>3, <2>4 DEF TypeOK, ReaderTypes
<1>3. IndexAgrees'
  BY <1>1 DEF IndexAgrees, TopicIds
<1>4. CursorInRange' /\ MirrorExact'
  <2>1. \A r \in Readers : cur[r].epoch < epoch' /\ cur[r].epoch \in Nat /\ epoch' \in Nat
    BY <1>1 DEF IInv, TypeOK, CursorInRange, CursorRecord
  <2> QED
    BY <1>1, <2>1 DEF IInv, CursorInRange, MirrorExact
<1> QED
  BY <1>2, <1>3, <1>4 DEF IInv

-----------------------------------------------------------------------------
(* The cursor a poll starts from. *)
LEMMA StartCursorRange ==
  ASSUME IInv, NEW r \in Readers
  PROVE  /\ StartCursor(cur[r]).topics \in 0..Len(topics)
         /\ StartCursor(cur[r]).seq \in Nat
         /\ cur[r].epoch = epoch => StartCursor(cur[r]) = cur[r]
         /\ cur[r].epoch # epoch => StartCursor(cur[r]) = FreshCursor(epoch)
<1>1. Len(topics) \in Nat
  BY TableDomain DEF IInv, TypeOK
<1>2. cur[r] \in CursorRecord
  BY DEF IInv, TypeOK
<1>3. cur[r].epoch = epoch => cur[r].topics <= Len(topics)
  BY DEF IInv, CursorInRange
<1> QED
  BY <1>1, <1>2, <1>3 DEF StartCursor, FreshCursor, CursorRecord

(***************************************************************************)
(* What a poll leaves the reader with: exactly the first topics as they    *)
(* are now, names and counts, however old the cursor was.                  *)
(***************************************************************************)
LEMMA PollExact ==
  ASSUME IInv, NEW r \in Readers, NEW h, NEW w
  PROVE  MirrorAfter(r, PollUpdate(cur[r], h, w))
           = [id \in 1..NamesEnd(StartCursor(cur[r]).topics) |->
                [name |-> topics[id].name, count |-> topics[id].count]]
<1> DEFINE c == StartCursor(cur[r])
           known == c.topics
           end == NamesEnd(known)
           u == PollUpdate(cur[r], h, w)
           old == IF u.epoch # cur[r].epoch THEN EmptyMirror ELSE mirror[r]
           named == AddTopics(old, u.firstId, u.names)
<1>1. /\ u.epoch = epoch /\ u.firstId = known + 1 /\ u.names = NamesBetween(known, end)
      /\ u.counts = [id \in Counted(c) |-> topics[id].count]
  BY DEF PollUpdate
<1>2. /\ known \in Nat /\ end \in Nat /\ Len(topics) \in Nat
      /\ known <= end /\ end <= Len(topics) /\ c.seq \in Nat
      /\ DOMAIN topics = 1..Len(topics) /\ topics \in Seq(TopicRecord)
  <2>1. known \in 0..Len(topics) /\ c.seq \in Nat
    BY StartCursorRange
  <2>2. topics \in Seq(TopicRecord)
    BY DEF IInv, TypeOK
  <2>3. Len(topics) \in Nat /\ DOMAIN topics = 1..Len(topics)
    BY <2>2, TableDomain
  <2> HIDE DEF c, known
  <2>4. end \in known..Len(topics)
    BY <2>1, <2>2, NamesEndRange
  <2> HIDE DEF end
  <2> QED
    BY <2>1, <2>2, <2>3, <2>4
<1>3. MirrorAfter(r, u) = ApplyCounts(named, u.counts)
  BY DEF MirrorAfter
<1>4. /\ DOMAIN old = 1..known
      /\ \A id \in 1..known :
           /\ old[id].name = topics[id].name
           /\ topics[id].seq <= c.seq => old[id].count = topics[id].count
           /\ old[id] = [name |-> old[id].name, count |-> old[id].count]
  <2>1. CASE cur[r].epoch # epoch
    <3>1. known = 0 /\ old = EmptyMirror
      BY <1>1, <2>1 DEF StartCursor, FreshCursor
    <3> QED
      BY <3>1 DEF EmptyMirror
  <2>2. CASE cur[r].epoch = epoch
    <3>1. c = cur[r] /\ old = mirror[r]
      BY <1>1, <2>2, StartCursorRange
    <3>2. /\ DOMAIN mirror[r] = 1..cur[r].topics
          /\ mirror[r] \in Seq([name : Names, count : MessageNumbers])
      BY DEF IInv, TypeOK, CursorInRange
    <3>3. \A id \in 1..known : mirror[r][id] \in [name : Names, count : MessageNumbers]
      BY <3>1, <3>2, ElementType, Zenon
    <3>4. \A id \in 1..known :
            /\ mirror[r][id].name = topics[id].name
            /\ topics[id].seq <= cur[r].seq => mirror[r][id].count = topics[id].count
      BY <2>2, <3>1, <3>2 DEF IInv, MirrorExact
    <3> QED
      BY <3>1, <3>2, <3>3, <3>4
  <2> QED
    BY <2>1, <2>2
<1> HIDE DEF c, known, old, u, end
<1>5. Len(NamesBetween(known, end)) = end - known
  BY <1>2 DEF NamesBetween
<1>6. (1..known) \cup ((known + 1)..(known + 1 + Len(u.names) - 1)) = 1..end
  BY <1>1, <1>2, <1>5
<1>7. /\ DOMAIN named = 1..end
      /\ \A id \in 1..known : named[id] = old[id]
      /\ \A id \in (known + 1)..end : named[id] = [name |-> topics[id].name, count |-> 0]
  <2>1. named = [id \in 1..end |-> IF id \in 1..known THEN old[id]
                                  ELSE [name |-> u.names[id - (known + 1) + 1], count |-> 0]]
    BY <1>1, <1>4, <1>6 DEF AddTopics
  <2>2. ASSUME NEW id \in (known + 1)..end
        PROVE  u.names[id - (known + 1) + 1] = topics[id].name
    BY <1>1, <1>2 DEF NamesBetween
  <2> QED
    BY <1>2, <2>1, <2>2
<1> HIDE DEF named
<1>8. Counted(c) = {id \in 1..known : topics[id].seq > c.seq} \cup (known + 1)..end
  BY DEF Counted, known, end
<1>9. ASSUME NEW id \in 1..end
      PROVE  (IF id \in DOMAIN u.counts THEN [named[id] EXCEPT !.count = u.counts[id]]
              ELSE named[id]) = [name |-> topics[id].name, count |-> topics[id].count]
  <2>1. CASE id \in 1..known
    <3>1. /\ named[id] = [name |-> topics[id].name, count |-> named[id].count]
          /\ topics[id].seq <= c.seq => named[id].count = topics[id].count
      BY <1>4, <1>7, <2>1
    <3>2. topics[id].seq \in Nat
      BY <1>2, TopicFields
    <3>3. CASE topics[id].seq > c.seq
      BY <1>1, <1>8, <2>1, <3>1, <3>3
    <3>4. CASE topics[id].seq <= c.seq
      <4>1. id \notin Counted(c)
        BY <1>2, <1>8, <2>1, <3>2, <3>4
      <4> QED
        BY <1>1, <3>1, <3>4, <4>1
    <3> QED
      BY <1>2, <3>2, <3>3, <3>4
  <2>2. CASE id \in (known + 1)..end
    <3>1. named[id] = [name |-> topics[id].name, count |-> 0] /\ id \in Counted(c)
      BY <1>7, <1>8, <2>2
    <3> QED
      BY <1>1, <3>1
  <2> QED
    BY <1>2, <2>1, <2>2
<1>10. MirrorAfter(r, u) = [id \in 1..end |-> IF id \in DOMAIN u.counts
                                              THEN [named[id] EXCEPT !.count = u.counts[id]]
                                              ELSE named[id]]
  BY <1>3, <1>7 DEF ApplyCounts
<1> QED
  BY <1>9, <1>10 DEF end, known, c, u

(* Where a poll leaves the reader. *)
PolledCursor(r) ==
  [epoch |-> epoch, topics |-> NamesEnd(StartCursor(cur[r]).topics), seq |-> seq]

PolledMirror(r) ==
  [id \in 1..NamesEnd(StartCursor(cur[r]).topics) |->
     [name |-> topics[id].name, count |-> topics[id].count]]

LEMMA PollEffect ==
  ASSUME IInv, NEW r \in Readers, Poll(r)
  PROVE  /\ cur' = [cur EXCEPT ![r] = PolledCursor(r)]
         /\ mirror' = [mirror EXCEPT ![r] = PolledMirror(r)]
         /\ sel' \in [Readers -> [epoch : Nat, id : Nat, from : MessageNumbers]]
         /\ UNCHANGED <<epoch, seq, byName, topics, stats>>
<1> DEFINE w == [NoWant EXCEPT !.selected = sel[r].id]
           u == PollUpdate(cur[r], histN[r], w)
<1>1. /\ cur' = [cur EXCEPT ![r] = PollCursor(cur[r])]
      /\ mirror' = [mirror EXCEPT ![r] = MirrorAfter(r, u)]
      /\ sel' = [sel EXCEPT ![r] = IF u.reset THEN NoSelection ELSE sel[r]]
      /\ UNCHANGED <<epoch, seq, byName, topics, stats>>
  BY DEF Poll
<1>2. MirrorAfter(r, u) = PolledMirror(r)
  BY PollExact DEF PolledMirror
<1>3. PollCursor(cur[r]) = PolledCursor(r)
  BY DEF PollCursor, PolledCursor
<1>4. NoSelection \in [epoch : Nat, id : Nat, from : MessageNumbers]
  BY StoreAssumption DEF NoSelection, NoTopic, MessageNumbers
<1>5. sel \in [Readers -> [epoch : Nat, id : Nat, from : MessageNumbers]]
  BY DEF IInv, TypeOK
<1> HIDE DEF u
<1>6. sel' \in [Readers -> [epoch : Nat, id : Nat, from : MessageNumbers]]
  BY <1>1, <1>4, <1>5
<1> QED
  BY <1>1, <1>2, <1>3, <1>6

LEMMA PollStep ==
  ASSUME IInv, NEW r \in Readers, Poll(r)
  PROVE  IInv'
<1> DEFINE end == NamesEnd(StartCursor(cur[r]).topics)
<1>1. /\ end \in Nat /\ end <= Len(topics) /\ Len(topics) \in Nat /\ DOMAIN topics = 1..Len(topics)
      /\ topics \in Seq(TopicRecord) /\ epoch \in Nat \ {0} /\ seq \in Nat
  <2>1. topics \in Seq(TopicRecord) /\ epoch \in Nat \ {0} /\ seq \in Nat
    BY DEF IInv, TypeOK
  <2>2. Len(topics) \in Nat /\ DOMAIN topics = 1..Len(topics)
    BY <2>1, TableDomain
  <2>3. end \in StartCursor(cur[r]).topics..Len(topics) /\ StartCursor(cur[r]).topics \in Nat
    BY <2>1, <2>2, StartCursorRange, NamesEndRange
  <2> HIDE DEF end
  <2> QED
    BY <2>1, <2>2, <2>3
<1>2. PolledCursor(r) = [epoch |-> epoch, topics |-> end, seq |-> seq]
  BY DEF PolledCursor
<1>3. PolledMirror(r) = [id \in 1..end |-> [name |-> topics[id].name, count |-> topics[id].count]]
  BY DEF PolledMirror
<1> HIDE DEF end
<1>4. PolledMirror(r) \in Seq([name : Names, count : MessageNumbers])
  <2>1. \A id \in 1..end : topics[id] \in TopicRecord
    BY <1>1
  <2>2. \A id \in 1..end : [name |-> topics[id].name, count |-> topics[id].count]
                             \in [name : Names, count : MessageNumbers]
    BY <2>1, TopicFields
  <2> QED
    BY <1>1, <1>3, <2>2
<1>5. /\ DOMAIN cur = Readers /\ cur \in [Readers -> CursorRecord] /\ DOMAIN mirror = Readers
  BY DEF IInv, TypeOK
<1>6. ASSUME NEW q \in Readers
      PROVE  /\ cur'[q] = IF q = r THEN PolledCursor(r) ELSE cur[q]
             /\ mirror'[q] = IF q = r THEN PolledMirror(r) ELSE mirror[q]
  BY <1>5, PollEffect
<1>7. UNCHANGED <<epoch, seq, byName, topics, stats>> /\ DOMAIN mirror' = Readers
  BY <1>5, PollEffect
<1>8. ReaderTypes'
  <2>1. PolledCursor(r) \in CursorRecord
    BY <1>1, <1>2 DEF CursorRecord
  <2>2. cur' \in [Readers -> CursorRecord]
    BY <1>5, <2>1, PollEffect
  <2>3. \A q \in Readers : mirror'[q] \in Seq([name : Names, count : MessageNumbers])
    BY <1>4, <1>6 DEF IInv, TypeOK
  <2> QED
    BY <1>7, <2>2, <2>3, PollEffect DEF ReaderTypes, CursorRecord
<1>9. TypeOK'
  BY <1>7, <1>8 DEF IInv, TypeOK, ReaderTypes
<1>10. IndexAgrees'
  BY <1>7 DEF IInv, IndexAgrees, TopicIds
<1>11. CursorInRange'
  <2> SUFFICES ASSUME NEW q \in Readers
               PROVE  /\ cur'[q].epoch <= epoch
                      /\ DOMAIN mirror'[q] = 1..cur'[q].topics
                      /\ cur'[q].epoch = epoch => /\ cur'[q].topics <= Len(topics)
                                                  /\ cur'[q].seq <= seq
    BY <1>7 DEF CursorInRange
  <2>1. CASE q = r
    BY <1>1, <1>2, <1>3, <1>6, <2>1
  <2>2. CASE q # r
    BY <1>6, <2>2 DEF IInv, CursorInRange
  <2> QED
    BY <2>1, <2>2
<1>12. MirrorExact'
  <2> SUFFICES ASSUME NEW q \in Readers, cur'[q].epoch = epoch, NEW id \in DOMAIN mirror'[q]
               PROVE  /\ mirror'[q][id].name = topics[id].name
                      /\ topics[id].seq <= cur'[q].seq =>
                           mirror'[q][id].count = topics[id].count
    BY <1>7 DEF MirrorExact
  <2>1. CASE q = r
    <3>1. mirror'[q] = PolledMirror(r)
      BY <1>6, <2>1
    <3>2. id \in 1..end
      BY <1>3, <3>1
    <3> QED
      BY <1>3, <3>1, <3>2
  <2>2. CASE q # r
    BY <1>6, <2>2 DEF IInv, MirrorExact
  <2> QED
    BY <2>1, <2>2
<1> QED
  BY <1>9, <1>10, <1>11, <1>12 DEF IInv

-----------------------------------------------------------------------------
LEMMA InitIInv == Init => IInv
<1> SUFFICES ASSUME Init PROVE IInv
  OBVIOUS
<1> USE DEF Init, StoreInit
<1>1. ReaderTypes
  BY StoreAssumption
     DEF ReaderTypes, FreshCursor, CursorRecord, NoSelection, NoTopic, EmptyMirror, MessageNumbers
<1>2. TypeOK
  <2>1. byName \in [DOMAIN byName -> Nat] /\ DOMAIN byName \subseteq Names
    OBVIOUS
  <2>2. topics \in Seq(TopicRecord) /\ stats \in [messages : Nat, dropped : Nat]
    OBVIOUS
  <2>3. epoch \in Nat \ {0} /\ seq \in Nat
    OBVIOUS
  <2> QED
    BY <1>1, <2>1, <2>2, <2>3, Zenon DEF TypeOK, ReaderTypes
<1>3. IndexAgrees
  BY DEF IndexAgrees, TopicIds
<1>4. CursorInRange /\ MirrorExact
  BY DEF CursorInRange, MirrorExact, FreshCursor, EmptyMirror
<1> QED
  BY <1>2, <1>3, <1>4 DEF IInv

LEMMA SelectStep ==
  ASSUME IInv, NEW r \in Readers, NEW id \in DOMAIN mirror[r], Select(r, id)
  PROVE  IInv'
<1>1. topics \in Seq(TopicRecord) /\ epoch \in Nat
  BY DEF IInv, TypeOK
<1>2. /\ topics' = Selected(topics, cur[r].epoch, id)
      /\ UNCHANGED <<epoch, seq, byName, stats, cur, mirror>>
  BY DEF Select
<1>3. SameTopics(topics', topics)
  BY <1>1, <1>2, SelectedSame
<1>4. id \in Nat
  <2>1. mirror[r] \in Seq([name : Names, count : MessageNumbers])
    BY DEF IInv, TypeOK
  <2>2. DOMAIN mirror[r] = 1..cur[r].topics /\ cur[r].topics \in Nat
    BY DEF IInv, TypeOK, CursorInRange, CursorRecord
  <2> QED
    BY <2>2
<1>5. (IF IsCurrent(topics, cur[r].epoch, id)
       THEN [epoch |-> epoch, id |-> id, from |-> topics[id].count]
       ELSE NoSelection) \in [epoch : Nat, id : Nat, from : MessageNumbers]
  <2>1. IsCurrent(topics, cur[r].epoch, id) => topics[id].count \in MessageNumbers
    BY <1>1, ElementType, TopicFields DEF IsCurrent
  <2> QED
    BY <1>1, <1>4, <2>1, StoreAssumption DEF NoSelection, NoTopic, MessageNumbers
<1>6. sel' \in [Readers -> [epoch : Nat, id : Nat, from : MessageNumbers]]
  BY <1>5 DEF Select, IInv, TypeOK
<1> QED
  BY <1>2, <1>3, <1>6, SelectionStep

LEMMA ReleaseStep ==
  ASSUME IInv, NEW r \in Readers, Release(r)
  PROVE  IInv'
<1>1. topics \in Seq(TopicRecord)
  BY DEF IInv, TypeOK
<1>2. /\ topics' = Released(topics, sel[r].epoch, sel[r].id)
      /\ UNCHANGED <<epoch, seq, byName, stats, cur, mirror>>
  BY DEF Release
<1>3. SameTopics(topics', topics)
  BY <1>1, <1>2, ReleasedSame
<1>4. NoSelection \in [epoch : Nat, id : Nat, from : MessageNumbers]
  BY StoreAssumption DEF NoSelection, NoTopic, MessageNumbers
<1>5. sel' \in [Readers -> [epoch : Nat, id : Nat, from : MessageNumbers]]
  BY <1>4 DEF Release, IInv, TypeOK
<1> QED
  BY <1>2, <1>3, <1>5, SelectionStep

LEMMA NextIInv == IInv /\ [Next]_vars => IInv'
<1> SUFFICES ASSUME IInv, [Next]_vars PROVE IInv'
  OBVIOUS
<1>1. CASE \E name \in Names : Publish(name)
  BY <1>1, PublishStep
<1>2. CASE Clear
  BY <1>2, ClearStep
<1>3. CASE \E r \in Readers : Poll(r)
  BY <1>3, PollStep
<1>4. CASE \E r \in Readers : \E id \in DOMAIN mirror[r] : Select(r, id)
  BY <1>4, SelectStep
<1>5. CASE \E r \in Readers : Release(r)
  BY <1>5, ReleaseStep
<1>6. CASE UNCHANGED vars
  <2>1. UNCHANGED <<epoch, seq, byName, topics, stats, cur, sel, mirror>>
    BY <1>6 DEF vars
  <2>2. TypeOK'
    BY <2>1 DEF IInv, TypeOK
  <2>3. IndexAgrees' /\ CursorInRange' /\ MirrorExact'
    BY <2>1 DEF IInv, IndexAgrees, CursorInRange, MirrorExact, TopicIds
  <2> QED
    BY <2>2, <2>3 DEF IInv
<1> QED
  BY <1>1, <1>2, <1>3, <1>4, <1>5, <1>6 DEF Next

(***************************************************************************)
(* The inductive invariant holds in every reachable state.                 *)
(***************************************************************************)
THEOREM Invariance == Spec => []IInv
<1>1. Init => IInv
  BY InitIInv
<1>2. IInv /\ [Next]_vars => IInv'
  BY NextIInv
<1> QED
  BY <1>1, <1>2, PTL DEF Spec

(***************************************************************************)
(* Every variable keeps its type: counts stay below 2^32, a history is a   *)
(* ring or nil, a mirror has the topics 1..n without a hole.               *)
(***************************************************************************)
THEOREM TypeCorrect == Spec => []TypeOK
<1>1. IInv => TypeOK
  BY DEF IInv
<1> QED
  BY <1>1, Invariance, PTL

(***************************************************************************)
(* The name index and the topic table agree in every reachable state.      *)
(***************************************************************************)
THEOREM IndexCorrect == Spec => []IndexAgrees
<1>1. IInv => IndexAgrees
  BY DEF IInv
<1> QED
  BY <1>1, Invariance, PTL

(***************************************************************************)
(* No cursor of the current epoch is ahead of the store, and a mirror has  *)
(* exactly the topics its cursor says were delivered.                      *)
(***************************************************************************)
THEOREM CursorCorrect == Spec => []CursorInRange
<1>1. IInv => CursorInRange
  BY DEF IInv
<1> QED
  BY <1>1, Invariance, PTL

(***************************************************************************)
(* However many readers poll, and however late, none is left with a wrong  *)
(* name or with a stale count that its next poll would not correct.        *)
(***************************************************************************)
THEOREM MirrorCorrect == Spec => []MirrorExact
<1>1. IInv => MirrorExact
  BY DEF IInv
<1> QED
  BY <1>1, Invariance, PTL

-----------------------------------------------------------------------------
(***************************************************************************)
(* The store with its cursors implements TopicFeed: the refinement that    *)
(* the run on MCStore checks, for every value of the constants.            *)
(***************************************************************************)
(* The table as the feed sees it. *)
LEMMA ViewDomain ==
  ASSUME IInv
  PROVE  /\ Len(topics) \in Nat
         /\ DOMAIN TableView = 1..Len(topics)
         /\ TableView \in Seq([name : Names, count : MessageNumbers])
         /\ Len(TableView) = Len(topics)
<1>1. topics \in Seq(TopicRecord)
  BY DEF IInv, TypeOK
<1>2. Len(topics) \in Nat /\ DOMAIN topics = 1..Len(topics)
  BY <1>1, TableDomain
<1>3. \A id \in DOMAIN topics : [name |-> topics[id].name, count |-> topics[id].count]
                                   \in [name : Names, count : MessageNumbers]
  BY <1>1, ElementType, TopicFields
<1>4. TableView = [id \in 1..Len(topics) |-> [name |-> topics[id].name, count |-> topics[id].count]]
  BY <1>2 DEF TableView, TopicIds
<1> QED
  BY <1>2, <1>3, <1>4

LEMMA SameSequence ==
  ASSUME NEW S, NEW s \in Seq(S), NEW t \in Seq(S), Len(s) = Len(t),
         \A i \in 1..Len(s) : s[i] = t[i]
  PROVE  s = t
OBVIOUS

(* Nothing the feed can see has changed. *)
LEMMA SameView ==
  ASSUME SameTopics(topics', topics), UNCHANGED <<epoch, cur, mirror>>
  PROVE  UNCHANGED <<TableView, epoch, CopyView>>
BY DEF SameTopics, TableView, CopyView, TopicIds

LEMMA ViewInit == Init => Feed!Init
<1> SUFFICES ASSUME Init PROVE Feed!Init
  OBVIOUS
<1>1. TableView = <<>>
  BY DEF Init, StoreInit, TableView, TopicIds
<1>2. EmptyMirror = <<>>
  BY DEF EmptyMirror
<1>3. CopyView = [r \in Readers |-> [generation |-> 0, table |-> <<>>]]
  BY <1>2 DEF Init, CopyView, FreshCursor
<1> QED
  BY <1>1, <1>3 DEF Feed!Init, Init, StoreInit

LEMMA ViewPublish ==
  ASSUME IInv, NEW name \in Names, Publish(name)
  PROVE  [Feed!Next]_Feed!feedVars
<1>0. topics \in Seq(TopicRecord)
  BY DEF IInv, TypeOK
<1>1. CASE IngestDropped(name)
  BY <1>1 DEF Publish, readerVars, IngestDropped, Feed!feedVars, TableView, CopyView, TopicIds
<1>2. CASE IngestNew(name)
  <2> DEFINE t == Recorded(NewTopic(name))
             e == [name |-> name, count |-> Increment(0)]
  <2>1. NewTopic(name) \in TopicRecord /\ NewTopic(name).count = 0
    BY NewTopicType DEF NewTopic
  <2>2. t \in TopicRecord /\ t.name = name /\ t.count = Increment(0)
    BY <2>1, NewTopicType, RecordedType DEF IInv, TypeOK
  <2>3. topics' = Append(topics, t) /\ Len(topics) < MaxTopics /\ name \notin DOMAIN byName
    BY <1>2 DEF IngestNew
  <2>4. UNCHANGED <<epoch, cur, mirror>>
    BY <1>2 DEF IngestNew, Publish, readerVars
  <2> HIDE DEF t
  <2>5. topics' \in Seq(TopicRecord) /\ Len(topics') = Len(topics) + 1
    BY <1>0, <2>2, <2>3
  <2>6. Len(topics) \in Nat /\ DOMAIN topics = 1..Len(topics) /\ DOMAIN topics' = 1..(Len(topics) + 1)
    BY <1>0, <2>5, TableDomain
  <2>7. topics'[Len(topics) + 1] = t /\ \A i \in 1..Len(topics) : topics'[i] = topics[i]
    BY <1>0, <2>2, <2>3, <2>6
  <2>8. TableView' = Append(TableView, e)
    <3> DEFINE S == [name : Names, count : MessageNumbers]
    <3>1. TableView' = [i \in 1..(Len(topics) + 1) |->
                          [name |-> topics'[i].name, count |-> topics'[i].count]]
      BY <2>6 DEF TableView, TopicIds
    <3>a. \A i \in 1..(Len(topics) + 1) :
            [name |-> topics'[i].name, count |-> topics'[i].count] \in S
      BY <2>5, <2>6, ElementType, TopicFields
    <3>b. e \in S
      BY <2>2, TopicFields
    <3> HIDE DEF S, e
    <3>c. TableView' \in Seq(S) /\ Len(TableView') = Len(topics) + 1
      BY <2>6, <3>1, <3>a
    <3>d. TableView \in Seq(S) /\ Len(TableView) = Len(topics)
      BY ViewDomain DEF S
    <3>e. Append(TableView, e) \in Seq(S) /\ Len(Append(TableView, e)) = Len(topics) + 1
      BY <3>b, <3>d
    <3>2. ASSUME NEW i \in 1..(Len(topics) + 1)
          PROVE  TableView'[i] = Append(TableView, e)[i]
      <4>1. CASE i = Len(topics) + 1
        BY <2>2, <2>6, <2>7, <3>1, <3>d, <4>1 DEF e
      <4>2. CASE i \in 1..Len(topics)
        <5>1. Append(TableView, e)[i] = TableView[i]
          BY <3>d, <4>2
        <5>2. TableView[i] = [name |-> topics[i].name, count |-> topics[i].count]
          BY <2>6, <4>2 DEF TableView, TopicIds
        <5>3. topics'[i] = topics[i] /\ i \in 1..(Len(topics) + 1)
          BY <2>6, <2>7, <4>2
        <5> QED
          BY <3>1, <5>1, <5>2, <5>3
      <4>3. i = Len(topics) + 1 \/ i \in 1..Len(topics)
        BY <2>6
      <4> QED
        BY <4>1, <4>2, <4>3, Zenon
    <3> QED
      BY <3>c, <3>e, <3>2, SameSequence
  <2>9. \A i \in DOMAIN TableView : TableView[i].name # name
    BY <2>3 DEF IInv, IndexAgrees, TableView, TopicIds
  <2>10. CopyView' = CopyView
    BY <2>4 DEF CopyView
  <2>11. Feed!PublishNew(name)
    BY <2>3, <2>4, <2>8, <2>9, <2>10, ViewDomain DEF Feed!PublishNew, Feed!Next1, Increment
  <2> QED
    BY <2>11 DEF Feed!Next
<1>3. CASE IngestKnown(name)
  <2> DEFINE id == byName[name]
             t == Recorded(topics[id])
  <2>1. id \in DOMAIN topics
    <3>1. PICK i \in DOMAIN topics : topics[i].name = name
      BY <1>3 DEF IngestKnown, IInv, IndexAgrees, TopicIds
    <3>2. byName[topics[i].name] = i
      BY DEF IInv, IndexAgrees, TopicIds
    <3> QED
      BY <3>1, <3>2
  <2>2. topics[id] \in TopicRecord
    BY <1>0, <2>1, ElementType
  <2>3. t.name = topics[id].name /\ t.count = Increment(topics[id].count)
    BY <2>2, RecordedType DEF IInv, TypeOK
  <2>4. topics' = [topics EXCEPT ![id] = t]
    BY <1>3 DEF IngestKnown
  <2>5. UNCHANGED <<epoch, cur, mirror>>
    BY <1>3 DEF IngestKnown, Publish, readerVars
  <2> HIDE DEF t, id
  <2>6. DOMAIN topics' = DOMAIN topics
    BY <1>0, <2>4
  <2>7. topics'[id] = t /\ \A i \in DOMAIN topics \ {id} : topics'[i] = topics[i]
    BY <1>0, <2>1, <2>4
  <2>8. TableView' = [TableView EXCEPT ![id] = [TableView[id] EXCEPT !.count = Increment(@)]]
    BY <2>1, <2>3, <2>6, <2>7 DEF TableView, TopicIds
  <2>9. Feed!PublishAgain(id)
    BY <2>5, <2>8 DEF Feed!PublishAgain, CopyView, Feed!Next1, Increment
  <2>10. id \in DOMAIN TableView
    BY <2>1 DEF TableView, TopicIds
  <2> QED
    BY <2>9, <2>10 DEF Feed!Next
<1> QED
  BY <1>1, <1>2, <1>3 DEF Publish, Ingest

LEMMA ViewClear ==
  ASSUME Clear
  PROVE  Feed!Clear
BY DEF Clear, Reset, readerVars, Feed!Clear, TableView, CopyView, TopicIds

LEMMA ViewPoll ==
  ASSUME IInv, NEW r \in Readers, Poll(r)
  PROVE  Feed!Refresh(r)
<1> DEFINE known == StartCursor(cur[r]).topics
           end == NamesEnd(known)
           had == IF CopyView[r].generation = epoch THEN Len(CopyView[r].table) ELSE 0
<1>1. /\ Len(topics) \in Nat /\ DOMAIN TableView = 1..Len(topics) /\ Len(TableView) = Len(topics)
  BY ViewDomain
<1>2. known \in 0..Len(topics)
  BY StartCursorRange
<1>3. end \in known..Len(topics) /\ (known < Len(topics) => known < end)
  BY <1>2, NamesEndRange DEF IInv, TypeOK
<1>4. had = known
  <2>1. CASE cur[r].epoch # epoch
    <3>1. known = 0
      BY <2>1, StartCursorRange DEF FreshCursor
    <3> QED
      BY <2>1, <3>1 DEF CopyView
  <2>2. CASE cur[r].epoch = epoch
    <3>1. /\ DOMAIN mirror[r] = 1..cur[r].topics /\ cur[r].topics \in Nat
          /\ mirror[r] \in Seq([name : Names, count : MessageNumbers])
      BY DEF IInv, TypeOK, CursorInRange, CursorRecord
    <3>2. Len(mirror[r]) = cur[r].topics
      BY <3>1
    <3>3. known = cur[r].topics
      BY <2>2, StartCursorRange
    <3> QED
      BY <2>2, <3>2, <3>3 DEF CopyView
  <2> QED
    BY <2>1, <2>2
<1>5. PolledMirror(r) = [i \in 1..end |-> TableView[i]]
  <2>1. \A i \in 1..end : TableView[i] = [name |-> topics[i].name, count |-> topics[i].count]
    <3>1. \A i \in 1..end : i \in DOMAIN TableView
      BY <1>1, <1>2, <1>3
    <3> QED
      BY <3>1 DEF TableView
  <2> QED
    BY <2>1 DEF PolledMirror
<1>6. DOMAIN cur = Readers /\ DOMAIN mirror = Readers
  BY DEF IInv, TypeOK
<1>7. CopyView' = [CopyView EXCEPT ![r] = [generation |-> epoch,
                                          table |-> [i \in 1..end |-> TableView[i]]]]
  <2>1. \A q \in Readers : /\ cur'[q] = IF q = r THEN PolledCursor(r) ELSE cur[q]
                           /\ mirror'[q] = IF q = r THEN PolledMirror(r) ELSE mirror[q]
    BY <1>6, PollEffect
  <2> DEFINE new == [generation |-> epoch, table |-> [i \in 1..end |-> TableView[i]]]
  <2>2. new = [generation |-> PolledCursor(r).epoch, table |-> PolledMirror(r)]
    BY <1>5 DEF PolledCursor
  <2> HIDE DEF end, new
  <2>3. CopyView' = [q \in Readers |-> IF q = r THEN new ELSE CopyView[q]]
    BY <2>1, <2>2 DEF CopyView
  <2>4. CopyView = [q \in Readers |-> CopyView[q]]
    BY DEF CopyView
  <2>5. CopyView' = [CopyView EXCEPT ![r] = new]
    BY <2>3, <2>4
  <2> QED
    BY <2>5 DEF new
<1>8. UNCHANGED <<TableView, epoch>>
  BY PollEffect DEF TableView, TopicIds
<1> HIDE DEF known, end, had
<1>9. end \in had..Len(TableView) /\ (end > had \/ end = Len(TableView))
  <2>1. known \in Nat /\ end \in Nat /\ known <= end /\ end <= Len(topics)
    BY <1>1, <1>2, <1>3
  <2>2. Len(topics) \in Nat /\ Len(TableView) = Len(topics)
    BY <1>1
  <2>3. known < Len(topics) => known < end
    BY <1>3
  <2>4. end > known \/ end = Len(topics)
    BY <2>1, <2>2, <2>3
  <2>5. end \in known..Len(topics)
    BY <1>3
  <2> QED
    BY <1>4, <2>2, <2>4, <2>5
<1> QED
  BY <1>7, <1>8, <1>9 DEF Feed!Refresh, had

LEMMA ViewNext == IInv /\ [Next]_vars => [Feed!Next]_Feed!feedVars
<1> SUFFICES ASSUME IInv, [Next]_vars PROVE [Feed!Next]_Feed!feedVars
  OBVIOUS
<1>0. topics \in Seq(TopicRecord)
  BY DEF IInv, TypeOK
<1>1. CASE \E name \in Names : Publish(name)
  BY <1>1, ViewPublish
<1>2. CASE Clear
  BY <1>2, ViewClear DEF Feed!Next
<1>3. CASE \E r \in Readers : Poll(r)
  BY <1>3, ViewPoll DEF Feed!Next
<1>4. CASE \E r \in Readers : \E id \in DOMAIN mirror[r] : Select(r, id)
  <2>1. SameTopics(topics', topics) /\ UNCHANGED <<epoch, cur, mirror>>
    BY <1>0, <1>4, SelectedSame DEF Select
  <2> QED
    BY <2>1, SameView DEF Feed!feedVars
<1>5. CASE \E r \in Readers : Release(r)
  <2>1. SameTopics(topics', topics) /\ UNCHANGED <<epoch, cur, mirror>>
    BY <1>0, <1>5, ReleasedSame DEF Release
  <2> QED
    BY <2>1, SameView DEF Feed!feedVars
<1>6. CASE UNCHANGED vars
  BY <1>6 DEF vars, Feed!feedVars, TableView, CopyView, TopicIds
<1> QED
  BY <1>1, <1>2, <1>3, <1>4, <1>5, <1>6 DEF Next

(***************************************************************************)
(* Cursors, sequence stamps and partial updates are an implementation of   *)
(* the feed that hands every reader an exact copy.                         *)
(***************************************************************************)
THEOREM StoreImplementsFeed == Spec => ImplementsFeed
<1>1. Init => Feed!Init
  BY ViewInit
<1>2. IInv /\ [Next]_vars => [Feed!Next]_Feed!feedVars
  BY ViewNext
<1> QED
  BY <1>1, <1>2, Invariance, PTL DEF Spec, Feed!Spec, ImplementsFeed

-----------------------------------------------------------------------------
(***************************************************************************)
(* Selections and histories.  The inductive invariant, in five parts.      *)
(***************************************************************************)

\* A topic's count is the number of its latest message and does not wrap.
CountsInv ==
  /\ stats.messages + stats.dropped <= MaxIngest
  /\ \A id \in TopicIds : /\ topics[id].last = topics[id].count
                          /\ topics[id].count \in 1..stats.messages

\* A selection is of the epoch its reader knows.
EpochsInv ==
  \A r \in Readers :
    sel[r] # NoSelection =>
      /\ sel[r].epoch = cur[r].epoch
      /\ sel[r].epoch # 0
      /\ sel[r].epoch = epoch => sel[r].id \in TopicIds

RingsInv ==
  \A id \in TopicIds :
    topics[id].hist # NoRing => RingEndsAt(topics[id].hist, topics[id].count)

\* What a reader shows: a run of at most HistorySize numbers that ends with
\* histN and, while the selection is valid, lacks nothing the ring still has.
HistoryAt(r) ==
  /\ histN[r] \in Nat
  /\ Len(history[r]) \in 0..HistorySize /\ Len(history[r]) <= histN[r]
  /\ history[r] = Run(histN[r] - Len(history[r]), histN[r])
  /\ histN[r] # 0 => Len(history[r]) # 0
  /\ sel[r] = NoSelection => histN[r] = 0
  /\ sel[r] # NoSelection /\ sel[r].epoch = epoch =>
       LET t == topics[sel[r].id]
       IN  /\ sel[r].from \in 1..t.count /\ histN[r] <= t.count
           /\ GoesBackTo(t.hist, t.count, sel[r].from)
           /\ histN[r] # 0 =>
                /\ sel[r].from <= histN[r]
                /\ \/ Len(history[r]) = HistorySize
                   \/ histN[r] - Len(history[r]) < sel[r].from
           /\ histN[r] # 0 /\ t.seq <= cur[r].seq => histN[r] = t.count

HistoriesInv ==
  /\ DOMAIN histN = Readers /\ DOMAIN history = Readers
  /\ \A r \in Readers : HistoryAt(r)

HInv == /\ IInv /\ CountsInv /\ EpochsInv /\ SelectionsCounted /\ RingsInv /\ HistoriesInv

-----------------------------------------------------------------------------
(* Runs as sequences. *)
LEMMA RunSequence ==
  ASSUME NEW a \in Int, NEW b \in Int, a <= b
  PROVE  /\ Run(a, b) \in Seq(Int) /\ Len(Run(a, b)) = b - a
         /\ DOMAIN Run(a, b) = 1..(b - a)
         /\ \A i \in 1..(b - a) : Run(a, b)[i] = a + i
         /\ Run(a, b) = <<>> <=> a = b
BY DEF Run

LEMMA IsRun ==
  ASSUME NEW b \in Int, NEW k \in Nat, NEW s \in Seq(Int), Len(s) = k,
         \A i \in 1..k : s[i] = b - k + i
  PROVE  s = Run(b - k, b)
<1>1. s = [i \in 1..k |-> s[i]]
  OBVIOUS
<1>2. b - (b - k) = k
  OBVIOUS
<1> QED
  BY <1>1, <1>2 DEF Run

LEMMA ConcatElements ==
  ASSUME NEW s \in Seq(Int), NEW t \in Seq(Int)
  PROVE  /\ s \o t \in Seq(Int) /\ Len(s \o t) = Len(s) + Len(t)
         /\ \A i \in 1..(Len(s) + Len(t)) :
              (s \o t)[i] = IF i <= Len(s) THEN s[i] ELSE t[i - Len(s)]
OBVIOUS

LEMMA LastRun ==
  ASSUME NEW s \in Seq(Int), NEW k \in Nat, Len(s) > k, NEW b \in Int,
         \A i \in 1..k : s[Len(s) - k + i] = b - k + i
  PROVE  LastElements(s, k) = Run(b - k, b)
<1> DEFINE t == SubSeq(s, Len(s) - k + 1, Len(s))
<1>1. LastElements(s, k) = t
  BY DEF LastElements
<1>2. /\ t \in Seq(Int) /\ Len(t) = k
      /\ \A i \in 1..k : t[i] = s[Len(s) - k + i]
  <2>1. Len(s) \in Nat /\ Len(s) - k + 1 \in 1..Len(s) + 1 /\ Len(s) - (Len(s) - k + 1) + 1 = k
    OBVIOUS
  <2>2. t = [i \in 1..(Len(s) - (Len(s) - k + 1) + 1) |-> s[Len(s) - k + 1 + i - 1]]
    BY <2>1
  <2>3. \A i \in 1..k : Len(s) - k + i \in 1..Len(s) /\ Len(s) - k + 1 + i - 1 = Len(s) - k + i
    BY <2>1
  <2>4. t = [i \in 1..k |-> s[Len(s) - k + i]]
    BY <2>1, <2>2, <2>3
  <2>5. \A i \in 1..k : s[Len(s) - k + i] \in Int
    BY <2>3
  <2> HIDE DEF t
  <2> QED
    BY <2>4, <2>5
<1> HIDE DEF t
<1>3. t = Run(b - k, b)
  BY <1>2, IsRun
<1> QED
  BY <1>1, <1>3

(* What a history becomes when a poll brings the numbers above lo up to n: *)
(* L' of them are kept, and nothing is missing between the first and n.    *)
LEMMA AppendRun ==
  ASSUME NEW m \in Nat, NEW n \in Nat, NEW L \in 0..HistorySize, NEW lo \in m..n,
         L <= m, n - lo <= HistorySize, lo = m \/ L = 0 \/ n - lo = HistorySize
  PROVE  LET kept == IF L = 0 THEN n - lo
                     ELSE IF lo > m \/ L + n - m > HistorySize THEN HistorySize
                     ELSE L + n - m
         IN  AppendHistory(Run(m - L, m), Run(lo, n), HistorySize) = Run(n - kept, n)
<1> DEFINE old == Run(m - L, m)
           new == Run(lo, n)
<1>1. HistorySize \in Nat \ {0}
  BY StoreAssumption
<1>0. /\ m \in Int /\ n \in Int /\ lo \in Int /\ L \in Nat /\ m - L \in Int
      /\ m - L <= m /\ lo <= n /\ m <= lo /\ m - (m - L) = L
  BY <1>1
<1>2. /\ old \in Seq(Int) /\ Len(old) = L
      /\ \A i \in 1..L : old[i] = m - L + i
      /\ old = <<>> <=> L = 0
  <2>1. /\ old \in Seq(Int) /\ Len(old) = m - (m - L)
        /\ \A i \in 1..(m - (m - L)) : old[i] = m - L + i
        /\ old = <<>> <=> m - L = m
    BY <1>0, RunSequence
  <2> QED
    BY <1>0, <2>1
<1>3. /\ new \in Seq(Int) /\ Len(new) = n - lo
      /\ \A i \in 1..(n - lo) : new[i] = lo + i
  BY <1>0, RunSequence
<1>4. NewEntries(old, new) = new
  <2>1. CASE L = 0
    BY <1>2, <2>1 DEF NewEntries
  <2>2. CASE L # 0
    <3>1. old[Len(old)] = m
      BY <1>2, <2>2
    <3>2. Above(new, m) = Run(IF m > lo THEN m ELSE lo, n)
      BY <1>0, AboveRun
    <3>3. ~(m > lo)
      BY <1>0
    <3> QED
      BY <1>2, <2>2, <3>1, <3>2, <3>3 DEF NewEntries
  <2> QED
    BY <2>1, <2>2
<1> HIDE DEF old, new
<1> DEFINE all == old \o new
<1>5. all \in Seq(Int) /\ Len(all) = L + (n - lo)
  BY <1>2, <1>3, ConcatElements
<1>6. ASSUME NEW i \in 1..(L + (n - lo))
      PROVE  all[i] = IF i <= L THEN m - L + i ELSE lo + (i - L)
  <2>0. i \in 1..(Len(old) + Len(new))
    BY <1>2, <1>3
  <2>1. all[i] = IF i <= L THEN old[i] ELSE new[i - L]
    BY <1>2, <1>3, <2>0, ConcatElements
  <2> HIDE DEF all
  <2>2. i <= L => i \in 1..L
    OBVIOUS
  <2>3. ~(i <= L) => i - L \in 1..(n - lo)
    BY <1>0
  <2> QED
    BY <1>2, <1>3, <2>1, <2>2, <2>3
<1> HIDE DEF all
<1>7. AppendHistory(old, new, HistorySize) = LastElements(all, HistorySize)
  BY <1>4 DEF AppendHistory, all
<1>8. CASE L = 0
  <2>1. LastElements(all, HistorySize) = all
    BY <1>5, <1>8 DEF LastElements
  <2>2. all = Run(n - (n - lo), n)
    <3>1. n - lo \in Nat /\ n - (n - lo) = lo
      BY <1>0
    <3>2. Len(all) = n - lo /\ \A i \in 1..(n - lo) : all[i] = n - (n - lo) + i
      BY <1>0, <1>5, <1>6, <1>8, <3>1
    <3> QED
      BY <1>5, <3>1, <3>2, IsRun
  <2> QED
    BY <1>7, <1>8, <2>1, <2>2 DEF old, new
<1>9. CASE L # 0 /\ lo > m
  <2>1. n - lo = HistorySize
    BY <1>9
  <2>2. Len(all) > HistorySize /\ Len(all) - HistorySize = L /\ n - HistorySize = lo
    BY <1>0, <1>1, <1>5, <1>9, <2>1
  <2>3. \A i \in 1..HistorySize : all[Len(all) - HistorySize + i] = n - HistorySize + i
    BY <1>0, <1>1, <1>6, <2>1, <2>2
  <2>4. LastElements(all, HistorySize) = Run(n - HistorySize, n)
    BY <1>0, <1>1, <1>5, <2>2, <2>3, LastRun
  <2> QED
    BY <1>7, <1>9, <2>4 DEF old, new
<1>10. CASE L # 0 /\ lo = m
  <2> DEFINE size == L + (n - m)
  <2>1. /\ all \in Seq(Int) /\ Len(all) = size
        /\ \A i \in 1..size : all[i] = m - L + i
    BY <1>0, <1>5, <1>6, <1>10
  <2>2. CASE size <= HistorySize
    <3>1. LastElements(all, HistorySize) = all
      BY <2>1, <2>2 DEF LastElements
    <3>2. all = Run(n - size, n) /\ size = L + n - m /\ ~(lo > m)
      <4>1. n - size = m - L /\ size \in Nat
        BY <1>0
      <4> HIDE DEF size
      <4>2. \A i \in 1..size : all[i] = (n - size) + i
        BY <2>1, <4>1
      <4>3. all = Run(n - size, n)
        BY <1>0, <2>1, <4>1, <4>2, IsRun
      <4> QED
        BY <1>0, <1>10, <4>3 DEF size
    <3> HIDE DEF size
    <3> QED
      BY <1>0, <1>1, <1>7, <1>10, <2>2, <3>1, <3>2 DEF old, new
  <2>3. CASE size > HistorySize
    <3>1. \A i \in 1..HistorySize : all[Len(all) - HistorySize + i] = n - HistorySize + i
      BY <1>0, <1>1, <2>1, <2>3
    <3>2. LastElements(all, HistorySize) = Run(n - HistorySize, n)
      BY <1>0, <1>1, <2>1, <2>3, <3>1, LastRun
    <3>3. size = L + n - m /\ ~(lo > m)
      BY <1>0, <1>10
    <3> HIDE DEF size
    <3> QED
      BY <1>7, <1>10, <2>3, <3>2, <3>3 DEF old, new
  <2> QED
    BY <1>1, <2>2, <2>3
<1> QED
  BY <1>8, <1>9, <1>10

-----------------------------------------------------------------------------
(* What a message does to the table, once the counts do not wrap. *)
IngestedAt(id) ==
  LET had == id \in DOMAIN topics
      n   == IF had THEN topics[id].count + 1 ELSE 1
  IN  /\ DOMAIN topics' = DOMAIN topics \cup {id}
      /\ \A i \in DOMAIN topics \ {id} : topics'[i] = topics[i]
      /\ topics'[id].count = n /\ topics'[id].last = n /\ topics'[id].seq = seq + 1
      /\ topics'[id].selected = IF had THEN topics[id].selected ELSE 0
      /\ topics'[id].hist = IF had /\ topics[id].hist # NoRing
                            THEN Push(topics[id].hist, HistorySize, n) ELSE NoRing
      /\ n \in MessageNumbers
      /\ stats'.messages = stats.messages + 1 /\ stats'.dropped = stats.dropped
      /\ stats.messages + stats.dropped < MaxIngest

LEMMA CountBelow ==
  ASSUME IInv, CountsInv, MayIngest, NEW n \in 0..stats.messages
  PROVE  Increment(n) = n + 1 /\ n + 1 \in MessageNumbers
<1>1. stats.messages \in Nat /\ stats.dropped \in Nat
  BY DEF IInv, TypeOK
<1>2. n + 1 < CountMod
  BY <1>1, NoWrap, StoreAssumption DEF MayIngest
<1> QED
  BY <1>1, <1>2, StoreAssumption DEF Increment, MessageNumbers

LEMMA PublishEffect ==
  ASSUME IInv, CountsInv, NEW name \in Names, Publish(name)
  PROVE  /\ UNCHANGED <<epoch, cur, histN, sel, mirror, history>>
         /\ \/ /\ UNCHANGED topics
               /\ stats'.messages = stats.messages
               /\ stats'.messages + stats'.dropped <= MaxIngest
            \/ \E id : IngestedAt(id)
<1>0. /\ UNCHANGED <<epoch, cur, histN, sel, mirror, history>>
      /\ stats.messages \in Nat /\ stats.dropped \in Nat
      /\ stats \in [messages : Nat, dropped : Nat]
      /\ topics \in Seq(TopicRecord) /\ seq \in Nat
  BY DEF Publish, readerVars, Ingest, IngestDropped, IngestNew, IngestKnown, IInv, TypeOK
<1>1. CASE IngestDropped(name)
  BY <1>0, <1>1, StoreAssumption DEF IngestDropped, MayIngest
<1>2. CASE IngestNew(name)
  <2> DEFINE id == Len(topics) + 1
             new == NewTopic(name)
             t == Recorded(new)
  <2>1. /\ topics' = Append(topics, t) /\ MayIngest
        /\ stats' = [stats EXCEPT !.messages = @ + 1]
    BY <1>2 DEF IngestNew
  <2>2. Increment(0) = 1 /\ 1 \in MessageNumbers
    BY <1>0, <2>1, CountBelow
  <2>3. new \in TopicRecord /\ new.count = 0 /\ new.selected = 0 /\ new.hist = NoRing
    BY NewTopicType
  <2> HIDE DEF new
  <2>4. /\ t \in TopicRecord /\ t.selected = 0 /\ t.seq = seq + 1
        /\ t.count = 1 /\ t.last = 1 /\ t.hist = NoRing
    BY <1>0, <2>2, <2>3, RecordedType
  <2> HIDE DEF t
  <2>5. /\ DOMAIN topics' = DOMAIN topics \cup {id} /\ topics'[id] = t
        /\ id \notin DOMAIN topics
        /\ \A i \in DOMAIN topics : topics'[i] = topics[i]
    BY <1>0, <2>1, <2>4
  <2>6. /\ stats'.messages = stats.messages + 1 /\ stats'.dropped = stats.dropped
        /\ stats.messages + stats.dropped < MaxIngest
    BY <1>0, <2>1 DEF MayIngest
  <2> HIDE DEF id
  <2>7. IngestedAt(id)
    BY <2>2, <2>4, <2>5, <2>6 DEF IngestedAt
  <2> QED
    BY <1>0, <2>7
<1>3. CASE IngestKnown(name)
  <2> DEFINE id == byName[name]
             t == Recorded(topics[id])
             n == topics[id].count + 1
  <2>1. /\ topics' = [topics EXCEPT ![id] = t] /\ MayIngest
        /\ stats' = [stats EXCEPT !.messages = @ + 1]
    BY <1>3 DEF IngestKnown
  <2>2. id \in DOMAIN topics /\ topics[id] \in TopicRecord
    <3>1. PICK i \in DOMAIN topics : topics[i].name = name
      BY <1>3 DEF IngestKnown, IInv, IndexAgrees, TopicIds
    <3>2. byName[topics[i].name] = i
      BY DEF IInv, IndexAgrees, TopicIds
    <3> QED
      BY <1>0, <3>1, <3>2
  <2>3. Increment(topics[id].count) = n /\ n \in MessageNumbers
    <3>1. topics[id].count \in 0..stats.messages
      BY <1>0, <2>2 DEF CountsInv, TopicIds
    <3> QED
      BY <2>1, <3>1, CountBelow
  <2>4. /\ t \in TopicRecord /\ t.selected = topics[id].selected /\ t.seq = seq + 1
        /\ t.count = n /\ t.last = n
        /\ t.hist = IF topics[id].hist # NoRing THEN Push(topics[id].hist, HistorySize, n)
                    ELSE NoRing
    BY <1>0, <2>2, <2>3, RecordedType
  <2> HIDE DEF t, id
  <2>5. /\ DOMAIN topics' = DOMAIN topics \cup {id} /\ topics'[id] = t
        /\ \A i \in DOMAIN topics \ {id} : topics'[i] = topics[i]
    BY <1>0, <2>1, <2>2
  <2>6. /\ stats'.messages = stats.messages + 1 /\ stats'.dropped = stats.dropped
        /\ stats.messages + stats.dropped < MaxIngest
    BY <1>0, <2>1 DEF MayIngest
  <2>7. IngestedAt(id)
    BY <2>2, <2>3, <2>4, <2>5, <2>6 DEF IngestedAt
  <2> QED
    BY <1>0, <2>7
<1> QED
  BY <1>0, <1>1, <1>2, <1>3 DEF Publish, Ingest

(* How many readers hold a topic. *)
LEMMA HoldersFinite ==
  ASSUME NEW id
  PROVE  /\ IsFiniteSet(Holders(id)) /\ Cardinality(Holders(id)) \in Nat
         /\ Cardinality(Holders(id)) = 0 <=> Holders(id) = {}
<1>1. Holders(id) \in SUBSET Readers
  BY DEF Holders
<1>2. IsFiniteSet(Holders(id))
  BY <1>1, ReadersAssumption, FS_Subset
<1> QED
  BY <1>2, FS_CardinalityType, FS_EmptySet

LEMMA SelectEffect ==
  ASSUME IInv, NEW r \in Readers, NEW id \in DOMAIN mirror[r], Select(r, id)
  PROVE  /\ UNCHANGED <<epoch, seq, stats, cur>>
         /\ sel[r] = NoSelection
         /\ histN' = [histN EXCEPT ![r] = 0] /\ history' = [history EXCEPT ![r] = <<>>]
         /\ \/ UNCHANGED <<topics, sel>>
            \/ /\ cur[r].epoch = epoch /\ id \in DOMAIN topics
               /\ topics' = [topics EXCEPT ![id] = Taken(topics[id])]
               /\ sel' = [sel EXCEPT ![r] = [epoch |-> epoch, id |-> id,
                                            from |-> topics[id].count]]
<1>1. CASE IsCurrent(topics, cur[r].epoch, id)
  BY <1>1 DEF Select, Selected, IsCurrent
<1>2. CASE ~IsCurrent(topics, cur[r].epoch, id)
  <2>1. topics' = topics
    BY <1>2 DEF Select, Selected
  <2>2. sel' = [sel EXCEPT ![r] = NoSelection] /\ sel[r] = NoSelection
    BY <1>2 DEF Select
  <2>3. sel \in [Readers -> [epoch : Nat, id : Nat, from : MessageNumbers]]
    BY DEF IInv, TypeOK
  <2>4. sel' = sel
    BY <2>2, <2>3
  <2> QED
    BY <2>1, <2>2, <2>4 DEF Select
<1> QED
  BY <1>1, <1>2

LEMMA ReleaseEffect ==
  ASSUME IInv, EpochsInv, SelectionsCounted, NEW r \in Readers, Release(r)
  PROVE  /\ UNCHANGED <<epoch, seq, stats, cur>>
         /\ sel[r] # NoSelection /\ sel' = [sel EXCEPT ![r] = NoSelection]
         /\ histN' = [histN EXCEPT ![r] = 0] /\ history' = [history EXCEPT ![r] = <<>>]
         /\ \/ sel[r].epoch # epoch /\ UNCHANGED topics
            \/ /\ sel[r].epoch = epoch /\ sel[r].id \in DOMAIN topics
               /\ topics[sel[r].id].selected > 0
               /\ topics' = [topics EXCEPT ![sel[r].id] = Dropped(topics[sel[r].id])]
<1>1. CASE sel[r].epoch # epoch
  BY <1>1 DEF Release, Released, IsCurrent
<1>2. CASE sel[r].epoch = epoch
  <2>1. sel[r].id \in DOMAIN topics
    BY <1>2 DEF Release, EpochsInv, TopicIds
  <2>2. r \in Holders(sel[r].id)
    BY <1>2 DEF Holders
  <2>3. topics[sel[r].id].selected = Cardinality(Holders(sel[r].id))
    BY <2>1 DEF SelectionsCounted, TopicIds
  <2>4. topics[sel[r].id].selected > 0
    BY <2>2, <2>3, HoldersFinite
  <2> QED
    BY <1>2, <2>1, <2>4 DEF Release, Released, IsCurrent
<1> QED
  BY <1>1, <1>2

(* A poll in the epoch the reader knows, its first poll, and one that       *)
(* finds the epoch over.                                                    *)
Batch(r) == History(sel[r].id, histN[r])

LEMMA PollHistoryEffect ==
  ASSUME IInv, EpochsInv, NEW r \in Readers, Poll(r)
  PROVE  /\ UNCHANGED <<epoch, seq, topics, stats>>
         /\ cur' = [cur EXCEPT ![r] = PolledCursor(r)]
         /\ \/ /\ cur[r].epoch = epoch
               /\ UNCHANGED sel
               /\ histN' = [histN EXCEPT ![r] = IF Batch(r) = <<>> THEN histN[r]
                                               ELSE Batch(r)[Len(Batch(r))]]
               /\ history' = [history EXCEPT ![r] =
                                AppendHistory(history[r], Batch(r), HistorySize)]
            \/ /\ cur[r].epoch # epoch /\ cur[r].epoch = 0 /\ sel[r] = NoSelection
               /\ UNCHANGED sel
               /\ histN' = [histN EXCEPT ![r] = 0]
               /\ history' = [history EXCEPT ![r] =
                                AppendHistory(history[r], <<>>, HistorySize)]
            \/ /\ cur[r].epoch # epoch /\ cur[r].epoch # 0
               /\ sel' = [sel EXCEPT ![r] = NoSelection]
               /\ histN' = [histN EXCEPT ![r] = 0]
               /\ history' = [history EXCEPT ![r] = <<>>]
<1> DEFINE w == [NoWant EXCEPT !.selected = sel[r].id]
           u == PollUpdate(cur[r], histN[r], w)
<1>1. /\ cur' = [cur EXCEPT ![r] = PolledCursor(r)]
      /\ UNCHANGED <<epoch, seq, topics, stats>>
  BY PollEffect
<1>2. /\ histN' = [histN EXCEPT ![r] = PollHistN(cur[r], histN[r], w)]
      /\ sel' = [sel EXCEPT ![r] = IF u.reset THEN NoSelection ELSE sel[r]]
      /\ history' = [history EXCEPT ![r] =
                       IF u.reset THEN <<>>
                       ELSE AppendHistory(history[r], u.history, HistorySize)]
  BY DEF Poll
<1>3. /\ u.reset <=> cur[r].epoch \notin {0, epoch}
      /\ u.history = History(StartWant(cur[r], w).selected, StartHistN(cur[r], histN[r]))
  BY DEF PollUpdate
<1>4. PollHistN(cur[r], histN[r], w) =
        IF u.history = <<>> THEN StartHistN(cur[r], histN[r]) ELSE u.history[Len(u.history)]
  BY <1>3 DEF PollHistN
<1>5. w.selected = sel[r].id
  BY DEF NoWant
<1>6. sel = [sel EXCEPT ![r] = sel[r]]
  BY DEF IInv, TypeOK
<1>7. epoch # 0 /\ sel[r] = [sel EXCEPT ![r] = sel[r]][r]
  BY DEF IInv, TypeOK
<1> HIDE DEF u, w
<1>8. CASE cur[r].epoch = epoch
  <2>1. StartWant(cur[r], w) = w /\ StartHistN(cur[r], histN[r]) = histN[r]
    BY <1>8 DEF StartWant, StartHistN
  <2>2. u.history = Batch(r) /\ ~u.reset
    BY <1>3, <1>5, <1>8, <2>1 DEF Batch
  <2>3. sel' = sel
    BY <1>2, <1>6, <2>2
  <2>4. PollHistN(cur[r], histN[r], w) = IF Batch(r) = <<>> THEN histN[r]
                                         ELSE Batch(r)[Len(Batch(r))]
    BY <1>4, <2>1, <2>2
  <2> QED
    BY <1>1, <1>2, <1>8, <2>2, <2>3, <2>4
<1>9. CASE cur[r].epoch # epoch
  <2>1. StartWant(cur[r], w) = NoWant /\ StartHistN(cur[r], histN[r]) = 0
    BY <1>9 DEF StartWant, StartHistN
  <2>2. u.history = <<>>
    <3>1. topics \in Seq(TopicRecord)
      BY DEF IInv, TypeOK
    <3>2. NoWant.selected = 0 /\ 0 \notin DOMAIN topics
      BY <3>1, TableDomain DEF NoWant, NoTopic
    <3> QED
      BY <1>3, <2>1, <3>2 DEF History, TopicIds
  <2>3. histN' = [histN EXCEPT ![r] = 0]
    BY <1>2, <1>4, <2>1, <2>2
  <2>4. CASE cur[r].epoch = 0
    <3>1. ~u.reset
      BY <1>3, <2>4
    <3>2. sel[r] = NoSelection
      BY <2>4 DEF EpochsInv
    <3>3. UNCHANGED sel
      BY <1>2, <1>6, <3>1
    <3> QED
      BY <1>1, <1>2, <1>9, <2>2, <2>3, <2>4, <3>1, <3>2, <3>3
  <2>5. CASE cur[r].epoch # 0
    <3>1. u.reset
      BY <1>3, <1>9, <2>5
    <3> QED
      BY <1>1, <1>2, <1>9, <2>3, <2>5, <3>1
  <2> QED
    BY <2>4, <2>5
<1> QED
  BY <1>8, <1>9

-----------------------------------------------------------------------------
(* Polls, selections and releases keep the topics; a reset drops them all. *)
LEMMA QuietStep ==
  ASSUME IInv, NEW r \in Readers,
         Poll(r) \/ (\E id \in DOMAIN mirror[r] : Select(r, id)) \/ Release(r)
  PROVE  SameTopics(topics', topics) /\ UNCHANGED <<epoch, stats>>
<1>1. topics \in Seq(TopicRecord)
  BY DEF IInv, TypeOK
<1>2. CASE Poll(r)
  BY <1>1, <1>2, PollEffect DEF SameTopics
<1>3. CASE \E id \in DOMAIN mirror[r] : Select(r, id)
  BY <1>1, <1>3, SelectedSame DEF Select
<1>4. CASE Release(r)
  BY <1>1, <1>4, ReleasedSame DEF Release
<1> QED
  BY <1>2, <1>3, <1>4

LEMMA ClearEffect ==
  ASSUME IInv, Clear
  PROVE  /\ UNCHANGED <<cur, histN, sel, mirror, history>>
         /\ epoch' = epoch + 1 /\ topics' = <<>>
         /\ stats'.messages = 0 /\ stats'.dropped = 0
         /\ \A r \in Readers : cur[r].epoch \in Nat /\ cur[r].epoch # epoch'
<1>1. epoch \in Nat /\ cur \in [Readers -> CursorRecord]
  BY DEF IInv, TypeOK
<1>2. \A r \in Readers : cur[r].epoch \in Nat /\ cur[r].epoch <= epoch
  BY <1>1 DEF IInv, CursorInRange, CursorRecord
<1> QED
  BY <1>1, <1>2 DEF Clear, Reset, readerVars

LEMMA CountsStep ==
  ASSUME IInv, CountsInv, [Next]_vars
  PROVE  CountsInv'
<1>0. stats.messages \in Nat /\ stats.dropped \in Nat
  BY DEF IInv, TypeOK
<1>1. ASSUME NEW name \in Names, Publish(name)
      PROVE  CountsInv'
  <2>1. CASE /\ UNCHANGED topics /\ stats'.messages = stats.messages
             /\ stats'.messages + stats'.dropped <= MaxIngest
    BY <2>1 DEF CountsInv, TopicIds
  <2>2. ASSUME NEW id, IngestedAt(id)
        PROVE  CountsInv'
    <3>1. stats'.messages = stats.messages + 1 /\ stats'.messages + stats'.dropped <= MaxIngest
      BY <1>0, <2>2, StoreAssumption DEF IngestedAt
    <3>2. ASSUME NEW i \in DOMAIN topics'
          PROVE  topics'[i].last = topics'[i].count /\ topics'[i].count \in 1..stats'.messages
      <4>1. CASE i = id /\ id \in DOMAIN topics
        BY <1>0, <2>2, <3>1, <4>1 DEF IngestedAt, CountsInv, TopicIds
      <4>2. CASE i = id /\ id \notin DOMAIN topics
        BY <1>0, <2>2, <3>1, <4>2 DEF IngestedAt
      <4>3. CASE i # id
        BY <1>0, <2>2, <3>1, <3>2, <4>3 DEF IngestedAt, CountsInv, TopicIds
      <4> QED
        BY <4>1, <4>2, <4>3
    <3> QED
      BY <3>1, <3>2 DEF CountsInv, TopicIds
  <2> QED
    BY <1>1, <2>1, <2>2, PublishEffect
<1>2. CASE Clear
  BY <1>2, ClearEffect, StoreAssumption DEF CountsInv, TopicIds
<1>3. ASSUME SameTopics(topics', topics), UNCHANGED stats
      PROVE  CountsInv'
  BY <1>3 DEF CountsInv, TopicIds, SameTopics
<1>4. CASE UNCHANGED vars
  BY <1>4 DEF vars, CountsInv, TopicIds
<1> QED
  BY <1>1, <1>2, <1>3, <1>4, QuietStep DEF Next

-----------------------------------------------------------------------------
LEMMA EpochsStep ==
  ASSUME IInv, CountsInv, EpochsInv, SelectionsCounted, [Next]_vars
  PROVE  EpochsInv'
<1>0. /\ epoch \in Nat \ {0} /\ DOMAIN sel = Readers /\ DOMAIN cur = Readers
      /\ topics \in Seq(TopicRecord)
      /\ NoSelection.epoch = 0 /\ NoSelection.epoch \in Nat
  BY DEF IInv, TypeOK, NoSelection
<1>1. ASSUME NEW name \in Names, Publish(name)
      PROVE  EpochsInv'
  <2>1. UNCHANGED <<epoch, cur, sel>> /\ TopicIds \subseteq TopicIds'
    BY <1>1, PublishEffect DEF IngestedAt, TopicIds
  <2> QED
    BY <2>1 DEF EpochsInv
<1>2. CASE Clear
  <2>1. UNCHANGED <<cur, sel>> /\ \A r \in Readers : cur[r].epoch # epoch'
    BY <1>2, ClearEffect
  <2> QED
    BY <2>1 DEF EpochsInv
<1>3. ASSUME NEW r \in Readers, Poll(r)
      PROVE  EpochsInv'
  <2>1. /\ UNCHANGED <<epoch, topics>> /\ cur' = [cur EXCEPT ![r] = PolledCursor(r)]
        /\ \/ cur[r].epoch = epoch /\ sel' = sel
           \/ sel[r] = NoSelection /\ sel' = sel
           \/ sel' = [sel EXCEPT ![r] = NoSelection]
    BY <1>3, PollHistoryEffect
  <2>2. PolledCursor(r).epoch = epoch
    BY DEF PolledCursor
  <2> SUFFICES ASSUME NEW q \in Readers, sel'[q] # NoSelection
               PROVE  /\ sel'[q].epoch = cur'[q].epoch /\ sel'[q].epoch # 0
                      /\ sel'[q].epoch = epoch => sel'[q].id \in TopicIds
    BY <2>1 DEF EpochsInv, TopicIds
  <2>3. sel'[q] = sel[q] /\ (q = r => cur[r].epoch = epoch)
    BY <1>0, <2>1
  <2>4. cur'[q].epoch = cur[q].epoch
    BY <1>0, <2>1, <2>2, <2>3
  <2> QED
    BY <2>3, <2>4 DEF EpochsInv
<1>4. ASSUME NEW r \in Readers, NEW id \in DOMAIN mirror[r], Select(r, id)
      PROVE  EpochsInv'
  <2>1. SameTopics(topics', topics)
    BY <1>4, QuietStep
  <2>2. TopicIds' = TopicIds
    BY <2>1 DEF SameTopics, TopicIds
  <2>3. UNCHANGED <<epoch, cur>>
    BY <1>4, SelectEffect
  <2>4. CASE UNCHANGED sel
    BY <2>2, <2>3, <2>4 DEF EpochsInv
  <2>5. CASE /\ cur[r].epoch = epoch /\ id \in DOMAIN topics
             /\ sel' = [sel EXCEPT ![r] = [epoch |-> epoch, id |-> id,
                                          from |-> topics[id].count]]
    <3> SUFFICES ASSUME NEW q \in Readers, sel'[q] # NoSelection
                 PROVE  /\ sel'[q].epoch = cur[q].epoch /\ sel'[q].epoch # 0
                        /\ sel'[q].epoch = epoch => sel'[q].id \in TopicIds
      BY <2>2, <2>3 DEF EpochsInv
    <3>1. CASE q = r
      BY <1>0, <2>5, <3>1 DEF TopicIds
    <3>2. CASE q # r
      <4>1. sel'[q] = sel[q]
        BY <1>0, <2>5, <3>2
      <4> QED
        BY <4>1 DEF EpochsInv
    <3> QED
      BY <3>1, <3>2
  <2> QED
    BY <1>4, <2>4, <2>5, SelectEffect
<1>5. ASSUME NEW r \in Readers, Release(r)
      PROVE  EpochsInv'
  <2>1. SameTopics(topics', topics)
    BY <1>5, QuietStep
  <2>2. TopicIds' = TopicIds
    BY <2>1 DEF SameTopics, TopicIds
  <2>3. UNCHANGED <<epoch, cur>> /\ sel' = [sel EXCEPT ![r] = NoSelection]
    BY <1>5, ReleaseEffect
  <2>4. \A q \in Readers : sel'[q] # NoSelection => sel'[q] = sel[q]
    BY <1>0, <2>3
  <2> QED
    BY <2>2, <2>3, <2>4 DEF EpochsInv
<1>6. CASE UNCHANGED vars
  BY <1>6 DEF vars, EpochsInv, TopicIds
<1> QED
  BY <1>1, <1>2, <1>3, <1>4, <1>5, <1>6 DEF Next

-----------------------------------------------------------------------------
\* The part of SelectionsCounted about one topic.
CountedAt(id) ==
  /\ topics[id].selected = Cardinality(Holders(id))
  /\ (topics[id].hist = NoRing) <=> (Holders(id) = {})

LEMMA SameHolders ==
  ASSUME NEW id, topics'[id].selected = topics[id].selected,
         topics'[id].hist = NoRing <=> topics[id].hist = NoRing,
         Holders(id)' = Holders(id), CountedAt(id)
  PROVE  CountedAt(id)'
BY DEF CountedAt

(* One reader more, or one less. *)
LEMMA OneMore ==
  ASSUME NEW id, NEW r, topics[id] \in TopicRecord, CountedAt(id),
         r \notin Holders(id), Holders(id)' = Holders(id) \cup {r},
         topics'[id] = Taken(topics[id])
  PROVE  CountedAt(id)'
<1>1. CountedBy(topics[id], Holders(id))
  BY DEF CountedAt, CountedBy
<1>2. CountedBy(Taken(topics[id]), Holders(id) \cup {r})
  BY <1>1, HoldersFinite, TakenCounted
<1> QED
  BY <1>2 DEF CountedAt, CountedBy

LEMMA OneLess ==
  ASSUME NEW id, NEW r, topics[id] \in TopicRecord, CountedAt(id),
         r \in Holders(id), Holders(id)' = Holders(id) \ {r},
         topics'[id] = Dropped(topics[id])
  PROVE  CountedAt(id)'
<1>1. CountedBy(topics[id], Holders(id))
  BY DEF CountedAt, CountedBy
<1>2. CountedBy(Dropped(topics[id]), Holders(id) \ {r})
  BY <1>1, HoldersFinite, DroppedCounted
<1> QED
  BY <1>2 DEF CountedAt, CountedBy

LEMMA SelectionsStep ==
  ASSUME IInv, CountsInv, EpochsInv, SelectionsCounted, [Next]_vars
  PROVE  SelectionsCounted'
<1>0. /\ epoch \in Nat \ {0} /\ topics \in Seq(TopicRecord)
      /\ DOMAIN sel = Readers /\ NoSelection.epoch = 0
      /\ \A id \in DOMAIN topics : CountedAt(id) /\ topics[id] \in TopicRecord
  BY DEF IInv, TypeOK, SelectionsCounted, CountedAt, TopicIds, NoSelection
<1> SUFFICES ASSUME NEW id \in DOMAIN topics'
             PROVE  CountedAt(id)'
  BY EpochsStep DEF SelectionsCounted, CountedAt, TopicIds, EpochsInv
<1>1. ASSUME NEW name \in Names, Publish(name)
      PROVE  CountedAt(id)'
  <2>1. UNCHANGED <<epoch, sel>>
    BY <1>1, PublishEffect
  <2>2. Holders(id)' = Holders(id)
    BY <2>1 DEF Holders
  <2>3. CASE UNCHANGED topics
    BY <1>0, <2>2, <2>3, SameHolders
  <2>4. ASSUME NEW i, IngestedAt(i)
        PROVE  CountedAt(id)'
    <3>1. CASE id # i
      BY <1>0, <2>2, <2>4, <3>1, SameHolders DEF IngestedAt
    <3>2. CASE id = i /\ id \in DOMAIN topics
      <4>1. /\ topics'[id].selected = topics[id].selected
            /\ topics'[id].hist = IF topics[id].hist # NoRing
                                  THEN Push(topics[id].hist, HistorySize, topics[id].count + 1)
                                  ELSE NoRing
            /\ topics[id].count + 1 \in MessageNumbers
        BY <2>4, <3>2 DEF IngestedAt
      <4>2. topics[id].hist # NoRing =>
              topics[id].hist \in RingOf(HistorySize, MessageNumbers)
        BY <1>0, <3>2, TopicFields DEF Histories
      <4>3. topics[id].hist # NoRing =>
              Push(topics[id].hist, HistorySize, topics[id].count + 1) # NoRing
        BY <4>1, <4>2, PushType, RingFields
      <4> QED
        BY <1>0, <2>2, <3>2, <4>1, <4>3, SameHolders
    <3>3. CASE id = i /\ id \notin DOMAIN topics
      <4>1. Holders(id) = {}
        BY <1>0, <3>3 DEF Holders, EpochsInv, TopicIds
      <4>2. topics'[id].selected = 0 /\ topics'[id].hist = NoRing
        BY <2>4, <3>3 DEF IngestedAt
      <4> QED
        BY <2>2, <4>1, <4>2, FS_EmptySet DEF CountedAt
    <3> QED
      BY <3>1, <3>2, <3>3
  <2> QED
    BY <1>1, <2>3, <2>4, PublishEffect
<1>2. CASE Clear
  BY <1>2, ClearEffect
<1>3. ASSUME NEW r \in Readers, Poll(r)
      PROVE  CountedAt(id)'
  <2>1. /\ UNCHANGED <<epoch, topics>>
        /\ \/ sel' = sel
           \/ cur[r].epoch # epoch /\ sel' = [sel EXCEPT ![r] = NoSelection]
    BY <1>3, PollHistoryEffect
  <2>2. ASSUME NEW q \in Readers
        PROVE  sel'[q] = sel[q] \/ (sel'[q].epoch # epoch /\ sel[q].epoch # epoch)
    BY <1>0, <2>1 DEF EpochsInv
  <2>3. Holders(id)' = Holders(id)
    BY <2>1, <2>2 DEF Holders
  <2> QED
    BY <1>0, <2>1, <2>3, SameHolders
<1>4. ASSUME NEW r \in Readers, NEW j \in DOMAIN mirror[r], Select(r, j)
      PROVE  CountedAt(id)'
  <2>1. epoch' = epoch /\ sel[r] = NoSelection
    BY <1>4, SelectEffect
  <2>2. CASE UNCHANGED <<topics, sel>>
    <3>1. Holders(id)' = Holders(id)
      BY <2>1, <2>2 DEF Holders
    <3> QED
      BY <1>0, <2>2, <3>1, SameHolders
  <2>3. CASE /\ j \in DOMAIN topics
             /\ topics' = [topics EXCEPT ![j] = Taken(topics[j])]
             /\ sel' = [sel EXCEPT ![r] = [epoch |-> epoch, id |-> j,
                                          from |-> topics[j].count]]
    <3>1. /\ id \in DOMAIN topics
          /\ topics'[id] = IF id = j THEN Taken(topics[id]) ELSE topics[id]
      BY <1>0, <2>3
    <3>2. r \notin Holders(id) /\ r \notin Holders(j)
      BY <1>0, <2>1 DEF Holders
    <3>3. CASE id = j
      <4>1. Holders(id)' = Holders(id) \cup {r}
        BY <1>0, <2>1, <2>3, <3>3 DEF Holders
      <4> QED
        BY <1>0, <3>1, <3>2, <3>3, <4>1, OneMore
    <3>4. CASE id # j
      <4>1. Holders(id)' = Holders(id)
        BY <1>0, <2>1, <2>3, <3>2, <3>4 DEF Holders
      <4> QED
        BY <1>0, <3>1, <3>4, <4>1, SameHolders
    <3> QED
      BY <3>3, <3>4
  <2> QED
    BY <1>4, <2>2, <2>3, SelectEffect
<1>5. ASSUME NEW r \in Readers, Release(r)
      PROVE  CountedAt(id)'
  <2>1. epoch' = epoch /\ sel' = [sel EXCEPT ![r] = NoSelection]
    BY <1>5, ReleaseEffect
  <2>2. CASE sel[r].epoch # epoch /\ UNCHANGED topics
    <3>1. Holders(id)' = Holders(id)
      BY <1>0, <2>1, <2>2 DEF Holders
    <3> QED
      BY <1>0, <2>2, <3>1, SameHolders
  <2>3. CASE /\ sel[r].epoch = epoch /\ sel[r].id \in DOMAIN topics
             /\ topics' = [topics EXCEPT ![sel[r].id] = Dropped(topics[sel[r].id])]
    <3>1. /\ id \in DOMAIN topics
          /\ topics'[id] = IF id = sel[r].id THEN Dropped(topics[id]) ELSE topics[id]
      BY <1>0, <2>3
    <3>2. r \in Holders(sel[r].id)
      BY <2>3 DEF Holders
    <3>3. CASE id = sel[r].id
      <4>1. Holders(id)' = Holders(id) \ {r}
        BY <1>0, <2>1, <2>3, <3>3 DEF Holders
      <4> QED
        BY <1>0, <3>1, <3>2, <3>3, <4>1, OneLess
    <3>4. CASE id # sel[r].id
      <4>1. Holders(id)' = Holders(id)
        BY <1>0, <2>1, <2>3, <3>4 DEF Holders
      <4> QED
        BY <1>0, <3>1, <3>4, <4>1, SameHolders
    <3> QED
      BY <3>3, <3>4
  <2> QED
    BY <1>5, <2>2, <2>3, ReleaseEffect
<1>6. CASE UNCHANGED vars
  <2>1. Holders(id)' = Holders(id) /\ UNCHANGED topics
    BY <1>6 DEF vars, Holders
  <2> QED
    BY <1>0, <2>1, SameHolders
<1> QED
  BY <1>1, <1>2, <1>3, <1>4, <1>5, <1>6 DEF Next

-----------------------------------------------------------------------------
LEMMA RingsStep ==
  ASSUME IInv, CountsInv, EpochsInv, SelectionsCounted, RingsInv, [Next]_vars
  PROVE  RingsInv'
<1>0. /\ topics \in Seq(TopicRecord) /\ stats.messages \in Nat
      /\ \A id \in DOMAIN topics :
           /\ topics[id] \in TopicRecord /\ topics[id].count \in MessageNumbers \ {0}
           /\ topics[id].last = topics[id].count
           /\ topics[id].hist # NoRing => RingEndsAt(topics[id].hist, topics[id].count)
  <2>1. topics \in Seq(TopicRecord) /\ stats.messages \in Nat
    BY DEF IInv, TypeOK
  <2>2. ASSUME NEW id \in DOMAIN topics
        PROVE  topics[id] \in TopicRecord /\ topics[id].count \in MessageNumbers \ {0}
    <3>1. topics[id] \in TopicRecord
      BY <2>1, ElementType
    <3>2. topics[id].count \in MessageNumbers /\ topics[id].count # 0
      BY <2>1, <3>1, TopicFields DEF CountsInv, TopicIds
    <3> QED
      BY <3>1, <3>2
  <2> QED
    BY <2>1, <2>2 DEF CountsInv, RingsInv, TopicIds
<1> SUFFICES ASSUME NEW id \in DOMAIN topics', topics'[id].hist # NoRing
             PROVE  RingEndsAt(topics'[id].hist, topics'[id].count)
  BY DEF RingsInv, TopicIds
<1>1. ASSUME NEW name \in Names, Publish(name)
      PROVE  RingEndsAt(topics'[id].hist, topics'[id].count)
  <2>1. CASE UNCHANGED topics
    BY <1>0, <2>1
  <2>2. ASSUME NEW i, IngestedAt(i)
        PROVE  RingEndsAt(topics'[id].hist, topics'[id].count)
    <3>1. CASE id # i
      BY <1>0, <2>2, <3>1 DEF IngestedAt
    <3>2. CASE id = i
      <4>1. /\ id \in DOMAIN topics /\ topics[id].hist # NoRing
            /\ topics'[id].count = topics[id].count + 1
            /\ topics[id].count + 1 \in MessageNumbers
            /\ topics'[id].hist = Push(topics[id].hist, HistorySize, topics[id].count + 1)
        BY <2>2, <3>2 DEF IngestedAt
      <4> QED
        BY <1>0, <4>1, NextPush
    <3> QED
      BY <3>1, <3>2
  <2> QED
    BY <1>1, <2>1, <2>2, PublishEffect
<1>2. CASE Clear
  BY <1>2, ClearEffect
<1>3. ASSUME NEW r \in Readers, Poll(r)
      PROVE  RingEndsAt(topics'[id].hist, topics'[id].count)
  BY <1>0, <1>3, PollHistoryEffect
<1>4. ASSUME NEW r \in Readers, NEW j \in DOMAIN mirror[r], Select(r, j)
      PROVE  RingEndsAt(topics'[id].hist, topics'[id].count)
  <2>1. CASE UNCHANGED topics
    BY <1>0, <2>1
  <2>2. CASE j \in DOMAIN topics /\ topics' = [topics EXCEPT ![j] = Taken(topics[j])]
    <3>1. CASE id # j
      BY <1>0, <2>2, <3>1
    <3>2. CASE id = j
      <4> DEFINE t == topics[id]
      <4>1. t \in TopicRecord /\ topics'[id] = Taken(t)
        BY <1>0, <2>2, <3>2
      <4>2. /\ topics'[id].count = t.count
            /\ topics'[id].hist = IF t.selected = 0
                                  THEN Push(NewRing(HistorySize), HistorySize, t.count)
                                  ELSE t.hist
        BY <1>0, <2>2, <3>2, <4>1, TakenType
      <4> QED
        BY <1>0, <2>2, <3>2, <4>2, FirstPush
    <3> QED
      BY <3>1, <3>2
  <2> QED
    BY <1>4, <2>1, <2>2, SelectEffect
<1>5. ASSUME NEW r \in Readers, Release(r)
      PROVE  RingEndsAt(topics'[id].hist, topics'[id].count)
  <2>1. CASE UNCHANGED topics
    BY <1>0, <2>1
  <2>2. CASE /\ sel[r].id \in DOMAIN topics /\ topics[sel[r].id].selected > 0
             /\ topics' = [topics EXCEPT ![sel[r].id] = Dropped(topics[sel[r].id])]
    <3>1. CASE id # sel[r].id
      BY <1>0, <2>2, <3>1
    <3>2. CASE id = sel[r].id
      <4> DEFINE t == topics[id]
      <4>1. t \in TopicRecord /\ topics'[id] = Dropped(t) /\ t.selected > 0
        BY <1>0, <2>2, <3>2
      <4>2. topics'[id].count = t.count /\ topics'[id].hist = t.hist
        BY <4>1, DroppedType
      <4> QED
        BY <1>0, <2>2, <3>2, <4>2
    <3> QED
      BY <3>1, <3>2
  <2> QED
    BY <1>5, <2>1, <2>2, ReleaseEffect
<1>6. CASE UNCHANGED vars
  BY <1>0, <1>6 DEF vars
<1> QED
  BY <1>1, <1>2, <1>3, <1>4, <1>5, <1>6 DEF Next

-----------------------------------------------------------------------------
(* A step that changes neither what a reader has nor its topic's history. *)
LEMMA KeepsHistory ==
  ASSUME NEW q \in Readers, HistoryAt(q), epoch' = epoch,
         sel'[q] = sel[q], cur'[q] = cur[q], histN'[q] = histN[q], history'[q] = history[q],
         sel[q] # NoSelection /\ sel[q].epoch = epoch =>
           /\ topics'[sel[q].id].count = topics[sel[q].id].count
           /\ topics'[sel[q].id].seq = topics[sel[q].id].seq
           /\ topics'[sel[q].id].hist = topics[sel[q].id].hist
  PROVE  HistoryAt(q)'
BY DEF HistoryAt

(* Nothing is shown, as before the first poll after a selection. *)
LEMMA StartsEmpty ==
  ASSUME NEW q \in Readers, epoch' = epoch, histN'[q] = 0, history'[q] = <<>>,
         sel'[q] # NoSelection /\ sel'[q].epoch = epoch =>
           LET t == topics'[sel'[q].id]
           IN  t.count \in Nat /\ sel'[q].from \in 1..t.count
               /\ GoesBackTo(t.hist, t.count, sel'[q].from)
  PROVE  HistoryAt(q)'
<1>1. Run(0 - 0, 0) = <<>> /\ Len(<<>>) = 0
  <2>1. Run(0, 0) = <<>> <=> 0 = 0
    BY RunSequence
  <2> QED
    BY <2>1
<1>2. /\ histN'[q] \in Nat /\ Len(history'[q]) \in 0..HistorySize
      /\ Len(history'[q]) <= histN'[q]
      /\ history'[q] = Run(histN'[q] - Len(history'[q]), histN'[q])
  BY <1>1, StoreAssumption
<1> QED
  BY <1>1, <1>2 DEF HistoryAt

(* A reader's topic, and what the store keeps for it. *)
LEMMA HeldTopic ==
  ASSUME IInv, CountsInv, EpochsInv, SelectionsCounted, RingsInv, NEW q \in Readers,
         sel[q] # NoSelection, sel[q].epoch = epoch
  PROVE  LET t == topics[sel[q].id]
         IN  /\ sel[q].id \in DOMAIN topics /\ t \in TopicRecord
             /\ t.count \in MessageNumbers /\ t.count \in Nat \ {0} /\ t.seq \in Nat
             /\ t.last = t.count
             /\ q \in Holders(sel[q].id) /\ t.hist # NoRing /\ RingEndsAt(t.hist, t.count)
             /\ t.selected # 0
             /\ cur[q].epoch = epoch /\ cur[q].seq \in Nat /\ cur[q].seq <= seq
<1>1. sel[q].id \in DOMAIN topics /\ cur[q].epoch = epoch
  BY DEF EpochsInv, TopicIds
<1>2. topics[sel[q].id] \in TopicRecord /\ stats.messages \in Nat
  BY <1>1, ElementType DEF IInv, TypeOK
<1>3. q \in Holders(sel[q].id)
  BY DEF Holders
<1>4. /\ topics[sel[q].id].hist # NoRing
      /\ topics[sel[q].id].selected = Cardinality(Holders(sel[q].id))
  BY <1>1, <1>3 DEF SelectionsCounted, TopicIds
<1>5. /\ RingEndsAt(topics[sel[q].id].hist, topics[sel[q].id].count)
      /\ topics[sel[q].id].count \in 1..stats.messages
      /\ topics[sel[q].id].last = topics[sel[q].id].count
  BY <1>1, <1>4 DEF RingsInv, CountsInv, TopicIds
<1>6. topics[sel[q].id].count \in MessageNumbers /\ topics[sel[q].id].seq \in Nat
  BY <1>2, TopicFields
<1>7. cur[q].seq \in Nat /\ cur[q].seq <= seq
  BY <1>1 DEF IInv, TypeOK, CursorInRange, CursorRecord
<1>8. topics[sel[q].id].selected # 0
  BY <1>3, <1>4, HoldersFinite
<1> QED
  BY <1>1, <1>2, <1>3, <1>4, <1>5, <1>6, <1>7, <1>8

(* A message for the topic a reader holds: the ring still has what the      *)
(* reader has not seen, and the reader's cursor is behind the topic.        *)
LEMMA HistoryPublish ==
  ASSUME IInv, CountsInv, EpochsInv, SelectionsCounted, RingsInv, HistoriesInv,
         NEW name \in Names, Publish(name), NEW q \in Readers
  PROVE  HistoryAt(q)'
<1>1. /\ UNCHANGED <<epoch, cur, histN, sel, mirror, history>>
      /\ HistoryAt(q) /\ epoch \in Nat
  BY PublishEffect DEF HistoriesInv, IInv, TypeOK
<1>2. CASE UNCHANGED topics
  BY <1>1, <1>2, KeepsHistory
<1>3. CASE sel[q] = NoSelection \/ sel[q].epoch # epoch
  BY <1>1, <1>3, KeepsHistory
<1>4. ASSUME NEW i, IngestedAt(i), sel[q] # NoSelection, sel[q].epoch = epoch
      PROVE  HistoryAt(q)'
  <2> DEFINE t == topics[sel[q].id]
             new == topics'[sel[q].id]
  <2>1. /\ sel[q].id \in DOMAIN topics /\ t \in TopicRecord
        /\ t.count \in MessageNumbers /\ t.count \in Nat \ {0} /\ t.seq \in Nat
        /\ t.hist # NoRing /\ RingEndsAt(t.hist, t.count)
        /\ cur[q].seq \in Nat /\ cur[q].seq <= seq
    BY <1>4, HeldTopic
  <2>2. CASE sel[q].id # i
    <3>1. new = t
      BY <1>4, <2>1, <2>2 DEF IngestedAt
    <3> QED
      BY <1>1, <3>1, KeepsHistory
  <2>3. CASE sel[q].id = i
    <3>1. /\ new.count = t.count + 1 /\ new.seq = seq + 1
          /\ new.hist = Push(t.hist, HistorySize, t.count + 1)
          /\ t.count + 1 \in MessageNumbers
      BY <1>4, <2>1, <2>3 DEF IngestedAt
    <3>2. /\ histN[q] \in Nat /\ Len(history[q]) \in 0..HistorySize
          /\ Len(history[q]) <= histN[q]
          /\ history[q] = Run(histN[q] - Len(history[q]), histN[q])
          /\ histN[q] # 0 => Len(history[q]) # 0
          /\ sel[q].from \in 1..t.count /\ histN[q] <= t.count
          /\ GoesBackTo(t.hist, t.count, sel[q].from)
          /\ histN[q] # 0 => /\ sel[q].from <= histN[q]
                             /\ \/ Len(history[q]) = HistorySize
                                \/ histN[q] - Len(history[q]) < sel[q].from
      BY <1>1, <1>4 DEF HistoryAt
    <3>3. GoesBackTo(new.hist, new.count, sel[q].from)
      BY <2>1, <3>1, <3>2, NextPush
    <3>4. /\ sel[q].from \in 1..new.count /\ histN[q] <= new.count
          /\ ~(new.seq <= cur[q].seq)
      BY SMTT(60), <2>1, <3>1, <3>2 DEF IInv, TypeOK
    <3> HIDE DEF new, t
    <3> QED
      BY <1>1, <1>4, <3>2, <3>3, <3>4 DEF HistoryAt, new
  <2> QED
    BY <2>2, <2>3
<1> QED
  BY <1>2, <1>3, <1>4, PublishEffect

LEMMA AppendNothing == AppendHistory(<<>>, <<>>, HistorySize) = <<>>
<1>1. <<>> \o <<>> = <<>> /\ Len(<<>>) = 0
  OBVIOUS
<1> QED
  BY <1>1, StoreAssumption DEF AppendHistory, NewEntries, LastElements

(* The batch of a poll: what the ring has above histN. *)
LEMMA BatchOf ==
  ASSUME IInv, CountsInv, EpochsInv, SelectionsCounted, RingsInv, NEW r \in Readers,
         sel[r] # NoSelection, sel[r].epoch = epoch,
         histN[r] \in 0..topics[sel[r].id].count
  PROVE  LET t == topics[sel[r].id]
             k == Filled(t.hist)
         IN  /\ Batch(r) = Run(IF histN[r] > t.count - k THEN histN[r] ELSE t.count - k,
                               t.count)
             /\ k \in 1..t.count /\ k <= HistorySize
             /\ t.hist.full \in BOOLEAN
             /\ t.hist.full => k = HistorySize
             /\ ~t.hist.full => k = t.hist.next
<1> DEFINE t == topics[sel[r].id]
<1>1. /\ sel[r].id \in DOMAIN topics /\ t.count \in MessageNumbers
      /\ t.hist # NoRing /\ RingEndsAt(t.hist, t.count)
  BY HeldTopic
<1>2. Batch(r) = After(t.hist, HistorySize, histN[r])
  BY <1>1 DEF Batch, History, TopicIds
<1>3. /\ Filled(t.hist) \in 1..t.count
      /\ t.hist \in RingOf(HistorySize, MessageNumbers)
  BY <1>1 DEF RingEndsAt
<1>4. t.hist.next \in 0..(HistorySize - 1) /\ t.hist.full \in BOOLEAN
  BY <1>3, RingFields
<1>5. /\ t.hist.full => Filled(t.hist) = HistorySize
      /\ ~t.hist.full => Filled(t.hist) = t.hist.next
  BY DEF Filled
<1>6. Filled(t.hist) <= HistorySize
  BY <1>4, <1>5, StoreAssumption
<1>7. Batch(r) = Run(IF histN[r] > t.count - Filled(t.hist) THEN histN[r]
                     ELSE t.count - Filled(t.hist), t.count)
  BY <1>1, <1>2, AfterOf
<1> QED
  BY <1>3, <1>4, <1>5, <1>6, <1>7

(* A poll brings the history up to the topic's latest message. *)
LEMMA HistoryPoll ==
  ASSUME IInv, CountsInv, EpochsInv, SelectionsCounted, RingsInv, HistoriesInv,
         NEW r \in Readers, Poll(r)
  PROVE  HistoryAt(r)'
<1>0. /\ UNCHANGED <<epoch, topics>> /\ HistoryAt(r) /\ epoch \in Nat \ {0}
      /\ DOMAIN histN = Readers /\ DOMAIN history = Readers /\ DOMAIN cur = Readers
      /\ DOMAIN sel = Readers /\ cur' = [cur EXCEPT ![r] = PolledCursor(r)]
  BY PollHistoryEffect DEF HistoriesInv, IInv, TypeOK
<1>1. CASE cur[r].epoch # epoch
  <2>1. CASE /\ sel[r] = NoSelection /\ UNCHANGED sel
             /\ histN' = [histN EXCEPT ![r] = 0]
             /\ history' = [history EXCEPT ![r] = AppendHistory(history[r], <<>>, HistorySize)]
    <3>1. history[r] = <<>>
      BY <1>0, <2>1 DEF HistoryAt
    <3>2. history'[r] = <<>> /\ histN'[r] = 0 /\ sel'[r] = NoSelection
      BY <1>0, <2>1, <3>1, AppendNothing
    <3> QED
      BY <1>0, <3>2, StartsEmpty
  <2>2. CASE /\ sel' = [sel EXCEPT ![r] = NoSelection]
             /\ histN' = [histN EXCEPT ![r] = 0]
             /\ history' = [history EXCEPT ![r] = <<>>]
    <3>1. history'[r] = <<>> /\ histN'[r] = 0 /\ sel'[r] = NoSelection
      BY <1>0, <2>2
    <3> QED
      BY <1>0, <3>1, StartsEmpty
  <2> QED
    BY <1>1, <2>1, <2>2, PollHistoryEffect
<1>2. ASSUME cur[r].epoch = epoch
      PROVE  /\ sel'[r] = sel[r]
             /\ histN'[r] = IF Batch(r) = <<>> THEN histN[r] ELSE Batch(r)[Len(Batch(r))]
             /\ history'[r] = AppendHistory(history[r], Batch(r), HistorySize)
  BY <1>0, <1>2, PollHistoryEffect
<1>3. CASE cur[r].epoch = epoch /\ sel[r] = NoSelection
  <2>1. Batch(r) = <<>>
    <3>1. topics \in Seq(TopicRecord)
      BY DEF IInv, TypeOK
    <3>2. sel[r].id = 0 /\ 0 \notin DOMAIN topics
      BY <1>3, <3>1, TableDomain DEF NoSelection, NoTopic
    <3> QED
      BY <3>2 DEF Batch, History, TopicIds
  <2>2. histN[r] = 0 /\ history[r] = <<>>
    BY <1>0, <1>3 DEF HistoryAt
  <2>3. history'[r] = <<>> /\ histN'[r] = 0 /\ sel'[r] = NoSelection
    BY <1>2, <1>3, <2>1, <2>2, AppendNothing
  <2> QED
    BY <1>0, <2>3, StartsEmpty
<1>4. CASE cur[r].epoch = epoch /\ sel[r] # NoSelection
  <2> DEFINE t == topics[sel[r].id]
             n == t.count
             m == histN[r]
             L == Len(history[r])
             k == Filled(t.hist)
             lo == IF m > n - k THEN m ELSE n - k
             kept == IF L = 0 THEN n - lo
                     ELSE IF lo > m \/ L + n - m > HistorySize THEN HistorySize
                     ELSE L + n - m
  <2>1. sel[r].epoch = epoch
    BY <1>4 DEF EpochsInv
  <2>2. /\ n \in Nat \ {0} /\ n \in MessageNumbers /\ t.hist # NoRing
        /\ t.seq \in Nat /\ t.seq <= seq
    <3>1. /\ n \in Nat \ {0} /\ n \in MessageNumbers /\ t.hist # NoRing
          /\ t.seq \in Nat /\ sel[r].id \in DOMAIN topics
      BY <1>4, <2>1, HeldTopic
    <3>2. t.seq \in 1..seq /\ seq \in Nat
      BY <3>1 DEF IInv, IndexAgrees, TopicIds, TypeOK
    <3> HIDE DEF t
    <3> QED
      BY <3>1, <3>2
  <2>3. /\ m \in 0..n /\ L \in 0..HistorySize /\ L <= m
        /\ history[r] = Run(m - L, m) /\ (m # 0 => L # 0)
        /\ sel[r].from \in 1..n /\ GoesBackTo(t.hist, n, sel[r].from)
        /\ m # 0 => sel[r].from <= m /\ (L = HistorySize \/ m - L < sel[r].from)
    BY <1>0, <1>4, <2>1 DEF HistoryAt
  <2>4. /\ Batch(r) = Run(lo, n)
        /\ k \in 1..n /\ k <= HistorySize
        /\ t.hist.full \in BOOLEAN
        /\ t.hist.full => k = HistorySize
        /\ ~t.hist.full => n - k < sel[r].from
    <3>1. m \in 0..topics[sel[r].id].count
      BY <2>3
    <3>2. /\ Batch(r) = Run(lo, n)
          /\ k \in 1..n /\ k <= HistorySize
          /\ t.hist.full \in BOOLEAN
          /\ t.hist.full => k = HistorySize
          /\ ~t.hist.full => k = t.hist.next
      BY <1>4, <2>1, <3>1, BatchOf
    <3>3. ~t.hist.full => n - t.hist.next < sel[r].from
      BY <2>3 DEF GoesBackTo
    <3> QED
      BY <3>2, <3>3
  <2> HIDE DEF t
  <2>5. HistorySize \in Nat \ {0}
    BY StoreAssumption
  <2>6. /\ lo \in m..n /\ n - lo <= HistorySize
        /\ lo = m \/ L = 0 \/ n - lo = HistorySize
        /\ lo = n <=> m = n
    BY <2>2, <2>3, <2>4, <2>5
  <2> HIDE DEF k
  <2>7. AppendHistory(Run(m - L, m), Run(lo, n), HistorySize) = Run(n - kept, n)
    <3> HIDE DEF lo, L, m, n
    <3> QED
      BY <2>2, <2>3, <2>6, AppendRun
  <2>8. history'[r] = Run(n - kept, n)
    BY <1>2, <1>4, <2>3, <2>4, <2>7
  <2>9. histN'[r] = n
    <3>1. /\ Len(Run(lo, n)) = n - lo
          /\ Run(lo, n) = <<>> <=> lo = n
          /\ lo # n => Run(lo, n)[n - lo] = n
      <4> HIDE DEF lo, n
      <4>1. lo \in Int /\ n \in Int /\ lo <= n
        BY <2>2, <2>3, <2>6
      <4>2. lo # n => n - lo \in 1..(n - lo) /\ lo + (n - lo) = n
        BY <4>1
      <4> QED
        BY <4>1, <4>2, RunSequence
    <3> QED
      BY <1>2, <1>4, <2>4, <2>6, <3>1
  <2>10. /\ kept \in 1..HistorySize /\ kept <= n
         /\ kept = HistorySize \/ n - kept < sel[r].from
    BY <2>2, <2>3, <2>4, <2>5, <2>6 DEF k
  <2>11. Len(history'[r]) = kept
    <3> HIDE DEF kept, n
    <3>1. n \in Int /\ n - kept \in Int /\ n - kept <= n /\ n - (n - kept) = kept
      BY <2>2, <2>10
    <3> QED
      BY <2>8, <3>1, RunSequence
  <2>12. topics'[sel'[r].id] = t /\ sel'[r] = sel[r]
    BY <1>0, <1>2, <1>4 DEF t
  <2> HIDE DEF kept, m, L
  <2>13. /\ sel[r].from <= n /\ sel[r].from \in 1..t.count
         /\ GoesBackTo(t.hist, t.count, sel[r].from)
    BY <2>2, <2>3
  <2>14. n \in Nat \ {0} /\ n = t.count
    BY <2>2
  <2> HIDE DEF n
  <2>15. /\ histN'[r] \in Nat /\ histN'[r] # 0
         /\ Len(history'[r]) \in 1..HistorySize /\ Len(history'[r]) <= histN'[r]
         /\ history'[r] = Run(histN'[r] - Len(history'[r]), histN'[r])
    BY <2>5, <2>8, <2>9, <2>10, <2>11, <2>14
  <2>16. /\ sel[r].from \in 1..t.count /\ histN'[r] <= t.count /\ histN'[r] = t.count
         /\ GoesBackTo(t.hist, t.count, sel[r].from)
         /\ sel[r].from <= histN'[r]
         /\ Len(history'[r]) = HistorySize \/ histN'[r] - Len(history'[r]) < sel[r].from
    BY <2>9, <2>10, <2>11, <2>13, <2>14
  <2> QED
    BY <1>4, <2>12, <2>15, <2>16 DEF HistoryAt
<1> QED
  BY <1>1, <1>3, <1>4

(* Another reader's selection leaves a held topic's ring alone, and a new   *)
(* selection finds a ring that has the latest message.                      *)
LEMMA HistorySelect ==
  ASSUME IInv, CountsInv, EpochsInv, SelectionsCounted, RingsInv, HistoriesInv,
         NEW r \in Readers, NEW j \in DOMAIN mirror[r], Select(r, j), NEW q \in Readers
  PROVE  HistoryAt(q)'
<1>0. /\ HistoryAt(q) /\ epoch \in Nat \ {0} /\ topics \in Seq(TopicRecord)
      /\ DOMAIN histN = Readers /\ DOMAIN history = Readers /\ DOMAIN sel = Readers
  BY DEF HistoriesInv, IInv, TypeOK
<1>1. /\ UNCHANGED <<epoch, cur>> /\ sel[r] = NoSelection
      /\ histN' = [histN EXCEPT ![r] = 0] /\ history' = [history EXCEPT ![r] = <<>>]
  BY SelectEffect
<1>2. CASE UNCHANGED <<topics, sel>>
  <2>1. CASE q = r
    BY <1>0, <1>1, <1>2, <2>1, StartsEmpty
  <2>2. CASE q # r
    BY <1>0, <1>1, <1>2, <2>2, KeepsHistory
  <2> QED
    BY <2>1, <2>2
<1>3. CASE /\ cur[r].epoch = epoch /\ j \in DOMAIN topics
           /\ topics' = [topics EXCEPT ![j] = Taken(topics[j])]
           /\ sel' = [sel EXCEPT ![r] = [epoch |-> epoch, id |-> j,
                                        from |-> topics[j].count]]
  <2> DEFINE t == topics[j]
  <2>1. /\ t \in TopicRecord /\ t.count \in MessageNumbers \ {0} /\ t.count \in Nat
        /\ t.last = t.count
    <3>1. t \in TopicRecord /\ stats.messages \in Nat
      BY <1>0, <1>3, ElementType DEF IInv, TypeOK
    <3>2. t.count \in MessageNumbers
      BY <3>1, TopicFields
    <3>3. t.count \in 1..stats.messages /\ t.last = t.count
      BY <1>3 DEF CountsInv, TopicIds
    <3> QED
      BY <3>1, <3>2, <3>3
  <2>2. /\ topics'[j].count = t.count /\ topics'[j].seq = t.seq
        /\ topics'[j].hist = IF t.selected = 0
                             THEN Push(NewRing(HistorySize), HistorySize, t.count)
                             ELSE t.hist
    BY <1>0, <1>3, <2>1, TakenType
  <2>3. CASE q = r
    <3>1. sel'[q] = [epoch |-> epoch, id |-> j, from |-> t.count]
      BY <1>0, <1>3, <2>3
    <3>2. histN'[q] = 0 /\ history'[q] = <<>>
      BY <1>0, <1>1, <2>3
    <3>3. GoesBackTo(topics'[j].hist, t.count, t.count)
      <4>1. CASE t.selected = 0
        BY <2>1, <2>2, <4>1, FirstPush
      <4>2. CASE t.selected # 0
        <5>1. t.selected = Cardinality(Holders(j)) /\ (t.hist = NoRing <=> Holders(j) = {})
          BY <1>3 DEF SelectionsCounted, TopicIds
        <5>2. t.hist # NoRing
          BY <4>2, <5>1, HoldersFinite
        <5>3. RingEndsAt(t.hist, t.count)
          BY <1>3, <5>2 DEF RingsInv, TopicIds
        <5>4. Filled(t.hist) \in 1..t.count /\ t.hist \in RingOf(HistorySize, MessageNumbers)
          BY <5>3 DEF RingEndsAt
        <5>5. t.hist.next \in Int
          BY <5>4, RingFields
        <5> HIDE DEF t
        <5>6. GoesBackTo(t.hist, t.count, t.count)
          BY <2>1, <5>4, <5>5 DEF GoesBackTo, Filled
        <5> QED
          BY <2>2, <4>2, <5>6
      <4> QED
        BY <4>1, <4>2
    <3>4. t.count \in 1..t.count
      BY <2>1
    <3> HIDE DEF t
    <3> QED
      BY <1>1, <2>1, <2>2, <3>1, <3>2, <3>3, <3>4, StartsEmpty
  <2>4. CASE q # r
    <3>1. sel'[q] = sel[q] /\ histN'[q] = histN[q] /\ history'[q] = history[q]
      BY <1>0, <1>1, <1>3, <2>4
    <3>2. ASSUME sel[q] # NoSelection, sel[q].epoch = epoch
          PROVE  /\ topics'[sel[q].id].count = topics[sel[q].id].count
                 /\ topics'[sel[q].id].seq = topics[sel[q].id].seq
                 /\ topics'[sel[q].id].hist = topics[sel[q].id].hist
      <4>1. sel[q].id \in DOMAIN topics /\ topics[sel[q].id].selected # 0
        BY <3>2, HeldTopic
      <4>2. CASE sel[q].id = j
        BY <2>2, <4>1, <4>2
      <4>3. CASE sel[q].id # j
        BY <1>0, <1>3, <4>1, <4>3
      <4> QED
        BY <4>2, <4>3
    <3> QED
      BY <1>0, <1>1, <3>1, <3>2, KeepsHistory
  <2> QED
    BY <2>3, <2>4
<1> QED
  BY <1>2, <1>3, SelectEffect

(* A release leaves the ring to the readers that still hold the topic. *)
LEMMA HistoryRelease ==
  ASSUME IInv, CountsInv, EpochsInv, SelectionsCounted, RingsInv, HistoriesInv,
         EpochsInv', SelectionsCounted',
         NEW r \in Readers, Release(r), NEW q \in Readers
  PROVE  HistoryAt(q)'
<1>0. /\ HistoryAt(q) /\ epoch \in Nat \ {0} /\ topics \in Seq(TopicRecord)
      /\ DOMAIN histN = Readers /\ DOMAIN history = Readers /\ DOMAIN sel = Readers
  BY DEF HistoriesInv, IInv, TypeOK
<1>1. /\ UNCHANGED <<epoch, cur>> /\ sel' = [sel EXCEPT ![r] = NoSelection]
      /\ histN' = [histN EXCEPT ![r] = 0] /\ history' = [history EXCEPT ![r] = <<>>]
  BY ReleaseEffect
<1>2. CASE q = r
  <2>1. sel'[q] = NoSelection /\ histN'[q] = 0 /\ history'[q] = <<>>
    BY <1>0, <1>1, <1>2
  <2> QED
    BY <1>1, <2>1, StartsEmpty
<1>3. CASE q # r
  <2>1. sel'[q] = sel[q] /\ histN'[q] = histN[q] /\ history'[q] = history[q]
    BY <1>0, <1>1, <1>3
  <2>2. ASSUME sel[q] # NoSelection, sel[q].epoch = epoch
        PROVE  /\ topics'[sel[q].id].count = topics[sel[q].id].count
               /\ topics'[sel[q].id].seq = topics[sel[q].id].seq
               /\ topics'[sel[q].id].hist = topics[sel[q].id].hist
    <3> DEFINE id == sel[q].id
    <3>1. id \in DOMAIN topics /\ topics[id] \in TopicRecord
      BY <2>2, HeldTopic
    <3>2. SameTopics(topics', topics)
      BY QuietStep
    <3>3. id \in DOMAIN topics' /\ topics'[id].count = topics[id].count
          /\ topics'[id].seq = topics[id].seq
      BY <3>1, <3>2 DEF SameTopics
    <3>4. q \in {p \in Readers : sel'[p].epoch = epoch' /\ sel'[p].id = id}
      BY <1>1, <2>1, <2>2
    <3>5. topics'[id].hist # NoRing
      <4> HIDE DEF id
      <4> QED
        BY <3>3, <3>4 DEF SelectionsCounted, TopicIds, Holders
    <3>6. CASE UNCHANGED topics
      BY <3>6
    <3>7. CASE /\ sel[r].id \in DOMAIN topics /\ topics[sel[r].id].selected > 0
               /\ topics' = [topics EXCEPT ![sel[r].id] = Dropped(topics[sel[r].id])]
      <4>1. CASE id = sel[r].id
        <5>1. topics'[id] = Dropped(topics[id]) /\ topics[id].selected > 0
          BY <1>0, <3>1, <3>7, <4>1
        <5>2. topics'[id].hist = topics[id].hist
          BY <3>1, <3>5, <5>1, DroppedType
        <5> QED
          BY <3>3, <5>2
      <4>2. CASE id # sel[r].id
        BY <1>0, <3>1, <3>7, <4>2
      <4> QED
        BY <4>1, <4>2
    <3> QED
      BY <3>6, <3>7, ReleaseEffect
  <2> QED
    BY <1>0, <1>1, <2>1, <2>2, KeepsHistory
<1> QED
  BY <1>2, <1>3

LEMMA HistoriesStep ==
  ASSUME IInv, CountsInv, EpochsInv, SelectionsCounted, RingsInv, HistoriesInv, [Next]_vars
  PROVE  HistoriesInv'
<1>1. DOMAIN histN' = Readers /\ DOMAIN history' = Readers
  BY DEF HistoriesInv, Next, vars, Publish, Clear, Poll, Select, Release, readerVars
<1> SUFFICES ASSUME NEW q \in Readers
             PROVE  HistoryAt(q)'
  BY <1>1 DEF HistoriesInv
<1>2. HistoryAt(q) /\ DOMAIN histN = Readers /\ DOMAIN history = Readers
  BY DEF HistoriesInv
<1>3. CASE \E name \in Names : Publish(name)
  BY <1>3, HistoryPublish
<1>4. CASE Clear
  <2>1. /\ sel'[q] = sel[q] /\ histN'[q] = histN[q] /\ history'[q] = history[q]
        /\ cur[q].epoch # epoch'
    BY <1>4, ClearEffect
  <2>2. ~(sel[q] # NoSelection /\ sel[q].epoch = epoch')
    BY <2>1 DEF EpochsInv
  <2> QED
    BY <1>2, <2>1, <2>2 DEF HistoryAt
<1>5. ASSUME NEW r \in Readers, Poll(r)
      PROVE  HistoryAt(q)'
  <2>1. CASE q = r
    BY <1>5, <2>1, HistoryPoll
  <2>2. CASE q # r
    <3>1. /\ UNCHANGED <<epoch, topics>>
          /\ DOMAIN sel = Readers /\ DOMAIN cur = Readers
      BY <1>5, PollHistoryEffect DEF IInv, TypeOK
    <3>2. /\ sel'[q] = sel[q] /\ histN'[q] = histN[q] /\ history'[q] = history[q]
          /\ cur'[q] = cur[q]
      BY <1>2, <1>5, <2>2, <3>1 DEF Poll
    <3> QED
      BY <1>2, <3>1, <3>2, KeepsHistory
  <2> QED
    BY <2>1, <2>2
<1>6. CASE \E r \in Readers : \E id \in DOMAIN mirror[r] : Select(r, id)
  BY <1>6, HistorySelect
<1>7. CASE \E r \in Readers : Release(r)
  BY <1>7, HistoryRelease, EpochsStep, SelectionsStep
<1>8. CASE UNCHANGED vars
  BY <1>2, <1>8, KeepsHistory DEF vars
<1> QED
  BY <1>3, <1>4, <1>5, <1>6, <1>7, <1>8 DEF Next

-----------------------------------------------------------------------------
LEMMA InitHInv == Init => HInv
<1> SUFFICES ASSUME Init PROVE HInv
  OBVIOUS
<1>1. IInv
  BY InitIInv
<1>2. /\ topics = <<>> /\ stats.messages = 0 /\ stats.dropped = 0
      /\ histN = [r \in Readers |-> 0] /\ sel = [r \in Readers |-> NoSelection]
      /\ history = [r \in Readers |-> <<>>]
  BY DEF Init, StoreInit
<1>3. CountsInv /\ EpochsInv /\ SelectionsCounted /\ RingsInv
  BY <1>2, StoreAssumption DEF CountsInv, EpochsInv, SelectionsCounted, RingsInv, TopicIds
<1>4. Run(0 - 0, 0) = <<>>
  <2>1. Run(0, 0) = <<>> <=> 0 = 0
    BY RunSequence
  <2> QED
    BY <2>1
<1>5. ASSUME NEW r \in Readers
      PROVE  HistoryAt(r)
  <2>1. histN[r] = 0 /\ history[r] = <<>> /\ sel[r] = NoSelection /\ Len(history[r]) = 0
    BY <1>2
  <2> QED
    BY <1>4, <2>1, StoreAssumption DEF HistoryAt
<1> QED
  BY <1>1, <1>2, <1>3, <1>5 DEF HInv, HistoriesInv

LEMMA NextHInv == HInv /\ [Next]_vars => HInv'
BY NextIInv, CountsStep, EpochsStep, SelectionsStep, RingsStep, HistoriesStep DEF HInv

(***************************************************************************)
(* The strengthened invariant holds in every reachable state.              *)
(***************************************************************************)
THEOREM HistoryInvariance == Spec => []HInv
<1>1. Init => HInv
  BY InitHInv
<1>2. HInv /\ [Next]_vars => HInv'
  BY NextHInv
<1> QED
  BY <1>1, <1>2, PTL DEF Spec

(***************************************************************************)
(* Whatever readers select, release and poll, and whenever the broker is   *)
(* changed: a topic counts exactly its readers, keeps its ring as long as  *)
(* there is one and drops it with the last (store.go:108-139).             *)
(***************************************************************************)
THEOREM SelectionsCorrect == Spec => []SelectionsCounted
<1>1. HInv => SelectionsCounted
  BY DEF HInv
<1> QED
  BY <1>1, HistoryInvariance, PTL

(***************************************************************************)
(* No reader ever shows a history with a gap or a repetition, however many *)
(* messages arrive between two of its polls (store.go:273-315,             *)
(* app.js:510-537).                                                        *)
(***************************************************************************)
THEOREM HistoryHasNoGap == Spec => []HistoryContiguous
<1>1. HInv => HistoryContiguous
  <2> SUFFICES ASSUME HInv, NEW r \in Readers, NEW i \in 1..(Len(history[r]) - 1)
               PROVE  history[r][i + 1] = history[r][i] + 1
    BY DEF HistoryContiguous
  <2> DEFINE a == histN[r] - Len(history[r])
  <2>1. /\ histN[r] \in Nat /\ Len(history[r]) \in Nat /\ Len(history[r]) <= histN[r]
        /\ history[r] = Run(a, histN[r])
    BY StoreAssumption DEF HInv, HistoriesInv, HistoryAt
  <2>2. a \in Int /\ a <= histN[r] /\ i \in 1..(histN[r] - a) /\ i + 1 \in 1..(histN[r] - a)
    BY <2>1
  <2> HIDE DEF a
  <2>3. \A k \in 1..(histN[r] - a) : Run(a, histN[r])[k] = a + k
    BY DEF Run
  <2>4. /\ Run(a, histN[r])[i] = a + i
        /\ Run(a, histN[r])[i + 1] = a + (i + 1)
    BY <2>2, <2>3
  <2> QED
    BY <2>1, <2>2, <2>4
<1> QED
  BY <1>1, HistoryInvariance, PTL

(***************************************************************************)
(* A reader that has polled since its topic's last message shows that      *)
(* message and every one before it back to the one that was the latest     *)
(* when it selected the topic, or HistorySize of them (README: "History is *)
(* recorded for a topic while it is open").                                *)
(***************************************************************************)
THEOREM HistoryIsComplete == Spec => []HistoryReachesBack
<1>1. HInv => HistoryReachesBack
  <2> SUFFICES ASSUME HInv, NEW r \in Readers, sel[r].epoch = epoch, histN[r] # 0,
                      topics[sel[r].id].seq <= cur[r].seq,
                      NEW n \in sel[r].from..topics[sel[r].id].count,
                      n > topics[sel[r].id].count - HistorySize
               PROVE  n \in Shown(r)
    BY DEF HistoryReachesBack
  <2> DEFINE L == Len(history[r])
             last == topics[sel[r].id].count
             a == histN[r] - L
  <2>1. HistoryAt(r) /\ epoch # 0
    BY DEF HInv, HistoriesInv, IInv, TypeOK
  <2>2. sel[r] # NoSelection
    BY <2>1 DEF NoSelection
  <2>3. /\ histN[r] \in Nat /\ L \in Nat /\ L <= histN[r]
        /\ history[r] = Run(a, histN[r])
        /\ histN[r] = last /\ (L = HistorySize \/ a < sel[r].from)
    BY <2>1, <2>2, StoreAssumption DEF HistoryAt
  <2>4. sel[r].from \in 1..last
    BY <2>1, <2>2 DEF HistoryAt
  <2> HIDE DEF last
  <2>5. n \in Int /\ sel[r].from <= n /\ n <= last /\ n > last - HistorySize
    BY <2>3, <2>4 DEF last
  <2> HIDE DEF L
  <2>6. /\ n \in Int /\ n - a \in 1..(histN[r] - a) /\ a \in Int /\ a <= histN[r]
        /\ a + (n - a) = n /\ histN[r] - a = L
    BY <2>3, <2>4, <2>5, StoreAssumption
  <2> HIDE DEF a
  <2>7. /\ DOMAIN Run(a, histN[r]) = 1..(histN[r] - a)
        /\ \A k \in 1..(histN[r] - a) : Run(a, histN[r])[k] = a + k
    BY DEF Run
  <2>8. Run(a, histN[r])[n - a] = a + (n - a)
    BY <2>6, <2>7
  <2> QED
    BY <2>3, <2>6, <2>7, <2>8 DEF Shown
<1> QED
  BY <1>1, HistoryInvariance, PTL
=============================================================================
