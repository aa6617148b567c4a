----------------------------- MODULE Store_proofs -----------------------------
(***************************************************************************)
(* Lemmas about the operators of the topic store and of its rings, for the *)
(* proofs about the modules that use the store.                            *)
(***************************************************************************)
EXTENDS Store, FiniteSetTheorems, TLAPS

-----------------------------------------------------------------------------
(* The topic table is indexed from 1 without gaps. *)
LEMMA TableDomain ==
  ASSUME NEW table \in Seq(TopicRecord)
  PROVE  Len(table) \in Nat /\ DOMAIN table = 1..Len(table)
OBVIOUS

(* What a sequence holds at one of its indices. *)
LEMMA ElementType ==
  ASSUME NEW S, NEW s \in Seq(S), NEW i \in DOMAIN s
  PROVE  s[i] \in S
OBVIOUS

(* A count stays below 2^32. *)
LEMMA IncrementType ==
  ASSUME NEW n \in MessageNumbers
  PROVE  Increment(n) \in MessageNumbers
BY StoreAssumption DEF Increment, MessageNumbers

(* A new ring is a ring of HistorySize slots, all of them holding 0. *)
LEMMA NewRingType == NewRing(HistorySize) \in RingOf(HistorySize, MessageNumbers)
BY StoreAssumption DEF NewRing, RingOf, Slots, MessageNumbers

(* Pushing a message number keeps a ring a ring. *)
LEMMA PushType ==
  ASSUME NEW ring \in RingOf(HistorySize, MessageNumbers), NEW m \in MessageNumbers
  PROVE  Push(ring, HistorySize, m) \in RingOf(HistorySize, MessageNumbers)
BY StoreAssumption DEF Push, RingOf, Slots

(* The fields of a topic whose history and other fields are replaced. *)
Histories == RingOf(HistorySize, MessageNumbers) \cup {NoRing}

LEMMA TopicFields ==
  ASSUME NEW t \in TopicRecord
  PROVE  /\ t.name \in Names /\ t.count \in MessageNumbers /\ t.seq \in Nat
         /\ t.last \in MessageNumbers /\ t.hist \in Histories /\ t.selected \in Nat
         /\ t = [name |-> t.name, count |-> t.count, seq |-> t.seq, last |-> t.last,
                 hist |-> t.hist, selected |-> t.selected]
<1> HIDE DEF Histories
<1>1. TopicRecord = [name : Names, count : MessageNumbers, seq : Nat,
                     last : MessageNumbers, hist : Histories, selected : Nat]
  BY DEF TopicRecord, Histories
<1> QED
  BY <1>1

(* One more message for a topic: same name and readers, next count and stamp, *)
(* and the message is the latest and in the history that is recorded.         *)
LEMMA RecordedType ==
  ASSUME seq \in Nat, NEW t \in TopicRecord
  PROVE  /\ Recorded(t) \in TopicRecord
         /\ Recorded(t).name = t.name /\ Recorded(t).selected = t.selected
         /\ Recorded(t).seq = seq + 1
         /\ Recorded(t).count = Increment(t.count) /\ Recorded(t).last = Increment(t.count)
         /\ Recorded(t).hist = IF t.hist = NoRing THEN NoRing
                               ELSE Push(t.hist, HistorySize, Increment(t.count))
<1> DEFINE n == Increment(t.count)
           h == IF t.hist = NoRing THEN t.hist ELSE Push(t.hist, HistorySize, n)
<1>1. n \in MessageNumbers
  BY IncrementType, TopicFields
<1>2. h \in Histories
  BY <1>1, PushType, TopicFields DEF Histories
<1>3. Recorded(t) = [t EXCEPT !.count = n, !.seq = seq + 1, !.last = n, !.hist = h]
  BY DEF Recorded
<1> HIDE DEF n, h
<1>4. Recorded(t) = [name |-> t.name, count |-> n, seq |-> seq + 1, last |-> n,
                     hist |-> h, selected |-> t.selected]
  BY <1>3, TopicFields
<1> QED
  BY <1>1, <1>2, <1>4, TopicFields DEF TopicRecord, Histories, n, h

(* A topic with no message yet. *)
LEMMA NewTopicType ==
  ASSUME NEW name \in Names
  PROVE  /\ NewTopic(name) \in TopicRecord /\ NewTopic(name).name = name
         /\ NewTopic(name).count = 0 /\ NewTopic(name).selected = 0
         /\ NewTopic(name).hist = NoRing
BY StoreAssumption DEF NewTopic, TopicRecord, MessageNumbers

(* A topic with one reader more or less. *)
LEMMA TakenType ==
  ASSUME NEW t \in TopicRecord
  PROVE  /\ Taken(t) \in TopicRecord
         /\ Taken(t).name = t.name /\ Taken(t).count = t.count /\ Taken(t).seq = t.seq
         /\ Taken(t).last = t.last /\ Taken(t).selected = t.selected + 1
         /\ Taken(t).hist = IF t.selected = 0
                            THEN Push(NewRing(HistorySize), HistorySize, t.last)
                            ELSE t.hist
<1> DEFINE h == IF t.selected = 0 THEN Push(NewRing(HistorySize), HistorySize, t.last)
                                  ELSE t.hist
<1>1. h \in Histories
  BY NewRingType, PushType, TopicFields DEF Histories
<1>2. Taken(t) = [t EXCEPT !.selected = t.selected + 1, !.hist = h]
  BY DEF Taken
<1> HIDE DEF h
<1>3. Taken(t) = [name |-> t.name, count |-> t.count, seq |-> t.seq, last |-> t.last,
                  hist |-> h, selected |-> t.selected + 1]
  BY <1>2, TopicFields
<1> QED
  BY <1>1, <1>3, TopicFields DEF TopicRecord, Histories, h

LEMMA DroppedType ==
  ASSUME NEW t \in TopicRecord, t.selected > 0
  PROVE  /\ Dropped(t) \in TopicRecord
         /\ Dropped(t).name = t.name /\ Dropped(t).count = t.count
         /\ Dropped(t).seq = t.seq /\ Dropped(t).last = t.last
         /\ Dropped(t).selected = t.selected - 1
         /\ Dropped(t).hist = IF t.selected = 1 THEN NoRing ELSE t.hist
<1> DEFINE h == IF t.selected = 1 THEN NoRing ELSE t.hist
<1>1. h \in Histories
  BY TopicFields DEF Histories
<1>2. Dropped(t) = [t EXCEPT !.selected = t.selected - 1, !.hist = h]
  BY DEF Dropped
<1> HIDE DEF h
<1>3. Dropped(t) = [name |-> t.name, count |-> t.count, seq |-> t.seq, last |-> t.last,
                    hist |-> h, selected |-> t.selected - 1]
  BY <1>2, TopicFields
<1> QED
  BY <1>1, <1>3, TopicFields DEF TopicRecord, Histories, h

(* Select and Release touch neither names nor counts nor stamps. *)
SameTopics(new, old) ==
  /\ new \in Seq(TopicRecord)
  /\ Len(new) = Len(old)
  /\ DOMAIN new = DOMAIN old
  /\ \A i \in DOMAIN old : /\ new[i].name = old[i].name
                           /\ new[i].count = old[i].count
                           /\ new[i].seq = old[i].seq
                           /\ new[i].last = old[i].last

LEMMA SelectedSame ==
  ASSUME NEW table \in Seq(TopicRecord), NEW e, NEW id
  PROVE  SameTopics(Selected(table, e, id), table)
BY TakenType DEF Selected, IsCurrent, SameTopics

LEMMA ReleasedSame ==
  ASSUME NEW table \in Seq(TopicRecord), NEW e, NEW id
  PROVE  SameTopics(Released(table, e, id), table)
BY DroppedType DEF Released, IsCurrent, SameTopics

-----------------------------------------------------------------------------
(* What is kept of a list, when the kept indices are an interval. *)
LEMMA ElementsAtInterval ==
  ASSUME NEW s, NEW a \in Int, NEW b \in Int
  PROVE  ElementsAt(s, a..b) =
           [k \in 1..(IF a > b THEN 0 ELSE b - a + 1) |-> s[a + k - 1]]
<1> DEFINE size == IF a > b THEN 0 ELSE b - a + 1
           Before(i) == {j \in a..b : j < i}
           Index(k) == CHOOSE i \in a..b : Cardinality(Before(i)) = k - 1
<1>1. ElementsAt(s, a..b) = [k \in 1..Cardinality(a..b) |-> s[Index(k)]]
  BY DEF ElementsAt
<1>2. Cardinality(a..b) = size
  BY FS_Interval
<1>3. ASSUME NEW i \in a..b
      PROVE  Cardinality(Before(i)) = i - a
  <2>1. Before(i) = a..(i - 1)
    OBVIOUS
  <2>2. Cardinality(a..(i - 1)) = IF a > i - 1 THEN 0 ELSE (i - 1) - a + 1
    BY FS_Interval
  <2> HIDE DEF Before
  <2> QED
    BY <2>1, <2>2
<1> HIDE DEF Before
<1>4. ASSUME NEW k \in 1..size
      PROVE  Index(k) = a + k - 1
  <2>1. a + k - 1 \in a..b
    OBVIOUS
  <2>2. \A i \in a..b : Cardinality(Before(i)) = k - 1 <=> i = a + k - 1
    BY <1>3
  <2>3. Index(k) \in a..b /\ Cardinality(Before(Index(k))) = k - 1
    BY <2>1, <2>2, Zenon
  <2> HIDE DEF Index
  <2> QED
    BY <2>2, <2>3
<1> HIDE DEF Index
<1> QED
  BY <1>1, <1>2, <1>4

\* The numbers above from, up to and including to, in order.
Run(from, to) == [i \in 1..(to - from) |-> from + i]

(* The part of a run above a number. *)
LEMMA AboveRun ==
  ASSUME NEW a \in Int, NEW b \in Int, NEW n \in Int, n <= b
  PROVE  Above(Run(a, b), n) = Run(IF n > a THEN n ELSE a, b)
<1> DEFINE lo == IF n > a THEN n - a + 1 ELSE 1
<1>1. {i \in DOMAIN Run(a, b) : Run(a, b)[i] > n} = lo..(b - a)
  BY DEF Run
<1>2. ElementsAt(Run(a, b), lo..(b - a)) =
        [k \in 1..(IF lo > b - a THEN 0 ELSE b - a - lo + 1) |-> Run(a, b)[lo + k - 1]]
  BY ElementsAtInterval
<1>3. Above(Run(a, b), n) =
        [k \in 1..(IF lo > b - a THEN 0 ELSE b - a - lo + 1) |-> Run(a, b)[lo + k - 1]]
  BY <1>1, <1>2 DEF Above
<1>4. CASE n > a
  <2>1. Above(Run(a, b), n) = [k \in 1..(b - n) |-> Run(a, b)[n - a + 1 + k - 1]]
    <3>1. (IF lo > b - a THEN 0 ELSE b - a - lo + 1) = b - n
      BY <1>4
    <3> QED
      BY <1>3, <1>4, <3>1
  <2>2. \A k \in 1..(b - n) : Run(a, b)[n - a + 1 + k - 1] = n + k
    BY <1>4 DEF Run
  <2> QED
    BY <1>4, <2>1, <2>2 DEF Run
<1>5. CASE ~(n > a)
  <2>1. 1..(IF lo > b - a THEN 0 ELSE b - a - lo + 1) = 1..(b - a)
    BY <1>5
  <2>2. \A k \in 1..(b - a) : Run(a, b)[lo + k - 1] = a + k
    BY <1>5 DEF Run
  <2> QED
    BY <1>3, <1>5, <2>1, <2>2 DEF Run
<1> QED
  BY <1>4, <1>5

-----------------------------------------------------------------------------
\* How many messages a ring holds.
Filled(ring) == IF ring.full THEN HistorySize ELSE ring.next

(* The ring holds the messages up to n: the slot before next has number n,  *)
(* the one before it n - 1, and so on, around the end of the buffer.        *)
RingEndsAt(ring, n) ==
  /\ ring \in RingOf(HistorySize, MessageNumbers)
  /\ Filled(ring) \in 1..n
  /\ \A i \in Slots(HistorySize) :
       /\ i < ring.next => ring.buf[i] = n - (ring.next - 1 - i)
       /\ ring.full /\ i >= ring.next => ring.buf[i] = n - (ring.next - 1 - i + HistorySize)

\* A ring that is not full goes back to the message from.
GoesBackTo(ring, n, from) == ring.full \/ n - ring.next < from

LEMMA RingFields ==
  ASSUME NEW ring \in RingOf(HistorySize, MessageNumbers)
  PROVE  /\ ring.buf \in [Slots(HistorySize) -> MessageNumbers]
         /\ ring.next \in 0..(HistorySize - 1)
         /\ ring.full \in BOOLEAN
         /\ HistorySize \in Nat \ {0}
         /\ ring # NoRing
<1>1. HistorySize \in Nat \ {0}
  BY StoreAssumption
<1>2. /\ ring.buf \in [Slots(HistorySize) -> MessageNumbers]
      /\ ring.next \in 0..(HistorySize - 1)
      /\ ring.full \in BOOLEAN
  BY DEF RingOf, Slots
<1>3. 0 \in DOMAIN ring.buf
  BY <1>1, <1>2 DEF Slots
<1>4. DOMAIN NoRing.buf = {}
  BY DEF NoRing
<1> QED
  BY <1>1, <1>2, <1>3, <1>4

(* A selected topic's ring starts with its latest message. *)
LEMMA FirstPush ==
  ASSUME NEW n \in MessageNumbers \ {0}
  PROVE  /\ RingEndsAt(Push(NewRing(HistorySize), HistorySize, n), n)
         /\ GoesBackTo(Push(NewRing(HistorySize), HistorySize, n), n, n)
<1> DEFINE ring == Push(NewRing(HistorySize), HistorySize, n)
<1>1. HistorySize \in Nat \ {0} /\ n \in Nat \ {0}
  BY StoreAssumption DEF MessageNumbers
<1>2. ring \in RingOf(HistorySize, MessageNumbers)
  BY NewRingType, PushType
<1>3. /\ ring.next = IF 1 = HistorySize THEN 0 ELSE 1
      /\ ring.full \in BOOLEAN /\ (ring.full <=> 1 = HistorySize)
      /\ ring.buf[0] = n
  <2> DEFINE none == NewRing(HistorySize)
  <2>1. /\ none.buf = [i \in 0..(HistorySize - 1) |-> 0]
        /\ none.next = 0 /\ none.full = FALSE
    BY DEF NewRing, Slots
  <2> HIDE DEF none
  <2>2. ring = [buf  |-> [none.buf EXCEPT ![none.next] = n],
                next |-> IF none.next + 1 = HistorySize THEN 0 ELSE none.next + 1,
                full |-> none.full \/ none.next + 1 = HistorySize]
    BY DEF Push, none
  <2> HIDE DEF ring
  <2>3. ring.full <=> none.full \/ none.next + 1 = HistorySize
    BY <2>2
  <2>4. ring.full \in BOOLEAN
    BY <1>2, RingFields
  <2> QED
    BY <1>1, <2>1, <2>2, <2>3, <2>4
<1> HIDE DEF ring
<1>4. Filled(ring) = 1
  BY <1>1, <1>3 DEF Filled
<1>5. ASSUME NEW i \in Slots(HistorySize)
      PROVE  /\ i < ring.next => ring.buf[i] = n - (ring.next - 1 - i)
             /\ ring.full /\ i >= ring.next =>
                  ring.buf[i] = n - (ring.next - 1 - i + HistorySize)
  BY <1>1, <1>3 DEF Slots
<1>6. RingEndsAt(ring, n)
  BY <1>1, <1>2, <1>4, <1>5 DEF RingEndsAt
<1>7. GoesBackTo(ring, n, n)
  BY <1>1, <1>3 DEF GoesBackTo
<1> QED
  BY <1>6, <1>7 DEF ring

(* The next message goes where the write index is, over the oldest, and a  *)
(* ring that is not full loses nothing.                                    *)
LEMMA NextPush ==
  ASSUME NEW n \in MessageNumbers, NEW ring, RingEndsAt(ring, n), n + 1 \in MessageNumbers
  PROVE  /\ RingEndsAt(Push(ring, HistorySize, n + 1), n + 1)
         /\ \A from \in Int : GoesBackTo(ring, n, from) =>
                              GoesBackTo(Push(ring, HistorySize, n + 1), n + 1, from)
<1> DEFINE new == Push(ring, HistorySize, n + 1)
<1>1. HistorySize \in Nat \ {0} /\ n \in Nat
  BY StoreAssumption DEF MessageNumbers
<1>2. ring \in RingOf(HistorySize, MessageNumbers)
  BY DEF RingEndsAt
<1>3. new \in RingOf(HistorySize, MessageNumbers)
  BY <1>2, PushType
<1>4. /\ ring.buf \in [Slots(HistorySize) -> MessageNumbers]
      /\ ring.next \in 0..(HistorySize - 1) /\ ring.full \in BOOLEAN
  BY <1>2, RingFields
<1>5. /\ new.next = IF ring.next + 1 = HistorySize THEN 0 ELSE ring.next + 1
      /\ new.full \in BOOLEAN /\ (new.full <=> ring.full \/ ring.next + 1 = HistorySize)
      /\ \A i \in Slots(HistorySize) :
           new.buf[i] = IF i = ring.next THEN n + 1 ELSE ring.buf[i]
  BY <1>4 DEF Push
<1>6. Filled(ring) \in 1..n
  BY DEF RingEndsAt
<1>7. \A i \in Slots(HistorySize) :
        /\ i < ring.next => ring.buf[i] = n - (ring.next - 1 - i)
        /\ ring.full /\ i >= ring.next =>
             ring.buf[i] = n - (ring.next - 1 - i + HistorySize)
  BY DEF RingEndsAt
<1> HIDE DEF new
<1>8. Filled(new) \in 1..(n + 1)
  BY <1>1, <1>4, <1>5, <1>6 DEF Filled
<1>9. ASSUME NEW i \in Slots(HistorySize)
      PROVE  /\ i < new.next => new.buf[i] = (n + 1) - (new.next - 1 - i)
             /\ new.full /\ i >= new.next =>
                  new.buf[i] = (n + 1) - (new.next - 1 - i + HistorySize)
  <2>1. i \in 0..(HistorySize - 1)
    BY DEF Slots
  <2>2. CASE i = ring.next
    BY <1>1, <1>4, <1>5, <2>1, <2>2
  <2>3. CASE i # ring.next /\ ring.next + 1 = HistorySize
    BY <1>1, <1>4, <1>5, <1>7, <2>1, <2>3
  <2>4. CASE i # ring.next /\ ring.next + 1 # HistorySize
    BY <1>1, <1>4, <1>5, <1>7, <2>1, <2>4
  <2> QED
    BY <2>2, <2>3, <2>4
<1>10. RingEndsAt(new, n + 1)
  BY <1>3, <1>8, <1>9 DEF RingEndsAt
<1>11. \A from \in Int : GoesBackTo(ring, n, from) => GoesBackTo(new, n + 1, from)
  BY <1>1, <1>4, <1>5 DEF GoesBackTo
<1> QED
  BY <1>10, <1>11 DEF new

(* What a ring gives a reader that has seen the messages up to m: the rest *)
(* of the messages, or as many as the ring has.                            *)
LEMMA AfterOf ==
  ASSUME NEW n \in MessageNumbers, NEW ring, RingEndsAt(ring, n), NEW m \in 0..n
  PROVE  After(ring, HistorySize, m) =
           Run(IF m > n - Filled(ring) THEN m ELSE n - Filled(ring), n)
<1> DEFINE k == Filled(ring)
<1>1. HistorySize \in Nat \ {0} /\ n \in Nat
  BY StoreAssumption DEF MessageNumbers
<1>2. /\ ring.buf \in [Slots(HistorySize) -> MessageNumbers]
      /\ ring.next \in 0..(HistorySize - 1) /\ ring.full \in BOOLEAN
  BY RingFields DEF RingEndsAt
<1>3. k \in 1..n
  BY DEF RingEndsAt
<1>4. \A i \in 0..(HistorySize - 1) :
        /\ i < ring.next => ring.buf[i] = n - (ring.next - 1 - i)
        /\ ring.full /\ i >= ring.next =>
             ring.buf[i] = n - (ring.next - 1 - i + HistorySize)
  BY DEF RingEndsAt, Slots
<1>5. Contents(ring, HistorySize) = Run(n - k, n)
  <2>1. CASE ring.full
    <3>1. k = HistorySize
      BY <2>1 DEF Filled
    <3>2. ASSUME NEW i \in 1..HistorySize
          PROVE  (IF ring.next + i - 1 < HistorySize THEN ring.buf[ring.next + i - 1]
                  ELSE ring.buf[ring.next + i - 1 - HistorySize]) = (n - HistorySize) + i
      <4>1. CASE ring.next + i - 1 < HistorySize
        <5>1. /\ ring.next + i - 1 \in 0..(HistorySize - 1)
              /\ ring.next + i - 1 >= ring.next
          BY <1>1, <1>2, <4>1
        <5>2. ring.buf[ring.next + i - 1] =
                n - (ring.next - 1 - (ring.next + i - 1) + HistorySize)
          BY <1>4, <2>1, <5>1
        <5> QED
          BY <1>1, <1>2, <4>1, <5>2
      <4>2. CASE ~(ring.next + i - 1 < HistorySize)
        <5>1. /\ ring.next + i - 1 - HistorySize \in 0..(HistorySize - 1)
              /\ ring.next + i - 1 - HistorySize < ring.next
          BY <1>1, <1>2, <4>2
        <5>2. ring.buf[ring.next + i - 1 - HistorySize] =
                n - (ring.next - 1 - (ring.next + i - 1 - HistorySize))
          BY <1>4, <5>1
        <5> QED
          BY <1>1, <1>2, <4>2, <5>2
      <4> QED
        BY <4>1, <4>2
    <3>3. Contents(ring, HistorySize) = [i \in 1..HistorySize |-> (n - HistorySize) + i]
      BY <2>1, <3>2 DEF Contents
    <3>4. n - (n - HistorySize) = HistorySize
      BY <1>1
    <3> QED
      BY <3>1, <3>3, <3>4 DEF Run
  <2>2. CASE ~ring.full
    <3>1. k = ring.next
      BY <2>2 DEF Filled
    <3>2. \A i \in 1..ring.next : ring.buf[i - 1] = (n - ring.next) + i
      <4> TAKE i \in 1..ring.next
      <4>1. i - 1 \in 0..(HistorySize - 1) /\ i - 1 < ring.next
        BY <1>1, <1>2
      <4>2. ring.buf[i - 1] = n - (ring.next - 1 - (i - 1))
        BY <1>4, <4>1
      <4> QED
        BY <1>1, <1>2, <4>2
    <3>3. Contents(ring, HistorySize) = [i \in 1..ring.next |-> (n - ring.next) + i]
      BY <2>2, <3>2 DEF Contents
    <3>4. n - (n - ring.next) = ring.next
      BY <1>1, <1>2
    <3> QED
      BY <3>1, <3>3, <3>4 DEF Run
  <2> QED
    BY <2>1, <2>2
<1> HIDE DEF k
<1>6. Above(Run(n - k, n), m) = Run(IF m > n - k THEN m ELSE n - k, n)
  BY <1>1, <1>3, AboveRun
<1> QED
  BY <1>5, <1>6 DEF After, k

-----------------------------------------------------------------------------
(* The topic counts the readers in holders, and has a history if there are any. *)
CountedBy(t, holders) ==
  /\ t.selected = Cardinality(holders)
  /\ t.hist = NoRing <=> holders = {}

(* One reader more: the history begins with the first. *)
LEMMA TakenCounted ==
  ASSUME NEW t \in TopicRecord, NEW holders, IsFiniteSet(holders), CountedBy(t, holders),
         NEW r, r \notin holders
  PROVE  CountedBy(Taken(t), holders \cup {r})
<1>1. t.last \in MessageNumbers /\ Cardinality(holders) \in Nat
  BY TopicFields, FS_CardinalityType
<1>2. /\ Taken(t).selected = t.selected + 1
      /\ Taken(t).hist = IF t.selected = 0
                         THEN Push(NewRing(HistorySize), HistorySize, t.last) ELSE t.hist
  BY TakenType
<1>3. Push(NewRing(HistorySize), HistorySize, t.last) # NoRing
  BY <1>1, NewRingType, PushType, RingFields
<1>4. Cardinality(holders \cup {r}) = Cardinality(holders) + 1
  BY FS_AddElement
<1>5. Cardinality(holders) = 0 <=> holders = {}
  BY FS_EmptySet
<1> QED
  BY <1>2, <1>3, <1>4, <1>5 DEF CountedBy

(* One reader less: the history ends with the last. *)
LEMMA DroppedCounted ==
  ASSUME NEW t \in TopicRecord, NEW holders, IsFiniteSet(holders), CountedBy(t, holders),
         NEW r \in holders
  PROVE  t.selected > 0 /\ CountedBy(Dropped(t), holders \ {r})
<1>1. /\ t.selected \in Nat /\ t.selected = Cardinality(holders) /\ t.hist # NoRing
      /\ (Cardinality(holders) = 0 <=> holders = {})
  BY FS_CardinalityType, FS_EmptySet DEF CountedBy
<1>2. t.selected > 0
  BY <1>1
<1>3. /\ Dropped(t).selected = t.selected - 1
      /\ Dropped(t).hist = IF t.selected = 1 THEN NoRing ELSE t.hist
  BY <1>2, DroppedType
<1>4. IsFiniteSet(holders \ {r}) /\ Cardinality(holders \ {r}) = t.selected - 1
  BY <1>1, FS_RemoveElement
<1>5. Cardinality(holders \ {r}) = 0 <=> holders \ {r} = {}
  BY <1>4, FS_EmptySet
<1>6. t.selected = 1 <=> holders \ {r} = {}
  BY <1>1, <1>4, <1>5
<1> QED
  BY <1>1, <1>2, <1>3, <1>4, <1>6 DEF CountedBy

(* One more message received, or dropped. *)
LEMMA MessageStats ==
  ASSUME stats \in [messages : Nat, dropped : Nat]
  PROVE  [stats EXCEPT !.messages = @ + 1] \in [messages : Nat, dropped : Nat]
OBVIOUS

LEMMA DroppedStats ==
  ASSUME stats \in [messages : Nat, dropped : Nat]
  PROVE  [stats EXCEPT !.dropped = @ + 1] \in [messages : Nat, dropped : Nat]
OBVIOUS

(* The store's own state: its types, and every name it knows is a topic. *)
StoreInv ==
  /\ epoch \in Nat \ {0}
  /\ seq \in Nat
  /\ topics \in Seq(TopicRecord)
  /\ stats \in [messages : Nat, dropped : Nat]
  /\ \A n \in DOMAIN byName : byName[n] \in DOMAIN topics

\* A step after which every topic has the readers it had, and the new ones none.
KeepsSelections ==
  /\ DOMAIN topics \subseteq DOMAIN topics'
  /\ \A id \in DOMAIN topics :
       /\ topics'[id].selected = topics[id].selected
       /\ topics'[id].hist = NoRing <=> topics[id].hist = NoRing
  /\ \A id \in DOMAIN topics' \ DOMAIN topics :
       topics'[id].selected = 0 /\ topics'[id].hist = NoRing

(* A message is recorded, under a new id or a known one, or dropped. *)
LEMMA IngestTable ==
  ASSUME StoreInv, NEW name \in Names, Ingest(name)
  PROVE  StoreInv' /\ epoch' = epoch /\ Len(topics') >= Len(topics) /\ KeepsSelections
<1>0. /\ epoch \in Nat \ {0} /\ seq \in Nat /\ topics \in Seq(TopicRecord)
      /\ stats \in [messages : Nat, dropped : Nat] /\ seq + 1 \in Nat
      /\ \A n \in DOMAIN byName : byName[n] \in DOMAIN topics
  BY DEF StoreInv
<1>1. CASE IngestDropped(name)
  <2>1. UNCHANGED <<epoch, seq, byName, topics>>
        /\ stats' = [stats EXCEPT !.dropped = @ + 1]
    BY <1>1 DEF IngestDropped
  <2>2. stats' \in [messages : Nat, dropped : Nat]
    BY <1>0, <2>1, DroppedStats
  <2> QED
    BY <1>0, <2>1, <2>2, TableDomain DEF StoreInv, KeepsSelections
<1>2. CASE IngestNew(name)
  <2> DEFINE new == NewTopic(name)
             t == Recorded(new)
             id == Len(topics) + 1
  <2>1. /\ topics' = Append(topics, t) /\ seq' = seq + 1 /\ epoch' = epoch
        /\ DOMAIN byName' = DOMAIN byName \cup {name}
        /\ byName'[name] = id
        /\ \A n \in DOMAIN byName : n # name => byName'[n] = byName[n]
        /\ stats' = [stats EXCEPT !.messages = @ + 1]
    BY <1>2 DEF IngestNew
  <2>2. new \in TopicRecord /\ new.selected = 0 /\ new.hist = NoRing
    BY NewTopicType
  <2> HIDE DEF new
  <2>3. t \in TopicRecord /\ t.selected = 0 /\ t.hist = NoRing
    BY <1>0, <2>2, RecordedType
  <2> HIDE DEF t
  <2>4. /\ topics' \in Seq(TopicRecord) /\ Len(topics') = Len(topics) + 1
        /\ DOMAIN topics' = DOMAIN topics \cup {id} /\ topics'[id] = t
        /\ id \notin DOMAIN topics
        /\ \A i \in DOMAIN topics : topics'[i] = topics[i]
    BY <1>0, <2>1, <2>3
  <2>5. stats' \in [messages : Nat, dropped : Nat]
    BY <1>0, <2>1, MessageStats
  <2>6. Len(topics') >= Len(topics)
    BY <1>0, <2>4, TableDomain
  <2> HIDE DEF id
  <2>7. KeepsSelections
    BY <2>3, <2>4 DEF KeepsSelections
  <2>8. StoreInv'
    BY <1>0, <2>1, <2>4, <2>5 DEF StoreInv
  <2> QED
    BY <2>1, <2>6, <2>7, <2>8
<1>3. CASE IngestKnown(name)
  <2> DEFINE id == byName[name]
             t == Recorded(topics[id])
  <2>1. /\ topics' = [topics EXCEPT ![id] = t] /\ seq' = seq + 1
        /\ UNCHANGED <<epoch, byName>> /\ name \in DOMAIN byName
        /\ stats' = [stats EXCEPT !.messages = @ + 1]
    BY <1>3 DEF IngestKnown
  <2>2. id \in DOMAIN topics /\ topics[id] \in TopicRecord
    BY <1>0, <2>1
  <2>3. /\ t \in TopicRecord /\ t.selected = topics[id].selected
        /\ t.hist = IF topics[id].hist = NoRing THEN NoRing
                    ELSE Push(topics[id].hist, HistorySize, Increment(topics[id].count))
    BY <1>0, <2>2, RecordedType
  <2>4. t.hist = NoRing <=> topics[id].hist = NoRing
    <3>1. CASE topics[id].hist # NoRing
      <4>1. /\ topics[id].hist \in RingOf(HistorySize, MessageNumbers)
            /\ Increment(topics[id].count) \in MessageNumbers
        BY <2>2, <3>1, TopicFields, IncrementType DEF Histories
      <4> QED
        BY <2>3, <3>1, <4>1, PushType, RingFields
    <3> QED
      BY <2>3, <3>1
  <2> HIDE DEF t, id
  <2>5. /\ topics' \in Seq(TopicRecord) /\ DOMAIN topics' = DOMAIN topics
        /\ Len(topics') = Len(topics) /\ topics'[id] = t
        /\ \A i \in DOMAIN topics : i # id => topics'[i] = topics[i]
    BY <1>0, <2>1, <2>2, <2>3
  <2>6. stats' \in [messages : Nat, dropped : Nat]
    BY <1>0, <2>1, MessageStats
  <2>7. KeepsSelections
    BY <2>3, <2>4, <2>5 DEF KeepsSelections
  <2>8. StoreInv'
    BY <1>0, <2>1, <2>5, <2>6 DEF StoreInv
  <2> QED
    BY <1>0, <2>1, <2>5, <2>7, <2>8, TableDomain
<1> QED
  BY <1>1, <1>2, <1>3 DEF Ingest

(* A reset leaves no topic, and no reader's cursor can be of the new epoch. *)
LEMMA ResetTable ==
  ASSUME StoreInv, Reset
  PROVE  StoreInv' /\ epoch' = epoch + 1 /\ topics' = <<>>
BY DEF StoreInv, Reset

(* A step that changes selections only. *)
LEMMA SelectionTable ==
  ASSUME StoreInv, SameTopics(topics', topics), UNCHANGED <<epoch, seq, byName, stats>>
  PROVE  StoreInv'
BY DEF StoreInv, SameTopics

(* The names an update ends with: no fewer than the reader has, no more than *)
(* there are, and at least one more while some are missing.                  *)
LEMMA NamesEndRange ==
  ASSUME topics \in Seq(TopicRecord), NEW known \in 0..Len(topics)
  PROVE  /\ NamesEnd(known) \in known..Len(topics)
         /\ known < Len(topics) => known < NamesEnd(known)
<1>1. Len(topics) \in Nat
  BY TableDomain
<1> QED
  BY <1>1, StoreAssumption DEF NamesEnd
=============================================================================
