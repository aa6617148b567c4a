---------------------------- MODULE Browse_proofs ----------------------------
(***************************************************************************)
(* Proofs about the left side of the page, for any topics, any texts and   *)
(* cells in the filter, and any length of the history: the value box shows *)
(* the message it should and flashes for newer ones only; the marks of a   *)
(* filter are those of the matching topics; the cached rows are fresh; a   *)
(* filter finds every folder open; the totals are the sums of the topics;  *)
(* the topics that match can be compared.                                  *)
(***************************************************************************)
EXTENDS Browse, FiniteSetTheorems, SequenceTheorems, WellFoundedInduction, TLAPS

(* A batch is the numbers above one, up to and including another, in order. *)
Batch(from, to) == [i \in 1..(to - from) |-> from + i]

LEMMA SameCardinality == \A S : M!Cardinality(S) = Cardinality(S)
BY DEF M!Cardinality, Cardinality

LEMMA ElementsAtInterval ==
  ASSUME NEW s, NEW a \in Int, NEW b \in Int
  PROVE  M!ElementsAt(s, a..b) =
           [k \in 1..(IF a > b THEN 0 ELSE b - a + 1) |-> s[a + k - 1]]
<1> DEFINE size == IF a > b THEN 0 ELSE b - a + 1
           Earlier(i) == {j \in a..b : j < i}
           Index(k) == CHOOSE i \in a..b : M!Cardinality(Earlier(i)) = k - 1
<1>1. M!ElementsAt(s, a..b) = [k \in 1..M!Cardinality(a..b) |-> s[Index(k)]]
  BY DEF M!ElementsAt
<1>2. M!Cardinality(a..b) = size
  BY FS_Interval, SameCardinality
<1>3. ASSUME NEW i \in a..b
      PROVE  M!Cardinality(Earlier(i)) = i - a
  <2>1. Earlier(i) = a..(i - 1)
    OBVIOUS
  <2>2. M!Cardinality(a..(i - 1)) = IF a > i - 1 THEN 0 ELSE (i - 1) - a + 1
    BY FS_Interval, SameCardinality
  <2> HIDE DEF Earlier
  <2> QED
    BY <2>1, <2>2
<1> HIDE DEF Earlier
<1>4. ASSUME NEW k \in 1..size
      PROVE  Index(k) = a + k - 1
  <2>1. a + k - 1 \in a..b
    OBVIOUS
  <2>2. \A i \in a..b : M!Cardinality(Earlier(i)) = k - 1 <=> i = a + k - 1
    BY <1>3
  <2>3. Index(k) \in a..b /\ M!Cardinality(Earlier(Index(k))) = k - 1
    BY <2>1, <2>2, Zenon
  <2> HIDE DEF Index
  <2> QED
    BY <2>2, <2>3
<1> HIDE DEF Index
<1> QED
  BY <1>1, <1>2, <1>4

(* What is above a number in a batch is the rest of the batch, or nothing. *)
LEMMA AboveBatch ==
  ASSUME NEW a \in Nat, NEW b \in Nat, NEW n \in Nat
  PROVE  \E c \in Nat : c >= n /\ c >= a /\ M!Above(Batch(a, b), n) = Batch(c, b)
<1> DEFINE c == IF n > a THEN n ELSE a
           lo == c - a + 1
<1>1. c \in Nat /\ c >= n /\ c >= a /\ lo \in Int
  OBVIOUS
<1>2. {i \in DOMAIN Batch(a, b) : Batch(a, b)[i] > n} = lo..(b - a)
  BY DEF Batch
<1>3. M!ElementsAt(Batch(a, b), lo..(b - a)) =
        [k \in 1..(IF lo > b - a THEN 0 ELSE b - a - lo + 1) |-> Batch(a, b)[lo + k - 1]]
  BY ElementsAtInterval
<1>4. M!Above(Batch(a, b), n) =
        [k \in 1..(IF lo > b - a THEN 0 ELSE b - a - lo + 1) |-> Batch(a, b)[lo + k - 1]]
  BY <1>2, <1>3 DEF M!Above
<1>5. 1..(IF lo > b - a THEN 0 ELSE b - a - lo + 1) = 1..(b - c)
  OBVIOUS
<1>6. \A k \in 1..(b - c) : Batch(a, b)[lo + k - 1] = c + k
  BY DEF Batch
<1>7. M!Above(Batch(a, b), n) = [k \in 1..(b - c) |-> c + k]
  BY <1>4, <1>5, <1>6
<1> HIDE DEF c, lo
<1> QED
  BY <1>1, <1>7 DEF Batch

-----------------------------------------------------------------------------
(* A list of message numbers, none above its last one. *)
IsHistory(h) ==
  /\ h \in Seq(Nat \ {0})
  /\ \A i \in 1..Len(h) : h[i] <= h[Len(h)]

(* The end of a history is one, and ends with the same message. *)
LEMMA EndOfHistory ==
  ASSUME NEW h, IsHistory(h), h # <<>>, NEW max \in Nat \ {0}
  PROVE  /\ IsHistory(M!LastElements(h, max))
         /\ M!LastElements(h, max) # <<>>
         /\ Last(M!LastElements(h, max)) = Last(h)
<1> DEFINE u == SubSeq(h, Len(h) - max + 1, Len(h))
<1>1. CASE Len(h) <= max
  BY <1>1 DEF M!LastElements
<1>2. CASE ~(Len(h) <= max)
  <2>1. Len(h) \in Nat /\ Len(h) > max
    BY <1>2 DEF IsHistory
  <2>2. u = [i \in 1..max |-> h[Len(h) - max + i]]
    <3>1. u = [i \in 1..(Len(h) - (Len(h) - max + 1) + 1) |-> h[Len(h) - max + 1 + i - 1]]
      BY <2>1
    <3>2. Len(h) - (Len(h) - max + 1) + 1 = max
      BY <2>1
    <3>3. \A i \in 1..max : Len(h) - max + 1 + i - 1 = Len(h) - max + i
      BY <2>1
    <3> HIDE DEF u
    <3> QED
      BY <3>1, <3>2, <3>3
  <2> HIDE DEF u
  <2>3. \A i \in 1..max : Len(h) - max + i \in 1..Len(h)
    BY <2>1
  <2>4. \A i \in 1..max : h[Len(h) - max + i] \in Nat \ {0} /\ h[Len(h) - max + i] <= h[Len(h)]
    BY <2>3 DEF IsHistory
  <2>5. u \in Seq(Nat \ {0}) /\ Len(u) = max
    BY <2>2, <2>4
  <2>6. u[max] = h[Len(h)]
    <3>1. Len(h) - max + max = Len(h)
      BY <2>1
    <3> QED
      BY <2>2, <3>1
  <2>7. IsHistory(u) /\ u # <<>> /\ Last(u) = Last(h)
    BY <2>2, <2>4, <2>5, <2>6 DEF IsHistory, Last
  <2> QED
    BY <1>2, <2>7 DEF M!LastElements, u
<1> QED
  BY <1>1, <1>2

(***************************************************************************)
(* A history stays one when a batch is added to it, and its last message   *)
(* never gets older (app.js:510-537).                                      *)
(***************************************************************************)
LEMMA AppendBatch ==
  ASSUME NEW h, IsHistory(h), NEW a \in Nat, NEW b \in Nat, a < b, NEW max \in Nat \ {0}
  PROVE  LET r == M!AppendHistory(h, Batch(a, b), max)
         IN  /\ IsHistory(r) /\ r # <<>>
             /\ h # <<>> => Last(h) <= Last(r)
<1> DEFINE new == M!NewEntries(h, Batch(a, b))
           all == h \o new
<1>1. PICK c \in Nat : /\ new = Batch(c, b)
                       /\ h # <<>> => Last(h) <= c
                       /\ h = <<>> => c = a
  <2>1. CASE h = <<>>
    BY <2>1 DEF M!NewEntries
  <2>2. CASE h # <<>>
    <3>1. PICK n \in Nat : n = h[Len(h)]
      BY <2>2 DEF IsHistory
    <3>2. PICK c \in Nat : c >= n /\ c >= a /\ M!Above(Batch(a, b), n) = Batch(c, b)
      BY <3>1, AboveBatch
    <3> QED
      BY <2>2, <3>1, <3>2 DEF M!NewEntries, Last
  <2> QED
    BY <2>1, <2>2
<1> HIDE DEF new
<1>2. new \in Seq(Nat \ {0}) /\ Len(new) = (IF b > c THEN b - c ELSE 0)
      /\ \A i \in 1..Len(new) : new[i] = c + i
  <2>1. Batch(c, b) \in [1..(b - c) -> Nat \ {0}]
    BY DEF Batch
  <2> DEFINE k == IF b > c THEN b - c ELSE 0
  <2>2. k \in Nat /\ 1..(b - c) = 1..k
    OBVIOUS
  <2> HIDE DEF k
  <2>3. Batch(c, b) \in [1..k -> Nat \ {0}]
    BY <2>1, <2>2
  <2>4. Batch(c, b) \in Seq(Nat \ {0}) /\ Len(Batch(c, b)) = k
    BY <2>2, <2>3
  <2>5. \A i \in 1..k : Batch(c, b)[i] = c + i
    BY <2>2 DEF Batch
  <2> QED
    BY <1>1, <2>4, <2>5 DEF k
<1>3. h \in Seq(Nat \ {0}) /\ Len(h) \in Nat
  BY DEF IsHistory
<1>4. /\ all \in Seq(Nat \ {0}) /\ Len(all) = Len(h) + Len(new)
      /\ \A i \in 1..Len(h) : all[i] = h[i]
      /\ \A i \in 1..Len(new) : all[Len(h) + i] = new[i]
  <2>1. all \in Seq(Nat \ {0}) /\ Len(all) = Len(h) + Len(new)
    BY <1>2, <1>3, ConcatProperties
  <2>2. \A i \in 1..(Len(h) + Len(new)) : all[i] = IF i <= Len(h) THEN h[i] ELSE new[i - Len(h)]
    BY <1>2, <1>3, ConcatProperties
  <2> HIDE DEF all
  <2>3. \A i \in 1..Len(h) : i \in 1..(Len(h) + Len(new)) /\ i <= Len(h)
    BY <1>2, <1>3
  <2>4. \A i \in 1..Len(new) :
          Len(h) + i \in 1..(Len(h) + Len(new)) /\ ~(Len(h) + i <= Len(h)) /\ (Len(h) + i) - Len(h) = i
    BY <1>2, <1>3
  <2> QED
    BY <2>1, <2>2, <2>3, <2>4
<1> HIDE DEF all
<1>5. IsHistory(all) /\ all # <<>> /\ (h # <<>> => Last(h) <= Last(all))
  <2>1. CASE b > c
    <3>1. Len(new) = b - c /\ Len(all) = Len(h) + (b - c) /\ all[Len(all)] = b
      BY <1>2, <1>4, <2>1
    <3>2. ASSUME NEW i \in 1..Len(all)
          PROVE  all[i] <= b
      <4>1. CASE i \in 1..Len(h)
        <5>1. h # <<>> /\ h[i] <= Last(h) /\ h[i] \in Nat /\ Last(h) \in Nat
          BY <4>1, <1>3 DEF IsHistory, Last
        <5>2. Last(h) <= c
          BY <5>1, <1>1
        <5>3. all[i] = h[i]
          BY <4>1, <1>4
        <5> QED
          BY <5>1, <5>2, <5>3, <2>1
      <4>2. CASE i \notin 1..Len(h)
        <5>1. i - Len(h) \in 1..Len(new) /\ Len(h) + (i - Len(h)) = i
          BY <4>2, <1>3, <1>4, <3>1
        <5>2. all[i] = c + (i - Len(h))
          BY <5>1, <1>2, <1>4
        <5> QED
          BY <5>1, <5>2, <3>1, <2>1, <1>3
      <4> QED
        BY <4>1, <4>2
    <3>3. all # <<>>
      BY <1>3, <2>1, <3>1
    <3>4. h # <<>> => Last(h) <= b
      <4> SUFFICES ASSUME h # <<>>
                   PROVE  Last(h) <= b
        OBVIOUS
      <4>1. Last(h) \in Nat /\ Last(h) <= c
        BY <1>1, <1>3 DEF Last
      <4> QED
        BY <4>1, <2>1
    <3> QED
      BY <1>4, <3>1, <3>2, <3>3, <3>4 DEF IsHistory, Last
  <2>2. CASE ~(b > c)
    <3>1. Len(new) = 0
      BY <1>2, <2>2
    <3>2. h # <<>>
      BY <1>1, <2>2
    <3>3. Len(all) = Len(h) /\ \A i \in 1..Len(h) : all[i] = h[i]
      BY <1>3, <1>4, <3>1
    <3>4. Len(h) >= 1
      BY <1>3, <3>2
    <3>5. all # <<>>
      BY <3>3, <3>4, <1>4
    <3>6. Last(all) = Last(h) /\ Last(h) \in Nat
      BY <1>3, <3>3, <3>4 DEF Last
    <3>7. IsHistory(all)
      BY <1>3, <1>4, <3>3, <3>4 DEF IsHistory
    <3> QED
      BY <3>5, <3>6, <3>7
  <2> QED
    BY <2>1, <2>2
<1>6. M!AppendHistory(h, Batch(a, b), max) = M!LastElements(all, max)
  BY DEF M!AppendHistory, all, new
<1>7. /\ IsHistory(M!LastElements(all, max)) /\ M!LastElements(all, max) # <<>>
      /\ Last(M!LastElements(all, max)) = Last(all)
  BY <1>5, EndOfHistory
<1> QED
  BY <1>5, <1>6, <1>7

-----------------------------------------------------------------------------
(***************************************************************************)
(* The selected topic and its history (app.js:510-608).  What the box      *)
(* shows is a message of the selected topic that is not newer than the     *)
(* latest one, and when no frame is due it is the right one.  shownN is    *)
(* NoMessage when the box has to be drawn anew.                            *)
(***************************************************************************)
Due(dt) == IF dt.pinnedN # NoMessage THEN dt.pinnedN ELSE Last(dt.history)

DetailInv(dt) ==
  /\ dt = [selected |-> dt.selected, history |-> dt.history, pinnedN |-> dt.pinnedN,
           shownN |-> dt.shownN, box |-> dt.box, flash |-> dt.flash]
  /\ IsHistory(dt.history)
  /\ dt.history # <<>> => dt.selected # NoId
  /\ dt.pinnedN # NoMessage => \E i \in 1..Len(dt.history) : dt.history[i] = dt.pinnedN
  /\ dt.shownN # NoMessage =>
       /\ dt.history # <<>>
       /\ dt.shownN \in Nat /\ dt.shownN <= Last(dt.history)
       /\ dt.box = <<dt.selected, dt.shownN>>

BoxInv ==
  /\ DetailInv(d)
  /\ ~queued /\ d.history # <<>> => d.shownN = Due(d)

(* What is due is a message of the history. *)
LEMMA DueIsThere ==
  ASSUME NEW dt, DetailInv(dt), dt.history # <<>>
  PROVE  /\ Last(dt.history) \in Nat \ {0}
         /\ Due(dt) \in Nat \ {0}
         /\ Due(dt) <= Last(dt.history)
<1> DEFINE h == dt.history
<1>1. IsHistory(h) /\ h # <<>>
  BY DEF DetailInv
<1>2. Last(h) \in Nat \ {0} /\ \A i \in 1..Len(h) : h[i] \in Nat \ {0} /\ h[i] <= Last(h)
  BY <1>1 DEF IsHistory, Last
<1>3. dt.pinnedN # NoMessage => \E i \in 1..Len(h) : h[i] = dt.pinnedN
  BY DEF DetailInv
<1> HIDE DEF h
<1> QED
  BY <1>2, <1>3 DEF Due, h

LEMMA NoDetailInv ==
  ASSUME NEW id
  PROVE  DetailInv([NoDetail EXCEPT !.selected = id]) /\ DetailInv(NoDetail)
<1>1. IsHistory(<<>>)
  BY EmptySeq DEF IsHistory
<1>2. PICK dt : dt = [NoDetail EXCEPT !.selected = id]
  OBVIOUS
<1>3. dt = [selected |-> id, history |-> <<>>, pinnedN |-> NoMessage, shownN |-> NoMessage,
            box |-> <<NoId, NoMessage>>, flash |-> FALSE]
  BY <1>2 DEF NoDetail
<1>4. DetailInv(dt)
  BY <1>1, <1>3 DEF DetailInv
<1>5. PICK none : none = NoDetail
  OBVIOUS
<1>6. DetailInv(none)
  BY <1>1, <1>5 DEF DetailInv, NoDetail
<1> QED
  BY <1>2, <1>4, <1>5, <1>6

LEMMA SelectKeeps ==
  ASSUME NEW dt, DetailInv(dt), NEW id
  PROVE  DetailInv(Select(dt, id))
BY NoDetailInv DEF Select

(* Messages come. *)
LEMMA AppendKeeps ==
  ASSUME DetailInv(d), d.selected # NoId, NEW a \in Nat, NEW b \in Nat, a < b
  PROVE  DetailInv(AppendMessages(Batch(a, b)))
<1>1. PICK h : h = d.history
  OBVIOUS
<1>2. IsHistory(h) /\ HistoryMax \in Nat \ {0}
  BY <1>1, BrowseAssumption DEF DetailInv
<1>3. PICK shown : shown = M!AppendHistory(h, Batch(a, b), HistoryMax)
  OBVIOUS
<1>4. /\ IsHistory(shown) /\ shown # <<>>
      /\ h # <<>> => Last(h) <= Last(shown)
  BY <1>2, <1>3, AppendBatch
<1>5. PICK pin : pin = IF \E i \in DOMAIN shown : shown[i] = d.pinnedN THEN d.pinnedN ELSE NoMessage
  OBVIOUS
<1>6. AppendMessages(Batch(a, b)) = [d EXCEPT !.history = shown, !.pinnedN = pin]
  BY <1>1, <1>3, <1>5 DEF AppendMessages
<1>7. DOMAIN shown = 1..Len(shown)
  BY <1>4, LenProperties DEF IsHistory
<1>8. pin # NoMessage => \E i \in 1..Len(shown) : shown[i] = pin
  BY <1>5, <1>7
<1>9. d.shownN # NoMessage =>
        d.shownN \in Nat /\ d.shownN <= Last(shown) /\ d.box = <<d.selected, d.shownN>>
  <2> SUFFICES ASSUME d.shownN # NoMessage
               PROVE  d.shownN \in Nat /\ d.shownN <= Last(shown) /\ d.box = <<d.selected, d.shownN>>
    OBVIOUS
  <2>1. /\ h # <<>> /\ d.shownN \in Nat /\ d.shownN <= Last(h)
        /\ d.box = <<d.selected, d.shownN>>
    BY <1>1 DEF DetailInv
  <2>2. Last(h) \in Nat /\ Last(shown) \in Nat
    BY <1>2, <1>4, <2>1 DEF IsHistory, Last
  <2> QED
    BY <1>4, <2>1, <2>2
<1>10. PICK dt : dt = [d EXCEPT !.history = shown, !.pinnedN = pin]
  OBVIOUS
<1>11. d = [selected |-> d.selected, history |-> d.history, pinnedN |-> d.pinnedN,
            shownN |-> d.shownN, box |-> d.box, flash |-> d.flash]
  BY DEF DetailInv
<1>12. dt = [selected |-> d.selected, history |-> shown, pinnedN |-> pin,
             shownN |-> d.shownN, box |-> d.box, flash |-> d.flash]
  BY <1>10, <1>11
<1>13. DetailInv(dt)
  BY <1>4, <1>8, <1>9, <1>12 DEF DetailInv
<1> QED
  BY <1>6, <1>10, <1>13

(* The box is drawn: it shows what is due, and flashes for a newer message. *)
LEMMA RenderKeeps ==
  ASSUME NEW dt, DetailInv(dt)
  PROVE  LET new == RenderDetail(dt)
         IN  /\ DetailInv(new)
             /\ new.history = dt.history /\ new.selected = dt.selected /\ new.pinnedN = dt.pinnedN
             /\ dt.history # <<>> => new.shownN = Due(dt)
             /\ new.flash => /\ new.box[1] = dt.box[1] /\ new.box[2] > dt.box[2]
<1>1. PICK n : n = Due(dt)
  OBVIOUS
<1>2. dt = [selected |-> dt.selected, history |-> dt.history, pinnedN |-> dt.pinnedN,
            shownN |-> dt.shownN, box |-> dt.box, flash |-> dt.flash]
  BY DEF DetailInv
<1>3. CASE dt.selected = NoId \/ dt.history = <<>> \/ n = dt.shownN
  <2>1. PICK new : new = [dt EXCEPT !.flash = FALSE]
    OBVIOUS
  <2>2. new = RenderDetail(dt)
    BY <1>1, <1>3, <2>1 DEF RenderDetail, Due
  <2>3. /\ new.selected = dt.selected /\ new.history = dt.history /\ new.pinnedN = dt.pinnedN
        /\ new.shownN = dt.shownN /\ new.box = dt.box /\ new.flash = FALSE
        /\ new = [selected |-> new.selected, history |-> new.history, pinnedN |-> new.pinnedN,
                  shownN |-> new.shownN, box |-> new.box, flash |-> new.flash]
    BY <1>2, <2>1
  <2>4. DetailInv(new)
    BY <2>3 DEF DetailInv
  <2>5. dt.history # <<>> => new.shownN = Due(dt)
    BY <1>1, <1>3, <2>3 DEF DetailInv
  <2> QED
    BY <2>2, <2>3, <2>4, <2>5
<1>4. CASE ~(dt.selected = NoId \/ dt.history = <<>> \/ n = dt.shownN)
  <2>1. PICK new : new = [dt EXCEPT !.shownN = n, !.box = <<dt.selected, n>>,
                                    !.flash = dt.shownN # NoMessage /\ dt.pinnedN = NoMessage]
    OBVIOUS
  <2>2. new = RenderDetail(dt)
    BY <1>1, <1>4, <2>1 DEF RenderDetail, Due
  <2>3. /\ new.selected = dt.selected /\ new.history = dt.history /\ new.pinnedN = dt.pinnedN
        /\ new.shownN = n /\ new.box = <<dt.selected, n>>
        /\ new.flash => dt.shownN # NoMessage /\ dt.pinnedN = NoMessage
        /\ new = [selected |-> new.selected, history |-> new.history, pinnedN |-> new.pinnedN,
                  shownN |-> new.shownN, box |-> new.box, flash |-> new.flash]
    BY <1>2, <2>1
  <2>4. n \in Nat \ {0} /\ n <= Last(dt.history) /\ Last(dt.history) \in Nat
    BY <1>1, <1>4, DueIsThere
  <2>5. DetailInv(new)
    BY <1>4, <2>3, <2>4 DEF DetailInv
  <2>6. new.flash => /\ new.box[1] = dt.box[1] /\ new.box[2] > dt.box[2]
    <3> SUFFICES ASSUME new.flash
                 PROVE  new.box[1] = dt.box[1] /\ new.box[2] > dt.box[2]
      OBVIOUS
    <3>1. dt.shownN # NoMessage /\ dt.pinnedN = NoMessage
      BY <2>3
    <3>2. n = Last(dt.history)
      BY <1>1, <3>1 DEF Due
    <3>3. dt.shownN \in Nat /\ dt.shownN <= Last(dt.history) /\ dt.box = <<dt.selected, dt.shownN>>
      BY <3>1 DEF DetailInv
    <3>4. dt.shownN < n
      BY <1>4, <2>4, <3>2, <3>3
    <3> QED
      BY <2>3, <2>4, <3>3, <3>4
  <2> QED
    BY <1>1, <2>2, <2>3, <2>5, <2>6
<1> QED
  BY <1>3, <1>4

-----------------------------------------------------------------------------
(***************************************************************************)
(* What a step does to the selected topic: nothing, and if a frame was due *)
(* it still is; a selection; a pin set or taken back; messages; a reset;   *)
(* or the frame that draws it.                                             *)
(***************************************************************************)
DetailStep ==
  \/ d' = d /\ (queued' = queued \/ queued' = TRUE)
  \/ queued' = TRUE /\ \E id : d' = Select(d, id) \/ d' = [NoDetail EXCEPT !.selected = id]
  \/ queued' = TRUE /\ \E n \in ToSet(d.history) \cup {NoMessage} :
                         d' = [d EXCEPT !.pinnedN = n, !.shownN = NoMessage]
  \/ queued' = TRUE /\ d.selected # NoId
       /\ \E a, b \in Nat : a < b /\ d' = AppendMessages(Batch(a, b))
  \/ queued' = TRUE /\ d' = NoDetail
  \/ d' = RenderDetail(d)

(* Keys leave the selection alone or select what they hit. *)
LEMMA GoToStep ==
  ASSUME NEW tree, NEW i, GoTo(tree, i, d)
  PROVE  DetailStep
<1> DEFINE rows == Rows(t)
<1>1. CASE i \notin DOMAIN rows
  BY <1>1 DEF GoTo, InTree, DetailStep
<1>2. CASE i \in DOMAIN rows
  <2>1. PICK id : id = t.nodes[rows[i]].id
    OBVIOUS
  <2>2. queued' = TRUE /\ d' = IF id = NoId THEN d ELSE Select(d, id)
    BY <1>2, <2>1 DEF GoTo, InTree
  <2> QED
    BY <2>2 DEF DetailStep
<1> QED
  BY <1>1, <1>2

LEMMA UserStep ==
  ASSUME User
  PROVE  DetailStep
<1>1. ASSUME NEW p \in ToSet(drawn), NEW onChevron \in BOOLEAN, Click(p, onChevron)
      PROVE  DetailStep
  <2>1. PICK id : id = t.nodes[p].id
    OBVIOUS
  <2>2. queued' = TRUE /\ (d' = d \/ d' = Select(d, id))
    BY <1>1, <2>1 DEF Click, InTree
  <2> QED
    BY <2>2 DEF DetailStep
<1>2. ASSUME NEW key \in MoveKeys, Move(key)
      PROVE  DetailStep
  BY <1>2, GoToStep DEF Move
<1>3. ArrowRight \/ ArrowLeft => DetailStep
  BY GoToStep DEF ArrowRight, ArrowLeft
<1>4. CASE Enter
  <2>1. PICK id : id = t.nodes[cursor].id
    OBVIOUS
  <2>2. PICK i : i = RowOf(cursor)
    OBVIOUS
  <2>3. CASE id = NoId
    <3>1. GoTo(Turn(cursor), i, d)
      BY <1>4, <2>1, <2>2, <2>3 DEF Enter
    <3> QED
      BY <3>1, GoToStep
  <2>4. CASE id # NoId
    <3>1. GoTo(WithRows(t), i, Select(d, id))
      BY <1>4, <2>1, <2>2, <2>4 DEF Enter
    <3>2. queued' = TRUE
      BY <3>1 DEF GoTo, InTree
    <3>3. d' = Select(d, id) \/ \E other : d' = Select(Select(d, id), other)
      BY <3>1 DEF GoTo, InTree
    <3>4. \A other : Select(Select(d, id), other) = [NoDetail EXCEPT !.selected = other] \/
                     Select(Select(d, id), other) = Select(d, id)
      BY DEF Select
    <3> QED
      BY <3>2, <3>3, <3>4 DEF DetailStep
  <2> QED
    BY <2>3, <2>4
<1>5. Pin \/ BackToLive => DetailStep
  BY DEF Pin, BackToLive, Shows, DetailStep
<1>6. Type => DetailStep
  BY DEF Type, Edits, DetailStep
<1>7. ASSUME NEW cells \in Clips, NEW at \in 0..Len(text), Paste(cells, at)
      PROVE  DetailStep
  BY <1>7 DEF Paste, Edits, DetailStep
<1>8. FilterCompare => DetailStep
  BY DEF FilterCompare, DetailStep
<1>9. ASSUME NEW id \in DOMAIN t.byId, ToggleCompare(t.byId[id])
      PROVE  DetailStep
  BY <1>9 DEF ToggleCompare, DetailStep
<1> QED
  BY <1>1, <1>2, <1>3, <1>4, <1>5, <1>6, <1>7, <1>8, <1>9 DEF User

LEMMA StepOfDetail == [Next]_vars => DetailStep
<1>1. ASSUME NEW n \in 1..2, NEW paths \in [1..n -> Paths], Names(paths)
      PROVE  DetailStep
  BY <1>1 DEF Names, DetailStep
<1>2. ASSUME NEW id \in DOMAIN t.byId, NEW count \in 1..MaxCount, Counts(id, count)
      PROVE  DetailStep
  BY <1>2 DEF Counts, DetailStep
<1>3. ASSUME NEW first \in 1..MaxCount, NEW last \in 1..MaxCount, first <= last,
             History([i \in 1..(last - first + 1) |-> first + i - 1])
      PROVE  DetailStep
  <2>1. first - 1 \in Nat /\ last \in Nat /\ first - 1 < last
    BY <1>3, BrowseAssumption
  <2>2. [i \in 1..(last - first + 1) |-> first + i - 1] = Batch(first - 1, last)
    <3>1. last - first + 1 = last - (first - 1)
      BY <1>3, BrowseAssumption
    <3>2. \A i \in 1..(last - (first - 1)) : first + i - 1 = (first - 1) + i
      BY <1>3, BrowseAssumption
    <3> QED
      BY <3>1, <3>2 DEF Batch
  <2>3. queued' = TRUE /\ d.selected # NoId /\ d' = AppendMessages(Batch(first - 1, last))
    BY <1>3, <2>2 DEF History
  <2> QED
    BY <2>1, <2>3 DEF DetailStep
<1>4. ResetClient \/ Frame \/ ApplyFilter => DetailStep
  BY DEF ResetClient, Frame, ApplyFilter, DetailStep
<1>5. UNCHANGED vars => DetailStep
  BY DEF vars, DetailStep
<1> QED
  BY <1>1, <1>2, <1>3, <1>4, <1>5, UserStep DEF Next, Tick

(***************************************************************************)
(* The box's invariant holds after every step.                             *)
(***************************************************************************)
LEMMA BoxStep == BoxInv /\ [Next]_vars => BoxInv'
<1> SUFFICES ASSUME BoxInv, [Next]_vars
             PROVE  BoxInv'
  OBVIOUS
<1>1. DetailStep /\ DetailInv(d)
  BY StepOfDetail DEF BoxInv
<1>2. DetailInv(d')
  <2>1. CASE \E id : d' = Select(d, id) \/ d' = [NoDetail EXCEPT !.selected = id]
    BY <1>1, <2>1, SelectKeeps, NoDetailInv
  <2>2. ASSUME NEW n \in ToSet(d.history) \cup {NoMessage},
               d' = [d EXCEPT !.pinnedN = n, !.shownN = NoMessage]
        PROVE  DetailInv(d')
    <3>1. n # NoMessage => \E i \in 1..Len(d.history) : d.history[i] = n
      BY <1>1, LenProperties DEF ToSet, DetailInv, IsHistory
    <3>2. d = [selected |-> d.selected, history |-> d.history, pinnedN |-> d.pinnedN,
               shownN |-> d.shownN, box |-> d.box, flash |-> d.flash]
      BY <1>1 DEF DetailInv
    <3>3. d' = [selected |-> d.selected, history |-> d.history, pinnedN |-> n,
                shownN |-> NoMessage, box |-> d.box, flash |-> d.flash]
      BY <2>2, <3>2
    <3> QED
      BY <1>1, <3>1, <3>3 DEF DetailInv
  <2>3. ASSUME d.selected # NoId, NEW a \in Nat, NEW b \in Nat, a < b,
               d' = AppendMessages(Batch(a, b))
        PROVE  DetailInv(d')
    BY <1>1, <2>3, AppendKeeps
  <2>4. CASE d' = NoDetail
    BY <2>4, NoDetailInv
  <2>5. CASE d' = RenderDetail(d)
    BY <1>1, <2>5, RenderKeeps
  <2>6. CASE d' = d
    BY <1>1, <2>6
  <2> QED
    BY <1>1, <2>1, <2>2, <2>3, <2>4, <2>5, <2>6 DEF DetailStep
<1>3. ~queued' /\ d'.history # <<>> => d'.shownN = Due(d')
  <2> SUFFICES ASSUME ~queued', d'.history # <<>>
               PROVE  d'.shownN = Due(d')
    OBVIOUS
  <2>1. CASE d' = d /\ queued' = queued
    BY <2>1 DEF BoxInv
  <2>2. CASE d' = RenderDetail(d)
    <3>1. PICK new : new = RenderDetail(d)
      OBVIOUS
    <3>2. /\ new.history = d.history /\ new.pinnedN = d.pinnedN
          /\ d.history # <<>> => new.shownN = Due(d)
      BY <1>1, <3>1, RenderKeeps
    <3>3. Due(new) = Due(d)
      BY <3>2 DEF Due
    <3> QED
      BY <2>2, <3>1, <3>2, <3>3
  <2> QED
    BY <1>1, <2>1, <2>2 DEF DetailStep
<1> QED
  BY <1>2, <1>3 DEF BoxInv, Due, DetailInv

LEMMA BoxInit == Init => BoxInv
<1>1. DetailInv(NoDetail)
  BY NoDetailInv
<1> QED
  BY <1>1 DEF Init, BoxInv

(***************************************************************************)
(* The invariant holds in every state.                                     *)
(***************************************************************************)
THEOREM BoxHolds == Spec => []BoxInv
BY BoxInit, BoxStep, PTL DEF Spec

(***************************************************************************)
(* When no frame is due, the box shows the pinned message, or else the     *)
(* latest one, of the selected topic, and a pinned message is one of the   *)
(* history shown (app.js:536, 552-558, 593-608).                           *)
(***************************************************************************)
THEOREM BoxCorrect == Spec => []BoxShowsTheMessage
<1>1. BoxInv => BoxShowsTheMessage
  <2> SUFFICES ASSUME BoxInv, ~queued, d.history # <<>>
               PROVE  /\ d.pinnedN \in {NoMessage} \cup ToSet(d.history)
                      /\ d.box = <<d.selected, Due(d)>>
    BY DEF BoxShowsTheMessage, Due
  <2>1. DetailInv(d) /\ d.shownN = Due(d)
    BY DEF BoxInv
  <2>2. d.shownN # NoMessage
    BY <2>1, DueIsThere DEF NoMessage
  <2>3. d.pinnedN # NoMessage => d.pinnedN \in ToSet(d.history)
    BY <2>1, LenProperties DEF DetailInv, IsHistory, ToSet
  <2> QED
    BY <2>1, <2>2, <2>3 DEF DetailInv
<1> QED
  BY <1>1, BoxHolds, PTL

(***************************************************************************)
(* The value flashes for a newer message of the same topic only            *)
(* (app.js:555-558).                                                       *)
(***************************************************************************)
THEOREM FlashCorrect == Spec => FlashMeansNewer
<1> DEFINE Newer == Frame /\ d'.flash => d'.box[1] = d.box[1] /\ d'.box[2] > d.box[2]
<1>1. BoxInv /\ [Next]_vars => [Newer]_vars
  <2> SUFFICES ASSUME BoxInv, Frame, d'.flash
               PROVE  d'.box[1] = d.box[1] /\ d'.box[2] > d.box[2]
    OBVIOUS
  <2>1. d' = RenderDetail(d) /\ DetailInv(d)
    BY DEF Frame, BoxInv
  <2>2. PICK new : new = RenderDetail(d)
    OBVIOUS
  <2>3. new.flash => new.box[1] = d.box[1] /\ new.box[2] > d.box[2]
    BY <2>1, <2>2, RenderKeeps
  <2> QED
    BY <2>1, <2>2, <2>3
<1> HIDE DEF Newer
<1>2. Spec => [][Newer]_vars
  BY <1>1, BoxHolds, PTL DEF Spec
<1> QED
  BY <1>2 DEF FlashMeansNewer, Newer

-----------------------------------------------------------------------------
(***************************************************************************)
(* Folds over finite sets.  A property that holds of the empty set, and of *)
(* a set as soon as it holds of the set without the element that is picked *)
(* from it, holds of every finite set: the least number of elements of a   *)
(* set without it would not be the least.                                  *)
(***************************************************************************)
Less == {ij \in Nat \X Nat : ij[1] < ij[2]}

LEMMA Least ==
  ASSUME NEW N \in SUBSET Nat, N # {}
  PROVE  \E m \in N : \A n \in N : m <= n
<1>1. IsWellFoundedOn(Less, Nat)
  BY NatLessThanWellFounded DEF OpToRel, Less
<1>2. PICK m \in N : \A n \in N : ~ (<<n, m>> \in Less)
  BY <1>1, WFMin
<1>3. ASSUME NEW n \in N
      PROVE  m <= n
  <2>1. m \in Nat /\ n \in Nat /\ ~ (<<n, m>> \in Less)
    BY <1>2
  <2> QED
    BY <2>1 DEF Less
<1> QED
  BY <1>3

\* How the elements of S are taken: pick[s] is the next one of s.
IsPick(pick, S) == \A s \in SUBSET S : s # {} => pick[s] \in s

LEMMA SetInduction ==
  ASSUME NEW S, IsFiniteSet(S), NEW pick, IsPick(pick, S), NEW T,
         {} \in T, \A s \in SUBSET S : s # {} /\ s \ {pick[s]} \in T => s \in T
  PROVE  \A s \in SUBSET S : s \in T
<1> DEFINE Sizes == {n \in Nat : \E s \in SUBSET S : s \notin T /\ Cardinality(s) = n}
<1> SUFFICES ASSUME NEW r \in SUBSET S, r \notin T
             PROVE  FALSE
  OBVIOUS
<1>1. \A s \in SUBSET S : IsFiniteSet(s) /\ Cardinality(s) \in Nat
  BY FS_Subset, FS_CardinalityType
<1>2. Sizes \in SUBSET Nat /\ Sizes # {}
  BY <1>1
<1>3. PICK m \in Sizes : \A n \in Sizes : m <= n
  BY <1>2, Least
<1>4. PICK s \in SUBSET S : s \notin T /\ Cardinality(s) = m
  OBVIOUS
<1>5. s # {} /\ pick[s] \in s /\ s \ {pick[s]} \in SUBSET S /\ s \ {pick[s]} \notin T
  BY <1>4 DEF IsPick
<1>6. Cardinality(s \ {pick[s]}) = m - 1 /\ m - 1 \in Nat
  <2>1. Cardinality(s \ {pick[s]}) = Cardinality(s) - 1
    BY <1>1, <1>5, FS_RemoveElement
  <2>2. Cardinality(s \ {pick[s]}) \in Nat
    BY <1>1, <1>5
  <2> QED
    BY <1>4, <2>1, <2>2
<1>7. m - 1 \in Sizes
  BY <1>5, <1>6
<1>8. m \in Nat
  OBVIOUS
<1> HIDE DEF Sizes
<1> QED
  BY <1>3, <1>7, <1>8

(* A function that is a fold of g over all subsets of S. *)
IsFold(f, S, pick, base, g) ==
  f = [s \in SUBSET S |-> IF s = {} THEN base ELSE g[<<pick[s], f[s \ {pick[s]}]>>]]

LEMMA FoldExists ==
  ASSUME NEW S, IsFiniteSet(S), NEW pick, IsPick(pick, S), NEW base, NEW g
  PROVE  \E f : IsFold(f, S, pick, base, g)
<1> DEFINE Upto(n) == {s \in SUBSET S : Cardinality(s) <= n}
           Part(f, n) == f = [s \in Upto(n) |-> IF s = {} THEN base
                                                ELSE g[<<pick[s], f[s \ {pick[s]}]>>]]
           None == {n \in Nat : ~ \E f : Part(f, n)}
<1>1. \A s \in SUBSET S : IsFiniteSet(s) /\ Cardinality(s) \in Nat
  BY FS_Subset, FS_CardinalityType
<1>2. ASSUME NEW s \in SUBSET S, s # {}
      PROVE  /\ s \ {pick[s]} \in SUBSET S /\ pick[s] \in s
             /\ Cardinality(s \ {pick[s]}) = Cardinality(s) - 1
  <2>1. pick[s] \in s
    BY <1>2 DEF IsPick
  <2> QED
    BY <1>1, <2>1, FS_RemoveElement
<1>3. None = {}
  <2> SUFFICES ASSUME None # {}
               PROVE  FALSE
    OBVIOUS
  <2>1. PICK m \in None : \A n \in None : m <= n
    <3>1. None \in SUBSET Nat
      OBVIOUS
    <3> HIDE DEF None
    <3> QED
      BY <3>1, Least
  <2>2. m \in Nat /\ ~ \E f : Part(f, m)
    OBVIOUS
  <2>3. CASE m = 0
    <3>1. \A s \in Upto(0) : s = {}
      BY <1>1, FS_EmptySet
    <3>2. PICK f : f = [s \in Upto(0) |-> base]
      OBVIOUS
    <3>3. Part(f, 0)
      BY <3>1, <3>2
    <3> QED
      BY <2>2, <2>3, <3>3
  <2>4. CASE m # 0
    <3>1. m - 1 \in Nat /\ m - 1 \notin None
      <4>1. m \in Nat
        BY <2>2
      <4> HIDE DEF None, Part
      <4> QED
        BY <4>1, <2>1, <2>4
    <3>2. PICK f : Part(f, m - 1)
      BY <3>1
    <3>3. PICK h : h = [s \in Upto(m) |-> IF s \in Upto(m - 1) THEN f[s]
                                         ELSE g[<<pick[s], f[s \ {pick[s]}]>>]]
      OBVIOUS
    <3>4. \A s \in Upto(m - 1) : s \in Upto(m) /\ h[s] = f[s]
      BY <1>1, <2>2, <3>1, <3>3
    <3>5. \A s \in Upto(m) : s # {} => s \ {pick[s]} \in Upto(m - 1)
      BY <1>1, <1>2, <2>2, <3>1
    <3>6. {} \in Upto(m - 1)
      BY <3>1, FS_EmptySet
    <3>7. ASSUME NEW s \in Upto(m)
          PROVE  h[s] = IF s = {} THEN base ELSE g[<<pick[s], h[s \ {pick[s]}]>>]
      <4>1. CASE s \in Upto(m - 1)
        <5>1. h[s] = f[s] /\ f[s] = IF s = {} THEN base ELSE g[<<pick[s], f[s \ {pick[s]}]>>]
          BY <3>2, <3>4, <4>1
        <5>2. s # {} => h[s \ {pick[s]}] = f[s \ {pick[s]}]
          BY <3>4, <3>5
        <5> HIDE DEF Upto, Part, None
        <5> QED
          BY <5>1, <5>2
      <4>2. CASE s \notin Upto(m - 1)
        <5>1. s # {} /\ h[s] = g[<<pick[s], f[s \ {pick[s]}]>>]
          BY <3>3, <3>6, <4>2
        <5>2. h[s \ {pick[s]}] = f[s \ {pick[s]}]
          BY <3>4, <3>5, <5>1
        <5> HIDE DEF Upto, Part, None
        <5> QED
          BY <5>1, <5>2
      <4> QED
        BY <4>1, <4>2
    <3>8. Part(h, m)
      <4>1. h = [s \in Upto(m) |-> h[s]]
        BY <3>3
      <4> HIDE DEF Upto
      <4> QED
        BY <3>7, <4>1
    <3> QED
      BY <2>2, <3>8
  <2> QED
    BY <2>3, <2>4
<1>4. Cardinality(S) \in Nat /\ \A s \in SUBSET S : Cardinality(s) <= Cardinality(S)
  BY FS_Subset, FS_CardinalityType
<1>5. PICK f : Part(f, Cardinality(S))
  BY <1>3, <1>4
<1>6. Upto(Cardinality(S)) = SUBSET S
  BY <1>4
<1> HIDE DEF Upto
<1> QED
  BY <1>5, <1>6 DEF IsFold

-----------------------------------------------------------------------------
(***************************************************************************)
(* Paths.                                                                  *)
(***************************************************************************)
LEMMA PrefixIs ==
  ASSUME NEW S, NEW p \in Seq(S), NEW q \in Seq(S)
  PROVE  IsPrefix(p, q) <=> Len(p) <= Len(q) /\ \A i \in 1..Len(p) : p[i] = q[i]
<1>1. SubSeq(p, 1, Len(p)) = p
  OBVIOUS
<1>2. CASE Len(p) <= Len(q)
  <2>1. Len(p) \in Nat /\ Len(q) \in Nat
    OBVIOUS
  <2>2. SubSeq(q, 1, Len(p)) = [i \in 1..Len(p) |-> q[i]]
    BY <2>1
  <2>3. p = [i \in 1..Len(p) |-> p[i]]
    OBVIOUS
  <2>4. p = SubSeq(q, 1, Len(p)) <=> \A i \in 1..Len(p) : p[i] = q[i]
    BY <2>2, <2>3
  <2> QED
    BY <1>1, <1>2, <2>4 DEF IsPrefix
<1> QED
  BY <1>2 DEF IsPrefix

LEMMA PrefixRefl ==
  ASSUME NEW S, NEW p \in Seq(S)
  PROVE  IsPrefix(p, p)
BY PrefixIs

LEMMA PrefixTrans ==
  ASSUME NEW S, NEW p \in Seq(S), NEW q \in Seq(S), NEW r \in Seq(S),
         IsPrefix(p, q), IsPrefix(q, r)
  PROVE  IsPrefix(p, r)
<1>1. Len(p) <= Len(q) /\ \A i \in 1..Len(p) : p[i] = q[i]
  BY PrefixIs
<1>2. Len(q) <= Len(r) /\ \A i \in 1..Len(q) : q[i] = r[i]
  BY PrefixIs
<1>3. Len(p) \in Nat /\ Len(q) \in Nat /\ Len(r) \in Nat
  OBVIOUS
<1>4. \A i \in 1..Len(p) : i \in 1..Len(q)
  BY <1>1, <1>3
<1>5. Len(p) <= Len(r) /\ \A i \in 1..Len(p) : p[i] = r[i]
  BY <1>1, <1>2, <1>3, <1>4
<1> QED
  BY <1>5, PrefixIs

LEMMA PrefixesAre ==
  ASSUME NEW S, NEW q \in Seq(S)
  PROVE  Prefixes(q) = {p \in Seq(S) : IsPrefix(p, q)}
<1>1. ASSUME NEW l \in 0..Len(q)
      PROVE  SubSeq(q, 1, l) \in Seq(S) /\ IsPrefix(SubSeq(q, 1, l), q)
  <2>1. SubSeq(q, 1, l) = [i \in 1..l |-> q[i]]
    OBVIOUS
  <2>2. l \in Nat /\ l <= Len(q) /\ \A i \in 1..l : q[i] \in S
    OBVIOUS
  <2>3. SubSeq(q, 1, l) \in Seq(S) /\ Len(SubSeq(q, 1, l)) = l
    BY <2>1, <2>2
  <2>4. \A i \in 1..l : SubSeq(q, 1, l)[i] = q[i]
    BY <2>1
  <2> QED
    BY <2>2, <2>3, <2>4, PrefixIs
<1>2. ASSUME NEW p \in Seq(S), IsPrefix(p, q)
      PROVE  p \in Prefixes(q)
  <2>1. p = SubSeq(p, 1, Len(p)) /\ Len(p) \in 0..Len(q)
    BY <1>2 DEF IsPrefix
  <2>2. p = SubSeq(q, 1, Len(p))
    BY <1>2, <2>1 DEF IsPrefix
  <2> QED
    BY <2>1, <2>2 DEF Prefixes
<1> QED
  BY <1>1, <1>2 DEF Prefixes

LEMMA RootIsPrefix ==
  ASSUME NEW S, NEW p \in Seq(S)
  PROVE  Root \in Seq(S) /\ IsPrefix(Root, p)
<1>1. Root \in Seq(S) /\ Len(Root) = 0
  BY DEF Root
<1>2. Len(p) \in Nat /\ Len(Root) <= Len(p) /\ \A i \in 1..Len(Root) : FALSE
  BY <1>1
<1> QED
  BY <1>1, <1>2, PrefixIs

(***************************************************************************)
(* A tree as the functions of module Tree leave it.                        *)
(***************************************************************************)
Nodes ==
  [id : Nat, count : Nat, total : Int, leaves : Int,
   expanded : BOOLEAN, fcollapsed : BOOLEAN, mark : Nat]

TreesOf(nodes, byId, terms, gen, matches, rows) ==
  [nodes : {nodes}, byId : {byId}, terms : {terms}, gen : {gen}, matches : {matches}, rows : {rows}]

Typed(u) ==
  /\ u \in TreesOf(u.nodes, u.byId, u.terms, u.gen, u.matches, u.rows)
  /\ u.gen \in Nat /\ u.matches \in Nat
  /\ DOMAIN u.nodes \subseteq Seq(Segments)
  /\ u.nodes \in [DOMAIN u.nodes -> Nodes]
  /\ u.byId \in [DOMAIN u.byId -> DOMAIN u.nodes]
  /\ IsFiniteSet(DOMAIN u.byId)

Below(u, p) == {id \in DOMAIN u.byId : IsPrefix(p, u.byId[id])}

-----------------------------------------------------------------------------
(***************************************************************************)
(* What the loop over all topics that applies a filter has done when it    *)
(* has been through the ids in s: a node is marked when some matching      *)
(* topic among them is below it.                                           *)
(***************************************************************************)
Begun(u, terms) == [u EXCEPT !.terms = terms, !.gen = @ + 1, !.matches = 0, !.rows = NoRows]

Hits(u, s) == {id \in s : Matches(u, id)}

HitBelow(u, s, p) == \E id \in Hits(u, s) : IsPrefix(p, u.byId[id])

MarkedNode(o, gen) == [o EXCEPT !.mark = gen, !.fcollapsed = FALSE]

LEMMA MarkedNodeIs ==
  ASSUME NEW o \in Nodes, NEW gen \in Nat, NEW v, v = MarkedNode(o, gen)
  PROVE  /\ v \in Nodes /\ v.mark = gen /\ v.fcollapsed = FALSE
         /\ v.id = o.id /\ v.count = o.count /\ v.total = o.total /\ v.leaves = o.leaves
         /\ v.expanded = o.expanded
BY DEF MarkedNode, Nodes

MarkedFor(u, s) ==
  [u EXCEPT !.matches = Cardinality(Hits(u, s)),
            !.nodes = [p \in DOMAIN u.nodes |->
                         IF HitBelow(u, s, p) THEN MarkedNode(u.nodes[p], u.gen) ELSE u.nodes[p]]]

LEMMA MarkedForIs ==
  ASSUME NEW u, Typed(u), NEW s
  PROVE  /\ MarkedFor(u, s).byId = u.byId /\ MarkedFor(u, s).terms = u.terms
         /\ MarkedFor(u, s).gen = u.gen /\ MarkedFor(u, s).rows = u.rows
         /\ MarkedFor(u, s).matches = Cardinality(Hits(u, s))
         /\ DOMAIN MarkedFor(u, s).nodes = DOMAIN u.nodes
         /\ \A p \in DOMAIN u.nodes :
              MarkedFor(u, s).nodes[p] =
                IF HitBelow(u, s, p) THEN MarkedNode(u.nodes[p], u.gen)
                ELSE u.nodes[p]
         /\ \A id : Matches(MarkedFor(u, s), id) <=> Matches(u, id)
<1>1. DOMAIN u = {"nodes", "byId", "terms", "gen", "matches", "rows"}
  BY DEF Typed, TreesOf
<1>2. /\ MarkedFor(u, s).byId = u.byId /\ MarkedFor(u, s).terms = u.terms
      /\ MarkedFor(u, s).gen = u.gen /\ MarkedFor(u, s).rows = u.rows
      /\ MarkedFor(u, s).matches = Cardinality(Hits(u, s))
      /\ MarkedFor(u, s).nodes = 
              [p \in DOMAIN u.nodes |->
                IF HitBelow(u, s, p) THEN MarkedNode(u.nodes[p], u.gen)
                ELSE u.nodes[p]]
  BY <1>1 DEF MarkedFor
<1> QED
  BY <1>2 DEF Matches

LEMMA TreeOfExcept ==
  ASSUME NEW n, NEW b, NEW f, NEW g, NEW k, NEW r, NEW v \in TreesOf(n, b, f, g, k, r), NEW w
  PROVE  [v EXCEPT !.matches = @ + 1, !.nodes = w] \in TreesOf(w, b, f, g, k + 1, r)
BY DEF TreesOf

LEMMA TreeOfFields ==
  ASSUME NEW u, Typed(u), NEW n, NEW k
  PROVE  [u EXCEPT !.matches = k, !.nodes = n] \in TreesOf(n, u.byId, u.terms, u.gen, k, u.rows)
<1>1. PICK nn, bb, ff, gg, kk, rr : u \in TreesOf(nn, bb, ff, gg, kk, rr)
  BY DEF Typed
<1> QED
  BY ONLY <1>1 DEF TreesOf

LEMMA TreeOfOne ==
  ASSUME NEW n, NEW b, NEW f, NEW g, NEW k, NEW r,
         NEW v \in TreesOf(n, b, f, g, k, r), NEW w \in TreesOf(n, b, f, g, k, r)
  PROVE  v = w
BY DEF TreesOf

LEMMA MarkedForTree ==
  ASSUME NEW u, Typed(u), NEW s
  PROVE  MarkedFor(u, s) \in TreesOf(MarkedFor(u, s).nodes, u.byId, u.terms, u.gen,
                                     Cardinality(Hits(u, s)), u.rows)
<1>1. \E n, k : MarkedFor(u, s) = [u EXCEPT !.matches = Cardinality(Hits(u, s)), !.nodes = n]
  BY DEF MarkedFor
<1>2. PICK n : MarkedFor(u, s) = [u EXCEPT !.matches = Cardinality(Hits(u, s)), !.nodes = n]
  BY <1>1
<1>3. MarkedFor(u, s) \in TreesOf(n, u.byId, u.terms, u.gen, Cardinality(Hits(u, s)), u.rows)
  BY <1>2, TreeOfFields
<1>4. MarkedFor(u, s).nodes = n
  BY ONLY <1>3 DEF TreesOf
<1> QED
  BY <1>3, <1>4

LEMMA MarkStep ==
  ASSUME NEW u, Typed(u), \A p \in DOMAIN u.nodes : u.nodes[p].mark # u.gen,
         NEW s \in SUBSET DOMAIN u.byId, NEW x \in s
  PROVE  MarkMatching(MarkedFor(u, s \ {x}), x) = MarkedFor(u, s)
<1> DEFINE v == MarkedFor(u, s \ {x})
           path == u.byId[x]
<1>1. v.byId = u.byId /\ v.terms = u.terms /\ v.gen = u.gen /\ DOMAIN v.nodes = DOMAIN u.nodes
  BY MarkedForIs
<1>2. Matches(v, x) <=> Matches(u, x)
  BY MarkedForIs
<1>3. CASE ~ Matches(u, x)
  <2>1. Hits(u, s) = Hits(u, s \ {x})
    BY <1>3 DEF Hits
  <2>2. \A p : HitBelow(u, s, p) <=> HitBelow(u, s \ {x}, p)
    BY <2>1 DEF HitBelow
  <2>3. MarkedFor(u, s) = v
    BY <2>1, <2>2 DEF MarkedFor
  <2> QED
    BY <1>2, <1>3, <2>3 DEF MarkMatching
<1>4. CASE Matches(u, x)
  <2>1. Hits(u, s) = Hits(u, s \ {x}) \cup {x} /\ x \notin Hits(u, s \ {x})
    BY <1>4 DEF Hits
  <2>2. IsFiniteSet(Hits(u, s \ {x}))
    BY FS_Subset DEF Hits, Typed
  <2>3. Cardinality(Hits(u, s)) = Cardinality(Hits(u, s \ {x})) + 1
    BY <2>1, <2>2, FS_AddElement
  <2>4. \A p : HitBelow(u, s, p) <=> HitBelow(u, s \ {x}, p) \/ IsPrefix(p, path)
    BY <2>1 DEF HitBelow
  <2>5. \A p \in DOMAIN u.nodes : Marked(v, p) <=> HitBelow(u, s \ {x}, p)
    <3> TAKE p \in DOMAIN u.nodes
    <3>1. u.nodes[p] \in Nodes /\ u.nodes[p].mark # u.gen
      BY DEF Typed
    <3>2. v.nodes[p] = IF HitBelow(u, s \ {x}, p)
                       THEN MarkedNode(u.nodes[p], u.gen) ELSE u.nodes[p]
      BY MarkedForIs
    <3>3. u.gen \in Nat
      BY DEF Typed
    <3> HIDE DEF v
    <3> QED
      BY <1>1, <3>1, <3>2, <3>3, MarkedNodeIs DEF Marked
  <2> DEFINE above   == {p \in DOMAIN v.nodes : IsPrefix(p, path)}
             stopped == {p \in above : \E q \in above : IsPrefix(p, q) /\ Marked(v, q)}
             w == [p \in DOMAIN v.nodes |->
                     IF p \in above \ stopped
                     THEN MarkedNode(v.nodes[p], v.gen)
                     ELSE v.nodes[p]]
  <2>6. \A p \in above : p \in stopped <=> HitBelow(u, s \ {x}, p)
    <3> SUFFICES ASSUME NEW p \in above
                 PROVE  p \in stopped <=> HitBelow(u, s \ {x}, p)
      OBVIOUS
    <3>1. p \in DOMAIN u.nodes /\ p \in Seq(Segments) /\ IsPrefix(p, p)
      BY <1>1, PrefixRefl DEF Typed
    <3>2. ASSUME NEW q \in above, IsPrefix(p, q), Marked(v, q)
          PROVE  HitBelow(u, s \ {x}, p)
      <4>1. q \in DOMAIN u.nodes /\ q \in Seq(Segments)
        BY <1>1 DEF Typed
      <4>2. PICK id \in Hits(u, s \ {x}) : IsPrefix(q, u.byId[id])
        BY <2>5, <3>2, <4>1 DEF HitBelow
      <4>3. u.byId[id] \in Seq(Segments)
        BY DEF Hits, Typed
      <4> QED
        BY <3>1, <3>2, <4>1, <4>2, <4>3, PrefixTrans DEF HitBelow
    <3> QED
      BY <2>5, <3>1, <3>2
  <2>7. MarkedFor(u, s).nodes = w
    <3>1. ASSUME NEW p \in DOMAIN u.nodes
          PROVE  w[p] = IF HitBelow(u, s, p) THEN MarkedNode(u.nodes[p], u.gen)
                        ELSE u.nodes[p]
      <4>1. v.nodes[p] = IF HitBelow(u, s \ {x}, p)
                         THEN MarkedNode(u.nodes[p], u.gen) ELSE u.nodes[p]
        BY MarkedForIs
      <4>2. p \in above <=> IsPrefix(p, path)
        BY <1>1
      <4>3. p \in above \ stopped <=> IsPrefix(p, path) /\ ~ HitBelow(u, s \ {x}, p)
        BY <2>6, <4>2
      <4>4. w[p] = IF p \in above \ stopped
                   THEN MarkedNode(v.nodes[p], u.gen) ELSE v.nodes[p]
        BY <1>1
      <4> HIDE DEF v, above, stopped, w, path
      <4> QED
        BY <2>4, <4>1, <4>3, <4>4
    <3>2. MarkedFor(u, s).nodes =
            [p \in DOMAIN u.nodes |->
                IF HitBelow(u, s, p) THEN MarkedNode(u.nodes[p], u.gen)
                ELSE u.nodes[p]]
      BY DEF MarkedFor, Typed
    <3>3. w = [p \in DOMAIN u.nodes |-> w[p]]
      BY <1>1
    <3> HIDE DEF w
    <3> QED
      BY <3>1, <3>2, <3>3
  <2>8. MarkMatching(v, x) = [v EXCEPT !.matches = @ + 1, !.nodes = w]
    BY <1>1, <1>2, <1>4 DEF MarkMatching, Mark, MarkedNode
  <2>9. /\ v \in TreesOf(v.nodes, u.byId, u.terms, u.gen, Cardinality(Hits(u, s \ {x})), u.rows)
        /\ MarkedFor(u, s) \in TreesOf(MarkedFor(u, s).nodes, u.byId, u.terms, u.gen,
                                    Cardinality(Hits(u, s)), u.rows)
    BY MarkedForTree
  <2>10. [v EXCEPT !.matches = @ + 1, !.nodes = w]
           \in TreesOf(w, u.byId, u.terms, u.gen, Cardinality(Hits(u, s \ {x})) + 1, u.rows)
    <3> HIDE DEF v, w
    <3> QED
      BY <2>9, TreeOfExcept
  <2>11. [v EXCEPT !.matches = @ + 1, !.nodes = w] = MarkedFor(u, s)
    <3> HIDE DEF v, w
    <3> QED
      BY <2>3, <2>7, <2>9, <2>10, TreeOfOne
  <2> HIDE DEF w
  <2> QED
    BY <2>8, <2>11
<1> QED
  BY <1>3, <1>4

-----------------------------------------------------------------------------
MarksPast(u) == \A p \in DOMAIN u.nodes : u.nodes[p].mark <= u.gen

LEMMA BegunIs ==
  ASSUME NEW u, Typed(u), MarksPast(u), NEW terms
  PROVE  /\ Typed(Begun(u, terms))
         /\ Begun(u, terms).nodes = u.nodes /\ Begun(u, terms).byId = u.byId
         /\ Begun(u, terms).terms = terms /\ Begun(u, terms).gen = u.gen + 1
         /\ Begun(u, terms).matches = 0 /\ Begun(u, terms).rows = NoRows
         /\ \A p \in DOMAIN u.nodes : u.nodes[p].mark # u.gen + 1
<1> DEFINE b == Begun(u, terms)
<1>1. b \in TreesOf(u.nodes, u.byId, terms, u.gen + 1, 0, NoRows)
  <2>1. PICK nn, bb, ff, gg, kk, rr : u \in TreesOf(nn, bb, ff, gg, kk, rr)
    BY DEF Typed
  <2> QED
    BY ONLY <2>1 DEF TreesOf, Begun
<1>2. /\ b.nodes = u.nodes /\ b.byId = u.byId /\ b.terms = terms /\ b.gen = u.gen + 1
      /\ b.matches = 0 /\ b.rows = NoRows
  BY ONLY <1>1 DEF TreesOf
<1> HIDE DEF b
<1>3. Typed(b)
  BY <1>1, <1>2 DEF Typed
<1>4. \A p \in DOMAIN u.nodes : u.nodes[p].mark # u.gen + 1
  BY DEF MarksPast, Typed, Nodes
<1> QED
  BY <1>2, <1>3, <1>4 DEF b

Pick(s) == CHOOSE x \in s : TRUE

(***************************************************************************)
(* A new filter marks the nodes above the topics that match it.            *)
(***************************************************************************)
LEMMA FilterIs ==
  ASSUME NEW u, Typed(u), MarksPast(u), NEW terms
  PROVE  SetFilter(u, terms) =
           IF terms = {} THEN Begun(u, terms) ELSE MarkedFor(Begun(u, terms), DOMAIN u.byId)
<1>1. PICK b : b = Begun(u, terms)
  OBVIOUS
<1>2. /\ Typed(b) /\ b.nodes = u.nodes /\ b.byId = u.byId /\ b.terms = terms
      /\ b.gen = u.gen + 1 /\ b.matches = 0
      /\ \A p \in DOMAIN b.nodes : b.nodes[p].mark # b.gen
  BY <1>1, BegunIs
<1>3. Filtering(b) <=> terms # {}
  BY <1>2 DEF Filtering
<1>4. PICK S : S = DOMAIN u.byId
  OBVIOUS
<1>5. IsFiniteSet(S) /\ S = DOMAIN b.byId
  BY <1>2, <1>4 DEF Typed
<1> DEFINE Run(f) == f = [s \in SUBSET S |->
                            IF s = {} THEN b ELSE MarkMatching(f[s \ {Pick(s)}], Pick(s))]
           folded == FoldSet(LAMBDA id, v : MarkMatching(v, id), b, S)
<1>6. folded = (CHOOSE f : Run(f))[S]
  BY DEF FoldSet, MapThenFoldSet, Pick
<1>7. \A s \in SUBSET S : s # {} => Pick(s) \in s
  BY DEF Pick
<1>8. MarkedFor(b, {}) = b
  <2>1. Hits(b, {}) = {} /\ Cardinality({}) = 0 /\ \A p : ~ HitBelow(b, {}, p)
    BY FS_EmptySet DEF Hits, HitBelow
  <2>2. MarkedFor(b, {}).nodes = b.nodes
    <3>1. \A p \in DOMAIN b.nodes : MarkedFor(b, {}).nodes[p] = b.nodes[p]
      BY <1>2, <2>1, MarkedForIs
    <3>2. MarkedFor(b, {}).nodes = [p \in DOMAIN b.nodes |-> MarkedFor(b, {}).nodes[p]]
      <4>1. \E g : MarkedFor(b, {}).nodes = [p \in DOMAIN b.nodes |-> g[p]]
        <5>1. DOMAIN b = {"nodes", "byId", "terms", "gen", "matches", "rows"}
          BY <1>2 DEF Typed, TreesOf
        <5>2. PICK g : g = [p \in DOMAIN b.nodes |->
                              IF HitBelow(b, {}, p) THEN MarkedNode(b.nodes[p], b.gen)
                              ELSE b.nodes[p]]
          OBVIOUS
        <5>3. MarkedFor(b, {}).nodes = g
          BY <5>1, <5>2 DEF MarkedFor
        <5>4. g = [p \in DOMAIN b.nodes |-> g[p]]
          BY <5>2
        <5> QED
          BY <5>3, <5>4
      <4> QED
        BY <4>1
    <3>3. b.nodes = [p \in DOMAIN b.nodes |-> b.nodes[p]]
      BY <1>2 DEF Typed
    <3> QED
      BY <3>1, <3>2, <3>3
  <2>3. MarkedFor(b, {}) \in TreesOf(b.nodes, b.byId, b.terms, b.gen, 0, b.rows)
    BY <1>2, <2>1, <2>2, MarkedForTree
  <2>4. b \in TreesOf(b.nodes, b.byId, b.terms, b.gen, 0, b.rows)
    BY <1>2 DEF Typed
  <2> QED
    BY <2>3, <2>4, TreeOfOne
<1>9. \E f : Run(f)
  <2>1. PICK h : h = [s \in SUBSET S |-> MarkedFor(b, s)]
    OBVIOUS
  <2>2. ASSUME NEW s \in SUBSET S
        PROVE  h[s] = IF s = {} THEN b ELSE MarkMatching(h[s \ {Pick(s)}], Pick(s))
    <3>1. h[s] = MarkedFor(b, s) /\ h[s \ {Pick(s)}] = MarkedFor(b, s \ {Pick(s)})
      BY <2>1
    <3>2. CASE s = {}
      BY <1>8, <3>1, <3>2
    <3>3. CASE s # {}
      <4>1. MarkMatching(MarkedFor(b, s \ {Pick(s)}), Pick(s)) = MarkedFor(b, s)
        BY <1>2, <1>5, <1>7, <3>3, MarkStep
      <4> QED
        BY <3>1, <3>3, <4>1
    <3> QED
      BY <3>2, <3>3
  <2>3. Run(h)
    BY <2>1, <2>2
  <2> QED
    BY <2>3
<1>10. PICK f : f = (CHOOSE g : Run(g)) /\ Run(f)
  BY <1>9
<1> HIDE DEF folded
<1>11. f[S] = MarkedFor(b, S)
  <2>1. PICK pick : pick = [s \in SUBSET S |-> Pick(s)]
    OBVIOUS
  <2>2. IsPick(pick, S)
    BY <1>7, <2>1 DEF IsPick
  <2>3. PICK T : T = {s \in SUBSET S : f[s] = MarkedFor(b, s)}
    OBVIOUS
  <2>4. {} \in T
    BY <1>8, <1>10, <2>3
  <2>5. ASSUME NEW s \in SUBSET S, s # {}, s \ {pick[s]} \in T
        PROVE  s \in T
    <3>1. pick[s] = Pick(s) /\ Pick(s) \in s
      BY <1>7, <2>1, <2>5
    <3>2. f[s \ {Pick(s)}] = MarkedFor(b, s \ {Pick(s)})
      BY <2>3, <2>5, <3>1
    <3>3. f[s] = MarkMatching(f[s \ {Pick(s)}], Pick(s))
      BY <1>10, <2>5
    <3>4. MarkMatching(MarkedFor(b, s \ {Pick(s)}), Pick(s)) = MarkedFor(b, s)
      BY <1>2, <1>5, <3>1, MarkStep
    <3> QED
      BY <2>3, <3>2, <3>3, <3>4
  <2>6. \A s \in SUBSET S : s \in T
    BY <1>5, <2>2, <2>4, <2>5, SetInduction
  <2> QED
    BY <2>3, <2>6
<1>12. folded = MarkedFor(b, S)
  BY <1>6, <1>10, <1>11
<1>13. SetFilter(u, terms) = IF Filtering(b) THEN folded ELSE b
  BY <1>1, <1>4 DEF SetFilter, Begun, folded
<1> QED
  BY <1>1, <1>3, <1>4, <1>12, <1>13

-----------------------------------------------------------------------------
(***************************************************************************)
(* A change of the nodes alone.                                            *)
(***************************************************************************)
LEMMA NewNodes ==
  ASSUME NEW u, Typed(u), NEW n, NEW v, v = [u EXCEPT !.nodes = n]
  PROVE  /\ v \in TreesOf(n, u.byId, u.terms, u.gen, u.matches, u.rows)
         /\ v.nodes = n /\ v.byId = u.byId /\ v.terms = u.terms /\ v.gen = u.gen
         /\ v.matches = u.matches /\ v.rows = u.rows
<1>1. v \in TreesOf(n, u.byId, u.terms, u.gen, u.matches, u.rows)
  <2>1. PICK nn, bb, ff, gg, kk, rr : u \in TreesOf(nn, bb, ff, gg, kk, rr)
    BY DEF Typed
  <2>2. v = [u EXCEPT !.nodes = n]
    OBVIOUS
  <2> QED
    BY ONLY <2>1, <2>2 DEF TreesOf
<1> QED
  BY ONLY <1>1 DEF TreesOf

Raised(o, l, k) == [o EXCEPT !.leaves = @ + l, !.total = @ + k]

LEMMA RaisedIs ==
  ASSUME NEW o \in Nodes, NEW l \in Int, NEW k \in Int, NEW v, v = Raised(o, l, k)
  PROVE  /\ v \in Nodes
         /\ v.leaves = o.leaves + l /\ v.total = o.total + k
         /\ v.id = o.id /\ v.count = o.count /\ v.expanded = o.expanded
         /\ v.fcollapsed = o.fcollapsed /\ v.mark = o.mark
<1>1. PICK a, b : a = o.leaves + l /\ b = o.total + k
  OBVIOUS
<1>2. a \in Int /\ b \in Int
  BY <1>1 DEF Nodes
<1>3. PICK w : w = [o EXCEPT !.leaves = a]
  OBVIOUS
<1>5. /\ w \in Nodes /\ w.leaves = a /\ w.total = o.total
      /\ w.id = o.id /\ w.count = o.count /\ w.expanded = o.expanded
      /\ w.fcollapsed = o.fcollapsed /\ w.mark = o.mark
  BY ONLY <1>2, <1>3, o \in Nodes DEF Nodes
<1>4. v = [w EXCEPT !.total = b]
  BY <1>1, <1>3 DEF Raised
<1> QED
  BY ONLY <1>1, <1>2, <1>5, <1>4 DEF Nodes

LEMMA UpwardIs ==
  ASSUME NEW u, Typed(u), NEW path, NEW l \in Int, NEW k \in Int, NEW v, v = Upward(u, path, l, k)
  PROVE  /\ Typed(v) /\ v.byId = u.byId /\ v.terms = u.terms /\ v.gen = u.gen
         /\ v.matches = u.matches /\ v.rows = u.rows /\ DOMAIN v.nodes = DOMAIN u.nodes
         /\ \A p \in DOMAIN u.nodes :
              v.nodes[p] = IF IsPrefix(p, path)
                           THEN Raised(u.nodes[p], l, k)
                           ELSE u.nodes[p]
<1>1. PICK n : n = [p \in DOMAIN u.nodes |->
                      IF IsPrefix(p, path) THEN Raised(u.nodes[p], l, k)
                      ELSE u.nodes[p]]
  OBVIOUS
<1>2. v = [u EXCEPT !.nodes = n]
  BY <1>1 DEF Upward, Raised
<1>3. /\ v \in TreesOf(n, u.byId, u.terms, u.gen, u.matches, u.rows)
      /\ v.nodes = n /\ v.byId = u.byId /\ v.terms = u.terms /\ v.gen = u.gen
      /\ v.matches = u.matches /\ v.rows = u.rows
  BY <1>2, NewNodes
<1>4. ASSUME NEW p \in DOMAIN u.nodes
      PROVE  n[p] \in Nodes
  <2>1. u.nodes[p] \in Nodes
    BY DEF Typed
  <2>2. Raised(u.nodes[p], l, k) \in Nodes
    BY <2>1, RaisedIs
  <2> QED
    BY <1>1, <2>1, <2>2
<1>5. n \in [DOMAIN u.nodes -> Nodes]
  BY <1>1, <1>4
<1>6. Typed(v)
  BY <1>3, <1>5 DEF Typed
<1> QED
  BY <1>1, <1>3, <1>6

LEMMA MarkIs ==
  ASSUME NEW u, Typed(u), NEW path, NEW v, v = Mark(u, path)
  PROVE  /\ Typed(v) /\ v.byId = u.byId /\ v.terms = u.terms /\ v.gen = u.gen
         /\ v.matches = u.matches + 1 /\ v.rows = u.rows /\ DOMAIN v.nodes = DOMAIN u.nodes
         /\ \A p \in DOMAIN u.nodes :
              v.nodes[p] = IF /\ IsPrefix(p, path)
                              /\ ~ \E q \in DOMAIN u.nodes :
                                     IsPrefix(q, path) /\ IsPrefix(p, q) /\ Marked(u, q)
                           THEN MarkedNode(u.nodes[p], u.gen)
                           ELSE u.nodes[p]
<1> DEFINE above   == {p \in DOMAIN u.nodes : IsPrefix(p, path)}
           stopped == {p \in above : \E q \in above : IsPrefix(p, q) /\ Marked(u, q)}
<1>1. PICK n : n = [p \in DOMAIN u.nodes |->
                      IF p \in above \ stopped
                      THEN MarkedNode(u.nodes[p], u.gen)
                      ELSE u.nodes[p]]
  OBVIOUS
<1>2. v = [u EXCEPT !.matches = u.matches + 1, !.nodes = n]
  BY <1>1 DEF Mark, MarkedNode
<1>3. v \in TreesOf(n, u.byId, u.terms, u.gen, u.matches + 1, u.rows)
  BY <1>2, TreeOfFields
<1>4. /\ v.nodes = n /\ v.byId = u.byId /\ v.terms = u.terms /\ v.gen = u.gen
      /\ v.matches = u.matches + 1 /\ v.rows = u.rows
  BY ONLY <1>3 DEF TreesOf
<1>5. ASSUME NEW p \in DOMAIN u.nodes
      PROVE  n[p] \in Nodes
  <2>1. u.nodes[p] \in Nodes /\ u.gen \in Nat
    BY DEF Typed
  <2>2. MarkedNode(u.nodes[p], u.gen) \in Nodes
    BY <2>1, MarkedNodeIs
  <2> HIDE DEF above, stopped
  <2> QED
    BY <1>1, <2>1, <2>2
<1>6. n \in [DOMAIN u.nodes -> Nodes]
  <2> HIDE DEF above, stopped
  <2> QED
    BY <1>1, <1>5
<1>7. Typed(v)
  BY <1>3, <1>4, <1>6 DEF Typed
<1>8. \A p \in DOMAIN u.nodes :
        p \in above \ stopped <=> /\ IsPrefix(p, path)
                                  /\ ~ \E q \in DOMAIN u.nodes :
                                         IsPrefix(q, path) /\ IsPrefix(p, q) /\ Marked(u, q)
  OBVIOUS
<1> HIDE DEF above, stopped
<1> QED
  BY <1>1, <1>4, <1>7, <1>8

(***************************************************************************)
(* A new topic, before the filter is asked.                                *)
(***************************************************************************)
NodeBefore(u, p) == IF p \in DOMAIN u.nodes THEN u.nodes[p] ELSE MakeNode(p)

LEMMA MakeNodeIs ==
  ASSUME NEW p \in Seq(Segments)
  PROVE  MakeNode(p) \in Nodes
<1>1. (p = Root \/ Len(p) <= AutoExpandDepth) \in BOOLEAN
  OBVIOUS
<1> QED
  BY <1>1 DEF MakeNode, Nodes, NoId

Grown(u, id, path) ==
  [u EXCEPT
     !.nodes = [p \in DOMAIN u.nodes \cup Prefixes(path) |-> IF p \in DOMAIN @ THEN @[p] ELSE MakeNode(p)],
     !.byId = [i \in DOMAIN @ \cup {id} |-> IF i = id THEN path ELSE @[i]]]

TopicAdded(u, id, path) == [i \in DOMAIN u.byId \cup {id} |-> IF i = id THEN path ELSE u.byId[i]]

Counted(u, id, path) == Upward([Grown(u, id, path) EXCEPT !.nodes[path].id = id], path, 1, 0)

LEMMA AddTopicIs ==
  ASSUME NEW u, NEW id, id \notin DOMAIN u.byId, NEW path
  PROVE  AddTopic(u, id, path) =
           IF Filtering(u) THEN MarkMatching(Counted(u, id, path), id) ELSE Counted(u, id, path)
BY DEF AddTopic, Counted, Grown

LEMMA CountedIs ==
  ASSUME NEW u, Typed(u), NEW id \in Nat, id \notin DOMAIN u.byId, NEW path \in Seq(Segments),
         NEW v, v = Counted(u, id, path)
  PROVE  /\ Typed(v) /\ v.terms = u.terms /\ v.gen = u.gen
         /\ v.matches = u.matches /\ v.rows = u.rows
         /\ v.byId = TopicAdded(u, id, path)
         /\ DOMAIN v.nodes = DOMAIN u.nodes \cup Prefixes(path)
         /\ \A p \in DOMAIN v.nodes :
              /\ NodeBefore(u, p) \in Nodes
              /\ v.nodes[p].id = IF p = path THEN id ELSE NodeBefore(u, p).id
              /\ v.nodes[p].count = NodeBefore(u, p).count
              /\ v.nodes[p].total = NodeBefore(u, p).total
              /\ v.nodes[p].leaves = NodeBefore(u, p).leaves + (IF IsPrefix(p, path) THEN 1 ELSE 0)
              /\ v.nodes[p].expanded = NodeBefore(u, p).expanded
              /\ v.nodes[p].fcollapsed = NodeBefore(u, p).fcollapsed
              /\ v.nodes[p].mark = NodeBefore(u, p).mark
<1>1. PICK all : all = DOMAIN u.nodes \cup Prefixes(path)
  OBVIOUS
<1>2. all \subseteq Seq(Segments) /\ path \in all
  <2>1. Prefixes(path) \subseteq Seq(Segments) /\ path \in Prefixes(path)
    BY PrefixesAre, PrefixRefl
  <2> QED
    BY <1>1, <2>1 DEF Typed
<1>3. PICK n : n = [p \in all |-> NodeBefore(u, p)]
  OBVIOUS
<1>4. PICK b : b = [i \in DOMAIN u.byId \cup {id} |-> IF i = id THEN path ELSE u.byId[i]]
  OBVIOUS
<1>5. \A p \in all : NodeBefore(u, p) \in Nodes
  BY <1>2, MakeNodeIs DEF NodeBefore, Typed
<1>6. PICK g : g = Grown(u, id, path)
  OBVIOUS
<1>7. g \in TreesOf(n, b, u.terms, u.gen, u.matches, u.rows)
  <2>1. g = [u EXCEPT !.nodes = n, !.byId = b]
    BY <1>1, <1>3, <1>4, <1>6 DEF Grown, NodeBefore
  <2>2. PICK nn, bb, ff, gg, kk, rr : u \in TreesOf(nn, bb, ff, gg, kk, rr)
    BY DEF Typed
  <2> QED
    BY ONLY <2>1, <2>2 DEF TreesOf
<1>8. /\ g.nodes = n /\ g.byId = b /\ g.terms = u.terms /\ g.gen = u.gen
      /\ g.matches = u.matches /\ g.rows = u.rows
  BY ONLY <1>7 DEF TreesOf
<1>9. n \in [all -> Nodes]
  BY <1>3, <1>5
<1>10. b \in [DOMAIN u.byId \cup {id} -> all] /\ IsFiniteSet(DOMAIN u.byId \cup {id})
  BY <1>1, <1>2, <1>4, FS_AddElement DEF Typed
<1>11. Typed(g)
  BY <1>2, <1>7, <1>8, <1>9, <1>10 DEF Typed
<1>12. PICK m : m = [n EXCEPT ![path].id = id]
  OBVIOUS
<1>13. PICK w : w = [g EXCEPT !.nodes = m]
  OBVIOUS
<1>14. /\ w \in TreesOf(m, b, u.terms, u.gen, u.matches, u.rows)
       /\ w.nodes = m /\ w.byId = b /\ w.terms = u.terms /\ w.gen = u.gen
       /\ w.matches = u.matches /\ w.rows = u.rows
  BY <1>8, <1>11, <1>13, NewNodes
<1>15. DOMAIN m = all /\ \A p \in all : m[p] = IF p = path THEN [n[p] EXCEPT !.id = id] ELSE n[p]
  BY <1>9, <1>12
<1>16. \A p \in all : m[p] \in Nodes
  <2> TAKE p \in all
  <2>1. n[p] \in Nodes
    BY <1>9
  <2>2. [n[p] EXCEPT !.id = id] \in Nodes
    BY <2>1 DEF Nodes
  <2> QED
    BY <1>15, <2>1, <2>2
<1>17. m \in [all -> Nodes]
  BY <1>9, <1>12, <1>15, <1>16
<1>18. Typed(w)
  BY <1>2, <1>10, <1>14, <1>17 DEF Typed
<1>19. v = Upward(w, path, 1, 0)
  BY <1>6, <1>8, <1>12, <1>13 DEF Counted
<1>20. /\ Typed(v) /\ v.byId = b /\ v.terms = u.terms /\ v.gen = u.gen
       /\ v.matches = u.matches /\ v.rows = u.rows /\ DOMAIN v.nodes = all
       /\ \A p \in all :
              v.nodes[p] = IF IsPrefix(p, path)
                           THEN Raised(m[p], 1, 0)
                           ELSE m[p]
  <2>1. DOMAIN w.nodes = all /\ 1 \in Int /\ 0 \in Int
    BY <1>14, <1>15
  <2> HIDE DEF Typed, Upward
  <2>2. /\ Typed(v) /\ v.byId = w.byId /\ v.terms = w.terms /\ v.gen = w.gen
        /\ v.matches = w.matches /\ v.rows = w.rows /\ DOMAIN v.nodes = DOMAIN w.nodes
        /\ \A p \in DOMAIN w.nodes :
              v.nodes[p] = IF IsPrefix(p, path)
                           THEN Raised(w.nodes[p], 1, 0)
                           ELSE w.nodes[p]
    BY <1>18, <1>19, <2>1, UpwardIs
  <2> QED
    BY <1>14, <2>1, <2>2
<1>21. ASSUME NEW p \in all
       PROVE  /\ NodeBefore(u, p) \in Nodes
              /\ v.nodes[p].id = IF p = path THEN id ELSE NodeBefore(u, p).id
              /\ v.nodes[p].count = NodeBefore(u, p).count
              /\ v.nodes[p].total = NodeBefore(u, p).total
              /\ v.nodes[p].leaves = NodeBefore(u, p).leaves + (IF IsPrefix(p, path) THEN 1 ELSE 0)
              /\ v.nodes[p].expanded = NodeBefore(u, p).expanded
              /\ v.nodes[p].fcollapsed = NodeBefore(u, p).fcollapsed
              /\ v.nodes[p].mark = NodeBefore(u, p).mark
  <2>1. PICK o : o = NodeBefore(u, p)
    OBVIOUS
  <2>2. o \in Nodes /\ m[p] = IF p = path THEN [o EXCEPT !.id = id] ELSE o
    BY <1>3, <1>5, <1>15, <2>1
  <2>3. PICK x : x = m[p] /\ x \in Nodes
    BY <1>16
  <2>4. /\ x.id = IF p = path THEN id ELSE o.id
        /\ x.count = o.count /\ x.total = o.total /\ x.leaves = o.leaves
        /\ x.expanded = o.expanded /\ x.fcollapsed = o.fcollapsed /\ x.mark = o.mark
    BY <2>2, <2>3 DEF Nodes
  <2>5. PICK y : y = v.nodes[p] /\ y = IF IsPrefix(p, path) THEN Raised(x, 1, 0)
                                       ELSE x
    BY <1>20, <2>3
  <2>6. /\ y.id = x.id /\ y.count = x.count /\ y.total = x.total
        /\ y.leaves = x.leaves + (IF IsPrefix(p, path) THEN 1 ELSE 0)
        /\ y.expanded = x.expanded /\ y.fcollapsed = x.fcollapsed /\ y.mark = x.mark
    <3>1. x.leaves + 0 = x.leaves /\ x.total + 0 = x.total
      BY <2>3 DEF Nodes
    <3>2. CASE IsPrefix(p, path)
      BY <2>3, <2>5, <3>1, <3>2, RaisedIs
    <3>3. CASE ~ IsPrefix(p, path)
      BY <2>5, <3>1, <3>3
    <3> QED
      BY <3>2, <3>3
  <2> QED
    BY <2>1, <2>2, <2>4, <2>5, <2>6
<1> QED
  BY <1>1, <1>4, <1>20, <1>21 DEF TopicAdded

-----------------------------------------------------------------------------
(***************************************************************************)
(* The invariant of a tree, and what the functions of the tree do to it.   *)
(***************************************************************************)
MarksRight(u) ==
  Filtering(u) =>
    /\ \A p \in DOMAIN u.nodes : Marked(u, p) <=> \E id \in Below(u, p) : Matches(u, id)
    /\ u.matches = Cardinality({id \in DOMAIN u.byId : Matches(u, id)})

PathsThere(u) == \A p \in DOMAIN u.nodes : Prefixes(p) \subseteq DOMAIN u.nodes

TreeInv(u) ==
  /\ Typed(u)
  /\ MarksPast(u)
  /\ Filtering(u) => u.gen > 0
  /\ PathsThere(u)
  /\ MarksRight(u)

\* No folder is closed under the filter of v that was not under that of u.
NoNewClosed(u, v) ==
  \A p \in DOMAIN v.nodes : Marked(v, p) /\ v.nodes[p].fcollapsed
                              => p \in DOMAIN u.nodes /\ Marked(u, p) /\ u.nodes[p].fcollapsed

LEMMA EmptyTreeInv == TreeInv(EmptyTree)
<1>1. EmptyTree \in TreesOf(EmptyTree.nodes, EmptyTree.byId, {}, 0, 0, NoRows)
  BY DEF EmptyTree, TreesOf
<1>2. /\ EmptyTree.terms = {} /\ EmptyTree.gen = 0 /\ EmptyTree.matches = 0 /\ EmptyTree.rows = NoRows
      /\ EmptyTree.nodes = [p \in {Root} |-> MakeNode(Root)] /\ EmptyTree.byId = [id \in {} |-> Root]
  BY DEF EmptyTree
<1>3. Root \in Seq(Segments)
  BY DEF Root
<1>4. MakeNode(Root) \in Nodes /\ MakeNode(Root).mark = 0
  BY <1>3, MakeNodeIs DEF MakeNode
<1>5. PICK e : e = EmptyTree
  OBVIOUS
<1>6. Typed(e)
  <2>1. e.nodes \in [{Root} -> Nodes] /\ DOMAIN e.nodes = {Root}
    BY <1>2, <1>4, <1>5
  <2>2. e.byId \in [{} -> {Root}] /\ DOMAIN e.byId = {} /\ IsFiniteSet({})
    BY <1>2, <1>5, FS_EmptySet
  <2>3. e \in TreesOf(e.nodes, e.byId, e.terms, e.gen, e.matches, e.rows)
    BY <1>1, <1>2, <1>5
  <2>4. e.gen = 0 /\ e.matches = 0
    BY <1>2, <1>5
  <2> QED
    BY <1>3, <2>1, <2>2, <2>3, <2>4 DEF Typed
<1>8. Prefixes(Root) = {Root}
  <2>1. ASSUME NEW p \in Seq(Segments), IsPrefix(p, Root)
        PROVE  p = Root
    <3>1. Len(p) \in Nat /\ Len(p) <= Len(Root) /\ Len(Root) = 0
      BY <2>1 DEF Root, IsPrefix
    <3> QED
      BY <3>1 DEF Root
  <2> QED
    BY <1>3, <2>1, PrefixesAre, PrefixRefl
<1>7. MarksPast(e) /\ ~ Filtering(e) /\ PathsThere(e)
  BY <1>2, <1>4, <1>5, <1>8 DEF MarksPast, Filtering, PathsThere
<1> QED
  BY <1>5, <1>6, <1>7 DEF TreeInv, MarksRight

LEMMA FilterInv ==
  ASSUME NEW u, TreeInv(u), NEW terms, NEW v, v = SetFilter(u, terms)
  PROVE  /\ TreeInv(v) /\ v.terms = terms /\ v.rows = NoRows
         /\ v.byId = u.byId
         /\ Filtering(v) => \A p \in DOMAIN v.nodes : ~ (Marked(v, p) /\ v.nodes[p].fcollapsed)
<1>1. PICK b : b = Begun(u, terms)
  OBVIOUS
<1>2. /\ Typed(b) /\ b.nodes = u.nodes /\ b.byId = u.byId /\ b.terms = terms
      /\ b.gen = u.gen + 1 /\ b.matches = 0 /\ b.rows = NoRows
      /\ \A p \in DOMAIN b.nodes : b.nodes[p].mark # b.gen
  BY <1>1, BegunIs DEF TreeInv
<1>3. u.gen \in Nat /\ \A p \in DOMAIN u.nodes : u.nodes[p].mark <= u.gen
  BY DEF TreeInv, Typed, MarksPast
<1>4. \A p \in DOMAIN b.nodes : b.nodes[p] \in Nodes /\ b.nodes[p].mark <= b.gen
  BY <1>2, <1>3 DEF Typed, Nodes
<1>5. PathsThere(b)
  BY <1>2 DEF TreeInv, PathsThere
<1>6. CASE terms = {}
  <2>1. v = b
    BY <1>1, <1>6, FilterIs DEF TreeInv
  <2>2. ~ Filtering(b) /\ MarksPast(b)
    BY <1>2, <1>4, <1>6 DEF Filtering, MarksPast
  <2> QED
    BY <1>2, <1>5, <2>1, <2>2 DEF TreeInv, MarksRight
<1>7. CASE terms # {}
  <2>1. PICK S : S = DOMAIN u.byId
    OBVIOUS
  <2>2. v = MarkedFor(b, S)
    BY <1>1, <1>7, <2>1, FilterIs DEF TreeInv
  <2>3. /\ v.byId = b.byId /\ v.terms = b.terms /\ v.gen = b.gen /\ v.rows = b.rows
        /\ v.matches = Cardinality(Hits(b, S)) /\ DOMAIN v.nodes = DOMAIN b.nodes
        /\ \A p \in DOMAIN b.nodes :
             v.nodes[p] = IF HitBelow(b, S, p) THEN MarkedNode(b.nodes[p], b.gen)
                          ELSE b.nodes[p]
        /\ \A id : Matches(v, id) <=> Matches(b, id)
    BY <1>2, <2>2, MarkedForIs
  <2>4. ASSUME NEW p \in DOMAIN b.nodes
        PROVE  /\ v.nodes[p] \in Nodes /\ v.nodes[p].mark <= b.gen
               /\ v.nodes[p].mark = b.gen <=> HitBelow(b, S, p)
               /\ v.nodes[p].mark = b.gen => ~ v.nodes[p].fcollapsed
    <3>1. PICK o : o = b.nodes[p] /\ o \in Nodes /\ o.mark <= b.gen /\ o.mark # b.gen
      BY <1>2, <1>4
    <3>2. b.gen \in Nat
      BY <1>2 DEF Typed
    <3>3. PICK x : x = MarkedNode(o, b.gen)
      OBVIOUS
    <3>4. x \in Nodes /\ x.mark = b.gen /\ x.fcollapsed = FALSE
      BY <3>1, <3>2, <3>3, MarkedNodeIs
    <3>5. v.nodes[p] = IF HitBelow(b, S, p) THEN x ELSE o
      BY <2>3, <3>1, <3>3
    <3> QED
      BY <3>1, <3>2, <3>4, <3>5
  <2>5. v.nodes \in [DOMAIN b.nodes -> Nodes]
    <3>1. \E g : v.nodes = [p \in DOMAIN b.nodes |-> g[p]]
      <4>1. PICK g : g = [p \in DOMAIN b.nodes |->
                            IF HitBelow(b, S, p) THEN MarkedNode(b.nodes[p], b.gen)
                            ELSE b.nodes[p]]
        OBVIOUS
      <4>2. DOMAIN b = {"nodes", "byId", "terms", "gen", "matches", "rows"}
        BY <1>2 DEF Typed, TreesOf
      <4>3. v.nodes = g /\ g = [p \in DOMAIN b.nodes |-> g[p]]
        BY <2>2, <4>1, <4>2 DEF MarkedFor
      <4> QED
        BY <4>3
    <3> QED
      BY <2>3, <2>4, <3>1
  <2>6. v \in TreesOf(v.nodes, v.byId, v.terms, v.gen, v.matches, v.rows)
    BY <1>2, <2>2, <2>3, MarkedForTree
  <2>7. v.matches \in Nat
    <3>1. IsFiniteSet(Hits(b, S))
      BY <1>2, <2>1, FS_Subset DEF Hits, Typed
    <3> QED
      BY <2>3, <3>1, FS_CardinalityType
  <2>8. Typed(v)
    BY <1>2, <2>3, <2>5, <2>6, <2>7 DEF Typed
  <2>9. MarksPast(v) /\ PathsThere(v)
    BY <1>5, <2>3, <2>4 DEF MarksPast, PathsThere
  <2>10. v.gen > 0
    <3>1. u.gen \in Nat /\ v.gen = u.gen + 1
      BY <1>2, <1>3, <2>3
    <3> QED
      BY <3>1
  <2>11. MarksRight(v)
    <3>1. \A p : HitBelow(b, S, p) <=> \E id \in Below(v, p) : Matches(v, id)
      BY <1>2, <2>1, <2>3 DEF HitBelow, Hits, Below
    <3>2. {id \in DOMAIN v.byId : Matches(v, id)} = Hits(b, S)
      BY <1>2, <2>1, <2>3 DEF Hits
    <3> QED
      BY <2>3, <2>4, <3>1, <3>2 DEF MarksRight, Marked
  <2> QED
    BY <1>2, <2>3, <2>4, <2>8, <2>9, <2>10, <2>11 DEF TreeInv, Marked
<1> QED
  BY <1>6, <1>7

-----------------------------------------------------------------------------
LEMMA AddTopicInv ==
  ASSUME NEW u, TreeInv(u), NEW id, id \in Nat, NEW path, path \in Seq(Segments),
         NEW v, v = AddTopic(u, id, path)
  PROVE  /\ TreeInv(v) /\ v.terms = u.terms
         /\ Filtering(u) => NoNewClosed(u, v)
<1>1. CASE id \in DOMAIN u.byId
  BY <1>1 DEF AddTopic, NoNewClosed
<1>2. CASE id \notin DOMAIN u.byId
  <2>1. PICK c : c = Counted(u, id, path)
    OBVIOUS
  <2>2. Typed(u) /\ MarksPast(u) /\ PathsThere(u) /\ (Filtering(u) => u.gen > 0) /\ MarksRight(u)
    BY DEF TreeInv
  <2>3. /\ Typed(c) /\ c.terms = u.terms /\ c.gen = u.gen
        /\ c.matches = u.matches /\ c.rows = u.rows
        /\ c.byId = TopicAdded(u, id, path)
        /\ DOMAIN c.nodes = DOMAIN u.nodes \cup Prefixes(path)
        /\ \A p \in DOMAIN c.nodes :
              /\ c.nodes[p].fcollapsed = NodeBefore(u, p).fcollapsed
              /\ c.nodes[p].mark = NodeBefore(u, p).mark
    BY <1>2, <2>1, <2>2, CountedIs
  <2>4. u.gen \in Nat
    BY <2>2 DEF Typed
  <2>5. ASSUME NEW p \in DOMAIN c.nodes
        PROVE  /\ c.nodes[p].mark <= u.gen
               /\ c.nodes[p].fcollapsed => p \in DOMAIN u.nodes
               /\ p \in DOMAIN u.nodes => /\ c.nodes[p].mark = u.nodes[p].mark
                                          /\ c.nodes[p].fcollapsed = u.nodes[p].fcollapsed
               /\ p \notin DOMAIN u.nodes => c.nodes[p].mark = 0
    <3>1. CASE p \in DOMAIN u.nodes
      BY <2>2, <2>3, <3>1 DEF NodeBefore, MarksPast
    <3>2. CASE p \notin DOMAIN u.nodes
      <4>1. MakeNode(p).mark = 0 /\ MakeNode(p).fcollapsed = FALSE
        BY DEF MakeNode
      <4> QED
        BY <2>3, <2>4, <3>2, <4>1 DEF NodeBefore
    <3> QED
      BY <3>1, <3>2
  <2>6. /\ \A i \in DOMAIN u.byId : i \in DOMAIN c.byId /\ c.byId[i] = u.byId[i]
        /\ DOMAIN c.byId = DOMAIN u.byId \cup {id} /\ c.byId[id] = path
    BY <1>2, <2>3 DEF TopicAdded
  <2>7. MarksPast(c)
    BY <2>3, <2>5 DEF MarksPast
  <2>8. PathsThere(c)
    <3>1. ASSUME NEW p \in DOMAIN c.nodes
          PROVE  Prefixes(p) \subseteq DOMAIN c.nodes
      <4>1. CASE p \in DOMAIN u.nodes
        BY <2>2, <2>3, <4>1 DEF PathsThere
      <4>2. CASE p \in Prefixes(path)
        <5>1. p \in Seq(Segments) /\ IsPrefix(p, path)
          BY <4>2, PrefixesAre
        <5>2. \A q \in Prefixes(p) : q \in Seq(Segments) /\ IsPrefix(q, p)
          BY <5>1, PrefixesAre
        <5>3. \A q \in Prefixes(p) : q \in Prefixes(path)
          BY <5>1, <5>2, PrefixTrans, PrefixesAre
        <5> QED
          BY <2>3, <5>3
      <4> QED
        BY <2>3, <4>1, <4>2
    <3> QED
      BY <3>1 DEF PathsThere
  <2>9. CASE ~ Filtering(u)
    <3>1. v = c
      BY <1>2, <2>1, <2>9, AddTopicIs
    <3>2. ~ Filtering(c)
      BY <2>3, <2>9 DEF Filtering
    <3> QED
      BY <2>3, <2>7, <2>8, <2>9, <3>1, <3>2 DEF TreeInv, MarksRight
  <2>10. CASE Filtering(u)
    <3>1. v = MarkMatching(c, id) /\ Filtering(c) /\ c.gen > 0
      BY <1>2, <2>1, <2>2, <2>3, <2>10, AddTopicIs DEF Filtering
    <3>2. \A i \in DOMAIN u.byId : Matches(c, i) <=> Matches(u, i)
      BY <2>3, <2>6 DEF Matches
    <3> DEFINE Hit(p) == \E i \in DOMAIN u.byId : IsPrefix(p, u.byId[i]) /\ Matches(u, i)
    <3>3. ASSUME NEW p \in DOMAIN c.nodes
          PROVE  Marked(c, p) <=> Hit(p)
      <4>1. CASE p \in DOMAIN u.nodes
        <5>1. Marked(c, p) <=> Marked(u, p)
          BY <2>3, <2>5, <4>1 DEF Marked
        <5>2. Marked(u, p) <=> \E i \in Below(u, p) : Matches(u, i)
          BY <2>2, <2>10, <4>1 DEF MarksRight
        <5> QED
          BY <5>1, <5>2 DEF Below
      <4>2. CASE p \notin DOMAIN u.nodes
        <5>1. ~ Marked(c, p)
          BY <2>3, <2>5, <3>1, <4>2 DEF Marked
        <5>2. ASSUME NEW i \in DOMAIN u.byId, IsPrefix(p, u.byId[i])
              PROVE  FALSE
          <6>1. p \in Seq(Segments) /\ u.byId[i] \in Seq(Segments)
            BY <2>2, <2>3 DEF Typed
          <6>2. p \in Prefixes(u.byId[i])
            BY <5>2, <6>1, PrefixesAre
          <6>3. u.byId[i] \in DOMAIN u.nodes
            BY <2>2 DEF Typed
          <6> QED
            BY <2>2, <4>2, <6>2, <6>3 DEF PathsThere
        <5> QED
          BY <5>1, <5>2
      <4> QED
        BY <4>1, <4>2
    <3>4. PICK hits : hits = {i \in DOMAIN u.byId : Matches(u, i)}
      OBVIOUS
    <3>5. u.matches = Cardinality(hits) /\ IsFiniteSet(hits) /\ id \notin hits
      BY <1>2, <2>2, <2>10, <3>4, FS_Subset DEF MarksRight, Typed
    <3>6. CASE ~ Matches(c, id)
      <4>1. v = c
        BY <3>1, <3>6 DEF MarkMatching
      <4>2. {i \in DOMAIN c.byId : Matches(c, i)} = hits
        BY <2>6, <3>2, <3>4, <3>6
      <4>3. \A p : (\E i \in Below(c, p) : Matches(c, i)) <=> Hit(p)
        BY <2>6, <3>2, <3>6 DEF Below
      <4>4. MarksRight(c)
        BY <2>3, <3>3, <3>5, <4>2, <4>3 DEF MarksRight
      <4>5. NoNewClosed(u, c)
        BY <2>3, <2>5 DEF NoNewClosed, Marked
      <4> QED
        BY <2>3, <2>7, <2>8, <3>1, <4>1, <4>4, <4>5 DEF TreeInv
    <3>7. CASE Matches(c, id)
      <4>1. v = Mark(c, path)
        BY <2>6, <3>1, <3>7 DEF MarkMatching
      <4>2. /\ Typed(v) /\ v.byId = c.byId /\ v.terms = c.terms /\ v.gen = c.gen
            /\ v.matches = c.matches + 1 /\ v.rows = c.rows /\ DOMAIN v.nodes = DOMAIN c.nodes
            /\ \A p \in DOMAIN c.nodes :
                 v.nodes[p] = IF /\ IsPrefix(p, path)
                                 /\ ~ \E q \in DOMAIN c.nodes :
                                        IsPrefix(q, path) /\ IsPrefix(p, q) /\ Marked(c, q)
                              THEN MarkedNode(c.nodes[p], c.gen)
                              ELSE c.nodes[p]
        BY <2>3, <4>1, MarkIs
      <4>3. ASSUME NEW p \in DOMAIN c.nodes
            PROVE  /\ v.nodes[p].mark <= c.gen
                   /\ Marked(v, p) <=> Hit(p) \/ IsPrefix(p, path)
                   /\ Marked(v, p) /\ v.nodes[p].fcollapsed => Marked(c, p) /\ c.nodes[p].fcollapsed
        <5>1. PICK o : o = c.nodes[p] /\ o \in Nodes
          BY <2>3 DEF Typed
        <5>2. o.mark <= c.gen /\ (Marked(c, p) <=> o.mark = c.gen) /\ c.gen \in Nat
          BY <2>3, <2>4, <2>5, <5>1 DEF Marked
        <5>3. CASE v.nodes[p] = MarkedNode(o, c.gen) /\ IsPrefix(p, path)
          <6>1. PICK x : x = v.nodes[p]
            OBVIOUS
          <6>2. x.mark = c.gen /\ x.fcollapsed = FALSE
            <7>1. x = MarkedNode(o, c.gen) /\ o \in Nodes /\ c.gen \in Nat
              BY <5>1, <5>2, <5>3, <6>1
            <7> QED
              BY ONLY <7>1 DEF MarkedNode, Nodes
          <6> QED
            BY <4>2, <5>2, <5>3, <6>1, <6>2 DEF Marked
        <5>4. CASE v.nodes[p] = o /\ ~ IsPrefix(p, path)
          BY <3>3, <4>2, <5>1, <5>2, <5>4 DEF Marked
        <5>5. CASE v.nodes[p] = o /\ \E q \in DOMAIN c.nodes :
                                        IsPrefix(q, path) /\ IsPrefix(p, q) /\ Marked(c, q)
          <6>1. PICK q \in DOMAIN c.nodes : IsPrefix(q, path) /\ IsPrefix(p, q) /\ Marked(c, q)
            BY <5>5
          <6>2. PICK i \in DOMAIN u.byId : IsPrefix(q, u.byId[i]) /\ Matches(u, i)
            BY <3>3, <6>1
          <6>3. p \in Seq(Segments) /\ q \in Seq(Segments) /\ u.byId[i] \in Seq(Segments)
            BY <2>2, <2>3 DEF Typed
          <6>4. IsPrefix(p, u.byId[i])
            BY <6>1, <6>2, <6>3, PrefixTrans
          <6>5. Hit(p)
            BY <6>2, <6>4
          <6> HIDE DEF Hit
          <6> QED
            BY <3>3, <4>2, <5>1, <5>2, <5>5, <6>5 DEF Marked
        <5>6. \/ v.nodes[p] = MarkedNode(o, c.gen) /\ IsPrefix(p, path)
              \/ v.nodes[p] = o /\ ~ IsPrefix(p, path)
              \/ v.nodes[p] = o /\ \E q \in DOMAIN c.nodes :
                                        IsPrefix(q, path) /\ IsPrefix(p, q) /\ Marked(c, q)
          BY <4>2, <5>1
        <5> HIDE DEF Hit
        <5> QED
          BY <5>3, <5>4, <5>5, <5>6
      <4>4. \A i : Matches(v, i) <=> Matches(c, i)
        BY <4>2 DEF Matches
      <4>5. {i \in DOMAIN v.byId : Matches(v, i)} = hits \cup {id}
        BY <2>6, <3>2, <3>4, <3>7, <4>2, <4>4
      <4>6. Cardinality(hits \cup {id}) = Cardinality(hits) + 1
        BY <3>5, FS_AddElement
      <4>7. \A p : (\E i \in Below(v, p) : Matches(v, i)) <=> Hit(p) \/ IsPrefix(p, path)
        BY <2>6, <3>2, <3>7, <4>2, <4>4 DEF Below
      <4>8. MarksRight(v)
        <5> HIDE DEF Hit
        <5> QED
          BY <2>3, <3>5, <4>2, <4>3, <4>5, <4>6, <4>7 DEF MarksRight
      <4>9. MarksPast(v) /\ PathsThere(v)
        BY <2>8, <4>2, <4>3 DEF MarksPast, PathsThere
      <4>10. NoNewClosed(u, v)
        BY <2>3, <2>5, <4>2, <4>3 DEF NoNewClosed, Marked
      <4> QED
        BY <2>3, <3>1, <4>2, <4>8, <4>9, <4>10 DEF TreeInv
    <3> QED
      BY <3>6, <3>7
  <2> QED
    BY <2>9, <2>10
<1> QED
  BY <1>1, <1>2

-----------------------------------------------------------------------------
Cached(u, rows) == [u EXCEPT !.rows = rows]

(***************************************************************************)
(* A message brings one new topic or two.                                  *)
(***************************************************************************)
LEMMA AddTopicsIs ==
  ASSUME NEW u, NEW first, first \in Nat, NEW second, second = first + 1,
         NEW n, n \in 1..2, NEW paths, DOMAIN paths = 1..n
  PROVE  \E v : /\ AddTopics(u, first, paths) = Cached(v, NoRows)
                /\ n = 1 => v = AddTopic(u, first, paths[1])
                /\ n = 2 => v = AddTopic(AddTopic(u, first, paths[1]), second, paths[2])
<1>1. PICK S : S = 1..n
  OBVIOUS
<1>2. PICK idx : idx = [i \in S |-> i]
  OBVIOUS
<1> DEFINE Add(v, i) == AddTopic(v, first + idx[i] - 1, paths[idx[i]])
           Run(f) == f = [s \in SUBSET S |-> IF s = {} THEN u ELSE Add(f[s \ {Max(s)}], Max(s))]
           folded == FoldLeftDomain(LAMBDA v, i : AddTopic(v, first + i - 1, paths[i]), u, paths)
<1>3. folded = (CHOOSE f : Run(f))[S]
  <2>1. DOMAIN idx = S /\ DOMAIN paths = S
    BY <1>1, <1>2
  <2>2. folded = FoldLeft(LAMBDA v, i : AddTopic(v, first + i - 1, paths[i]), u, idx)
    BY <1>2, <2>1 DEF FoldLeftDomain
  <2> QED
    BY <2>1, <2>2 DEF FoldLeft, MapThenFoldSet
<1>4. /\ Max({1}) = 1 /\ Max({2}) = 2 /\ Max({1, 2}) = 2
  BY DEF Max
<1>5. ASSUME NEW s \in SUBSET S
      PROVE  s \in {{}, {1}, {2}, {1, 2}}
  <2>1. \A i \in s : i = 1 \/ i = 2
    BY <1>1
  <2>2. CASE 1 \in s /\ 2 \in s
    BY <2>1, <2>2
  <2>3. CASE 1 \in s /\ 2 \notin s
    BY <2>1, <2>3
  <2>4. CASE 1 \notin s /\ 2 \in s
    BY <2>1, <2>4
  <2>5. CASE 1 \notin s /\ 2 \notin s
    BY <2>1, <2>5
  <2> QED
    BY <2>2, <2>3, <2>4, <2>5
<1>6. 1 \in S /\ idx[1] = 1 /\ (n = 2 => 2 \in S /\ idx[2] = 2)
  BY <1>1, <1>2
<1>7. n = 1 => S = {1}
  BY <1>1
<1>8. n = 2 => S = {1, 2}
  BY <1>1
<1>9. /\ first + 1 - 1 = first /\ first + 2 - 1 = second
  OBVIOUS
<1>10. Add(u, 1) = AddTopic(u, first, paths[1])
       /\ (n = 2 => Add(Add(u, 1), 2) = AddTopic(AddTopic(u, first, paths[1]), second, paths[2]))
  BY <1>6, <1>9
<1> HIDE DEF Add
<1>11. \E f : Run(f)
  <2>1. PICK h : h = [s \in SUBSET S |-> IF s = {} THEN u
                                        ELSE IF s = {1} THEN Add(u, 1)
                                        ELSE IF s = {2} THEN Add(u, 2)
                                        ELSE Add(Add(u, 1), 2)]
    OBVIOUS
  <2>2. ASSUME NEW s \in SUBSET S
        PROVE  h[s] = IF s = {} THEN u ELSE Add(h[s \ {Max(s)}], Max(s))
    <3>1. h[{}] = u
      BY <2>1
    <3>2. CASE s = {}
      BY <3>1, <3>2
    <3>3. CASE s = {1}
      <4>1. h[s] = Add(u, 1) /\ s \ {Max(s)} = {} /\ Max(s) = 1
        BY <1>4, <2>1, <3>3
      <4> QED
        BY <3>1, <3>3, <4>1
    <3>4. CASE s = {2}
      <4>1. h[s] = Add(u, 2) /\ s \ {Max(s)} = {} /\ Max(s) = 2
        BY <1>4, <2>1, <3>4
      <4> QED
        BY <3>1, <3>4, <4>1
    <3>5. CASE s = {1, 2}
      <4>1. h[s] = Add(Add(u, 1), 2) /\ s \ {Max(s)} = {1} /\ Max(s) = 2
        BY <1>4, <2>1, <3>5
      <4>2. {1} \in SUBSET S /\ h[{1}] = Add(u, 1)
        BY <1>6, <2>1
      <4> QED
        BY <3>5, <4>1, <4>2
    <3> QED
      BY <1>5, <3>2, <3>3, <3>4, <3>5
  <2>3. Run(h)
    BY <2>1, <2>2
  <2> QED
    BY <2>3
<1>12. PICK f : f = (CHOOSE g : Run(g)) /\ Run(f)
  BY <1>11
<1>19. ASSUME NEW s \in SUBSET S
       PROVE  f[s] = IF s = {} THEN u ELSE Add(f[s \ {Max(s)}], Max(s))
  BY <1>12
<1>13. f[{}] = u
  BY <1>19
<1>14. f[{1}] = Add(u, 1)
  <2>1. {1} \in SUBSET S /\ {1} # {} /\ {1} \ {Max({1})} = {}
    BY <1>4, <1>6
  <2>2. f[{1}] = Add(f[{1} \ {Max({1})}], Max({1}))
    BY <1>19, <2>1
  <2> QED
    BY <1>4, <1>13, <2>1, <2>2
<1>15. n = 2 => f[{1, 2}] = Add(Add(u, 1), 2)
  <2> SUFFICES ASSUME n = 2
               PROVE  f[{1, 2}] = Add(Add(u, 1), 2)
    OBVIOUS
  <2>1. {1, 2} \in SUBSET S /\ {1, 2} # {} /\ {1, 2} \ {Max({1, 2})} = {1}
    BY <1>4, <1>6
  <2>2. f[{1, 2}] = Add(f[{1, 2} \ {Max({1, 2})}], Max({1, 2}))
    BY <1>19, <2>1
  <2> QED
    BY <1>4, <1>14, <2>1, <2>2
<1>16. AddTopics(u, first, paths) = Cached(folded, NoRows)
  BY DEF AddTopics, Cached
<1> HIDE DEF folded
<1>17. folded = f[S]
  BY <1>3, <1>12
<1>18. WITNESS folded
<1> QED
  BY <1>7, <1>8, <1>10, <1>14, <1>15, <1>16, <1>17

(* A change of the cache alone. *)
LEMMA NewRows ==
  ASSUME NEW u, Typed(u), NEW r, NEW v, v = Cached(u, r)
  PROVE  /\ Typed(v) /\ v.nodes = u.nodes /\ v.byId = u.byId /\ v.terms = u.terms /\ v.gen = u.gen
         /\ v.matches = u.matches /\ v.rows = r
<1>1. v \in TreesOf(u.nodes, u.byId, u.terms, u.gen, u.matches, r)
  <2>1. PICK nn, bb, ff, gg, kk, rr : u \in TreesOf(nn, bb, ff, gg, kk, rr)
    BY DEF Typed
  <2>2. v = [u EXCEPT !.rows = r]
    BY DEF Cached
  <2> QED
    BY ONLY <2>1, <2>2 DEF TreesOf
<1>2. /\ v.nodes = u.nodes /\ v.byId = u.byId /\ v.terms = u.terms /\ v.gen = u.gen
      /\ v.matches = u.matches /\ v.rows = r
  BY ONLY <1>1 DEF TreesOf
<1> QED
  BY <1>1, <1>2 DEF Typed

(* What the invariant says of a tree it says of one with the same marks. *)
SameMarks(u, v) ==
  /\ v.byId = u.byId /\ v.terms = u.terms /\ v.gen = u.gen /\ v.matches = u.matches
  /\ DOMAIN v.nodes = DOMAIN u.nodes
  /\ \A p \in DOMAIN u.nodes : v.nodes[p].mark = u.nodes[p].mark

LEMMA SameMarksInv ==
  ASSUME NEW u, TreeInv(u), NEW v, Typed(v), SameMarks(u, v)
  PROVE  TreeInv(v) /\ \A p \in DOMAIN v.nodes : Marked(v, p) <=> Marked(u, p)
<1>1. \A p \in DOMAIN v.nodes : Marked(v, p) <=> Marked(u, p)
  BY DEF SameMarks, Marked
<1>2. \A id : Matches(v, id) <=> Matches(u, id)
  BY DEF SameMarks, Matches
<1>3. \A p : Below(v, p) = Below(u, p)
  BY DEF SameMarks, Below
<1>4. {id \in DOMAIN v.byId : Matches(v, id)} = {id \in DOMAIN u.byId : Matches(u, id)}
  BY <1>2 DEF SameMarks
<1>5. Filtering(v) <=> Filtering(u)
  BY DEF SameMarks, Filtering
<1>6. MarksRight(v)
  BY <1>1, <1>2, <1>3, <1>4, <1>5 DEF TreeInv, MarksRight, SameMarks
<1>7. MarksPast(v) /\ PathsThere(v)
  BY DEF TreeInv, MarksPast, PathsThere, SameMarks
<1> QED
  BY <1>1, <1>5, <1>6, <1>7 DEF TreeInv, SameMarks

NewPaths(n, paths) == n \in 1..2 /\ paths \in [1..n -> Seq(Segments)]

LEMMA AddTopicsInv ==
  ASSUME NEW u, TreeInv(u), NEW first, first \in Nat,
         NEW n, NEW paths, NewPaths(n, paths),
         NEW v, v = AddTopics(u, first, paths)
  PROVE  /\ TreeInv(v) /\ v.terms = u.terms /\ v.rows = NoRows
         /\ Filtering(u) => NoNewClosed(u, v)
<1>0. PICK second : second = first + 1
  OBVIOUS
<1> USE DEF NewPaths
<1>1. PICK w : /\ v = Cached(w, NoRows)
               /\ n = 1 => w = AddTopic(u, first, paths[1])
               /\ n = 2 => w = AddTopic(AddTopic(u, first, paths[1]), second, paths[2])
  <2>1. DOMAIN paths = 1..n
    OBVIOUS
  <2> QED
    BY ONLY <1>0, <2>1, NewPaths(n, paths), first \in Nat, v = AddTopics(u, first, paths), AddTopicsIs DEF NewPaths
<1>2. PICK x : x = AddTopic(u, first, paths[1])
  OBVIOUS
<1>3. paths[1] \in Seq(Segments) /\ (n = 2 => paths[2] \in Seq(Segments))
  OBVIOUS
<1>4. TreeInv(x) /\ x.terms = u.terms /\ (Filtering(u) => NoNewClosed(u, x))
  <2>1. PICK p : p = paths[1]
    OBVIOUS
  <2>2. TreeInv(u) /\ x = AddTopic(u, first, p) /\ first \in Nat /\ p \in Seq(Segments)
    BY <1>2, <1>3, <2>1
  <2> QED
    BY ONLY <2>2, AddTopicInv
<1>5. TreeInv(w) /\ w.terms = u.terms /\ (Filtering(u) => NoNewClosed(u, w))
  <2>1. CASE n = 1
    BY <1>1, <1>2, <1>4, <2>1
  <2>2. CASE n = 2
    <3>4. PICK p : p = paths[2]
      OBVIOUS
    <3>1. TreeInv(x) /\ w = AddTopic(x, second, p) /\ second \in Nat /\ p \in Seq(Segments)
      BY <1>0, <1>1, <1>2, <1>3, <1>4, <2>2, <3>4
    <3>2. TreeInv(w) /\ w.terms = x.terms /\ (Filtering(x) => NoNewClosed(x, w))
      BY ONLY <3>1, AddTopicInv
    <3>3. Filtering(x) <=> Filtering(u)
      BY <1>4 DEF Filtering
    <3> QED
      BY <1>4, <3>2, <3>3 DEF NoNewClosed
  <2> QED
    BY <2>1, <2>2
<1>6. Typed(w)
  BY <1>5 DEF TreeInv
<1>7. /\ Typed(v) /\ v.nodes = w.nodes /\ v.byId = w.byId /\ v.terms = w.terms /\ v.gen = w.gen
      /\ v.matches = w.matches /\ v.rows = NoRows
  BY <1>1, <1>6, NewRows
<1>8. SameMarks(w, v)
  BY <1>7 DEF SameMarks
<1> QED
  BY <1>5, <1>7, <1>8, SameMarksInv DEF NoNewClosed

-----------------------------------------------------------------------------
(***************************************************************************)
(* What the other functions of the tree leave alone.                       *)
(***************************************************************************)
SameLook(u, v) ==
  /\ v.terms = u.terms /\ v.gen = u.gen /\ DOMAIN v.nodes = DOMAIN u.nodes
  /\ \A p \in DOMAIN u.nodes : /\ v.nodes[p].mark = u.nodes[p].mark
                               /\ v.nodes[p].expanded = u.nodes[p].expanded
                               /\ v.nodes[p].fcollapsed = u.nodes[p].fcollapsed

SameNumbers(u, v) ==
  /\ v.byId = u.byId /\ DOMAIN v.nodes = DOMAIN u.nodes
  /\ \A p \in DOMAIN u.nodes : /\ v.nodes[p].id = u.nodes[p].id
                               /\ v.nodes[p].count = u.nodes[p].count
                               /\ v.nodes[p].total = u.nodes[p].total
                               /\ v.nodes[p].leaves = u.nodes[p].leaves

LEMMA NodeCounted ==
  ASSUME NEW o \in Nodes, NEW k \in Nat, NEW v, v = [o EXCEPT !.count = k]
  PROVE  /\ v \in Nodes /\ v.count = k
         /\ v.leaves = o.leaves /\ v.total = o.total
         /\ v.id = o.id /\ v.expanded = o.expanded
         /\ v.fcollapsed = o.fcollapsed /\ v.mark = o.mark
BY DEF Nodes

LEMMA CountIs ==
  ASSUME NEW u, Typed(u), NEW id \in DOMAIN u.byId, NEW count \in Nat,
         NEW v, v = ApplyCount(u, id, count)
  PROVE  /\ Typed(v) /\ v.rows = u.rows /\ v.byId = u.byId
         /\ SameMarks(u, v) /\ SameLook(u, v)
         /\ \A p \in DOMAIN u.nodes :
              /\ v.nodes[p].id = u.nodes[p].id /\ v.nodes[p].leaves = u.nodes[p].leaves
              /\ v.nodes[p].count = IF p = u.byId[id] THEN count ELSE u.nodes[p].count
              /\ v.nodes[p].total = u.nodes[p].total + (IF IsPrefix(p, u.byId[id])
                                                        THEN count - u.nodes[u.byId[id]].count ELSE 0)
<1>1. PICK path : path = u.byId[id] /\ path \in DOMAIN u.nodes
  BY DEF Typed
<1>2. u.nodes \in [DOMAIN u.nodes -> Nodes] /\ u.nodes[path] \in Nodes
  BY <1>1 DEF Typed
<1>3. PICK delta : delta = count - u.nodes[path].count /\ delta \in Int
  BY <1>2 DEF Nodes
<1>4. PICK n : n = [u.nodes EXCEPT ![path].count = count]
  OBVIOUS
<1>5. PICK w : w = [u EXCEPT !.nodes = n]
  OBVIOUS
<1>6. /\ w \in TreesOf(n, u.byId, u.terms, u.gen, u.matches, u.rows)
      /\ w.nodes = n /\ w.byId = u.byId /\ w.terms = u.terms /\ w.gen = u.gen
      /\ w.matches = u.matches /\ w.rows = u.rows
  BY <1>5, NewNodes
<1>7. PICK x : x = [u.nodes[path] EXCEPT !.count = count]
  OBVIOUS
<1>8. n = [p \in DOMAIN u.nodes |-> IF p = path THEN x ELSE u.nodes[p]]
  BY <1>1, <1>2, <1>4, <1>7
<1>9. ASSUME NEW p \in DOMAIN u.nodes
      PROVE  /\ n[p] \in Nodes
             /\ n[p].id = u.nodes[p].id /\ n[p].leaves = u.nodes[p].leaves
             /\ n[p].total = u.nodes[p].total /\ n[p].mark = u.nodes[p].mark
             /\ n[p].expanded = u.nodes[p].expanded /\ n[p].fcollapsed = u.nodes[p].fcollapsed
             /\ n[p].count = IF p = path THEN count ELSE u.nodes[p].count
  <2>1. CASE p = path
    <3>1. n[p] = x /\ p = path
      BY <1>8, <2>1
    <3> QED
      BY <1>2, <1>7, <3>1, NodeCounted
  <2>2. CASE p # path
    BY <1>2, <1>8, <2>2
  <2> QED
    BY <2>1, <2>2
<1>10. n \in [DOMAIN u.nodes -> Nodes]
  BY <1>8, <1>9
<1>11. Typed(w)
  BY <1>6, <1>10 DEF Typed
<1>12. v = Upward(w, path, 0, delta)
  BY <1>1, <1>3, <1>4, <1>5 DEF ApplyCount
<1>13. /\ Typed(v) /\ v.byId = w.byId /\ v.terms = w.terms /\ v.gen = w.gen
       /\ v.matches = w.matches /\ v.rows = w.rows /\ DOMAIN v.nodes = DOMAIN w.nodes
       /\ \A p \in DOMAIN w.nodes :
            v.nodes[p] = IF IsPrefix(p, path) THEN Raised(w.nodes[p], 0, delta) ELSE w.nodes[p]
  <2>1. 0 \in Int
    OBVIOUS
  <2> QED
    BY <1>3, <1>11, <1>12, <2>1, UpwardIs
<1>14. ASSUME NEW p \in DOMAIN u.nodes
       PROVE  /\ v.nodes[p].id = u.nodes[p].id /\ v.nodes[p].leaves = u.nodes[p].leaves
              /\ v.nodes[p].mark = u.nodes[p].mark
              /\ v.nodes[p].expanded = u.nodes[p].expanded
              /\ v.nodes[p].fcollapsed = u.nodes[p].fcollapsed
              /\ v.nodes[p].count = IF p = path THEN count ELSE u.nodes[p].count
              /\ v.nodes[p].total = u.nodes[p].total + (IF IsPrefix(p, path) THEN delta ELSE 0)
  <2>1. PICK o : o = w.nodes[p] /\ o \in Nodes
    BY <1>6, <1>9
  <2>2. PICK y : y = v.nodes[p] /\ y = IF IsPrefix(p, path) THEN Raised(o, 0, delta) ELSE o
    BY <1>6, <1>10, <1>13, <2>1
  <2>3. o.leaves + 0 = o.leaves /\ o.total + 0 = o.total
    BY <2>1 DEF Nodes
  <2>4. /\ y.leaves = o.leaves /\ y.total = o.total + (IF IsPrefix(p, path) THEN delta ELSE 0)
        /\ y.id = o.id /\ y.count = o.count /\ y.expanded = o.expanded
        /\ y.fcollapsed = o.fcollapsed /\ y.mark = o.mark
    <3>1. CASE IsPrefix(p, path)
      <4>1. y = Raised(o, 0, delta) /\ 0 \in Int
        BY <2>2, <3>1
      <4> QED
        BY <1>3, <2>1, <2>3, <3>1, <4>1, RaisedIs
    <3>2. CASE ~ IsPrefix(p, path)
      BY <2>2, <2>3, <3>2
    <3> QED
      BY <3>1, <3>2
  <2> QED
    BY <1>6, <1>9, <2>1, <2>2, <2>4
<1>15. SameMarks(u, v) /\ SameLook(u, v)
  BY <1>6, <1>10, <1>13, <1>14 DEF SameMarks, SameLook
<1> QED
  BY <1>1, <1>3, <1>6, <1>13, <1>14, <1>15

(* Opening or closing a folder. *)
LEMMA NodeToggled ==
  ASSUME NEW o \in Nodes, NEW open \in BOOLEAN, NEW v,
         v = [o EXCEPT !.expanded = open] \/ v = [o EXCEPT !.fcollapsed = ~open]
  PROVE  /\ v \in Nodes /\ v.count = o.count
         /\ v.leaves = o.leaves /\ v.total = o.total
         /\ v.id = o.id /\ v.mark = o.mark
<1>1. (~open) \in BOOLEAN
  OBVIOUS
<1>2. PICK closed : closed = ~open
  OBVIOUS
<1>3. v = [o EXCEPT !.expanded = open] \/ v = [o EXCEPT !.fcollapsed = closed]
  BY <1>2
<1>4. closed \in BOOLEAN
  BY <1>1, <1>2
<1> QED
  BY ONLY <1>3, <1>4, o \in Nodes, open \in BOOLEAN DEF Nodes

LEMMA ToggleIs ==
  ASSUME NEW u, Typed(u), NEW p, NEW open \in BOOLEAN, NEW v, v = Toggle(u, p, open)
  PROVE  \/ v = u
         \/ /\ Typed(v) /\ v.rows = NoRows /\ SameMarks(u, v) /\ SameNumbers(u, v)
<1>1. CASE Kids(u, p) = {}
  BY <1>1 DEF Toggle
<1>2. CASE Kids(u, p) # {}
  <2>1. PICK n : n = IF Filtering(u) THEN [u.nodes EXCEPT ![p].fcollapsed = ~open]
                     ELSE [u.nodes EXCEPT ![p].expanded = open]
    OBVIOUS
  <2>2. v = [u EXCEPT !.nodes = n, !.rows = NoRows]
    BY <1>2, <2>1 DEF Toggle
  <2>3. PICK w : w = [u EXCEPT !.nodes = n]
    OBVIOUS
  <2>4. /\ w \in TreesOf(n, u.byId, u.terms, u.gen, u.matches, u.rows)
        /\ w.nodes = n /\ w.byId = u.byId /\ w.terms = u.terms /\ w.gen = u.gen
        /\ w.matches = u.matches /\ w.rows = u.rows
    BY <2>3, NewNodes
  <2>5. u.nodes \in [DOMAIN u.nodes -> Nodes]
    BY DEF Typed
  <2>6. DOMAIN n = DOMAIN u.nodes /\ n = [q \in DOMAIN u.nodes |-> n[q]]
    BY <2>1, <2>5
  <2>7. ASSUME NEW q \in DOMAIN u.nodes
        PROVE  /\ n[q] \in Nodes /\ n[q].count = u.nodes[q].count
               /\ n[q].leaves = u.nodes[q].leaves /\ n[q].total = u.nodes[q].total
               /\ n[q].id = u.nodes[q].id /\ n[q].mark = u.nodes[q].mark
    <3>1. PICK o : o = u.nodes[q] /\ o \in Nodes
      BY <2>5
    <3>2. n[q] = o \/ n[q] = [o EXCEPT !.expanded = open] \/ n[q] = [o EXCEPT !.fcollapsed = ~open]
      BY <2>1, <2>5, <3>1
    <3>3. CASE n[q] = o
      BY <3>1, <3>3
    <3>4. CASE n[q] # o
      BY <3>1, <3>2, <3>4, NodeToggled
    <3> QED
      BY <3>3, <3>4
  <2>8. n \in [DOMAIN u.nodes -> Nodes]
    BY <2>6, <2>7
  <2>9. Typed(w)
    BY <2>4, <2>8 DEF Typed
  <2>10. v = Cached(w, NoRows)
    BY <2>2, <2>3 DEF Cached
  <2>11. /\ Typed(v) /\ v.nodes = w.nodes /\ v.byId = w.byId /\ v.terms = w.terms /\ v.gen = w.gen
         /\ v.matches = w.matches /\ v.rows = NoRows
    BY <2>9, <2>10, NewRows
  <2> QED
    BY <2>4, <2>6, <2>7, <2>11 DEF SameMarks, SameNumbers
<1> QED
  BY <1>1, <1>2

(***************************************************************************)
(* The rows depend on no number of a node.                                 *)
(***************************************************************************)
LEMMA SameRows ==
  ASSUME NEW u, TreeInv(u), NEW v, SameLook(u, v)
  PROVE  FreshRows(v) = FreshRows(u)
<1>1. \A p \in DOMAIN u.nodes : (Marked(v, p) <=> Marked(u, p)) /\ (IsOpen(v, p) <=> IsOpen(u, p))
  <2>1. \A p \in DOMAIN u.nodes : u.nodes[p].expanded \in BOOLEAN /\ u.nodes[p].fcollapsed \in BOOLEAN
    BY DEF TreeInv, Typed, Nodes
  <2> QED
    BY <2>1 DEF SameLook, Marked, IsOpen, Filtering
<1>2. \A p \in DOMAIN u.nodes : \A q \in Prefixes(p) : q \in DOMAIN u.nodes
  BY DEF TreeInv, PathsThere
<1>3. PICK S : S = {p \in DOMAIN u.nodes \ {Root} :
                      /\ Wanted(u, p)
                      /\ \A q \in Prefixes(p) \ {Root, p} : IsOpen(u, q)}
  OBVIOUS
<1>4. S = {p \in DOMAIN v.nodes \ {Root} :
             /\ Wanted(v, p)
             /\ \A q \in Prefixes(p) \ {Root, p} : IsOpen(v, q)}
  <2>1. \A p \in DOMAIN u.nodes : Wanted(u, p) <=> Wanted(v, p)
    BY <1>1, <1>2 DEF Wanted, SameLook, Filtering
  <2>2. \A p \in DOMAIN u.nodes :
          (\A q \in Prefixes(p) \ {Root, p} : IsOpen(u, q))
            <=> (\A q \in Prefixes(p) \ {Root, p} : IsOpen(v, q))
    BY <1>1, <1>2
  <2> QED
    BY <1>3, <2>1, <2>2 DEF SameLook
<1>5. FreshRows(u) = InOrder(S, PathBefore)
  BY <1>3 DEF FreshRows
<1>6. FreshRows(v) = InOrder(S, PathBefore)
  BY <1>4 DEF FreshRows
<1> QED
  BY <1>5, <1>6

LEMMA WithRowsIs ==
  ASSUME NEW u, TreeInv(u), NEW v, v = WithRows(u)
  PROVE  /\ TreeInv(v) /\ SameMarks(u, v) /\ SameLook(u, v) /\ SameNumbers(u, v)
         /\ v.nodes = u.nodes /\ v.rows = Rows(u) /\ FreshRows(v) = FreshRows(u)
<1>1. v = Cached(u, Rows(u)) /\ Typed(u)
  BY DEF WithRows, Cached, TreeInv
<1>2. /\ Typed(v) /\ v.nodes = u.nodes /\ v.byId = u.byId /\ v.terms = u.terms /\ v.gen = u.gen
      /\ v.matches = u.matches /\ v.rows = Rows(u)
  BY <1>1, NewRows
<1>3. SameMarks(u, v) /\ SameLook(u, v) /\ SameNumbers(u, v)
  BY <1>2 DEF SameMarks, SameLook, SameNumbers
<1> QED
  BY <1>2, <1>3, SameMarksInv, SameRows

-----------------------------------------------------------------------------
(***************************************************************************)
(* What a step does to the tree, its rows on screen and its filter.        *)
(***************************************************************************)
ByUserAfter(tree) == (byUser \cup (Closed(tree) \ Closed(t))) \ (Closed(t) \ Closed(tree))

\* What the user may make of the tree.
Browsed(tree) ==
  \E base \in {t, WithRows(t)} :
    tree = base \/ \E p : \E open \in BOOLEAN : tree = Toggle(base, p, open)

TreeStep ==
  \/ /\ t' = t /\ byUser' = byUser
     /\ queued' = TRUE \/ (drawn' = drawn /\ queued' = queued)
     /\ timer' = TRUE \/ (text' = text /\ (timer' <=> timer))
  \/ /\ queued' = TRUE /\ text' = text /\ (timer' <=> timer)
     /\ \E tree : Browsed(tree) /\ t' = tree /\ byUser' = ByUserAfter(tree)
  \/ /\ queued' = TRUE /\ text' = text /\ (timer' <=> timer) /\ byUser' = byUser
     /\ \E n \in 1..2 : \E paths \in [1..n -> Paths] : IsInjective(paths) /\ Names(paths)
  \/ /\ queued' = TRUE /\ text' = text /\ (timer' <=> timer) /\ byUser' = byUser
     /\ \E id \in DOMAIN t.byId, count \in 1..MaxCount : t' = ApplyCount(t, id, count)
  \/ /\ queued' = TRUE /\ text' = text /\ timer' = FALSE /\ byUser' = {}
     /\ t' = SetFilter(t, Terms(text))
  \/ /\ queued' = TRUE /\ text' = text /\ (timer' <=> timer) /\ byUser' = {}
     /\ t' = IF text # <<>> THEN SetFilter(EmptyTree, Terms(text)) ELSE EmptyTree
  \/ /\ queued' = FALSE /\ text' = text /\ (timer' <=> timer) /\ byUser' = byUser
     /\ t' = WithRows(t) /\ drawn' = Rows(t)

LEMMA InTreeStep ==
  ASSUME NEW tree, Browsed(tree), NEW at, NEW detail, InTree(tree, at, detail)
  PROVE  TreeStep
<1>1. /\ queued' = TRUE /\ text' = text /\ timer' = timer
      /\ t' = tree /\ byUser' = ByUserAfter(tree)
  BY DEF InTree, ByUserAfter
<1> QED
  BY <1>1 DEF TreeStep

LEMMA GoToTree ==
  ASSUME NEW tree, Browsed(tree), NEW i, NEW detail, GoTo(tree, i, detail)
  PROVE  TreeStep
<1>1. \E at, other : InTree(tree, at, other)
  <2>1. CASE i \notin DOMAIN Rows(t)
    BY <2>1 DEF GoTo
  <2>2. CASE i \in DOMAIN Rows(t)
    BY <2>2 DEF GoTo
  <2> QED
    BY <2>1, <2>2
<1> QED
  BY <1>1, InTreeStep

LEMMA BrowsedAre ==
  /\ Browsed(t) /\ Browsed(WithRows(t))
  /\ \A p : Browsed(Turn(p))
  /\ \A p : \A open \in BOOLEAN : Browsed(Toggle(WithRows(t), p, open))
<1>1. \A p : (~IsOpen(t, p)) \in BOOLEAN
  OBVIOUS
<1> QED
  BY <1>1 DEF Browsed, Turn

LEMMA UserTreeStep ==
  ASSUME User
  PROVE  TreeStep
<1>1. ASSUME NEW p \in ToSet(drawn), NEW onChevron \in BOOLEAN, Click(p, onChevron)
      PROVE  TreeStep
  <2>1. PICK id : id = t.nodes[p].id
    OBVIOUS
  <2>2. InTree(t, p, Select(d, id)) \/ InTree(Turn(p), p, d)
    BY <1>1, <2>1 DEF Click
  <2> QED
    BY <2>2, InTreeStep, BrowsedAre
<1>2. ASSUME NEW key \in MoveKeys, Move(key)
      PROVE  TreeStep
  <2>1. \E i : GoTo(WithRows(t), i, d)
    BY <1>2 DEF Move
  <2> QED
    BY <2>1, GoToTree, BrowsedAre
<1>3. ArrowRight => TreeStep
  <2> SUFFICES ASSUME ArrowRight
               PROVE  TreeStep
    OBVIOUS
  <2>1. \E i : GoTo(WithRows(t), i, d) \/ GoTo(Toggle(WithRows(t), cursor, TRUE), i, d)
    BY DEF ArrowRight
  <2> QED
    BY <2>1, GoToTree, BrowsedAre
<1>4. ArrowLeft => TreeStep
  <2> SUFFICES ASSUME ArrowLeft
               PROVE  TreeStep
    OBVIOUS
  <2>1. \E i : GoTo(WithRows(t), i, d) \/ GoTo(Toggle(WithRows(t), cursor, FALSE), i, d)
    BY DEF ArrowLeft
  <2> QED
    BY <2>1, GoToTree, BrowsedAre
<1>5. Enter => TreeStep
  <2> SUFFICES ASSUME Enter
               PROVE  TreeStep
    OBVIOUS
  <2>1. PICK id : id = t.nodes[cursor].id
    OBVIOUS
  <2>2. \E i, detail : GoTo(Turn(cursor), i, detail) \/ GoTo(WithRows(t), i, detail)
    BY <2>1 DEF Enter
  <2> QED
    BY <2>2, GoToTree, BrowsedAre
<1>6. Pin \/ BackToLive => TreeStep
  BY DEF Pin, BackToLive, Shows, TreeStep
<1>7. Type => TreeStep
  BY DEF Type, Edits, TreeStep
<1>8. ASSUME NEW cells \in Clips, NEW at \in 0..Len(text), Paste(cells, at)
      PROVE  TreeStep
  BY <1>8 DEF Paste, Edits, TreeStep
<1>9. FilterCompare => TreeStep
  <2> SUFFICES ASSUME FilterCompare
               PROVE  TreeStep
    OBVIOUS
  <2>1. /\ queued' = TRUE /\ text' = text /\ timer' = FALSE
        /\ timer => t' = SetFilter(t, Terms(text)) /\ byUser' = {}
        /\ ~timer => t' = t /\ byUser' = byUser
    BY DEF FilterCompare
  <2> QED
    BY <2>1 DEF TreeStep
<1>10. ASSUME NEW id \in DOMAIN t.byId, ToggleCompare(t.byId[id])
       PROVE  TreeStep
  BY <1>10 DEF ToggleCompare, TreeStep
<1> QED
  BY <1>1, <1>2, <1>3, <1>4, <1>5, <1>6, <1>7, <1>8, <1>9, <1>10 DEF User

LEMMA StepOfTree == [Next]_vars => TreeStep
<1>1. ASSUME NEW n \in 1..2, NEW paths \in [1..n -> Paths], IsInjective(paths), Names(paths)
      PROVE  TreeStep
  <2>1. queued' = TRUE /\ text' = text /\ timer' = timer /\ byUser' = byUser
    BY <1>1 DEF Names
  <2> QED
    BY <1>1, <2>1 DEF TreeStep
<1>2. ASSUME NEW id \in DOMAIN t.byId, NEW count \in 1..MaxCount, Counts(id, count)
      PROVE  TreeStep
  BY <1>2 DEF Counts, TreeStep
<1>3. ASSUME NEW msgs, History(msgs)
      PROVE  TreeStep
  BY <1>3 DEF History, TreeStep
<1>4. ResetClient => TreeStep
  BY DEF ResetClient, TreeStep
<1>5. Frame => TreeStep
  <2> SUFFICES ASSUME Frame
               PROVE  TreeStep
    OBVIOUS
  <2>1. /\ queued' = FALSE /\ text' = text /\ timer' = timer /\ byUser' = byUser
        /\ t' = WithRows(t) /\ drawn' = Rows(t)
    BY DEF Frame
  <2> QED
    BY <2>1 DEF TreeStep
<1>6. ApplyFilter => TreeStep
  BY DEF ApplyFilter, TreeStep
<1>7. UNCHANGED vars => TreeStep
  BY DEF vars, TreeStep
<1> QED
  BY <1>1, <1>2, <1>3, <1>4, <1>5, <1>6, <1>7, UserTreeStep DEF Next, Tick

(***************************************************************************)
(* The inductive invariant: the tree's own, the terms of a filter that is  *)
(* applied, and what the three properties say.                             *)
(***************************************************************************)
BInv ==
  /\ TreeInv(t)
  /\ ~timer => t.terms = Terms(text)
  /\ RowsAreFresh
  /\ ClosedByUser

LEMMA NoTerms == Terms(<<>>) = {}
<1>1. DOMAIN <<>> = {}
  OBVIOUS
<1> QED
  BY <1>1 DEF Terms

LEMMA BInit == Init => BInv
<1> SUFFICES ASSUME Init
             PROVE  BInv
  OBVIOUS
<1>1. TreeInv(t) /\ t.terms = {} /\ t.rows = NoRows
  BY EmptyTreeInv DEF Init, EmptyTree
<1> QED
  BY <1>1, NoTerms DEF Init, BInv, RowsAreFresh, ClosedByUser, Filtering

\* The filter is applied to a tree that satisfies the invariant.
LEMMA FilterBInv ==
  ASSUME NEW u, TreeInv(u), t' = SetFilter(u, Terms(text)), queued' = TRUE, text' = text
  PROVE  BInv'
<1>1. PICK v : v = SetFilter(u, Terms(text))
  OBVIOUS
<1>2. /\ TreeInv(v) /\ v.terms = Terms(text) /\ v.rows = NoRows
      /\ Filtering(v) => \A p \in DOMAIN v.nodes : ~ (Marked(v, p) /\ v.nodes[p].fcollapsed)
  BY <1>1, FilterInv
<1>3. t' = v
  BY <1>1
<1> QED
  BY <1>2, <1>3 DEF BInv, RowsAreFresh, ClosedByUser

LEMMA BStep == BInv /\ [Next]_vars => BInv'
<1> SUFFICES ASSUME BInv, [Next]_vars
             PROVE  BInv'
  OBVIOUS
<1>1. TreeStep
  BY StepOfTree
<1>2. /\ TreeInv(t) /\ Typed(t) /\ (~timer => t.terms = Terms(text))
      /\ t.rows # NoRows => t.rows = FreshRows(t)
      /\ ~queued => drawn = FreshRows(t)
      /\ Filtering(t) => \A p \in DOMAIN t.nodes : Marked(t, p) /\ t.nodes[p].fcollapsed => p \in byUser
  BY DEF BInv, RowsAreFresh, ClosedByUser, TreeInv
<1>3. CASE /\ t' = t /\ byUser' = byUser
           /\ queued' = TRUE \/ (drawn' = drawn /\ queued' = queued)
           /\ timer' = TRUE \/ (text' = text /\ (timer' <=> timer))
  BY <1>2, <1>3 DEF BInv, RowsAreFresh, ClosedByUser
<1>4. ASSUME queued' = TRUE, text' = text, timer' <=> timer,
             NEW tree, Browsed(tree), t' = tree, byUser' = ByUserAfter(tree)
      PROVE  BInv'
  <2>1. PICK base \in {t, WithRows(t)} :
          tree = base \/ \E p : \E open \in BOOLEAN : tree = Toggle(base, p, open)
    BY <1>4 DEF Browsed
  <2>2. /\ TreeInv(base) /\ Typed(base) /\ SameMarks(t, base)
        /\ base.rows # NoRows => base.rows = FreshRows(base)
    <3>1. CASE base = t
      BY <1>2, <3>1 DEF SameMarks
    <3>2. CASE base = WithRows(t)
      <4>1. TreeInv(base) /\ SameMarks(t, base) /\ base.rows = Rows(t) /\ FreshRows(base) = FreshRows(t)
        BY <1>2, <3>2, WithRowsIs
      <4> QED
        BY <1>2, <4>1 DEF TreeInv, Rows
    <3> QED
      BY <3>1, <3>2
  <2>3. /\ TreeInv(tree) /\ SameMarks(t, tree)
        /\ tree.rows # NoRows => tree.rows = FreshRows(tree)
    <3>1. CASE tree = base
      BY <2>2, <3>1
    <3>2. CASE \E p : \E open \in BOOLEAN : tree = Toggle(base, p, open)
      <4>1. PICK p : \E open \in BOOLEAN : tree = Toggle(base, p, open)
        BY <3>2
      <4>2. tree = base \/ (Typed(tree) /\ tree.rows = NoRows /\ SameMarks(base, tree))
        BY <2>2, <4>1, ToggleIs
      <4>3. CASE tree # base
        <5>1. TreeInv(tree)
          BY <2>2, <4>2, <4>3, SameMarksInv
        <5> QED
          BY <2>2, <4>2, <4>3, <5>1 DEF SameMarks
      <4> QED
        BY <2>2, <4>3
    <3> QED
      BY <2>1, <3>1, <3>2
  <2>4. ASSUME Filtering(tree), NEW p \in DOMAIN tree.nodes, Marked(tree, p), tree.nodes[p].fcollapsed
        PROVE  p \in byUser'
    <3>1. p \in DOMAIN t.nodes /\ Marked(t, p) /\ Filtering(t)
      BY <2>3, <2>4 DEF SameMarks, Marked, Filtering
    <3>2. p \in Closed(tree)
      BY <2>4 DEF Closed
    <3>3. p \in byUser \/ p \notin Closed(t)
      BY <1>2, <3>1 DEF Closed
    <3> QED
      BY <1>4, <3>2, <3>3 DEF ByUserAfter
  <2>5. t'.terms = t.terms
    BY <1>4, <2>3 DEF SameMarks
  <2> QED
    BY <1>2, <1>4, <2>3, <2>4, <2>5 DEF BInv, RowsAreFresh, ClosedByUser
<1>5. ASSUME queued' = TRUE, text' = text, timer' <=> timer, byUser' = byUser,
             NEW n, n \in 1..2, NEW paths, paths \in [1..n -> Paths], Names(paths)
      PROVE  BInv'
  <2>1. PICK first : first = Cardinality(DOMAIN t.byId) + 1
    OBVIOUS
  <2>2. first \in Nat
    BY <1>2, <2>1, FS_CardinalityType DEF Typed
  <2>3. t' = AddTopics(t, first, paths)
    BY <1>5, <2>1 DEF Names
  <2>4. paths \in [1..n -> Seq(Segments)]
    BY <1>5, BrowseAssumption
  <2>5. PICK v : v = AddTopics(t, first, paths)
    OBVIOUS
  <2>6. /\ TreeInv(v) /\ v.terms = t.terms /\ v.rows = NoRows
        /\ Filtering(t) => NoNewClosed(t, v)
    <3>1. NewPaths(n, paths)
      BY <1>5, <2>4 DEF NewPaths
    <3> QED
      BY <1>2, <2>2, <2>5, <3>1, AddTopicsInv
  <2>7. t' = v
    BY <2>3, <2>5
  <2>8. Filtering(v) <=> Filtering(t)
    BY <2>6 DEF Filtering
  <2> QED
    BY <1>2, <1>5, <2>6, <2>7, <2>8 DEF BInv, RowsAreFresh, ClosedByUser, NoNewClosed
<1>6. ASSUME queued' = TRUE, text' = text, timer' <=> timer, byUser' = byUser,
             NEW id \in DOMAIN t.byId, NEW count \in 1..MaxCount, t' = ApplyCount(t, id, count)
      PROVE  BInv'
  <2>1. count \in Nat
    BY BrowseAssumption
  <2>2. PICK v : v = ApplyCount(t, id, count)
    OBVIOUS
  <2>3. Typed(v) /\ v.rows = t.rows /\ SameMarks(t, v) /\ SameLook(t, v)
    BY <1>2, <2>1, <2>2, CountIs
  <2>4. TreeInv(v) /\ \A p \in DOMAIN v.nodes : Marked(v, p) <=> Marked(t, p)
    BY <1>2, <2>3, SameMarksInv
  <2>5. FreshRows(v) = FreshRows(t)
    BY <1>2, <2>3, SameRows
  <2>6. t' = v
    BY <1>6, <2>2
  <2>7. Filtering(v) <=> Filtering(t)
    BY <2>3 DEF SameLook, Filtering
  <2>8. v.terms = t.terms /\ DOMAIN v.nodes = DOMAIN t.nodes
        /\ \A p \in DOMAIN t.nodes : v.nodes[p].fcollapsed = t.nodes[p].fcollapsed
    BY <2>3 DEF SameLook
  <2> QED
    BY <1>2, <1>6, <2>3, <2>4, <2>5, <2>6, <2>7, <2>8 DEF BInv, RowsAreFresh, ClosedByUser
<1>7. CASE queued' = TRUE /\ text' = text /\ t' = SetFilter(t, Terms(text))
  BY <1>2, <1>7, FilterBInv
<1>8. CASE /\ queued' = TRUE /\ text' = text
           /\ t' = IF text # <<>> THEN SetFilter(EmptyTree, Terms(text)) ELSE EmptyTree
  <2>1. CASE text # <<>>
    BY <1>8, <2>1, EmptyTreeInv, FilterBInv
  <2>2. CASE text = <<>>
    <3>1. PICK v : v = EmptyTree
      OBVIOUS
    <3>2. TreeInv(v) /\ v.terms = {} /\ v.rows = NoRows /\ t' = v
      BY <1>8, <2>2, <3>1, EmptyTreeInv DEF EmptyTree
    <3> QED
      BY <1>8, <2>2, <3>2, NoTerms DEF BInv, RowsAreFresh, ClosedByUser, Filtering
  <2> QED
    BY <2>1, <2>2
<1>9. CASE /\ queued' = FALSE /\ text' = text /\ (timer' <=> timer) /\ byUser' = byUser
           /\ t' = WithRows(t) /\ drawn' = Rows(t)
  <2>1. PICK v : v = WithRows(t)
    OBVIOUS
  <2>2. /\ TreeInv(v) /\ SameMarks(t, v)
        /\ v.nodes = t.nodes /\ v.rows = Rows(t) /\ FreshRows(v) = FreshRows(t)
    BY <1>2, <2>1, WithRowsIs
  <2>3. Rows(t) = FreshRows(t)
    BY <1>2 DEF Rows
  <2>4. t' = v
    BY <1>9, <2>1
  <2>5. v.terms = t.terms /\ \A p \in DOMAIN v.nodes : Marked(v, p) <=> Marked(t, p)
    BY <2>2 DEF SameMarks, Marked
  <2> QED
    BY <1>2, <1>9, <2>2, <2>3, <2>4, <2>5 DEF BInv, RowsAreFresh, ClosedByUser, Filtering
<1> QED
  BY <1>1, <1>3, <1>4, <1>5, <1>6, <1>7, <1>8, <1>9 DEF TreeStep

LEMMA BHolds == Spec => []BInv
<1>1. Init => BInv
  BY BInit
<1>2. BInv /\ [Next]_vars => BInv'
  BY BStep
<1> QED
  BY <1>1, <1>2, PTL DEF Spec

(***************************************************************************)
(* While a filter is on, a node carries its mark if and only if a topic in *)
(* it matches, and the matches are counted once each (tree.js:145-152,     *)
(* 193-199): for any topics, any filters and any order of the two.         *)
(***************************************************************************)
THEOREM MarksCorrect == Spec => []MarksAreMatches
<1>1. BInv => MarksAreMatches
  <2>1. \A p : AtOrBelow(p) = Below(t, p)
    BY DEF AtOrBelow, Below
  <2> QED
    BY <2>1 DEF BInv, TreeInv, MarksRight, MarksAreMatches
<1> QED
  BY <1>1, BHolds, PTL

(***************************************************************************)
(* The rows in the cache, and those on screen when no frame is due, are    *)
(* what a walk of the tree would find now (tree.js:223-224).               *)
(***************************************************************************)
THEOREM RowsCorrect == Spec => []RowsAreFresh
<1>1. BInv => RowsAreFresh
  BY DEF BInv
<1> QED
  BY <1>1, BHolds, PTL

(***************************************************************************)
(* What is closed under a filter was closed by the user, and under this    *)
(* filter (tree.js:24).                                                    *)
(***************************************************************************)
THEOREM ClosedCorrect == Spec => []ClosedByUser
<1>1. BInv => ClosedByUser
  BY DEF BInv
<1> QED
  BY <1>1, BHolds, PTL

-----------------------------------------------------------------------------
(***************************************************************************)
(* Sums over finite sets.  A sum is a fold that takes the elements as they *)
(* are picked; it is the same in whatever order they are taken.            *)
(***************************************************************************)
LEMMA SubsetInduction ==
  ASSUME NEW S, IsFiniteSet(S), NEW T,
         \A s \in SUBSET S : (\A r \in SUBSET s : r # s => r \in T) => s \in T
  PROVE  \A s \in SUBSET S : s \in T
<1> DEFINE Sizes == {n \in Nat : \E s \in SUBSET S : s \notin T /\ Cardinality(s) = n}
<1> SUFFICES ASSUME NEW x \in SUBSET S, x \notin T
             PROVE  FALSE
  OBVIOUS
<1>1. \A s \in SUBSET S : IsFiniteSet(s) /\ Cardinality(s) \in Nat
  BY FS_Subset, FS_CardinalityType
<1>2. Sizes \in SUBSET Nat /\ Sizes # {}
  BY <1>1
<1>3. PICK m \in Sizes : \A n \in Sizes : m <= n
  BY <1>2, Least
<1>4. PICK s \in SUBSET S : s \notin T /\ Cardinality(s) = m
  OBVIOUS
<1>5. PICK r \in SUBSET s : r # s /\ r \notin T
  BY <1>4
<1>6. Cardinality(r) \in Nat /\ Cardinality(r) <= m /\ Cardinality(r) # m
  BY <1>1, <1>4, <1>5, FS_Subset
<1>7. Cardinality(r) \in Sizes
  BY <1>5, <1>6
<1>8. m \in Nat
  OBVIOUS
<1> HIDE DEF Sizes
<1> QED
  BY <1>3, <1>6, <1>7, <1>8

IsSum(f, S, w) == f = [s \in SUBSET S |-> IF s = {} THEN 0 ELSE w[Pick(s)] + f[s \ {Pick(s)}]]

Total(w, S) == (CHOOSE f : IsSum(f, S, w))[S]

\* The numbers that are summed, and what a sum of them says.
Numbers(w, S) == \A x \in S : w[x] \in Int

Sums(f, S, w) ==
  /\ f[{}] = 0
  /\ \A s \in SUBSET S : f[s] \in Int
  /\ \A s \in SUBSET S : s # {} => f[s] = w[Pick(s)] + f[s \ {Pick(s)}]

LEMMA PickIn == \A s : s # {} => Pick(s) \in s
BY DEF Pick

LEMMA SumExists ==
  ASSUME NEW S, IsFiniteSet(S), NEW w, Numbers(w, S)
  PROVE  \E f : IsSum(f, S, w)
<1>1. PICK pick : pick = [s \in SUBSET S |-> Pick(s)]
  OBVIOUS
<1>2. IsPick(pick, S)
  BY <1>1, PickIn DEF IsPick
<1>3. PICK g : g = [xn \in S \X Int |-> w[xn[1]] + xn[2]]
  OBVIOUS
<1>4. PICK f : IsFold(f, S, pick, 0, g)
  BY <1>2, FoldExists
<1>5. \A s \in SUBSET S : f[s] = IF s = {} THEN 0 ELSE g[<<pick[s], f[s \ {pick[s]}]>>]
  BY <1>4 DEF IsFold
<1>6. PICK T : T = {s \in SUBSET S : f[s] \in Int}
  OBVIOUS
<1>7. {} \in T
  <2>1. {} \in SUBSET S
    OBVIOUS
  <2>2. f[{}] = 0
    BY <1>5, <2>1
  <2> QED
    BY <1>6, <2>1, <2>2
<1>8. ASSUME NEW s \in SUBSET S, s # {}, s \ {pick[s]} \in T
      PROVE  s \in T /\ f[s] = w[Pick(s)] + f[s \ {Pick(s)}]
  <2>1. PICK x : x = Pick(s) /\ x \in S /\ pick[s] = x
    BY <1>1, <1>8, PickIn
  <2>2. PICK k : k = f[s \ {x}] /\ k \in Int
    BY <1>6, <1>8, <2>1
  <2>3. f[s] = g[<<x, k>>]
    BY <1>5, <1>8, <2>1, <2>2
  <2>4. <<x, k>> \in S \X Int
    BY <2>1, <2>2
  <2>5. g[<<x, k>>] = w[x] + k
    BY <1>3, <2>4
  <2>6. f[s] \in Int
    BY <2>1, <2>2, <2>3, <2>5 DEF Numbers
  <2> QED
    BY <1>6, <2>1, <2>2, <2>3, <2>5, <2>6
<1>9. \A s \in SUBSET S : s \in T
  <2>1. \A s \in SUBSET S : s # {} /\ s \ {pick[s]} \in T => s \in T
    BY <1>8
  <2> QED
    BY <1>2, <1>7, <2>1, SetInduction
<1>10. ASSUME NEW s \in SUBSET S
       PROVE  f[s] = IF s = {} THEN 0 ELSE w[Pick(s)] + f[s \ {Pick(s)}]
  <2>1. s \ {pick[s]} \in T
    BY <1>9
  <2>2. s = {} => f[s] = 0
    BY <1>5
  <2> QED
    BY <1>8, <2>1, <2>2
<1>11. f = [s \in SUBSET S |-> f[s]]
  BY <1>4 DEF IsFold
<1>12. f = [s \in SUBSET S |-> IF s = {} THEN 0 ELSE w[Pick(s)] + f[s \ {Pick(s)}]]
  BY <1>10, <1>11
<1> QED
  BY <1>12 DEF IsSum

LEMMA SumIs ==
  ASSUME NEW S, IsFiniteSet(S), NEW w, Numbers(w, S), NEW f, IsSum(f, S, w)
  PROVE  Sums(f, S, w)
<1>1. ASSUME NEW s \in SUBSET S
      PROVE  f[s] = IF s = {} THEN 0 ELSE w[Pick(s)] + f[s \ {Pick(s)}]
  BY DEF IsSum
<1>2. f[{}] = 0
  BY <1>1
<1>3. PICK pick : pick = [s \in SUBSET S |-> Pick(s)]
  OBVIOUS
<1>4. IsPick(pick, S)
  BY <1>3, PickIn DEF IsPick
<1>5. PICK T : T = {s \in SUBSET S : f[s] \in Int}
  OBVIOUS
<1>6. {} \in T
  BY <1>2, <1>5
<1>7. ASSUME NEW s \in SUBSET S, s # {}, s \ {pick[s]} \in T
      PROVE  s \in T
  <2>1. PICK x : x = Pick(s) /\ x \in S /\ pick[s] = x
    BY <1>3, <1>7, PickIn
  <2> QED
    BY <1>1, <1>5, <1>7, <2>1 DEF Numbers
<1>8. \A s \in SUBSET S : s \in T
  BY <1>4, <1>6, <1>7, SetInduction
<1> QED
  BY <1>1, <1>2, <1>5, <1>8 DEF Sums

(* The sum of a part is the sum of the whole, stopped there. *)
LEMMA SumOfPart ==
  ASSUME NEW S, IsFiniteSet(S), NEW w, Numbers(w, S), NEW f, IsSum(f, S, w),
         NEW R \in SUBSET S
  PROVE  f[R] = Total(w, R)
<1>1. IsFiniteSet(R)
  BY FS_Subset
<1>0. Numbers(w, R)
  BY DEF Numbers
<1>2. PICK g : g = (CHOOSE h : IsSum(h, R, w)) /\ IsSum(g, R, w)
  <2>1. \E h : IsSum(h, R, w)
    BY <1>0, <1>1, SumExists
  <2> QED
    BY <2>1
<1>3. /\ f[{}] = 0 /\ g[{}] = 0
      /\ \A s \in SUBSET R : s # {} => /\ f[s] = w[Pick(s)] + f[s \ {Pick(s)}]
                                       /\ g[s] = w[Pick(s)] + g[s \ {Pick(s)}]
  <2>1. /\ g[{}] = 0
        /\ \A s \in SUBSET R : s # {} => g[s] = w[Pick(s)] + g[s \ {Pick(s)}]
    <3>1. Sums(g, R, w)
      BY <1>0, <1>1, <1>2, SumIs
    <3> QED
      BY <3>1 DEF Sums
  <2>2. /\ f[{}] = 0
        /\ \A s \in SUBSET S : s # {} => f[s] = w[Pick(s)] + f[s \ {Pick(s)}]
    <3>1. Sums(f, S, w)
      BY SumIs
    <3> QED
      BY <3>1 DEF Sums
  <2> QED
    BY <2>1, <2>2
<1>4. PICK pick : pick = [s \in SUBSET R |-> Pick(s)]
  OBVIOUS
<1>5. IsPick(pick, R)
  BY <1>4, PickIn DEF IsPick
<1>6. PICK T : T = {s \in SUBSET R : f[s] = g[s]}
  OBVIOUS
<1>7. {} \in T
  BY <1>3, <1>6
<1>8. ASSUME NEW s \in SUBSET R, s # {}, s \ {pick[s]} \in T
      PROVE  s \in T
  <2>1. PICK x : x = Pick(s) /\ pick[s] = x
    BY <1>4
  <2> QED
    BY <1>3, <1>6, <1>8, <2>1
<1>9. \A s \in SUBSET R : s \in T
  BY <1>1, <1>5, <1>7, <1>8, SetInduction
<1> QED
  BY <1>2, <1>6, <1>9 DEF Total

LEMMA TotalEmpty ==
  ASSUME NEW w
  PROVE  Total(w, {}) = 0
<1>1. IsFiniteSet({}) /\ Numbers(w, {})
  BY FS_EmptySet DEF Numbers
<1>2. PICK f : IsSum(f, {}, w)
  BY <1>1, SumExists
<1>3. f[{}] = Total(w, {})
  BY <1>1, <1>2, SumOfPart
<1>4. f[{}] = 0
  BY <1>1, <1>2, SumIs DEF Sums
<1> QED
  BY <1>3, <1>4

LEMMA TotalRemove ==
  ASSUME NEW S, IsFiniteSet(S), NEW w, Numbers(w, S)
  PROVE  /\ Total(w, S) \in Int
         /\ \A x \in S : Total(w, S) = w[x] + Total(w, S \ {x})
<1>1. PICK f : IsSum(f, S, w)
  BY SumExists
<1>2. /\ \A s \in SUBSET S : f[s] \in Int /\ f[s] = Total(w, s)
      /\ \A s \in SUBSET S : s # {} => f[s] = w[Pick(s)] + f[s \ {Pick(s)}]
  <2>1. Sums(f, S, w)
    BY <1>1, SumIs
  <2>2. \A s \in SUBSET S : f[s] = Total(w, s)
    BY <1>1, SumOfPart
  <2> QED
    BY <2>1, <2>2 DEF Sums
<1>3. PICK T : T = {s \in SUBSET S : \A x \in s : f[s] = w[x] + f[s \ {x}]}
  OBVIOUS
<1>4. ASSUME NEW s \in SUBSET S, \A r \in SUBSET s : r # s => r \in T
      PROVE  s \in T
  <2>1. SUFFICES ASSUME NEW x \in s
                 PROVE  f[s] = w[x] + f[s \ {x}]
    BY <1>3
  <2>2. PICK y : y = Pick(s) /\ y \in s
    BY PickIn
  <2>3. f[s] = w[y] + f[s \ {y}]
    BY <1>2, <2>2
  <2>4. CASE x # y
    <3>a. PICK a : a = s \ {y}
      OBVIOUS
    <3>b. PICK b : b = s \ {x}
      OBVIOUS
    <3>c. PICK c : c = a \ {x}
      OBVIOUS
    <3>1. a = s \ {y} /\ b = s \ {x} /\ c = a \ {x} /\ c = b \ {y}
      BY <3>a, <3>b, <3>c
    <3>2. a \in T /\ b \in T /\ x \in a /\ y \in b
      BY <1>4, <2>2, <2>4, <3>1
    <3>3. f[a] = w[x] + f[c] /\ f[b] = w[y] + f[c]
      BY <1>3, <3>1, <3>2
    <3>4. f[c] \in Int /\ w[x] \in Int /\ w[y] \in Int
      <4>1. c \in SUBSET S
        BY <3>1
      <4> QED
        BY <1>2, <2>2, <4>1 DEF Numbers
    <3>5. f[s] = w[y] + f[a] /\ f[s \ {x}] = f[b]
      BY <2>3, <3>1
    <3> QED
      BY ONLY <3>3, <3>4, <3>5
  <2> QED
    BY <2>2, <2>3, <2>4
<1>5. \A s \in SUBSET S : s \in T
  BY <1>4, SubsetInduction
<1>6. \A x \in S : f[S] = w[x] + f[S \ {x}]
  BY <1>3, <1>5
<1> QED
  BY <1>2, <1>6

LEMMA TotalAdd ==
  ASSUME NEW S, IsFiniteSet(S), NEW x, x \notin S, NEW w, Numbers(w, S \cup {x})
  PROVE  Total(w, S \cup {x}) = w[x] + Total(w, S)
<1>1. PICK U : U = S \cup {x}
  OBVIOUS
<1>2. IsFiniteSet(U) /\ U \ {x} = S /\ x \in U /\ Numbers(w, U)
  BY <1>1, FS_AddElement
<1>3. Total(w, U) = w[x] + Total(w, U \ {x})
  BY <1>2, TotalRemove
<1> QED
  BY <1>1, <1>2, <1>3

LEMMA TotalSame ==
  ASSUME NEW S, NEW w, NEW v, \A x \in S : w[x] = v[x]
  PROVE  Total(w, S) = Total(v, S)
<1>1. ASSUME NEW f
      PROVE  IsSum(f, S, w) <=> IsSum(f, S, v)
  <2>1. \A s \in SUBSET S : s # {} => w[Pick(s)] = v[Pick(s)]
    BY PickIn
  <2>2. [s \in SUBSET S |-> IF s = {} THEN 0 ELSE w[Pick(s)] + f[s \ {Pick(s)}]]
          = [s \in SUBSET S |-> IF s = {} THEN 0 ELSE v[Pick(s)] + f[s \ {Pick(s)}]]
    BY <2>1
  <2> QED
    BY <2>2 DEF IsSum
<1> QED
  BY <1>1 DEF Total

LEMMA TotalChange ==
  ASSUME NEW S, IsFiniteSet(S), NEW x \in S, NEW w, NEW v,
         Numbers(w, S), Numbers(v, S), \A y \in S \ {x} : w[y] = v[y]
  PROVE  Total(v, S) = Total(w, S) + (v[x] - w[x])
<1>1. PICK R : R = S \ {x}
  OBVIOUS
<1>2. IsFiniteSet(R) /\ Numbers(w, R)
  BY <1>1, FS_Subset DEF Numbers
<1>3. Total(w, R) = Total(v, R)
  BY <1>1, TotalSame
<1>4. Total(w, R) \in Int
  BY <1>2, TotalRemove
<1>5. Total(w, S) = w[x] + Total(w, R)
  BY <1>1, TotalRemove
<1>6. Total(v, S) = v[x] + Total(v, R)
  BY <1>1, TotalRemove
<1>7. w[x] \in Int /\ v[x] \in Int
  BY DEF Numbers
<1> QED
  BY <1>3, <1>4, <1>5, <1>6, <1>7

(* The operator of the module library is this sum. *)
CountOf(u) == [id \in DOMAIN u.byId |-> u.nodes[u.byId[id]].count]

LEMMA SumOfCounts ==
  ASSUME NEW u, NEW S \in SUBSET DOMAIN u.byId
  PROVE  MapThenSumSet(LAMBDA id : u.nodes[u.byId[id]].count, S) = Total(CountOf(u), S)
<1> DEFINE Run(f) == f = [s \in SUBSET S |-> IF s = {} THEN 0
                                            ELSE u.nodes[u.byId[Pick(s)]].count + f[s \ {Pick(s)}]]
<1>1. MapThenSumSet(LAMBDA id : u.nodes[u.byId[id]].count, S) = (CHOOSE f : Run(f))[S]
  BY DEF MapThenSumSet, MapThenFoldSet, Pick
<1>2. ASSUME NEW f
      PROVE  Run(f) <=> IsSum(f, S, CountOf(u))
  <2>1. \A s \in SUBSET S : s # {} => CountOf(u)[Pick(s)] = u.nodes[u.byId[Pick(s)]].count
    BY PickIn DEF CountOf
  <2>2. [s \in SUBSET S |-> IF s = {} THEN 0 ELSE CountOf(u)[Pick(s)] + f[s \ {Pick(s)}]]
          = [s \in SUBSET S |-> IF s = {} THEN 0
                                ELSE u.nodes[u.byId[Pick(s)]].count + f[s \ {Pick(s)}]]
    BY <2>1
  <2> QED
    BY <2>2 DEF IsSum
<1>3. (CHOOSE f : Run(f)) = (CHOOSE f : IsSum(f, S, CountOf(u)))
  <2> HIDE DEF Run
  <2> QED
    BY <1>2
<1> QED
  BY <1>1, <1>3 DEF Total

-----------------------------------------------------------------------------
(***************************************************************************)
(* The numbers of a tree: no two topics have the same path, a node that is *)
(* no topic has counted nothing, and every node has the leaves and the     *)
(* total of the topics below it.                                           *)
(***************************************************************************)
OneTopicEach(u) == \A i, j \in DOMAIN u.byId : u.byId[i] = u.byId[j] => i = j

FoldersCountNothing(u) ==
  \A p \in DOMAIN u.nodes : (\A i \in DOMAIN u.byId : u.byId[i] # p) => u.nodes[p].count = 0

SumsRight(u) ==
  \A p \in DOMAIN u.nodes :
    /\ u.nodes[p].leaves = Cardinality(Below(u, p))
    /\ u.nodes[p].total = Total(CountOf(u), Below(u, p))

SumInv(u) == OneTopicEach(u) /\ FoldersCountNothing(u) /\ SumsRight(u)

LEMMA BelowIs ==
  ASSUME NEW u, Typed(u), NEW p
  PROVE  /\ IsFiniteSet(Below(u, p)) /\ Below(u, p) \subseteq DOMAIN u.byId
         /\ Numbers(CountOf(u), Below(u, p)) /\ Cardinality(Below(u, p)) \in Nat
<1>1. IsFiniteSet(Below(u, p)) /\ Below(u, p) \subseteq DOMAIN u.byId
  BY FS_Subset DEF Below, Typed
<1>2. ASSUME NEW i \in DOMAIN u.byId
      PROVE  CountOf(u)[i] \in Int
  <2>1. PICK q : q = u.byId[i] /\ q \in DOMAIN u.nodes
    BY DEF Typed
  <2>2. u.nodes[q] \in Nodes
    BY <2>1 DEF Typed
  <2>3. u.nodes[q].count \in Int
    BY <2>2 DEF Nodes
  <2> QED
    BY <2>1, <2>3 DEF CountOf
<1> QED
  BY <1>1, <1>2, FS_CardinalityType DEF Numbers

LEMMA SameNumbersSum ==
  ASSUME NEW u, Typed(u), SumInv(u), NEW v, SameNumbers(u, v)
  PROVE  SumInv(v)
<1>1. v.byId = u.byId /\ DOMAIN v.nodes = DOMAIN u.nodes
  BY DEF SameNumbers
<1>2. \A p : Below(v, p) = Below(u, p)
  BY <1>1 DEF Below
<1>3. CountOf(v) = CountOf(u)
  <2>1. \A i \in DOMAIN u.byId : v.nodes[u.byId[i]].count = u.nodes[u.byId[i]].count
    BY DEF SameNumbers, Typed
  <2> QED
    BY <1>1, <2>1 DEF CountOf
<1>4. OneTopicEach(v)
  BY <1>1 DEF SumInv, OneTopicEach
<1>5. FoldersCountNothing(v)
  BY <1>1 DEF SumInv, FoldersCountNothing, SameNumbers
<1>6. ASSUME NEW p \in DOMAIN v.nodes
      PROVE  /\ v.nodes[p].leaves = Cardinality(Below(v, p))
             /\ v.nodes[p].total = Total(CountOf(v), Below(v, p))
  <2>1. p \in DOMAIN u.nodes /\ v.nodes[p].leaves = u.nodes[p].leaves
        /\ v.nodes[p].total = u.nodes[p].total
    BY <1>1 DEF SameNumbers
  <2> QED
    BY <1>2, <1>3, <2>1 DEF SumInv, SumsRight
<1> QED
  BY <1>4, <1>5, <1>6 DEF SumInv, SumsRight

LEMMA EmptySum == SumInv(EmptyTree)
<1>1. PICK e : e = EmptyTree
  OBVIOUS
<1>2. e.nodes = [p \in {Root} |-> MakeNode(Root)] /\ e.byId = [i \in {} |-> Root]
  BY <1>1 DEF EmptyTree
<1>3. DOMAIN e.nodes = {Root} /\ DOMAIN e.byId = {} /\ e.nodes[Root] = MakeNode(Root)
  BY <1>2
<1>4. MakeNode(Root).count = 0 /\ MakeNode(Root).leaves = 0 /\ MakeNode(Root).total = 0
  BY DEF MakeNode
<1>5. \A p : Below(e, p) = {}
  BY <1>3 DEF Below
<1>6. Cardinality({}) = 0 /\ Total(CountOf(e), {}) = 0
  BY FS_EmptySet, TotalEmpty
<1> QED
  BY <1>1, <1>3, <1>4, <1>5, <1>6 DEF SumInv, OneTopicEach, FoldersCountNothing, SumsRight

LEMMA MarkedNumbers ==
  ASSUME NEW o \in Nodes, NEW gen \in Nat, NEW v, v = MarkedNode(o, gen)
  PROVE  v.id = o.id /\ v.count = o.count /\ v.total = o.total /\ v.leaves = o.leaves
BY DEF MarkedNode, Nodes

LEMMA FilterNumbers ==
  ASSUME NEW u, TreeInv(u), NEW terms, NEW v, v = SetFilter(u, terms)
  PROVE  SameNumbers(u, v)
<1>1. PICK b : b = Begun(u, terms)
  OBVIOUS
<1>2. Typed(u) /\ Typed(b) /\ b.nodes = u.nodes /\ b.byId = u.byId
  BY <1>1, BegunIs DEF TreeInv
<1>3. CASE terms = {}
  <2>1. v = b
    BY <1>1, <1>3, FilterIs DEF TreeInv
  <2> QED
    BY <1>2, <2>1 DEF SameNumbers
<1>4. CASE terms # {}
  <2>1. PICK S : S = DOMAIN u.byId
    OBVIOUS
  <2>2. v = MarkedFor(b, S)
    BY <1>1, <1>4, <2>1, FilterIs DEF TreeInv
  <2>3. /\ v.byId = b.byId /\ DOMAIN v.nodes = DOMAIN b.nodes
        /\ \A p \in DOMAIN b.nodes :
             v.nodes[p] = IF HitBelow(b, S, p) THEN MarkedNode(b.nodes[p], b.gen)
                          ELSE b.nodes[p]
    BY <1>2, <2>2, MarkedForIs
  <2>4. ASSUME NEW p \in DOMAIN u.nodes
        PROVE  /\ v.nodes[p].id = u.nodes[p].id /\ v.nodes[p].count = u.nodes[p].count
               /\ v.nodes[p].total = u.nodes[p].total /\ v.nodes[p].leaves = u.nodes[p].leaves
    <3>1. PICK o : o = b.nodes[p] /\ o \in Nodes /\ o = u.nodes[p]
      BY <1>2 DEF Typed
    <3>2. b.gen \in Nat
      BY <1>2 DEF Typed
    <3>3. PICK x : x = MarkedNode(o, b.gen)
      OBVIOUS
    <3>4. x.id = o.id /\ x.count = o.count /\ x.total = o.total /\ x.leaves = o.leaves
      BY <3>1, <3>2, <3>3, MarkedNumbers
    <3>5. v.nodes[p] = x \/ v.nodes[p] = o
      BY <1>2, <2>3, <3>1, <3>3
    <3> QED
      BY <3>1, <3>4, <3>5
  <2> QED
    BY <1>2, <2>3, <2>4 DEF SameNumbers
<1> QED
  BY <1>3, <1>4

LEMMA MarkNumbers ==
  ASSUME NEW u, Typed(u), NEW path, NEW v, v = Mark(u, path)
  PROVE  SameNumbers(u, v)
<1>1. /\ v.byId = u.byId /\ DOMAIN v.nodes = DOMAIN u.nodes
      /\ \A p \in DOMAIN u.nodes :
              v.nodes[p] = IF /\ IsPrefix(p, path)
                              /\ ~ \E q \in DOMAIN u.nodes :
                                     IsPrefix(q, path) /\ IsPrefix(p, q) /\ Marked(u, q)
                           THEN MarkedNode(u.nodes[p], u.gen)
                           ELSE u.nodes[p]
  BY MarkIs
<1>2. ASSUME NEW p \in DOMAIN u.nodes
      PROVE  /\ v.nodes[p].id = u.nodes[p].id /\ v.nodes[p].count = u.nodes[p].count
             /\ v.nodes[p].total = u.nodes[p].total /\ v.nodes[p].leaves = u.nodes[p].leaves
  <2>1. PICK o : o = u.nodes[p] /\ o \in Nodes
    BY DEF Typed
  <2>2. u.gen \in Nat
    BY DEF Typed
  <2>3. PICK x : x = MarkedNode(o, u.gen)
    OBVIOUS
  <2>4. x.id = o.id /\ x.count = o.count /\ x.total = o.total /\ x.leaves = o.leaves
    BY <2>1, <2>2, <2>3, MarkedNumbers
  <2>5. v.nodes[p] = x \/ v.nodes[p] = o
    BY <1>1, <2>1, <2>3
  <2> QED
    BY <2>1, <2>4, <2>5
<1> QED
  BY <1>1, <1>2 DEF SameNumbers

(* A count moves the totals above its topic by what it adds. *)
LEMMA CountSum ==
  ASSUME NEW u, TreeInv(u), SumInv(u), NEW id \in DOMAIN u.byId, NEW count \in Nat,
         NEW v, v = ApplyCount(u, id, count)
  PROVE  SumInv(v)
<1>1. Typed(u)
  BY DEF TreeInv
<1>2. PICK path : path = u.byId[id] /\ path \in DOMAIN u.nodes
  BY <1>1 DEF Typed
<1>3. /\ Typed(v) /\ v.byId = u.byId /\ DOMAIN v.nodes = DOMAIN u.nodes
      /\ \A p \in DOMAIN u.nodes :
              /\ v.nodes[p].leaves = u.nodes[p].leaves
              /\ v.nodes[p].count = IF p = path THEN count ELSE u.nodes[p].count
              /\ v.nodes[p].total = u.nodes[p].total + (IF IsPrefix(p, path)
                                                        THEN count - u.nodes[path].count ELSE 0)
  BY <1>1, <1>2, CountIs DEF SameLook
<1>4. \A p : Below(v, p) = Below(u, p)
  BY <1>3 DEF Below
<1>5. PICK w : w = CountOf(u)
  OBVIOUS
<1>6. PICK x : x = CountOf(v)
  OBVIOUS
<1>7. /\ w[id] = u.nodes[path].count /\ x[id] = count
      /\ \A i \in DOMAIN u.byId : i # id => x[i] = w[i]
  <2>1. \A i \in DOMAIN u.byId : u.byId[i] \in DOMAIN u.nodes /\ (i # id => u.byId[i] # path)
    BY <1>1, <1>2 DEF Typed, SumInv, OneTopicEach
  <2>2. \A i \in DOMAIN u.byId : w[i] = u.nodes[u.byId[i]].count /\ x[i] = v.nodes[u.byId[i]].count
    BY <1>3, <1>5, <1>6 DEF CountOf
  <2> QED
    BY <1>2, <1>3, <2>1, <2>2
<1>8. OneTopicEach(v)
  BY <1>3 DEF SumInv, OneTopicEach
<1>9. FoldersCountNothing(v)
  BY <1>2, <1>3 DEF SumInv, FoldersCountNothing
<1>10. ASSUME NEW p \in DOMAIN v.nodes
       PROVE  /\ v.nodes[p].leaves = Cardinality(Below(v, p))
              /\ v.nodes[p].total = Total(x, Below(v, p))
  <2>1. PICK B : B = Below(u, p)
    OBVIOUS
  <2>2. /\ B \subseteq DOMAIN u.byId /\ IsFiniteSet(B) /\ Numbers(w, B) /\ Numbers(x, B)
    BY <1>1, <1>3, <1>4, <1>5, <1>6, <2>1, BelowIs
  <2>3. u.nodes[p].leaves = Cardinality(B) /\ u.nodes[p].total = Total(w, B)
    BY <1>3, <1>5, <2>1 DEF SumInv, SumsRight
  <2>4. Total(w, B) \in Int
    BY <2>2, TotalRemove
  <2>5. v.nodes[p].total = Total(x, B)
    <3>1. CASE IsPrefix(p, path)
      <4>1. id \in B
        BY <1>2, <2>1, <3>1 DEF Below
      <4>2. \A i \in B \ {id} : w[i] = x[i]
        BY <1>7, <2>2
      <4>3. Total(x, B) = Total(w, B) + (x[id] - w[id])
        BY <2>2, <4>1, <4>2, TotalChange
      <4> QED
        BY <1>3, <1>7, <2>3, <3>1, <4>3
    <3>2. CASE ~ IsPrefix(p, path)
      <4>1. \A i \in B : w[i] = x[i]
        BY <1>2, <1>7, <2>1, <2>2, <3>2 DEF Below
      <4>2. Total(x, B) = Total(w, B)
        BY <4>1, TotalSame
      <4>3. v.nodes[p].total = u.nodes[p].total + 0
        BY <1>3, <3>2
      <4> QED
        BY <2>3, <2>4, <4>2, <4>3
    <3> QED
      BY <3>1, <3>2
  <2> QED
    BY <1>3, <1>4, <2>1, <2>3, <2>5
<1> QED
  BY <1>6, <1>8, <1>9, <1>10 DEF SumInv, SumsRight

-----------------------------------------------------------------------------
(* A new topic is one more leaf of every node above it. *)
LEMMA AddTopicSum ==
  ASSUME NEW u, TreeInv(u), SumInv(u), NEW id, id \in Nat, id \notin DOMAIN u.byId,
         NEW path, path \in Seq(Segments), \A i \in DOMAIN u.byId : u.byId[i] # path,
         NEW v, v = AddTopic(u, id, path)
  PROVE  SumInv(v) /\ v.byId = TopicAdded(u, id, path)
<1>1. PICK c : c = Counted(u, id, path)
  OBVIOUS
<1>2. Typed(u) /\ PathsThere(u)
  BY DEF TreeInv
<1>3. /\ Typed(c) /\ c.byId = TopicAdded(u, id, path)
      /\ DOMAIN c.nodes = DOMAIN u.nodes \cup Prefixes(path)
      /\ \A p \in DOMAIN c.nodes :
           /\ c.nodes[p].count = NodeBefore(u, p).count
           /\ c.nodes[p].total = NodeBefore(u, p).total
           /\ c.nodes[p].leaves = NodeBefore(u, p).leaves + (IF IsPrefix(p, path) THEN 1 ELSE 0)
  BY <1>1, <1>2, CountedIs
<1>4. /\ DOMAIN c.byId = DOMAIN u.byId \cup {id} /\ c.byId[id] = path
      /\ \A i \in DOMAIN u.byId : c.byId[i] = u.byId[i]
  BY <1>3 DEF TopicAdded
<1>5. v = c \/ v = Mark(c, path)
  BY <1>1, <1>4, AddTopicIs DEF MarkMatching
<1>6. SameNumbers(c, v)
  BY <1>3, <1>5, MarkNumbers DEF SameNumbers
<1>7. ASSUME NEW p \in DOMAIN c.nodes
      PROVE  /\ NodeBefore(u, p).leaves = Cardinality(Below(u, p))
             /\ NodeBefore(u, p).total = Total(CountOf(u), Below(u, p))
             /\ (\A i \in DOMAIN u.byId : u.byId[i] # p) => NodeBefore(u, p).count = 0
  <2>1. CASE p \in DOMAIN u.nodes
    BY <2>1 DEF NodeBefore, SumInv, SumsRight, FoldersCountNothing
  <2>2. CASE p \notin DOMAIN u.nodes
    <3>1. ASSUME NEW i \in DOMAIN u.byId, IsPrefix(p, u.byId[i])
          PROVE  FALSE
      <4>1. p \in Seq(Segments) /\ u.byId[i] \in Seq(Segments) /\ u.byId[i] \in DOMAIN u.nodes
        BY <1>2, <1>3 DEF Typed
      <4>2. p \in Prefixes(u.byId[i])
        BY <3>1, <4>1, PrefixesAre
      <4> QED
        BY <1>2, <2>2, <4>1, <4>2 DEF PathsThere
    <3>2. Below(u, p) = {}
      BY <3>1 DEF Below
    <3>3. MakeNode(p).count = 0 /\ MakeNode(p).leaves = 0 /\ MakeNode(p).total = 0
      BY DEF MakeNode
    <3>4. Cardinality({}) = 0 /\ Total(CountOf(u), {}) = 0
      BY FS_EmptySet, TotalEmpty
    <3>5. NodeBefore(u, p) = MakeNode(p)
      BY <2>2 DEF NodeBefore
    <3> QED
      BY <3>2, <3>3, <3>4, <3>5
  <2> QED
    BY <2>1, <2>2
<1>8. path \in DOMAIN c.nodes
  BY <1>3, PrefixesAre, PrefixRefl
<1>9. PICK w : w = CountOf(u)
  OBVIOUS
<1>10. PICK x : x = CountOf(c)
  OBVIOUS
<1>11. x[id] = 0 /\ \A i \in DOMAIN u.byId : x[i] = w[i]
  <2>1. x[id] = 0
    <3>1. x[id] = c.nodes[path].count
      BY <1>4, <1>10 DEF CountOf
    <3> QED
      BY <1>3, <1>7, <1>8, <3>1
  <2>2. ASSUME NEW i \in DOMAIN u.byId
        PROVE  x[i] = w[i]
    <3>1. PICK q : q = u.byId[i] /\ q \in DOMAIN u.nodes
      BY <1>2 DEF Typed
    <3>2. q \in DOMAIN c.nodes /\ c.nodes[q].count = u.nodes[q].count
      BY <1>3, <3>1 DEF NodeBefore
    <3>3. x[i] = c.nodes[q].count /\ w[i] = u.nodes[q].count
      BY <1>4, <1>9, <1>10, <3>1 DEF CountOf
    <3> QED
      BY <3>2, <3>3
  <2> QED
    BY <2>1, <2>2
<1>12. OneTopicEach(c)
  BY <1>4 DEF SumInv, OneTopicEach
<1>13. FoldersCountNothing(c)
  BY <1>3, <1>4, <1>7 DEF FoldersCountNothing
<1>14. ASSUME NEW p \in DOMAIN c.nodes
       PROVE  /\ c.nodes[p].leaves = Cardinality(Below(c, p))
              /\ c.nodes[p].total = Total(x, Below(c, p))
  <2>1. PICK B : B = Below(u, p)
    OBVIOUS
  <2>2. /\ B \subseteq DOMAIN u.byId /\ IsFiniteSet(B) /\ Numbers(w, B) /\ Cardinality(B) \in Nat
    BY <1>2, <1>9, <2>1, BelowIs
  <2>3. \A i \in B : x[i] = w[i]
    BY <1>11, <2>2
  <2>4. Total(x, B) = Total(w, B) /\ Total(w, B) \in Int
    BY <2>2, <2>3, TotalSame, TotalRemove
  <2>5. c.nodes[p].total = Total(w, B)
    BY <1>3, <1>7, <1>9, <2>1
  <2>6. NodeBefore(u, p).leaves = Cardinality(B)
    BY <1>7, <2>1
  <2>7. CASE IsPrefix(p, path)
    <3>1. PICK A : A = B \cup {id}
      OBVIOUS
    <3>2. Below(c, p) = A
      BY <1>4, <2>1, <2>7, <3>1 DEF Below
    <3>3. id \notin B
      BY <2>2
    <3>4. Cardinality(A) = Cardinality(B) + 1
      BY <2>2, <3>1, <3>3, FS_AddElement
    <3>5. Numbers(x, A)
      BY <1>11, <2>2, <2>3, <3>1 DEF Numbers
    <3>6. Total(x, A) = x[id] + Total(x, B)
      BY <2>2, <3>1, <3>3, <3>5, TotalAdd
    <3>7. c.nodes[p].leaves = Cardinality(B) + 1
      BY <1>3, <2>6, <2>7
    <3> QED
      BY <1>11, <2>4, <2>5, <3>2, <3>4, <3>6, <3>7
  <2>8. CASE ~ IsPrefix(p, path)
    <3>1. Below(c, p) = B
      BY <1>4, <2>1, <2>8 DEF Below
    <3>2. c.nodes[p].leaves = Cardinality(B) + 0
      BY <1>3, <2>6, <2>8
    <3> QED
      BY <2>2, <2>4, <2>5, <3>1, <3>2
  <2> QED
    BY <2>7, <2>8
<1>15. SumInv(c)
  BY <1>10, <1>12, <1>13, <1>14 DEF SumInv, SumsRight
<1> QED
  BY <1>3, <1>6, <1>15, SameNumbersSum DEF SameNumbers

NewOnes(u, first, n, paths) ==
  /\ NewPaths(n, paths) /\ IsInjective(paths)
  /\ \A i \in DOMAIN paths : \A id \in DOMAIN u.byId : u.byId[id] # paths[i]
  /\ \A id \in DOMAIN u.byId : id < first

LEMMA AddTopicsSum ==
  ASSUME NEW u, TreeInv(u), SumInv(u), NEW first, first \in Nat,
         NEW n, NEW paths, NewOnes(u, first, n, paths),
         NEW v, v = AddTopics(u, first, paths)
  PROVE  SumInv(v) /\ DOMAIN v.byId = DOMAIN u.byId \cup (first..(first + n - 1))
<1>1. PICK second : second = first + 1
  OBVIOUS
<1>2. /\ n \in 1..2 /\ DOMAIN paths = 1..n /\ \A i \in 1..n : paths[i] \in Seq(Segments)
      /\ \A i \in 1..n : \A id \in DOMAIN u.byId : u.byId[id] # paths[i]
      /\ \A id \in DOMAIN u.byId : id < first
      /\ \A i, j \in 1..n : i # j => paths[i] # paths[j]
  BY DEF NewOnes, NewPaths, IsInjective
<1>3. PICK w : /\ v = Cached(w, NoRows)
               /\ n = 1 => w = AddTopic(u, first, paths[1])
               /\ n = 2 => w = AddTopic(AddTopic(u, first, paths[1]), second, paths[2])
  <2>1. n \in 1..2 /\ DOMAIN paths = 1..n
    BY <1>2
  <2> QED
    BY ONLY <1>1, <2>1, first \in Nat, v = AddTopics(u, first, paths), AddTopicsIs
<1>4. PICK p : p = paths[1]
  OBVIOUS
<1>5. PICK x : x = AddTopic(u, first, p)
  OBVIOUS
<1>6. /\ first \notin DOMAIN u.byId /\ second \notin DOMAIN u.byId /\ second # first /\ second \in Nat
      /\ p \in Seq(Segments) /\ \A i \in DOMAIN u.byId : u.byId[i] # p
  BY <1>1, <1>2, <1>4
<1>7. SumInv(x) /\ x.byId = TopicAdded(u, first, p)
  BY <1>5, <1>6, AddTopicSum
<1>8. TreeInv(x)
  BY <1>5, <1>6, AddTopicInv
<1>9. DOMAIN x.byId = DOMAIN u.byId \cup {first} /\ x.byId[first] = p
      /\ \A i \in DOMAIN u.byId : x.byId[i] = u.byId[i]
  BY <1>6, <1>7 DEF TopicAdded
<1>10. SumInv(w) /\ TreeInv(w) /\ DOMAIN w.byId = DOMAIN u.byId \cup (first..(first + n - 1))
  <2>1. CASE n = 1
    <3>1. w = x
      BY <1>3, <1>4, <1>5, <2>1
    <3>2. first..(first + n - 1) = {first}
      BY <2>1
    <3> QED
      BY <1>7, <1>8, <1>9, <3>1, <3>2
  <2>2. CASE n = 2
    <3>1. PICK q : q = paths[2]
      OBVIOUS
    <3>2. q \in Seq(Segments) /\ q # p /\ \A i \in DOMAIN u.byId : u.byId[i] # q
      BY <1>2, <1>4, <2>2, <3>1
    <3>3. second \notin DOMAIN x.byId /\ \A i \in DOMAIN x.byId : x.byId[i] # q
      BY <1>6, <1>9, <3>2
    <3>4. w = AddTopic(x, second, q)
      BY <1>3, <1>4, <1>5, <2>2, <3>1
    <3>5. SumInv(w) /\ w.byId = TopicAdded(x, second, q)
      BY <1>6, <1>7, <1>8, <3>2, <3>3, <3>4, AddTopicSum
    <3>6. TreeInv(w)
      BY <1>6, <1>8, <3>2, <3>4, AddTopicInv
    <3>7. DOMAIN w.byId = DOMAIN x.byId \cup {second}
      BY <3>5 DEF TopicAdded
    <3>8. first..(first + n - 1) = {first, second}
      BY <1>1, <2>2
    <3> QED
      BY <1>9, <3>5, <3>6, <3>7, <3>8
  <2> QED
    BY <1>2, <2>1, <2>2
<1>11. Typed(w)
  BY <1>10 DEF TreeInv
<1>12. v.nodes = w.nodes /\ v.byId = w.byId
  BY <1>3, <1>11, NewRows
<1>13. SameNumbers(w, v)
  BY <1>12 DEF SameNumbers
<1> QED
  BY <1>10, <1>11, <1>12, <1>13, SameNumbersSum

(***************************************************************************)
(* The inductive invariant of the sums; the ids are those handed out.      *)
(***************************************************************************)
IdsHandedOut(u) == DOMAIN u.byId = 1..Cardinality(DOMAIN u.byId)

CInv == BInv /\ SumInv(t) /\ IdsHandedOut(t)

LEMMA CStep == CInv /\ [Next]_vars => CInv'
<1> SUFFICES ASSUME CInv, [Next]_vars
             PROVE  CInv'
  OBVIOUS
<1>1. BInv' /\ TreeStep
  BY BStep, StepOfTree DEF CInv
<1>2. TreeInv(t) /\ Typed(t) /\ SumInv(t) /\ IdsHandedOut(t)
  BY DEF CInv, BInv, TreeInv
<1>3. ASSUME NEW v, t' = v, SameNumbers(t, v)
      PROVE  CInv'
  <2>1. SumInv(v)
    BY <1>2, <1>3, SameNumbersSum
  <2>2. IdsHandedOut(v)
    BY <1>2, <1>3 DEF SameNumbers, IdsHandedOut
  <2> QED
    BY <1>1, <1>3, <2>1, <2>2 DEF CInv
<1>0. \A u : SameNumbers(u, u)
  BY DEF SameNumbers
<1>4. CASE t' = t
  BY <1>0, <1>3, <1>4
<1>5. ASSUME NEW tree, Browsed(tree), t' = tree
      PROVE  CInv'
  <2>1. PICK base \in {t, WithRows(t)} :
          tree = base \/ \E p : \E open \in BOOLEAN : tree = Toggle(base, p, open)
    BY <1>5 DEF Browsed
  <2>2. Typed(base) /\ SameNumbers(t, base)
    <3>1. CASE base = t
      BY <1>0, <1>2, <3>1
    <3>2. CASE base = WithRows(t)
      BY <1>2, <3>2, WithRowsIs DEF TreeInv
    <3> QED
      BY <3>1, <3>2
  <2>3. SameNumbers(base, tree)
    <3>1. CASE tree = base
      BY <1>0, <3>1
    <3>2. CASE tree # base
      BY <2>1, <2>2, <3>2, ToggleIs
    <3> QED
      BY <3>1, <3>2
  <2>4. SameNumbers(t, tree)
    BY <2>2, <2>3 DEF SameNumbers
  <2> QED
    BY <1>3, <1>5, <2>4
<1>6. ASSUME NEW n, n \in 1..2, NEW paths, paths \in [1..n -> Paths], IsInjective(paths), Names(paths)
      PROVE  CInv'
  <2>1. PICK k : k = Cardinality(DOMAIN t.byId) /\ k \in Nat
    BY <1>2, FS_CardinalityType DEF Typed
  <2>2. PICK first : first = k + 1
    OBVIOUS
  <2>3. /\ \A i \in DOMAIN paths : \A id \in DOMAIN t.byId : t.byId[id] # paths[i]
        /\ t' = AddTopics(t, first, paths)
    BY <1>6, <2>1, <2>2 DEF Names
  <2>4. paths \in [1..n -> Seq(Segments)] /\ DOMAIN t.byId = 1..k
    BY <1>2, <1>6, <2>1, BrowseAssumption DEF IdsHandedOut
  <2>5. NewOnes(t, first, n, paths)
    <3>1. NewPaths(n, paths)
      BY <1>6, <2>4 DEF NewPaths
    <3>2. \A id \in DOMAIN t.byId : id < first
      <4>1. \A id \in 1..k : id < first
        BY <2>1, <2>2
      <4> QED
        BY <2>4, <4>1
    <3> QED
      BY <1>6, <2>3, <3>1, <3>2 DEF NewOnes
  <2>6. PICK v : v = AddTopics(t, first, paths)
    OBVIOUS
  <2>7. SumInv(v) /\ DOMAIN v.byId = DOMAIN t.byId \cup (first..(first + n - 1))
    BY <1>2, <2>1, <2>2, <2>5, <2>6, AddTopicsSum
  <2>8. DOMAIN v.byId = 1..(k + n) /\ k + n \in Nat
    <3>1. (1..k) \cup (first..(first + n - 1)) = 1..(k + n)
      <4>1. CASE n = 1
        BY <2>1, <2>2, <4>1
      <4>2. CASE n = 2
        BY <2>1, <2>2, <4>2
      <4> QED
        BY <1>6, <4>1, <4>2
    <3>2. DOMAIN v.byId = (1..k) \cup (first..(first + n - 1))
      BY <2>4, <2>7
    <3>3. k + n \in Nat
      BY <1>6, <2>1
    <3> QED
      BY ONLY <3>1, <3>2, <3>3
  <2>9. Cardinality(1..(k + n)) = k + n
    <3>1. 1 \in Int /\ k + n \in Int /\ 1 <= k + n
      BY <1>6, <2>1
    <3> QED
      BY <3>1, FS_Interval
  <2> QED
    BY <1>1, <2>3, <2>6, <2>7, <2>8, <2>9 DEF CInv, IdsHandedOut
<1>7. ASSUME NEW id \in DOMAIN t.byId, NEW count \in 1..MaxCount, t' = ApplyCount(t, id, count)
      PROVE  CInv'
  <2>1. count \in Nat
    BY BrowseAssumption
  <2>2. PICK v : v = ApplyCount(t, id, count)
    OBVIOUS
  <2>3. SumInv(v)
    BY <1>2, <2>1, <2>2, CountSum
  <2>4. v.byId = t.byId
    BY <1>2, <2>1, <2>2, CountIs
  <2> QED
    BY <1>1, <1>2, <1>7, <2>2, <2>3, <2>4 DEF CInv, IdsHandedOut
<1>8. CASE t' = SetFilter(t, Terms(text))
  BY <1>2, <1>3, <1>8, FilterNumbers
<1>9. CASE t' = IF text # <<>> THEN SetFilter(EmptyTree, Terms(text)) ELSE EmptyTree
  <2>1. PICK e : e = EmptyTree
    OBVIOUS
  <2>2. TreeInv(e) /\ SumInv(e) /\ Typed(e)
    BY <2>1, EmptyTreeInv, EmptySum DEF TreeInv
  <2>3. PICK v : v = IF text # <<>> THEN SetFilter(e, Terms(text)) ELSE e
    OBVIOUS
  <2>4. SameNumbers(e, v)
    BY <2>2, <2>3, FilterNumbers DEF SameNumbers
  <2>5. SumInv(v)
    BY <2>2, <2>4, SameNumbersSum
  <2>6. DOMAIN e.byId = {}
    BY <2>1 DEF EmptyTree
  <2>7. IdsHandedOut(v)
    BY <2>4, <2>6, FS_EmptySet DEF IdsHandedOut, SameNumbers
  <2> QED
    BY <1>1, <1>9, <2>1, <2>3, <2>5, <2>7 DEF CInv
<1>10. CASE t' = WithRows(t)
  BY <1>2, <1>3, <1>10, WithRowsIs
<1> QED
  BY <1>1, <1>4, <1>5, <1>6, <1>7, <1>8, <1>9, <1>10 DEF TreeStep

LEMMA CHolds == Spec => []CInv
<1>1. Init => CInv
  <2> SUFFICES ASSUME Init
               PROVE  CInv
    OBVIOUS
  <2>1. BInv /\ t = EmptyTree /\ DOMAIN EmptyTree.byId = {}
    BY BInit DEF Init, EmptyTree
  <2>2. Cardinality({}) = 0 /\ 1..0 = {}
    BY FS_EmptySet
  <2> QED
    BY <2>1, <2>2, EmptySum DEF CInv, IdsHandedOut
<1>2. CInv /\ [Next]_vars => CInv'
  BY CStep
<1> QED
  BY <1>1, <1>2, PTL DEF Spec

(***************************************************************************)
(* The leaves and the total of every node are the number and the sum of    *)
(* the counts of the topics in it, however they were moved (tree.js:4-6).  *)
(***************************************************************************)
THEOREM SumsCorrect == Spec => []SubtreeSums
<1>1. CInv => SubtreeSums
  <2> SUFFICES ASSUME CInv, NEW p \in DOMAIN t.nodes
               PROVE  /\ t.nodes[p].leaves = Cardinality(AtOrBelow(p))
                      /\ t.nodes[p].total =
                           MapThenSumSet(LAMBDA id : t.nodes[t.byId[id]].count, AtOrBelow(p))
    BY DEF SubtreeSums
  <2>1. PICK S : S = AtOrBelow(p)
    OBVIOUS
  <2>2. S = Below(t, p) /\ S \in SUBSET DOMAIN t.byId
    BY <2>1 DEF AtOrBelow, Below
  <2>3. t.nodes[p].leaves = Cardinality(S) /\ t.nodes[p].total = Total(CountOf(t), S)
    BY <2>2 DEF CInv, SumInv, SumsRight
  <2>4. MapThenSumSet(LAMBDA id : t.nodes[t.byId[id]].count, S) = Total(CountOf(t), S)
    BY <2>2, SumOfCounts
  <2> QED
    BY <2>1, <2>3, <2>4
<1> QED
  BY <1>1, CHolds, PTL

-----------------------------------------------------------------------------
(***************************************************************************)
(* A finite set with an order: how many are earlier tells its members      *)
(* apart, so every number below the size of the set comes up.              *)
(***************************************************************************)
IsOrder(order, S) ==
  /\ \A x \in S : <<x, x>> \notin order
  /\ \A x, y \in S : x # y => <<x, y>> \in order \/ <<y, x>> \in order
  /\ \A x, y, z \in S : <<x, y>> \in order /\ <<y, z>> \in order => <<x, z>> \in order

LEMMA RankInside ==
  ASSUME NEW S, IsFiniteSet(S), NEW order, IsOrder(order, S), NEW x \in S
  PROVE  /\ IsFiniteSet({y \in S : <<y, x>> \in order})
         /\ RankIn(S, order, x) \in Nat
         /\ RankIn(S, order, x) < Cardinality(S)
<1>1. PICK B : B = {y \in S : <<y, x>> \in order}
  OBVIOUS
<1>2. B \in SUBSET S /\ x \notin B
  BY <1>1 DEF IsOrder
<1>3. B # S
  BY <1>2
<1>4. IsFiniteSet(B) /\ Cardinality(B) <= Cardinality(S) /\ Cardinality(S) # Cardinality(B)
  BY <1>2, <1>3, FS_Subset
<1>5. Cardinality(B) \in Nat /\ Cardinality(S) \in Nat
  BY <1>4, FS_CardinalityType
<1>6. Cardinality(B) < Cardinality(S)
  BY <1>4, <1>5
<1> QED
  BY <1>1, <1>4, <1>5, <1>6 DEF RankIn

LEMMA RankGrows ==
  ASSUME NEW S, IsFiniteSet(S), NEW order, IsOrder(order, S), NEW x \in S, NEW y \in S, <<x, y>> \in order
  PROVE  RankIn(S, order, x) < RankIn(S, order, y)
<1>1. PICK B : B = {z \in S : <<z, x>> \in order}
  OBVIOUS
<1>2. PICK C : C = {z \in S : <<z, y>> \in order}
  OBVIOUS
<1>3. IsFiniteSet(B) /\ IsFiniteSet(C)
  BY <1>1, <1>2, RankInside
<1>4. B \cup {x} \in SUBSET C /\ x \notin B
  BY <1>1, <1>2 DEF IsOrder
<1>5. Cardinality(B \cup {x}) = Cardinality(B) + 1
  BY <1>3, <1>4, FS_AddElement
<1>6. Cardinality(B \cup {x}) <= Cardinality(C)
  BY <1>3, <1>4, FS_Subset
<1>7. Cardinality(B) \in Nat /\ Cardinality(C) \in Nat
  BY <1>3, FS_CardinalityType
<1>8. Cardinality(B) < Cardinality(C)
  BY <1>5, <1>6, <1>7
<1> QED
  BY <1>1, <1>2, <1>8 DEF RankIn

LEMMA RankedMember ==
  ASSUME NEW S, IsFiniteSet(S), NEW order, IsOrder(order, S), NEW k \in 1..Cardinality(S)
  PROVE  \E x \in S : RankIn(S, order, x) = k - 1
<1>1. PICK c : c = Cardinality(S) /\ c \in Nat
  BY FS_CardinalityType
<1>2. PICK rank : rank = [x \in S |-> RankIn(S, order, x)]
  OBVIOUS
<1>3. PICK Ranks : Ranks = 0..(c - 1)
  OBVIOUS
<1>4. IsFiniteSet(Ranks) /\ Cardinality(Ranks) = c
  <2>1. c - 1 \in Int
    BY <1>1
  <2>2. IsFiniteSet(0..(c - 1)) /\ Cardinality(0..(c - 1)) = IF 0 > c - 1 THEN 0 ELSE (c - 1) - 0 + 1
    BY <2>1, FS_Interval
  <2> QED
    BY <1>1, <1>3, <2>2
<1>5. rank \in Injection(S, Ranks)
  <2>1. ASSUME NEW x \in S
        PROVE  rank[x] = RankIn(S, order, x) /\ rank[x] \in Nat /\ rank[x] \in Ranks
    <3>1. PICK r : r = RankIn(S, order, x)
      OBVIOUS
    <3>2. r \in Nat /\ r < c
      BY <1>1, <3>1, RankInside
    <3>3. rank[x] = r
      BY <1>2, <3>1
    <3>4. r \in Ranks
      BY <1>1, <1>3, <3>2
    <3> QED
      BY <3>1, <3>2, <3>3, <3>4
  <2>2. ASSUME NEW x \in S, NEW y \in S, x # y
        PROVE  rank[x] # rank[y]
    <3>1. <<x, y>> \in order \/ <<y, x>> \in order
      BY <2>2 DEF IsOrder
    <3>2. rank[x] < rank[y] \/ rank[y] < rank[x]
      BY <2>1, <3>1, RankGrows
    <3> QED
      BY <2>1, <3>2
  <2>3. rank \in [S -> Ranks]
    BY <1>2, <2>1
  <2> QED
    BY <2>2, <2>3 DEF Injection, IsInjective
<1>6. rank \in Surjection(S, Ranks)
  BY <1>1, <1>4, <1>5, FS_Injection
<1>7. k - 1 \in Ranks
  BY <1>1, <1>3
<1>8. PICK x \in S : rank[x] = k - 1
  BY <1>6, <1>7 DEF Surjection
<1> QED
  BY <1>2, <1>8

(* A list of members by their ranks: each member once, the earlier ones first. *)
LEMMA RankedList ==
  ASSUME NEW S, IsFiniteSet(S), NEW order, IsOrder(order, S), NEW c \in Nat, c = Cardinality(S),
         NEW s, \A k \in 1..c : s[k] \in S /\ RankIn(S, order, s[k]) = k - 1
  PROVE  /\ \A k, l \in 1..c : k < l => <<s[k], s[l]>> \in order
         /\ \A x \in S : \E k \in 1..c : s[k] = x
<1>4. ASSUME NEW k \in 1..c, NEW l \in 1..c, k < l
      PROVE  <<s[k], s[l]>> \in order
  <2>1. s[k] # s[l]
    BY <1>4
  <2>2. ~(<<s[l], s[k]>> \in order)
    <3>1. <<s[l], s[k]>> \in order => RankIn(S, order, s[l]) < RankIn(S, order, s[k])
      BY RankGrows
    <3>2. l - 1 >= k - 1
      BY <1>4
    <3> QED
      BY <3>1, <3>2
  <2> QED
    BY <2>1, <2>2 DEF IsOrder
<1>5. ASSUME NEW x \in S
      PROVE  \E k \in 1..c : s[k] = x
  <2>1. PICK r : r = RankIn(S, order, x) /\ r \in Nat /\ r < c
    BY RankInside
  <2>2. r + 1 \in 1..c /\ (r + 1) - 1 = r
    BY <2>1
  <2>3. s[r + 1] \in S /\ RankIn(S, order, s[r + 1]) = r
    BY <2>2
  <2>4. s[r + 1] = x
    <3>1. \A y \in S : <<x, y>> \in order \/ <<y, x>> \in order => RankIn(S, order, y) # r
      BY <2>1, RankGrows, RankInside
    <3> QED
      BY <2>3, <3>1 DEF IsOrder
  <2> QED
    BY <2>2, <2>4
<1> QED
  BY <1>4, <1>5

(* What a set in its order is. *)
LEMMA InRankIs ==
  ASSUME NEW S, IsFiniteSet(S), NEW order, IsOrder(order, S), NEW s, s = InRank(S, order)
  PROVE  /\ Cardinality(S) \in Nat
         /\ s \in [1..Cardinality(S) -> S]
         /\ \A k, l \in 1..Cardinality(S) : k < l => <<s[k], s[l]>> \in order
         /\ \A x \in S : \E k \in 1..Cardinality(S) : s[k] = x
<1>1. PICK c : c = Cardinality(S) /\ c \in Nat
  BY FS_CardinalityType
<1>2. DOMAIN s = 1..c /\ s = [k \in 1..c |-> s[k]]
  BY <1>1 DEF InRank
<1>3. ASSUME NEW k \in 1..c
      PROVE  s[k] \in S /\ RankIn(S, order, s[k]) = k - 1
  <2>1. \E x \in S : RankIn(S, order, x) = k - 1
    BY <1>1, RankedMember
  <2>2. s[k] = CHOOSE x \in S : RankIn(S, order, x) = k - 1
    BY <1>1 DEF InRank
  <2> QED
    BY <2>1, <2>2
<1>4. s \in [1..c -> S]
  BY <1>2, <1>3
<1>5. /\ \A k, l \in 1..c : k < l => <<s[k], s[l]>> \in order
      /\ \A x \in S : \E k \in 1..c : s[k] = x
  BY ONLY IsFiniteSet(S), IsOrder(order, S), <1>1, <1>3, RankedList
<1> QED
  BY <1>1, <1>4, <1>5

\* The order of numbers.
Ascents(S) == {ij \in S \X S : ij[1] < ij[2]}

LEMMA NumbersInOrder ==
  ASSUME NEW kept, kept \subseteq Int
  PROVE  /\ IsOrder(Ascents(kept), kept)
         /\ \A i \in kept : {j \in kept : <<j, i>> \in Ascents(kept)} = {j \in kept : j < i}
<1>1. \A i, j \in kept : <<i, j>> \in Ascents(kept) <=> i < j
  BY DEF Ascents
<1>2. \A i \in kept : i \in Int
  OBVIOUS
<1>3. IsOrder(Ascents(kept), kept)
  BY <1>1, <1>2 DEF IsOrder
<1>4. \A i \in kept : {j \in kept : <<j, i>> \in Ascents(kept)} = {j \in kept : j < i}
  BY <1>1
<1> QED
  BY <1>3, <1>4

LEMMA KthMember ==
  ASSUME NEW kept, IsFiniteSet(kept), kept \subseteq Int, NEW k \in 1..Cardinality(kept)
  PROVE  \E i \in kept : Cardinality({j \in kept : j < i}) = k - 1
<1>1. PICK i \in kept : RankIn(kept, Ascents(kept), i) = k - 1
  BY NumbersInOrder, RankedMember
<1> QED
  BY <1>1, NumbersInOrder DEF RankIn

\* The kept indices in their order, and the list read at them.
ReadsAt(s, kept, c, at, part) ==
  /\ \A k \in 1..c : at[k] \in kept
  /\ \A k, l \in 1..c : k < l => at[k] < at[l]
  /\ \A i \in kept : \E k \in 1..c : at[k] = i
  /\ DOMAIN part = 1..c /\ part = [k \in 1..c |-> part[k]]
  /\ \A k \in 1..c : part[k] = s[at[k]]

LEMMA ElementsInOrder ==
  ASSUME NEW n \in Nat, NEW s, NEW kept \in SUBSET (1..n), NEW c, c = Cardinality(kept),
         NEW part, part = ElementsAt(s, kept)
  PROVE  /\ IsFiniteSet(kept) /\ c \in Nat
         /\ \E at : ReadsAt(s, kept, c, at, part)
<1>1. IsFiniteSet(kept) /\ kept \subseteq Int
  <2>1. IsFiniteSet(1..n)
    BY FS_Interval
  <2>2. IsFiniteSet(kept)
    BY <2>1, FS_Subset
  <2> QED
    BY <2>2
<1>2. c = Cardinality(kept) /\ c \in Nat
  BY <1>1, FS_CardinalityType
<1> DEFINE At(k) == CHOOSE i \in kept : Cardinality({j \in kept : j < i}) = k - 1
<1>3. ASSUME NEW k \in 1..c
      PROVE  At(k) \in kept /\ Cardinality({j \in kept : j < At(k)}) = k - 1
  BY <1>1, <1>2, KthMember
<1>4. ElementsAt(s, kept) = [k \in 1..c |-> s[At(k)]]
  BY <1>2 DEF ElementsAt
<1> HIDE DEF At
<1>5. PICK at : at = [k \in 1..c |-> At(k)]
  OBVIOUS
<1>6. \A k \in 1..c : at[k] \in kept /\ RankIn(kept, Ascents(kept), at[k]) = k - 1
  <2>1. ASSUME NEW i \in kept
        PROVE  RankIn(kept, Ascents(kept), i) = Cardinality({j \in kept : j < i})
    BY <1>1, NumbersInOrder DEF RankIn
  <2>2. ASSUME NEW k \in 1..c
        PROVE  at[k] = At(k)
    BY <1>5
  <2> QED
    BY <1>3, <2>1, <2>2
<1>7. IsOrder(Ascents(kept), kept)
  BY <1>1, NumbersInOrder
<1>8. /\ \A k, l \in 1..c : k < l => <<at[k], at[l]>> \in Ascents(kept)
      /\ \A i \in kept : \E k \in 1..c : at[k] = i
  BY ONLY <1>1, <1>2, <1>6, <1>7, RankedList
<1>9. DOMAIN part = 1..c /\ part = [k \in 1..c |-> part[k]] /\ \A k \in 1..c : part[k] = s[at[k]]
  BY <1>4, <1>5
<1>10. \A k, l \in 1..c : k < l => at[k] < at[l]
  BY <1>8 DEF Ascents
<1>11. ReadsAt(s, kept, c, at, part)
  BY <1>6, <1>8, <1>9, <1>10 DEF ReadsAt
<1> QED
  BY <1>1, <1>2, <1>11

(***************************************************************************)
(* The order of paths: they agree up to some place, where the earlier one  *)
(* ends or has the lesser segment.                                         *)
(***************************************************************************)
PartAt(p, q, k) ==
  /\ k \in Nat /\ k <= Len(p) /\ k < Len(q)
  /\ \A j \in 1..k : p[j] = q[j]
  /\ k < Len(p) => p[k + 1] < q[k + 1]

LEMMA PathBeforeIs ==
  ASSUME NEW p \in Seq(Nat), NEW q \in Seq(Nat)
  PROVE  PathBefore(p, q) <=> \E k : PartAt(p, q, k)
<1>1. Len(p) \in Nat /\ Len(q) \in Nat /\ DOMAIN p = 1..Len(p) /\ DOMAIN q = 1..Len(q)
  OBVIOUS
<1>2. IsPrefix(p, q) <=> Len(p) <= Len(q) /\ \A i \in 1..Len(p) : p[i] = q[i]
  BY PrefixIs
<1>3. p = [i \in 1..Len(p) |-> p[i]] /\ q = [i \in 1..Len(q) |-> q[i]]
  OBVIOUS
<1>4. ASSUME IsStrictPrefix(p, q)
      PROVE  PartAt(p, q, Len(p))
  <2>1. IsPrefix(p, q) /\ p # q
    BY <1>4 DEF IsStrictPrefix
  <2>2. PICK l, m : l = Len(p) /\ m = Len(q) /\ l \in Nat /\ m \in Nat
    BY <1>1
  <2>3. l <= m /\ l # m
    <3>1. l = m => p = q
      BY <1>2, <1>3, <2>1, <2>2
    <3> QED
      BY <1>2, <2>1, <2>2, <3>1
  <2>4. Len(p) \in Nat /\ Len(p) <= Len(p) /\ Len(p) < Len(q) /\ ~(Len(p) < Len(p))
    BY <2>2, <2>3
  <2>5. \A j \in 1..Len(p) : p[j] = q[j]
    BY <1>2, <2>1
  <2> QED
    BY <2>4, <2>5 DEF PartAt
<1>5. ASSUME NEW i \in DOMAIN p \cap DOMAIN q, p[i] < q[i], \A j \in 1..(i - 1) : p[j] = q[j]
      PROVE  PartAt(p, q, i - 1)
  <2>1. i \in Nat /\ i >= 1 /\ i <= Len(p) /\ i <= Len(q) /\ (i - 1) + 1 = i
    BY <1>1
  <2>2. i - 1 \in Nat /\ i - 1 <= Len(p) /\ i - 1 < Len(q)
    BY <1>1, <2>1
  <2> QED
    BY <1>5, <2>1, <2>2 DEF PartAt
<1>6. ASSUME NEW k, PartAt(p, q, k)
      PROVE  PathBefore(p, q)
  <2>1. k \in Nat /\ k <= Len(p) /\ k < Len(q) /\ \A j \in 1..k : p[j] = q[j]
    BY <1>6 DEF PartAt
  <2>2. CASE k = Len(p)
    <3>1. IsPrefix(p, q) /\ p # q
      BY <1>1, <1>2, <2>1, <2>2
    <3> QED
      BY <3>1 DEF PathBefore, IsStrictPrefix
  <2>3. CASE k < Len(p)
    <3>1. PICK i : i = k + 1
      OBVIOUS
    <3>2. i \in DOMAIN p \cap DOMAIN q /\ i - 1 = k
      BY <1>1, <2>1, <2>3, <3>1
    <3>4. \A j \in 1..(i - 1) : p[j] = q[j]
      BY <2>1, <3>2
    <3>3. p[i] < q[i]
      BY <1>6, <2>3, <3>1 DEF PartAt
    <3> QED
      BY <3>2, <3>3, <3>4 DEF PathBefore
  <2>4. k = Len(p) \/ k < Len(p)
    <3>1. Len(p) \in Nat
      OBVIOUS
    <3> QED
      BY <2>1, <3>1
  <2> QED
    BY <2>2, <2>3, <2>4
<1> QED
  BY <1>4, <1>5, <1>6 DEF PathBefore

LEMMA PathsApart ==
  ASSUME NEW p \in Seq(Nat), NEW q \in Seq(Nat)
  PROVE  /\ ~ PathBefore(p, p)
         /\ p # q => PathBefore(p, q) \/ PathBefore(q, p)
<1>1. Len(p) \in Nat /\ Len(q) \in Nat /\ \A i \in 1..Len(p) : p[i] \in Nat
  OBVIOUS
<1>2. ASSUME NEW k, PartAt(p, p, k)
      PROVE  FALSE
  <2>1. k \in Nat /\ k < Len(p) /\ p[k + 1] < p[k + 1]
    BY <1>2 DEF PartAt
  <2>2. k + 1 \in 1..Len(p)
    BY <1>1, <2>1
  <2> QED
    BY <1>1, <2>1, <2>2
<1>3. ASSUME p # q
      PROVE  \E k : PartAt(p, q, k) \/ PartAt(q, p, k)
  <2>1. PICK N : N = {i \in 1..Len(p) : i <= Len(q) /\ p[i] # q[i]}
    OBVIOUS
  <2>2. CASE N = {}
    <3>1. \A i \in 1..Len(p) : i <= Len(q) => p[i] = q[i]
      BY <2>1, <2>2
    <3>2. CASE Len(p) < Len(q)
      <4>1. PartAt(p, q, Len(p))
        BY <1>1, <3>1, <3>2 DEF PartAt
      <4> QED
        BY <4>1
    <3>3. CASE Len(q) < Len(p)
      <4>1. PartAt(q, p, Len(q))
        BY <1>1, <3>1, <3>3 DEF PartAt
      <4> QED
        BY <4>1
    <3>4. CASE Len(p) = Len(q)
      <4>1. p = [i \in 1..Len(p) |-> p[i]] /\ q = [i \in 1..Len(q) |-> q[i]]
        OBVIOUS
      <4>2. \A i \in 1..Len(p) : p[i] = q[i]
        BY <1>1, <3>1, <3>4
      <4>3. p = q
        BY <3>4, <4>1, <4>2
      <4> QED
        BY <1>3, <4>3
    <3> QED
      BY <1>1, <3>2, <3>3, <3>4
  <2>3. CASE N # {}
    <3>1. N \in SUBSET Nat
      BY <2>1
    <3>2. PICK i \in N : \A j \in N : i <= j
      BY <2>3, <3>1, Least
    <3>3. i \in 1..Len(p) /\ i <= Len(q) /\ p[i] # q[i]
      BY <2>1
    <3>4. PICK k : k = i - 1
      OBVIOUS
    <3>5. /\ k \in Nat /\ k < Len(p) /\ k < Len(q) /\ k + 1 = i
          /\ p[k + 1] \in Nat /\ q[k + 1] \in Nat /\ p[k + 1] # q[k + 1]
      BY <1>1, <3>3, <3>4
    <3>6. ASSUME NEW j \in 1..k
          PROVE  p[j] = q[j]
      <4>1. j \in 1..Len(p) /\ j <= Len(q) /\ ~ (i <= j)
        BY <1>1, <3>3, <3>4
      <4> QED
        BY <2>1, <3>2, <4>1
    <3>7. CASE p[k + 1] < q[k + 1]
      <4>1. PartAt(p, q, k)
        BY <1>1, <3>5, <3>6, <3>7 DEF PartAt
      <4> QED
        BY <4>1
    <3>8. CASE q[k + 1] < p[k + 1]
      <4>1. PartAt(q, p, k)
        BY <1>1, <3>5, <3>6, <3>8 DEF PartAt
      <4> QED
        BY <4>1
    <3> QED
      BY <3>5, <3>7, <3>8
  <2> QED
    BY <2>2, <2>3
<1> QED
  BY <1>2, <1>3, PathBeforeIs

LEMMA PathBeforeTrans ==
  ASSUME NEW p \in Seq(Nat), NEW q \in Seq(Nat), NEW r \in Seq(Nat), PathBefore(p, q), PathBefore(q, r)
  PROVE  PathBefore(p, r)
<1>1. PICK k : PartAt(p, q, k)
  BY PathBeforeIs
<1>2. PICK l : PartAt(q, r, l)
  BY PathBeforeIs
<1>3. /\ Len(p) \in Nat /\ Len(q) \in Nat /\ Len(r) \in Nat
      /\ \A i \in 1..Len(p) : p[i] \in Nat
      /\ \A i \in 1..Len(q) : q[i] \in Nat
      /\ \A i \in 1..Len(r) : r[i] \in Nat
  OBVIOUS
<1>4. /\ k \in Nat /\ k <= Len(p) /\ k < Len(q)
      /\ \A j \in 1..k : p[j] = q[j]
      /\ k < Len(p) => p[k + 1] < q[k + 1]
  BY <1>1 DEF PartAt
<1>5. /\ l \in Nat /\ l <= Len(q) /\ l < Len(r)
      /\ \A j \in 1..l : q[j] = r[j]
      /\ l < Len(q) => q[l + 1] < r[l + 1]
  BY <1>2 DEF PartAt
<1>6. CASE k < l
  <2>1. \A j \in 1..k : p[j] = r[j]
    <3>1. \A j \in 1..k : j \in 1..l
      BY <1>4, <1>5, <1>6
    <3> QED
      BY <1>4, <1>5, <3>1
  <2>2. q[k + 1] = r[k + 1] /\ k < Len(r)
    <3>1. k + 1 \in 1..l
      BY <1>4, <1>5, <1>6
    <3> QED
      BY <1>3, <1>4, <1>5, <1>6, <3>1
  <2>3. PartAt(p, r, k)
    BY <1>4, <2>1, <2>2 DEF PartAt
  <2> QED
    BY <2>3, PathBeforeIs
<1>7. CASE l < k
  <2>1. \A j \in 1..l : p[j] = r[j]
    <3>1. \A j \in 1..l : j \in 1..k
      BY <1>4, <1>5, <1>7
    <3> QED
      BY <1>4, <1>5, <3>1
  <2>2. p[l + 1] = q[l + 1] /\ l < Len(q) /\ l <= Len(p)
    <3>1. l + 1 \in 1..k
      BY <1>4, <1>5, <1>7
    <3> QED
      BY <1>3, <1>4, <1>5, <1>7, <3>1
  <2>3. PartAt(p, r, l)
    BY <1>5, <2>1, <2>2 DEF PartAt
  <2> QED
    BY <2>3, PathBeforeIs
<1>8. CASE k = l
  <2>1. \A j \in 1..k : p[j] = r[j]
    BY <1>4, <1>5, <1>8
  <2>2. k < Len(p) => p[k + 1] < r[k + 1]
    <3>1. ASSUME k < Len(p)
          PROVE  p[k + 1] < r[k + 1]
      <4>1. k + 1 \in 1..Len(p) /\ k + 1 \in 1..Len(q) /\ k + 1 \in 1..Len(r)
        BY <1>3, <1>4, <1>5, <1>8, <3>1
      <4>2. p[k + 1] < q[k + 1] /\ q[k + 1] < r[k + 1]
        BY <1>4, <1>5, <1>8, <3>1
      <4> QED
        BY <1>3, <4>1, <4>2
    <3> QED
      BY <3>1
  <2>3. PartAt(p, r, k)
    BY <1>4, <1>5, <1>8, <2>1, <2>2 DEF PartAt
  <2> QED
    BY <2>3, PathBeforeIs
<1> QED
  BY <1>4, <1>5, <1>6, <1>7, <1>8

\* A finite set of which each member has a path of its own is in order by the paths.
ByPath(path, S) == {xy \in S \X S : PathBefore(path[xy[1]], path[xy[2]])}

LEMMA PathsInOrder ==
  ASSUME NEW path, NEW S, \A x \in S : path[x] \in Seq(Segments),
         \A x, y \in S : path[x] = path[y] => x = y
  PROVE  IsOrder(ByPath(path, S), S)
<1>1. ASSUME NEW x \in S
      PROVE  path[x] \in Seq(Nat)
  <2>1. PICK p : p = path[x] /\ p \in Seq(Segments)
    OBVIOUS
  <2>2. Len(p) \in Nat /\ p = [i \in 1..Len(p) |-> p[i]] /\ \A i \in 1..Len(p) : p[i] \in Segments
    BY <2>1
  <2>3. \A i \in 1..Len(p) : p[i] \in Nat
    BY <2>2, TreeAssumption
  <2>4. p \in [1..Len(p) -> Nat]
    BY <2>2, <2>3
  <2> QED
    BY <2>1, <2>2, <2>4
<1>2. \A x, y \in S : <<x, y>> \in ByPath(path, S) <=> PathBefore(path[x], path[y])
  BY DEF ByPath
<1>3. \A x \in S : ~ PathBefore(path[x], path[x])
  BY <1>1, PathsApart
<1>4. \A x, y \in S : x # y => PathBefore(path[x], path[y]) \/ PathBefore(path[y], path[x])
  BY <1>1, PathsApart
<1>5. ASSUME NEW x \in S, NEW y \in S, NEW z \in S,
             PathBefore(path[x], path[y]), PathBefore(path[y], path[z])
      PROVE  PathBefore(path[x], path[z])
  BY <1>1, <1>5, PathBeforeTrans
<1> QED
  BY <1>2, <1>3, <1>4, <1>5 DEF IsOrder

-----------------------------------------------------------------------------
(***************************************************************************)
(* The matches of a filter are listed, each matching topic somewhere.      *)
(***************************************************************************)
ListsMatches(u, c, s) ==
  /\ c \in Nat /\ s \in [1..c -> DOMAIN u.byId]
  /\ \A id \in DOMAIN u.byId : Filtering(u) /\ Matches(u, id) => \E k \in 1..c : s[k] = id

LEMMA MatchIsWanted ==
  ASSUME NEW u, TreeInv(u), Filtering(u), NEW id \in DOMAIN u.byId, Matches(u, id)
  PROVE  Wanted(u, u.byId[id])
<1>1. PICK p : p = u.byId[id] /\ p \in DOMAIN u.nodes /\ p \in Seq(Segments)
  BY DEF TreeInv, Typed
<1>2. ASSUME NEW q \in Prefixes(p)
      PROVE  Marked(u, q)
  <2>1. q \in DOMAIN u.nodes
    BY <1>1 DEF TreeInv, PathsThere
  <2>2. IsPrefix(q, p)
    BY <1>1, PrefixesAre
  <2>3. id \in Below(u, q)
    BY <1>1, <2>2 DEF Below
  <2> QED
    BY <2>1, <2>3 DEF TreeInv, MarksRight
<1> QED
  BY <1>1, <1>2 DEF Wanted

LEMMA MatchesAreListed ==
  ASSUME NEW u, TreeInv(u), OneTopicEach(u), NEW s, s = MatchingIds(u)
  PROVE  \E c : ListsMatches(u, c, s)
<1>1. CASE ~ Filtering(u)
  <2>1. s = <<>>
    BY <1>1 DEF MatchingIds
  <2>2. s \in [1..0 -> DOMAIN u.byId]
    BY <2>1
  <2>3. ListsMatches(u, 0, s)
    BY <1>1, <2>2 DEF ListsMatches
  <2> QED
    BY <2>3
<1>2. CASE Filtering(u)
  <2>1. PICK path : path = u.byId
    OBVIOUS
  <2>2. PICK S : S = {id \in DOMAIN u.byId : Wanted(u, u.byId[id]) /\ Matches(u, id)}
    OBVIOUS
  <2>3. s = InRank(S, ByPath(path, S))
    BY <1>2, <2>1, <2>2 DEF MatchingIds, InOrder, ByPath
  <2>4. IsFiniteSet(S) /\ S \subseteq DOMAIN u.byId
    BY <2>2, FS_Subset DEF TreeInv, Typed
  <2>5. \A x \in S : path[x] \in Seq(Segments)
    BY <2>1, <2>4 DEF TreeInv, Typed
  <2>6. \A x, y \in S : path[x] = path[y] => x = y
    BY <2>1, <2>4 DEF OneTopicEach
  <2>7. PICK order : order = ByPath(path, S)
    OBVIOUS
  <2>8. IsOrder(order, S)
    BY <2>5, <2>6, <2>7, PathsInOrder
  <2>9. PICK c : c = Cardinality(S)
    OBVIOUS
  <2>10. /\ c \in Nat /\ s \in [1..c -> S]
         /\ \A x \in S : \E k \in 1..c : s[k] = x
    BY <2>3, <2>4, <2>7, <2>8, <2>9, InRankIs
  <2>11. \A id \in DOMAIN u.byId : Matches(u, id) => id \in S
    BY <1>2, <2>2, MatchIsWanted
  <2>12. ListsMatches(u, c, s)
    BY <2>4, <2>10, <2>11 DEF ListsMatches
  <2> QED
    BY <2>12
<1> QED
  BY <1>1, <1>2

(***************************************************************************)
(* What the button adds: what is missing, as far as there is room.         *)
(***************************************************************************)
MissingFrom(list, more) == {i \in DOMAIN more : ~Contains(list, more[i])}

Filled(list, max, missing) ==
  list \o SubSeq(missing, 1, Min({Max({0, max - Len(list)}), Len(missing)}))

LEMMA PartOfList ==
  ASSUME NEW V, NEW n \in Nat, NEW more \in [1..n -> V], NEW kept \in SUBSET (1..n),
         NEW part, part = ElementsAt(more, kept)
  PROVE  /\ part \in Seq(V) /\ Len(part) <= n
         /\ \A i \in kept : \E k \in 1..Len(part) : part[k] = more[i]
<1>1. PICK c : c = Cardinality(kept)
  OBVIOUS
<1>2. c \in Nat
  BY <1>1, ElementsInOrder
<1>3. PICK at : ReadsAt(more, kept, c, at, part)
  BY <1>1, ElementsInOrder
<1>4. part \in [1..c -> V]
  BY <1>3 DEF ReadsAt
<1>5. part \in Seq(V) /\ Len(part) = c
  BY <1>2, <1>4
<1>6. c <= n
  <2>1. IsFiniteSet(1..n) /\ Cardinality(1..n) = IF 1 > n THEN 0 ELSE n - 1 + 1
    BY FS_Interval
  <2>2. Cardinality(1..n) = n
    BY <2>1
  <2>3. Cardinality(kept) <= Cardinality(1..n)
    BY <2>1, FS_Subset
  <2> QED
    BY <1>1, <2>2, <2>3
<1>7. \A i \in kept : \E k \in 1..c : part[k] = more[i]
  BY <1>3 DEF ReadsAt
<1> QED
  BY <1>5, <1>6, <1>7

LEMMA Refilled ==
  ASSUME NEW V, NEW list \in Seq(V), NEW max \in Nat, Len(list) <= max,
         NEW n \in Nat, NEW more \in [1..n -> V],
         NEW missing, missing = ElementsAt(more, MissingFrom(list, more)),
         NEW full, full = Filled(list, max, missing)
  PROVE  /\ full \in Seq(V) /\ Len(full) <= max
         /\ \A i \in 1..n : more[i] \in ToSet(full) \/ Len(full) = max
<1>1. PICK kept : kept = MissingFrom(list, more)
  OBVIOUS
<1>2. kept \in SUBSET (1..n) /\ \A i \in 1..n : i \in kept <=> ~Contains(list, more[i])
  BY <1>1 DEF MissingFrom
<1>3. /\ missing \in Seq(V) /\ \A i \in kept : \E k \in 1..Len(missing) : missing[k] = more[i]
  <2>1. missing = ElementsAt(more, kept)
    BY <1>1
  <2> QED
    BY ONLY n \in Nat, more \in [1..n -> V], <1>2, <2>1, PartOfList
<1>4. Len(list) \in Nat /\ Len(missing) \in Nat
  BY <1>3
<1>5. PICK room : room = Max({0, max - Len(list)})
  OBVIOUS
<1>6. room = max - Len(list) /\ room \in Nat
  <2>1. PICK r : r = max - Len(list)
    OBVIOUS
  <2>2. r \in Nat /\ r >= 0
    BY <1>4, <2>1
  <2>3. Max({0, r}) = r
    BY <2>2 DEF Max
  <2> QED
    BY <1>5, <2>1, <2>2, <2>3
<1>7. PICK m : m = Min({room, Len(missing)})
  OBVIOUS
<1>8. m \in Nat /\ m <= room /\ m <= Len(missing) /\ (m = room \/ m = Len(missing))
  BY <1>4, <1>6, <1>7 DEF Min
<1>9. PICK front : front = SubSeq(missing, 1, m)
  OBVIOUS
<1>10. front \in Seq(V) /\ Len(front) = m /\ \A k \in 1..m : front[k] = missing[k]
  BY <1>3, <1>4, <1>8, <1>9
<1>11. full = list \o front
  BY <1>7, <1>9, <1>5 DEF Filled
<1>12. /\ full \in Seq(V) /\ Len(full) = Len(list) + m
       /\ \A k \in 1..Len(list) : full[k] = list[k]
       /\ \A k \in 1..m : full[Len(list) + k] = front[k]
  <2>1. full \in Seq(V) /\ Len(full) = Len(list) + m
    BY ONLY list \in Seq(V), <1>10, <1>11, ConcatProperties
  <2>2. \A k \in 1..(Len(list) + m) : full[k] = IF k <= Len(list) THEN list[k] ELSE front[k - Len(list)]
    BY ONLY list \in Seq(V), <1>10, <1>11, ConcatProperties
  <2>3. ASSUME NEW k \in 1..Len(list)
        PROVE  full[k] = list[k]
    <3>1. k \in 1..(Len(list) + m) /\ k <= Len(list)
      BY <1>4, <1>8
    <3> QED
      BY <2>2, <3>1
  <2>4. ASSUME NEW k \in 1..m
        PROVE  full[Len(list) + k] = front[k]
    <3>1. PICK x : x = Len(list) + k
      OBVIOUS
    <3>2. x \in 1..(Len(list) + m) /\ ~(x <= Len(list)) /\ x - Len(list) = k
      BY <1>4, <1>8, <3>1
    <3>3. full[x] = front[k]
      BY <2>2, <3>2
    <3> QED
      BY <3>1, <3>3
  <2> QED
    BY <2>1, <2>3, <2>4
<1>13. Len(full) <= max
  BY <1>4, <1>6, <1>8, <1>12
<1>14. ASSUME NEW i \in 1..n, Len(full) # max
       PROVE  more[i] \in ToSet(full)
  <2>1. m = Len(missing)
    BY <1>4, <1>6, <1>8, <1>12, <1>14
  <2>2. CASE i \in kept
    <3>1. PICK k \in 1..Len(missing) : missing[k] = more[i]
      BY <1>3, <2>2
    <3>2. k \in 1..m /\ Len(list) + k \in 1..Len(full)
      BY <1>4, <1>8, <1>12, <2>1
    <3>3. full[Len(list) + k] = more[i]
      BY <1>10, <1>12, <3>1, <3>2
    <3>4. Len(list) + k \in DOMAIN full
      BY <1>12, <3>2
    <3> QED
      BY <3>3, <3>4 DEF ToSet
  <2>3. CASE i \notin kept
    <3>1. PICK k \in 1..Len(list) : list[k] = more[i]
      BY <1>2, <2>3 DEF Contains
    <3>2. k \in 1..Len(full) /\ full[k] = more[i]
      BY <1>4, <1>8, <1>12, <3>1
    <3>3. k \in DOMAIN full
      BY <1>12, <3>2
    <3> QED
      BY <3>2, <3>3 DEF ToSet
  <2> QED
    BY <2>2, <2>3
<1> QED
  BY <1>12, <1>13, <1>14

LEMMA MatchesAreAdded ==
  ASSUME NEW u, TreeInv(u), OneTopicEach(u), compared \in Seq(Seq(Segments)), Len(compared) <= MaxCompared,
         NEW full, full = AddMatches(u)
  PROVE  /\ full \in Seq(Seq(Segments)) /\ Len(full) <= MaxCompared
         /\ \A id \in DOMAIN u.byId :
              Filtering(u) /\ Matches(u, id) => u.byId[id] \in ToSet(full) \/ Len(full) = MaxCompared
<1>1. PICK s : s = MatchingIds(u)
  OBVIOUS
<1>2. PICK c : ListsMatches(u, c, s)
  BY <1>1, MatchesAreListed
<1>3. c \in Nat /\ DOMAIN s = 1..c /\ \A k \in 1..c : s[k] \in DOMAIN u.byId
  BY <1>2 DEF ListsMatches
<1>4. PICK more : more = [k \in 1..c |-> u.byId[s[k]]]
  OBVIOUS
<1>5. \A id \in DOMAIN u.byId : u.byId[id] \in Seq(Segments)
  BY DEF TreeInv, Typed
<1>6. PICK V : V = Seq(Segments)
  OBVIOUS
<1>7. more \in [1..c -> V] /\ DOMAIN more = 1..c
  BY <1>3, <1>4, <1>5, <1>6
<1>8. PICK list : list = compared
  OBVIOUS
<1>9. PICK max : max = MaxCompared
  OBVIOUS
<1>10. list \in Seq(V) /\ max \in Nat /\ Len(list) <= max
  BY <1>6, <1>8, <1>9, BrowseAssumption
<1>11. PICK missing : missing = ElementsAt(more, MissingFrom(list, more))
  OBVIOUS
<1>12. full = Filled(list, max, missing)
  BY <1>1, <1>3, <1>4, <1>8, <1>9, <1>11 DEF AddMatches, MissingFrom, Filled
<1>13. c \in Nat
  BY <1>3
<1>14. more \in [1..c -> V]
  BY <1>7
<1>15. /\ full \in Seq(V) /\ Len(full) <= max
       /\ \A k \in 1..c : more[k] \in ToSet(full) \/ Len(full) = max
  BY ONLY <1>10, <1>11, <1>12, <1>13, <1>14, Refilled
<1>16. ASSUME NEW id \in DOMAIN u.byId, Filtering(u), Matches(u, id)
       PROVE  u.byId[id] \in ToSet(full) \/ Len(full) = MaxCompared
  <2>1. PICK k \in 1..c : s[k] = id
    BY <1>2, <1>16 DEF ListsMatches
  <2> QED
    BY <1>4, <1>9, <1>15, <2>1
<1> QED
  BY <1>6, <1>9, <1>15, <1>16

(***************************************************************************)
(* The inductive invariant: the compared topics are paths, and not too     *)
(* many.                                                                   *)
(***************************************************************************)
ListInv == compared \in Seq(Seq(Segments)) /\ Len(compared) <= MaxCompared

LEMMA FilterCompareAdds ==
  ASSUME CInv, ListInv, FilterCompare
  PROVE  /\ ListInv'
         /\ \A id \in DOMAIN t.byId :
              Terms(text) # {} /\ Matches([t EXCEPT !.terms = Terms(text)], id)
                => t.byId[id] \in ToSet(compared') \/ Len(compared') = MaxCompared
<1>1. TreeInv(t) /\ OneTopicEach(t) /\ (~timer => t.terms = Terms(text))
  BY DEF CInv, BInv, SumInv
<1>2. PICK u : u = IF timer THEN SetFilter(t, Terms(text)) ELSE t
  OBVIOUS
<1>3. TreeInv(u) /\ u.byId = t.byId /\ u.terms = Terms(text)
  BY <1>1, <1>2, FilterInv
<1>4. OneTopicEach(u)
  BY <1>1, <1>3 DEF OneTopicEach
<1>5. PICK full : full = AddMatches(u)
  OBVIOUS
<1>6. compared' = full
  BY <1>2, <1>5 DEF FilterCompare
<1>7. /\ full \in Seq(Seq(Segments)) /\ Len(full) <= MaxCompared
      /\ \A id \in DOMAIN u.byId :
           Filtering(u) /\ Matches(u, id) => u.byId[id] \in ToSet(full) \/ Len(full) = MaxCompared
  BY <1>3, <1>4, <1>5, MatchesAreAdded DEF ListInv
<1>8. PICK w : w = [t EXCEPT !.terms = Terms(text)]
  OBVIOUS
<1>9. w.terms = Terms(text) /\ w.byId = t.byId
  <2>1. DOMAIN t = {"nodes", "byId", "terms", "gen", "matches", "rows"}
    BY <1>1 DEF TreeInv, Typed, TreesOf
  <2> QED
    BY <1>8, <2>1
<1>10. \A id : Matches(w, id) <=> Matches(u, id)
  BY <1>3, <1>9 DEF Matches
<1>11. Filtering(u) <=> Terms(text) # {}
  BY <1>3 DEF Filtering
<1> QED
  BY <1>3, <1>6, <1>7, <1>8, <1>10, <1>11 DEF ListInv

LEMMA ToggleKeepsList ==
  ASSUME ListInv, NEW name \in Seq(Segments), ToggleCompare(name)
  PROVE  ListInv'
<1>1. PICK V, list, n : V = Seq(Segments) /\ list = compared /\ n = Len(compared)
  OBVIOUS
<1>2. list \in Seq(V) /\ n \in Nat /\ n = Len(list) /\ n <= MaxCompared /\ MaxCompared \in Nat
  BY <1>1, BrowseAssumption DEF ListInv
<1>3. PICK kept : kept = {i \in DOMAIN compared : compared[i] # name}
  OBVIOUS
<1>4. CASE Contains(compared, name)
  <2>1. PICK part : part = ElementsAt(list, kept)
    OBVIOUS
  <2>2. list \in [1..n -> V] /\ kept \in SUBSET (1..n)
    BY <1>1, <1>2, <1>3
  <2>3. part \in Seq(V) /\ Len(part) <= n
    BY <1>2, <2>1, <2>2, PartOfList
  <2>4. compared' = part
    BY <1>1, <1>3, <1>4, <2>1 DEF ToggleCompare
  <2>5. Len(part) <= MaxCompared
    BY <1>2, <2>3
  <2> QED
    BY <1>1, <2>3, <2>4, <2>5 DEF ListInv
<1>5. CASE ~Contains(compared, name) /\ n < MaxCompared
  <2>1. PICK more : more = Append(list, name)
    OBVIOUS
  <2>2. more \in Seq(V) /\ Len(more) = n + 1
    BY <1>1, <1>2, <2>1
  <2>3. compared' = more
    BY <1>1, <1>5, <2>1 DEF ToggleCompare
  <2> QED
    BY <1>1, <1>2, <1>5, <2>2, <2>3 DEF ListInv
<1>6. CASE ~Contains(compared, name) /\ ~(n < MaxCompared)
  <2>1. compared' = compared
    BY <1>1, <1>6 DEF ToggleCompare
  <2> QED
    BY <2>1 DEF ListInv
<1> QED
  BY <1>4, <1>5, <1>6

LEMMA ListStep == CInv /\ ListInv /\ [Next]_vars => ListInv'
<1> SUFFICES ASSUME CInv, ListInv, [Next]_vars
             PROVE  ListInv'
  OBVIOUS
<1>1. ASSUME compared' = compared
      PROVE  ListInv'
  BY <1>1 DEF ListInv
<1>2. ASSUME NEW tree, NEW at, NEW detail, InTree(tree, at, detail)
      PROVE  compared' = compared
  BY <1>2 DEF InTree
<1>3. ASSUME NEW tree, NEW i, NEW detail, GoTo(tree, i, detail)
      PROVE  compared' = compared
  BY <1>2, <1>3 DEF GoTo
<1>4. CASE Tick
  BY <1>1, <1>4 DEF Tick, Names, Counts, History
<1>5. CASE ResetClient \/ Frame \/ ApplyFilter \/ UNCHANGED vars
  BY <1>1, <1>5 DEF ResetClient, Frame, ApplyFilter, vars
<1>6. CASE User
  <2>1. ASSUME NEW p \in ToSet(drawn), NEW onChevron \in BOOLEAN, Click(p, onChevron)
        PROVE  ListInv'
    BY <1>1, <1>2, <2>1 DEF Click
  <2>2. ASSUME NEW key \in MoveKeys, Move(key)
        PROVE  ListInv'
    BY <1>1, <1>3, <2>2 DEF Move
  <2>3. CASE ArrowRight \/ ArrowLeft \/ Enter
    BY <1>1, <1>3, <2>3 DEF ArrowRight, ArrowLeft, Enter
  <2>4. CASE Pin \/ BackToLive \/ Type
    BY <1>1, <2>4 DEF Pin, BackToLive, Shows, Type, Edits
  <2>5. ASSUME NEW cells \in Clips, NEW at \in 0..Len(text), Paste(cells, at)
        PROVE  ListInv'
    BY <1>1, <2>5 DEF Paste, Edits
  <2>6. CASE FilterCompare
    BY <2>6, FilterCompareAdds
  <2>7. ASSUME NEW id \in DOMAIN t.byId, ToggleCompare(t.byId[id])
        PROVE  ListInv'
    <3>1. t.byId[id] \in Seq(Segments)
      BY DEF CInv, BInv, TreeInv, Typed
    <3> QED
      BY <2>7, <3>1, ToggleKeepsList
  <2> QED
    BY <1>6, <2>1, <2>2, <2>3, <2>4, <2>5, <2>6, <2>7 DEF User
<1> QED
  BY <1>4, <1>5, <1>6 DEF Next

LEMMA ListHolds == Spec => [](CInv /\ ListInv)
<1>1. Init => ListInv
  BY BrowseAssumption DEF Init, ListInv
<1>2. CInv /\ ListInv /\ [Next]_vars => ListInv'
  BY ListStep
<1> QED
  BY <1>1, <1>2, CHolds, PTL DEF Spec

(***************************************************************************)
(* The button next to the filter adds every topic that the text in the     *)
(* input matches, unless the list is full then (app.js:444-452): for any   *)
(* topics, any text, and whether or not the text had been applied.         *)
(***************************************************************************)
THEOREM MatchesCorrect == Spec => AllMatchesCompared
<1>1. ASSUME CInv, ListInv, FilterCompare
      PROVE  /\ Len(compared') <= MaxCompared
             /\ \A id \in DOMAIN t.byId :
                  Terms(text) # {} /\ Matches([t EXCEPT !.terms = Terms(text)], id)
                    => t.byId[id] \in ToSet(compared') \/ Len(compared') = MaxCompared
  BY <1>1, FilterCompareAdds DEF ListInv
<1> QED
  BY <1>1, ListHolds, PTL DEF Spec, AllMatchesCompared

=============================================================================
