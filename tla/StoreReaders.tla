---------------------------- MODULE StoreReaders ----------------------------
(***************************************************************************)
(* The store with its readers: the polling side of internal/server/ws.go   *)
(* and the copy a browser keeps of what it is sent, with the transport     *)
(* between the two left out (an update is applied when it is polled).      *)
(*                                                                         *)
(* A reader holds a cursor, at most one selected topic, a mirror of the    *)
(* topic table and the history of the selected topic.                      *)
(***************************************************************************)
EXTENDS Store, Mirror

CONSTANT Readers

ASSUME ReadersAssumption == IsFiniteSet(Readers)

\* Fewer than 2^32 messages arrive in one epoch, so that no count wraps: a
\* wrapped number would look older to a reader than the one before it.
ASSUME NoWrap == MaxIngest < CountMod

VARIABLES
  cur,      \* per reader: the store.Cursor
  histN,    \* per reader: the cursor's HistN
  sel,      \* per reader: the selection it holds, its epoch, and (auxiliary)
            \* the topic's count when it was selected
  mirror,   \* per reader: the topics it knows
  history   \* per reader: the messages it shows for the selected topic

readerVars == <<cur, histN, sel, mirror, history>>

vars == <<epoch, seq, byName, topics, stats, cur, histN, sel, mirror, history>>

NoSelection == [epoch |-> 0, id |-> NoTopic, from |-> 0]

Init ==
  /\ StoreInit
  /\ cur = [r \in Readers |-> FreshCursor(0)]
  /\ histN = [r \in Readers |-> 0]
  /\ sel = [r \in Readers |-> NoSelection]
  /\ mirror = [r \in Readers |-> EmptyMirror]
  /\ history = [r \in Readers |-> <<>>]

-----------------------------------------------------------------------------
Publish(name) == Ingest(name) /\ UNCHANGED readerVars

Clear == epoch < MaxEpoch /\ Reset /\ UNCHANGED readerVars

(***************************************************************************)
(* A reader polls with what it has selected and applies the update.  After *)
(* a reset its ids mean nothing and everything it holds is dropped         *)
(* (ws.go:199-211, app.js:146-150 and 172).                                *)
(***************************************************************************)
MirrorAfterKept(r, u) ==   \* mutant: the mirror is not emptied when the epoch changes
  ApplyCounts(AddTopics(mirror[r], u.firstId, u.names), u.counts)

MirrorAfter(r, u) ==
  ApplyCounts(AddTopics(IF u.epoch # cur[r].epoch THEN EmptyMirror ELSE mirror[r],
                        u.firstId, u.names),
              u.counts)

Poll(r) ==
  LET w == [NoWant EXCEPT !.selected = sel[r].id]
      u == PollUpdate(cur[r], histN[r], w)
  IN  /\ cur' = [cur EXCEPT ![r] = PollCursor(@)]
      /\ histN' = [histN EXCEPT ![r] = PollHistN(cur[r], @, w)]
      /\ mirror' = [mirror EXCEPT ![r] = MirrorAfter(r, u)]
      /\ sel' = [sel EXCEPT ![r] = IF u.reset THEN NoSelection ELSE @]
      /\ history' = [history EXCEPT ![r] =
                       IF u.reset THEN <<>> ELSE AppendHistory(@, u.history, HistorySize)]
      /\ UNCHANGED <<epoch, seq, byName, topics, stats>>

(***************************************************************************)
(* Selecting a topic of the mirror, with the epoch the mirror belongs to   *)
(* (ws.go:185-193, app.js:479-493).  The history starts anew.              *)
(***************************************************************************)
Select(r, id) ==
  /\ sel[r] = NoSelection
  /\ id \in DOMAIN mirror[r]
  /\ topics' = Selected(topics, cur[r].epoch, id)
  /\ sel' = [sel EXCEPT ![r] = IF IsCurrent(topics, cur[r].epoch, id)
                               THEN [epoch |-> epoch, id |-> id, from |-> topics[id].count]
                               ELSE NoSelection]
  /\ histN' = [histN EXCEPT ![r] = 0]
  /\ history' = [history EXCEPT ![r] = <<>>]
  /\ UNCHANGED <<epoch, seq, byName, stats, cur, mirror>>

Release(r) ==
  /\ sel[r] # NoSelection
  /\ topics' = Released(topics, sel[r].epoch, sel[r].id)
  /\ sel' = [sel EXCEPT ![r] = NoSelection]
  /\ histN' = [histN EXCEPT ![r] = 0]
  /\ history' = [history EXCEPT ![r] = <<>>]
  /\ UNCHANGED <<epoch, seq, byName, stats, cur, mirror>>

Next ==
  \/ \E name \in Names : Publish(name)
  \/ Clear
  \/ \E r \in Readers : Poll(r)
  \/ \E r \in Readers : \E id \in DOMAIN mirror[r] : Select(r, id)
  \/ \E r \in Readers : Release(r)

Spec == Init /\ [][Next]_vars

-----------------------------------------------------------------------------
CursorRecord == [epoch : Nat, topics : Nat, seq : Nat]

TypeOK ==
  /\ epoch \in Nat \ {0}
  /\ seq \in Nat
  /\ byName \in [DOMAIN byName -> Nat] /\ DOMAIN byName \subseteq Names
  /\ topics \in Seq(TopicRecord)
  /\ stats \in [messages : Nat, dropped : Nat]
  /\ cur \in [Readers -> CursorRecord]
  /\ sel \in [Readers -> [epoch : Nat, id : Nat, from : MessageNumbers]]
  /\ DOMAIN mirror = Readers
  /\ \A r \in Readers : mirror[r] \in Seq([name : Names, count : MessageNumbers])

(***************************************************************************)
(* The name index and the topic table agree: a name is looked up at the    *)
(* id under which it is listed, every listed topic has received at least   *)
(* one message, and its stamp is not ahead of the store's sequence         *)
(* (store.go:70-106).                                                      *)
(***************************************************************************)
IndexAgrees ==
  /\ DOMAIN byName = {topics[id].name : id \in TopicIds}
  /\ \A id \in TopicIds : /\ byName[topics[id].name] = id
                          /\ topics[id].seq \in 1..seq

(***************************************************************************)
(* A cursor of the current epoch never runs ahead of the store.            *)
(***************************************************************************)
CursorInRange ==
  \A r \in Readers :
    /\ cur[r].epoch <= epoch
    /\ DOMAIN mirror[r] = 1..cur[r].topics
    /\ cur[r].epoch = epoch => cur[r].topics <= Len(topics) /\ cur[r].seq <= seq

(***************************************************************************)
(* A reader of the current epoch has the names of the first topics exactly *)
(* as the store lists them, and for each topic that has received nothing   *)
(* since its last poll, the exact count: no message is lost to a reader    *)
(* that polls late, and no count belongs to another topic                  *)
(* (store.go:205-259, the promise of lines 4-6).                           *)
(***************************************************************************)
MirrorExact ==
  \A r \in Readers :
    cur[r].epoch = epoch =>
      \A id \in DOMAIN mirror[r] :
        /\ mirror[r][id].name = topics[id].name
        /\ topics[id].seq <= cur[r].seq => mirror[r][id].count = topics[id].count

\* Readers whose selection is valid in the current epoch.
Holders(id) == {r \in Readers : sel[r].epoch = epoch /\ sel[r].id = id}

(***************************************************************************)
(* A topic counts exactly the readers that have it selected, and records   *)
(* history if and only if there is one (store.go:108-139): no selection    *)
(* outlives its reader's interest and none is lost to a reset, to a        *)
(* rejected Select or to another reader's Release.  A reader that has      *)
(* noticed a reset has no selection of before it (ws.go:203-206).          *)
(***************************************************************************)
SelectionsCounted ==
  /\ \A id \in TopicIds :
       /\ topics[id].selected = Cardinality(Holders(id))
       /\ (topics[id].hist = NoRing) <=> (Holders(id) = {})
  /\ \A r \in Readers :
       cur[r].epoch = epoch /\ sel[r] # NoSelection => sel[r].epoch = epoch

(***************************************************************************)
(* The history a reader shows has no gap and no repetition: the ring holds *)
(* as many messages as the reader keeps, so a batch that skips messages    *)
(* replaces everything shown before it (store.go:15, app.js:510-537).      *)
(***************************************************************************)
HistoryContiguous ==
  \A r \in Readers :
    \A i \in 1..(Len(history[r]) - 1) : history[r][i + 1] = history[r][i] + 1

(***************************************************************************)
(* When a reader has polled since the selected topic's last message, its   *)
(* history ends with that message and reaches back to the message that was *)
(* the latest when the topic was selected, or as far as HistorySize        *)
(* allows (README: "History is recorded for a topic while it is open").    *)
(***************************************************************************)
Shown(r) == {history[r][i] : i \in DOMAIN history[r]}

HistoryReachesBack ==
  \A r \in Readers :
    /\ sel[r].epoch = epoch
    /\ histN[r] # 0
    /\ topics[sel[r].id].seq <= cur[r].seq
    => LET last == topics[sel[r].id].count
       IN  \A n \in sel[r].from..last : n > last - HistorySize => n \in Shown(r)

-----------------------------------------------------------------------------
(***************************************************************************)
(* The store with its cursors implements the feed that compares copies     *)
(* with the table (refinement).                                            *)
(***************************************************************************)
TableView == [id \in TopicIds |-> [name |-> topics[id].name, count |-> topics[id].count]]

CopyView == [r \in Readers |-> [generation |-> cur[r].epoch, table |-> mirror[r]]]

Feed == INSTANCE TopicFeed
          WITH table <- TableView, generation <- epoch, copy <- CopyView

ImplementsFeed == Feed!Spec
=============================================================================
