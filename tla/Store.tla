-------------------------------- MODULE Store --------------------------------
(***************************************************************************)
(* The in-memory topic store of internal/store/store.go: every topic seen  *)
(* on the broker, numbered densely in the order of first appearance.       *)
(* Ingest, Reset, Select, Release and Poll each run under the store's      *)
(* mutex, so each is one atomic step here.                                 *)
(*                                                                         *)
(* Topic ids start at 1 here (id + 1 of the code), so that the topic table *)
(* is a sequence, a reader's cursor is its length at the last poll, and    *)
(* NoTopic can stand for the nil Selected pointer.  A message is its       *)
(* running number N; stats.Bytes and the message's contents are left out.  *)
(***************************************************************************)
EXTENDS Ring, FiniteSets, Functions

CONSTANTS
  Names,            \* topic names the broker may publish on
  MaxTopics,        \* New(maxTopics)
  HistorySize,      \* store.HistorySize
  MaxNamesPerPoll,  \* store.maxNamesPerPoll
  CountMod,         \* 2^32: topic counts and message numbers are uint32
  MaxIngest,        \* bound: messages ingested between two resets
  MaxEpoch          \* bound: the last epoch reached by Reset

ASSUME StoreAssumption ==
  /\ MaxTopics \in Nat \ {0}
  /\ HistorySize \in Nat \ {0}
  /\ MaxNamesPerPoll \in Nat \ {0}
  /\ CountMod \in Nat \ {0}
  /\ MaxIngest \in Nat
  /\ MaxEpoch \in Nat

VARIABLES epoch, seq, byName, topics, stats

storeVars == <<epoch, seq, byName, topics, stats>>

NoTopic == 0

TopicIds == DOMAIN topics

MessageNumbers == 0..(CountMod - 1)

TopicRecord ==
  [name : Names, count : MessageNumbers, seq : Nat, last : MessageNumbers,
   hist : RingOf(HistorySize, MessageNumbers) \cup {NoRing}, selected : Nat]

Increment(n) == IF n + 1 = CountMod THEN 0 ELSE n + 1

NewTopic(name) ==
  [name |-> name, count |-> 0, seq |-> 0, last |-> 0, hist |-> NoRing, selected |-> 0]

StoreInit ==
  /\ epoch = 1
  /\ seq = 0
  /\ byName = [n \in {} |-> NoTopic]
  /\ topics = <<>>
  /\ stats = [messages |-> 0, dropped |-> 0]

\* Bound on the environment: what the broker still delivers in this epoch.
MayIngest == stats.messages + stats.dropped < MaxIngest

-----------------------------------------------------------------------------
(***************************************************************************)
(* Ingest (lines 70-95).  Recorded(t) is t with one more message counted,  *)
(* stamped with the store's next sequence number and, while the topic is   *)
(* selected, pushed into its history.                                      *)
(***************************************************************************)
Recorded(t) ==
  LET n == Increment(t.count)
  IN  [t EXCEPT !.count = n, !.seq = seq + 1, !.last = n,
                !.hist = IF @ = NoRing THEN @ ELSE Push(@, HistorySize, n)]

IngestDropped(name) ==
  /\ MayIngest
  /\ name \notin DOMAIN byName
  /\ Len(topics) >= MaxTopics
  /\ stats' = [stats EXCEPT !.dropped = @ + 1]
  /\ UNCHANGED <<epoch, seq, byName, topics>>

IngestNew(name) ==
  /\ MayIngest
  /\ name \notin DOMAIN byName
  /\ Len(topics) < MaxTopics
  /\ byName' = [n \in DOMAIN byName \cup {name} |->
                  IF n = name THEN Len(topics) + 1 ELSE byName[n]]
  /\ topics' = Append(topics, Recorded(NewTopic(name)))
  /\ seq' = seq + 1
  /\ stats' = [stats EXCEPT !.messages = @ + 1]
  /\ UNCHANGED epoch

IngestKnown(name) ==
  /\ MayIngest
  /\ name \in DOMAIN byName
  /\ topics' = [topics EXCEPT ![byName[name]] = Recorded(@)]
  /\ seq' = seq + 1
  /\ stats' = [stats EXCEPT !.messages = @ + 1]
  /\ UNCHANGED <<epoch, byName>>

Ingest(name) == IngestDropped(name) \/ IngestNew(name) \/ IngestKnown(name)

ResetKeepingNames ==   \* mutant: byName survives and points into the new table
  /\ epoch' = epoch + 1
  /\ seq' = 0
  /\ topics' = <<>>
  /\ stats' = [messages |-> 0, dropped |-> 0]
  /\ UNCHANGED byName

Reset ==
  /\ epoch' = epoch + 1
  /\ seq' = 0
  /\ byName' = [n \in {} |-> NoTopic]
  /\ topics' = <<>>
  /\ stats' = [messages |-> 0, dropped |-> 0]

-----------------------------------------------------------------------------
(***************************************************************************)
(* Select and Release (lines 110-139).  IsCurrent is Select's result;      *)
(* Selected and Released map the topic table, so that a caller that does   *)
(* both under one lock of its own can compose them.                        *)
(***************************************************************************)
IsCurrent(table, e, id) == e = epoch /\ id \in DOMAIN table

TakenUncounted(t) ==   \* mutant: a second reader is not counted
  IF t.selected > 0 THEN t
  ELSE [t EXCEPT !.selected = 1,
                 !.hist = Push(NewRing(HistorySize), HistorySize, t.last)]

TakenUnseeded(t) ==   \* mutant: the history does not start with the latest message
  [t EXCEPT !.selected = @ + 1,
            !.hist = IF t.selected = 0 THEN NewRing(HistorySize) ELSE @]

Taken(t) ==
  [t EXCEPT !.selected = @ + 1,
            !.hist = IF t.selected = 0
                     THEN Push(NewRing(HistorySize), HistorySize, t.last)
                     ELSE @]

Dropped(t) ==
  [t EXCEPT !.selected = @ - 1,
            !.hist = IF t.selected = 1 THEN NoRing ELSE @]

Selected(table, e, id) ==
  IF IsCurrent(table, e, id) THEN [table EXCEPT ![id] = Taken(@)] ELSE table

Released(table, e, id) ==
  IF IsCurrent(table, e, id) /\ table[id].selected > 0
  THEN [table EXCEPT ![id] = Dropped(@)] ELSE table

-----------------------------------------------------------------------------
(***************************************************************************)
(* Poll (lines 205-259).  A cursor and a want list belong to the reader;   *)
(* Poll returns an Update and the advanced cursor and changes nothing in   *)
(* the store.  Counts, previews and compared messages are functions from   *)
(* ids: the code's flat pair list names no id twice.  The cursor's HistN,  *)
(* which only the selected topic's history uses, is kept beside the rest   *)
(* of the cursor and passed as an argument of its own.                     *)
(***************************************************************************)
FreshCursor(e) == [epoch |-> e, topics |-> 0, seq |-> 0]

NoWant == [watch |-> <<>>, watchAll |-> FALSE,
           compare |-> <<>>, compareAll |-> FALSE, selected |-> NoTopic]

StartCursor(cur) == IF cur.epoch # epoch THEN FreshCursor(epoch) ELSE cur

StartHistN(cur, histN) == IF cur.epoch # epoch THEN 0 ELSE histN

StartWant(cur, w) == IF cur.epoch # epoch THEN NoWant ELSE w

NamesEnd(known) == IF Len(topics) - known > MaxNamesPerPoll
                   THEN known + MaxNamesPerPoll ELSE Len(topics)

\* Mutant: only what changed since the cursor, for new names too.
CountedChangedOnly(cur) ==
  {id \in 1..NamesEnd(cur.topics) : topics[id].seq > cur.seq}

\* Known topics that changed, and every topic whose name goes out now.
Counted(cur) ==
  {id \in 1..cur.topics : topics[id].seq > cur.seq}
    \cup (cur.topics + 1)..NamesEnd(cur.topics)

\* latest(): end is cur.Topics, which Poll has advanced by then; since is the
\* sequence of the reader's previous poll.
Latest(ids, all, end, since) ==
  [id \in {i \in Range(ids) : i <= end /\ (all \/ topics[i].seq > since)} |->
     topics[id].last]

History(id, histN) ==
  IF id \in TopicIds /\ topics[id].hist # NoRing
  THEN After(topics[id].hist, HistorySize, histN) ELSE <<>>

NamesBetween(from, to) == [i \in 1..(to - from) |-> topics[from + i].name]

PollUpdate(cur, histN, w) ==
  LET c    == StartCursor(cur)
      want == StartWant(cur, w)
      end  == NamesEnd(c.topics)
  IN  [reset    |-> cur.epoch \notin {0, epoch},
       epoch    |-> epoch,
       firstId  |-> c.topics + 1,
       names    |-> NamesBetween(c.topics, end),
       more     |-> end < Len(topics),
       counts   |-> [id \in Counted(c) |-> topics[id].count],
       previews |-> Latest(want.watch, want.watchAll, end, c.seq),
       compared |-> Latest(want.compare, want.compareAll, end, c.seq),
       history  |-> History(want.selected, StartHistN(cur, histN))]

PollCursor(cur) ==
  [epoch |-> epoch, topics |-> NamesEnd(StartCursor(cur).topics), seq |-> seq]

PollHistN(cur, histN, w) ==
  LET old  == StartHistN(cur, histN)
      msgs == History(StartWant(cur, w).selected, old)
  IN  IF msgs = <<>> THEN old ELSE msgs[Len(msgs)]
=============================================================================
