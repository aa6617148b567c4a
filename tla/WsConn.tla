------------------------------- MODULE WsConn -------------------------------
(***************************************************************************)
(* The server's side of the browser connections, internal/server/ws.go.    *)
(* Every connection has two goroutines: a reader that takes messages off   *)
(* the socket and handles them (lines 135-147, 165-195), and a writer that *)
(* polls the store and writes what changed (149-163, 199-245).  They share *)
(* the wsClient under its mutex; the store has a mutex of its own, so      *)
(* between two store calls of one goroutine other connections run.         *)
(*                                                                         *)
(* A connection is used once: Accept starts it, Teardown ends it.  What    *)
(* the peer does is left to the modules that extend this one.              *)
(***************************************************************************)
EXTENDS Store, SequencesExt

CONSTANTS
  Conns,           \* WebSocket connections, in the order they may be opened
  MaxWatchedRows,  \* ws.go: maxWatchedRows
  MaxCompared,     \* ws.go: maxCompared
  WritesMayFail    \* whether a write may fail (the peer is gone, or slower
                   \* than writeTimeout) before the reader has noticed

ASSUME ConnAssumption ==
  /\ IsFiniteSet(Conns)
  /\ MaxWatchedRows \in Nat \ {0}
  /\ MaxCompared \in Nat \ {0}
  /\ WritesMayFail \in BOOLEAN

VARIABLES
  cur, histN, want, selEpoch,  \* the wsClient: cursor, want list, selection epoch
  rd,      \* the reader goroutine
  hand,    \* the message it is handling
  wr,      \* the writer goroutine
  out,     \* the update it is writing
  inbox,   \* messages the peer has sent and the reader has not read
  gone     \* the peer has closed the connection

clientVars == <<cur, histN, want, selEpoch>>
connVars == <<cur, histN, want, selEpoch, rd, hand, wr, out, inbox, gone>>

NoMessage == [t |-> "none"]
WatchMsg(e, ids) == [t |-> "watch", epoch |-> e, ids |-> ids]
CompareMsg(e, ids) == [t |-> "compare", epoch |-> e, ids |-> ids]
SelectMsg(e, id) == [t |-> "select", epoch |-> e, id |-> id]

NoUpdate == [t |-> "none"]

ConnInit ==
  /\ cur = [c \in Conns |-> FreshCursor(0)]
  /\ histN = [c \in Conns |-> 0]
  /\ want = [c \in Conns |-> NoWant]
  /\ selEpoch = [c \in Conns |-> 0]
  /\ rd = [c \in Conns |-> "off"]
  /\ hand = [c \in Conns |-> NoMessage]
  /\ wr = [c \in Conns |-> "off"]
  /\ out = [c \in Conns |-> NoUpdate]
  /\ inbox = [c \in Conns |-> <<>>]
  /\ gone = [c \in Conns |-> FALSE]

\* The wsClient's mutex is held by the reader between the two store calls of
\* a selection; every other locked section is a single step.
Unlocked(c) == rd[c] # "selecting"

\* ctx is cancelled by whichever goroutine ends first (lines 124, 136).
Cancelled(c) == rd[c] = "done" \/ wr[c] = "closed"

-----------------------------------------------------------------------------
Accept(c) ==
  /\ wr[c] = "off"
  /\ rd' = [rd EXCEPT ![c] = "reading"]
  /\ wr' = [wr EXCEPT ![c] = "polling"]
  /\ UNCHANGED <<storeVars, clientVars, hand, out, inbox, gone>>

(***************************************************************************)
(* The reader.  A message that has been read is handled even if the        *)
(* connection is torn down meanwhile.                                      *)
(***************************************************************************)
ReadMessage(c) ==
  /\ rd[c] = "reading"
  /\ inbox[c] # <<>>
  /\ hand' = [hand EXCEPT ![c] = Head(inbox[c])]
  /\ inbox' = [inbox EXCEPT ![c] = Tail(@)]
  /\ rd' = [rd EXCEPT ![c] = "handling"]
  /\ UNCHANGED <<storeVars, clientVars, wr, out, gone>>

\* conn.Read fails: the peer is gone, ctx is cancelled or the socket closed.
ReadFails(c) ==
  /\ rd[c] = "reading"
  /\ gone[c] \/ Cancelled(c)
  /\ rd' = [rd EXCEPT ![c] = "done"]
  /\ inbox' = [inbox EXCEPT ![c] = <<>>]
  /\ UNCHANGED <<storeVars, clientVars, hand, wr, out, gone>>

Handled(c) ==
  /\ rd' = [rd EXCEPT ![c] = "reading"]
  /\ hand' = [hand EXCEPT ![c] = NoMessage]

Cut(ids, max) == IF Len(ids) > max THEN SubSeq(ids, 1, max) ELSE ids

\* Mutant: the list is taken over whatever epoch it was made for.
HandleWatchAnyEpoch(c) ==
  /\ rd[c] = "handling" /\ hand[c].t = "watch"
  /\ want' = [want EXCEPT ![c].watch = Cut(hand[c].ids, MaxWatchedRows),
                          ![c].watchAll = TRUE]
  /\ Handled(c)
  /\ UNCHANGED <<storeVars, cur, histN, selEpoch, wr, out, inbox, gone>>

HandleWatch(c) ==
  /\ rd[c] = "handling" /\ hand[c].t = "watch"
  /\ want' = IF hand[c].epoch # cur[c].epoch THEN want
             ELSE [want EXCEPT ![c].watch = Cut(hand[c].ids, MaxWatchedRows),
                               ![c].watchAll = TRUE]
  /\ Handled(c)
  /\ UNCHANGED <<storeVars, cur, histN, selEpoch, wr, out, inbox, gone>>

HandleCompare(c) ==
  /\ rd[c] = "handling" /\ hand[c].t = "compare"
  /\ want' = IF hand[c].epoch # cur[c].epoch THEN want
             ELSE [want EXCEPT ![c].compare = Cut(hand[c].ids, MaxCompared),
                               ![c].compareAll = TRUE]
  /\ Handled(c)
  /\ UNCHANGED <<storeVars, cur, histN, selEpoch, wr, out, inbox, gone>>

\* Select, first half: the lock is taken and the old selection released.
SelectReleasingNothing(c) ==   \* mutant: the old selection is forgotten, not released
  /\ rd[c] = "handling" /\ hand[c].t = "select"
  /\ want' = [want EXCEPT ![c].selected = NoTopic]
  /\ rd' = [rd EXCEPT ![c] = "selecting"]
  /\ UNCHANGED <<storeVars, cur, histN, selEpoch, hand, wr, out, inbox, gone>>

SelectReleases(c) ==
  /\ rd[c] = "handling" /\ hand[c].t = "select"
  /\ topics' = Released(topics, selEpoch[c], want[c].selected)
  /\ want' = [want EXCEPT ![c].selected = NoTopic]
  /\ rd' = [rd EXCEPT ![c] = "selecting"]
  /\ UNCHANGED <<epoch, seq, byName, stats, cur, histN, selEpoch, hand, wr, out, inbox, gone>>

\* Second half: the new topic is selected if the store still knows it.
SelectTakes(c) ==
  LET e  == hand[c].epoch
      id == hand[c].id
  IN  /\ rd[c] = "selecting"
      /\ topics' = Selected(topics, e, id)
      /\ IF IsCurrent(topics, e, id)
         THEN /\ want' = [want EXCEPT ![c].selected = id]
              /\ selEpoch' = [selEpoch EXCEPT ![c] = e]
         ELSE UNCHANGED <<want, selEpoch>>
      /\ histN' = [histN EXCEPT ![c] = 0]
      /\ Handled(c)
      /\ UNCHANGED <<epoch, seq, byName, stats, cur, wr, out, inbox, gone>>

Reader(c) ==
  \/ ReadMessage(c)
  \/ ReadFails(c)
  \/ HandleWatch(c)
  \/ HandleCompare(c)
  \/ SelectReleases(c)
  \/ SelectTakes(c)

-----------------------------------------------------------------------------
(***************************************************************************)
(* The writer.  Under the lock it polls, clears the "send all" flags and,  *)
(* after a reset, the want list, and notes which topic the history is of.  *)
(***************************************************************************)
TickOf(u, selected) ==
  [t |-> "tick", reset |-> u.reset, epoch |-> u.epoch, firstId |-> u.firstId,
   names |-> u.names, more |-> u.more, counts |-> u.counts, previews |-> u.previews,
   compared |-> u.compared, selected |-> selected, history |-> u.history]

SendUpdate(c) ==
  LET u == PollUpdate(cur[c], histN[c], want[c])
      w == IF u.reset THEN NoWant
           ELSE [want[c] EXCEPT !.watchAll = FALSE, !.compareAll = FALSE]
  IN  /\ wr[c] = "polling"
      /\ Unlocked(c)
      /\ cur' = [cur EXCEPT ![c] = PollCursor(@)]
      /\ histN' = [histN EXCEPT ![c] = PollHistN(cur[c], @, want[c])]
      /\ want' = [want EXCEPT ![c] = w]
      /\ out' = [out EXCEPT ![c] = TickOf(u, w.selected)]
      /\ wr' = [wr EXCEPT ![c] = "writing"]
      /\ UNCHANGED <<storeVars, selEpoch, rd, hand, inbox, gone>>

\* The write has succeeded; more pending names are polled for at once, or
\* the writer waits for its ticker.
Written(c) ==
  /\ wr' = [wr EXCEPT ![c] = IF out[c].more THEN "polling" ELSE "waiting"]
  /\ out' = [out EXCEPT ![c] = NoUpdate]
  /\ UNCHANGED <<storeVars, clientVars, rd, hand, inbox, gone>>

WriteFails(c) ==
  /\ wr[c] = "writing"
  /\ Cancelled(c) \/ WritesMayFail
  /\ wr' = [wr EXCEPT ![c] = "closing"]
  /\ out' = [out EXCEPT ![c] = NoUpdate]
  /\ UNCHANGED <<storeVars, clientVars, rd, hand, inbox, gone>>

TickerFires(c) ==
  /\ wr[c] = "waiting"
  /\ wr' = [wr EXCEPT ![c] = "polling"]
  /\ UNCHANGED <<storeVars, clientVars, rd, hand, out, inbox, gone>>

SeesCancel(c) ==
  /\ wr[c] = "waiting"
  /\ Cancelled(c)
  /\ wr' = [wr EXCEPT ![c] = "closing"]
  /\ UNCHANGED <<storeVars, clientVars, rd, hand, out, inbox, gone>>

\* The deferred calls of serveWS: the selection is released, under the lock,
\* then ctx cancelled and the socket closed.  want.Selected is not cleared.
TeardownWithoutRelease(c) ==   \* mutant: the deferred Release is missing
  /\ wr[c] = "closing"
  /\ Unlocked(c)
  /\ wr' = [wr EXCEPT ![c] = "closed"]
  /\ UNCHANGED <<storeVars, clientVars, rd, hand, out, inbox, gone>>

Teardown(c) ==
  /\ wr[c] = "closing"
  /\ Unlocked(c)
  /\ topics' = Released(topics, selEpoch[c], want[c].selected)
  /\ wr' = [wr EXCEPT ![c] = "closed"]
  /\ UNCHANGED <<epoch, seq, byName, stats, clientVars, rd, hand, out, inbox, gone>>
=============================================================================
