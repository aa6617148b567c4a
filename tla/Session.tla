------------------------------ MODULE Session ------------------------------
(***************************************************************************)
(* A browser session end to end: the store and the server's goroutines of  *)
(* WsConn, the WebSocket between them, and the page of web/app.js.         *)
(*                                                                         *)
(* The page runs one callback at a time: a socket event, a user's action   *)
(* or an animation frame.  Everything it keeps is the record b; a callback *)
(* computes the next b and the messages it sends.  Rows are reduced to the *)
(* topics in view: nesting, totals and filter are not modelled here.       *)
(***************************************************************************)
EXTENDS WsConn, Mirror

CONSTANTS
  Views,              \* sets of topic names that may be in view
  FirstView,          \* the one in view when the page is opened
  MaxPreviews,        \* app.js: previews kept before the cache is emptied
  MaxDown,            \* frames the socket buffers before a write blocks
  MaxActs,            \* bound: actions of the user
  MaxRestarts,        \* bound: restarts of the server
  Acts                \* the kinds of actions the user takes in this instance

ASSUME SessionAssumption ==
  /\ Conns \subseteq Nat
  /\ MaxPreviews \in Nat /\ MaxDown \in Nat \ {0, 1}
  /\ MaxActs \in Nat /\ MaxRestarts \in Nat
  /\ FirstView \in Views /\ \A v \in Views : v \subseteq Names

\* A message number does not wrap within one epoch (2^32 messages).
ASSUME NoWrap == MaxIngest < CountMod

VARIABLES
  sock,      \* the connection the page uses, 0 before the first
  link,      \* its state as the page sees it: closed, connecting or open
  down,      \* frames on their way to the page, per connection
  b,         \* the page
  acts,      \* actions the user has taken
  restarts   \* how often the server was restarted

pageVars == <<sock, link, down, b, acts, restarts>>
vars == <<storeVars, connVars, pageVars>>

NoValues == [id \in {} |-> <<>>]

(***************************************************************************)
(* The page.  era, from and missed are auxiliary: the topic table the last *)
(* tick was about, where the shown messages came from, and whether the     *)
(* selection was made by a click on a row of an emptied tree.  Values      *)
(* carry the era of the tick that brought them.                            *)
(***************************************************************************)
FreshPage(view) ==
  [epoch |-> 0, tree |-> EmptyMirror, view |-> view, rows |-> <<>>, queued |-> FALSE,
   watchKey |-> <<>>, previews |-> NoValues, selected |-> NoTopic, shown |-> <<>>,
   names |-> <<>>, ids |-> {}, values |-> NoValues, sentCompare |-> <<>>, tab |-> "topic",
   era |-> <<0, 0>>, from |-> {}, missed |-> FALSE]

Init ==
  /\ StoreInit
  /\ ConnInit
  /\ sock = 0
  /\ link = "closed"
  /\ down = [c \in Conns |-> <<>>]
  /\ b = FreshPage(FirstView)
  /\ acts = 0
  /\ restarts = 0

-----------------------------------------------------------------------------
(***************************************************************************)
(* Parts of callbacks: what they do to the page, and what they send.       *)
(***************************************************************************)
ResetClientKeepingKeys(pg) ==   \* mutant: lastWatchKey and sentCompareKey survive
  [pg EXCEPT !.tree = EmptyMirror, !.previews = NoValues, !.values = NoValues,
             !.ids = {}, !.selected = NoTopic, !.shown = <<>>, !.queued = TRUE,
             !.from = {}, !.missed = FALSE]

ResetClient(pg) ==
  [pg EXCEPT !.tree = EmptyMirror, !.watchKey = <<>>, !.previews = NoValues,
             !.values = NoValues, !.ids = {}, !.sentCompare = <<>>,
             !.selected = NoTopic, !.shown = <<>>, !.queued = TRUE,
             !.from = {}, !.missed = FALSE]

ResetSends(pg) ==
  IF pg.selected = NoTopic THEN <<>> ELSE <<SelectMsg(pg.epoch, NoTopic)>>

\* syncCompare: the compared names as far as they are known, at most MaxCompared.
NamesOf(tree) == [id \in DOMAIN tree |-> tree[id].name]

IdsNamed(given, names) ==
  LET known == ElementsAt(names, {i \in DOMAIN names : names[i] \in Range(given)})
  IN  [i \in DOMAIN Cut(known, MaxCompared) |->
         CHOOSE id \in DOMAIN given : given[id] = known[i]]

IdsOf(tree, names) == IdsNamed(NamesOf(tree), names)

Streamed(pg) == IF pg.tab = "compare" THEN IdsOf(pg.tree, pg.names) ELSE <<>>

SyncCompare(pg) ==
  IF pg.epoch = 0 THEN pg
  ELSE LET ids == Range(IdsOf(pg.tree, pg.names))
       IN  [pg EXCEPT !.ids = ids, !.values = Restrict(@, ids \cap DOMAIN @),
                      !.sentCompare = Streamed(pg)]

SyncSends(pg) ==
  IF pg.epoch = 0 \/ Streamed(pg) = pg.sentCompare THEN <<>>
  ELSE <<CompareMsg(pg.epoch, Streamed(pg))>>

Tagged(era, values) == [id \in DOMAIN values |-> [era |-> era, n |-> values[id]]]

Over(new, old) ==
  [id \in DOMAIN new \cup DOMAIN old |-> IF id \in DOMAIN new THEN new[id] ELSE old[id]]

\* The preview cache is emptied when it is full; the rows in view are then
\* asked for again because the watch key is forgotten.
WithPreviewsKeepingKey(pg, new) ==   \* mutant: lastWatchKey is kept
  LET all == Over(new, pg.previews)
  IN  [pg EXCEPT !.previews = IF Cardinality(DOMAIN all) > MaxPreviews THEN NoValues ELSE all]

WithPreviews(pg, new) ==
  LET all == Over(new, pg.previews)
  IN  IF Cardinality(DOMAIN all) > MaxPreviews
      THEN [pg EXCEPT !.previews = NoValues, !.watchKey = <<>>]
      ELSE [pg EXCEPT !.previews = all]

WithHistory(pg, t) ==
  IF t.history = <<>> \/ t.selected # pg.selected THEN pg
  ELSE [pg EXCEPT !.shown = AppendHistory(@, t.history, HistorySize),
                  !.from = @ \cup {<<t.era, t.selected>>}]

-----------------------------------------------------------------------------
(***************************************************************************)
(* The socket.                                                             *)
(***************************************************************************)
Send(msgs) ==
  inbox' = IF link = "open" /\ ~gone[sock]
           THEN [inbox EXCEPT ![sock] = @ \o msgs] ELSE inbox

ServerUnchanged == UNCHANGED <<storeVars, clientVars, rd, hand, wr, out, gone>>

ConnectWS ==
  /\ link = "closed"
  /\ sock + 1 \in Conns
  /\ sock' = sock + 1
  /\ link' = "connecting"
  /\ UNCHANGED <<storeVars, connVars, down, b, acts, restarts>>

ServeWS ==
  /\ link = "connecting"
  /\ Accept(sock)
  /\ UNCHANGED pageVars

OnOpenWithoutReset ==   \* mutant: the page keeps what the old socket brought
  /\ link = "connecting" /\ wr[sock] # "off" /\ ~gone[sock]
  /\ link' = "open"
  /\ ServerUnchanged
  /\ UNCHANGED <<inbox, b, sock, down, acts, restarts>>

\* resetClient() runs with the socket open, so its message goes out.
OnOpen ==
  /\ link = "connecting" /\ wr[sock] # "off" /\ ~gone[sock]
  /\ link' = "open"
  /\ b' = ResetClient(b)
  /\ inbox' = [inbox EXCEPT ![sock] = @ \o ResetSends(b)]
  /\ ServerUnchanged
  /\ UNCHANGED <<sock, down, acts, restarts>>

\* The connection is lost; another one is left to reconnect with (bound).
ConnectionLost ==
  /\ link # "closed" /\ wr[sock] # "off" /\ ~gone[sock]
  /\ sock + 1 \in Conns
  /\ gone' = [gone EXCEPT ![sock] = TRUE]
  /\ UNCHANGED <<storeVars, clientVars, rd, hand, wr, out, inbox, pageVars>>

\* Frames that had not been handled by then are lost.
OnClose ==
  /\ link # "closed" /\ wr[sock] # "off"
  /\ gone[sock] \/ wr[sock] = "closed"
  /\ link' = "closed"
  /\ down' = [down EXCEPT ![sock] = <<>>]
  /\ UNCHANGED <<storeVars, connVars, sock, b, acts, restarts>>

(***************************************************************************)
(* An update is written as two frames, the second only if there are counts *)
(* to send.                                                                *)
(***************************************************************************)
CountsFrame(counts) == [t |-> "counts", counts |-> counts]

TickFrame(u) == Over([counts |-> <<>>, era |-> <<restarts, u.epoch>>], u)

FramesCountsFirst(u) ==   \* mutant: the binary frame goes out first
  (IF u.counts = <<>> THEN <<>> ELSE <<CountsFrame(u.counts)>>) \o <<TickFrame(u)>>

Frames(u) ==
  <<TickFrame(u)>> \o (IF u.counts = <<>> THEN <<>> ELSE <<CountsFrame(u.counts)>>)

Deliver(c) ==
  /\ wr[c] = "writing"
  /\ Len(down[c]) + 2 <= MaxDown
  /\ down' = [down EXCEPT ![c] = IF gone[c] THEN <<>> ELSE @ \o Frames(out[c])]
  /\ Written(c)
  /\ UNCHANGED <<sock, link, b, acts, restarts>>

Receives(kind) == link = "open" /\ down[sock] # <<>> /\ Head(down[sock]).t = kind

Handle(page, msgs) ==
  /\ b' = page
  /\ Send(msgs)
  /\ down' = [down EXCEPT ![sock] = Tail(@)]
  /\ ServerUnchanged
  /\ UNCHANGED <<sock, link, acts, restarts>>

\* The reset of lines 147-150.
ForEpoch(pg, t) ==
  IF ~t.reset /\ t.epoch = pg.epoch THEN pg
  ELSE [(IF pg.epoch = 0 THEN pg ELSE ResetClient(pg)) EXCEPT !.epoch = t.epoch]

ForEpochSends(pg, t) ==
  IF (~t.reset /\ t.epoch = pg.epoch) \/ pg.epoch = 0 THEN <<>> ELSE ResetSends(pg)

OnTick ==
  LET t     == Head(down[sock])
      start == [ForEpoch(b, t) EXCEPT !.era = t.era]
      known == [start EXCEPT
                  !.tree = AddTopics(@, t.firstId, t.names),
                  !.values = Over(Restrict(Tagged(t.era, t.compared),
                                           DOMAIN t.compared \cap start.ids), @)]
      page  == WithHistory(WithPreviews(SyncCompare(known), Tagged(t.era, t.previews)), t)
  IN  /\ Receives("tick")
      /\ Handle([page EXCEPT !.queued = TRUE], ForEpochSends(b, t) \o SyncSends(known))

OnCounts ==
  LET f == Head(down[sock])
  IN  /\ Receives("counts")
      /\ Handle([b EXCEPT !.tree = ApplyCounts(@, f.counts), !.queued = TRUE], <<>>)

-----------------------------------------------------------------------------
(***************************************************************************)
(* Drawing.  The rows in view are drawn anew, and the server is told when  *)
(* they are others than before.                                            *)
(***************************************************************************)
VisibleIds(pg) == {id \in DOMAIN pg.tree : pg.tree[id].name \in pg.view}

Render ==
  LET rows == Ascending(VisibleIds(b))
      news == rows # b.watchKey /\ b.epoch # 0
  IN  /\ b.queued
      /\ b' = [b EXCEPT !.rows = rows, !.queued = FALSE,
                        !.watchKey = IF news THEN rows ELSE @]
      /\ Send(IF news THEN <<WatchMsg(b.epoch, rows)>> ELSE <<>>)
      /\ ServerUnchanged
      /\ UNCHANGED <<sock, link, down, acts, restarts>>

(***************************************************************************)
(* The user.                                                               *)
(***************************************************************************)
Act(kind, page, msgs) ==
  /\ kind \in Acts
  /\ acts < MaxActs
  /\ acts' = acts + 1
  /\ b' = page
  /\ Send(msgs)
  /\ ServerUnchanged
  /\ UNCHANGED <<sock, link, down, restarts>>

Scroll(view) ==
  /\ view # b.view
  /\ Act("scroll", [b EXCEPT !.view = view, !.queued = TRUE], <<>>)

\* By click or by key.  A click may hit a row that was drawn before the tree
\* was emptied.  Selecting the selected topic changes nothing.
Select(id) ==
  /\ id # b.selected
  /\ id \in VisibleIds(b) \cup Range(b.rows)
  /\ Act("select",
         [b EXCEPT !.selected = id, !.shown = <<>>, !.from = {}, !.queued = TRUE,
                   !.missed = id \notin DOMAIN b.tree],
         <<SelectMsg(b.epoch, id)>>)

ToggleCompare(name) ==
  LET chosen == [b EXCEPT !.queued = TRUE,
                   !.names = IF name \in Range(@)
                             THEN ElementsAt(@, {i \in DOMAIN @ : @[i] # name})
                             ELSE Append(@, name)]
  IN  /\ \/ name \in Range(b.names)
         \/ Len(b.names) < MaxCompared /\ \E id \in DOMAIN b.tree : b.tree[id].name = name
      /\ Act("compare", SyncCompare(chosen), SyncSends(chosen))

ShowTab(tab) ==
  LET turned == [b EXCEPT !.tab = tab, !.queued = TRUE]
  IN  /\ tab # b.tab
      /\ Act("tab", SyncCompare(turned), SyncSends(turned))

User ==
  \/ \E view \in Views : Scroll(view)
  \/ \E id \in TopicIds \cup Range(b.rows) : Select(id)
  \/ \E name \in Names : ToggleCompare(name)
  \/ \E tab \in {"topic", "compare"} : ShowTab(tab)

-----------------------------------------------------------------------------
Publish(name) == Ingest(name) /\ UNCHANGED <<connVars, pageVars>>

Clear == epoch < MaxEpoch /\ Reset /\ UNCHANGED <<connVars, pageVars>>

\* The server's process ends and starts again: its store is new, its epochs
\* start over, and every connection is gone.  (The bounds of the store and of
\* the connections leave one for the page to come back with.)
Restart ==
  /\ restarts < MaxRestarts
  /\ sock + 1 \in Conns
  /\ restarts' = restarts + 1
  /\ epoch' = 1
  /\ seq' = 0
  /\ byName' = [n \in {} |-> NoTopic]
  /\ topics' = <<>>
  /\ stats' = [messages |-> 0, dropped |-> 0]
  /\ LET served == {c \in Conns : wr[c] # "off"}
     IN  /\ rd' = [c \in Conns |-> IF c \in served THEN "done" ELSE rd[c]]
         /\ wr' = [c \in Conns |-> IF c \in served THEN "closed" ELSE wr[c]]
         /\ gone' = [c \in Conns |-> c \in served]
  /\ hand' = [c \in Conns |-> NoMessage]
  /\ out' = [c \in Conns |-> NoUpdate]
  /\ inbox' = [c \in Conns |-> <<>>]
  /\ UNCHANGED <<clientVars, sock, link, down, b, acts>>

ReaderStep(c) == Reader(c) /\ UNCHANGED pageVars

WriterStep(c) ==
  \/ Deliver(c)
  \/ (SendUpdate(c) \/ TickerFires(c) \/ SeesCancel(c) \/ Teardown(c)) /\ UNCHANGED pageVars

FailingWrite(c) == WriteFails(c) /\ UNCHANGED pageVars

SocketEvent == ServeWS \/ OnOpen \/ OnClose \/ OnTick \/ OnCounts

Next ==
  \/ \E name \in Names : Publish(name)
  \/ Clear
  \/ Restart
  \/ ConnectWS
  \/ ConnectionLost
  \/ SocketEvent
  \/ Render
  \/ User
  \/ \E c \in Conns : ReaderStep(c) \/ WriterStep(c) \/ FailingWrite(c)

Spec == Init /\ [][Next]_vars

\* What OnTick and OnCounts have in common, and no other step does: the first
\* frame is taken off, by a page that is always able to.
FrameHandled ==
  /\ link = "open" /\ down[sock] # <<>>
  /\ down' = [down EXCEPT ![sock] = Tail(@)]
  /\ UNCHANGED <<sock, link, wr>>

\* The goroutines that serve the page, their ticker, the page's event loop and its
\* reconnect timer run; the user, the broker and the network owe nothing, nor do
\* the goroutines of connections the page has left.
Fairness ==
  /\ WF_vars(ConnectWS) /\ WF_vars(Render)
  /\ WF_vars(ServeWS \/ OnOpen \/ OnClose) /\ WF_<<sock, link, wr, down>>(FrameHandled)
  /\ WF_vars(sock \in Conns /\ ReaderStep(sock)) /\ WF_vars(sock \in Conns /\ WriterStep(sock))
-----------------------------------------------------------------------------
Now == <<restarts, epoch>>

(***************************************************************************)
(* The page never mixes topic tables: whatever it shows was sent for the   *)
(* table its ids belong to, the history it shows is the selected topic's,  *)
(* and while that table is still the store's, every name is the store's    *)
(* name for that id and no count runs ahead (app.js:129-151 and 172; "ids  *)
(* are only valid within one epoch", app.js:43).  This has to hold across  *)
(* resets, lost connections and restarts, which begin at epoch 1 again.    *)
(***************************************************************************)
NothingOfAnotherTable ==
  /\ \A id \in DOMAIN b.previews : b.previews[id].era = b.era
  /\ \A id \in DOMAIN b.values : b.values[id].era = b.era
  /\ b.from \subseteq {<<b.era, b.selected>>}
  /\ b.era = Now =>
       \A id \in DOMAIN b.tree : /\ id \in TopicIds
                                 /\ b.tree[id].name = topics[id].name
                                 /\ b.tree[id].count <= topics[id].count

(***************************************************************************)
(* A counts frame names only topics the page knows by then: "Names go out  *)
(* before the counts frame so the browser always knows an id before it     *)
(* sees its count" (ws.go:197-198).                                        *)
(***************************************************************************)
CountsFindTheirTopics ==
  Receives("counts") => DOMAIN Head(down[sock]).counts \subseteq DOMAIN b.tree

\* Nothing is under way between the page and the server, and the server has
\* polled since the store was last emptied.
Quiet ==
  /\ link = "open" /\ ~gone[sock]
  /\ rd[sock] = "reading" /\ inbox[sock] = <<>>
  /\ wr[sock] \in {"polling", "waiting"} /\ down[sock] = <<>>
  /\ ~b.queued
  /\ cur[sock].epoch = epoch

(***************************************************************************)
(* When nothing is under way, the server's want list is what the page has  *)
(* on screen: no watch, compare or select message was dropped for its      *)
(* epoch without the page asking again, and none was left out because the  *)
(* page thought it had been sent (app.js:137-142, 336-341, 649-667).  A    *)
(* page with no row in view says nothing of the rows it had after it has   *)
(* forgotten its watch key (app.js:168-171).                               *)
(* A selection by a click on a row of an emptied tree is the exception:    *)
(* the server does not know the id (ws.go:190) and the page keeps it.      *)
(***************************************************************************)
WantsAgree ==
  Quiet => /\ b.rows # <<>> => want[sock].watch = Cut(b.rows, MaxWatchedRows)
           /\ want[sock].compare = Streamed(b)
           /\ ~b.missed => want[sock].selected = b.selected
           /\ ~b.missed /\ b.selected # NoTopic => selEpoch[sock] = epoch

(***************************************************************************)
(* What the page shows as open has its history recorded, whichever other   *)
(* connections have let go of the topic meanwhile: "History is recorded    *)
(* for a topic while it is open" (README.md:86, store.go:125-139).         *)
(***************************************************************************)
RecordedWhileOpen ==
  Quiet /\ ~b.missed /\ b.selected # NoTopic =>
    b.selected \in TopicIds /\ topics[b.selected].hist # NoRing

\* What the page shows is what the store has.  Of a topic that was selected by a
\* click on a row of an emptied tree the server does not know (WantsAgree).
Current ==
  /\ b.tree = [id \in TopicIds |-> [name |-> topics[id].name, count |-> topics[id].count]]
  /\ Range(b.rows) = VisibleIds(b)
  /\ \A id \in Range(b.rows) : id \in DOMAIN b.previews /\ b.previews[id].n = topics[id].last
  /\ b.tab = "compare" =>
       \A id \in Range(IdsOf(b.tree, b.names)) :
         id \in DOMAIN b.values /\ b.values[id].n = topics[id].last
  /\ b.selected # NoTopic /\ ~b.missed =>
       b.shown # <<>> /\ b.shown[Len(b.shown)] = topics[b.selected].last

(***************************************************************************)
(* Once nothing comes from outside any more, the page ends up showing      *)
(* exactly what the store holds: the tree, the latest message of every row *)
(* in view and, while the comparison is on screen, of every compared       *)
(* topic, and the selected topic's history up to its latest message,       *)
(* unless that was selected by a click on a row of an emptied tree.  This  *)
(* has to hold whatever reset, lost connection or restart came before      *)
(* (store.go:4-6, app.js:99-123, 137-142).                                 *)
(***************************************************************************)
PageCatchesUp == <>[]Current
=============================================================================
