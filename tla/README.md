# mqttex in TLA+

mqttex is a browser UI for watching an MQTT broker: a Go process keeps every
topic it sees in memory and serves a single page that polls it over a
WebSocket. This directory holds a specification of the parts whose correctness
depends on order, concurrency or bookkeeping, TLC runs of them, and TLAPS proofs
about the store and its histories, the WebSocket connections, the page that follows
them, its topic tree and value box, the comparison, the broker connection and the saved
profiles.

Every `MC*.tla`/`MC*.cfg` pair is one run: `tlc -config MCx.cfg MCx`.
Proofs: `tlapm M.tla` for each of `Store_proofs`, `StoreReaders_proofs`,
`WsServer_proofs`, `Session_proofs`, `Broker_proofs`, `Book_proofs`, `Browse_proofs`
and `CompareTable_proofs`; the longest takes about ten minutes.
`PROJECT.json` lists the runs, the source lines each definition stands for, and
for each property a mutated definition that breaks it.

## 1. The system

| Component | State | Operations | Talks to |
|---|---|---|---|
| Topic store (`internal/store/store.go`) | epoch, sequence number, topic table, name index, a message ring per selected topic | Ingest, Reset, Select, Release, Poll (one mutex) | called by broker callbacks, HTTP `clear`, WebSocket goroutines |
| Broker connection (`internal/broker/broker.go`) | generation, current autopaho manager, status | Connect, Disconnect, Publish, callbacks, subscribe goroutine | store, HTTP handlers, autopaho |
| WebSocket sessions (`internal/server/ws.go`) | per connection: cursor, want list, selection epoch; two goroutines | watch, compare, select messages; update every 200 ms; teardown | store, page |
| HTTP server (`internal/server/server.go`) | none of its own | connect, disconnect, clear, publish, profile requests, guard | broker, store, profile book |
| Profile book (`internal/profiles/profiles.go`) | profiles in memory and in a JSON file | Open, List, Get, Save, Delete; normalisation and validation | HTTP handlers |
| Page (`web/app.js`) | socket, epoch, previews, selection and history, comparison and its table, rows on screen, filter timer, profile dialog | socket events, user actions, animation frames, timers, answers to requests | WebSocket, HTTP |
| Topic tree (`web/tree.js`) | nodes by id with counts, totals, marks, rows | addTopics, applyCounts, setFilter, toggle, rows | page |
| Comparison (`web/compare.js`) | none | flatten, columnLabels, buildRows, deviceTopics, pickTopic | page |
| cert.js, format.js, main.go, loadgen, testcert, page layout | - | conversions, start-up, tools | - |

What is hard here:

* *Cursors instead of events.* A reader gets what changed since its last poll.
  Names go out in chunks, so counts of topics whose names were not sent yet must
  not be lost (`Poll`, store.go:217-243).
* *Epochs.* Clearing the tree renumbers all topics; ids are on their way in both
  directions at that moment, kept in cursors, want lists, selections, previews,
  compared values and rows that are still on screen.
* *Reference counting across goroutines.* A topic records history while some
  connection has it selected; selection, release, reset and teardown interleave.
* *Reconnection.* The page comes back to a new socket, perhaps to a new server
  whose epochs start at 1 again, with an old epoch in its hands.
* *Stale callbacks.* Connection managers outlive the requests that replaced them.
* *Things kept instead of computed.* Totals moved by differences, marks of a filter
  generation, cached rows, table cells filled in place: all of them must be what a
  fresh computation would give, in whatever order the page's callbacks ran.
* *Disk and memory.* A profile is written to a temporary file, renamed and only then
  assigned in memory; each of these may fail, and the process may die in between.
* *Answers that come later.* The page goes on while a save is under way, its delete
  button is shared by all profiles, and the list is loaded by a second request.

What makes each component correct: the *store's* readers converge to an exact
copy and each selection is counted once; a *WebSocket session* sends only what
belongs to the epoch it is about and ends its selection with itself; the *page*
shows nothing of another topic table and ends up current; the *broker manager*
has one connection, which its status describes; the *profile book* has the same
content in memory and on disk, also after a crash; the *tree's* totals and marks
are those its topics define; the *comparison's* columns and rows are
distinguishable and complete.

## 2. Modules

```
Sublist                             parts of a list in the order of the list
Ring ── Sublist                     the ring buffer
  └─ Store                          the store's operations (no next-state relation)
       ├─ Store_proofs              lemmas about them, used by the next three
       ├─ StoreReaders ── Mirror    readers with cursors and copies; refines TopicFeed
       │    └─ StoreReaders_proofs  mirrors, the refinement, selections and histories
       └─ WsConn                    the server's two goroutines per connection
            ├─ WsServer             ... with clients that follow the protocol
            │    └─ WsServer_proofs ticks and selections
            └─ Session ── Mirror    ... with the page, end to end
                 └─ Session_proofs  the stream of frames, the page behind it, what the page
                                    has told the server, and recording
TopicFeed                           abstract: copies compared with a table
Broker                              connection manager, requests and callbacks
  └─ MCBroker                       ... with a note of what has overlapped or timed out
       └─ Broker_proofs             the status, and requests one after the other
Tree                                the topic tree's operations
  └─ Browse ── Mirror               tree, filter, keyboard and selected topic
       └─ Browse_proofs            marks, rows, closed folders, totals, the matches that
                                    are compared, and the value box
Comparison                          the algorithms of the comparison
  └─ CompareTable ── Sublist        the comparison's list, payloads and table
       └─ CompareTable_proofs       the table, what is kept and flashed, the titles, the
                                    devices that are typed, and the paths of fields
ProfileStore                        abstract: requests that take effect at once
Book                                the profile book with its file; refines ProfileStore
  └─ Dialog                         ... under the page's dialog
       └─ Book_proofs               the inductive invariant and the refinement
```

`Sublist` is what a loop keeps of a slice or an array, by the indices it keeps, and a set
in an order, by how many members come before each. They stand where `SelectSeq` and
`SetToSortSeq` would, because those are defined by recursion, about which the provers
can conclude nothing.

`Ring` (store.go:278-310). The buffer is indexed from 0 with `next` and `full`
as in the code. A message is its running number `N`; payload and time decide
nothing.

`Store` (store.go:34-275). `epoch`, `seq`, `byName`, `topics` and `stats` are the
fields of `Store`; each operation is atomic because it holds `s.mu`. Topic ids
are the code's plus one, so `topics` is a sequence and 0 stands for "none".
`Selected`/`Released` map a topic table, so that ws.go's calls compose with its
own lock. `Poll` changes nothing in the store: it is the operators `PollUpdate`,
`PollCursor` and `PollHistN`. The cursor's `HistN` is kept beside the other
cursor fields. `Stats.Bytes` is left out.

`Mirror` (tree.js:54-79, 116-131, app.js:510-537). What the page knows of the
table, and how it appends history.

`TopicFeed` is what store.go:3-7 promises, without cursors or sequence numbers:
a refresh copies a first part of the table, exactly as it is, and a copy of the
same generation never loses topics.

`StoreReaders` composes store and readers without transport: an update is
applied when it is polled.

`WsConn` (ws.go). `rd` and `wr` are the program counters of the two goroutines.
A watch or compare message is one step (it holds the client's mutex and calls
nothing); a selection is two steps, because the store's mutex is free between
`Release` and `Select`; `sendUpdate`'s locked part is one step and the write
another. `Teardown` is the deferred release. `WritesMayFail` says whether a write
can fail while the reader goroutine still works: a slow peer (`writeTimeout`) or a
reset connection.

`WsServer` adds clients that send any message about topics they were told of, and
leave at any time. Everything written reaches them at once.

`Session` replaces these clients by the page. The page is one record `b`;
callbacks are operators from record to record plus the messages they send, so
that one step is one JavaScript callback, `resetClient` and `syncCompare`
included. Frames travel in `down`, messages in `inbox`, both in order; frames not
handled when the socket closes are lost. Rows are reduced to the topics in view
(`view` changes by `Scroll`), which is what the watch list is made of. `Restart`
ends the server and starts it with a new store. `era`, `from` and `missed` are
auxiliary. `MCSessionLive` adds `script`, what is still to come from outside.

`Broker` (broker.go). A request is a few steps: the locked section of
`Disconnect`, the wait for `cm.Disconnect`, `store.Reset`, the locked section that
starts the new manager. Managers (`mgr`, external) get through, fail, lose the
link, call back and deliver messages. Each `OnConnectionUp` starts a subscribe
goroutine (`subs`), each DISCONNECT packet an `OnServerDisconnect` (`closing`). The
store is reduced to `held`, the managers whose messages it holds.

`Tree` (tree.js). A tree is a record of the class's fields; a node is its path, so
that parents, children and the order of rows follow from the path. Each method is
an operator from tree to tree. `rows` is the cache, `Rows` what `rows()` returns,
`FreshRows` the walk behind it.

`Browse` (app.js:237-622) is the page around the tree: one step is one callback.
`drawn` is what the last frame put on screen, which clicks hit; keys go by `rows()`.
`timer` is the 100 ms of the filter. `d` is the selected topic: its history, what is
pinned, and what the value box was last told to show. What the socket brings is any
new topics, counts and messages; `byUser` is auxiliary. Whether the comparison's tab
opens after "compare matches" (app.js:460) belongs to `CompareTable`.

`Comparison` (compare.js) are its functions over sequences of characters, segments
and fields. The rows of a table are the places where a path is read for the first time,
in reading order, which is what the insertion order of a `Map` amounts to. A message
comes as the leaves of its JSON document; the JSON syntax and the cut of long values
(`cell`, `digest`) are left out.

`CompareTable` (app.js:136-165, 626-955). Topics stand for their ids. `els` are the
rows that exist with the text and the flash of each cell, `body` those in the table.
`quiet` is whether `quietUntil` lies ahead. `news` is auxiliary.

`ProfileStore` says what the book promises: a request takes effect at once, between
being asked and being answered, and only a request changes the book.

`Book` (profiles.go:204-329, server.go:82-113). A request is taken apart where a
crash tells the difference: taking the mutex and making the next list, writing the
temporary file, renaming it, assigning `b.list`. `Fail` is any of the errors of
`write`. `normalize` and `ValidateFilter` are the choice to refuse before the lock.

`Dialog` (app.js:63-84, 998-1019, 1099-1176) sends the page's requests to `Book`,
one slot each; `then` is what the code after its `await` does. `Elsewhere` is a
second page. `sure` and `gone` are auxiliary.

## 3. Runs

Constants that bound the environment (`MaxIngest` messages per epoch, `MaxEpoch`,
`MaxSent`, `MaxInFlight`, `MaxActs`, `MaxAsks`, `MaxRestarts`, `MaxRequests`,
`MaxSessions`, `MaxTopics` and `MaxCount` of `Browse`) appear only in guards of
environment actions, `MaxSteps` only in `FieldsTellApart`; `MaxDown` is how many frames the socket buffers before a write
blocks. The others (`MaxTopics` of `Store`, `HistorySize`, `HistoryMax`,
`MaxNamesPerPoll`, `MaxWatchedRows`, `MaxCompared`, `MaxPreviews`, `MaxCells`,
`AutoExpandDepth`, `PageRows`) are the code's limits made small enough to be reached.
Runs allow deadlock because the bounded environment may stop.

| Run | Asks | Bounds and why they suffice |
|---|---|---|
| `store` | Are mirrors exact, selections counted, histories gapless and complete; does the store implement the feed? | 2 readers, 3 names of which 2 fit, 1 name per poll, a ring of 2, 4 messages per epoch, 1 reset: a full table, counts that change between chunks, overflow between two polls, release by one reader while the other reads |
| `ws_select` | Are selections counted in every interleaving, and do they end with their connections? | 2 connections, 2 messages sent: select and reselect, or one each |
| `ws_lists` | Does a tick name only topics of its epoch? | 1 connection, 2 messages, lists longer than the limit, 1 reset, writes that fail at any moment |
| `ws_teardown` (violation) | Does `ws_select` hold with failing writes? | 1 message suffices |
| `session` | Do counts come after the names they are about, and do want list and page agree? | 2 topics, 2 messages per epoch, 1 reset, 2 user actions, a comparison limit of 1, topics in view or none; selecting again and clicks on old rows included |
| `session_reconnect` | Does the page mix tables across lost connections and a restart, and is what it has open recorded? | 2 connections, of which the page may use the second before the server has torn down the first, 2 selections, 1 restart with other names |
| `session_live` | Does the page end up current? | 2 connections, 2 topics, a preview cache of 1, two views, 1 name per poll; what comes from outside is one of the 10 sequences of `Scripts` or the beginning of one, in any interleaving with page and server: messages, a reset, a restart or a lost connection before, between and after the user selects, compares, switches tabs or scrolls |
| `broker` | Does the status describe the current connection, is every request answered; one connection and one broker's tree? | 2 handlers, 2 requests, 2 sessions per manager, disconnects that time out |
| `broker_double_connect` (violation) | see below | |
| `browse` | Are totals, marks and rows those of the topics; does the filter's button use what was typed last; is what is shown the selected topic's message, and a flash news of it? | 2 of 3 topics: one that is a folder too, one below a closed folder, names that differ in case; 2 filters and a paste; a history of 2 and 3 messages, so that pins other than the latest and trimmed ones occur, a comparison of 1; 3 actions, resets among them |
| `compare` | Does a table filled in place show what a new one would, flash for news only, and are columns, rows and devices told apart? | 4 topics in 2 batches, 2 columns found in storage, 2 payloads that share a field and differ in it, a table of 2 cells, so that rows are cut; 3 actions; values up to 2 steps deep (`MaxSteps`), whose keys are made of every character of the path syntax and of digits, so that one that looks like an index is next to the index |
| `profiles` | Does the book keep its promise across failing writes and crashes; what do dialog and list make of it? | 2 requests at a time, 2 ids, a profile with a password or none, 2 saves, deletes and crashes, any number of failing writes |

`session` and `session_live` tell a selection made by a click on a row of an emptied
tree apart (`missed`), see below. `browse` takes the filter, the history and the
counts, which share no state, one at a time (`Apart`). `broker` remembers whether
requests have overlapped and whether a disconnect has timed out: `OneConnectionInTurn`
asks nothing after the first, `TreeOfOneBrokerInTurn` nothing after either.

Symmetry (of readers and of names) is used in `store`, `session` and
`session_reconnect`, which have no liveness property.

### Fairness

`ws_select`: goroutines that can run do (weak fairness of each goroutine's steps)
and the select statement of ws.go:157 sees a cancellation although the ticker may
win any number of times (strong fairness; Go chooses at random among ready cases).
The ticker and failing writes are not assumed. `session_live`: the goroutines of the
connection the page uses, its ticker, the page's event loop and its reconnect timer
(app.js:121); nothing is assumed of the goroutines of connections the page has left. That
the page takes every frame is stated of `FrameHandled`, what the two callbacks of frames
have in common, which keeps the evaluation of `ENABLED` cheap. `broker`:
handlers and callbacks; nothing is assumed of the broker. `profiles`: the goroutine
of each request (writes end, well or not). Users, publishers and
the network owe nothing anywhere.

### What the violations show

* `ws_teardown`: the deferred release of a connection can run while its reader
  goroutine holds a select message; the selection made afterwards is never
  released and the topic records history for nobody (ws.go:127, store.go:40, :125).
* `broker_double_connect`: two connect requests at once leave a connection that
  nothing can stop (broker.go:71, :144).

What else the models show, without a run of its own:

* Ticks are matched to the selection by topic id only (app.js:172). Leaving a topic
  and coming back while a tick is on its way joins the two selections' messages,
  although some are missing between them.
* Between the tick that empties the tree and the next animation frame a click selects
  an old id in the new epoch (app.js:364). The server does not know it (ws.go:190)
  and the page keeps it as selected; `WantsAgree` and `PageCatchesUp` leave such a
  selection out. With no topic of that id yet, the button next to
  the topic would compare `undefined`, on which `idOf` fails at every tick.
* A page that comes back to a restarted server has the old server's epoch until the first
  tick and the old rows until the first frame. If the new server's epoch has reached that
  number, but not yet in what the connection's cursor has seen, a click on such a row is
  accepted (ws.go:190), and the next poll drops the selection without a release
  (ws.go:204): the topic records history for nobody until the next reset.
* After a disconnect that timed out, a message of the old connection can land in
  the new tree, since `ingest` (broker.go:165-177) ignores the generation.
* A subscribe may be answered (10 s) after the connection was lost and came back
  (3 s); its result has the same generation and is shown for the new session
  (broker.go:107). How long paho lets a subscribe of a lost connection wait is not
  in this repository; the model allows its full deadline.
* A column with no segment of its own is titled with its whole topic, which may be
  another column's title: `a/b` next to `a/a/b/b` (compare.js:114). `LabelsTellApart`
  leaves such columns out.
* A form that is submitted twice for a new connection, before the first answer, saves
  two. The answer to a save closes whichever dialog is open by then (app.js:1156).
  Two loads of the list may be answered in the other order, so that the older list
  stays. A certificate file is read while the dialog is used (app.js:1088) and may
  land in the next one. Of two pages that edit one profile the later save wins.
* A failed write or a crash leaves `profiles.json.tmp` behind; the next write
  replaces it. Nothing is synced, so a power failure is outside the model.

## 4. Proofs

Each theorem is about the specification that a run checks, for every value of the
constants: any number of readers, connections, topics, messages, resets, restarts,
handlers and requests, and any limits.

### The store and its readers

`StoreReaders_proofs` proves that `TypeOK`, `IndexAgrees`, `CursorInRange` and
`MirrorExact` hold in every reachable state. `MirrorExact` is not inductive alone: a
cursor beyond the table, or a topic stamped after the store's sequence, would let the
next poll skip a count. The invariant is

    IInv == TypeOK /\ IndexAgrees /\ CursorInRange /\ MirrorExact

(`CursorInRange`: a cursor of the current epoch points into the table, its
sequence is not ahead, and the mirror's domain is exactly the names delivered.)
The argument for a poll: a topic the reader knew is either stamped after the
cursor's sequence, and its count is in the update, or it is not, and the mirror
had the count already; a topic named now is always counted.

From that invariant follows `Spec => ImplementsFeed`: a poll maps to `Refresh`,
because the invariant makes the new mirror equal to a first part of the table,
Ingest to `PublishNew` or `PublishAgain` (or a stutter when the table is full),
Reset to `Clear`, the rest to stutters.

The same module proves `SelectionsCounted`, `HistoryContiguous` and
`HistoryReachesBack`. `HInv` adds to `IInv`

* `CountsInv`: a topic's count is the number of its latest message, below the wrap;
* `EpochsInv`: a selection is of the epoch its reader knows, so that one of an older
  epoch is never released on a topic of the new one;
* `SelectionsCounted` itself: `selected` is the cardinality of the holders, which
  `TakenCounted` and `DroppedCounted` carry over one selection or release;
* `RingsInv`: a ring holds the last numbers up to the topic's count without a gap
  (`FirstPush`, `NextPush`), so that what is newer than `HistN` is again a run
  (`AfterOf`), whatever the ring's size;
* `HistoriesInv`: what a reader shows is a run that ends with its `HistN`, and lacks
  nothing since its selection unless `HistorySize` messages are shown.

### The WebSocket connections

`WsServer_proofs` proves `TicksAnswerTheirEpoch` for any interleaving of the two
goroutines of any number of connections. A tick is right because the lists and the
selection it is made from are, and these are right because the client said nothing it
had not been told: `WInv` bounds every id in a message, in the hands of the reader, in
a want list and in a selection by what the cursor of that connection had at that epoch
(`Told`), and says that lists and selection are of the cursor's epoch or empty, which
is what the reset of ws.go:210-216 is for.

It also proves `SelectionsCounted` under `~WritesMayFail`. The run `ws_teardown` shows
that the hypothesis is needed. `SInv` adds `ReaderEndsFirst`: a writer that is on its
way out, or out, has a reader that is done, so that nothing is selected after the
deferred release. A write that fails breaks exactly this.

### The page behind its connection

`Session_proofs` proves `NothingOfAnotherTable` and `CountsFindTheirTopics` across
resets, failing writes, lost connections and restarts of the server. Neither is
inductive: what the page shows next depends on the frames on their way, and these on
the server's cursor. `PInv` therefore relates the store, the cursor, the update the
writer holds, the frames in `down` and the page they come to (`Receiver`: the page as
it is, or, before `onopen`, as `resetClient` will leave it):

* `Ordered`: the epochs in the stream never fall; a tick with `reset` is of another
  epoch than all ticks before it and than the page, unless the page is empty; the
  topics below a tick's `firstId` have been told before it, by the page's tree or by an
  earlier tick of that epoch; counts come right after a tick that completes the names
  they need; all ticks are of one run of the server, and so is the page, unless it is
  blank;
* `Agrees`: a frame of the store's present table carries the store's names, and counts
  that are not ahead;
* `Continues`: the writer's cursor, or the update it is about to write, may come after
  all that; a connection whose writer is alive belongs to the present run of the server.

The store's steps keep this because within one epoch the table only grows (`MovesOn`).
A poll appends by the same relation (`PollShape`, `TickAdded`, `CountsAdded`), and a
callback takes the first frame off it: `Takes` says that the page has not lost what a
later tick builds on, which holds although a tick with `reset` empties the tree,
because later ticks of the old epoch cannot follow (`OnTickStep`). A restart cuts all
connections before its epochs begin at 1 again, which is why `Ordered` can speak of one
run per connection, and `onopen` empties the page before it hears of the next run.

`WantsAgree` looks at the other direction: the messages on their way to the server, and
those the reader holds (`Pending`), against what the page believes it has sent. `WInv`
adds to `PInv`

* `Agreement`: of the watch and of the compare messages that the server will accept, the
  last one carries what the page has sent, and without one the want list has it already
  (`ListAgrees`); the same of the selection, which is sent with every change and never
  twice (`SelectionAgrees`);
* that this holds of the lists only while no tick is on its way that makes the page
  start anew (`ToRenew`); until the page has seen that tick, the server has empty lists
  and accepts nothing, because whatever the page sends has the old epoch (`InStep`);
* `Heard`: the last tick on its way has the epoch of the writer's cursor, and if there is
  none the page has it, so that page and server do get in step.

Lists are compared as the server cuts them (ws.go:113-120). The agreement has two
exceptions, both in the code: a page that has just forgotten its watch key sends nothing
while it has no row in view (app.js:168-171), so that the server may go on watching what
it no longer shows; and a click on a row of an emptied tree selects what the server does
not know (`missed`, section 3).

`OpenIsRecorded` proves `RecordedWhileOpen` under `~WritesMayFail`, for `ws_teardown`
applies here as well: whatever older connections release, the topic that the page's own
connection holds has a ring. `HInv` says that a topic counts *at least* the live
connections that hold it (`AtLeast`), not exactly as many: a poll after a reset drops the
want list, and with it, uncounted, a selection that a click on an old row made for an
epoch the cursor had not reached (ws.go:190, 204). Such a topic goes on recording for
nobody (section 3); what the theorem excludes is that somebody's topic does not record.

### The broker connection

`Broker_proofs` proves `TypeOK` and `StatusDescribesConnection` of `Broker`, with
disconnects that time out and without. The invariant adds

* `Profiled`: a handler that is about to start a connection was asked for one;
* `Generations`: only the manager in `cm` can have the current generation, and only
  while the status is not "disconnected"; a cancelled manager, and one a handler
  waits for, has an older one; a manager about to call back "up" has its link up.

A request's step raises `gen`, after which every existing manager is stale
(`NewGeneration`); a manager's step changes the status only with the current
generation, and is then the manager the status is about (`OneManagerStep`).

`OneConnectionInTurn` and `TreeOfOneBrokerInTurn` are proved of `MCSpec`, whose
`overlapped` and `expired` note that two requests have been under way at once and that
a disconnect was given up (without that note the first is false, section 3). `TurnInv`
says that a handler past its drop has left no connection; that, as long as nothing was
given up, a link is up only for the Manager's connection or for the one a handler
waits for, so that nothing is delivered between the reset of the tree and the start of
the next connection; and that the tree is empty when that start comes.

### The profile book

`Book_proofs` proves, for any number of requests and any ids, profiles and passwords,
`BookSpec => []FileIsWhole`, `[]MemoryIsFile` and `KeepsItsPromise`, the refinement.
`MemoryIsFile` is not inductive alone, and a rename maps to `Apply` of the abstract
store only if the file it installs is the list the request makes of the present book.
The invariant adds

* `BookTypeOK`: the holder of the mutex is the one request past it;
* `Prepared`: what a request is about to write, and has written to the temporary
  file before the rename, is the result of the request on the list in memory, which
  nobody else can change because of the mutex.

Lock, write, failure and assignment then map to stutters or `Refuse` and `Answer`,
the rename to `Apply`, a crash to `Crash`: in the state between rename and assignment
the abstract request is applied and not yet answered. `DialogUsesTheBook` carries all
of it over to `Dialog`, whose steps change the book only by the book's own. For
`DialogConfirms` the invariant is that an armed button in an open dialog was clicked
in it.

`PasswordKept` and `SavedIsSelected` are proved of the dialog's `Spec`. Both rest on
what a delete, a creation and an update make of a list (`DeleteResult`, `CreateResult`,
`UpdateResult`) and on `IdsInv`: the lists in memory, in the file and being written have
distinct ids that were made, since a creation takes a new one under the mutex. Only the
rename changes the file (`FileChanges`), and by `RenameMakes` what it puts there is the
result of one request on it, which keeps every other profile (`ResultKeeps`) and every
password that was not given or cleared (`ResultPasswords`). Without distinct ids in the
file to begin with `PasswordKept` is false already where nothing changes, so that
`StoredAssumption` is needed: a file edited by hand is not covered.

For `SavedIsSelected`, `SlotInv` says that an id is in the file or somebody asked to
delete it (`Stays`) from the rename of a save on, through its answer and the load that
follows, which reads the file's list under the mutex. It holds across a crash, which
leaves the file, and across the requests of other pages, whose deletes are in `gone`.

### The comparison

`CompareTable_proofs` proves `OnlyComparedValues`, `NoFlashPutBack` and the action
property `FlashTellsNews`. `CInv` says that payloads are kept only of what is resolved,
which is compared and known (`ValuesInv`); that every row of a table that will be filled
in place has a cell for each column (`RowsInv`); and that a cell shows the latest
payload, or nothing, or something that changed since it was drawn (`CellsInv`): a cell
that differs from what is put into it is therefore news.

`TableCorrect` proves `TableIsCurrent`: while the tab is open and no frame is due, the
table is the one that would be built from the latest payloads, although frames reuse its
rows, flashes are taken off later, and rows are left out by the switch and by the limit.
What would be built is known by three facts about `BuildRows` (`RowsAre`): each path
that some column has comes once, with what each column has for it, and in the order in
which a reader of the columns, one after the other, meets it. They follow from what it
means that the rows are the first places of their paths in reading order: a finite set
with an order is listed by how many members come before each (`InRankIs`). `FlattenIs`
and `ColumnsAre` then give each column the fields of its topic's latest message, and
`FrameCurrent` shows that a frame leaves a table with these rows, in place or anew.
Everything else that changes what the table depends on, be it a payload, the list, the
topics known, the switch or the tab, marks the table as out of date (`NextTableInv`).

`LabelsCorrect` proves `LabelsTellApart`: two columns with a title of their own have
different titles. What all the names share at the start and at the end is cut off, and
neither cut reaches into the other, so that equal titles make equal names
(`MiddleTellsApart`); and the list has no name twice (`NamesApart`), which every action
keeps and of which the list found in storage must be a case (`TopicsAssumption`).

`DeviceCorrect` proves `AddsTheDevice`: where the compared topics differ in one segment,
typing another value of it adds the topic with that value, if it is in the tree and not
yet on the list. The segment is then the only one that `Rank` has to order (`RankOfOne`),
what is typed takes its place as a whole (`ReplacedIs`), because that is the first of the
guesses (`FirstGuess`), and `pickTopic` takes the first guess that is new
(`FirstIsPicked`); nothing that only looks like it can come before.

`FieldsCorrect` proves `FieldsTellApart`: paths are told apart by the steps they are made
of, up to any depth and for keys made of any characters, brackets, dots, quotes and
backslashes among them. A path is its steps' texts one after the other, each at an offset
that the recursion of `FlattenSeq` gives (`FlattenLays`). From the text and a place in it
at which a step begins, the step can be told and so where the next one begins
(`StepTells`): by its first two characters it is an index, a quoted key or a plain one; an
index and a plain key last as long as their characters do (`RunTells`), and in a quoted
key only the closing quote stands without a backslash, so that escaping can be undone from
left to right (`EscapedTells`, `QuotedTells`). If two paths are the same text, the least
step at which they could part does not (`PathReads`), and neither is longer, as what is
left of it would have no text (`ShorterPath`).

### The topic tree

`Browse_proofs` proves `MarksAreMatches`, `RowsAreFresh`, `ClosedByUser`, `SubtreeSums`
and `AllMatchesCompared`, of any topics, filters and counts in any order.

The filter walks all topics and marks upwards from each that matches until it meets a
mark. In the model that is a fold over a set, whose result has to be known before
anything can be said of it. Induction over the ids is out of reach (see below), but a
set of sizes has a least member: a smallest set for which a claim about a fold fails
would have a smaller one (`SetInduction`). Thus `FilterIs` gives the walk its closed
form, `MarkedFor`: a node has the new mark, and is open, if and only if a matching topic
is below it. It needs that no node has the mark of the coming generation already, which
is in the invariant `TreeInv` (`MarksPast`), as is that every node's parents are in
the tree (`PathsThere`). A topic added under a filter keeps both (`AddTopicInv`).

`BInv` adds to `TreeInv` that a filter whose delay has passed is the one in the input,
and the properties. Rows are fresh because each method that changes what they depend on
drops them, and counts and marks that stay as they are change nothing of it (`SameRows`).
Folders are closed only by the user because marking opens them and a new node starts
open.

For `SubtreeSums`, `Total` is the sum over a finite set, which does not depend on the
order (`SumIs`), so that one topic's change is the change of the total (`TotalChange`).
`SumInv` says that no two topics have the same path, that a folder that is no topic counts
nothing, and that each node has the number and the sum of the topics below it; a count
is moved upwards by the difference to the one before, a topic's arrival by one leaf
(`CountSum`, `AddTopicSum`). `CInv` also says that ids are handed out one after the other.

`AllMatchesCompared` follows from these: when the button is clicked the tree has the filter
that the input says, at once if it was still waiting; a topic that matches has the mark on
its whole path (`MatchIsWanted`) and is found by the walk; the walk's order is a strict
total order of the paths (`PathsInOrder`: they part at a first segment, or one ends), so that
every match has its place in the list (`MatchesAreListed`); and what is missing is added
until it is all there or the list is full (`Refilled`). `ListInv` bounds the list.

### The value box

`Browse_proofs` proves `BoxShowsTheMessage` and `FlashMeansNewer` of `Browse`'s `Spec`.
Both follow from `BoxInv`: a history is a list of message numbers none of which is above
its last one (`IsHistory`); a message that is pinned is in it; what the box shows, unless
it has to be drawn anew, is a message of the selected topic that is not newer than the
latest one, because a history's end never gets older (`AppendBatch`), not even when it is
cut or when a batch begins with messages the page has; and when no frame is due the box
shows what it should. `DetailStep` says what any step of the page does to the selected
topic, so that the tree and the filter, whose operators fold over sets, need not be
opened. A pin that is cut off the history goes with it; without that the box would
keep a message that is not there, which the property's mutant shows.

### Assumptions

Besides the shapes of the constants (`StoreAssumption`, `ConnAssumption`,
`SessionAssumption`, `BrokerAssumption`, `BookAssumption`, `TreeAssumption`,
`BrowseAssumption`, `MessagesAssumption` and `TableAssumption`: limits are numbers, mostly
positive, "none" is not a value, keys are texts, connections are finitely many, and those
of the page are numbered) the proofs use

* `StoredAssumption` (`Book`): a profile file found at the start has profiles, no two
  with the same id, as this program writes it;
* `TopicsAssumption` (`CompareTable`): topics, and what is typed, are lists of segments,
  which are texts, and the list of compared topics found in storage has no name twice, as
  this page writes it;
* `ComparisonAssumption` (`Comparison`): a digit is not one of the characters that close
  an index or a key;
* `ReadersAssumption` (`StoreReaders`): finitely many readers, without which a
  reference count cannot be a number;
* `NoWrap` (`StoreReaders`, `Session`): fewer than 2^32 messages arrive in one epoch. A
  wrapped number would look older than its predecessor to `after()` (store.go:300), and
  a count would fall.

### Only model-checked

Liveness (`PageCatchesUp`, `SelectionsEnd`, `RequestsEnd` and `RequestsAnswered`) is out of
the provers' reach. Every other property of the passing runs is proved; `SelectionsCounted` of
the connections and `RecordedWhileOpen` under `~WritesMayFail`, which the violation of
`ws_teardown` shows to be needed, and those of `Session` and of the store's selections and
histories as long as numbers do not wrap (`NoWrap`).

The library's theorems about induction over sequences or sets take the property as a
parameter, which the provers cannot instantiate. In their place stand a least
counterexample ("The topic tree", "The comparison") and the step by which a function is
defined.

## 5. Not modelled, and what could come next

Left out for good: wire encodings and payload truncation, drawing and layout, the top
bar and its rate, toasts, publishing (it changes nothing), certificates' bit formats
(`cert.js`, `ParseCerts`), the wording of sizes and intervals (`format.js`), start-up,
the load generator and the test certificates. The HTTP guard is a stateless predicate,
`normalize` and the validators are pure checks of one profile. `reveal` and `path` of
the tree are not called by the page. The time a dot stays lit (`Node.active`) and the
ages in the comparison's header are left out, as they only fade and count. The wrap
of message numbers after 2^32 (store.go:84) is in `Increment`, and no run reaches it.

What could come next:

1. Proofs of what `deviceTopics` and `pickTopic` do where `AddsTheDevice` says nothing:
   topics that differ in several segments, or in none, where the ranks decide.
2. `Session` with `Browse`'s tree in place of `Mirror`: the rows in view would then
   come from the filter and the folders. Today the two meet only in what a tick may
   bring.
