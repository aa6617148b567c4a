------------------------------- MODULE Browse -------------------------------
(***************************************************************************)
(* The left side of the page: the topic tree as it is drawn, the keyboard  *)
(* and the mouse in it, the filter with its delay, and the comparison list *)
(* it feeds; and the selected topic with its history, which the right side *)
(* shows (web/app.js:237-622).                                             *)
(*                                                                         *)
(* One step is one callback of the page.  What a tick brings is any new    *)
(* topic, count or message of the selected topic.  A click that hits a row *)
(* of an emptied tree is left to module Session.                           *)
(***************************************************************************)
EXTENDS Tree

M == INSTANCE Mirror   \* for its AppendHistory

CONSTANTS
  Paths,         \* names of the topics that may appear
  Texts,         \* what the user types into the filter
  Clips,         \* lists of cells pasted into it
  PageRows,      \* rows PageUp and PageDown move by
  MaxCompared,   \* app.js: compared topics
  HistoryMax,    \* app.js: messages the history shows
  MaxTopics,     \* bound: topics
  MaxCount,      \* bound: messages of a topic
  MaxActs        \* bound: actions of the user and resets

ASSUME BrowseAssumption ==
  /\ Paths \subseteq Seq(Segments) \ {Root}
  /\ PageRows \in Nat \ {0} /\ MaxCompared \in Nat /\ HistoryMax \in Nat \ {0}
  /\ MaxTopics \in Nat /\ MaxCount \in Nat /\ MaxActs \in Nat

VARIABLES
  t,          \* the tree
  text,       \* what the filter's input holds
  timer,      \* whether a change of it waits to be applied
  drawn,      \* the rows on screen
  queued,     \* whether a frame is due
  cursor,     \* keyboard position, Root for none
  d,          \* the selected topic and its history
  compared,   \* compareNames
  byUser,     \* auxiliary: folders the user has closed under the present filter
  acts        \* actions so far

vars == <<t, text, timer, drawn, queued, cursor, d, compared, byUser, acts>>

NoMessage == 0

\* box: the topic and message the value box shows; flash: whether it flashed.
NoDetail ==
  [selected |-> NoId, history |-> <<>>, pinnedN |-> NoMessage, shownN |-> NoMessage,
   box |-> <<NoId, NoMessage>>, flash |-> FALSE]

Init ==
  /\ t = EmptyTree
  /\ text = <<>>
  /\ timer = FALSE
  /\ drawn = <<>>
  /\ queued = TRUE
  /\ cursor = Root
  /\ d = NoDetail
  /\ compared = <<>>
  /\ byUser = {}
  /\ acts = 0

-----------------------------------------------------------------------------
(***************************************************************************)
(* What the socket brings.                                                 *)
(***************************************************************************)
Names(paths) ==
  LET first == Cardinality(DOMAIN t.byId) + 1
  IN  /\ first + Len(paths) - 1 <= MaxTopics
      /\ \A i \in DOMAIN paths : \A id \in DOMAIN t.byId : t.byId[id] # paths[i]
      /\ t' = AddTopics(t, first, paths)
      /\ queued' = TRUE
      /\ UNCHANGED <<text, timer, drawn, cursor, d, compared, byUser, acts>>

Counts(id, count) ==
  /\ t.nodes[t.byId[id]].count < count
  /\ t' = ApplyCount(t, id, count)
  /\ queued' = TRUE
  /\ UNCHANGED <<text, timer, drawn, cursor, d, compared, byUser, acts>>

AppendKeepingPin(msgs) ==   \* mutant: a trimmed message stays pinned
  [d EXCEPT !.history = M!AppendHistory(@, msgs, HistoryMax)]

AppendMessages(msgs) ==
  LET shown == M!AppendHistory(d.history, msgs, HistoryMax)
  IN  [d EXCEPT !.history = shown,
                !.pinnedN = IF \E i \in DOMAIN shown : shown[i] = @ THEN @ ELSE NoMessage]

\* A batch may begin with messages the page has already.
History(msgs) ==
  /\ d.selected # NoId
  /\ Last(msgs) <= MaxCount
  /\ d' = AppendMessages(msgs)
  /\ queued' = TRUE
  /\ UNCHANGED <<t, text, timer, drawn, cursor, compared, byUser, acts>>

ResetClient ==
  /\ acts < MaxActs
  /\ acts' = acts + 1
  /\ t' = IF text # <<>> THEN SetFilter(EmptyTree, Terms(text)) ELSE EmptyTree
  /\ drawn' = <<>>
  /\ queued' = TRUE
  /\ cursor' = Root
  /\ d' = NoDetail
  /\ byUser' = {}
  /\ UNCHANGED <<text, timer, compared>>

-----------------------------------------------------------------------------
(***************************************************************************)
(* Drawing.  The value box is left alone while it shows the right message. *)
(***************************************************************************)
RenderDetailAlways(dt) ==   \* mutant: every frame that finds a message flashes
  IF dt.selected = NoId \/ dt.history = <<>> THEN [dt EXCEPT !.flash = FALSE]
  ELSE LET n == IF dt.pinnedN # NoMessage THEN dt.pinnedN ELSE Last(dt.history)
       IN  [dt EXCEPT !.shownN = n, !.box = <<dt.selected, n>>, !.flash = dt.pinnedN = NoMessage]

RenderDetail(dt) ==
  LET n == IF dt.pinnedN # NoMessage THEN dt.pinnedN ELSE Last(dt.history)
  IN  IF dt.selected = NoId \/ dt.history = <<>> \/ n = dt.shownN THEN [dt EXCEPT !.flash = FALSE]
      ELSE [dt EXCEPT !.shownN = n, !.box = <<dt.selected, n>>,
                      !.flash = dt.shownN # NoMessage /\ dt.pinnedN = NoMessage]

Frame ==
  /\ queued
  /\ queued' = FALSE
  /\ t' = WithRows(t)
  /\ drawn' = Rows(t)
  /\ d' = RenderDetail(d)
  /\ UNCHANGED <<text, timer, cursor, compared, byUser, acts>>

-----------------------------------------------------------------------------
(***************************************************************************)
(* The user in the tree.                                                   *)
(***************************************************************************)
\* Selecting the selected topic changes nothing.
Select(dt, id) == IF id = dt.selected THEN dt ELSE [NoDetail EXCEPT !.selected = id]

Turn(p) == Toggle(t, p, ~IsOpen(t, p))

Closed(tree) == {p \in DOMAIN tree.nodes : tree.nodes[p].fcollapsed}

\* What every action of the user in the tree has in common.
InTree(tree, at, detail) ==
  /\ acts < MaxActs
  /\ acts' = acts + 1
  /\ t' = tree
  /\ cursor' = at
  /\ d' = detail
  /\ byUser' = (byUser \cup (Closed(tree) \ Closed(t))) \ (Closed(t) \ Closed(tree))
  /\ queued' = TRUE
  /\ UNCHANGED <<text, timer, drawn, compared>>

Click(p, onChevron) ==
  LET id == t.nodes[p].id
  IN  IF id # NoId /\ ~onChevron THEN InTree(t, p, Select(d, id)) ELSE InTree(Turn(p), p, d)

(***************************************************************************)
(* A key goes to row i of the rows as they were before it, and selects     *)
(* what it finds there.  Rows count from 1; 0 is no row, where a cursor is *)
(* that the filter or a closed folder hides.                               *)
(***************************************************************************)
RowOf(p) == LET rows == Rows(t) IN Max({0} \cup {i \in DOMAIN rows : rows[i] = p})

GoTo(tree, i, detail) ==
  LET rows == Rows(t)
  IN  IF i \notin DOMAIN rows THEN InTree(tree, cursor, detail)
      ELSE LET id == t.nodes[rows[i]].id
           IN  InTree(tree, rows[i], IF id = NoId THEN detail ELSE Select(detail, id))

Move(key) ==
  LET i == RowOf(cursor)
      last == Len(Rows(t))
  IN  /\ last > 0
      /\ GoTo(WithRows(t),
              CASE key = "ArrowDown" -> Min({last, i + 1})
                [] key = "ArrowUp"   -> Max({1, i - 1})
                [] key = "Home"      -> 1
                [] key = "End"       -> last
                [] key = "PageDown"  -> Min({last, i + PageRows})
                [] key = "PageUp"    -> Max({1, i - PageRows}), d)

MoveKeys == {"ArrowDown", "ArrowUp", "Home", "End", "PageDown", "PageUp"}

OpenFolder(p) == Kids(t, p) # {} /\ IsOpen(t, p)

ArrowRight ==
  /\ cursor # Root /\ Rows(t) # <<>>
  /\ IF OpenFolder(cursor) THEN GoTo(WithRows(t), RowOf(cursor) + 1, d)
     ELSE GoTo(Toggle(WithRows(t), cursor, TRUE), RowOf(cursor), d)

ArrowLeft ==
  /\ cursor # Root /\ Rows(t) # <<>>
  /\ IF OpenFolder(cursor) THEN GoTo(Toggle(WithRows(t), cursor, FALSE), RowOf(cursor), d)
     ELSE GoTo(WithRows(t), IF Len(cursor) > 1 THEN RowOf(Front(cursor)) ELSE RowOf(cursor), d)

Enter ==
  LET id == t.nodes[cursor].id
  IN  /\ cursor # Root /\ Rows(t) # <<>>
      /\ GoTo(IF id = NoId THEN Turn(cursor) ELSE WithRows(t), RowOf(cursor),
              IF id = NoId THEN d ELSE Select(d, id))

\* Pinning an entry of the history shows it instead of the latest one.
Shows(n) ==
  /\ acts < MaxActs
  /\ acts' = acts + 1
  /\ d' = [d EXCEPT !.pinnedN = n, !.shownN = NoMessage]
  /\ queued' = TRUE
  /\ UNCHANGED <<t, text, timer, drawn, cursor, compared, byUser>>

Pin == \E n \in ToSet(d.history) : Shows(n)

BackToLive == d.pinnedN # NoMessage /\ Shows(NoMessage)

-----------------------------------------------------------------------------
(***************************************************************************)
(* The filter, which is applied when its text has stood for a while.       *)
(***************************************************************************)
Edits(new) ==
  /\ acts < MaxActs
  /\ acts' = acts + 1
  /\ text' = new
  /\ timer' = TRUE
  /\ UNCHANGED <<t, drawn, queued, cursor, d, compared, byUser>>

Type == \E new \in Texts \ {text} : Edits(new)

Paste(cells, at) ==
  Edits(LET before == SubSeq(text, 1, at)
            after  == SubSeq(text, at + 1, Len(text))
        IN  before \o FilterPaste(cells, before, after) \o after)

ApplyFilter ==
  /\ timer
  /\ timer' = FALSE
  /\ t' = SetFilter(t, Terms(text))
  /\ byUser' = {}
  /\ queued' = TRUE
  /\ UNCHANGED <<text, drawn, cursor, d, compared, acts>>

AddMatches(tree) ==
  LET names   == [i \in DOMAIN MatchingIds(tree) |-> tree.byId[MatchingIds(tree)[i]]]
      missing == ElementsAt(names, {i \in DOMAIN names : ~Contains(compared, names[i])})
      room    == Max({0, MaxCompared - Len(compared)})
  IN  compared \o SubSeq(missing, 1, Min({room, Len(missing)}))

FilterCompareLate ==   \* mutant: a change that waits is not applied first
  /\ acts < MaxActs
  /\ acts' = acts + 1
  /\ compared' = AddMatches(t)
  /\ queued' = TRUE
  /\ UNCHANGED <<t, text, timer, drawn, cursor, d, byUser>>

FilterCompare ==
  LET tree == IF timer THEN SetFilter(t, Terms(text)) ELSE t
  IN  /\ acts < MaxActs
      /\ acts' = acts + 1
      /\ timer' = FALSE
      /\ t' = tree
      /\ byUser' = IF timer THEN {} ELSE byUser
      /\ compared' = AddMatches(tree)
      /\ queued' = TRUE
      /\ UNCHANGED <<text, drawn, cursor, d>>

\* The key c, or the button next to the selected topic.
ToggleCompare(name) ==
  /\ acts < MaxActs
  /\ acts' = acts + 1
  /\ compared' = IF Contains(compared, name) THEN ElementsAt(compared, {i \in DOMAIN compared : compared[i] # name})
                 ELSE IF Len(compared) < MaxCompared THEN Append(compared, name) ELSE compared
  /\ queued' = TRUE
  /\ UNCHANGED <<t, text, timer, drawn, cursor, d, byUser>>

-----------------------------------------------------------------------------
Tick ==
  \/ \E n \in 1..2 : \E paths \in [1..n -> Paths] : IsInjective(paths) /\ Names(paths)
  \/ \E id \in DOMAIN t.byId, count \in 1..MaxCount : Counts(id, count)
  \/ \E first, last \in 1..MaxCount : first <= last /\ History([i \in 1..(last - first + 1) |-> first + i - 1])

User ==
  \/ \E p \in ToSet(drawn), onChevron \in BOOLEAN : Click(p, onChevron)
  \/ \E key \in MoveKeys : Move(key)
  \/ ArrowRight
  \/ ArrowLeft
  \/ Enter
  \/ Pin
  \/ BackToLive
  \/ Type
  \/ \E cells \in Clips, at \in 0..Len(text) : Paste(cells, at)
  \/ FilterCompare
  \/ \E id \in DOMAIN t.byId \cap {t.nodes[cursor].id, d.selected} : ToggleCompare(t.byId[id])

Next ==
  \/ Tick
  \/ ResetClient
  \/ Frame
  \/ ApplyFilter
  \/ User

Spec == Init /\ [][Next]_vars

-----------------------------------------------------------------------------
AtOrBelow(p) == {id \in DOMAIN t.byId : IsPrefix(p, t.byId[id])}

(***************************************************************************)
(* The totals of every folder are those of the topics in it, although they *)
(* are only ever moved by differences: in whatever order names and counts  *)
(* come, and when a topic is a folder of others ("The tree keeps subtree   *)
(* totals up to date by pushing count deltas up the parent chain",         *)
(* tree.js:4-6).                                                           *)
(***************************************************************************)
SubtreeSums ==
  \A p \in DOMAIN t.nodes :
    /\ t.nodes[p].leaves = Cardinality(AtOrBelow(p))
    /\ t.nodes[p].total = MapThenSumSet(LAMBDA id : t.nodes[t.byId[id]].count, AtOrBelow(p))

(***************************************************************************)
(* While a filter is on, a node carries the present mark if and only if a  *)
(* topic in it matches, whether that topic came before the filter or after *)
(* it, and the matches are counted once each (tree.js:145-152, 193-199).   *)
(***************************************************************************)
MarksAreMatches ==
  Filtering(t) =>
    /\ \A p \in DOMAIN t.nodes : Marked(t, p) <=> \E id \in AtOrBelow(p) : Matches(t, id)
    /\ t.matches = Cardinality({id \in DOMAIN t.byId : Matches(t, id)})

(***************************************************************************)
(* The cached rows are those a walk of the tree would find now: "Cached    *)
(* until the structure, the filter or an expansion state changes"          *)
(* (tree.js:223-224).  When no frame is due they are the rows on screen.   *)
(***************************************************************************)
RowsAreFresh ==
  /\ t.rows # NoRows => t.rows = FreshRows(t)
  /\ ~queued => drawn = FreshRows(t)

(***************************************************************************)
(* A new filter opens every folder with a match in it: what is closed      *)
(* under a filter was "collapsed by the user while a filter is active"     *)
(* (tree.js:24), and closed under this filter, not under an earlier one.   *)
(***************************************************************************)
ClosedByUser ==
  Filtering(t) => \A p \in DOMAIN t.nodes : Marked(t, p) /\ t.nodes[p].fcollapsed => p \in byUser

(***************************************************************************)
(* When no frame is due, the value box shows the pinned message, or else   *)
(* the latest one, of the selected topic; what is pinned is in the history *)
(* shown (app.js:536, 552-558, 593-608).                                   *)
(***************************************************************************)
BoxShowsTheMessage ==
  ~queued /\ d.history # <<>> =>
    /\ d.pinnedN \in {NoMessage} \cup ToSet(d.history)
    /\ d.box = <<d.selected, IF d.pinnedN # NoMessage THEN d.pinnedN ELSE Last(d.history)>>

(***************************************************************************)
(* The value flashes only to tell of a newer message of the same topic,    *)
(* never because another topic was selected or an old message was looked   *)
(* at (app.js:555-558).                                                    *)
(***************************************************************************)
FlashMeansNewer ==
  [][Frame /\ d'.flash => d'.box[1] = d.box[1] /\ d'.box[2] > d.box[2]]_vars

(***************************************************************************)
(* The button next to the filter adds every topic that the text in the     *)
(* input matches, unless the list is full then, and whether or not that    *)
(* text had been applied: "make sure the matches are current"              *)
(* (app.js:444-452).                                                       *)
(***************************************************************************)
AllMatchesCompared ==
  [][FilterCompare =>
       /\ Len(compared') <= MaxCompared
       /\ \A id \in DOMAIN t.byId :
            Terms(text) # {} /\ Matches([t EXCEPT !.terms = Terms(text)], id)
              => t.byId[id] \in ToSet(compared') \/ Len(compared') = MaxCompared]_vars

=============================================================================
