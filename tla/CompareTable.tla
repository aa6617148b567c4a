---------------------------- MODULE CompareTable ----------------------------
(***************************************************************************)
(* The comparison of the page: the list of compared topics, the payloads   *)
(* streamed for them, and the table, whose rows and cells are kept and     *)
(* filled anew rather than rebuilt (web/app.js:136-165, 626-955).          *)
(*                                                                         *)
(* One step is one callback of the page.  A topic stands for its id: the   *)
(* server's ids and the lists sent to it are the subject of Session.  A    *)
(* tick brings any payload of a topic, asked for or not, as one that       *)
(* crosses a change of the list does.  The ages in the header, the toasts  *)
(* and the words in the empty rows are left out.                           *)
(***************************************************************************)
EXTENDS Comparison

CONSTANTS
  Batches,       \* topics of the broker, in sets that one tick tells of
  Senders,       \* bound: those whose messages are looked at
  Messages,      \* what they send
  Typed,         \* what the user types for a device
  Saved,         \* lists found in the browser's storage
  Keys,          \* of the members of JSON objects
  MaxSteps,      \* bound: how deep their values lie
  MaxCompared,   \* app.js: MAX_COMPARED
  MaxActs,       \* bound: actions of the user and resets
  NotYet         \* null: nothing shown in the cell yet, not a text

Topics == UNION Batches

AllTopics == Topics \cup UNION {ToSet(list) : list \in Saved}

IsTopic(n) == n \in Seq(ToSet(n)) /\ \A i \in DOMAIN n : n[i] \in Seq(ToSet(n[i]))

\* A text that is split at each "/" has at least one segment; the page saves no name twice.
ASSUME TopicsAssumption ==
  /\ NoTopic \notin AllTopics /\ \A n \in AllTopics \cup Typed : IsTopic(n)
  /\ Saved \subseteq Seq(AllTopics) /\ \A list \in Saved : IsInjective(list)

ASSUME TableAssumption == MaxCompared \in Nat /\ MaxSteps \in Nat /\ \A k \in Keys : k \in Seq(ToSet(k))

ASSUME MessagesAssumption == \A m \in Messages : m.leaves \in Seq(ToSet(m.leaves))

VARIABLES
  began,      \* whether there was a tick: epoch # 0
  known,      \* topics in the tree
  names,      \* compareNames
  resolved,   \* resolvedKey, whose ids are compareIds too
  values,     \* compareValues
  tab,        \* activeTab
  onlyDiffs,  \* the box of that name
  quiet,      \* whether quietUntil lies ahead
  dirty,      \* compareDirty
  head,       \* headKey
  els,        \* rowEls: path -> cells [v, flash]
  body,       \* paths of the rows in the table
  cut,        \* whether it ends with the row that says some are left out
  news,       \* auxiliary: <<topic, path>> changed since the table was updated
  acts        \* actions so far

vars == <<began, known, names, resolved, values, tab, onlyDiffs, quiet, dirty, head, els, body, cut, news, acts>>

table == <<head, els, body, cut>>

NoList == <<NoTopic>>   \* null: no list has this in it

NoValues == [n \in {} |-> NoTopic]
NoRows   == [p \in {} |-> <<>>]

Init ==
  /\ began = FALSE
  /\ known = {}
  /\ names \in {SubSeq(list, 1, Min({Len(list), MaxCompared})) : list \in Saved}   \* loadCompare
  /\ resolved = NoList
  /\ values = NoValues
  /\ tab = "topic"
  /\ onlyDiffs = FALSE
  /\ quiet = FALSE
  /\ dirty = TRUE
  /\ head = NoList
  /\ els = NoRows
  /\ body = <<>>
  /\ cut = FALSE
  /\ news = {}
  /\ acts = 0

-----------------------------------------------------------------------------
(***************************************************************************)
(* syncCompare, with the list, the tree, the payloads and the mark that    *)
(* the caller has left.                                                    *)
(***************************************************************************)
\* The names of the list that the tree has, in the order of the list.
KnownOf(list, tree) == ElementsAt(list, {i \in DOMAIN list : list[i] \in tree})

ResolveKeeping(list, tree, vals, changed) ==   \* mutant: the payload of a removed topic stays
  LET ids == KnownOf(list, tree)
  IN  /\ resolved' = ids
      /\ values' = vals
      /\ dirty' = (changed \/ ids # resolved)

Resolve(list, tree, vals, changed) ==
  LET ids == KnownOf(list, tree)
  IN  /\ resolved' = ids
      /\ values' = IF ids = resolved THEN vals ELSE Restrict(vals, DOMAIN vals \cap ToSet(ids))
      /\ dirty' = (changed \/ ids # resolved)

\* Nothing is resolved before the first tick.
Sync(list, tree, vals, changed) ==
  IF began' THEN Resolve(list, tree, vals, changed)
  ELSE dirty' = changed /\ UNCHANGED <<resolved, values>>

SetCompare(list) ==
  /\ acts < MaxActs
  /\ acts' = acts + 1
  /\ names' = list
  /\ UNCHANGED <<began, known, tab, onlyDiffs, quiet, news>> /\ UNCHANGED table
  /\ Sync(list, known, values, TRUE)

\* flatCache: a payload is taken apart once.
FieldsOf == [m \in Messages |-> Flatten(m)]

ChangedPaths(old, new) ==
  {p \in {f.path : f \in ToSet(FieldsOf[new])} :
     \A m \in old : ValueAt(FieldsOf[m], p) # ValueAt(FieldsOf[new], p)}

\* A payload for a topic that is not resolved is skipped, one that came before is not news.
Received(n, m) == Contains(resolved, n) /\ ~(n \in DOMAIN values /\ values[n] = m)

Tick(new, msgs) ==
  LET got == {n \in DOMAIN msgs : Received(n, msgs[n])}
      old(n) == {values[k] : k \in {n} \cap DOMAIN values}
  IN  /\ began' = TRUE
      /\ known' = known \cup new
      /\ Sync(names, known', [n \in got \cup DOMAIN values |-> IF n \in got THEN msgs[n] ELSE values[n]],
              dirty \/ got # {})
      /\ news' = news \cup UNION {{n} \X ChangedPaths(old(n), msgs[n]) : n \in got}
      /\ UNCHANGED <<names, tab, onlyDiffs, quiet, acts>> /\ UNCHANGED table

\* The socket or the server's table began anew.
ResetClient ==
  /\ acts < MaxActs
  /\ acts' = acts + 1
  /\ known' = {}
  /\ values' = NoValues
  /\ resolved' = NoList
  /\ head' = NoList
  /\ dirty' = TRUE
  /\ UNCHANGED <<began, names, tab, onlyDiffs, quiet, els, body, cut, news>>

-----------------------------------------------------------------------------
(***************************************************************************)
(* The user.                                                               *)
(***************************************************************************)
RemoveName(n) == SetCompare(ElementsAt(names, {i \in DOMAIN names : names[i] # n}))

\* c in the tree, or the button of the selected topic.
ToggleCompare(n) ==
  IF Contains(names, n) THEN RemoveName(n)
  ELSE Len(names) < MaxCompared /\ SetCompare(Append(names, n))

RemoveColumn == \E n \in ToSet(head) \cap ToSet(names) : tab = "compare" /\ RemoveName(n)

Clear == tab = "compare" /\ SetCompare(<<>>)

\* The topics the search may find for n: at every level it follows the exact segment
\* first, if that leads to a topic.
LooselyKnown(n) ==
  LET same == {k \in known : Len(k) = Len(n) /\ \A i \in DOMAIN n : Lowered(k[i]) = Lowered(n[i])}
      before(k, l) == \E i \in DOMAIN n : /\ k[i] = n[i] /\ l[i] # n[i]
                                          /\ \A j \in 1..(i - 1) : k[j] = l[j]
  IN  {k \in same : \A l \in same : ~before(l, k)}

Exact(guesses) == [n \in ToSet(guesses) |-> IF n \in known THEN n ELSE NoTopic]

Loose(guesses, choice) ==
  [n \in ToSet(guesses) |-> IF LooselyKnown(n) = {} THEN NoTopic ELSE choice[LooselyKnown(n)]]

Picked(guesses, choice) == PickTopic(guesses, <<Exact(guesses), Loose(guesses, choice)>>, names)

\* What is refused changes nothing.  Which of several that differ in case is found depends
\* on the order of the children, as sorted or as they came (tree.js:105).
AddDevice(v) ==
  /\ tab = "compare" /\ acts < MaxActs /\ Len(names) < MaxCompared
  /\ LET guesses == DeviceTopics(names, v)
         found == {LooselyKnown(n) : n \in ToSet(guesses)} \ {{}}
     IN  /\ guesses # <<>>
         /\ \E choice \in [found -> known] :
              /\ \A topics \in found : choice[topics] \in topics
              /\ \E n \in {Picked(guesses, choice)} \cap known :
                   ~Contains(names, n) /\ SetCompare(Append(names, n))

ShowTab(t) ==
  /\ tab # t
  /\ acts < MaxActs
  /\ acts' = acts + 1
  /\ tab' = t
  /\ quiet' = TRUE
  /\ UNCHANGED <<began, known, names, onlyDiffs, news>> /\ UNCHANGED table
  /\ Sync(names, known, values, TRUE)

QuietOver ==
  /\ quiet
  /\ quiet' = FALSE
  /\ UNCHANGED <<began, known, names, resolved, values, tab, onlyDiffs, dirty, news, acts>> /\ UNCHANGED table

ToggleDiffs ==
  /\ acts < MaxActs
  /\ acts' = acts + 1
  /\ tab = "compare"
  /\ onlyDiffs' = ~onlyDiffs
  /\ dirty' = TRUE
  /\ UNCHANGED <<began, known, names, resolved, values, tab, quiet, news>> /\ UNCHANGED table

-----------------------------------------------------------------------------
(***************************************************************************)
(* updateCompareTable.  Rows that exist are filled although they are not   *)
(* shown; a row that was not there before has nothing to flash about.      *)
(***************************************************************************)
Columns == [i \in DOMAIN names |-> IF names[i] \in known /\ names[i] \in DOMAIN values
                                   THEN FieldsOf[values[names[i]]] ELSE NoColumn]

Kept == IF head = names THEN els ELSE NoRows

CellsOf(path) ==
  IF path \in DOMAIN Kept THEN Kept[path] ELSE [i \in DOMAIN names |-> [v |-> NotYet, flash |-> FALSE]]

Changes(cell, v) == ~quiet /\ Missing \notin {cell.v, v} /\ cell.v \notin {NotYet, v}

FillShown(row, shown) ==   \* mutant: the rows that are not shown are not filled
  LET cells == CellsOf(row.path)
  IN  [i \in DOMAIN names |->
         IF shown THEN [v |-> row.values[i], flash |-> cells[i].flash \/ Changes(cells[i], row.values[i])]
         ELSE [cells[i] EXCEPT !.flash = FALSE]]

FillKeepingFlash(row, shown) ==   \* mutant: a row leaves the table with its flash
  LET cells == CellsOf(row.path)
  IN  [i \in DOMAIN names |->
         [v |-> row.values[i], flash |-> cells[i].flash \/ (shown /\ Changes(cells[i], row.values[i]))]]

Fill(row, shown) ==
  LET cells == CellsOf(row.path)
      stays == shown \/ row.path \notin ToSet(body)
  IN  [i \in DOMAIN names |->
         [v     |-> row.values[i],
          flash |-> (cells[i].flash /\ stays) \/ (shown /\ Changes(cells[i], row.values[i]))]]

UpdateTable ==
  LET rows   == BuildRows(Columns)
      wanted == ElementsAt(rows, {r \in DOMAIN rows : rows[r].differs \/ ~onlyDiffs})
      shown  == SubSeq(wanted, 1, Min({Len(wanted), RowLimit(Len(names))}))
      exist  == {r \in ToSet(rows) : r \in ToSet(shown) \/ r.path \in DOMAIN Kept}
  IN  /\ head' = names
      /\ els' = [p \in {r.path : r \in exist} |->
                   LET row == CHOOSE r \in exist : r.path = p IN Fill(row, row \in ToSet(shown))]
      /\ body' = [r \in DOMAIN shown |-> shown[r].path]
      /\ cut' = (Len(wanted) > Len(shown))
      /\ news' = {}

Frame ==
  /\ tab = "compare" /\ dirty
  /\ dirty' = FALSE
  /\ UpdateTable
  /\ UNCHANGED <<began, known, names, resolved, values, tab, onlyDiffs, quiet, acts>>

\* Only what is on screen is animated.
AnimationEnd(p, i) ==
  /\ tab = "compare"
  /\ els[p][i].flash /\ Contains(body, p)
  /\ els' = [els EXCEPT ![p][i].flash = FALSE]
  /\ UNCHANGED <<began, known, names, resolved, values, tab, onlyDiffs, quiet, dirty, head, body, cut, news, acts>>

Next ==
  \/ \E new \in Batches : ~(new \subseteq known) /\ Tick(new, NoValues)
  \/ \E n \in known \cap Senders, m \in Messages : Tick({}, [k \in {n} |-> m])
  \/ ResetClient
  \/ \E n \in known : ToggleCompare(n)
  \/ RemoveColumn
  \/ Clear
  \/ \E v \in Typed : AddDevice(v)
  \/ \E t \in {"topic", "compare"} : ShowTab(t)
  \/ QuietOver
  \/ ToggleDiffs
  \/ Frame
  \/ \E p \in DOMAIN els : \E i \in DOMAIN els[p] : AnimationEnd(p, i)

Spec == Init /\ [][Next]_vars

-----------------------------------------------------------------------------
(***************************************************************************)
(* Unless it is marked, the table on screen is the one that would be built *)
(* from nothing: its columns are the compared topics, its rows the fields  *)
(* that are wanted, in the order of their columns and as many as fit, and  *)
(* every cell, in rows the filter hides too, has the value of the latest   *)
(* payload (app.js:758-763, 845-872).                                      *)
(***************************************************************************)
\* Whether the columns, read one after the other, have p before q.
Precedes(p, q) ==
  \E i \in DOMAIN names : \E k \in DOMAIN Columns[i] :
    /\ Columns[i][k].path = p
    /\ \A j \in 1..(i - 1) : \A l \in DOMAIN Columns[j] : Columns[j][l].path # q
    /\ \A l \in 1..k : Columns[i][l].path # q

LatestValue(n, p) == IF n \in DOMAIN values THEN ValueAt(FieldsOf[values[n]], p) ELSE Missing

TableIsCurrent ==
  tab = "compare" /\ ~dirty =>
    LET fields == {p \in UNION {{f.path : f \in ToSet(FieldsOf[values[n]])} : n \in DOMAIN values} :
                     onlyDiffs => \E n, k \in DOMAIN values : LatestValue(n, p) # LatestValue(k, p)}
    IN  /\ head = names
        /\ ToSet(body) \subseteq fields
        /\ \A i \in DOMAIN body : \A p \in fields \ {body[k] : k \in 1..i} : ~Precedes(p, body[i])
        /\ Len(body) = Min({Cardinality(fields), RowLimit(Len(names))})
        /\ cut <=> Cardinality(fields) > Len(body)
        /\ \A p \in DOMAIN els : \A i \in DOMAIN names : els[p][i].v = LatestValue(names[i], p)

(***************************************************************************)
(* The payloads kept are those of topics that are compared and known, so   *)
(* that one that is taken off the list and put back starts empty, also     *)
(* when a payload for it was under way (app.js:152, 656-661).              *)
(***************************************************************************)
OnlyComparedValues == DOMAIN values \subseteq ToSet(names) \cap known

(***************************************************************************)
(* A cell flashes only if a payload changed its field since the table was  *)
(* last updated: never because its row was hidden by "Only differences" or *)
(* by the row limit and is shown again, and never for a change that was    *)
(* shown before (app.js:847-849, 883-885).                                 *)
(***************************************************************************)
FlashTellsNews ==
  [][\A p \in DOMAIN els' : \A i \in DOMAIN els'[p] :
       /\ els' # els /\ els'[p][i].flash
       /\ ~(p \in DOMAIN els /\ head = head' /\ els[p][i].flash)
       => <<head'[i], p>> \in news]_vars

(***************************************************************************)
(* A row that is not in the table carries no flash, which would start over *)
(* once it is back (app.js:883-885, 907).                                  *)
(***************************************************************************)
NoFlashPutBack == \A p \in DOMAIN els \ ToSet(body) : \A i \in DOMAIN els[p] : ~els[p][i].flash

(***************************************************************************)
(* When topics of one depth are compared that differ in one segment, what  *)
(* is typed for that segment adds the topic of that device if the broker   *)
(* has it, whatever else it resembles (compare.js:155-165).                *)
(***************************************************************************)
OneApart(i) ==
  \A k \in DOMAIN names : /\ Len(names[k]) = Len(names[1]) /\ i \in DOMAIN names[k]
                          /\ \A j \in DOMAIN names[1] : j # i => names[k][j] = names[1][j]

AddsTheDevice ==
  [][Len(names) > 1 /\ Len(names') > Len(names) =>
       \A v \in Typed : Len(v) = 1 /\ AddDevice(v) =>
         \A i \in DOMAIN names[1] :
           LET device == [names[1] EXCEPT ![i] = v[1]]
           IN  OneApart(i) /\ device \in known /\ ~Contains(names, device) => Last(names') = device]_vars

(***************************************************************************)
(* In a table that has rows, members of different objects, elements of     *)
(* different arrays and whole payloads have paths of their own, whatever   *)
(* their keys are made of: rows are found by their paths, and "no two      *)
(* fields share a path" (compare.js:71-73, app.js:859).                    *)
(***************************************************************************)
Indexes == {k \in Keys \ {<<>>} : ToSet(k) \subseteq Digits}

Leaves == UNION {[1..n -> [index : {FALSE}, key : Keys] \cup [index : {TRUE}, key : Indexes]] :
                    n \in 1..MaxSteps}

PathOfLeaf == [s \in Leaves |-> PathOf(s)]

OwnPaths == IsInjective(PathOfLeaf) /\ \A s \in Leaves : PathOfLeaf[s] \notin {Payload, Truncated}

FieldsTellApart == body # <<>> => OwnPaths

(***************************************************************************)
(* Columns have different titles, unless one of them is a whole topic for  *)
(* want of a segment of its own (compare.js:102-103).                      *)
(***************************************************************************)
LabelsTellApart ==
  LET labels == ColumnLabels(names)
  IN  \A i, j \in DOMAIN names : i # j /\ labels[i] = labels[j] => names[i] = labels[i] \/ names[j] = labels[j]
=============================================================================
