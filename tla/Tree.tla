-------------------------------- MODULE Tree --------------------------------
(***************************************************************************)
(* The topic tree of web/tree.js.  A node is its path, the sequence of     *)
(* segments from the root, which is the empty path; parents and kids are   *)
(* the paths one segment shorter or longer, and the order of rows is the   *)
(* order of paths.  A segment is a number, ordered like the names are.     *)
(* Node.active, the time of the last message, only fades a dot and is left *)
(* out.                                                                    *)
(***************************************************************************)
EXTENDS Sublist, SequencesExt

CONSTANTS
  Segments,         \* what topic names are made of
  Lower,            \* their lower-case form
  AutoExpandDepth   \* levels that start out expanded

ASSUME TreeAssumption ==
  /\ Segments \subseteq Nat \ {0}
  /\ Lower \in [Segments -> Segments]
  /\ AutoExpandDepth \in Nat

Root == <<>>
NoId == 0
NoRows == <<Root>>   \* no list of rows holds the root

MakeNode(path) ==
  [id |-> NoId, count |-> 0, total |-> 0, leaves |-> 0,
   expanded |-> path = Root \/ Len(path) <= AutoExpandDepth, fcollapsed |-> FALSE, mark |-> 0]

EmptyTree ==
  [nodes |-> [p \in {Root} |-> MakeNode(Root)], byId |-> [id \in {} |-> Root],
   terms |-> {}, gen |-> 0, matches |-> 0, rows |-> NoRows]

Filtering(t) == t.terms # {}

Marked(t, p) == t.nodes[p].mark = t.gen

Kids(t, p) == {q \in DOMAIN t.nodes : Len(q) = Len(p) + 1 /\ IsPrefix(p, q)}

\* The totals of the nodes above and including path, as n = n.parent finds them.
Upward(t, path, leaves, total) ==
  [t EXCEPT !.nodes = [p \in DOMAIN t.nodes |->
     IF IsPrefix(p, path) THEN [t.nodes[p] EXCEPT !.leaves = @ + leaves, !.total = @ + total]
     ELSE t.nodes[p]]]

-----------------------------------------------------------------------------
(***************************************************************************)
(* The filter.  A topic has to contain some alternative of every term.     *)
(***************************************************************************)
Matches(t, id) ==
  \A term \in t.terms : \E alt \in term :
    \E i \in DOMAIN t.byId[id] : <<Lower[t.byId[id][i]]>> = alt

\* _mark stops at the first node that is marked already.
MarkKeepingCollapsed(t, path) ==   \* mutant: folders stay collapsed
  LET above   == {p \in DOMAIN t.nodes : IsPrefix(p, path)}
      stopped == {p \in above : \E q \in above : IsPrefix(p, q) /\ Marked(t, q)}
  IN  [t EXCEPT !.matches = @ + 1,
                !.nodes = [p \in DOMAIN @ |-> IF p \in above \ stopped
                                              THEN [@[p] EXCEPT !.mark = t.gen] ELSE @[p]]]

Mark(t, path) ==
  LET above   == {p \in DOMAIN t.nodes : IsPrefix(p, path)}
      stopped == {p \in above : \E q \in above : IsPrefix(p, q) /\ Marked(t, q)}
  IN  [t EXCEPT !.matches = @ + 1,
                !.nodes = [p \in DOMAIN @ |->
                             IF p \in above \ stopped
                             THEN [@[p] EXCEPT !.mark = t.gen, !.fcollapsed = FALSE]
                             ELSE @[p]]]

MarkMatching(t, id) == IF Matches(t, id) THEN Mark(t, t.byId[id]) ELSE t

SetFilter(t, terms) ==
  LET begun == [t EXCEPT !.terms = terms, !.gen = @ + 1, !.matches = 0, !.rows = NoRows]
  IN  IF Filtering(begun) THEN FoldSet(LAMBDA id, u : MarkMatching(u, id), begun, DOMAIN t.byId)
      ELSE begun

-----------------------------------------------------------------------------
(***************************************************************************)
(* Topics and counts.                                                      *)
(***************************************************************************)
AddTopicUnmarked(t, id, path) ==   \* mutant: the filter is not asked
  IF id \in DOMAIN t.byId THEN t
  ELSE LET all == DOMAIN t.nodes \cup Prefixes(path)
           grown == [t EXCEPT
             !.nodes = [p \in all |-> IF p \in DOMAIN @ THEN @[p] ELSE MakeNode(p)],
             !.byId = [i \in DOMAIN @ \cup {id} |-> IF i = id THEN path ELSE @[i]]]
       IN  Upward([grown EXCEPT !.nodes[path].id = id], path, 1, 0)

AddTopic(t, id, path) ==
  IF id \in DOMAIN t.byId THEN t
  ELSE LET all == DOMAIN t.nodes \cup Prefixes(path)
           grown == [t EXCEPT
             !.nodes = [p \in all |-> IF p \in DOMAIN @ THEN @[p] ELSE MakeNode(p)],
             !.byId = [i \in DOMAIN @ \cup {id} |-> IF i = id THEN path ELSE @[i]]]
           counted == Upward([grown EXCEPT !.nodes[path].id = id], path, 1, 0)
       IN  IF Filtering(t) THEN MarkMatching(counted, id) ELSE counted

AddTopics(t, first, paths) ==
  [FoldLeftDomain(LAMBDA u, i : AddTopic(u, first + i - 1, paths[i]), t, paths)
     EXCEPT !.rows = NoRows]

ApplyCountOnce(t, id, count) ==   \* mutant: the totals above get the count, not the difference
  IF id \notin DOMAIN t.byId THEN t
  ELSE Upward([t EXCEPT !.nodes[t.byId[id]].count = count], t.byId[id], 0, count)

ApplyCount(t, id, count) ==
  IF id \notin DOMAIN t.byId THEN t
  ELSE LET path  == t.byId[id]
           delta == count - t.nodes[path].count
       IN  Upward([t EXCEPT !.nodes[path].count = count], path, 0, delta)

-----------------------------------------------------------------------------
(***************************************************************************)
(* Expansion, and the rows it leaves visible.                              *)
(***************************************************************************)
IsOpen(t, p) == IF Filtering(t) THEN ~t.nodes[p].fcollapsed ELSE t.nodes[p].expanded

ToggleKeepingRows(t, p, open) ==   \* mutant: the cached rows are kept
  IF Kids(t, p) = {} THEN t
  ELSE IF Filtering(t) THEN [t EXCEPT !.nodes[p].fcollapsed = ~open]
  ELSE [t EXCEPT !.nodes[p].expanded = open]

Toggle(t, p, open) ==
  IF Kids(t, p) = {} THEN t
  ELSE IF Filtering(t) THEN [t EXCEPT !.nodes[p].fcollapsed = ~open, !.rows = NoRows]
  ELSE [t EXCEPT !.nodes[p].expanded = open, !.rows = NoRows]

PathBefore(p, q) ==
  \/ IsStrictPrefix(p, q)
  \/ \E i \in DOMAIN p \cap DOMAIN q :
       p[i] < q[i] /\ \A j \in 1..(i - 1) : p[j] = q[j]

\* The walk leaves out what the filter does not want and what is below it.
Wanted(t, p) == Filtering(t) => \A q \in Prefixes(p) \ {Root} : Marked(t, q)

FreshRows(t) ==
  InOrder({p \in DOMAIN t.nodes \ {Root} :
             /\ Wanted(t, p)
             /\ \A q \in Prefixes(p) \ {Root, p} : IsOpen(t, q)}, PathBefore)

Rows(t) == IF t.rows # NoRows THEN t.rows ELSE FreshRows(t)

\* What rows() leaves in its cache.
WithRows(t) == [t EXCEPT !.rows = Rows(t)]

MatchingIds(t) ==
  IF ~Filtering(t) THEN <<>>
  ELSE InOrder({id \in DOMAIN t.byId : Wanted(t, t.byId[id]) /\ Matches(t, id)},
               LAMBDA i, j : PathBefore(t.byId[i], t.byId[j]))
-----------------------------------------------------------------------------
(***************************************************************************)
(* The text of the filter: characters, which are lower-case names of one   *)
(* letter, commas and blanks.  Words with a comma between them are         *)
(* alternatives of one term, words with blanks between them are terms.     *)
(***************************************************************************)
Blank == -1
Comma == -2

Terms(text) ==
  LET starts  == {i \in DOMAIN text : text[i] > 0 /\ (i = 1 \/ text[i - 1] < 0)}
      from(i) == SubSeq(text, i, Min({j \in starts : j > i} \cup {Len(text) + 1}) - 1)
      word(i) == LET w == SelectSeq(from(i), LAMBDA c : c > 0) IN [k \in DOMAIN w |-> Lower[w[k]]]
      together(i, j) == \A k \in starts : i <= k /\ k < j => Contains(from(k), Comma)
  IN  {{word(j) : j \in {k \in starts : together(i, k) /\ together(k, i)}} : i \in starts}

\* Cells copied from a spreadsheet become the alternatives of one term.
FilterPaste(cells, before, after) ==
  LET list == [i \in 1..(2 * Len(cells) - 1) |-> IF i % 2 = 1 THEN cells[(i + 1) \div 2] ELSE Comma]
  IN  (IF before # <<>> /\ Last(before) > 0 THEN <<Blank>> ELSE <<>>) \o list
        \o (IF after # <<>> /\ Head(after) > 0 THEN <<Blank>> ELSE <<>>)
=============================================================================
