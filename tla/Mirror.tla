------------------------------- MODULE Mirror -------------------------------
(***************************************************************************)
(* The browser's copy of the topic table: the part of web/tree.js that     *)
(* applies names and counts (byId, names and the nodes' counts), and the   *)
(* history list of web/app.js.  The nesting of the tree, its totals and    *)
(* its rows are not needed to say what the copy contains.                  *)
(*                                                                         *)
(* A mirror is a function from the ids received so far to [name, count].   *)
(***************************************************************************)
EXTENDS Sublist

EmptyMirror == [id \in {} |-> [name |-> "", count |-> 0]]

\* tree.js:54-79: an id that is known keeps its node, a new one starts at 0.
AddTopics(mirror, firstId, names) ==
  [id \in DOMAIN mirror \cup firstId..(firstId + Len(names) - 1) |->
     IF id \in DOMAIN mirror
     THEN mirror[id]
     ELSE [name |-> names[id - firstId + 1], count |-> 0]]

\* tree.js:116-131: a count for an id that is not known is skipped.
ApplyCounts(mirror, counts) ==
  [id \in DOMAIN mirror |->
     IF id \in DOMAIN counts THEN [mirror[id] EXCEPT !.count = counts[id]]
                             ELSE mirror[id]]

-----------------------------------------------------------------------------
\* The entries the list does not have yet.
NewEntries(history, entries) ==
  IF history = <<>> THEN entries ELSE Above(entries, history[Len(history)])

LastElements(s, k) == IF Len(s) <= k THEN s ELSE SubSeq(s, Len(s) - k + 1, Len(s))

AppendHistoryUntrimmed(history, entries, max) ==   \* mutant: the list is never cut
  history \o NewEntries(history, entries)

(***************************************************************************)
(* app.js:510-537: entries that are not newer than the last one are        *)
(* skipped (entries come in ascending order, so comparing each with the    *)
(* growing list or with its old end is the same), and only the newest max  *)
(* are kept.                                                               *)
(***************************************************************************)
AppendHistory(history, entries, max) ==
  LastElements(history \o NewEntries(history, entries), max)
=============================================================================
