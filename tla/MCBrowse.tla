------------------------------ MODULE MCBrowse ------------------------------
(* A topic that is a folder too, a folder that starts out closed, and      *)
(* names that differ in case: 3 is the upper-case form of 2.               *)
EXTENDS Browse

MCLower == [s \in Segments |-> IF s = 3 THEN 2 ELSE s]

MCPaths == {<<1>>, <<1, 2, 1>>, <<3>>}

MCTexts == {<<2>>, <<1, Blank, 2>>}

MCClips == {<<1, 3>>}

\* Bound: the filter, the history and the counts, which share no state, are not exercised together.
Apart ==
  Cardinality({b \in {"filter", "history", "counts"} :
                 CASE b = "filter"  -> timer \/ text # <<>> \/ compared # <<>>
                   [] b = "history" -> d.history # <<>>
                   [] b = "counts"  -> t.nodes[Root].total > 0}) <= 1

MCSpec == Init /\ [][Next /\ Apart']_vars
=============================================================================
