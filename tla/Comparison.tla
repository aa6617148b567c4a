----------------------------- MODULE Comparison -----------------------------
(***************************************************************************)
(* The algorithms of web/compare.js: a payload as fields, the rows of      *)
(* several payloads side by side, the titles of the columns, and the topic *)
(* of another device.  A text is a sequence of characters, a topic is a    *)
(* sequence of segments, and a segment is a text.                          *)
(*                                                                         *)
(* A message has leaves, the sequence of its JSON leaves [steps, value] in *)
(* the order they are walked, which is empty when its text is not a JSON   *)
(* object or array; text, that text; and trunc, whether it was cut off.    *)
(* How a value is written and how a long one is cut are left out.          *)
(***************************************************************************)
EXTENDS Sublist, SequencesExt

CONSTANTS
  Lower,      \* characters' lower-case forms
  Digits,     \* which of them are digits
  MaxCells,   \* compare.js: value cells of the table
  Missing     \* undefined: a field that a payload does not have, not a text

ASSUME ComparisonAssumption == MaxCells \in Nat /\ Digits \cap {"]", "\""} = {}

Lowered(s) == [i \in DOMAIN s |-> Lower[s[i]]]

\* Its elements where they first show up, as a JavaScript Set keeps them.
InsertionOrder(s) == ElementsAt(s, {i \in DOMAIN s : \A j \in 1..(i - 1) : s[j] # s[i]})

-----------------------------------------------------------------------------
(***************************************************************************)
(* Fields.  A step is [index, key]: an element of an array, its index      *)
(* written as the key, or a member of an object.                           *)
(***************************************************************************)
Payload   == <<"(", "p", ")">>
Truncated == <<"(", "t", ")">>

\* Quotes and backslashes are escaped (so are control characters, which are left out).
Quoted(key) ==
  <<"\"">> \o FlattenSeq([i \in DOMAIN key |-> IF key[i] \in {"\"", "\\"} THEN <<"\\", key[i]>>
                                               ELSE <<key[i]>>]) \o <<"\"">>

StepUnquoted(s, top) ==   \* mutant: the characters of the syntax are not looked at
  IF s.index THEN <<"[">> \o s.key \o <<"]">>
  ELSE (IF top THEN <<>> ELSE <<".">>) \o s.key

Step(s, top) ==
  IF s.index THEN <<"[">> \o s.key \o <<"]">>
  ELSE IF /\ s.key # <<>>
          /\ ToSet(s.key) \cap {".", "[", "]", "\""} = {}
          /\ top => s.key[1] # "("
       THEN (IF top THEN <<>> ELSE <<".">>) \o s.key
  ELSE <<"[">> \o Quoted(s.key) \o <<"]">>

\* The leaf that is the whole document, an empty object or array, has no step.
PathOf(steps) ==
  IF steps = <<>> THEN Payload ELSE FlattenSeq([i \in DOMAIN steps |-> Step(steps[i], i = 1)])

\* A column: fields [path, value] in their order.
Flatten(m) ==
  (IF m.trunc \/ m.leaves = <<>> THEN <<[path |-> Payload, value |-> m.text]>>
   ELSE [i \in DOMAIN m.leaves |-> [path |-> PathOf(m.leaves[i].steps), value |-> m.leaves[i].value]])
  \o (IF m.trunc THEN <<[path |-> Truncated, value |-> "yes"]>> ELSE <<>>)

-----------------------------------------------------------------------------
(***************************************************************************)
(* Rows.  A topic without a message yet has no column.                     *)
(***************************************************************************)
NoColumn == <<>>

ValueAt(col, path) ==
  IF \E i \in DOMAIN col : col[i].path = path
  THEN col[CHOOSE i \in DOMAIN col : col[i].path = path].value ELSE Missing

Differs(columns, path) ==
  \E i, j \in DOMAIN columns : /\ columns[i] # NoColumn /\ columns[j] # NoColumn
                               /\ ValueAt(columns[i], path) # ValueAt(columns[j], path)

\* A place is <<column, number of a field in it>>; the columns are read one after the other.
Places(columns) == UNION {{i} \X DOMAIN columns[i] : i \in DOMAIN columns}

PathAt(columns, at) == columns[at[1]][at[2]].path

ReadBefore(a, b) == a[1] < b[1] \/ (a[1] = b[1] /\ a[2] < b[2])

\* Where each path first shows up.
FirstPlaces(columns) ==
  {at \in Places(columns) :
     \A to \in Places(columns) : PathAt(columns, to) = PathAt(columns, at) => ~ReadBefore(to, at)}

BuildRows(columns) ==
  LET at == InOrder(FirstPlaces(columns), ReadBefore)
      paths == [r \in DOMAIN at |-> PathAt(columns, at[r])]
  IN  [r \in DOMAIN paths |-> [path    |-> paths[r],
                               values  |-> [i \in DOMAIN columns |-> ValueAt(columns[i], paths[r])],
                               differs |-> Differs(columns, paths[r])]]

RowLimit(columns) == MaxCells \div Max({1, columns})

-----------------------------------------------------------------------------
(***************************************************************************)
(* Titles of the columns: what the topics share at both ends is dropped.   *)
(***************************************************************************)
Shortest(names) == Min({Len(names[i]) : i \in DOMAIN names})

\* How many segments all of them begin with, at most n.
SharedByTwo(names, n) ==   \* mutant: only the first two topics are looked at
  Max({k \in 0..n : \A j \in 1..k : names[1][j] = names[2][j]})

Shared(names, n) ==
  Max({k \in 0..n : \A j \in 1..k : \A i \in DOMAIN names : names[i][j] = names[1][j]})

ColumnLabels(names) ==
  IF Len(names) < 2 THEN names
  ELSE LET pre == Shared(names, Shortest(names))
           suf == Shared([i \in DOMAIN names |-> Reverse(names[i])], Shortest(names) - pre)
       IN  [i \in DOMAIN names |->
              LET label == SubSeq(names[i], pre + 1, Len(names[i]) - suf)
              IN  IF label \in {<<>>, <<<<>>>>} THEN names[i] ELSE label]

-----------------------------------------------------------------------------
(***************************************************************************)
(* Another device: one segment of a compared topic replaced by value.      *)
(***************************************************************************)
SharedStart(s, v) == Max({k \in 0..Min({Len(s), Len(v)}) : SubSeq(s, 1, k) = SubSeq(v, 1, k)})

\* The segments in at that are most like v first, the earlier of equal ones first.
Rank(p, at, v) ==
  LET score(i) == <<SharedStart(Lowered(p[i]), Lowered(v)), IF Len(p[i]) = Len(v) THEN 1 ELSE 0, Len(p[i])>>
      before(i, j) == \/ \E k \in 1..3 : /\ score(i)[k] > score(j)[k]
                                         /\ \A l \in 1..(k - 1) : score(i)[l] = score(j)[l]
                      \/ score(i) = score(j) /\ i < j
  IN  InOrder(at, before)

Replaced(p, at, v) == [i \in DOMAIN at |-> [p EXCEPT ![at[i]] = v]]

\* Segments in which a compared topic of the same depth is different.
DifferAt(names, p) ==
  {i \in DOMAIN p : \E q \in ToSet(names) : Len(q) = Len(p) /\ q[i] # p[i]}

HasDigit(s) == ToSet(s) \cap Digits # {}

LookLike(p, v) ==
  {i \in DOMAIN p : p[i] # <<>> /\ IF HasDigit(v) THEN HasDigit(p[i]) ELSE Len(p[i]) = Len(v)}

DeviceTopicsAlike(names, v) ==   \* mutant: only the look of a segment counts
  IF Len(v) > 1 THEN <<v>>
  ELSE InsertionOrder(FlattenSeq(
         [i \in DOMAIN names |-> Replaced(names[i], Rank(names[i], LookLike(names[i], v[1]), v[1]), v[1])]))

\* v is a topic: one segment, or what was typed with a "/".
DeviceTopics(names, v) ==
  IF Len(v) > 1 THEN <<v>>
  ELSE InsertionOrder(FlattenSeq(
         [i \in DOMAIN names |-> Replaced(names[i], Rank(names[i], DifferAt(names, names[i]), v[1]), v[1])]
      \o [i \in DOMAIN names |-> Replaced(names[i], Rank(names[i], LookLike(names[i], v[1]), v[1]), v[1])]))

(***************************************************************************)
(* lookups map a guess to a topic, or to NoTopic, best lookup first.       *)
(***************************************************************************)
NoTopic == <<>>

PickTopic(guesses, lookups, compared) ==
  LET known(l) == LET n == [i \in DOMAIN guesses |-> l[guesses[i]]]
                  IN  ElementsAt(n, {i \in DOMAIN n : n[i] # NoTopic})
      hits == {k \in DOMAIN lookups : known(lookups[k]) # <<>>}
      found == known(lookups[Min(hits)])
      new == ElementsAt(found, {i \in DOMAIN found : ~Contains(compared, found[i])})
  IN  IF hits = {} THEN guesses[1] ELSE IF new # <<>> THEN new[1] ELSE found[1]
=============================================================================
