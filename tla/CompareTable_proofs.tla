------------------------- MODULE CompareTable_proofs -------------------------
(***************************************************************************)
(* Proofs about the comparison of the page, for every set of topics,       *)
(* senders and messages, however long the list and the table may be.       *)
(***************************************************************************)
EXTENDS CompareTable, FiniteSetTheorems, SequenceTheorems, WellFoundedInduction, TLAPS

(***************************************************************************)
(* The inductive invariant.                                                *)
(***************************************************************************)
ListsInv == names \in Seq(AllTopics) /\ known \subseteq Topics

\* Payloads are kept only of what is resolved, and that is compared and known.
ValuesInv ==
  /\ ~began => resolved = NoList
  /\ resolved = NoList => DOMAIN values = {}
  /\ resolved # NoList => /\ DOMAIN values \subseteq ToSet(resolved)
                          /\ ToSet(resolved) \subseteq ToSet(names) \cap known

\* Unless the table is to be built anew, its rows have a cell for each column.
RowsInv ==
  /\ head # NoList => \A p \in DOMAIN els : DOMAIN els[p] = DOMAIN head
  /\ \A p \in DOMAIN els : \A i \in DOMAIN els[p] : DOMAIN els[p][i] = {"v", "flash"}

(***************************************************************************)
(* What a cell shows differs from the latest payload only if the payload   *)
(* has changed since, or if there is nothing to compare.                   *)
(***************************************************************************)
CellsInv ==
  head # NoList =>
    \A p \in DOMAIN els : \A i \in DOMAIN head :
      \/ els[p][i].v = LatestValue(head[i], p)
      \/ Missing \in {els[p][i].v, LatestValue(head[i], p)}
      \/ <<head[i], p>> \in news

CInv == ListsInv /\ ValuesInv /\ RowsInv /\ CellsInv /\ NoFlashPutBack

-----------------------------------------------------------------------------
(***************************************************************************)
(* A set of numbers has a least member, and a greatest if it is bounded.   *)
(***************************************************************************)
Less == {ij \in Nat \X Nat : ij[1] < ij[2]}

LEMMA Least ==
  ASSUME NEW N \in SUBSET Nat, N # {}
  PROVE  \E m \in N : \A n \in N : m <= n
<1>1. IsWellFoundedOn(Less, Nat)
  BY NatLessThanWellFounded DEF OpToRel, Less
<1>2. PICK m \in N : \A n \in N : ~ (<<n, m>> \in Less)
  BY <1>1, WFMin
<1>3. ASSUME NEW n \in N
      PROVE  m <= n
  <2>1. m \in Nat /\ n \in Nat /\ ~ (<<n, m>> \in Less)
    BY <1>2
  <2> QED
    BY <2>1 DEF Less
<1> QED
  BY <1>3

LEMMA LeastIn ==
  ASSUME NEW N \in SUBSET Nat, N # {}
  PROVE  Min(N) \in N /\ \A n \in N : Min(N) <= n
<1>1. \E m \in N : \A n \in N : m =< n
  BY Least
<1> QED
  BY <1>1 DEF Min

LEMMA GreatestIn ==
  ASSUME NEW top \in Nat, NEW N \in SUBSET (0..top), N # {}
  PROVE  Max(N) \in N
<1>1. PICK R : R = {r \in Nat : top - r \in N}
  OBVIOUS
<1>2. \A n \in N : n \in Nat /\ top - n \in Nat /\ top - (top - n) = n
  OBVIOUS
<1>3. R \in SUBSET Nat /\ R # {}
  BY <1>1, <1>2
<1>4. PICK m \in R : \A r \in R : m <= r
  BY <1>3, Least
<1>5. m \in Nat /\ top - m \in N
  BY <1>1, <1>4
<1>6. ASSUME NEW n \in N
      PROVE  top - m >= n
  <2>1. top - n \in R
    BY <1>1, <1>2
  <2>2. m <= top - n
    BY <1>4, <2>1
  <2> QED
    BY <1>2, <1>5, <2>2
<1>7. \E x \in N : \A y \in N : x >= y
  BY <1>5, <1>6
<1> QED
  BY <1>7 DEF Max

(***************************************************************************)
(* A finite set with an order: how many are earlier tells its members      *)
(* apart, so every number below the size of the set comes up.              *)
(***************************************************************************)
IsOrder(order, S) ==
  /\ \A x \in S : <<x, x>> \notin order
  /\ \A x, y \in S : x # y => <<x, y>> \in order \/ <<y, x>> \in order
  /\ \A x, y, z \in S : <<x, y>> \in order /\ <<y, z>> \in order => <<x, z>> \in order

LEMMA RankInside ==
  ASSUME NEW S, IsFiniteSet(S), NEW order, IsOrder(order, S), NEW x \in S
  PROVE  /\ IsFiniteSet({y \in S : <<y, x>> \in order})
         /\ RankIn(S, order, x) \in Nat
         /\ RankIn(S, order, x) < Cardinality(S)
<1>1. PICK B : B = {y \in S : <<y, x>> \in order}
  OBVIOUS
<1>2. B \in SUBSET S /\ x \notin B
  BY <1>1 DEF IsOrder
<1>3. B # S
  BY <1>2
<1>4. IsFiniteSet(B) /\ Cardinality(B) <= Cardinality(S) /\ Cardinality(S) # Cardinality(B)
  BY <1>2, <1>3, FS_Subset
<1>5. Cardinality(B) \in Nat /\ Cardinality(S) \in Nat
  BY <1>4, FS_CardinalityType
<1>6. Cardinality(B) < Cardinality(S)
  BY <1>4, <1>5
<1> QED
  BY <1>1, <1>4, <1>5, <1>6 DEF RankIn

LEMMA RankGrows ==
  ASSUME NEW S, IsFiniteSet(S), NEW order, IsOrder(order, S), NEW x \in S, NEW y \in S, <<x, y>> \in order
  PROVE  RankIn(S, order, x) < RankIn(S, order, y)
<1>1. PICK B : B = {z \in S : <<z, x>> \in order}
  OBVIOUS
<1>2. PICK C : C = {z \in S : <<z, y>> \in order}
  OBVIOUS
<1>3. IsFiniteSet(B) /\ IsFiniteSet(C)
  BY <1>1, <1>2, RankInside
<1>4. B \cup {x} \in SUBSET C /\ x \notin B
  BY <1>1, <1>2 DEF IsOrder
<1>5. Cardinality(B \cup {x}) = Cardinality(B) + 1
  BY <1>3, <1>4, FS_AddElement
<1>6. Cardinality(B \cup {x}) <= Cardinality(C)
  BY <1>3, <1>4, FS_Subset
<1>7. Cardinality(B) \in Nat /\ Cardinality(C) \in Nat
  BY <1>3, FS_CardinalityType
<1>8. Cardinality(B) < Cardinality(C)
  BY <1>5, <1>6, <1>7
<1> QED
  BY <1>1, <1>2, <1>8 DEF RankIn

LEMMA RankedMember ==
  ASSUME NEW S, IsFiniteSet(S), NEW order, IsOrder(order, S), NEW k \in 1..Cardinality(S)
  PROVE  \E x \in S : RankIn(S, order, x) = k - 1
<1>1. PICK c : c = Cardinality(S) /\ c \in Nat
  BY FS_CardinalityType
<1>2. PICK rank : rank = [x \in S |-> RankIn(S, order, x)]
  OBVIOUS
<1>3. PICK Ranks : Ranks = 0..(c - 1)
  OBVIOUS
<1>4. IsFiniteSet(Ranks) /\ Cardinality(Ranks) = c
  <2>1. c - 1 \in Int
    BY <1>1
  <2>2. IsFiniteSet(0..(c - 1)) /\ Cardinality(0..(c - 1)) = IF 0 > c - 1 THEN 0 ELSE (c - 1) - 0 + 1
    BY <2>1, FS_Interval
  <2> QED
    BY <1>1, <1>3, <2>2
<1>5. rank \in Injection(S, Ranks)
  <2>1. ASSUME NEW x \in S
        PROVE  rank[x] = RankIn(S, order, x) /\ rank[x] \in Nat /\ rank[x] \in Ranks
    <3>1. PICK r : r = RankIn(S, order, x)
      OBVIOUS
    <3>2. r \in Nat /\ r < c
      BY <1>1, <3>1, RankInside
    <3>3. rank[x] = r
      BY <1>2, <3>1
    <3>4. r \in Ranks
      BY <1>1, <1>3, <3>2
    <3> QED
      BY <3>1, <3>2, <3>3, <3>4
  <2>2. ASSUME NEW x \in S, NEW y \in S, x # y
        PROVE  rank[x] # rank[y]
    <3>1. <<x, y>> \in order \/ <<y, x>> \in order
      BY <2>2 DEF IsOrder
    <3>2. rank[x] < rank[y] \/ rank[y] < rank[x]
      BY <2>1, <3>1, RankGrows
    <3> QED
      BY <2>1, <3>2
  <2>3. rank \in [S -> Ranks]
    BY <1>2, <2>1
  <2> QED
    BY <2>2, <2>3 DEF Injection, IsInjective
<1>6. rank \in Surjection(S, Ranks)
  BY <1>1, <1>4, <1>5, FS_Injection
<1>7. k - 1 \in Ranks
  BY <1>1, <1>3
<1>8. PICK x \in S : rank[x] = k - 1
  BY <1>6, <1>7 DEF Surjection
<1> QED
  BY <1>2, <1>8

(* A list of members by their ranks: each member once, the earlier ones first. *)
LEMMA RankedList ==
  ASSUME NEW S, IsFiniteSet(S), NEW order, IsOrder(order, S), NEW c \in Nat, c = Cardinality(S),
         NEW s, \A k \in 1..c : s[k] \in S /\ RankIn(S, order, s[k]) = k - 1
  PROVE  /\ \A k, l \in 1..c : k < l => <<s[k], s[l]>> \in order
         /\ \A x \in S : \E k \in 1..c : s[k] = x
<1>4. ASSUME NEW k \in 1..c, NEW l \in 1..c, k < l
      PROVE  <<s[k], s[l]>> \in order
  <2>1. s[k] # s[l]
    BY <1>4
  <2>2. ~(<<s[l], s[k]>> \in order)
    <3>1. <<s[l], s[k]>> \in order => RankIn(S, order, s[l]) < RankIn(S, order, s[k])
      BY RankGrows
    <3>2. l - 1 >= k - 1
      BY <1>4
    <3> QED
      BY <3>1, <3>2
  <2> QED
    BY <2>1, <2>2 DEF IsOrder
<1>5. ASSUME NEW x \in S
      PROVE  \E k \in 1..c : s[k] = x
  <2>1. PICK r : r = RankIn(S, order, x) /\ r \in Nat /\ r < c
    BY RankInside
  <2>2. r + 1 \in 1..c /\ (r + 1) - 1 = r
    BY <2>1
  <2>3. s[r + 1] \in S /\ RankIn(S, order, s[r + 1]) = r
    BY <2>2
  <2>4. s[r + 1] = x
    <3>1. \A y \in S : <<x, y>> \in order \/ <<y, x>> \in order => RankIn(S, order, y) # r
      BY <2>1, RankGrows, RankInside
    <3> QED
      BY <2>3, <3>1 DEF IsOrder
  <2> QED
    BY <2>2, <2>4
<1> QED
  BY <1>4, <1>5

(* What a set in its order is. *)
LEMMA InRankIs ==
  ASSUME NEW S, IsFiniteSet(S), NEW order, IsOrder(order, S), NEW s, s = InRank(S, order)
  PROVE  /\ Cardinality(S) \in Nat
         /\ s \in [1..Cardinality(S) -> S]
         /\ \A k, l \in 1..Cardinality(S) : k < l => <<s[k], s[l]>> \in order
         /\ \A x \in S : \E k \in 1..Cardinality(S) : s[k] = x
<1>1. PICK c : c = Cardinality(S) /\ c \in Nat
  BY FS_CardinalityType
<1>2. DOMAIN s = 1..c /\ s = [k \in 1..c |-> s[k]]
  BY <1>1 DEF InRank
<1>3. ASSUME NEW k \in 1..c
      PROVE  s[k] \in S /\ RankIn(S, order, s[k]) = k - 1
  <2>1. \E x \in S : RankIn(S, order, x) = k - 1
    BY <1>1, RankedMember
  <2>2. s[k] = CHOOSE x \in S : RankIn(S, order, x) = k - 1
    BY <1>1 DEF InRank
  <2> QED
    BY <2>1, <2>2
<1>4. s \in [1..c -> S]
  BY <1>2, <1>3
<1>5. /\ \A k, l \in 1..c : k < l => <<s[k], s[l]>> \in order
      /\ \A x \in S : \E k \in 1..c : s[k] = x
  BY ONLY IsFiniteSet(S), IsOrder(order, S), <1>1, <1>3, RankedList
<1> QED
  BY <1>1, <1>4, <1>5

\* The order of numbers.
Ascents(S) == {ij \in S \X S : ij[1] < ij[2]}

LEMMA NumbersInOrder ==
  ASSUME NEW kept, kept \subseteq Int
  PROVE  /\ IsOrder(Ascents(kept), kept)
         /\ \A i \in kept : {j \in kept : <<j, i>> \in Ascents(kept)} = {j \in kept : j < i}
<1>1. \A i, j \in kept : <<i, j>> \in Ascents(kept) <=> i < j
  BY DEF Ascents
<1>2. \A i \in kept : i \in Int
  OBVIOUS
<1>3. IsOrder(Ascents(kept), kept)
  BY <1>1, <1>2 DEF IsOrder
<1>4. \A i \in kept : {j \in kept : <<j, i>> \in Ascents(kept)} = {j \in kept : j < i}
  BY <1>1
<1> QED
  BY <1>3, <1>4

LEMMA KthMember ==
  ASSUME NEW kept, IsFiniteSet(kept), kept \subseteq Int, NEW k \in 1..Cardinality(kept)
  PROVE  \E i \in kept : Cardinality({j \in kept : j < i}) = k - 1
<1>1. PICK i \in kept : RankIn(kept, Ascents(kept), i) = k - 1
  BY NumbersInOrder, RankedMember
<1> QED
  BY <1>1, NumbersInOrder DEF RankIn

\* The kept indices in their order, and the list read at them.
ReadsAt(s, kept, c, at, part) ==
  /\ \A k \in 1..c : at[k] \in kept
  /\ \A k, l \in 1..c : k < l => at[k] < at[l]
  /\ \A i \in kept : \E k \in 1..c : at[k] = i
  /\ DOMAIN part = 1..c /\ part = [k \in 1..c |-> part[k]]
  /\ \A k \in 1..c : part[k] = s[at[k]]

LEMMA ElementsInOrder ==
  ASSUME NEW n \in Nat, NEW s, NEW kept \in SUBSET (1..n), NEW c, c = Cardinality(kept),
         NEW part, part = ElementsAt(s, kept)
  PROVE  /\ IsFiniteSet(kept) /\ c \in Nat
         /\ \E at : ReadsAt(s, kept, c, at, part)
<1>1. IsFiniteSet(kept) /\ kept \subseteq Int
  <2>1. IsFiniteSet(1..n)
    BY FS_Interval
  <2>2. IsFiniteSet(kept)
    BY <2>1, FS_Subset
  <2> QED
    BY <2>2
<1>2. c = Cardinality(kept) /\ c \in Nat
  BY <1>1, FS_CardinalityType
<1> DEFINE At(k) == CHOOSE i \in kept : Cardinality({j \in kept : j < i}) = k - 1
<1>3. ASSUME NEW k \in 1..c
      PROVE  At(k) \in kept /\ Cardinality({j \in kept : j < At(k)}) = k - 1
  BY <1>1, <1>2, KthMember
<1>4. ElementsAt(s, kept) = [k \in 1..c |-> s[At(k)]]
  BY <1>2 DEF ElementsAt
<1> HIDE DEF At
<1>5. PICK at : at = [k \in 1..c |-> At(k)]
  OBVIOUS
<1>6. \A k \in 1..c : at[k] \in kept /\ RankIn(kept, Ascents(kept), at[k]) = k - 1
  <2>1. ASSUME NEW i \in kept
        PROVE  RankIn(kept, Ascents(kept), i) = Cardinality({j \in kept : j < i})
    BY <1>1, NumbersInOrder DEF RankIn
  <2>2. ASSUME NEW k \in 1..c
        PROVE  at[k] = At(k)
    BY <1>5
  <2> QED
    BY <1>3, <2>1, <2>2
<1>7. IsOrder(Ascents(kept), kept)
  BY <1>1, NumbersInOrder
<1>8. /\ \A k, l \in 1..c : k < l => <<at[k], at[l]>> \in Ascents(kept)
      /\ \A i \in kept : \E k \in 1..c : at[k] = i
  BY ONLY <1>1, <1>2, <1>6, <1>7, RankedList
<1>9. DOMAIN part = 1..c /\ part = [k \in 1..c |-> part[k]] /\ \A k \in 1..c : part[k] = s[at[k]]
  BY <1>4, <1>5
<1>10. \A k, l \in 1..c : k < l => at[k] < at[l]
  BY <1>8 DEF Ascents
<1>11. ReadsAt(s, kept, c, at, part)
  BY <1>6, <1>8, <1>9, <1>10 DEF ReadsAt
<1> QED
  BY <1>1, <1>2, <1>11

(* The part of a list at the kept indices has only elements of the list that  *)
(* are kept.                                                                  *)
LEMMA ElementsKept ==
  ASSUME NEW S, NEW s \in Seq(S), NEW kept \in SUBSET DOMAIN s
  PROVE  /\ ElementsAt(s, kept) \in Seq(S)
         /\ ToSet(ElementsAt(s, kept)) \subseteq {s[i] : i \in kept}
<1> DEFINE At(k) == CHOOSE i \in kept : Cardinality({j \in kept : j < i}) = k - 1
<1>1. IsFiniteSet(kept) /\ kept \subseteq Int /\ Cardinality(kept) \in Nat
  <2>1. DOMAIN s = 1..Len(s) /\ Len(s) \in Nat
    OBVIOUS
  <2>2. IsFiniteSet(1..Len(s))
    BY <2>1, FS_Interval
  <2>3. IsFiniteSet(kept)
    BY <2>1, <2>2, FS_Subset
  <2> QED
    BY <2>1, <2>3, FS_CardinalityType
<1>2. ASSUME NEW k \in 1..Cardinality(kept)
      PROVE  At(k) \in kept
  BY <1>1, KthMember
<1>3. ElementsAt(s, kept) = [k \in 1..Cardinality(kept) |-> s[At(k)]]
  BY DEF ElementsAt
<1> HIDE DEF At
<1> DEFINE part == ElementsAt(s, kept)
<1>4. /\ part = [k \in 1..Cardinality(kept) |-> part[k]]
      /\ DOMAIN part = 1..Cardinality(kept)
      /\ \A k \in 1..Cardinality(kept) : part[k] \in S /\ part[k] \in {s[i] : i \in kept}
  BY <1>2, <1>3
<1> HIDE DEF part
<1>5. part \in Seq(S)
  <2>1. \A c \in Nat : part \in [1..c -> S] => part \in Seq(S)
    OBVIOUS
  <2> QED
    BY <1>1, <1>4, <2>1
<1>6. ToSet(part) \subseteq {s[i] : i \in kept}
  BY <1>4 DEF ToSet
<1> QED
  BY <1>5, <1>6 DEF part

-----------------------------------------------------------------------------
LEMMA NoTopicAnywhere ==
  ASSUME ListsInv
  PROVE  names # NoList /\ NoTopic \notin known
<1>1. /\ 1 \in DOMAIN NoList /\ NoList[1] = NoTopic
      /\ \A i \in DOMAIN names : names[i] \in AllTopics
  BY DEF ListsInv, NoList
<1> QED
  BY <1>1, TopicsAssumption DEF ListsInv, AllTopics

(* What syncCompare leaves: the payloads of topics on the list and in the  *)
(* tree, whatever else the caller kept.                                    *)
LEMMA ResolveStep ==
  ASSUME NEW list \in Seq(AllTopics), NEW tree \in SUBSET Topics, NEW vals, NEW changed,
         Resolve(list, tree, vals, changed),
         resolved = KnownOf(list, tree) => DOMAIN vals \subseteq ToSet(resolved)
  PROVE  /\ resolved' # NoList
         /\ DOMAIN values' \subseteq ToSet(resolved') \cap DOMAIN vals
         /\ ToSet(resolved') \subseteq ToSet(list) \cap tree
         /\ \A n \in DOMAIN values' : values'[n] = vals[n]
<1> DEFINE kept == {i \in DOMAIN list : list[i] \in tree}
           ids == KnownOf(list, tree)
<1>1. /\ resolved' = ids
      /\ values' = IF ids = resolved THEN vals ELSE Restrict(vals, DOMAIN vals \cap ToSet(ids))
  BY DEF Resolve
<1>2. ToSet(ids) \subseteq {list[i] : i \in kept}
  BY ElementsKept DEF KnownOf
<1>3. ToSet(ids) \subseteq ToSet(list) \cap tree
  BY <1>2 DEF ToSet
<1>4. ids # NoList
  <2>1. NoTopic \in ToSet(NoList)
    BY DEF NoList, ToSet
  <2>2. NoTopic \notin tree
    BY TopicsAssumption DEF AllTopics
  <2> QED
    BY <1>3, <2>1, <2>2
<1> HIDE DEF ids
<1> QED
  BY <1>1, <1>3, <1>4 DEF Restrict, ids

-----------------------------------------------------------------------------
\* A value is as it was, gone, or noted as news.
Noted(n, p) ==
  \/ LatestValue(n, p)' = LatestValue(n, p)
  \/ LatestValue(n, p)' = Missing
  \/ <<n, p>> \in news'

(* As long as changes are noted, the cells that are there stay accounted for. *)
LEMMA CellsKept ==
  ASSUME CellsInv, UNCHANGED <<head, els>>, news \subseteq news',
         \A n, p : Noted(n, p)
  PROVE  CellsInv'
<1> SUFFICES ASSUME head # NoList, NEW p \in DOMAIN els, NEW i \in DOMAIN head
             PROVE  \/ els[p][i].v = LatestValue(head[i], p)'
                    \/ Missing \in {els[p][i].v, LatestValue(head[i], p)'}
                    \/ <<head[i], p>> \in news'
  BY DEF CellsInv
<1> DEFINE n == head[i]
<1>1. Noted(n, p)
  OBVIOUS
<1> QED
  BY <1>1 DEF CellsInv, Noted

LEMMA TableKept ==
  ASSUME RowsInv, NoFlashPutBack, UNCHANGED <<els, body>>, head' \in {head, NoList}
  PROVE  RowsInv' /\ NoFlashPutBack'
BY DEF RowsInv, NoFlashPutBack

(* A change of the list or of the tab: it at most takes payloads away. *)
LEMMA SyncStep ==
  ASSUME CInv, NEW list \in Seq(AllTopics), NEW changed,
         names' = list, UNCHANGED <<began, known, news, head, els, body>>,
         Sync(list, known, values, changed)
  PROVE  CInv'
<1>1. ListsInv' /\ known \in SUBSET Topics
  BY DEF CInv, ListsInv
<1>2. RowsInv' /\ NoFlashPutBack'
  BY TableKept DEF CInv
<1>3. CASE began
  <2>1. Resolve(list, known, values, changed)
    BY <1>3 DEF Sync
  <2>2. resolved = KnownOf(list, known) => DOMAIN values \subseteq ToSet(resolved)
    BY DEF CInv, ValuesInv
  <2>3. /\ resolved' # NoList
        /\ DOMAIN values' \subseteq ToSet(resolved') \cap DOMAIN values
        /\ ToSet(resolved') \subseteq ToSet(list) \cap known
        /\ \A n \in DOMAIN values' : values'[n] = values[n]
    BY <1>1, <2>1, <2>2, ResolveStep
  <2>4. ValuesInv'
    BY <1>3, <2>3 DEF ValuesInv
  <2>5. \A n, p : Noted(n, p)
    BY <2>3 DEF Noted, LatestValue
  <2>6. CellsInv'
    BY <2>5, CellsKept DEF CInv
  <2> QED
    BY <1>1, <1>2, <2>4, <2>6 DEF CInv
<1>4. CASE ~began
  <2>1. UNCHANGED <<resolved, values>>
    BY <1>4 DEF Sync
  <2>2. ValuesInv'
    BY <1>4, <2>1 DEF CInv, ValuesInv
  <2>3. \A n, p : Noted(n, p)
    BY <2>1 DEF Noted, LatestValue
  <2>4. CellsInv'
    BY <2>3, CellsKept DEF CInv
  <2> QED
    BY <1>1, <1>2, <2>2, <2>4 DEF CInv
<1> QED
  BY <1>3, <1>4

LEMMA SetCompareStep ==
  ASSUME CInv, NEW list \in Seq(AllTopics), SetCompare(list)
  PROVE  CInv'
BY SyncStep DEF SetCompare, table

(* Every change of the list leaves a list of topics. *)
LEMMA EditStep ==
  ASSUME CInv,
         \/ \E n \in known : ToggleCompare(n)
         \/ RemoveColumn
         \/ Clear
         \/ \E v \in Typed : AddDevice(v)
  PROVE  CInv'
<1>1. names \in Seq(AllTopics) /\ known \subseteq AllTopics
  BY DEF CInv, ListsInv, AllTopics
<1>2. ASSUME NEW n, RemoveName(n) PROVE CInv'
  <2>1. ElementsAt(names, {i \in DOMAIN names : names[i] # n}) \in Seq(AllTopics)
    BY <1>1, ElementsKept
  <2> QED
    BY <1>2, <2>1, SetCompareStep DEF RemoveName
<1>3. ASSUME NEW n \in known, SetCompare(Append(names, n)) PROVE CInv'
  <2>1. Append(names, n) \in Seq(AllTopics)
    BY <1>1
  <2> QED
    BY <1>3, <2>1, SetCompareStep
<1>4. ASSUME SetCompare(<<>>) PROVE CInv'
  <2>1. <<>> \in Seq(AllTopics)
    OBVIOUS
  <2> QED
    BY <1>4, <2>1, SetCompareStep
<1>5. CASE \E n \in known : ToggleCompare(n)
  BY <1>2, <1>3, <1>5 DEF ToggleCompare
<1>6. CASE RemoveColumn
  BY <1>2, <1>6 DEF RemoveColumn
<1>7. CASE Clear
  BY <1>4, <1>7 DEF Clear
<1>8. CASE \E v \in Typed : AddDevice(v)
  BY <1>3, <1>8 DEF AddDevice
<1> QED
  BY <1>5, <1>6, <1>7, <1>8

LEMMA ShowTabStep == ASSUME CInv, NEW t, ShowTab(t) PROVE CInv'
<1>1. names \in Seq(AllTopics)
  BY DEF CInv, ListsInv
<1> QED
  BY <1>1, SyncStep DEF ShowTab, table

(* A tick: of each payload that replaces another, the changed fields are noted. *)
LEMMA TickStep ==
  ASSUME CInv, NEW new \in SUBSET Topics, NEW msgs, DOMAIN msgs \subseteq known,
         Tick(new, msgs)
  PROVE  CInv'
<1> DEFINE got == {n \in DOMAIN msgs : Received(n, msgs[n])}
           vals == [n \in got \cup DOMAIN values |-> IF n \in got THEN msgs[n] ELSE values[n]]
           Old(n) == {values[k] : k \in {n} \cap DOMAIN values}
<1>1. /\ began' = TRUE /\ known' = known \cup new
      /\ Resolve(names, known', vals, dirty \/ got # {})
      /\ news' = news \cup UNION {{n} \X ChangedPaths(Old(n), msgs[n]) : n \in got}
      /\ UNCHANGED <<names, head, els, body>>
  BY DEF Tick, Sync, table
<1>2. names \in Seq(AllTopics) /\ known' \in SUBSET Topics
  BY <1>1 DEF CInv, ListsInv
<1>3. got \subseteq ToSet(resolved) \cap known
  BY DEF Received, Contains, ToSet
<1>4. DOMAIN vals = got \cup DOMAIN values
  OBVIOUS
<1>5. resolved = KnownOf(names, known') => DOMAIN vals \subseteq ToSet(resolved)
  BY <1>3, <1>4 DEF CInv, ValuesInv
<1>6. \A n \in got : vals[n] = msgs[n]
  OBVIOUS
<1>7. \A n \in DOMAIN values \ got : vals[n] = values[n]
  OBVIOUS
<1> HIDE DEF vals, got
<1>8. /\ resolved' # NoList
      /\ DOMAIN values' \subseteq ToSet(resolved') \cap DOMAIN vals
      /\ ToSet(resolved') \subseteq ToSet(names) \cap known'
      /\ \A n \in DOMAIN values' : values'[n] = vals[n]
  BY <1>1, <1>2, <1>5, ResolveStep
<1>9. ListsInv' /\ ValuesInv'
  BY <1>1, <1>2, <1>8 DEF ListsInv, ValuesInv
<1>10. RowsInv' /\ NoFlashPutBack'
  BY <1>1, TableKept DEF CInv
<1>11. ASSUME NEW n, NEW p PROVE Noted(n, p)
  <2>1. CASE n \notin DOMAIN values'
    BY <2>1 DEF Noted, LatestValue
  <2>2. CASE n \in DOMAIN values' \ got
    <3>1. n \in DOMAIN values /\ values'[n] = values[n]
      BY <1>4, <1>7, <1>8, <2>2
    <3> QED
      BY <2>2, <3>1 DEF Noted, LatestValue
  <2>3. CASE n \in DOMAIN values' /\ n \in got
    <3> DEFINE now == FieldsOf[msgs[n]]
    <3>1. LatestValue(n, p)' = ValueAt(now, p)
      BY <1>6, <1>8, <2>3 DEF LatestValue
    <3>2. CASE p \in ChangedPaths(Old(n), msgs[n])
      <4>1. <<n, p>> \in {n} \X ChangedPaths(Old(n), msgs[n])
        BY <3>2
      <4>2. <<n, p>> \in news'
        BY <1>1, <2>3, <4>1
      <4> QED
        BY <4>2 DEF Noted
    <3>3. CASE ~\E i \in DOMAIN now : now[i].path = p
      BY <3>1, <3>3 DEF Noted, ValueAt
    <3>4. CASE p \notin ChangedPaths(Old(n), msgs[n]) /\ \E i \in DOMAIN now : now[i].path = p
      <4>1. p \in {f.path : f \in ToSet(now)}
        BY <3>4 DEF ToSet
      <4>2. PICK m \in Old(n) : ValueAt(FieldsOf[m], p) = ValueAt(now, p)
        BY <3>4, <4>1 DEF ChangedPaths
      <4>3. n \in DOMAIN values /\ m = values[n]
        OBVIOUS
      <4>4. LatestValue(n, p) = ValueAt(now, p)
        BY <4>2, <4>3 DEF LatestValue
      <4> QED
        BY <3>1, <4>4 DEF Noted
    <3> QED
      BY <3>2, <3>3, <3>4
  <2> QED
    BY <2>1, <2>2, <2>3
<1>12. CellsInv'
  BY <1>1, <1>11, CellsKept DEF CInv
<1> QED
  BY <1>9, <1>10, <1>12 DEF CInv

LEMMA ResetClientStep == ASSUME CInv, ResetClient PROVE CInv'
<1>1. /\ known' = {} /\ DOMAIN values' = {} /\ resolved' = NoList /\ head' = NoList
      /\ UNCHANGED <<began, names, els, body>>
  BY DEF ResetClient, NoValues
<1>2. RowsInv' /\ NoFlashPutBack'
  BY <1>1, TableKept DEF CInv
<1> QED
  BY <1>1, <1>2 DEF CInv, ListsInv, ValuesInv, CellsInv

-----------------------------------------------------------------------------
(***************************************************************************)
(* The table is filled.                                                    *)
(***************************************************************************)
\* The cells of a row, as they were before.
HasCells(p) == head = names /\ p \in DOMAIN els

LEMMA CellsBefore ==
  ASSUME CInv, NEW p, NEW i \in DOMAIN names
  PROVE  /\ HasCells(p) => CellsOf(p)[i] = els[p][i]
         /\ ~HasCells(p) => CellsOf(p)[i].v = NotYet /\ ~CellsOf(p)[i].flash
         /\ p \in DOMAIN Kept => HasCells(p)
BY DEF CellsOf, Kept, NoRows, HasCells

\* What updateCompareTable makes of the row at p.
FilledAnew(p) ==
  \E row, shown :
    /\ row.path = p /\ shown \in BOOLEAN
    /\ row.values = [i \in DOMAIN names |-> ValueAt(Columns[i], p)]
    /\ els'[p] = Fill(row, shown)
    /\ shown => p \in ToSet(body')

LEMMA FrameRows ==
  ASSUME Frame, NEW p \in DOMAIN els'
  PROVE  FilledAnew(p)
<1> DEFINE rows   == BuildRows(Columns)
           wanted == ElementsAt(rows, {r \in DOMAIN rows : rows[r].differs \/ ~onlyDiffs})
           shown  == SubSeq(wanted, 1, Min({Len(wanted), RowLimit(Len(names))}))
           exist  == {r \in ToSet(rows) : r \in ToSet(shown) \/ r.path \in DOMAIN Kept}
           Of(q)  == CHOOSE r \in exist : r.path = q
<1>1. /\ els' = [q \in {r.path : r \in exist} |-> Fill(Of(q), Of(q) \in ToSet(shown))]
      /\ body' = [r \in DOMAIN shown |-> shown[r].path]
  BY DEF Frame, UpdateTable
<1>2. \A r \in ToSet(rows) :
        r.values = [i \in DOMAIN names |-> ValueAt(Columns[i], r.path)]
  <2> DEFINE at    == InOrder(FirstPlaces(Columns), ReadBefore)
             paths == [r \in DOMAIN at |-> PathAt(Columns, at[r])]
  <2>1. rows = [r \in DOMAIN paths |-> [path    |-> paths[r],
                                        values  |-> [i \in DOMAIN Columns |-> ValueAt(Columns[i], paths[r])],
                                        differs |-> Differs(Columns, paths[r])]]
    BY DEF BuildRows
  <2>2. DOMAIN Columns = DOMAIN names
    BY DEF Columns
  <2> HIDE DEF paths
  <2> QED
    BY <2>1, <2>2 DEF ToSet
<1> HIDE DEF rows, shown
<1>3. exist \subseteq ToSet(rows)
  OBVIOUS
<1>4. \A r \in ToSet(shown) : r.path \in ToSet(body')
  BY <1>1 DEF ToSet
<1>5. PICK q \in exist : q.path = p
  BY <1>1
<1>6. Of(p) \in exist /\ Of(p).path = p
  BY <1>5
<1>7. els'[p] = Fill(Of(p), Of(p) \in ToSet(shown))
  BY <1>1
<1> HIDE DEF Of, exist
<1>8. /\ Of(p).path = p
      /\ Of(p).values = [i \in DOMAIN names |-> ValueAt(Columns[i], p)]
      /\ Of(p) \in ToSet(shown) => p \in ToSet(body')
  BY <1>2, <1>3, <1>4, <1>6
<1> DEFINE isShown == Of(p) \in ToSet(shown)
<1>9. isShown \in BOOLEAN /\ els'[p] = Fill(Of(p), isShown) /\ (isShown => p \in ToSet(body'))
  BY <1>7, <1>8
<1> HIDE DEF isShown
<1> QED
  BY <1>8, <1>9 DEF FilledAnew

(* In each cell there is the latest value, and a flash only if there was one  *)
(* that goes on or if the value differs from what the cell showed.            *)
LEMMA FrameCells ==
  ASSUME CInv, Frame, NEW p \in DOMAIN els'
  PROVE  /\ DOMAIN els'[p] = DOMAIN names
         /\ \A i \in DOMAIN names :
              /\ DOMAIN els'[p][i] = {"v", "flash"}
              /\ els'[p][i].v = LatestValue(names[i], p)
              /\ els'[p][i].flash =>
                   \/ HasCells(p) /\ els[p][i].flash /\ (p \in ToSet(body') \/ p \notin ToSet(body))
                   \/ /\ p \in ToSet(body') /\ HasCells(p)
                      /\ Missing \notin {els[p][i].v, LatestValue(names[i], p)}
                      /\ els[p][i].v # LatestValue(names[i], p)
<1>1. PICK row, shown :
        /\ row.path = p /\ shown \in BOOLEAN
        /\ row.values = [i \in DOMAIN names |-> ValueAt(Columns[i], p)]
        /\ els'[p] = Fill(row, shown)
        /\ shown => p \in ToSet(body')
  BY FrameRows DEF FilledAnew
<1>2. ASSUME NEW i \in DOMAIN names
      PROVE  ValueAt(Columns[i], p) = LatestValue(names[i], p)
  <2>1. DOMAIN values \subseteq known
    BY DEF CInv, ValuesInv
  <2>2. ValueAt(NoColumn, p) = Missing
    BY DEF ValueAt, NoColumn
  <2> QED
    BY <2>1, <2>2 DEF Columns, LatestValue
<1>3. els'[p] = [i \in DOMAIN names |->
        [v     |-> ValueAt(Columns[i], p),
         flash |-> \/ CellsOf(p)[i].flash /\ (shown \/ p \notin ToSet(body))
                   \/ shown /\ Changes(CellsOf(p)[i], ValueAt(Columns[i], p))]]
  BY <1>1 DEF Fill
<1>4. ASSUME NEW i \in DOMAIN names, els'[p][i].flash
      PROVE  \/ HasCells(p) /\ els[p][i].flash /\ (p \in ToSet(body') \/ p \notin ToSet(body))
             \/ /\ p \in ToSet(body') /\ HasCells(p)
                /\ Missing \notin {els[p][i].v, LatestValue(names[i], p)}
                /\ els[p][i].v # LatestValue(names[i], p)
  <2>1. \/ CellsOf(p)[i].flash /\ (shown \/ p \notin ToSet(body))
        \/ shown /\ Changes(CellsOf(p)[i], ValueAt(Columns[i], p))
    BY <1>3, <1>4
  <2>2. CASE CellsOf(p)[i].flash /\ (shown \/ p \notin ToSet(body))
    BY <1>1, <2>2, CellsBefore
  <2>3. CASE shown /\ Changes(CellsOf(p)[i], ValueAt(Columns[i], p))
    <3>1. HasCells(p) /\ CellsOf(p)[i] = els[p][i]
      BY <2>3, CellsBefore DEF Changes
    <3> QED
      BY <1>1, <1>2, <2>3, <3>1 DEF Changes
  <2> QED
    BY <2>1, <2>2, <2>3
<1> QED
  BY <1>2, <1>3, <1>4

LEMMA FrameStep == ASSUME CInv, Frame PROVE CInv'
<1>1. /\ head' = names /\ UNCHANGED <<began, known, names, resolved, values>>
  BY DEF Frame, UpdateTable
<1>2. ListsInv' /\ ValuesInv'
  BY <1>1 DEF CInv, ListsInv, ValuesInv
<1>3. RowsInv'
  BY <1>1, FrameCells DEF RowsInv
<1>4. \A n, p : LatestValue(n, p)' = LatestValue(n, p)
  BY <1>1 DEF LatestValue
<1>5. CellsInv'
  BY <1>1, <1>4, FrameCells DEF CellsInv
<1>6. NoFlashPutBack'
  <2> SUFFICES ASSUME NEW p \in DOMAIN els' \ ToSet(body'), NEW i \in DOMAIN els'[p],
                      els'[p][i].flash
               PROVE  FALSE
    BY DEF NoFlashPutBack
  <2>1. i \in DOMAIN names /\ HasCells(p) /\ els[p][i].flash /\ p \notin ToSet(body)
    BY FrameCells
  <2>2. i \in DOMAIN els[p]
    BY <2>1, NoTopicAnywhere DEF CInv, RowsInv, HasCells
  <2> QED
    BY <2>1, <2>2 DEF CInv, NoFlashPutBack, HasCells
<1> QED
  BY <1>2, <1>3, <1>5, <1>6 DEF CInv

(* A flash runs out. *)
LEMMA AnimationEffect ==
  ASSUME CInv, NEW p \in DOMAIN els, NEW i \in DOMAIN els[p], AnimationEnd(p, i)
  PROVE  /\ DOMAIN els' = DOMAIN els
         /\ \A q \in DOMAIN els : /\ DOMAIN els'[q] = DOMAIN els[q]
                                  /\ \A j \in DOMAIN els[q] :
                                       /\ DOMAIN els'[q][j] = DOMAIN els[q][j]
                                       /\ els'[q][j].v = els[q][j].v
                                       /\ els'[q][j].flash => els[q][j].flash
<1>1. els' = [els EXCEPT ![p] = [els[p] EXCEPT ![i] = [els[p][i] EXCEPT !.flash = FALSE]]]
  BY DEF AnimationEnd
<1>2. DOMAIN els[p][i] = {"v", "flash"}
  BY DEF CInv, RowsInv
<1> DEFINE cell == [els[p][i] EXCEPT !.flash = FALSE]
<1>3. DOMAIN cell = {"v", "flash"} /\ cell.v = els[p][i].v /\ ~cell.flash
  BY <1>2
<1> HIDE DEF cell
<1> DEFINE line == [els[p] EXCEPT ![i] = cell]
<1>4. DOMAIN line = DOMAIN els[p] /\ line[i] = cell /\ \A j \in DOMAIN els[p] \ {i} : line[j] = els[p][j]
  OBVIOUS
<1>5. els' = [els EXCEPT ![p] = line]
  BY <1>1 DEF cell
<1> HIDE DEF line
<1>6. DOMAIN els' = DOMAIN els /\ els'[p] = line /\ \A q \in DOMAIN els \ {p} : els'[q] = els[q]
  BY <1>5
<1> QED
  BY <1>2, <1>3, <1>4, <1>6

LEMMA AnimationEndStep ==
  ASSUME CInv, NEW p \in DOMAIN els, NEW i \in DOMAIN els[p], AnimationEnd(p, i)
  PROVE  CInv'
<1>1. UNCHANGED <<began, known, names, resolved, values, head, body, news>>
  BY DEF AnimationEnd
<1>2. ListsInv' /\ ValuesInv'
  BY <1>1 DEF CInv, ListsInv, ValuesInv
<1>3. RowsInv' /\ NoFlashPutBack'
  BY <1>1, AnimationEffect DEF CInv, RowsInv, NoFlashPutBack
<1>4. \A n, q : LatestValue(n, q)' = LatestValue(n, q)
  BY <1>1 DEF LatestValue
<1>5. CellsInv'
  BY <1>1, <1>4, AnimationEffect DEF CInv, RowsInv, CellsInv
<1> QED
  BY <1>2, <1>3, <1>5 DEF CInv

(* A step that changes nothing the invariant speaks of. *)
LEMMA QuietStep ==
  ASSUME CInv, UNCHANGED <<began, known, names, resolved, values, head, els, body, news>>
  PROVE  CInv'
<1>1. \A n, p : LatestValue(n, p)' = LatestValue(n, p)
  BY DEF LatestValue
<1> QED
  BY <1>1 DEF CInv, ListsInv, ValuesInv, RowsInv, CellsInv, NoFlashPutBack

-----------------------------------------------------------------------------
LEMMA InitCInv == Init => CInv
<1> SUFFICES ASSUME Init PROVE CInv
  OBVIOUS
<1>1. names \in Seq(AllTopics)
  <2>1. PICK list \in Saved : names = SubSeq(list, 1, Min({Len(list), MaxCompared}))
    BY DEF Init
  <2>2. list \in Seq(AllTopics) /\ Len(list) \in Nat /\ MaxCompared \in Nat
    BY TopicsAssumption, TableAssumption
  <2> DEFINE m == Min({Len(list), MaxCompared})
  <2>3. m \in Nat /\ m <= Len(list)
    <3>1. \E x \in {Len(list), MaxCompared} : \A y \in {Len(list), MaxCompared} : x =< y
      BY <2>2
    <3>2. /\ m \in {Len(list), MaxCompared}
          /\ \A y \in {Len(list), MaxCompared} : m =< y
      BY <3>1 DEF Min
    <3> QED
      BY <2>2, <3>2
  <2> HIDE DEF m
  <2>4. SubSeq(list, 1, m) \in Seq(AllTopics)
    BY <2>2, <2>3
  <2> QED
    BY <2>1, <2>4 DEF m
<1> QED
  BY <1>1 DEF Init, CInv, ListsInv, ValuesInv, RowsInv, CellsInv, NoFlashPutBack, NoValues, NoRows

LEMMA NextCInv == CInv /\ [Next]_vars => CInv'
<1> SUFFICES ASSUME CInv, [Next]_vars PROVE CInv'
  OBVIOUS
<1>1. CASE \E new \in Batches : ~(new \subseteq known) /\ Tick(new, NoValues)
  BY <1>1, TickStep DEF Topics, NoValues
<1>2. CASE \E n \in known \cap Senders, m \in Messages : Tick({}, [k \in {n} |-> m])
  BY <1>2, TickStep
<1>3. CASE ResetClient
  BY <1>3, ResetClientStep
<1>4. CASE \/ \E n \in known : ToggleCompare(n)
           \/ RemoveColumn
           \/ Clear
           \/ \E v \in Typed : AddDevice(v)
  BY <1>4, EditStep
<1>5. CASE \E t \in {"topic", "compare"} : ShowTab(t)
  BY <1>5, ShowTabStep
<1>6. CASE QuietOver \/ ToggleDiffs \/ UNCHANGED vars
  BY <1>6, QuietStep DEF QuietOver, ToggleDiffs, vars, table
<1>7. CASE Frame
  BY <1>7, FrameStep
<1>8. CASE \E p \in DOMAIN els : \E i \in DOMAIN els[p] : AnimationEnd(p, i)
  BY <1>8, AnimationEndStep
<1> QED
  BY <1>1, <1>2, <1>3, <1>4, <1>5, <1>6, <1>7, <1>8 DEF Next

THEOREM CompareInvariance == Spec => []CInv
<1>1. Init => CInv
  BY InitCInv
<1>2. CInv /\ [Next]_vars => CInv'
  BY NextCInv
<1> QED
  BY <1>1, <1>2, PTL DEF Spec

(***************************************************************************)
(* The payloads kept are those of topics that are on the list and in the   *)
(* tree, whichever ticks, edits and resets cross (app.js:152, 656-661).    *)
(***************************************************************************)
THEOREM ValuesCorrect == Spec => []OnlyComparedValues
<1>1. CInv => OnlyComparedValues
  BY DEF CInv, ValuesInv, OnlyComparedValues
<1> QED
  BY <1>1, CompareInvariance, PTL

(***************************************************************************)
(* A row that is not in the table carries no flash, whatever hid it        *)
(* (app.js:883-885, 907).                                                  *)
(***************************************************************************)
THEOREM HiddenRowsCorrect == Spec => []NoFlashPutBack
<1>1. CInv => NoFlashPutBack
  BY DEF CInv
<1> QED
  BY <1>1, CompareInvariance, PTL

(***************************************************************************)
(* A cell begins to flash only if a payload changed its field since the    *)
(* table was last updated (app.js:847-849, 883-885).                       *)
(***************************************************************************)
LEMMA FlashStep ==
  ASSUME CInv, Next, els' # els, NEW p \in DOMAIN els', NEW i \in DOMAIN els'[p],
         els'[p][i].flash, ~(p \in DOMAIN els /\ head = head' /\ els[p][i].flash)
  PROVE  <<head'[i], p>> \in news
<1>1. CASE Frame
  <2>1. head' = names
    BY <1>1 DEF Frame, UpdateTable
  <2>2. /\ i \in DOMAIN names /\ HasCells(p)
        /\ Missing \notin {els[p][i].v, LatestValue(names[i], p)}
        /\ els[p][i].v # LatestValue(names[i], p)
    BY <1>1, <2>1, FrameCells DEF HasCells
  <2> QED
    BY <2>1, <2>2, NoTopicAnywhere DEF CInv, CellsInv, HasCells
<1>2. CASE \E q \in DOMAIN els : \E j \in DOMAIN els[q] : AnimationEnd(q, j)
  <2>1. head' = head /\ p \in DOMAIN els /\ els[p][i].flash
    BY <1>2, AnimationEffect DEF AnimationEnd
  <2> QED
    BY <2>1
<1>3. ASSUME UNCHANGED els PROVE FALSE
  BY <1>3
<1>4. CASE \/ \E new \in Batches : ~(new \subseteq known) /\ Tick(new, NoValues)
           \/ \E n \in known \cap Senders, m \in Messages : Tick({}, [k \in {n} |-> m])
           \/ ResetClient
           \/ \E t \in {"topic", "compare"} : ShowTab(t)
           \/ QuietOver
           \/ ToggleDiffs
  BY <1>3, <1>4 DEF Tick, ResetClient, ShowTab, QuietOver, ToggleDiffs, table
<1>5. CASE \/ \E n \in known : ToggleCompare(n)
           \/ RemoveColumn
           \/ Clear
           \/ \E v \in Typed : AddDevice(v)
  BY <1>3, <1>5 DEF ToggleCompare, RemoveColumn, Clear, AddDevice, RemoveName, SetCompare, table
<1> QED
  BY <1>1, <1>2, <1>4, <1>5 DEF Next

THEOREM FlashesCorrect == Spec => FlashTellsNews
<1>1. CInv /\ [Next]_vars =>
        [\A p \in DOMAIN els' : \A i \in DOMAIN els'[p] :
           /\ els' # els /\ els'[p][i].flash
           /\ ~(p \in DOMAIN els /\ head = head' /\ els[p][i].flash)
           => <<head'[i], p>> \in news]_vars
  BY FlashStep
<1> QED
  BY <1>1, CompareInvariance, PTL DEF Spec, FlashTellsNews

(***************************************************************************)
(* The titles of the columns.                                              *)
(***************************************************************************)
LEMMA SharedIs ==
  ASSUME NEW list, NEW n \in Nat
  PROVE  /\ Shared(list, n) \in 0..n
         /\ \A j \in 1..Shared(list, n) : \A i \in DOMAIN list : list[i][j] = list[1][j]
<1>1. PICK N : N = {k \in 0..n : \A j \in 1..k : \A i \in DOMAIN list : list[i][j] = list[1][j]}
  OBVIOUS
<1>2. 0 \in N /\ N \in SUBSET (0..n)
  BY <1>1
<1>3. Max(N) \in N
  BY <1>2, GreatestIn
<1>4. Shared(list, n) = Max(N)
  BY <1>1 DEF Shared
<1> QED
  BY <1>1, <1>3, <1>4

(* What remains of two topics without their shared ends tells them apart. *)
LEMMA MiddleTellsApart ==
  ASSUME NEW S, NEW a \in Seq(S), NEW T, NEW b \in Seq(T), NEW pre \in Nat, NEW suf \in Nat,
         pre + suf <= Len(a), pre + suf <= Len(b),
         \A j \in 1..pre : a[j] = b[j],
         \A j \in 1..suf : Reverse(a)[j] = Reverse(b)[j],
         SubSeq(a, pre + 1, Len(a) - suf) = SubSeq(b, pre + 1, Len(b) - suf)
  PROVE  a = b
<1>1. PICK l : l = Len(a) /\ l \in Nat
  OBVIOUS
<1>2. PICK m : m = Len(b) /\ m \in Nat
  OBVIOUS
<1>3. PICK x : x = SubSeq(a, pre + 1, l - suf)
  OBVIOUS
<1>4. x = SubSeq(b, pre + 1, m - suf)
  BY <1>1, <1>2, <1>3
<1>5. Len(x) = l - suf - pre /\ \A i \in 1..(l - suf - pre) : x[i] = a[pre + i]
  <2>1. /\ pre + 1 \in 1..(Len(a) + 1) /\ l - suf \in ((pre + 1) - 1)..Len(a)
    BY <1>1
  <2>2. /\ Len(x) = IF pre + 1 <= l - suf THEN (l - suf) - (pre + 1) + 1 ELSE 0
        /\ \A i \in 1..((l - suf) - (pre + 1) + 1) : x[i] = a[(pre + 1) + i - 1]
    BY <1>1, <1>3, <2>1, SubSeqProperties
  <2> QED
    BY <1>1, <2>2
<1>6. Len(x) = m - suf - pre /\ \A i \in 1..(m - suf - pre) : x[i] = b[pre + i]
  <2>1. /\ pre + 1 \in 1..(Len(b) + 1) /\ m - suf \in ((pre + 1) - 1)..Len(b)
    BY <1>2
  <2>2. /\ Len(x) = IF pre + 1 <= m - suf THEN (m - suf) - (pre + 1) + 1 ELSE 0
        /\ \A i \in 1..((m - suf) - (pre + 1) + 1) : x[i] = b[(pre + 1) + i - 1]
    BY <1>2, <1>4, <2>1, SubSeqProperties
  <2> QED
    BY <1>2, <2>2
<1>7. l = m
  BY <1>1, <1>2, <1>5, <1>6
<1>8. ASSUME NEW k \in 1..l
      PROVE  a[k] = b[k]
  <2>1. CASE k <= pre
    BY <2>1
  <2>2. CASE k > pre /\ k <= l - suf
    <3>1. k - pre \in 1..(l - suf - pre) /\ pre + (k - pre) = k
      BY <1>1, <2>2
    <3> QED
      BY <1>5, <1>6, <1>7, <3>1
  <2>3. CASE k > l - suf
    <3>1. PICK j : j = l - k + 1 /\ j \in 1..suf /\ j \in 1..l /\ (l - j) + 1 = k
      BY <1>1, <2>3
    <3>2. Reverse(a)[j] = a[(l - j) + 1] /\ Reverse(b)[j] = b[(l - j) + 1]
      BY <1>1, <1>2, <1>7, <3>1 DEF Reverse
    <3> QED
      BY <3>1, <3>2
  <2> QED
    BY <1>1, <2>1, <2>2, <2>3
<1>9. a = [k \in 1..l |-> a[k]]
  BY <1>1
<1>10. b = [k \in 1..l |-> b[k]]
  BY <1>2, <1>7
<1>11. [k \in 1..l |-> a[k]] = [k \in 1..l |-> b[k]]
  BY ONLY <1>8
<1> QED
  BY <1>9, <1>10, <1>11

LEMMA TopicsAreLong ==
  ASSUME NEW n \in AllTopics
  PROVE  n \in Seq(ToSet(n)) /\ Len(n) \in Nat
BY TopicsAssumption DEF IsTopic

LEMMA LabelsApart ==
  ASSUME NEW list \in Seq(AllTopics), IsInjective(list),
         NEW i \in DOMAIN list, NEW j \in DOMAIN list, i # j,
         NEW labels, labels = ColumnLabels(list), labels[i] = labels[j]
  PROVE  list[i] = labels[i] \/ list[j] = labels[j]
<1>0. Len(list) \in Nat /\ DOMAIN list = 1..Len(list) /\ \A k \in DOMAIN list : list[k] \in AllTopics
  OBVIOUS
<1>1. Len(list) >= 2
  BY <1>0
<1>2. PICK Lens : Lens = {Len(list[k]) : k \in DOMAIN list}
  OBVIOUS
<1>3. PICK short : short = Shortest(list)
  OBVIOUS
<1>4. short \in Nat /\ \A k \in DOMAIN list : short <= Len(list[k])
  <2>1. Lens \in SUBSET Nat /\ Lens # {} /\ \A k \in DOMAIN list : Len(list[k]) \in Lens
    BY <1>0, <1>2, TopicsAreLong
  <2>2. Min(Lens) \in Lens /\ \A n \in Lens : Min(Lens) <= n
    BY <2>1, LeastIn
  <2>3. short = Min(Lens)
    BY <1>2, <1>3 DEF Shortest
  <2> QED
    BY <2>1, <2>2, <2>3
<1>5. PICK pre : pre = Shared(list, short)
  OBVIOUS
<1>6. pre \in 0..short /\ \A n \in 1..pre : \A k \in DOMAIN list : list[k][n] = list[1][n]
  BY <1>4, <1>5, SharedIs
<1>7. PICK back : back = [k \in DOMAIN list |-> Reverse(list[k])]
  OBVIOUS
<1>8. PICK suf : suf = Shared(back, short - pre)
  OBVIOUS
<1>9. suf \in 0..(short - pre) /\ \A n \in 1..suf : \A k \in DOMAIN back : back[k][n] = back[1][n]
  <2>1. short - pre \in Nat
    BY <1>4, <1>6
  <2> QED
    BY <1>8, <2>1, SharedIs
<1>10. \A n \in 1..suf : Reverse(list[i])[n] = Reverse(list[j])[n]
  BY <1>0, <1>7, <1>9
<1>11. \A n \in 1..pre : list[i][n] = list[j][n]
  BY <1>6
<1> DEFINE middle(k) == SubSeq(list[k], pre + 1, Len(list[k]) - suf)
<1>12. \A k \in DOMAIN list :
         labels[k] = IF middle(k) \in {<<>>, <<<<>>>>} THEN list[k] ELSE middle(k)
  BY <1>1, <1>3, <1>5, <1>7, <1>8 DEF ColumnLabels
<1>13. ASSUME middle(i) = middle(j)
       PROVE  FALSE
  <2>1. PICK a : a = list[i] /\ a \in Seq(ToSet(a))
    BY <1>0, TopicsAreLong
  <2>2. PICK b : b = list[j] /\ b \in Seq(ToSet(b))
    BY <1>0, TopicsAreLong
  <2>3. pre \in Nat /\ suf \in Nat /\ pre + suf <= Len(a) /\ pre + suf <= Len(b)
    BY <1>4, <1>6, <1>9, <2>1, <2>2
  <2>4. SubSeq(a, pre + 1, Len(a) - suf) = SubSeq(b, pre + 1, Len(b) - suf)
    BY <1>13, <2>1, <2>2
  <2>5. \A n \in 1..pre : a[n] = b[n]
    BY ONLY <1>11, <2>1, <2>2
  <2>6. \A n \in 1..suf : Reverse(a)[n] = Reverse(b)[n]
    BY ONLY <1>10, <2>1, <2>2
  <2>7. a \in Seq(ToSet(a)) /\ b \in Seq(ToSet(b))
    BY ONLY <2>1, <2>2
  <2>8. a = b
    BY ONLY <2>3, <2>4, <2>5, <2>6, <2>7, MiddleTellsApart
  <2> QED
    BY <2>1, <2>2, <2>8 DEF IsInjective
<1> HIDE DEF middle
<1> QED
  BY <1>12, <1>13

(***************************************************************************)
(* No topic is on the list twice.                                          *)
(***************************************************************************)
LEMMA ElementsApart ==
  ASSUME NEW S, NEW s \in Seq(S), IsInjective(s), NEW kept \in SUBSET DOMAIN s
  PROVE  IsInjective(ElementsAt(s, kept))
<1> DEFINE At(k) == CHOOSE i \in kept : Cardinality({j \in kept : j < i}) = k - 1
<1>1. IsFiniteSet(kept) /\ kept \subseteq Int
  <2>1. DOMAIN s = 1..Len(s) /\ Len(s) \in Nat
    OBVIOUS
  <2>2. IsFiniteSet(1..Len(s))
    BY <2>1, FS_Interval
  <2> QED
    BY <2>1, <2>2, FS_Subset
<1>2. ASSUME NEW k \in 1..Cardinality(kept)
      PROVE  At(k) \in kept /\ Cardinality({j \in kept : j < At(k)}) = k - 1
  BY <1>1, KthMember
<1>3. ElementsAt(s, kept) = [k \in 1..Cardinality(kept) |-> s[At(k)]]
  BY DEF ElementsAt
<1>4. Cardinality(kept) \in Nat
  BY <1>1, FS_CardinalityType
<1> HIDE DEF At
<1>5. ASSUME NEW k \in 1..Cardinality(kept), NEW l \in 1..Cardinality(kept), s[At(k)] = s[At(l)]
      PROVE  k = l
  <2>1. At(k) = At(l)
    BY <1>2, <1>5 DEF IsInjective
  <2>2. k - 1 = l - 1
    BY <1>2, <2>1
  <2> QED
    BY <1>4, <2>2
<1> QED
  BY <1>3, <1>5 DEF IsInjective

LEMMA AppendApart ==
  ASSUME NEW S, NEW s \in Seq(S), IsInjective(s), NEW x \in S, ~Contains(s, x)
  PROVE  IsInjective(Append(s, x))
<1>1. Len(s) \in Nat /\ DOMAIN s = 1..Len(s)
  OBVIOUS
<1>2. PICK r : r = Append(s, x)
  OBVIOUS
<1>3. DOMAIN r = 1..(Len(s) + 1) /\ r[Len(s) + 1] = x /\ \A k \in 1..Len(s) : r[k] = s[k]
  BY <1>2
<1>4. \A k \in 1..Len(s) : s[k] # x
  BY DEF Contains
<1>5. ASSUME NEW k \in DOMAIN r, NEW l \in DOMAIN r, r[k] = r[l]
      PROVE  k = l
  <2>1. k \in 1..Len(s) \/ k = Len(s) + 1
    BY <1>1, <1>3
  <2>2. l \in 1..Len(s) \/ l = Len(s) + 1
    BY <1>1, <1>3
  <2> QED
    BY <1>1, <1>3, <1>4, <1>5, <2>1, <2>2 DEF IsInjective
<1> QED
  BY <1>2, <1>5 DEF IsInjective

LEMMA ApartStep ==
  ASSUME CInv, IsInjective(names), [Next]_vars
  PROVE  IsInjective(names')
<1>1. names \in Seq(AllTopics) /\ known \subseteq AllTopics
  BY DEF CInv, ListsInv, AllTopics
<1>2. ASSUME NEW n, RemoveName(n)
      PROVE  IsInjective(names')
  BY <1>1, <1>2, ElementsApart DEF RemoveName, SetCompare
<1>3. ASSUME NEW n \in known, ~Contains(names, n), SetCompare(Append(names, n))
      PROVE  IsInjective(names')
  BY <1>1, <1>3, AppendApart DEF SetCompare
<1>4. ASSUME SetCompare(<<>>)
      PROVE  IsInjective(names')
  BY <1>4 DEF SetCompare, IsInjective
<1>5. CASE \E n \in known : ToggleCompare(n)
  BY <1>2, <1>3, <1>5 DEF ToggleCompare
<1>6. CASE RemoveColumn
  BY <1>2, <1>6 DEF RemoveColumn
<1>7. CASE Clear
  BY <1>4, <1>7 DEF Clear
<1>8. CASE \E v \in Typed : AddDevice(v)
  BY <1>3, <1>8 DEF AddDevice
<1>9. CASE names' = names
  BY <1>9
<1>10. CASE \/ \E new \in Batches : ~(new \subseteq known) /\ Tick(new, NoValues)
            \/ \E n \in known \cap Senders, m \in Messages : Tick({}, [k \in {n} |-> m])
            \/ ResetClient
            \/ \E s \in {"topic", "compare"} : ShowTab(s)
            \/ QuietOver
            \/ ToggleDiffs
            \/ Frame
            \/ \E p \in DOMAIN els : \E i \in DOMAIN els[p] : AnimationEnd(p, i)
            \/ UNCHANGED vars
  BY <1>9, <1>10 DEF Tick, ResetClient, ShowTab, QuietOver, ToggleDiffs, Frame, AnimationEnd, vars
<1> QED
  BY <1>5, <1>6, <1>7, <1>8, <1>10 DEF Next

LEMMA SubSeqApart ==
  ASSUME NEW S, NEW s \in Seq(S), IsInjective(s), NEW m \in Nat, m <= Len(s)
  PROVE  IsInjective(SubSeq(s, 1, m))
<1>1. SubSeq(s, 1, m) = [k \in 1..m |-> s[k]]
  OBVIOUS
<1>2. \A k \in 1..m : k \in DOMAIN s
  OBVIOUS
<1> QED
  BY <1>1, <1>2 DEF IsInjective

Apart == IsInjective(names)

LEMMA NamesApart == Spec => [](CInv /\ Apart)
<1>1. Init => Apart
  <2> SUFFICES ASSUME Init
               PROVE  IsInjective(names)
    BY DEF Apart
  <2>1. PICK list \in Saved : names = SubSeq(list, 1, Min({Len(list), MaxCompared}))
    BY DEF Init
  <2>2. list \in Seq(AllTopics) /\ Len(list) \in Nat /\ MaxCompared \in Nat /\ IsInjective(list)
    BY TopicsAssumption, TableAssumption
  <2>3. PICK N : N = {Len(list), MaxCompared}
    OBVIOUS
  <2>4. Min(N) \in N /\ \A n \in N : Min(N) <= n
    BY <2>2, <2>3, LeastIn
  <2>5. Min(N) \in Nat /\ Min(N) <= Len(list)
    BY <2>2, <2>3, <2>4
  <2>6. IsInjective(SubSeq(list, 1, Min(N)))
    BY <2>2, <2>5, SubSeqApart
  <2> QED
    BY <2>1, <2>3, <2>6
<1>2. CInv /\ Apart /\ [Next]_vars => Apart'
  BY ApartStep DEF Apart
<1> QED
  BY <1>1, <1>2, CompareInvariance, PTL DEF Spec

(***************************************************************************)
(* Two columns have the same title only if one of them is a whole topic,   *)
(* whatever topics are compared (compare.js:102-103).                      *)
(***************************************************************************)
THEOREM LabelsCorrect == Spec => []LabelsTellApart
<1>1. CInv /\ Apart => LabelsTellApart
  <2> SUFFICES ASSUME CInv, IsInjective(names)
               PROVE  LabelsTellApart
    BY DEF Apart
  <2>1. names \in Seq(AllTopics)
    BY DEF CInv, ListsInv
  <2>2. PICK labels : labels = ColumnLabels(names)
    OBVIOUS
  <2>3. \A i, j \in DOMAIN names : i # j /\ labels[i] = labels[j] => names[i] = labels[i] \/ names[j] = labels[j]
    BY <2>1, <2>2, LabelsApart
  <2> QED
    BY <2>2, <2>3 DEF LabelsTellApart
<1> QED
  BY <1>1, NamesApart, PTL

-----------------------------------------------------------------------------
(***************************************************************************)
(* The rows: every path in the columns once, in the order in which the     *)
(* columns, read one after the other, first have it.                       *)
(***************************************************************************)
IsTable(columns) ==
  \E n \in Nat : DOMAIN columns = 1..n /\ \A i \in 1..n : \E m \in Nat : DOMAIN columns[i] = 1..m

LEMMA TablePlaces ==
  ASSUME NEW columns, IsTable(columns)
  PROVE  /\ IsFiniteSet(Places(columns))
         /\ Places(columns) \subseteq Nat \X Nat
         /\ \A a : a \in Places(columns) <=>
                     \E i \in DOMAIN columns : \E k \in DOMAIN columns[i] : a = <<i, k>>
<1>1. PICK n \in Nat : DOMAIN columns = 1..n /\ \A i \in 1..n : \E m \in Nat : DOMAIN columns[i] = 1..m
  BY DEF IsTable
<1>2. PICK part : part = [i \in 1..n |-> {i} \X DOMAIN columns[i]]
  OBVIOUS
<1>3. PICK parts : parts = {part[i] : i \in 1..n}
  OBVIOUS
<1>4. Places(columns) = UNION parts
  BY <1>1, <1>2, <1>3 DEF Places
<1>5. ASSUME NEW i \in 1..n
      PROVE  IsFiniteSet(part[i])
  <2>1. PICK m \in Nat : DOMAIN columns[i] = 1..m
    BY <1>1
  <2>2. IsFiniteSet({i})
    BY FS_Singleton
  <2>3. IsFiniteSet(1..m)
    BY FS_Interval
  <2>4. IsFiniteSet({i} \X (1..m))
    BY <2>2, <2>3, FS_Product
  <2> QED
    BY <1>2, <2>1, <2>4
<1>6. IsFiniteSet(parts)
  <2>1. part \in Surjection(1..n, parts)
    BY <1>2, <1>3 DEF Surjection
  <2>2. IsFiniteSet(1..n)
    BY FS_Interval
  <2> QED
    BY <2>1, <2>2, FS_Surjection
<1>7. IsFiniteSet(Places(columns))
  BY <1>3, <1>4, <1>5, <1>6, FS_UNION
<1>8. \A a : a \in Places(columns) <=> \E i \in DOMAIN columns : \E k \in DOMAIN columns[i] : a = <<i, k>>
  BY DEF Places
<1>9. Places(columns) \subseteq Nat \X Nat
  BY <1>1, <1>8
<1> QED
  BY <1>7, <1>8, <1>9

LEMMA ReadInOrder ==
  ASSUME NEW a \in Nat \X Nat, NEW b \in Nat \X Nat, NEW c \in Nat \X Nat
  PROVE  /\ ~ReadBefore(a, a)
         /\ a # b => ReadBefore(a, b) \/ ReadBefore(b, a)
         /\ ReadBefore(a, b) /\ ReadBefore(b, c) => ReadBefore(a, c)
         /\ ReadBefore(a, b) => ~ReadBefore(b, a)
<1>1. PICK a1 \in Nat, a2 \in Nat : a = <<a1, a2>>
  OBVIOUS
<1>2. PICK b1 \in Nat, b2 \in Nat : b = <<b1, b2>>
  OBVIOUS
<1>3. PICK c1 \in Nat, c2 \in Nat : c = <<c1, c2>>
  OBVIOUS
<1> QED
  BY <1>1, <1>2, <1>3 DEF ReadBefore

\* A path that is somewhere in the columns has a first place.
LEMMA FirstPlaceOf ==
  ASSUME NEW columns, IsTable(columns), NEW p \in Places(columns)
  PROVE  \E a \in FirstPlaces(columns) :
           PathAt(columns, a) = PathAt(columns, p) /\ ~ReadBefore(p, a)
<1>1. PICK All : All = {a \in Places(columns) : PathAt(columns, a) = PathAt(columns, p)}
  OBVIOUS
<1>2. /\ p \in All
      /\ \A a \in All : a[1] \in Nat /\ a[2] \in Nat /\ a = <<a[1], a[2]>>
                        /\ a \in Places(columns) /\ PathAt(columns, a) = PathAt(columns, p)
  BY <1>1, TablePlaces
<1>3. PICK N : N = {a[1] : a \in All}
  OBVIOUS
<1>4. N \in SUBSET Nat /\ N # {}
  BY <1>2, <1>3
<1>5. PICK i \in N : \A j \in N : i <= j
  BY <1>4, Least
<1>6. PICK M : M = {a[2] : a \in {b \in All : b[1] = i}}
  OBVIOUS
<1>7. M \in SUBSET Nat /\ M # {}
  BY <1>2, <1>3, <1>5, <1>6
<1>8. PICK k \in M : \A l \in M : k <= l
  BY <1>7, Least
<1>9. PICK a \in All : a[1] = i /\ a[2] = k
  BY <1>6, <1>8
<1>10. ASSUME NEW b \in All
       PROVE  ~ReadBefore(b, a)
  <2>1. b[1] \in Nat /\ b[2] \in Nat /\ i \in Nat /\ k \in Nat
    BY <1>2, <1>4, <1>5, <1>7, <1>8
  <2>2. i <= b[1]
    BY <1>3, <1>5
  <2>3. b[1] = i => k <= b[2]
    BY <1>6, <1>8
  <2> QED
    BY <1>9, <2>1, <2>2, <2>3 DEF ReadBefore
<1>11. a \in FirstPlaces(columns)
  BY <1>1, <1>2, <1>10 DEF FirstPlaces
<1> QED
  BY <1>2, <1>10, <1>11

LEMMA FirstPlacesApart ==
  ASSUME NEW columns, IsTable(columns),
         NEW a \in FirstPlaces(columns), NEW b \in FirstPlaces(columns), PathAt(columns, a) = PathAt(columns, b)
  PROVE  a = b
<1>1. a \in Places(columns) /\ b \in Places(columns) /\ ~ReadBefore(a, b) /\ ~ReadBefore(b, a)
  BY DEF FirstPlaces
<1>2. a \in Nat \X Nat /\ b \in Nat \X Nat
  BY <1>1, TablePlaces
<1> QED
  BY <1>1, <1>2, ReadInOrder

\* The row at r is read at the place at[r].
ReadAt(columns, rows, c, at) ==
  /\ c \in Nat /\ DOMAIN rows = 1..c
  /\ \A r \in 1..c : /\ at[r] \in FirstPlaces(columns)
                     /\ rows[r] = [path    |-> PathAt(columns, at[r]),
                                   values  |-> [i \in DOMAIN columns |-> ValueAt(columns[i], PathAt(columns, at[r]))],
                                   differs |-> Differs(columns, PathAt(columns, at[r]))]
  /\ \A r, s \in 1..c : r < s => ReadBefore(at[r], at[s])
  /\ \A a \in FirstPlaces(columns) : \E r \in 1..c : at[r] = a

LEMMA RowsRead ==
  ASSUME NEW columns, IsTable(columns), NEW rows, rows = BuildRows(columns)
  PROVE  \E c, at : ReadAt(columns, rows, c, at)
<1>1. PICK S : S = FirstPlaces(columns)
  OBVIOUS
<1>2. S \subseteq Nat \X Nat /\ IsFiniteSet(S)
  <2>1. S \in SUBSET Places(columns)
    BY <1>1 DEF FirstPlaces
  <2> QED
    BY <2>1, TablePlaces, FS_Subset
<1>3. PICK order : order = {ab \in S \X S : ReadBefore(ab[1], ab[2])}
  OBVIOUS
<1>4. \A a, b \in S : <<a, b>> \in order <=> ReadBefore(a, b)
  BY <1>3
<1>5. IsOrder(order, S)
  <2>1. \A a \in S : a \in Nat \X Nat
    BY <1>2
  <2>2. \A a \in S : <<a, a>> \notin order
    BY <1>4, <2>1, ReadInOrder
  <2>3. \A a, b \in S : a # b => <<a, b>> \in order \/ <<b, a>> \in order
    BY <1>4, <2>1, ReadInOrder
  <2>4. \A a, b, d \in S : <<a, b>> \in order /\ <<b, d>> \in order => <<a, d>> \in order
    BY <1>4, <2>1, ReadInOrder
  <2> QED
    BY <2>2, <2>3, <2>4 DEF IsOrder
<1>6. PICK at : at = InRank(S, order)
  OBVIOUS
<1>7. PICK c : c = Cardinality(S)
  OBVIOUS
<1>8. /\ c \in Nat
      /\ at \in [1..c -> S]
      /\ \A k, l \in 1..c : k < l => <<at[k], at[l]>> \in order
      /\ \A a \in S : \E k \in 1..c : at[k] = a
  BY <1>2, <1>5, <1>6, <1>7, InRankIs
<1>9. InOrder(S, ReadBefore) = at
  BY <1>3, <1>6 DEF InOrder
<1>10. PICK paths : paths = [r \in 1..c |-> PathAt(columns, at[r])]
  OBVIOUS
<1>11. rows = [r \in 1..c |-> [path    |-> paths[r],
                               values  |-> [i \in DOMAIN columns |-> ValueAt(columns[i], paths[r])],
                               differs |-> Differs(columns, paths[r])]]
  <2>1. DOMAIN at = 1..c
    BY <1>8
  <2> QED
    BY <1>1, <1>9, <1>10, <2>1 DEF BuildRows
<1>12. \A r \in 1..c : paths[r] = PathAt(columns, at[r])
  BY <1>10
<1>13. DOMAIN rows = 1..c
  BY <1>11
<1>14. \A r \in 1..c :
         /\ at[r] \in S
         /\ rows[r] = [path    |-> PathAt(columns, at[r]),
                       values  |-> [i \in DOMAIN columns |-> ValueAt(columns[i], PathAt(columns, at[r]))],
                       differs |-> Differs(columns, PathAt(columns, at[r]))]
  BY <1>8, <1>11, <1>12
<1>15. \A r, s \in 1..c : r < s => ReadBefore(at[r], at[s])
  BY <1>4, <1>8
<1>16. ReadAt(columns, rows, c, at)
  BY <1>1, <1>8, <1>13, <1>14, <1>15 DEF ReadAt
<1> QED
  BY <1>16

\* Wherever the columns have q, they had p before.
ComesFirst(columns, p, q) ==
  \A a \in Places(columns) : PathAt(columns, a) = q =>
    \E b \in Places(columns) : PathAt(columns, b) = p /\ ReadBefore(b, a)

\* What the rows are, without a word about how they are found.
RowsOf(columns, rows, c) ==
  /\ c \in Nat /\ DOMAIN rows = 1..c
  /\ \A r \in 1..c : /\ \E a \in Places(columns) : rows[r].path = PathAt(columns, a)
                     /\ rows[r].differs = Differs(columns, rows[r].path)
  /\ \A r, s \in 1..c : r # s => rows[r].path # rows[s].path
  /\ \A a \in Places(columns) : \E r \in 1..c : rows[r].path = PathAt(columns, a)
  /\ \A r, s \in 1..c : r < s => ComesFirst(columns, rows[r].path, rows[s].path)

LEMMA RowsAre ==
  ASSUME NEW columns, IsTable(columns), NEW rows, rows = BuildRows(columns)
  PROVE  \E c : RowsOf(columns, rows, c)
<1>1. PICK c, at : ReadAt(columns, rows, c, at)
  BY RowsRead
<1>2. c \in Nat /\ DOMAIN rows = 1..c
  BY <1>1 DEF ReadAt
<1>3. \A r \in 1..c : /\ at[r] \in FirstPlaces(columns)
                      /\ rows[r].path = PathAt(columns, at[r])
                      /\ rows[r].differs = Differs(columns, rows[r].path)
  BY <1>1 DEF ReadAt
<1>4. \A r, s \in 1..c : r < s => ReadBefore(at[r], at[s])
  BY <1>1 DEF ReadAt
<1>5. \A a \in FirstPlaces(columns) : \E r \in 1..c : at[r] = a
  BY <1>1 DEF ReadAt
<1>6. \A a \in FirstPlaces(columns) : a \in Places(columns) /\ a \in Nat \X Nat
  BY TablePlaces DEF FirstPlaces
<1>7. ASSUME NEW r \in 1..c, NEW s \in 1..c, r < s
      PROVE  rows[r].path # rows[s].path
  <2>1. ReadBefore(at[r], at[s]) /\ at[r] \in Nat \X Nat
    BY <1>3, <1>4, <1>6, <1>7
  <2>2. at[r] # at[s]
    BY <2>1, ReadInOrder
  <2> QED
    BY <1>3, <2>2, FirstPlacesApart
<1>8. ASSUME NEW r \in 1..c, NEW s \in 1..c, r # s
      PROVE  rows[r].path # rows[s].path
  <2>1. r < s \/ s < r
    BY <1>2, <1>8
  <2> QED
    BY <1>7, <2>1
<1>9. ASSUME NEW a \in Places(columns)
      PROVE  \E r \in 1..c : rows[r].path = PathAt(columns, a)
  <2>1. PICK b \in FirstPlaces(columns) : PathAt(columns, b) = PathAt(columns, a)
    BY FirstPlaceOf
  <2> QED
    BY <1>3, <1>5, <2>1
<1>10. ASSUME NEW r \in 1..c, NEW s \in 1..c, r < s, NEW a \in Places(columns),
              PathAt(columns, a) = rows[s].path
       PROVE  PathAt(columns, at[r]) = rows[r].path /\ ReadBefore(at[r], a)
  <2>1. PICK b \in FirstPlaces(columns) : PathAt(columns, b) = PathAt(columns, a) /\ ~ReadBefore(a, b)
    BY FirstPlaceOf
  <2>2. b = at[s]
    BY <1>3, <1>10, <2>1, FirstPlacesApart
  <2>3. ReadBefore(at[r], b)
    BY <1>4, <1>10, <2>2
  <2>4. at[r] \in Nat \X Nat /\ b \in Nat \X Nat /\ a \in Nat \X Nat
    BY <1>3, <1>6, TablePlaces
  <2>5. ReadBefore(at[r], a)
    BY <2>1, <2>3, <2>4, ReadInOrder
  <2> QED
    BY <1>3, <2>5
<1>11. \A r \in 1..c : at[r] \in Places(columns)
  BY <1>3, <1>6
<1>12. \A r, s \in 1..c : r < s => ComesFirst(columns, rows[r].path, rows[s].path)
  BY <1>10, <1>11 DEF ComesFirst
<1>13. RowsOf(columns, rows, c)
  BY <1>2, <1>3, <1>8, <1>9, <1>11, <1>12 DEF RowsOf
<1> QED
  BY <1>13

(***************************************************************************)
(* The part of the rows that is wanted, and of that the part that fits.    *)
(***************************************************************************)
LEMMA TheLesser ==
  ASSUME NEW m \in Nat, NEW n \in Nat
  PROVE  /\ Min({m, n}) \in Nat /\ Min({m, n}) <= m /\ Min({m, n}) <= n
         /\ Min({m, n}) = m \/ Min({m, n}) = n
<1>1. PICK N : N = {m, n}
  OBVIOUS
<1>2. N \in SUBSET Nat /\ N # {}
  BY <1>1
<1>3. Min(N) \in N /\ \A x \in N : Min(N) <= x
  BY <1>2, LeastIn
<1> QED
  BY <1>1, <1>3

LEMMA RowLimitIs ==
  ASSUME NEW n \in Nat
  PROVE  RowLimit(n) \in Nat
<1>1. PICK N : N = {1, n}
  OBVIOUS
<1>2. \E x \in N : \A y \in N : x >= y
  BY <1>1
<1>3. PICK m : m = Max(N)
  OBVIOUS
<1>4. m \in N /\ \A y \in N : m >= y
  BY <1>2, <1>3 DEF Max
<1>5. m \in Nat /\ m >= 1
  BY <1>1, <1>4
<1>6. MaxCells \in Nat
  BY ComparisonAssumption
<1>7. MaxCells \div m \in Nat
  BY ONLY <1>5, <1>6
<1> QED
  BY <1>1, <1>3, <1>7 DEF RowLimit

\* The paths that are wanted.
WantedOf(columns, only) ==
  {p \in {PathAt(columns, a) : a \in Places(columns)} : only => Differs(columns, p)}

\* A list of rows with the paths in F, each once, in the order of the columns.
ListsPaths(columns, F, w, list) ==
  /\ w \in Nat /\ Cardinality(F) = w
  /\ DOMAIN list = 1..w /\ list = [k \in 1..w |-> list[k]]
  /\ \A k \in 1..w : list[k].path \in F
  /\ \A p \in F : \E k \in 1..w : list[k].path = p
  /\ \A k, l \in 1..w : k < l => ComesFirst(columns, list[k].path, list[l].path)

LEMMA WantedRows ==
  ASSUME NEW columns, NEW only, NEW rows, NEW c, RowsOf(columns, rows, c),
         NEW kept, kept = {r \in 1..c : rows[r].differs \/ ~only},
         NEW wanted, wanted = ElementsAt(rows, kept)
  PROVE  \E w : ListsPaths(columns, WantedOf(columns, only), w, wanted)
<1>1. /\ c \in Nat
      /\ \A r \in 1..c : /\ \E a \in Places(columns) : rows[r].path = PathAt(columns, a)
                         /\ rows[r].differs = Differs(columns, rows[r].path)
      /\ \A r, s \in 1..c : r # s => rows[r].path # rows[s].path
      /\ \A a \in Places(columns) : \E r \in 1..c : rows[r].path = PathAt(columns, a)
      /\ \A r, s \in 1..c : r < s => ComesFirst(columns, rows[r].path, rows[s].path)
  BY DEF RowsOf
<1>2. kept \in SUBSET (1..c)
  OBVIOUS
<1>3. PICK w : w = Cardinality(kept)
  OBVIOUS
<1>4. IsFiniteSet(kept) /\ w \in Nat /\ \E at : ReadsAt(rows, kept, w, at, wanted)
  BY <1>1, <1>2, <1>3, ElementsInOrder
<1>5. PICK at : ReadsAt(rows, kept, w, at, wanted)
  BY <1>4
<1>6. /\ \A k \in 1..w : at[k] \in kept /\ wanted[k] = rows[at[k]]
      /\ \A k, l \in 1..w : k < l => at[k] < at[l]
      /\ \A i \in kept : \E k \in 1..w : at[k] = i
      /\ DOMAIN wanted = 1..w /\ wanted = [k \in 1..w |-> wanted[k]]
  BY <1>5 DEF ReadsAt
<1>7. PICK F : F = WantedOf(columns, only)
  OBVIOUS
<1>8. \A p : p \in F <=> (\E a \in Places(columns) : p = PathAt(columns, a)) /\ (only => Differs(columns, p))
  BY <1>7 DEF WantedOf
<1>9. \A r \in kept : r \in 1..c /\ rows[r].path \in F
  BY <1>1, <1>8
<1>10. \A p \in F : \E r \in kept : rows[r].path = p
  <2> SUFFICES ASSUME NEW p \in F
               PROVE  \E r \in kept : rows[r].path = p
    OBVIOUS
  <2>1. PICK a \in Places(columns) : p = PathAt(columns, a)
    BY <1>8
  <2>2. PICK r \in 1..c : rows[r].path = p
    BY <1>1, <2>1
  <2>3. rows[r].differs \/ ~only
    BY <1>1, <1>8, <2>2
  <2> QED
    BY <2>2, <2>3
<1>11. Cardinality(F) = w
  <2>1. PICK name : name = [r \in kept |-> rows[r].path]
    OBVIOUS
  <2>2. name \in Bijection(kept, F)
    <3>1. name \in [kept -> F]
      BY <1>9, <2>1
    <3>2. \A r, s \in kept : name[r] = name[s] => r = s
      BY <1>1, <1>9, <2>1
    <3>3. \A p \in F : \E r \in kept : name[r] = p
      BY <1>10, <2>1
    <3> QED
      BY <3>1, <3>2, <3>3 DEF Bijection, Injection, IsInjective, Surjection
  <2>3. ExistsBijection(kept, F)
    BY <2>2 DEF ExistsBijection
  <2> QED
    BY <1>3, <1>4, <2>3, FS_Bijection
<1>12. \A k \in 1..w : at[k] \in kept /\ wanted[k] = rows[at[k]]
  BY <1>6
<1>13. DOMAIN wanted = 1..w /\ wanted = [k \in 1..w |-> wanted[k]]
  BY <1>6
<1>14. \A k \in 1..w : wanted[k].path \in F
  BY <1>9, <1>12
<1>15. \A p \in F : \E k \in 1..w : wanted[k].path = p
  BY <1>6, <1>10, <1>12
<1>16. ASSUME NEW k \in 1..w, NEW l \in 1..w, k < l
       PROVE  ComesFirst(columns, wanted[k].path, wanted[l].path)
  <2>1. at[k] \in 1..c /\ at[l] \in 1..c /\ at[k] < at[l]
    BY <1>6, <1>9, <1>12, <1>16
  <2>2. wanted[k] = rows[at[k]] /\ wanted[l] = rows[at[l]]
    BY <1>12
  <2> QED
    BY <1>1, <2>1, <2>2
<1>17. ListsPaths(columns, F, w, wanted)
  BY <1>4, <1>11, <1>13, <1>14, <1>15, <1>16 DEF ListsPaths
<1> QED
  BY <1>7, <1>17

\* The first m of them.
ShowsFirst(columns, F, m, list) ==
  /\ DOMAIN list = 1..m /\ Len(list) = m
  /\ \A r \in 1..m : list[r].path \in F
  /\ \A r \in 1..m : \A p \in F \ {list[k].path : k \in 1..r} : ComesFirst(columns, list[r].path, p)

LEMMA ListedAre == ASSUME NEW columns, NEW F, NEW w, NEW list, ListsPaths(columns, F, w, list) PROVE Len(list) = w
<1>1. w \in Nat /\ DOMAIN list = 1..w /\ list = [k \in 1..w |-> list[k]]
  BY DEF ListsPaths
<1> QED
  BY ONLY <1>1

LEMMA ShownRows ==
  ASSUME NEW columns, NEW F, NEW w, NEW wanted, ListsPaths(columns, F, w, wanted),
         NEW limit \in Nat, NEW m, m = Min({w, limit}), NEW shown, shown = SubSeq(wanted, 1, m)
  PROVE  ShowsFirst(columns, F, m, shown)
<1>1. /\ w \in Nat
      /\ DOMAIN wanted = 1..w /\ wanted = [k \in 1..w |-> wanted[k]]
      /\ \A k \in 1..w : wanted[k].path \in F
      /\ \A p \in F : \E k \in 1..w : wanted[k].path = p
      /\ \A k, l \in 1..w : k < l => ComesFirst(columns, wanted[k].path, wanted[l].path)
  BY DEF ListsPaths
<1>3. m = Min({w, limit})
  OBVIOUS
<1>4. m \in Nat /\ m <= w
  BY <1>1, <1>3, TheLesser
<1>5. shown = SubSeq(wanted, 1, m)
  OBVIOUS
<1>6. DOMAIN shown = 1..m /\ Len(shown) = m /\ \A r \in 1..m : shown[r] = wanted[r]
  BY ONLY <1>1, <1>4, <1>5
<1>7. \A r \in 1..m : r \in 1..w
  BY ONLY <1>1, <1>4
<1>8. ASSUME NEW r \in 1..m, NEW p \in F, p \notin {shown[k].path : k \in 1..r}
      PROVE  ComesFirst(columns, shown[r].path, p)
  <2>1. PICK k \in 1..w : wanted[k].path = p
    BY <1>1
  <2>2. k > r
    <3>1. k \notin 1..r
      <4> SUFFICES ASSUME k \in 1..r
                   PROVE  FALSE
        OBVIOUS
      <4>1. k \in 1..m
        BY <1>4
      <4> QED
        BY <1>6, <1>8, <2>1, <4>1
    <3> QED
      BY <1>1, <1>4, <3>1
  <2>3. r \in 1..w /\ r < k
    BY <1>1, <1>4, <1>7, <2>2
  <2>4. ComesFirst(columns, wanted[r].path, wanted[k].path)
    BY <1>1, <2>3
  <2> QED
    BY <1>6, <2>1, <2>4
<1>9. \A r \in 1..m : shown[r].path \in F
  BY <1>1, <1>6, <1>7
<1> QED
  BY <1>6, <1>8, <1>9 DEF ShowsFirst

-----------------------------------------------------------------------------
(***************************************************************************)
(* The table.                                                              *)
(***************************************************************************)
LEMMA FlattenIs ==
  ASSUME NEW m \in Messages
  PROVE  \E n \in Nat : n > 0 /\ DOMAIN Flatten(m) = 1..n /\ FieldsOf[m] = Flatten(m)
<1>1. PICK leaves : leaves = m.leaves /\ leaves \in Seq(ToSet(leaves))
  BY MessagesAssumption
<1>2. PICK fields : fields = [i \in DOMAIN leaves |-> [path |-> PathOf(leaves[i].steps), value |-> leaves[i].value]]
  OBVIOUS
<1>3. PICK whole, mark : whole = [path |-> Payload, value |-> m.text] /\ mark = [path |-> Truncated, value |-> "yes"]
  OBVIOUS
<1>4. PICK F : F = {fields[i] : i \in DOMAIN leaves} \cup {whole, mark}
  OBVIOUS
<1>5. PICK a : a = IF m.trunc \/ leaves = <<>> THEN <<whole>> ELSE fields
  OBVIOUS
<1>6. PICK b : b = IF m.trunc THEN <<mark>> ELSE <<>>
  OBVIOUS
<1>7. a \in Seq(F) /\ Len(a) > 0
  <2>1. CASE m.trunc \/ leaves = <<>>
    <3>1. whole \in F /\ a = <<whole>>
      BY <1>4, <1>5, <2>1
    <3> QED
      BY ONLY <3>1
  <2>2. CASE ~(m.trunc \/ leaves = <<>>)
    <3>1. DOMAIN leaves = 1..Len(leaves) /\ Len(leaves) \in Nat /\ Len(leaves) > 0
      BY <1>1, <2>2
    <3>2. fields \in [1..Len(leaves) -> F]
      BY <1>2, <1>4, <3>1
    <3>3. fields \in Seq(F) /\ Len(fields) = Len(leaves)
      BY <3>1, <3>2
    <3> QED
      BY <1>5, <2>2, <3>1, <3>3
  <2> QED
    BY <2>1, <2>2
<1>8. b \in Seq(F)
  <2>1. mark \in F
    BY <1>4
  <2>2. <<mark>> \in Seq(F)
    BY ONLY <2>1
  <2>3. <<>> \in Seq(F)
    OBVIOUS
  <2> QED
    BY ONLY <1>6, <2>2, <2>3
<1>9. Flatten(m) = a \o b
  BY <1>1, <1>2, <1>3, <1>5, <1>6 DEF Flatten
<1>10. Flatten(m) \in Seq(F) /\ Len(Flatten(m)) > 0
  BY <1>7, <1>8, <1>9
<1>11. DOMAIN Flatten(m) = 1..Len(Flatten(m)) /\ Len(Flatten(m)) \in Nat
  BY <1>10
<1>12. FieldsOf[m] = Flatten(m)
  BY DEF FieldsOf
<1> QED
  BY <1>10, <1>11, <1>12

PayloadsInv == values \in [DOMAIN values -> Messages]

\* The columns are those of the topics that have a payload, in the order of the list.
LEMMA ColumnsAre ==
  ASSUME CInv, PayloadsInv
  PROVE  /\ IsTable(Columns) /\ DOMAIN Columns = DOMAIN names
         /\ \A i \in DOMAIN names : names[i] \in DOMAIN values =>
              Columns[i] = FieldsOf[values[names[i]]] /\ Columns[i] # NoColumn
         /\ \A i \in DOMAIN names : names[i] \notin DOMAIN values => Columns[i] = NoColumn
         /\ \A n \in DOMAIN values : \E i \in DOMAIN names : names[i] = n
<1>1. /\ names \in Seq(AllTopics) /\ DOMAIN names = 1..Len(names) /\ Len(names) \in Nat
  BY DEF CInv, ListsInv
<1>2. DOMAIN values \subseteq ToSet(names) \cap known
  BY DEF CInv, ValuesInv
<1>3. \A n \in DOMAIN values : \E i \in DOMAIN names : names[i] = n
  BY <1>2 DEF ToSet
<1>4. Columns = [i \in DOMAIN names |-> IF names[i] \in DOMAIN values THEN FieldsOf[values[names[i]]] ELSE NoColumn]
  BY <1>2 DEF Columns
<1>5. ASSUME NEW n \in DOMAIN values
      PROVE  \E m \in Nat : m > 0 /\ DOMAIN FieldsOf[values[n]] = 1..m
  <2>1. values[n] \in Messages
    BY DEF PayloadsInv
  <2> QED
    BY <2>1, FlattenIs
<1>6. DOMAIN NoColumn = 1..0
  BY DEF NoColumn
<1>7. ASSUME NEW n \in DOMAIN values
      PROVE  FieldsOf[values[n]] # NoColumn
  <2>1. PICK m \in Nat : m > 0 /\ DOMAIN FieldsOf[values[n]] = 1..m
    BY <1>5
  <2>2. 1 \in 1..m /\ 1 \notin 1..0
    BY <2>1
  <2> QED
    BY <1>6, <2>1, <2>2
<1>8. \A i \in DOMAIN names : \E m \in Nat : DOMAIN Columns[i] = 1..m
  BY <1>4, <1>5, <1>6
<1>9. IsTable(Columns)
  BY <1>1, <1>4, <1>8 DEF IsTable
<1> QED
  BY <1>3, <1>4, <1>7, <1>9

LEMMA LatestIs ==
  ASSUME CInv, PayloadsInv, NEW i \in DOMAIN names, NEW p
  PROVE  ValueAt(Columns[i], p) = LatestValue(names[i], p)
<1>1. ValueAt(NoColumn, p) = Missing
  BY DEF ValueAt, NoColumn
<1> QED
  BY <1>1, ColumnsAre DEF LatestValue

\* The fields the table is for.
Fields ==
  {p \in UNION {{f.path : f \in ToSet(FieldsOf[values[n]])} : n \in DOMAIN values} :
     onlyDiffs => \E n, k \in DOMAIN values : LatestValue(n, p) # LatestValue(k, p)}

LEMMA FieldsAre ==
  ASSUME CInv, PayloadsInv
  PROVE  Fields = WantedOf(Columns, onlyDiffs)
<1>1. ASSUME NEW p
      PROVE  p \in UNION {{f.path : f \in ToSet(FieldsOf[values[n]])} : n \in DOMAIN values}
             <=> p \in {PathAt(Columns, a) : a \in Places(Columns)}
  <2>1. ASSUME NEW n \in DOMAIN values, NEW f \in ToSet(FieldsOf[values[n]])
        PROVE  f.path \in {PathAt(Columns, a) : a \in Places(Columns)}
    <3>1. PICK i \in DOMAIN names : names[i] = n
      BY ColumnsAre
    <3>2. Columns[i] = FieldsOf[values[n]] /\ i \in DOMAIN Columns
      BY <3>1, ColumnsAre
    <3>3. PICK k \in DOMAIN Columns[i] : Columns[i][k] = f
      BY <3>2 DEF ToSet
    <3>4. <<i, k>> \in Places(Columns)
      BY <3>2, <3>3, TablePlaces, ColumnsAre
    <3>5. PathAt(Columns, <<i, k>>) = f.path
      BY <3>3 DEF PathAt
    <3> QED
      BY <3>4, <3>5
  <2>2. ASSUME NEW a \in Places(Columns)
        PROVE  \E n \in DOMAIN values : \E f \in ToSet(FieldsOf[values[n]]) : f.path = PathAt(Columns, a)
    <3>1. PICK i \in DOMAIN Columns : \E k \in DOMAIN Columns[i] : a = <<i, k>>
      BY TablePlaces, ColumnsAre
    <3>2. PICK k \in DOMAIN Columns[i] : a = <<i, k>>
      BY <3>1
    <3>3. i \in DOMAIN names /\ names[i] \in DOMAIN values
      <4>1. DOMAIN NoColumn = {}
        BY DEF NoColumn
      <4> QED
        BY <3>2, <4>1, ColumnsAre
    <3>4. Columns[i] = FieldsOf[values[names[i]]]
      BY <3>3, ColumnsAre
    <3>5. Columns[i][k] \in ToSet(FieldsOf[values[names[i]]])
      BY <3>2, <3>4 DEF ToSet
    <3>6. PathAt(Columns, a) = Columns[i][k].path
      BY <3>2 DEF PathAt
    <3> QED
      BY <3>3, <3>5, <3>6
  <2> QED
    BY <2>1, <2>2
<1>2. ASSUME NEW p
      PROVE  Differs(Columns, p) <=> \E n, k \in DOMAIN values : LatestValue(n, p) # LatestValue(k, p)
  <2>1. ASSUME NEW i \in DOMAIN Columns, Columns[i] # NoColumn
        PROVE  names[i] \in DOMAIN values /\ ValueAt(Columns[i], p) = LatestValue(names[i], p)
    BY <2>1, ColumnsAre, LatestIs
  <2>2. ASSUME NEW n \in DOMAIN values
        PROVE  \E i \in DOMAIN Columns : Columns[i] # NoColumn /\ ValueAt(Columns[i], p) = LatestValue(n, p)
    BY ColumnsAre, LatestIs
  <2> QED
    BY <2>1, <2>2 DEF Differs
<1> QED
  BY <1>1, <1>2 DEF Fields, WantedOf

\* What is read before is no later in the columns.
LEMMA NotPreceded ==
  ASSUME CInv, PayloadsInv, NEW p, NEW q, ComesFirst(Columns, q, p)
  PROVE  ~Precedes(p, q)
<1> SUFFICES ASSUME NEW i \in DOMAIN names, NEW k \in DOMAIN Columns[i],
                    Columns[i][k].path = p,
                    \A j \in 1..(i - 1) : \A l \in DOMAIN Columns[j] : Columns[j][l].path # q,
                    \A l \in 1..k : Columns[i][l].path # q
             PROVE  FALSE
  BY DEF Precedes
<1>1. i \in DOMAIN Columns
  BY ColumnsAre
<1>2. <<i, k>> \in Places(Columns) /\ PathAt(Columns, <<i, k>>) = p
  BY <1>1, TablePlaces, ColumnsAre DEF PathAt
<1>3. PICK b \in Places(Columns) : PathAt(Columns, b) = q /\ ReadBefore(b, <<i, k>>)
  BY <1>2 DEF ComesFirst
<1>4. PICK j \in DOMAIN Columns : \E l \in DOMAIN Columns[j] : b = <<j, l>>
  BY TablePlaces, ColumnsAre
<1>5. PICK l \in DOMAIN Columns[j] : b = <<j, l>>
  BY <1>4
<1>6. Columns[j][l].path = q
  BY <1>3, <1>5 DEF PathAt
<1>7. j < i \/ (j = i /\ l < k)
  BY <1>3, <1>5 DEF ReadBefore
<1>8. PICK n \in Nat : DOMAIN Columns = 1..n /\ \A x \in 1..n : \E m \in Nat : DOMAIN Columns[x] = 1..m
  BY ColumnsAre DEF IsTable
<1>9. i \in 1..n /\ j \in 1..n /\ \E m \in Nat : DOMAIN Columns[j] = 1..m
  BY <1>1, <1>4, <1>8
<1>10. CASE j < i
  <2>1. j \in 1..(i - 1)
    BY <1>8, <1>9, <1>10
  <2> QED
    BY <1>5, <1>6, <2>1
<1>11. CASE j = i /\ l < k
  <2>1. PICK m \in Nat : DOMAIN Columns[i] = 1..m
    BY <1>8, <1>9
  <2>2. l \in 1..k
    BY <1>5, <1>11, <2>1
  <2> QED
    BY <1>6, <1>11, <2>2
<1> QED
  BY <1>7, <1>10, <1>11

\* What a table that is not marked shows.
IsCurrent ==
  /\ head = names
  /\ ToSet(body) \subseteq Fields
  /\ \A i \in DOMAIN body : \A p \in Fields \ {body[k] : k \in 1..i} : ~Precedes(p, body[i])
  /\ Len(body) = Min({Cardinality(Fields), RowLimit(Len(names))})
  /\ cut <=> Cardinality(Fields) > Len(body)
  /\ \A p \in DOMAIN els : \A i \in DOMAIN names : els[p][i].v = LatestValue(names[i], p)

\* It shows that after a frame.
LEMMA FrameCurrent == ASSUME CInv, PayloadsInv, Frame PROVE IsCurrent'
<1>1. PICK rows : rows = BuildRows(Columns)
  OBVIOUS
<1>2. PICK kept : kept = {r \in DOMAIN rows : rows[r].differs \/ ~onlyDiffs}
  OBVIOUS
<1>3. PICK wanted : wanted = ElementsAt(rows, kept)
  OBVIOUS
<1>4. PICK limit : limit = RowLimit(Len(names))
  OBVIOUS
<1>5. PICK shown : shown = SubSeq(wanted, 1, Min({Len(wanted), limit}))
  OBVIOUS
<1>6. /\ head' = names
      /\ body' = [r \in DOMAIN shown |-> shown[r].path]
      /\ cut' = (Len(wanted) > Len(shown))
      /\ UNCHANGED <<known, names, values, onlyDiffs>>
  BY <1>1, <1>2, <1>3, <1>4, <1>5 DEF Frame, UpdateTable
<1>7. limit \in Nat
  BY <1>4, RowLimitIs DEF CInv, ListsInv
<1>8. PICK c : RowsOf(Columns, rows, c)
  BY <1>1, RowsAre, ColumnsAre
<1>9. DOMAIN rows = 1..c
  BY <1>8 DEF RowsOf
<1>10. PICK F : F = WantedOf(Columns, onlyDiffs)
  OBVIOUS
<1>11. F = Fields
  BY <1>10, FieldsAre
<1>12. PICK w : ListsPaths(Columns, F, w, wanted)
  BY <1>2, <1>3, <1>8, <1>9, <1>10, WantedRows
<1>13. w \in Nat /\ Cardinality(F) = w
  BY <1>12 DEF ListsPaths
<1>14. PICK m : m = Min({w, limit}) /\ m \in Nat /\ m <= w
  BY <1>7, <1>13, TheLesser
<1>15. /\ Len(wanted) = w
       /\ DOMAIN shown = 1..m /\ Len(shown) = m
       /\ \A r \in DOMAIN shown : shown[r].path \in F
       /\ \A r \in DOMAIN shown : \A p \in F \ {shown[k].path : k \in 1..r} :
            ComesFirst(Columns, shown[r].path, p)
  <2>1. Len(wanted) = w
    BY <1>12, ListedAre
  <2>2. m = Min({w, limit}) /\ shown = SubSeq(wanted, 1, m)
    BY <1>5, <1>14, <2>1
  <2>3. ShowsFirst(Columns, F, m, shown)
    BY ONLY <1>7, <1>12, <2>2, ShownRows
  <2> QED
    BY ONLY <2>1, <2>3 DEF ShowsFirst
<1>16. Fields' = Fields
  BY <1>6 DEF Fields, LatestValue
<1>17. \A p, q : Precedes(p, q)' <=> Precedes(p, q)
  BY <1>6 DEF Precedes, Columns
<1>18. DOMAIN body' = 1..m /\ Len(body') = m /\ \A r \in 1..m : body'[r] = shown[r].path
  <2>1. body' = [r \in 1..m |-> shown[r].path]
    BY <1>6, <1>15
  <2> QED
    BY ONLY <1>14, <2>1
<1>19. ToSet(body') \subseteq F
  BY <1>15, <1>18 DEF ToSet
<1>20. ASSUME NEW i \in 1..m, NEW p \in F, p \notin {body'[k] : k \in 1..i}
       PROVE  ~Precedes(p, body'[i])
  <2>1. \A k \in 1..i : k \in 1..m
    BY <1>14
  <2>2. p \notin {shown[k].path : k \in 1..i}
    BY <1>18, <1>20, <2>1
  <2>3. ComesFirst(Columns, shown[i].path, p)
    BY <1>15, <2>2
  <2> QED
    BY <1>18, <2>3, NotPreceded
<1>21. cut' <=> w > m
  BY <1>6, <1>15
<1>22. \A p \in DOMAIN els' : \A i \in DOMAIN names : els'[p][i].v = LatestValue(names[i], p)
  BY FrameCells
<1>23. \A n, p : LatestValue(n, p)' = LatestValue(n, p)
  BY <1>6 DEF LatestValue
<1> QED
  BY <1>4, <1>6, <1>11, <1>13, <1>14, <1>16, <1>17, <1>18, <1>19, <1>20, <1>21, <1>22, <1>23 DEF IsCurrent

\* It goes on showing that as long as nothing of it is changed.
LEMMA StaysCurrent ==
  ASSUME CInv, IsCurrent, known \subseteq known',
         UNCHANGED <<names, values, onlyDiffs, head, body, cut>>,
         DOMAIN els' = DOMAIN els,
         \A p \in DOMAIN els : \A i \in DOMAIN els[p] : els'[p][i].v = els[p][i].v
  PROVE  IsCurrent'
<1>1. Fields' = Fields
  BY DEF Fields, LatestValue
<1>2. DOMAIN values \subseteq known
  BY DEF CInv, ValuesInv
<1>3. Columns' = Columns
  BY <1>2 DEF Columns
<1>4. \A p, q : Precedes(p, q)' <=> Precedes(p, q)
  BY <1>3 DEF Precedes
<1>5. \A n, p : LatestValue(n, p)' = LatestValue(n, p)
  BY DEF LatestValue
<1>6. head = names
  BY DEF IsCurrent
<1>7. \A p \in DOMAIN els : DOMAIN els[p] = DOMAIN names
  BY <1>6, NoTopicAnywhere DEF CInv, RowsInv
<1>8. \A p \in DOMAIN els' : \A i \in DOMAIN names : els'[p][i].v = LatestValue(names[i], p)
  BY <1>7 DEF IsCurrent
<1> QED
  BY <1>1, <1>4, <1>5, <1>8 DEF IsCurrent

LEMMA SyncPayloads ==
  ASSUME PayloadsInv, NEW list, NEW tree, NEW vals, vals \in [DOMAIN vals -> Messages], NEW changed,
         Sync(list, tree, vals, changed)
  PROVE  PayloadsInv'
<1>1. CASE began'
  <2>1. values' = vals \/ \E S \in SUBSET DOMAIN vals : values' = [n \in S |-> vals[n]]
    BY <1>1 DEF Sync, Resolve, Restrict
  <2> QED
    BY <2>1 DEF PayloadsInv
<1>2. CASE ~began'
  BY <1>2 DEF Sync, PayloadsInv
<1> QED
  BY <1>1, <1>2

\* Unless the table is marked, it is current.
TableInv == PayloadsInv /\ (tab = "compare" /\ ~dirty => IsCurrent)

LEMMA TickCurrent ==
  ASSUME CInv, TableInv, NEW new, NEW msgs, msgs \in [DOMAIN msgs -> Messages], Tick(new, msgs)
  PROVE  TableInv'
<1> DEFINE got == {n \in DOMAIN msgs : Received(n, msgs[n])}
           vals == [n \in got \cup DOMAIN values |-> IF n \in got THEN msgs[n] ELSE values[n]]
<1>1. /\ began' = TRUE /\ known \subseteq known'
      /\ Sync(names, known', vals, dirty \/ got # {})
      /\ UNCHANGED <<names, tab, onlyDiffs, head, els, body, cut>>
  BY DEF Tick, table
<1>2. vals \in [DOMAIN vals -> Messages]
  BY DEF TableInv, PayloadsInv
<1>3. got = {} => vals = values
  BY DEF TableInv, PayloadsInv
<1> HIDE DEF got, vals
<1>4. PayloadsInv'
  BY <1>1, <1>2, SyncPayloads DEF TableInv
<1>5. ASSUME tab' = "compare", ~dirty'
      PROVE  IsCurrent'
  <2>1. Resolve(names, known', vals, dirty \/ got # {})
    BY <1>1 DEF Sync
  <2>2. ~dirty /\ got = {} /\ values' = vals
    BY <1>5, <2>1 DEF Resolve
  <2>3. values' = values /\ IsCurrent
    BY <1>1, <1>3, <1>5, <2>2 DEF TableInv
  <2> QED
    BY <1>1, <2>3, StaysCurrent
<1> QED
  BY <1>4, <1>5 DEF TableInv

LEMMA SyncMarks ==
  ASSUME TableInv, NEW list, NEW tree, Sync(list, tree, values, TRUE)
  PROVE  TableInv'
<1>1. dirty'
  BY DEF Sync, Resolve
<1>2. PayloadsInv'
  BY SyncPayloads DEF TableInv, PayloadsInv
<1> QED
  BY <1>1, <1>2 DEF TableInv

LEMMA NextTableInv == ASSUME CInv, TableInv, [Next]_vars PROVE TableInv'
<1>1. CASE \E new \in Batches : ~(new \subseteq known) /\ Tick(new, NoValues)
  <2>1. NoValues \in [DOMAIN NoValues -> Messages]
    BY DEF NoValues
  <2> QED
    BY <1>1, <2>1, TickCurrent
<1>2. CASE \E n \in known \cap Senders, m \in Messages : Tick({}, [k \in {n} |-> m])
  <2> SUFFICES ASSUME NEW n, NEW m \in Messages, Tick({}, [k \in {n} |-> m])
               PROVE  TableInv'
    BY <1>2
  <2>1. PICK msgs : msgs = [k \in {n} |-> m]
    OBVIOUS
  <2>2. msgs \in [DOMAIN msgs -> Messages]
    BY <2>1
  <2> QED
    BY <2>1, <2>2, TickCurrent
<1>3. CASE ResetClient
  BY <1>3 DEF ResetClient, TableInv, PayloadsInv, NoValues
<1>4. ASSUME NEW list, SetCompare(list)
      PROVE  TableInv'
  BY <1>4, SyncMarks DEF SetCompare
<1>5. CASE \/ \E n \in known : ToggleCompare(n)
           \/ RemoveColumn
           \/ Clear
           \/ \E v \in Typed : AddDevice(v)
  BY <1>4, <1>5 DEF ToggleCompare, RemoveName, RemoveColumn, Clear, AddDevice
<1>6. CASE \E s \in {"topic", "compare"} : ShowTab(s)
  BY <1>6, SyncMarks DEF ShowTab
<1>7. CASE ToggleDiffs
  BY <1>7 DEF ToggleDiffs, TableInv, PayloadsInv
<1>8. CASE Frame
  <2>1. values' = values
    BY <1>8 DEF Frame
  <2> QED
    BY <1>8, <2>1, FrameCurrent DEF TableInv, PayloadsInv
<1>9. CASE \E p \in DOMAIN els : \E i \in DOMAIN els[p] : AnimationEnd(p, i)
  <2> SUFFICES ASSUME NEW p \in DOMAIN els, NEW i \in DOMAIN els[p], AnimationEnd(p, i)
               PROVE  TableInv'
    BY <1>9
  <2>1. UNCHANGED <<known, names, values, tab, onlyDiffs, dirty, head, body, cut>>
    BY DEF AnimationEnd
  <2>2. DOMAIN els' = DOMAIN els /\ \A q \in DOMAIN els : \A j \in DOMAIN els[q] : els'[q][j].v = els[q][j].v
    BY AnimationEffect
  <2>3. IsCurrent => IsCurrent'
    BY <2>1, <2>2, StaysCurrent
  <2> QED
    BY <2>1, <2>3 DEF TableInv, PayloadsInv
<1>10. CASE QuietOver \/ UNCHANGED vars
  <2>1. UNCHANGED <<known, names, values, tab, onlyDiffs, dirty, head, els, body, cut>>
    BY <1>10 DEF QuietOver, vars, table
  <2>2. IsCurrent => IsCurrent'
    BY <2>1, StaysCurrent
  <2> QED
    BY <2>1, <2>2 DEF TableInv, PayloadsInv
<1> QED
  BY <1>1, <1>2, <1>3, <1>5, <1>6, <1>7, <1>8, <1>9, <1>10 DEF Next

(***************************************************************************)
(* Unless it is marked, the table on screen is the one that would be built *)
(* from nothing: its columns, its rows, their order and number, and every  *)
(* cell, whatever topics are compared, whatever they send and however many *)
(* rows fit (app.js:758-763, 845-872).                                     *)
(***************************************************************************)
THEOREM TableCorrect == Spec => []TableIsCurrent
<1>1. Init => TableInv
  BY DEF Init, TableInv, PayloadsInv, NoValues
<1>2. CInv /\ TableInv /\ [Next]_vars => TableInv'
  BY NextTableInv
<1>3. TableInv => TableIsCurrent
  BY DEF TableInv, TableIsCurrent, IsCurrent, Fields
<1> QED
  BY <1>1, <1>2, <1>3, CompareInvariance, PTL DEF Spec

-----------------------------------------------------------------------------
(* What holds of a number, and of the next one whenever it holds of one,   *)
(* holds of all from there.                                                *)
LEMMA Upwards ==
  ASSUME NEW a \in Nat, NEW n \in Nat, NEW G, a \in G, \A k \in a..(n - 1) : k \in G => k + 1 \in G
  PROVE  \A k \in a..n : k \in G
<1>1. PICK N : N = {k \in a..n : k \notin G}
  OBVIOUS
<1>2. SUFFICES ASSUME N # {}
               PROVE  FALSE
  BY <1>1
<1>3. N \in SUBSET Nat
  BY <1>1
<1>4. PICK k \in N : \A j \in N : k <= j
  BY <1>2, <1>3, Least
<1>5. k \in a..n /\ k \notin G /\ k # a
  BY <1>1, <1>4
<1>6. k - 1 \in a..n /\ k - 1 \in a..(n - 1) /\ (k - 1) + 1 = k /\ ~(k <= k - 1)
  BY <1>5
<1>7. k - 1 \in G
  BY <1>1, <1>4, <1>6
<1> QED
  BY <1>5, <1>6, <1>7

(***************************************************************************)
(* Lists written one after the other, by the recursion of FlattenSeq: the  *)
(* k-th step has the first k of them.                                      *)
(***************************************************************************)
Steps(lists, n, made) ==
  DOMAIN made = 1..n /\ \A i \in 1..n : made[i] = IF i = 1 THEN lists[i] ELSE made[i - 1] \o lists[i]

LEMMA StepsExist ==
  ASSUME NEW lists, NEW n \in Nat
  PROVE  \E made : Steps(lists, n, made)
<1>1. PICK G : G = {k \in Nat : \E made : Steps(lists, k, made)}
  OBVIOUS
<1>2. 0 \in G
  <2>1. Steps(lists, 0, [i \in 1..0 |-> i])
    BY DEF Steps
  <2> QED
    BY <1>1, <2>1
<1>3. ASSUME NEW m \in 0..(n - 1), m \in G
      PROVE  m + 1 \in G
  <2>1. PICK k : k = m + 1 /\ k \in Nat /\ k - 1 = m
    OBVIOUS
  <2>2. PICK made : Steps(lists, k - 1, made)
    BY <1>1, <1>3, <2>1
  <2>3. PICK next : next = IF k = 1 THEN lists[k] ELSE made[k - 1] \o lists[k]
    OBVIOUS
  <2>4. PICK more : more = [i \in 1..k |-> IF i = k THEN next ELSE made[i]]
    OBVIOUS
  <2>5. DOMAIN more = 1..k /\ more[k] = next /\ \A i \in 1..(k - 1) : more[i] = made[i]
    BY <2>1, <2>4
  <2>6. more[k] = IF k = 1 THEN lists[k] ELSE more[k - 1] \o lists[k]
    <3>1. k # 1 => k - 1 \in 1..(k - 1)
      BY <2>1
    <3> QED
      BY <2>3, <2>5, <3>1
  <2>7. ASSUME NEW i \in 1..(k - 1)
        PROVE  more[i] = IF i = 1 THEN lists[i] ELSE more[i - 1] \o lists[i]
    <3>1. i # 1 => i - 1 \in 1..(k - 1)
      BY <2>1
    <3>2. made[i] = IF i = 1 THEN lists[i] ELSE made[i - 1] \o lists[i]
      BY <2>2 DEF Steps
    <3> QED
      BY <2>5, <3>1, <3>2
  <2>8. \A i \in 1..k : i = k \/ i \in 1..(k - 1)
    BY <2>1
  <2>9. Steps(lists, k, more)
    BY <2>5, <2>6, <2>7, <2>8 DEF Steps
  <2> QED
    BY <1>1, <2>1, <2>9
<1>4. n \in G
  <2>1. \A k \in 0..n : k \in G
    BY <1>2, <1>3, Upwards
  <2> QED
    BY <2>1
<1> QED
  BY <1>1, <1>4

LEMMA FlattenSteps ==
  ASSUME NEW S, NEW lists \in Seq(S), lists # <<>>
  PROVE  \E made : Steps(lists, Len(lists), made) /\ FlattenSeq(lists) = made[Len(lists)]
<1>1. Len(lists) \in Nat /\ Len(lists) # 0
  OBVIOUS
<1>2. PICK f : Steps(lists, Len(lists), f)
  BY <1>1, StepsExist
<1> DEFINE Sat(g) == g = [i \in 1..Len(lists) |-> IF i = 1 THEN lists[i] ELSE g[i - 1] \o lists[i]]
<1>3. \A g : Sat(g) => Steps(lists, Len(lists), g)
  BY DEF Steps
<1>4. PICK h : h = [i \in 1..Len(lists) |-> f[i]]
  OBVIOUS
<1>5. Sat(h)
  <2>1. \A i \in 1..Len(lists) : h[i] = f[i]
    BY <1>4
  <2>2. \A i \in 1..Len(lists) : i # 1 => i - 1 \in 1..Len(lists)
    BY <1>1
  <2>3. \A i \in 1..Len(lists) : f[i] = IF i = 1 THEN lists[i] ELSE f[i - 1] \o lists[i]
    BY <1>2 DEF Steps
  <2>4. \A i \in 1..Len(lists) : f[i] = IF i = 1 THEN lists[i] ELSE h[i - 1] \o lists[i]
    BY <2>1, <2>2, <2>3
  <2> QED
    BY <1>4, <2>4
<1>6. FlattenSeq(lists) = (CHOOSE g : Sat(g))[Len(lists)]
  BY <1>1 DEF FlattenSeq
<1>7. Sat(CHOOSE g : Sat(g))
  BY <1>5
<1> HIDE DEF Sat
<1> QED
  BY <1>3, <1>6, <1>7

(***************************************************************************)
(* Where each of the lists begins in the whole, less one.                  *)
(***************************************************************************)
Lays(lists, n, whole, off) ==
  /\ off[1] = 0
  /\ \A i \in 1..n :
       /\ off[i] \in Nat /\ off[i + 1] \in Nat /\ off[i + 1] = off[i] + Len(lists[i]) /\ off[i + 1] <= Len(whole)
       /\ \A k \in 1..Len(lists[i]) : whole[off[i] + k] = lists[i][k]
  /\ Len(whole) = off[n + 1]

LEMMA ConcatIs ==
  ASSUME NEW S, NEW a \in Seq(S), NEW b \in Seq(S)
  PROVE  /\ a \o b \in Seq(S) /\ Len(a \o b) = Len(a) + Len(b)
         /\ \A k \in 1..Len(a) : (a \o b)[k] = a[k]
         /\ \A k \in 1..Len(b) : (a \o b)[Len(a) + k] = b[k]
<1>1. Len(a) \in Nat /\ Len(b) \in Nat
  OBVIOUS
<1>2. \A k \in 1..Len(b) : Len(a) + k > Len(a) /\ (Len(a) + k) - Len(a) = k /\ Len(a) + k \in 1..(Len(a) + Len(b))
  BY <1>1
<1>3. \A k \in 1..Len(a) : k <= Len(a) /\ k \in 1..(Len(a) + Len(b))
  BY <1>1
<1> QED
  BY <1>1, <1>2, <1>3, ConcatProperties

LEMMA Within ==
  ASSUME NEW o \in Nat, NEW l \in Nat, NEW e \in Nat, NEW m \in Nat, e = o + l, e <= m, NEW j \in 1..l
  PROVE  o + j \in 1..m
OBVIOUS

LEMMA OneMore ==
  ASSUME NEW S, NEW lists \in Seq(Seq(S)), NEW k \in 1..(Len(lists) - 1), NEW off,
         NEW a \in Seq(S), Lays(lists, k, a, off),
         NEW b, b = a \o lists[k + 1], off[k + 2] = Len(b)
  PROVE  b \in Seq(S) /\ Lays(lists, k + 1, b, off)
<1>1. Len(lists) \in Nat /\ k \in Nat /\ k + 1 \in 1..Len(lists) /\ \A i \in 1..Len(lists) : Len(lists[i]) \in Nat
  OBVIOUS
<1>2. PICK c : c = lists[k + 1] /\ c \in Seq(S) /\ Len(c) \in Nat
  BY <1>1
<1>3. /\ b \in Seq(S) /\ Len(b) = Len(a) + Len(c) /\ Len(a) \in Nat
      /\ \A i \in 1..Len(a) : b[i] = a[i]
      /\ \A i \in 1..Len(c) : b[Len(a) + i] = c[i]
  <2>1. a \in Seq(S) /\ c \in Seq(S) /\ b = a \o c
    BY <1>2
  <2>2. Len(a) \in Nat
    OBVIOUS
  <2> QED
    BY ONLY <2>1, <2>2, ConcatIs
<1>4. Len(a) = off[k + 1]
  BY DEF Lays
<1>5. \A i \in 1..k : off[i + 1] \in Nat /\ off[i] \in Nat /\ off[i + 1] = off[i] + Len(lists[i])
  BY DEF Lays
<1>6. \A i \in 1..k : off[i + 1] <= Len(a) /\ off[i + 1] <= Len(b)
  <2>1. \A i \in 1..k : off[i + 1] \in Nat /\ off[i + 1] <= Len(a)
    BY DEF Lays
  <2> QED
    BY <1>2, <1>3, <2>1
<1>7. ASSUME NEW i \in 1..k, NEW j \in 1..Len(lists[i])
      PROVE  b[off[i] + j] = lists[i][j]
  <2>1. off[i] + j \in 1..Len(a)
    <3>1. PICK l : l = Len(lists[i])
      OBVIOUS
    <3>2. i \in 1..Len(lists)
      BY <1>1
    <3>3. l \in Nat /\ j \in 1..l
      BY <1>1, <3>1, <3>2
    <3>4. off[i] \in Nat /\ off[i + 1] \in Nat /\ off[i + 1] = off[i] + l /\ off[i + 1] <= Len(a) /\ Len(a) \in Nat
      BY <1>3, <1>5, <1>6, <3>1
    <3> QED
      BY ONLY <3>3, <3>4, Within
  <2>2. a[off[i] + j] = lists[i][j]
    BY DEF Lays
  <2> QED
    BY <1>3, <2>1, <2>2
<1>8. off[k + 1] \in Nat /\ off[k + 2] \in Nat /\ off[k + 2] = off[k + 1] + Len(lists[k + 1]) /\ off[k + 2] <= Len(b)
  BY <1>2, <1>3, <1>4
<1>9. \A i \in 1..(k + 1) : i \in 1..k \/ i = k + 1
  BY <1>1
<1>10. (k + 1) + 1 = k + 2
  BY <1>1
<1>11. off[1] = 0
  BY DEF Lays
<1>12. ASSUME NEW i \in 1..(k + 1)
       PROVE  /\ off[i] \in Nat /\ off[i + 1] \in Nat /\ off[i + 1] = off[i] + Len(lists[i])
              /\ off[i + 1] <= Len(b)
              /\ \A j \in 1..Len(lists[i]) : b[off[i] + j] = lists[i][j]
  <2>1. CASE i \in 1..k
    BY <1>5, <1>6, <1>7, <2>1
  <2>2. CASE i = k + 1
    BY <1>2, <1>3, <1>4, <1>8, <1>10, <2>2
  <2> QED
    BY <1>9, <2>1, <2>2
<1>13. Len(b) = off[(k + 1) + 1]
  BY <1>10
<1> QED
  BY <1>3, <1>11, <1>12, <1>13 DEF Lays

LEMMA FlattenLays ==
  ASSUME NEW S, NEW lists \in Seq(Seq(S)), lists # <<>>
  PROVE  /\ FlattenSeq(lists) \in Seq(S)
         /\ \E off : Lays(lists, Len(lists), FlattenSeq(lists), off)
<1>1. PICK n : n = Len(lists) /\ n \in Nat /\ n >= 1 /\ 1 \in 1..n
  OBVIOUS
<1>2. PICK made : Steps(lists, n, made) /\ FlattenSeq(lists) = made[n]
  BY <1>1, FlattenSteps
<1>3. PICK off : off = [i \in 1..(n + 1) |-> IF i = 1 THEN 0 ELSE Len(made[i - 1])]
  OBVIOUS
<1>4. PICK G : G = {k \in Nat : made[k] \in Seq(S) /\ Lays(lists, k, made[k], off)}
  OBVIOUS
<1>5. 1 \in G
  <2>1. made[1] = lists[1] /\ lists[1] \in Seq(S) /\ Len(lists[1]) \in Nat
    <3>1. made[1] = lists[1]
      BY <1>1, <1>2 DEF Steps
    <3>2. lists[1] \in Seq(S)
      BY <1>1
    <3> QED
      BY <3>1, <3>2
  <2>2. off[1] = 0 /\ off[1 + 1] = Len(lists[1])
    BY <1>1, <1>3, <2>1
  <2>3. Lays(lists, 1, made[1], off)
    BY <2>1, <2>2 DEF Lays
  <2> QED
    BY <1>4, <2>1, <2>3
<1>6. ASSUME NEW k \in 1..(n - 1), k \in G
      PROVE  k + 1 \in G
  <2>1. k + 1 \in 1..n /\ k + 1 # 1 /\ (k + 1) - 1 = k /\ k + 2 \in 1..(n + 1) /\ k + 2 # 1 /\ (k + 2) - 1 = k + 1
    BY <1>1
  <2>2. made[k + 1] = made[k] \o lists[k + 1]
    BY <1>2, <2>1 DEF Steps
  <2>3. off[k + 2] = Len(made[k + 1])
    BY <1>3, <2>1
  <2>4. made[k] \in Seq(S) /\ Lays(lists, k, made[k], off)
    BY <1>4, <1>6
  <2>5. k \in 1..(Len(lists) - 1)
    BY <1>1
  <2>6. made[k + 1] \in Seq(S) /\ Lays(lists, k + 1, made[k + 1], off)
    BY ONLY lists \in Seq(Seq(S)), <2>2, <2>3, <2>4, <2>5, OneMore
  <2> QED
    BY <1>4, <2>1, <2>6
<1>7. n \in G
  <2>1. \A k \in 1..n : k \in G
    BY <1>1, <1>5, <1>6, Upwards
  <2> QED
    BY <1>1, <2>1
<1> QED
  BY <1>1, <1>2, <1>4, <1>7

-----------------------------------------------------------------------------
(***************************************************************************)
(* The topic of another device.                                            *)
(***************************************************************************)
(* The first element stays the first of the part that is kept. *)
LEMMA FirstKept ==
  ASSUME NEW n \in Nat, NEW s, NEW kept \in SUBSET (1..n), 1 \in kept, NEW part, part = ElementsAt(s, kept)
  PROVE  part # <<>> /\ 1 \in DOMAIN part /\ part[1] = s[1]
<1>1. PICK c : c = Cardinality(kept)
  OBVIOUS
<1>2. PICK at : c \in Nat /\ ReadsAt(s, kept, c, at, part)
  BY <1>1, ElementsInOrder
<1>3. PICK k \in 1..c : at[k] = 1
  BY <1>2 DEF ReadsAt
<1>4. 1 \in 1..c /\ at[1] \in 1..n
  BY <1>2, <1>3 DEF ReadsAt
<1>5. k = 1
  <2>1. \A l \in 1..c : 1 < l => at[1] < at[l]
    BY <1>2, <1>4 DEF ReadsAt
  <2>2. ~(at[1] < at[k])
    BY <1>3, <1>4
  <2>3. ~(1 < k)
    BY <2>1, <2>2
  <2> QED
    BY <1>2, <2>3
<1>6. DOMAIN part = 1..c /\ part[1] = s[at[1]]
  BY <1>2, <1>4 DEF ReadsAt
<1>7. part # <<>>
  <2>1. \A q : q = <<>> => 1 \notin DOMAIN q
    OBVIOUS
  <2> QED
    BY <1>4, <1>6, <2>1
<1> QED
  BY <1>3, <1>4, <1>5, <1>6, <1>7

(* The only element of a set is first in every order that does not put an  *)
(* element before itself.                                                  *)
LEMMA OnlyMember ==
  ASSUME NEW x, NEW order, <<x, x>> \notin order
  PROVE  InRank({x}, order) = <<x>>
<1>1. Cardinality({x}) = 1 /\ Cardinality({}) = 0
  BY FS_Singleton, FS_EmptySet
<1>2. {y \in {x} : <<y, x>> \in order} = {}
  OBVIOUS
<1>3. RankIn({x}, order, x) = 0
  BY <1>1, <1>2 DEF RankIn
<1>4. InRank({x}, order) = [k \in 1..1 |-> CHOOSE y \in {x} : RankIn({x}, order, y) = k - 1]
  BY <1>1 DEF InRank
<1>5. \A k \in 1..1 : (CHOOSE y \in {x} : RankIn({x}, order, y) = k - 1) = x
  <2>1. (CHOOSE y \in {x} : RankIn({x}, order, y) = 0) = x
    BY <1>3
  <2> QED
    BY <2>1
<1>6. InRank({x}, order) = [k \in 1..1 |-> x]
  BY <1>4, <1>5
<1> QED
  BY <1>6

LEMMA SharedStartIs ==
  ASSUME NEW S, NEW s \in Seq(S), NEW T, NEW v \in Seq(T)
  PROVE  SharedStart(Lowered(s), Lowered(v)) \in Nat
<1>0. DOMAIN s = 1..Len(s) /\ DOMAIN v = 1..Len(v)
  OBVIOUS
<1>1. PICK a : a = Lowered(s) /\ a = [i \in 1..Len(s) |-> Lower[s[i]]]
  BY <1>0 DEF Lowered
<1>2. PICK b : b = Lowered(v) /\ b = [i \in 1..Len(v) |-> Lower[v[i]]]
  BY <1>0 DEF Lowered
<1>3. Len(a) \in Nat /\ Len(b) \in Nat
  <2>1. Len(s) \in Nat /\ Len(v) \in Nat
    OBVIOUS
  <2> QED
    BY <1>1, <1>2, <2>1
<1>4. PICK low : low = Min({Len(a), Len(b)})
  OBVIOUS
<1>5. low \in Nat
  BY <1>3, <1>4, TheLesser
<1>6. PICK N : N = {k \in 0..low : SubSeq(a, 1, k) = SubSeq(b, 1, k)}
  OBVIOUS
<1>7. 0 \in N /\ N \in SUBSET (0..low)
  <2>1. SubSeq(a, 1, 0) = SubSeq(b, 1, 0)
    BY <1>1, <1>2
  <2> QED
    BY <1>5, <1>6, <2>1
<1>8. Max(N) \in N
  BY <1>5, <1>7, GreatestIn
<1>9. SharedStart(a, b) = Max(N)
  BY <1>4, <1>6 DEF SharedStart
<1>10. Max(N) \in Nat
  <2>1. \A k \in N : k \in Nat
    BY <1>5, <1>6
  <2> QED
    BY <1>8, <2>1
<1>11. a = Lowered(s) /\ b = Lowered(v)
  BY <1>1, <1>2
<1>12. SharedStart(a, b) \in Nat
  BY <1>9, <1>10
<1> QED
  BY ONLY <1>11, <1>12

LEMMA RankOfOne ==
  ASSUME NEW p, NEW i \in Int, NEW v, NEW S, p[i] \in Seq(S), NEW T, v \in Seq(T)
  PROVE  Rank(p, {i}, v) = <<i>>
<1> DEFINE score(j) == <<SharedStart(Lowered(p[j]), Lowered(v)), IF Len(p[j]) = Len(v) THEN 1 ELSE 0, Len(p[j])>>
           before(j, k) == \/ \E n \in 1..3 : /\ score(j)[n] > score(k)[n]
                                              /\ \A l \in 1..(n - 1) : score(j)[l] = score(k)[l]
                           \/ score(j) = score(k) /\ j < k
<1>1. PICK order : order = {jk \in {i} \X {i} : before(jk[1], jk[2])}
  OBVIOUS
<1>2. Rank(p, {i}, v) = InRank({i}, order)
  BY <1>1 DEF Rank, InOrder
<1>3. \A n \in 1..3 : score(i)[n] \in Nat
  <2>1. SharedStart(Lowered(p[i]), Lowered(v)) \in Nat /\ Len(p[i]) \in Nat
    BY SharedStartIs
  <2> QED
    BY <2>1
<1>4. ~before(i, i)
  <2> HIDE DEF score
  <2> QED
    BY <1>3
<1> HIDE DEF before
<1>5. <<i, i>> \notin order
  BY <1>1, <1>4
<1> QED
  BY <1>2, <1>5, OnlyMember

(* Two topics that differ in one segment only. *)
LEMMA DiffersThere ==
  ASSUME NEW S, NEW p \in Seq(S), NEW T, NEW q \in Seq(T), Len(q) = Len(p), p # q, NEW i,
         \A j \in DOMAIN p : j # i => q[j] = p[j]
  PROVE  q[i] # p[i]
<1>1. p = [j \in 1..Len(p) |-> p[j]] /\ q = [j \in 1..Len(p) |-> q[j]] /\ DOMAIN p = 1..Len(p)
  OBVIOUS
<1>2. SUFFICES ASSUME q[i] = p[i]
               PROVE  FALSE
  OBVIOUS
<1>3. \A j \in 1..Len(p) : q[j] = p[j]
  BY <1>1, <1>2
<1> QED
  BY <1>1, <1>3

LEMMA DifferAtOne ==
  ASSUME NEW list \in Seq(AllTopics), IsInjective(list), Len(list) > 1, NEW i \in DOMAIN list[1],
         \A k \in DOMAIN list : /\ Len(list[k]) = Len(list[1])
                                /\ \A j \in DOMAIN list[1] : j # i => list[k][j] = list[1][j]
  PROVE  DifferAt(list, list[1]) = {i}
<1>1. 1 \in DOMAIN list /\ 2 \in DOMAIN list /\ 1 # 2 /\ \A k \in DOMAIN list : list[k] \in AllTopics
  OBVIOUS
<1>2. PICK p : p = list[1] /\ p \in Seq(ToSet(p))
  BY <1>1, TopicsAreLong
<1>3. PICK q : q = list[2] /\ q \in Seq(ToSet(q))
  BY <1>1, TopicsAreLong
<1>4. p # q
  BY <1>1, <1>2, <1>3 DEF IsInjective
<1>5. q[i] # p[i]
  BY <1>1, <1>2, <1>3, <1>4, DiffersThere
<1>6. q \in ToSet(list) /\ Len(q) = Len(p)
  BY <1>1, <1>2, <1>3 DEF ToSet
<1>7. ASSUME NEW j \in DOMAIN p, NEW t \in ToSet(list), t[j] # p[j]
      PROVE  j = i
  BY <1>2, <1>7 DEF ToSet
<1>8. DifferAt(list, p) = {i}
  BY <1>2, <1>5, <1>6, <1>7 DEF DifferAt
<1> QED
  BY <1>2, <1>8

(* What becomes of a topic for one segment after the other. *)
IsList(r) == \E c \in Nat : DOMAIN r = 1..c /\ r = [k \in 1..c |-> r[k]]

LEMMA ReplacedIs ==
  ASSUME NEW n \in Nat, NEW p, NEW at \in SUBSET (1..n), NEW v
  PROVE  IsList(Replaced(p, Rank(p, at, v), v))
<1>1. Cardinality(at) \in Nat
  <2>1. IsFiniteSet(1..n)
    BY FS_Interval
  <2>2. IsFiniteSet(at)
    BY <2>1, FS_Subset
  <2> QED
    BY <2>2, FS_CardinalityType
<1>2. \A order : DOMAIN InRank(at, order) = 1..Cardinality(at)
  BY DEF InRank
<1>3. DOMAIN Rank(p, at, v) = 1..Cardinality(at)
  BY <1>2 DEF Rank, InOrder
<1>4. PICK rank : rank = Rank(p, at, v) /\ DOMAIN rank = 1..Cardinality(at)
  BY <1>3
<1>5. PICK r : r = Replaced(p, rank, v)
  OBVIOUS
<1>6. DOMAIN r = 1..Cardinality(at) /\ r = [k \in 1..Cardinality(at) |-> r[k]]
  BY <1>4, <1>5 DEF Replaced
<1> QED
  BY <1>1, <1>4, <1>5, <1>6 DEF IsList

(* The first of the lists, if it has an element, gives the whole its first. *)
LEMMA FirstOfAll ==
  ASSUME NEW S, NEW lists \in Seq(S), lists # <<>>, \A k \in DOMAIN lists : IsList(lists[k]),
         NEW x, lists[1] = <<x>>
  PROVE  \E n \in Nat : DOMAIN FlattenSeq(lists) = 1..n /\ 1 \in 1..n /\ FlattenSeq(lists)[1] = x
<1>1. PICK U : U = UNION {{lists[k][j] : j \in DOMAIN lists[k]} : k \in DOMAIN lists}
  OBVIOUS
<1>2. ASSUME NEW k \in DOMAIN lists
      PROVE  lists[k] \in Seq(U)
  <2>1. PICK r : r = lists[k]
    OBVIOUS
  <2>2. PICK c \in Nat : DOMAIN r = 1..c /\ r = [j \in 1..c |-> r[j]]
    BY <2>1 DEF IsList
  <2>3. \A j \in 1..c : r[j] \in U
    <3>1. \A j \in DOMAIN lists[k] : lists[k][j] \in U
      BY <1>1
    <3> QED
      BY <2>1, <2>2, <3>1
  <2>4. r \in [1..c -> U]
    BY <2>2, <2>3
  <2> QED
    BY <2>1, <2>4
<1>3. lists \in Seq(Seq(U))
  <2>1. Len(lists) \in Nat /\ DOMAIN lists = 1..Len(lists) /\ lists = [k \in 1..Len(lists) |-> lists[k]]
    OBVIOUS
  <2>2. lists \in [1..Len(lists) -> Seq(U)]
    BY <1>2, <2>1
  <2> QED
    BY <2>1, <2>2
<1>4. PICK whole : whole = FlattenSeq(lists)
  OBVIOUS
<1>5. PICK off : whole \in Seq(U) /\ Lays(lists, Len(lists), whole, off)
  BY <1>3, <1>4, FlattenLays
<1>6. 1 \in 1..Len(lists) /\ Len(lists[1]) = 1 /\ lists[1][1] = x /\ 1 \in 1..1
  OBVIOUS
<1>7. whole[1] = x /\ Len(whole) >= 1
  <2>1. /\ off[1] = 0 /\ whole[off[1] + 1] = lists[1][1]
        /\ off[1 + 1] = off[1] + Len(lists[1]) /\ off[1 + 1] <= Len(whole)
    BY <1>5, <1>6 DEF Lays
  <2> QED
    BY <1>5, <1>6, <2>1
<1>8. PICK m : m = Len(whole) /\ m \in Nat /\ DOMAIN whole = 1..m
  BY <1>5
<1>9. DOMAIN whole = 1..m /\ 1 \in 1..m /\ whole[1] = x
  BY <1>7, <1>8
<1> QED
  BY ONLY <1>4, <1>8, <1>9

(* The first guess puts what was typed where the compared topics differ. *)
LEMMA FirstGuess ==
  ASSUME NEW list \in Seq(AllTopics), list # <<>>, NEW i \in Int, DifferAt(list, list[1]) = {i},
         NEW v, Len(v) = 1, NEW S, list[1][i] \in Seq(S), NEW T, v[1] \in Seq(T),
         NEW guesses, guesses = DeviceTopics(list, v)
  PROVE  /\ \E n \in Nat : DOMAIN guesses = 1..n
         /\ 1 \in DOMAIN guesses /\ guesses[1] = [list[1] EXCEPT ![i] = v[1]]
<1>1. PICK n : n = Len(list) /\ n \in Nat /\ 1 \in 1..n /\ DOMAIN list = 1..n /\ \A k \in 1..n : list[k] \in AllTopics
  OBVIOUS
<1>2. PICK w : w = v[1]
  OBVIOUS
<1>3. PICK A : A = [k \in DOMAIN list |-> Replaced(list[k], Rank(list[k], DifferAt(list, list[k]), w), w)]
  OBVIOUS
<1>4. PICK B : B = [k \in DOMAIN list |-> Replaced(list[k], Rank(list[k], LookLike(list[k], w), w), w)]
  OBVIOUS
<1>5. guesses = InsertionOrder(FlattenSeq(A \o B))
  BY <1>2, <1>3, <1>4 DEF DeviceTopics
<1>6. ASSUME NEW k \in 1..n, NEW at \in SUBSET DOMAIN list[k]
      PROVE  IsList(Replaced(list[k], Rank(list[k], at, w), w))
  <2>1. list[k] \in Seq(ToSet(list[k])) /\ Len(list[k]) \in Nat
    BY <1>1, TopicsAreLong
  <2>2. DOMAIN list[k] = 1..Len(list[k])
    BY <2>1
  <2> QED
    BY <2>1, <2>2, ReplacedIs
<1>7. \A k \in 1..n : IsList(A[k]) /\ IsList(B[k])
  <2>1. \A k \in 1..n : DifferAt(list, list[k]) \in SUBSET DOMAIN list[k]
    BY DEF DifferAt
  <2>2. \A k \in 1..n : LookLike(list[k], w) \in SUBSET DOMAIN list[k]
    BY DEF LookLike
  <2> QED
    BY <1>1, <1>3, <1>4, <1>6, <2>1, <2>2
<1> DEFINE device == [list[1] EXCEPT ![i] = w]
<1>8. A[1] = <<device>>
  <2>1. Rank(list[1], {i}, w) = <<i>>
    BY <1>2, RankOfOne
  <2>2. A[1] = Replaced(list[1], <<i>>, w)
    BY <1>1, <1>3, <2>1
  <2> QED
    BY <2>2 DEF Replaced
<1>9. PICK U : U = {A[k] : k \in 1..n} \cup {B[k] : k \in 1..n}
  OBVIOUS
<1>10. A \in Seq(U) /\ B \in Seq(U) /\ Len(A) = n /\ Len(B) = n
  <2>1. A \in [1..n -> U] /\ B \in [1..n -> U]
    BY <1>1, <1>3, <1>4, <1>9
  <2>2. \A f \in [1..n -> U] : f \in Seq(U) /\ Len(f) = n
    BY <1>1
  <2> QED
    BY <2>1, <2>2
<1>11. PICK lists : lists = A \o B
  OBVIOUS
<1>12. /\ lists \in Seq(U) /\ Len(lists) = n + n
       /\ \A k \in 1..n : lists[k] = A[k] /\ lists[n + k] = B[k]
  <2>1. /\ A \o B \in Seq(U) /\ Len(A \o B) = Len(A) + Len(B)
        /\ \A k \in 1..Len(A) : (A \o B)[k] = A[k]
        /\ \A k \in 1..Len(B) : (A \o B)[Len(A) + k] = B[k]
    <3>1. A \in Seq(U) /\ B \in Seq(U)
      BY <1>10
    <3> QED
      BY ONLY <3>1, ConcatIs
  <2> QED
    BY <1>10, <1>11, <2>1
<1>13. \A k \in DOMAIN lists : IsList(lists[k])
  <2>1. ASSUME NEW k \in 1..(n + n)
        PROVE  k \in 1..n \/ (k - n \in 1..n /\ n + (k - n) = k)
    BY <1>1
  <2> QED
    BY <1>7, <1>12, <2>1
<1> HIDE DEF device
<1>14. lists[1] = <<device>>
  BY <1>1, <1>8, <1>12
<1>15. lists # <<>>
  BY <1>1, <1>12
<1>16. PICK whole : whole = FlattenSeq(lists)
  OBVIOUS
<1>17. PICK m \in Nat : DOMAIN whole = 1..m /\ 1 \in 1..m /\ whole[1] = device
  BY <1>12, <1>13, <1>14, <1>15, <1>16, FirstOfAll
<1>18. PICK kept : kept = {k \in DOMAIN whole : \A j \in 1..(k - 1) : whole[j] # whole[k]}
  OBVIOUS
<1>19. kept \in SUBSET (1..m) /\ 1 \in kept
  BY <1>17, <1>18
<1>20. guesses = ElementsAt(whole, kept)
  BY <1>5, <1>11, <1>16, <1>18 DEF InsertionOrder
<1>21. PICK c : c \in Nat /\ DOMAIN guesses = 1..c
  <2>1. PICK c, at : c \in Nat /\ ReadsAt(whole, kept, c, at, guesses)
    BY <1>19, <1>20, ElementsInOrder
  <2> QED
    BY <2>1 DEF ReadsAt
<1>22. 1 \in DOMAIN guesses /\ guesses[1] = whole[1]
  BY <1>19, <1>20, FirstKept
<1> QED
  BY <1>2, <1>17, <1>21, <1>22 DEF device

(* If the first guess is known as it is and not compared yet, it is taken. *)
LEMMA FirstIsPicked ==
  ASSUME NEW n \in Nat, NEW guesses, DOMAIN guesses = 1..n, 1 \in 1..n, NEW exact, NEW loose,
         exact[guesses[1]] = guesses[1], guesses[1] # NoTopic,
         NEW compared, ~Contains(compared, guesses[1])
  PROVE  PickTopic(guesses, <<exact, loose>>, compared) = guesses[1]
<1> DEFINE found(l) == LET m == [i \in DOMAIN guesses |-> l[guesses[i]]]
                       IN  ElementsAt(m, {i \in DOMAIN m : m[i] # NoTopic})
<1>1. PICK m : m = [i \in DOMAIN guesses |-> exact[guesses[i]]]
  OBVIOUS
<1>2. PICK kept : kept = {i \in DOMAIN m : m[i] # NoTopic}
  OBVIOUS
<1>3. kept \in SUBSET (1..n) /\ 1 \in kept /\ m[1] = guesses[1]
  BY <1>1, <1>2
<1>4. PICK part : part = ElementsAt(m, kept)
  OBVIOUS
<1>5. part # <<>> /\ 1 \in DOMAIN part /\ part[1] = guesses[1]
  BY <1>3, <1>4, FirstKept
<1>6. PICK c : c \in Nat /\ DOMAIN part = 1..c
  <2>1. PICK c, at : c \in Nat /\ ReadsAt(m, kept, c, at, part)
    BY <1>3, <1>4, ElementsInOrder
  <2> QED
    BY <2>1 DEF ReadsAt
<1>7. found(exact) = part
  BY <1>1, <1>2, <1>4
<1> HIDE DEF found
<1>8. PICK hits : hits = {k \in DOMAIN <<exact, loose>> : found(<<exact, loose>>[k]) # <<>>}
  OBVIOUS
<1>9. 1 \in hits /\ hits \subseteq 1..2
  BY <1>5, <1>7, <1>8
<1>10. Min(hits) = 1
  <2>1. hits \in SUBSET Nat /\ hits # {}
    BY <1>9
  <2>2. Min(hits) \in hits /\ \A k \in hits : Min(hits) <= k
    BY <2>1, LeastIn
  <2>3. Min(hits) \in 1..2 /\ Min(hits) <= 1
    BY <1>9, <2>2
  <2> QED
    BY ONLY <2>3
<1>11. PICK fresh : fresh = {i \in DOMAIN part : ~Contains(compared, part[i])}
  OBVIOUS
<1>12. fresh \in SUBSET (1..c) /\ 1 \in fresh
  BY <1>5, <1>6, <1>11
<1>13. PICK new : new = ElementsAt(part, fresh)
  OBVIOUS
<1>14. new # <<>> /\ new[1] = guesses[1]
  BY <1>5, <1>6, <1>12, <1>13, FirstKept
<1>15. found(<<exact, loose>>[Min(hits)]) = part
  BY <1>7, <1>10
<1>16. PickTopic(guesses, <<exact, loose>>, compared)
         = IF hits = {} THEN guesses[1] ELSE IF new # <<>> THEN new[1] ELSE part[1]
  BY <1>8, <1>11, <1>13, <1>15 DEF PickTopic, found
<1> QED
  BY <1>9, <1>14, <1>16

LEMMA DevicePicked ==
  ASSUME CInv, IsInjective(names), Len(names) > 1, NEW v \in Typed, Len(v) = 1,
         NEW i \in DOMAIN names[1], OneApart(i),
         NEW device, device = [names[1] EXCEPT ![i] = v[1]], device \in known, ~Contains(names, device),
         NEW choice
  PROVE  Picked(DeviceTopics(names, v), choice) = device
<1>1. names \in Seq(AllTopics) /\ known \subseteq AllTopics
  BY DEF CInv, ListsInv, AllTopics
<1>2. /\ names # <<>> /\ 1 \in DOMAIN names /\ names[1] \in AllTopics
  BY <1>1
<1>3. names[1] \in Seq(ToSet(names[1])) /\ names[1][i] \in Seq(ToSet(names[1][i]))
  BY <1>2, TopicsAssumption DEF IsTopic
<1>4. i \in Int
  <2>1. DOMAIN names[1] = 1..Len(names[1]) /\ Len(names[1]) \in Nat
    BY <1>3
  <2> QED
    BY <2>1
<1>5. v \in Seq(ToSet(v)) /\ v[1] \in Seq(ToSet(v[1]))
  <2>1. IsTopic(v)
    BY TopicsAssumption
  <2>2. v \in Seq(ToSet(v))
    BY <2>1 DEF IsTopic
  <2>3. 1 \in DOMAIN v
    BY <2>2
  <2> QED
    BY <2>1, <2>2, <2>3 DEF IsTopic
<1>6. DifferAt(names, names[1]) = {i}
  <2>1. \A k \in DOMAIN names : /\ Len(names[k]) = Len(names[1])
                                /\ \A j \in DOMAIN names[1] : j # i => names[k][j] = names[1][j]
    BY DEF OneApart
  <2> QED
    BY <1>1, <2>1, DifferAtOne
<1>7. PICK guesses : guesses = DeviceTopics(names, v)
  OBVIOUS
<1>8. /\ \E n \in Nat : DOMAIN guesses = 1..n
      /\ 1 \in DOMAIN guesses /\ guesses[1] = [names[1] EXCEPT ![i] = v[1]]
  <2>1. PICK S : S = ToSet(names[1][i]) /\ names[1][i] \in Seq(S)
    BY <1>3
  <2>2. PICK T : T = ToSet(v[1]) /\ v[1] \in Seq(T)
    BY <1>5
  <2>3. names \in Seq(AllTopics) /\ names # <<>>
    BY <1>1, <1>2
  <2> QED
    BY ONLY Len(v) = 1, <1>4, <1>6, <1>7, <2>1, <2>2, <2>3, FirstGuess
<1>9. PICK n \in Nat : DOMAIN guesses = 1..n /\ 1 \in 1..n
  BY <1>8
<1>10. guesses[1] = device
  BY <1>8
<1>11. Exact(guesses)[device] = device
  <2>1. device \in ToSet(guesses)
    BY <1>8, <1>10 DEF ToSet
  <2> QED
    BY <2>1 DEF Exact
<1>12. device # NoTopic
  BY <1>1, TopicsAssumption
<1>13. Picked(guesses, choice) = PickTopic(guesses, <<Exact(guesses), Loose(guesses, choice)>>, names)
  BY DEF Picked
<1>14. PICK exact, loose : exact = Exact(guesses) /\ loose = Loose(guesses, choice)
  OBVIOUS
<1>15. PickTopic(guesses, <<exact, loose>>, names) = guesses[1]
  BY ONLY ~Contains(names, device), <1>9, <1>10, <1>11, <1>12, <1>14, FirstIsPicked
<1> QED
  BY <1>7, <1>10, <1>13, <1>14, <1>15

LEMMA AppendLast ==
  ASSUME NEW S, NEW s \in Seq(S), NEW x \in S
  PROVE  Last(Append(s, x)) = x
BY DEF Last

LEMMA DeviceStep ==
  ASSUME CInv, Apart, Len(names) > 1, NEW v \in Typed, Len(v) = 1, AddDevice(v),
         NEW i \in DOMAIN names[1], OneApart(i),
         NEW device, device = [names[1] EXCEPT ![i] = v[1]], device \in known, ~Contains(names, device)
  PROVE  Last(names') = device
<1>1. \A choice : Picked(DeviceTopics(names, v), choice) = device
  BY DevicePicked DEF Apart
<1>2. names' = Append(names, device)
  BY <1>1 DEF AddDevice, SetCompare
<1>3. names \in Seq(AllTopics) /\ device \in AllTopics
  BY DEF CInv, ListsInv, AllTopics
<1> QED
  BY <1>2, <1>3, AppendLast

(***************************************************************************)
(* What is typed for the segment in which the compared topics differ adds  *)
(* the topic of that device if the broker has it, for any topics.          *)
(***************************************************************************)
THEOREM DeviceCorrect == Spec => AddsTheDevice
<1>1. CInv /\ Apart /\ [Next]_vars =>
        [Len(names) > 1 /\ Len(names') > Len(names) =>
           \A v \in Typed : Len(v) = 1 /\ AddDevice(v) =>
             \A i \in DOMAIN names[1] :
               LET device == [names[1] EXCEPT ![i] = v[1]]
               IN  OneApart(i) /\ device \in known /\ ~Contains(names, device) => Last(names') = device]_vars
  <2> SUFFICES ASSUME CInv, Apart, Len(names) > 1, NEW v \in Typed, Len(v) = 1, AddDevice(v),
                      NEW i \in DOMAIN names[1],
                      OneApart(i), [names[1] EXCEPT ![i] = v[1]] \in known,
                      ~Contains(names, [names[1] EXCEPT ![i] = v[1]])
               PROVE  Last(names') = [names[1] EXCEPT ![i] = v[1]]
    OBVIOUS
  <2> QED
    BY DeviceStep
<1> QED
  BY <1>1, NamesApart, PTL DEF Spec, AddsTheDevice

-----------------------------------------------------------------------------
(***************************************************************************)
(* Reading a text piece by piece.                                          *)
(***************************************************************************)
\* The piece stands in the text after the first o characters.
StandsAt(text, o, piece) ==
  /\ o \in Nat /\ Len(piece) \in Nat /\ o + Len(piece) <= Len(text)
  /\ \A k \in 1..Len(piece) : text[o + k] = piece[k]

LEMMA FlattenAll ==
  ASSUME NEW S, NEW lists \in Seq(Seq(S))
  PROVE  /\ FlattenSeq(lists) \in Seq(S)
         /\ \E off : Lays(lists, Len(lists), FlattenSeq(lists), off)
<1>1. CASE lists # <<>>
  BY <1>1, FlattenLays
<1>2. CASE lists = <<>>
  <2>1. FlattenSeq(lists) = <<>>
    BY <1>2 DEF FlattenSeq
  <2>2. PICK off : off = [i \in 1..1 |-> 0]
    OBVIOUS
  <2>3. off[1] = 0 /\ off[0 + 1] = 0 /\ Len(lists) = 0 /\ Len(<<>>) = 0
    BY <1>2, <2>2
  <2>4. Lays(lists, Len(lists), <<>>, off)
    BY <2>3 DEF Lays
  <2> QED
    BY <2>1, <2>4
<1> QED
  BY <1>1, <1>2

LEMMA PieceStands ==
  ASSUME NEW S, NEW lists \in Seq(Seq(S)), NEW whole \in Seq(S), NEW off,
         Lays(lists, Len(lists), whole, off), NEW i \in 1..Len(lists)
  PROVE  StandsAt(whole, off[i], lists[i]) /\ off[i + 1] = off[i] + Len(lists[i])
<1>1. lists[i] \in Seq(S) /\ Len(lists[i]) \in Nat
  OBVIOUS
<1>2. /\ off[i] \in Nat /\ off[i + 1] = off[i] + Len(lists[i]) /\ off[i + 1] <= Len(whole)
      /\ \A k \in 1..Len(lists[i]) : whole[off[i] + k] = lists[i][k]
  BY DEF Lays
<1> QED
  BY <1>1, <1>2 DEF StandsAt

\* Where each of the pieces begins, less one.
RunsOn(n, pieces, off) == \A i \in 1..n : off[i + 1] = off[i] + Len(pieces[i])

\* Pieces that begin at the same place are the same.
Matching(n, a, b, ao, bo) == \A i \in 1..n : ao[i] = bo[i] => a[i] = b[i]

(* Two readings that agree on every piece that they find at the same place  *)
(* agree as far as the shorter one goes.                                    *)
LEMMA SamePieces ==
  ASSUME NEW n \in Nat, NEW m \in Nat, n <= m, NEW a, NEW b, NEW ao, NEW bo, ao[1] = bo[1],
         RunsOn(n, a, ao), RunsOn(m, b, bo), Matching(n, a, b, ao, bo)
  PROVE  ao[n + 1] = bo[n + 1] /\ \A i \in 1..n : ao[i] = bo[i] /\ a[i] = b[i]
<1>1. PICK G : G = {i \in 1..(n + 1) : ao[i] = bo[i]}
  OBVIOUS
<1>2. 1 \in G
  BY <1>1
<1>3. ASSUME NEW i \in 1..((n + 1) - 1), i \in G
      PROVE  i + 1 \in G
  <2>1. i \in 1..n /\ i \in 1..m /\ i + 1 \in 1..(n + 1)
    OBVIOUS
  <2>2. ao[i] = bo[i] /\ a[i] = b[i]
    BY <1>1, <1>3, <2>1 DEF Matching
  <2>3. ao[i + 1] = bo[i + 1]
    BY <2>1, <2>2 DEF RunsOn
  <2> QED
    BY <1>1, <2>1, <2>3
<1>4. \A i \in 1..(n + 1) : i \in G
  <2>1. n + 1 \in Nat /\ \A i \in 1..((n + 1) - 1) : i \in G => i + 1 \in G
    BY <1>3
  <2> QED
    BY ONLY <1>2, <2>1, Upwards
<1>5. \A i \in 1..n : i \in 1..(n + 1)
  OBVIOUS
<1>6. n + 1 \in 1..(n + 1)
  OBVIOUS
<1> QED
  BY <1>1, <1>4, <1>5, <1>6 DEF Matching

(***************************************************************************)
(* A key between its quotes.                                               *)
(***************************************************************************)
Special == {"\"", "\\"}

Escaped(c) == IF c \in Special THEN <<"\\", c>> ELSE <<c>>

LEMMA EscapedIs ==
  ASSUME NEW c
  PROVE  /\ Len(Escaped(c)) \in 1..2 /\ Escaped(c)[1] # "\""
         /\ Escaped(c) \in Seq({c, "\\"})
         /\ c \in Special => Len(Escaped(c)) = 2 /\ Escaped(c)[1] = "\\" /\ Escaped(c)[2] = c
         /\ c \notin Special => Len(Escaped(c)) = 1 /\ Escaped(c)[1] = c /\ c # "\\"
<1>1. CASE c \in Special
  <2>1. Escaped(c) = <<"\\", c>>
    BY <1>1 DEF Escaped
  <2> QED
    BY <1>1, <2>1
<1>2. CASE c \notin Special
  <2>1. Escaped(c) = <<c>>
    BY <1>2 DEF Escaped
  <2>2. c # "\"" /\ c # "\\"
    BY <1>2 DEF Special
  <2>3. Escaped(c) \in Seq({c, "\\"}) /\ Len(Escaped(c)) = 1 /\ Escaped(c)[1] = c
    BY <2>1
  <2>4. Len(Escaped(c)) \in 1..2
    BY <2>3
  <2>5. Escaped(c)[1] # "\""
    BY <2>2, <2>3
  <2> QED
    BY ONLY <1>2, <2>2, <2>3, <2>4, <2>5
<1> QED
  BY <1>1, <1>2

LEMMA EscapedTells ==
  ASSUME NEW text, NEW o, NEW c, NEW d, StandsAt(text, o, Escaped(c)), StandsAt(text, o, Escaped(d))
  PROVE  c = d
<1>1. /\ \A k \in 1..Len(Escaped(c)) : text[o + k] = Escaped(c)[k]
      /\ \A k \in 1..Len(Escaped(d)) : text[o + k] = Escaped(d)[k]
  BY DEF StandsAt
<1>2. text[o + 1] = Escaped(c)[1] /\ text[o + 1] = Escaped(d)[1]
  <2>1. 1 \in 1..Len(Escaped(c)) /\ 1 \in 1..Len(Escaped(d))
    <3>1. Len(Escaped(c)) \in 1..2 /\ Len(Escaped(d)) \in 1..2
      BY EscapedIs
    <3> QED
      BY ONLY <3>1
  <2> QED
    BY <1>1, <2>1
<1>3. CASE c \in Special
  <2>1. d \in Special
    BY <1>2, <1>3, EscapedIs
  <2>2. text[o + 2] = c /\ text[o + 2] = d
    BY <1>1, <1>3, <2>1, EscapedIs
  <2> QED
    BY <2>2
<1>4. CASE c \notin Special
  <2>1. d \notin Special
    BY <1>2, <1>4, EscapedIs
  <2> QED
    BY <1>2, <1>4, <2>1, EscapedIs
<1> QED
  BY <1>3, <1>4

(* A text between two characters. *)
LEMMA Between ==
  ASSUME NEW S, NEW key \in Seq(S), NEW a \in S, NEW b \in S, NEW p, p = (<<a>> \o key) \o <<b>>
  PROVE  /\ p \in Seq(S) /\ Len(p) = Len(key) + 2 /\ Len(key) \in Nat
         /\ p[1] = a /\ p[Len(key) + 2] = b
         /\ \A k \in 1..Len(key) : p[1 + k] = key[k]
<1>1. <<a>> \in Seq(S) /\ <<b>> \in Seq(S) /\ Len(<<a>>) = 1 /\ Len(<<b>>) = 1 /\ <<a>>[1] = a /\ <<b>>[1] = b
  OBVIOUS
<1>2. PICK q : q = <<a>> \o key
  OBVIOUS
<1>3. /\ q \in Seq(S) /\ Len(q) = Len(<<a>>) + Len(key)
      /\ \A k \in 1..Len(<<a>>) : q[k] = <<a>>[k]
      /\ \A k \in 1..Len(key) : q[Len(<<a>>) + k] = key[k]
  <2>1. <<a>> \in Seq(S)
    BY <1>1
  <2> QED
    BY ONLY key \in Seq(S), <1>2, <2>1, ConcatIs
<1>4. /\ p \in Seq(S) /\ Len(p) = Len(q) + Len(<<b>>)
      /\ \A k \in 1..Len(q) : p[k] = q[k]
      /\ \A k \in 1..Len(<<b>>) : p[Len(q) + k] = <<b>>[k]
  <2>1. <<b>> \in Seq(S) /\ q \in Seq(S) /\ p = q \o <<b>>
    BY <1>1, <1>2, <1>3
  <2> QED
    BY ONLY <2>1, ConcatIs
<1>5. PICK n : n = Len(key) /\ n \in Nat
  OBVIOUS
<1>6. Len(q) = 1 + n /\ Len(p) = n + 2 /\ q[1] = a /\ (\A k \in 1..n : q[1 + k] = key[k])
  BY <1>1, <1>3, <1>4, <1>5
<1>7. p[1] = a
  <2>1. 1 \in 1..Len(q)
    BY <1>5, <1>6
  <2> QED
    BY <1>4, <1>6, <2>1
<1>8. p[n + 2] = b
  <2>1. 1 \in 1..Len(<<b>>) /\ Len(q) + 1 = n + 2
    BY <1>1, <1>5, <1>6
  <2> QED
    BY <1>1, <1>4, <2>1
<1>9. ASSUME NEW k \in 1..n
      PROVE  p[1 + k] = key[k]
  <2>1. 1 + k \in 1..Len(q)
    BY <1>5, <1>6
  <2> QED
    BY <1>4, <1>6, <2>1
<1> QED
  BY <1>4, <1>5, <1>6, <1>7, <1>8, <1>9

Inner(key) == [i \in DOMAIN key |-> Escaped(key[i])]

LEMMA QuotedIs ==
  ASSUME NEW C, NEW key \in Seq(C), NEW S, S = C \cup Special
  PROVE  /\ Inner(key) \in Seq(Seq(S)) /\ Len(Inner(key)) = Len(key)
         /\ Quoted(key) = (<<"\"">> \o FlattenSeq(Inner(key))) \o <<"\"">>
<1>1. PICK n : n = Len(key) /\ n \in Nat /\ DOMAIN key = 1..n
  OBVIOUS
<1>2. \A i \in 1..n : Escaped(key[i]) \in Seq(S)
  <2>1. ASSUME NEW c \in S
        PROVE  Escaped(c) \in Seq(S)
    <3>1. "\\" \in S
      BY DEF Special
    <3>2. <<"\\", c>> \in Seq(S) /\ <<c>> \in Seq(S)
      BY <3>1
    <3> QED
      BY <3>2 DEF Escaped
  <2> QED
    BY <1>1, <2>1
<1>3. Inner(key) \in [1..n -> Seq(S)]
  BY <1>1, <1>2 DEF Inner
<1>4. \A f \in [1..n -> Seq(S)] : f \in Seq(Seq(S)) /\ Len(f) = n
  BY <1>1
<1>5. Quoted(key) = (<<"\"">> \o FlattenSeq(Inner(key))) \o <<"\"">>
  BY DEF Quoted, Inner, Escaped, Special
<1> QED
  BY <1>1, <1>3, <1>4, <1>5

\* The keys' characters are read one after the other, up to the quote that ends them.
ReadsKey(text, o, key, off) ==
  /\ off[1] = o + 1
  /\ \A i \in 1..Len(key) : /\ StandsAt(text, off[i], Escaped(key[i]))
                            /\ off[i + 1] = off[i] + Len(Escaped(key[i]))
  /\ text[off[Len(key) + 1] + 1] = "\""

LEMMA PartStands ==
  ASSUME NEW text, NEW o \in Nat, NEW whole, StandsAt(text, o, whole),
         NEW d \in Nat, NEW part, Len(part) \in Nat, d + Len(part) <= Len(whole), Len(text) \in Nat,
         \A k \in 1..Len(part) : whole[d + k] = part[k]
  PROVE  StandsAt(text, o + d, part)
<1>1. /\ Len(whole) \in Nat /\ o + Len(whole) <= Len(text)
      /\ \A k \in 1..Len(whole) : text[o + k] = whole[k]
  BY DEF StandsAt
<1>2. (o + d) + Len(part) <= Len(text) /\ o + d \in Nat
  BY <1>1
<1>3. ASSUME NEW k \in 1..Len(part)
      PROVE  text[(o + d) + k] = part[k]
  <2>1. d + k \in 1..Len(whole) /\ o + (d + k) = (o + d) + k
    BY <1>1
  <2> QED
    BY <1>1, <2>1
<1> QED
  BY <1>2, <1>3 DEF StandsAt

LEMMA QuotedReads ==
  ASSUME NEW C, NEW key \in Seq(C), NEW text, Len(text) \in Nat, NEW o \in Nat, StandsAt(text, o, Quoted(key))
  PROVE  \E off : ReadsKey(text, o, key, off)
<1>1. PICK S : S = C \cup Special
  OBVIOUS
<1>2. PICK lists : lists = Inner(key) /\ lists \in Seq(Seq(S)) /\ Len(lists) = Len(key)
  BY <1>1, QuotedIs
<1>3. PICK flat : flat = FlattenSeq(lists) /\ flat \in Seq(S)
  BY <1>2, FlattenAll
<1>4. PICK at : Lays(lists, Len(lists), flat, at)
  BY <1>2, <1>3, FlattenAll
<1>5. PICK p : p = Quoted(key) /\ p = (<<"\"">> \o flat) \o <<"\"">>
  BY <1>1, <1>2, <1>3, QuotedIs
<1>6. PICK l : l = Len(flat) /\ l \in Nat
  BY <1>3
<1>7. "\"" \in S
  BY <1>1 DEF Special
<1>8. Len(p) = l + 2 /\ p[l + 2] = "\"" /\ \A k \in 1..l : p[1 + k] = flat[k]
  <2>1. flat \in Seq(S) /\ p = (<<"\"">> \o flat) \o <<"\"">>
    BY <1>3, <1>5
  <2>2. /\ Len(p) = Len(flat) + 2 /\ p[Len(flat) + 2] = "\""
        /\ \A k \in 1..Len(flat) : p[1 + k] = flat[k]
    <3>1. PICK mark : mark = "\"" /\ mark \in S
      BY <1>7
    <3>2. p = (<<mark>> \o flat) \o <<mark>>
      BY ONLY <2>1, <3>1
    <3>3. mark \in S /\ flat \in Seq(S)
      BY <2>1, <3>1
    <3>4. /\ Len(p) = Len(flat) + 2 /\ p[Len(flat) + 2] = mark
          /\ \A k \in 1..Len(flat) : p[1 + k] = flat[k]
      BY ONLY <3>2, <3>3, Between
    <3> QED
      BY ONLY <3>1, <3>4
  <2> QED
    BY ONLY <1>6, <2>2
<1>9. PICK n : n = Len(key) /\ n \in Nat /\ Len(lists) = n
  BY <1>2
<1>10. PICK off : off = [i \in 1..(n + 1) |-> (o + 1) + at[i]]
  OBVIOUS
<1>11. \A i \in 1..n : lists[i] = Escaped(key[i])
  BY <1>2, <1>9 DEF Inner
<1>12. StandsAt(text, o + 1, flat)
  <2>1. 1 + Len(flat) <= Len(p) /\ 1 \in Nat
    <3>1. l \in Nat /\ Len(p) = l + 2 /\ Len(flat) = l
      BY <1>6, <1>8
    <3> QED
      BY ONLY <3>1
  <2>2. \A k \in 1..Len(flat) : p[1 + k] = flat[k]
    BY <1>6, <1>8
  <2>3. StandsAt(text, o, p) /\ Len(flat) \in Nat
    BY <1>5, <1>6
  <2> QED
    BY ONLY o \in Nat, Len(text) \in Nat, <2>1, <2>2, <2>3, PartStands
<1>13. ASSUME NEW i \in 1..n
       PROVE  /\ StandsAt(text, off[i], Escaped(key[i]))
              /\ off[i + 1] = off[i] + Len(Escaped(key[i]))
  <2>1. StandsAt(flat, at[i], lists[i]) /\ at[i + 1] = at[i] + Len(lists[i])
    BY <1>2, <1>3, <1>4, <1>9, PieceStands
  <2>2. PICK e : e = Escaped(key[i]) /\ e = lists[i]
    BY <1>11
  <2>3. /\ at[i] \in Nat /\ Len(e) \in Nat /\ at[i] + Len(e) <= Len(flat)
        /\ \A k \in 1..Len(e) : flat[at[i] + k] = e[k]
    BY <2>1, <2>2 DEF StandsAt
  <2>4. StandsAt(text, (o + 1) + at[i], e)
    <3>1. o + 1 \in Nat
      OBVIOUS
    <3> QED
      BY ONLY Len(text) \in Nat, <1>12, <2>3, <3>1, PartStands
  <2>5. off[i] = (o + 1) + at[i] /\ off[i + 1] = (o + 1) + at[i + 1]
    BY <1>9, <1>10
  <2> QED
    BY <2>1, <2>2, <2>3, <2>4, <2>5
<1>14. text[off[n + 1] + 1] = "\""
  <2>1. at[n + 1] = l
    BY <1>4, <1>6, <1>9 DEF Lays
  <2>2. off[n + 1] = (o + 1) + l
    <3>1. n + 1 \in 1..(n + 1)
      BY <1>9
    <3>2. off[n + 1] = (o + 1) + at[n + 1]
      BY <1>10, <3>1
    <3> QED
      BY <2>1, <3>2
  <2>3. l + 2 \in 1..Len(p)
    <3>1. l \in Nat /\ Len(p) = l + 2
      BY <1>6, <1>8
    <3> QED
      BY ONLY <3>1
  <2>4. text[o + (l + 2)] = p[l + 2]
    BY <1>5, <2>3 DEF StandsAt
  <2>5. ((o + 1) + l) + 1 = o + (l + 2)
    BY <1>6
  <2> QED
    BY <1>8, <2>2, <2>4, <2>5
<1>15. off[1] = o + 1
  <2>1. at[1] = 0
    BY <1>4 DEF Lays
  <2> QED
    BY <1>9, <1>10, <2>1
<1>16. ReadsKey(text, o, key, off)
  BY <1>9, <1>13, <1>14, <1>15 DEF ReadsKey
<1> QED
  BY <1>16

LEMMA SameText ==
  ASSUME NEW S, NEW a \in Seq(S), NEW T, NEW b \in Seq(T), Len(a) = Len(b), \A k \in 1..Len(a) : a[k] = b[k]
  PROVE  a = b
<1>1. a = [k \in 1..Len(a) |-> a[k]] /\ b = [k \in 1..Len(a) |-> b[k]]
  OBVIOUS
<1> QED
  BY <1>1

LEMMA ShorterKey ==
  ASSUME NEW C, NEW key \in Seq(C), NEW other \in Seq(C), Len(key) <= Len(other),
         NEW text, NEW o, NEW ko, NEW oo, ReadsKey(text, o, key, ko), ReadsKey(text, o, other, oo)
  PROVE  key = other
<1>1. PICK n : n = Len(key) /\ n \in Nat
  OBVIOUS
<1>2. PICK m : m = Len(other) /\ m \in Nat /\ n <= m
  BY <1>1
<1>3. /\ ko[1] = oo[1]
      /\ \A i \in 1..n : StandsAt(text, ko[i], Escaped(key[i])) /\ ko[i + 1] = ko[i] + Len(Escaped(key[i]))
      /\ \A i \in 1..m : StandsAt(text, oo[i], Escaped(other[i])) /\ oo[i + 1] = oo[i] + Len(Escaped(other[i]))
      /\ text[ko[n + 1] + 1] = "\""
  BY <1>1, <1>2 DEF ReadsKey
<1>4. PICK a, b : a = [i \in 1..n |-> Escaped(key[i])] /\ b = [i \in 1..m |-> Escaped(other[i])]
  OBVIOUS
<1>5. \A i \in 1..n : i \in 1..m
  BY <1>1, <1>2
<1>6. \A i \in 1..n : ko[i] = oo[i] => key[i] = other[i]
  BY <1>3, <1>5, EscapedTells
<1>7. ko[n + 1] = oo[n + 1] /\ \A i \in 1..n : ko[i] = oo[i] /\ a[i] = b[i]
  <2>1. Matching(n, a, b, ko, oo)
    BY <1>4, <1>5, <1>6 DEF Matching
  <2>2. RunsOn(n, a, ko) /\ RunsOn(m, b, oo)
    BY <1>3, <1>4 DEF RunsOn
  <2>3. ko[1] = oo[1] /\ n \in Nat /\ m \in Nat /\ n <= m
    BY <1>1, <1>2, <1>3
  <2> QED
    BY ONLY <2>1, <2>2, <2>3, SamePieces
<1>8. n = m
  <2>1. SUFFICES ASSUME n < m
                 PROVE  FALSE
    BY <1>1, <1>2
  <2>2. n + 1 \in 1..m
    BY <1>1, <1>2, <2>1
  <2>3. PICK e : e = Escaped(other[n + 1]) /\ StandsAt(text, ko[n + 1], e)
    BY <1>3, <1>7, <2>2
  <2>4. e[1] # "\""
    BY <2>3, EscapedIs
  <2>5. 1 \in 1..Len(e)
    <3>1. Len(e) \in 1..2
      BY <2>3, EscapedIs
    <3>2. \A l \in 1..2 : 1 \in 1..l
      OBVIOUS
    <3> QED
      BY <3>1, <3>2
  <2>6. text[ko[n + 1] + 1] = e[1]
    BY <2>3, <2>5 DEF StandsAt
  <2> QED
    BY <1>3, <2>4, <2>6
<1>9. \A i \in 1..n : key[i] = other[i]
  BY <1>6, <1>7
<1> QED
  BY <1>1, <1>2, <1>8, <1>9, SameText

LEMMA QuotedTells ==
  ASSUME NEW C, NEW key \in Seq(C), NEW other \in Seq(C), NEW text, Len(text) \in Nat, NEW o \in Nat,
         StandsAt(text, o, Quoted(key)), StandsAt(text, o, Quoted(other))
  PROVE  key = other
<1>1. PICK ko : ReadsKey(text, o, key, ko)
  BY QuotedReads
<1>2. PICK oo : ReadsKey(text, o, other, oo)
  BY QuotedReads
<1>3. Len(key) \in Nat /\ Len(other) \in Nat
  OBVIOUS
<1>4. CASE Len(key) <= Len(other)
  BY <1>1, <1>2, <1>4, ShorterKey
<1>5. CASE Len(other) <= Len(key)
  BY <1>1, <1>2, <1>5, ShorterKey
<1> QED
  BY <1>3, <1>4, <1>5

(***************************************************************************)
(* The steps of a path, one by one.                                        *)
(***************************************************************************)
Members  == [index : {FALSE}, key : Keys]
Elements == [index : {TRUE}, key : Indexes]

Chars == {".", "[", "]", "\"", "\\"} \cup UNION {ToSet(k) : k \in Keys}

IsPlain(s, top) ==
  /\ ~s.index /\ s.key # <<>> /\ ToSet(s.key) \cap {".", "[", "]", "\""} = {}
  /\ top => s.key[1] # "("

Lead(top) == IF top THEN 0 ELSE 1

LEMMA KeysAre ==
  ASSUME NEW s \in Members \cup Elements
  PROVE  s.key \in Seq(Chars) /\ Len(s.key) \in Nat /\ DOMAIN s.key = 1..Len(s.key)
<1>1. s.key \in Keys
  BY DEF Members, Elements, Indexes
<1>2. PICK k : k = s.key /\ k \in Keys /\ k \in Seq(ToSet(k))
  BY <1>1, TableAssumption
<1>3. ToSet(k) \subseteq Chars
  BY <1>2 DEF Chars
<1>4. k \in Seq(Chars)
  <2>1. \A i \in 1..Len(k) : k[i] \in Chars
    BY <1>2, <1>3
  <2>2. Len(k) \in Nat /\ k = [i \in 1..Len(k) |-> k[i]]
    BY <1>2
  <2>3. k \in [1..Len(k) -> Chars]
    BY <2>1, <2>2
  <2> QED
    BY <2>2, <2>3
<1> QED
  BY <1>2, <1>4

LEMMA SyntaxIs ==
  "." \in Chars /\ "[" \in Chars /\ "]" \in Chars /\ "\"" \in Chars /\ "\\" \in Chars /\ Chars \cup Special = Chars
<1>1. "." \in Chars /\ "[" \in Chars /\ "]" \in Chars
  BY DEF Chars
<1>2. "\"" \in Chars /\ "\\" \in Chars
  BY DEF Chars
<1>3. Special \subseteq Chars
  BY <1>2 DEF Special
<1>4. Chars \cup Special = Chars
  BY <1>3
<1> QED
  BY <1>1, <1>2, <1>4

(* An element of an array. *)
LEMMA ElementStep ==
  ASSUME NEW s \in Members \cup Elements, s.index, NEW top, NEW p, p = Step(s, top)
  PROVE  /\ p \in Seq(Chars) /\ Len(p) = Len(s.key) + 2 /\ s.key # <<>>
         /\ p[1] = "[" /\ p[Len(s.key) + 2] = "]"
         /\ \A k \in 1..Len(s.key) : p[1 + k] = s.key[k] /\ s.key[k] \in Digits
<1>1. PICK key : key = s.key /\ key \in Seq(Chars) /\ DOMAIN key = 1..Len(key)
  BY KeysAre
<1>2. key \in Indexes
  BY <1>1 DEF Members, Elements
<1>3. key # <<>> /\ \A k \in 1..Len(key) : key[k] \in Digits
  BY <1>1, <1>2 DEF Indexes, ToSet
<1>4. p = (<<"[">> \o key) \o <<"]">>
  BY <1>1 DEF Step
<1>5. PICK open, close : open = "[" /\ close = "]" /\ open \in Chars /\ close \in Chars
  BY SyntaxIs
<1>6. p = (<<open>> \o key) \o <<close>> /\ key \in Seq(Chars)
  BY <1>1, <1>4, <1>5
<1>7. /\ p \in Seq(Chars) /\ Len(p) = Len(key) + 2
      /\ p[1] = open /\ p[Len(key) + 2] = close
      /\ \A k \in 1..Len(key) : p[1 + k] = key[k]
  BY ONLY <1>5, <1>6, Between
<1> QED
  BY <1>1, <1>3, <1>5, <1>7

\* How a member is written whose key is written as it is.
LooksPlain(key, top, p) ==
  /\ p \in Seq(Chars) /\ Len(p) = Lead(top) + Len(key) /\ key # <<>>
  /\ ~top => p[1] = "."
  /\ \A k \in 1..Len(key) : p[Lead(top) + k] = key[k] /\ key[k] \notin {".", "[", "]", "\""}

LEMMA PlainStep ==
  ASSUME NEW s \in Members \cup Elements, NEW top \in BOOLEAN, IsPlain(s, top), NEW p, p = Step(s, top)
  PROVE  LooksPlain(s.key, top, p)
<1>1. PICK key : key = s.key /\ key \in Seq(Chars) /\ DOMAIN key = 1..Len(key)
  BY KeysAre
<1>2. key # <<>> /\ \A k \in 1..Len(key) : key[k] \notin {".", "[", "]", "\""}
  BY <1>1 DEF IsPlain, ToSet
<1>3. p = (IF top THEN <<>> ELSE <<".">>) \o key
  BY <1>1 DEF IsPlain, Step
<1>4. CASE top
  <2>1. p = key /\ Lead(top) = 0
    BY <1>1, <1>3, <1>4 DEF Lead
  <2>2. \A k \in 1..Len(key) : Lead(top) + k = k
    BY <2>1
  <2>3. Lead(top) + Len(key) = Len(key)
    BY <1>1, <2>1
  <2>4. /\ p \in Seq(Chars) /\ Len(p) = Lead(top) + Len(key)
        /\ \A k \in 1..Len(key) : p[Lead(top) + k] = key[k]
    BY <1>1, <2>1, <2>2, <2>3
  <2> QED
    BY <1>1, <1>2, <1>4, <2>4 DEF LooksPlain
<1>5. CASE ~top
  <2>1. PICK dot : dot = "." /\ dot \in Chars
    BY SyntaxIs
  <2>2. p = <<dot>> \o key /\ <<dot>> \in Seq(Chars) /\ key \in Seq(Chars) /\ Len(<<dot>>) = 1
    BY <1>1, <1>3, <1>5, <2>1
  <2>3. /\ p \in Seq(Chars) /\ Len(p) = Len(<<dot>>) + Len(key)
        /\ \A k \in 1..Len(<<dot>>) : p[k] = <<dot>>[k]
        /\ \A k \in 1..Len(key) : p[Len(<<dot>>) + k] = key[k]
    BY ONLY <2>2, ConcatIs
  <2>4. p[1] = dot
    BY <2>2, <2>3
  <2>5. Lead(top) = 1
    BY <1>5 DEF Lead
  <2> QED
    BY <1>1, <1>2, <1>5, <2>1, <2>2, <2>3, <2>4, <2>5 DEF LooksPlain
<1> QED
  BY <1>4, <1>5

\* How a member is written whose key is quoted.
LooksQuoted(q, p) ==
  /\ p \in Seq(Chars) /\ q \in Seq(Chars) /\ Len(p) = Len(q) + 2
  /\ p[1] = "[" /\ p[2] = "\"" /\ Len(p) >= 2
  /\ \A k \in 1..Len(q) : p[1 + k] = q[k]

LEMMA QuotedStep ==
  ASSUME NEW s \in Members \cup Elements, ~s.index, NEW top \in BOOLEAN, ~IsPlain(s, top), NEW p, p = Step(s, top)
  PROVE  LooksQuoted(Quoted(s.key), p)
<1>1. PICK key : key = s.key /\ key \in Seq(Chars)
  BY KeysAre
<1>2. PICK flat : flat = FlattenSeq(Inner(key)) /\ flat \in Seq(Chars)
  <2>1. Inner(key) \in Seq(Seq(Chars))
    BY <1>1, SyntaxIs, QuotedIs
  <2> QED
    BY <2>1, FlattenAll
<1>3. PICK open, close, mark : /\ open = "[" /\ close = "]" /\ mark = "\""
                               /\ open \in Chars /\ close \in Chars /\ mark \in Chars
  BY SyntaxIs
<1>4. PICK q : q = Quoted(key)
  OBVIOUS
<1>5. q = (<<mark>> \o flat) \o <<mark>>
  BY <1>1, <1>2, <1>3, <1>4, SyntaxIs, QuotedIs
<1>6. q \in Seq(Chars) /\ q[1] = mark /\ Len(q) = Len(flat) + 2 /\ Len(flat) \in Nat
  <2>1. mark \in Chars /\ flat \in Seq(Chars)
    BY <1>2, <1>3
  <2> QED
    BY ONLY <1>5, <2>1, Between
<1>7. p = (<<open>> \o q) \o <<close>>
  <2>1. p = (<<"[">> \o Quoted(key)) \o <<"]">>
    BY <1>1 DEF IsPlain, Step
  <2> QED
    BY ONLY <1>3, <1>4, <2>1
<1>8. /\ p \in Seq(Chars) /\ Len(p) = Len(q) + 2 /\ p[1] = open
      /\ \A k \in 1..Len(q) : p[1 + k] = q[k]
  <2>1. open \in Chars /\ close \in Chars /\ q \in Seq(Chars)
    BY <1>3, <1>6
  <2> QED
    BY ONLY <1>7, <2>1, Between
<1>9. 1 \in 1..Len(q) /\ Len(p) >= 2 /\ 1 + 1 = 2
  <2>1. Len(q) = Len(flat) + 2 /\ Len(flat) \in Nat /\ Len(p) = Len(q) + 2
    BY <1>6, <1>8
  <2> QED
    BY ONLY <2>1
<1>10. p[2] = mark
  BY <1>6, <1>8, <1>9
<1> QED
  BY <1>1, <1>3, <1>4, <1>6, <1>8, <1>9, <1>10 DEF LooksQuoted

\* No character of the set follows.
Stops(text, e, good) == e = Len(text) \/ text[e + 1] \notin good

\* The run of characters of the set that comes after the first g.
IsRun(text, g, run, good) ==
  /\ g + Len(run) <= Len(text) /\ Stops(text, g + Len(run), good)
  /\ \A k \in 1..Len(run) : text[g + k] = run[k] /\ run[k] \in good

LEMMA ShorterRun ==
  ASSUME NEW S, NEW a \in Seq(S), NEW b \in Seq(S), Len(a) < Len(b),
         NEW text, Len(text) \in Nat, NEW g \in Nat, NEW good, IsRun(text, g, a, good), IsRun(text, g, b, good)
  PROVE  FALSE
<1>1. PICK n, m : n = Len(a) /\ m = Len(b) /\ n \in Nat /\ m \in Nat /\ n < m
  OBVIOUS
<1>2. g + m <= Len(text) /\ Stops(text, g + n, good) /\ \A k \in 1..m : text[g + k] = b[k] /\ b[k] \in good
  BY <1>1 DEF IsRun
<1>3. n + 1 \in 1..m /\ g + n # Len(text) /\ g + (n + 1) = (g + n) + 1
  <2>1. g + m <= Len(text)
    BY <1>2
  <2> QED
    BY <1>1, <2>1
<1>4. text[(g + n) + 1] \notin good
  BY <1>2, <1>3 DEF Stops
<1>5. text[g + (n + 1)] \in good
  BY <1>2, <1>3
<1> QED
  BY <1>3, <1>4, <1>5

LEMMA RunTells ==
  ASSUME NEW S, NEW a \in Seq(S), NEW b \in Seq(S),
         NEW text, Len(text) \in Nat, NEW g \in Nat, NEW good, IsRun(text, g, a, good), IsRun(text, g, b, good)
  PROVE  a = b
<1>1. Len(a) \in Nat /\ Len(b) \in Nat
  OBVIOUS
<1>2. ~(Len(a) < Len(b)) /\ ~(Len(b) < Len(a))
  BY ShorterRun
<1>3. Len(a) = Len(b)
  BY <1>1, <1>2
<1>4. \A k \in 1..Len(a) : a[k] = b[k]
  BY <1>3 DEF IsRun
<1> QED
  BY <1>3, <1>4, SameText

\* A step is followed by another one, or it is the last.
Ends(text, e) == e = Len(text) \/ text[e + 1] \in {".", "["}

Others == Chars \ {".", "["}

LEMMA StepStarts ==
  ASSUME NEW s \in Members \cup Elements, NEW top \in BOOLEAN, NEW p, p = Step(s, top)
  PROVE  /\ p \in Seq(Chars) /\ Len(p) >= 1
         /\ p[1] = "[" <=> ~IsPlain(s, top)
         /\ ~top => p[1] \in {".", "["}
         /\ top => p[1] # "("
<1>1. PICK l : l = Len(s.key) /\ l \in Nat /\ DOMAIN s.key = 1..l /\ s.key \in Seq(Chars)
  BY KeysAre
<1>2. CASE s.index
  <2>1. p \in Seq(Chars) /\ Len(p) = l + 2 /\ p[1] = "["
    BY <1>1, <1>2, ElementStep
  <2>2. Len(p) >= 1
    BY <1>1, <2>1
  <2> QED
    BY <1>2, <2>1, <2>2 DEF IsPlain
<1>3. CASE IsPlain(s, top)
  <2>1. /\ p \in Seq(Chars) /\ Len(p) = Lead(top) + l /\ s.key # <<>>
        /\ ~top => p[1] = "."
        /\ \A k \in 1..l : p[Lead(top) + k] = s.key[k] /\ s.key[k] \notin {".", "[", "]", "\""}
    <3>1. LooksPlain(s.key, top, p)
      BY <1>3, PlainStep
    <3> QED
      BY <1>1, <3>1 DEF LooksPlain
  <2>2. 1 \in 1..l /\ l >= 1
    <3>1. PICK key : key = s.key /\ key \in Seq(Chars) /\ l = Len(key) /\ key # <<>>
      BY <1>1, <2>1
    <3>2. l \in Nat /\ l # 0
      BY <3>1
    <3> QED
      BY ONLY <3>2
  <2>3. Lead(top) \in 0..1 /\ (top => Lead(top) = 0)
    BY DEF Lead
  <2>4. Len(p) >= 1
    <3>1. Len(p) = Lead(top) + l
      BY <2>1
    <3>2. PICK d : d = Lead(top) /\ d \in Nat
      BY <2>3
    <3>3. l \in Nat /\ l >= 1 /\ Len(p) = d + l
      BY <1>1, <2>2, <3>1, <3>2
    <3> QED
      BY ONLY <3>2, <3>3
  <2>5. CASE top
    <3>1. p[1] = s.key[1]
      <4>1. Lead(top) = 0
        BY <2>5 DEF Lead
      <4>2. Lead(top) + 1 = 1
        BY <4>1
      <4>3. p[Lead(top) + 1] = s.key[1]
        BY <2>1, <2>2
      <4> QED
        BY <4>2, <4>3
    <3>2. s.key[1] # "[" /\ s.key[1] # "("
      BY <1>3, <2>1, <2>2, <2>5 DEF IsPlain
    <3> QED
      BY <1>3, <2>1, <2>4, <2>5, <3>1, <3>2
  <2>6. CASE ~top
    BY <1>3, <2>1, <2>4, <2>6
  <2> QED
    BY <2>5, <2>6
<1>4. CASE ~s.index /\ ~IsPlain(s, top)
  <2>1. p \in Seq(Chars) /\ Len(p) >= 2 /\ p[1] = "["
    BY <1>4, QuotedStep DEF LooksQuoted
  <2>2. Len(p) >= 1
    <3>1. Len(p) \in Nat /\ Len(p) >= 2
      BY <2>1
    <3> QED
      BY <3>1
  <2> QED
    BY <1>4, <2>1, <2>2
<1> QED
  BY <1>2, <1>3, <1>4

LEMMA SameStep ==
  ASSUME NEW x \in Members \cup Elements, NEW y \in Members \cup Elements, x.index <=> y.index, x.key = y.key
  PROVE  x = y
<1>1. CASE x.index
  <2>1. x \in Elements /\ y \in Elements
    BY <1>1 DEF Members, Elements
  <2>2. x.index = TRUE /\ y.index = TRUE
    BY <2>1 DEF Elements
  <2>3. x = [index |-> TRUE, key |-> x.key] /\ y = [index |-> TRUE, key |-> y.key]
    BY <2>1 DEF Elements
  <2> QED
    BY <2>3
<1>2. CASE ~x.index
  <2>1. x \in Members /\ y \in Members
    BY <1>2 DEF Members, Elements
  <2>2. x = [index |-> FALSE, key |-> x.key] /\ y = [index |-> FALSE, key |-> y.key]
    BY <2>1 DEF Members
  <2> QED
    BY <2>2
<1> QED
  BY <1>1, <1>2

LEMMA IndexRun ==
  ASSUME NEW s \in Members \cup Elements, s.index, NEW top, NEW text, NEW o \in Nat, Len(text) \in Nat,
         StandsAt(text, o, Step(s, top))
  PROVE  IsRun(text, o + 1, s.key, Digits)
<1>1. PICK p : p = Step(s, top)
  OBVIOUS
<1>2. PICK key : key = s.key /\ key \in Seq(Chars)
  BY KeysAre
<1>3. PICK n : n = Len(key) /\ n \in Nat
  BY <1>2
<1>4. /\ Len(p) = n + 2 /\ p[n + 2] = "]"
      /\ \A k \in 1..n : p[1 + k] = key[k] /\ key[k] \in Digits
  BY <1>1, <1>2, <1>3, ElementStep
<1>5. o + Len(p) <= Len(text) /\ \A k \in 1..Len(p) : text[o + k] = p[k]
  BY <1>1 DEF StandsAt
<1>6. ASSUME NEW k \in 1..n
      PROVE  text[(o + 1) + k] = key[k] /\ key[k] \in Digits
  <2>1. 1 + k \in 1..Len(p) /\ o + (1 + k) = (o + 1) + k
    BY <1>3, <1>4
  <2> QED
    BY <1>4, <1>5, <2>1
<1>7. text[((o + 1) + n) + 1] = "]"
  <2>1. n + 2 \in 1..Len(p) /\ o + (n + 2) = ((o + 1) + n) + 1
    BY <1>3, <1>4
  <2> QED
    BY <1>4, <1>5, <2>1
<1>8. (o + 1) + n <= Len(text)
  <2>1. n \in Nat /\ Len(p) = n + 2 /\ o + Len(p) <= Len(text)
    BY <1>3, <1>4, <1>5
  <2> QED
    BY <2>1
<1>9. "]" \notin Digits
  BY ComparisonAssumption
<1>10. Stops(text, (o + 1) + n, Digits)
  BY <1>7, <1>9 DEF Stops
<1> QED
  BY <1>2, <1>3, <1>6, <1>8, <1>10 DEF IsRun

LEMMA PlainRun ==
  ASSUME NEW s \in Members \cup Elements, NEW top \in BOOLEAN, IsPlain(s, top),
         NEW text, NEW o \in Nat, Len(text) \in Nat,
         StandsAt(text, o, Step(s, top)), Ends(text, o + Len(Step(s, top)))
  PROVE  IsRun(text, o + Lead(top), s.key, Others)
<1>1. PICK p : p = Step(s, top)
  OBVIOUS
<1>2. PICK key : key = s.key /\ key \in Seq(Chars)
  BY KeysAre
<1>3. PICK n : n = Len(key) /\ n \in Nat
  BY <1>2
<1>4. PICK d : d = Lead(top) /\ d \in Nat
  BY DEF Lead
<1>5. LooksPlain(key, top, p)
  BY <1>1, <1>2, PlainStep
<1>6. Len(p) = d + n /\ \A k \in 1..n : p[d + k] = key[k] /\ key[k] \notin {".", "["}
  BY <1>3, <1>4, <1>5 DEF LooksPlain
<1>7. o + Len(p) <= Len(text) /\ \A k \in 1..Len(p) : text[o + k] = p[k]
  BY <1>1 DEF StandsAt
<1>8. (o + d) + n <= Len(text) /\ o + Len(p) = (o + d) + n
  BY <1>3, <1>4, <1>6, <1>7
<1>9. ASSUME NEW k \in 1..n
      PROVE  text[(o + d) + k] = key[k] /\ key[k] \in Others
  <2>1. d + k \in 1..Len(p) /\ o + (d + k) = (o + d) + k
    BY <1>3, <1>4, <1>6
  <2>2. key[k] \in Chars
    BY <1>2, <1>3
  <2> QED
    BY <1>6, <1>7, <2>1, <2>2 DEF Others
<1>10. Stops(text, (o + d) + n, Others)
  <2>1. Ends(text, (o + d) + n)
    BY <1>1, <1>8
  <2> QED
    BY <2>1 DEF Ends, Stops, Others
<1> QED
  BY <1>2, <1>3, <1>4, <1>8, <1>9, <1>10 DEF IsRun

LEMMA QuotedStands ==
  ASSUME NEW s \in Members \cup Elements, ~s.index, NEW top \in BOOLEAN, ~IsPlain(s, top),
         NEW text, NEW o \in Nat, Len(text) \in Nat, StandsAt(text, o, Step(s, top))
  PROVE  StandsAt(text, o + 1, Quoted(s.key)) /\ text[o + 2] = "\""
<1>1. PICK p : p = Step(s, top)
  OBVIOUS
<1>2. PICK q : q = Quoted(s.key)
  OBVIOUS
<1>3. /\ p \in Seq(Chars) /\ q \in Seq(Chars) /\ Len(p) = Len(q) + 2 /\ p[2] = "\"" /\ Len(p) >= 2
      /\ \A k \in 1..Len(q) : p[1 + k] = q[k]
  <2>1. LooksQuoted(q, p)
    BY <1>1, <1>2, QuotedStep
  <2> QED
    BY <2>1 DEF LooksQuoted
<1>4. PICK l : l = Len(q) /\ l \in Nat /\ Len(p) = l + 2
  <2>1. q \in Seq(Chars) /\ Len(p) = Len(q) + 2
    BY <1>3
  <2>2. Len(q) \in Nat
    BY <2>1
  <2> QED
    BY ONLY <2>1, <2>2
<1>5. 1 + l <= Len(p) /\ 2 \in 1..Len(p)
  BY <1>4
<1>6. text[o + 2] = p[2]
  BY <1>1, <1>5 DEF StandsAt
<1>7. StandsAt(text, o + 1, q)
  <2>1. StandsAt(text, o, p) /\ Len(q) \in Nat /\ 1 + Len(q) <= Len(p) /\ 1 \in Nat
    BY <1>1, <1>4, <1>5
  <2>2. \A k \in 1..Len(q) : p[1 + k] = q[k]
    BY <1>3
  <2> QED
    BY ONLY o \in Nat, Len(text) \in Nat, <2>1, <2>2, PartStands
<1> QED
  BY <1>2, <1>3, <1>6, <1>7

LEMMA FirstCharacter ==
  ASSUME NEW s \in Members \cup Elements, NEW top \in BOOLEAN, NEW text, NEW o \in Nat, Len(text) \in Nat,
         StandsAt(text, o, Step(s, top))
  PROVE  text[o + 1] = "[" <=> ~IsPlain(s, top)
<1>1. PICK p : p = Step(s, top)
  OBVIOUS
<1>2. p \in Seq(Chars) /\ Len(p) >= 1 /\ (p[1] = "[" <=> ~IsPlain(s, top))
  BY <1>1, StepStarts
<1>3. 1 \in 1..Len(p)
  <2>1. Len(p) \in Nat /\ Len(p) >= 1
    BY <1>2
  <2> QED
    BY ONLY <2>1
<1>4. text[o + 1] = p[1]
  BY <1>1, <1>3 DEF StandsAt
<1> QED
  BY <1>2, <1>4

LEMMA SecondCharacter ==
  ASSUME NEW s \in Members \cup Elements, NEW top \in BOOLEAN, NEW text, NEW o \in Nat, Len(text) \in Nat,
         StandsAt(text, o, Step(s, top)), ~IsPlain(s, top)
  PROVE  s.index <=> text[o + 2] # "\""
<1>1. CASE s.index
  <2>1. IsRun(text, o + 1, s.key, Digits)
    BY <1>1, IndexRun
  <2>2. PICK key : key = s.key /\ key \in Seq(Chars) /\ key # <<>>
    BY <1>1, KeysAre, ElementStep
  <2>3. 1 \in 1..Len(key)
    BY <2>2
  <2>4. text[(o + 1) + 1] \in Digits
    BY <2>1, <2>2, <2>3 DEF IsRun
  <2>5. (o + 1) + 1 = o + 2
    OBVIOUS
  <2>6. text[o + 2] \in Digits
    BY <2>4, <2>5
  <2>7. "\"" \notin Digits
    BY ComparisonAssumption
  <2> QED
    BY <1>1, <2>6, <2>7
<1>2. CASE ~s.index
  BY <1>2, QuotedStands
<1> QED
  BY <1>1, <1>2

\* A step of a path, with what comes after it.
IsStepAt(text, o, s, top) == StandsAt(text, o, Step(s, top)) /\ Ends(text, o + Len(Step(s, top)))

(* Two steps that a text has at one place are the same. *)
LEMMA StepTells ==
  ASSUME NEW x \in Members \cup Elements, NEW y \in Members \cup Elements, NEW top \in BOOLEAN,
         NEW text, NEW o \in Nat, Len(text) \in Nat,
         IsStepAt(text, o, x, top), IsStepAt(text, o, y, top)
  PROVE  x = y
<1>1. /\ StandsAt(text, o, Step(x, top)) /\ Ends(text, o + Len(Step(x, top)))
      /\ StandsAt(text, o, Step(y, top)) /\ Ends(text, o + Len(Step(y, top)))
  BY DEF IsStepAt
<1>2. IsPlain(x, top) <=> IsPlain(y, top)
  BY <1>1, FirstCharacter
<1>3. x.key \in Seq(Chars) /\ y.key \in Seq(Chars)
  BY KeysAre
<1>4. CASE IsPlain(x, top)
  <2>1. IsPlain(y, top)
    BY <1>2, <1>4
  <2>2. PICK g : g = o + Lead(top) /\ g \in Nat
    BY DEF Lead
  <2>3. IsRun(text, g, x.key, Others) /\ IsRun(text, g, y.key, Others)
    BY <1>1, <1>4, <2>1, <2>2, PlainRun
  <2>4. x.key = y.key
    BY ONLY Len(text) \in Nat, <1>3, <2>2, <2>3, RunTells
  <2>5. ~x.index /\ ~y.index
    BY <1>4, <2>1 DEF IsPlain
  <2> QED
    BY <2>4, <2>5, SameStep
<1>5. CASE ~IsPlain(x, top)
  <2>1. ~IsPlain(y, top)
    BY <1>2, <1>5
  <2>2. x.index <=> y.index
    <3>1. x.index <=> text[o + 2] # "\""
      BY <1>1, <1>5, SecondCharacter
    <3>2. y.index <=> text[o + 2] # "\""
      BY <1>1, <2>1, SecondCharacter
    <3> QED
      BY <3>1, <3>2
  <2>3. CASE x.index
    <3>1. o + 1 \in Nat
      OBVIOUS
    <3>2. IsRun(text, o + 1, x.key, Digits) /\ IsRun(text, o + 1, y.key, Digits)
      BY <1>1, <2>2, <2>3, IndexRun
    <3>3. x.key = y.key
      BY ONLY Len(text) \in Nat, <1>3, <3>1, <3>2, RunTells
    <3> QED
      BY <2>2, <3>3, SameStep
  <2>4. CASE ~x.index
    <3>1. o + 1 \in Nat
      OBVIOUS
    <3>2. StandsAt(text, o + 1, Quoted(x.key)) /\ StandsAt(text, o + 1, Quoted(y.key))
      BY <1>1, <1>5, <2>1, <2>2, <2>4, QuotedStands
    <3>3. x.key = y.key
      BY ONLY Len(text) \in Nat, <1>3, <3>1, <3>2, QuotedTells
    <3> QED
      BY <2>2, <3>3, SameStep
  <2> QED
    BY <2>3, <2>4
<1> QED
  BY <1>4, <1>5

(***************************************************************************)
(* Paths.                                                                  *)
(***************************************************************************)
\* Where in the path each of the steps begins, less one.
ReadsPath(text, n, s, off) ==
  /\ off[1] = 0 /\ off[n + 1] = Len(text)
  /\ \A i \in 1..n : /\ off[i] \in Nat /\ off[i + 1] = off[i] + Len(Step(s[i], i = 1))
                     /\ IsStepAt(text, off[i], s[i], i = 1)

LEMMA PathReads ==
  ASSUME NEW n \in Nat, n >= 1, NEW s \in [1..n -> Members \cup Elements], NEW text, text = PathOf(s)
  PROVE  Len(text) \in Nat /\ text[1] # "(" /\ \E off : ReadsPath(text, n, s, off)
<1>1. PICK a : a = [i \in 1..n |-> Step(s[i], i = 1)]
  OBVIOUS
<1>2. \A i \in 1..n : /\ a[i] = Step(s[i], i = 1) /\ a[i] \in Seq(Chars) /\ Len(a[i]) >= 1
                      /\ i # 1 => a[i][1] \in {".", "["}
                      /\ i = 1 => a[i][1] # "("
  <2>1. ASSUME NEW i \in 1..n
        PROVE  /\ a[i] = Step(s[i], i = 1) /\ a[i] \in Seq(Chars) /\ Len(a[i]) >= 1
               /\ i # 1 => a[i][1] \in {".", "["}
               /\ i = 1 => a[i][1] # "("
    <3>1. a[i] = Step(s[i], i = 1)
      BY <1>1
    <3>2. s[i] \in Members \cup Elements /\ (i = 1) \in BOOLEAN
      OBVIOUS
    <3> QED
      BY <3>1, <3>2, StepStarts
  <2> QED
    BY <2>1
<1>3. a \in Seq(Seq(Chars)) /\ Len(a) = n /\ a # <<>>
  <2>1. a \in [1..n -> Seq(Chars)]
    BY <1>1, <1>2
  <2>2. \A f \in [1..n -> Seq(Chars)] : f \in Seq(Seq(Chars)) /\ Len(f) = n /\ f # <<>>
    OBVIOUS
  <2> QED
    BY <2>1, <2>2
<1>4. text = FlattenSeq(a)
  <2>1. s # <<>> /\ DOMAIN s = 1..n
    OBVIOUS
  <2> QED
    BY <1>1, <2>1 DEF PathOf
<1>5. PICK off : text \in Seq(Chars) /\ Lays(a, n, text, off)
  BY <1>3, <1>4, FlattenLays
<1>6. /\ off[1] = 0 /\ off[n + 1] = Len(text)
      /\ \A i \in 1..n : /\ off[i] \in Nat /\ off[i + 1] \in Nat
                         /\ off[i + 1] = off[i] + Len(a[i]) /\ StandsAt(text, off[i], a[i])
  <2>1. \A i \in 1..n : StandsAt(text, off[i], a[i]) /\ off[i + 1] = off[i] + Len(a[i])
    BY <1>3, <1>5, PieceStands
  <2> QED
    BY <1>5, <2>1 DEF Lays
<1>7. \A i \in 1..n : text[off[i] + 1] = a[i][1]
  <2>1. ASSUME NEW i \in 1..n
        PROVE  text[off[i] + 1] = a[i][1]
    <3>1. PICK p : p = a[i] /\ p \in Seq(Chars) /\ Len(p) >= 1 /\ StandsAt(text, off[i], p)
      BY <1>2, <1>6
    <3>2. 1 \in 1..Len(p)
      <4>1. Len(p) \in Nat /\ Len(p) >= 1
        BY <3>1
      <4> QED
        BY ONLY <4>1
    <3> QED
      BY <3>1, <3>2 DEF StandsAt
  <2> QED
    BY <2>1
<1>8. ASSUME NEW i \in 1..n
      PROVE  Ends(text, off[i + 1])
  <2>1. CASE i = n
    BY <1>6, <2>1 DEF Ends
  <2>2. CASE i # n
    <3>1. i + 1 \in 1..n /\ i + 1 # 1
      BY <2>2
    <3>2. text[off[i + 1] + 1] = a[i + 1][1] /\ a[i + 1][1] \in {".", "["}
      BY <1>2, <1>7, <3>1
    <3> QED
      BY <3>2 DEF Ends
  <2> QED
    BY <2>1, <2>2
<1>9. ASSUME NEW i \in 1..n
      PROVE  /\ off[i] \in Nat /\ off[i + 1] = off[i] + Len(Step(s[i], i = 1))
             /\ IsStepAt(text, off[i], s[i], i = 1)
  <2>1. a[i] = Step(s[i], i = 1)
    BY <1>2
  <2>2. off[i] \in Nat /\ off[i + 1] = off[i] + Len(a[i]) /\ StandsAt(text, off[i], a[i])
    BY <1>6
  <2>3. Ends(text, off[i] + Len(a[i]))
    BY <1>8, <2>2
  <2> QED
    BY <2>1, <2>2, <2>3 DEF IsStepAt
<1>10. ReadsPath(text, n, s, off)
  BY <1>6, <1>9 DEF ReadsPath
<1>11. text[1] # "("
  <2>1. 1 \in 1..n
    OBVIOUS
  <2>2. text[0 + 1] = a[1][1] /\ a[1][1] # "("
    BY <1>2, <1>6, <1>7, <2>1
  <2> QED
    BY <2>2
<1> QED
  BY <1>5, <1>10, <1>11

LEMMA ShorterPath ==
  ASSUME NEW n \in Nat, n >= 1, NEW s \in [1..n -> Members \cup Elements],
         NEW m \in Nat, n <= m, NEW r \in [1..m -> Members \cup Elements], PathOf(s) = PathOf(r)
  PROVE  s = r
<1>1. PICK text : text = PathOf(s) /\ text = PathOf(r)
  OBVIOUS
<1>2. Len(text) \in Nat
  BY <1>1, PathReads
<1>3. PICK so : ReadsPath(text, n, s, so)
  BY <1>1, PathReads
<1>4. m >= 1
  OBVIOUS
<1>5. PICK ro : ReadsPath(text, m, r, ro)
  BY <1>1, <1>4, PathReads
<1>6. \A i \in 1..n : i \in 1..m
  OBVIOUS
<1>7. ASSUME NEW i \in 1..n, so[i] = ro[i]
      PROVE  s[i] = r[i]
  <2>1. PICK o : o = so[i] /\ o = ro[i] /\ o \in Nat
    BY <1>3, <1>7 DEF ReadsPath
  <2>2. IsStepAt(text, o, s[i], i = 1) /\ IsStepAt(text, o, r[i], i = 1)
    <3>1. IsStepAt(text, so[i], s[i], i = 1)
      BY <1>3 DEF ReadsPath
    <3>2. i \in 1..m
      BY <1>6
    <3>3. IsStepAt(text, ro[i], r[i], i = 1)
      BY <1>5, <3>2 DEF ReadsPath
    <3> QED
      BY <2>1, <3>1, <3>3
  <2>3. s[i] \in Members \cup Elements /\ r[i] \in Members \cup Elements /\ (i = 1) \in BOOLEAN
    BY <1>6
  <2> QED
    BY ONLY <1>2, <2>1, <2>2, <2>3, StepTells
<1>8. PICK a, b : a = [i \in 1..n |-> Step(s[i], i = 1)] /\ b = [i \in 1..m |-> Step(r[i], i = 1)]
  OBVIOUS
<1>9. Matching(n, a, b, so, ro)
  <2>1. ASSUME NEW i \in 1..n, so[i] = ro[i]
        PROVE  a[i] = b[i]
    <3>1. a[i] = Step(s[i], i = 1) /\ b[i] = Step(r[i], i = 1)
      BY <1>6, <1>8
    <3>2. s[i] = r[i]
      BY <1>7, <2>1
    <3> QED
      BY ONLY <3>1, <3>2
  <2> QED
    BY <2>1 DEF Matching
<1>10. RunsOn(n, a, so) /\ RunsOn(m, b, ro)
  <2>1. \A i \in 1..n : so[i + 1] = so[i] + Len(a[i])
    BY <1>3, <1>8 DEF ReadsPath
  <2>2. \A i \in 1..m : ro[i + 1] = ro[i] + Len(b[i])
    BY <1>5, <1>8 DEF ReadsPath
  <2> QED
    BY <2>1, <2>2 DEF RunsOn
<1>11. so[1] = ro[1]
  BY <1>3, <1>5 DEF ReadsPath
<1>12. so[n + 1] = ro[n + 1] /\ \A i \in 1..n : so[i] = ro[i] /\ a[i] = b[i]
  <2>1. n \in Nat /\ m \in Nat /\ n <= m
    OBVIOUS
  <2> QED
    BY ONLY <1>9, <1>10, <1>11, <2>1, SamePieces
<1>13. n = m
  <2>1. SUFFICES ASSUME n < m
                 PROVE  FALSE
    OBVIOUS
  <2>2. n + 1 \in 1..m
    BY <2>1
  <2>3. ro[n + 1] = Len(text)
    BY <1>3, <1>12 DEF ReadsPath
  <2>4. PICK p : p = Step(r[n + 1], n + 1 = 1) /\ StandsAt(text, Len(text), p)
    BY <1>5, <2>2, <2>3 DEF ReadsPath, IsStepAt
  <2>5. Len(p) >= 1 /\ p \in Seq(Chars)
    <3>1. r[n + 1] \in Members \cup Elements /\ (n + 1 = 1) \in BOOLEAN
      BY <2>2
    <3> QED
      BY <2>4, <3>1, StepStarts
  <2>6. Len(text) + Len(p) <= Len(text) /\ Len(p) \in Nat
    BY <2>4 DEF StandsAt
  <2>7. Len(p) >= 1
    BY <2>5
  <2> QED
    BY ONLY <1>2, <2>6, <2>7
<1>14. \A i \in 1..n : s[i] = r[i]
  BY <1>7, <1>12
<1>15. s = [i \in 1..n |-> s[i]] /\ r = [i \in 1..n |-> r[i]]
  BY <1>13
<1>16. [i \in 1..n |-> s[i]] = [i \in 1..n |-> r[i]]
  BY ONLY <1>14
<1> QED
  BY <1>15, <1>16

LEMMA PathTells ==
  ASSUME NEW s \in Leaves, NEW r \in Leaves, PathOf(s) = PathOf(r)
  PROVE  s = r
<1>1. PICK n \in 1..MaxSteps : s \in [1..n -> Members \cup Elements]
  BY DEF Leaves, Members, Elements
<1>2. PICK m \in 1..MaxSteps : r \in [1..m -> Members \cup Elements]
  BY DEF Leaves, Members, Elements
<1>3. n \in Nat /\ m \in Nat /\ n >= 1 /\ m >= 1
  BY TableAssumption
<1>4. CASE n <= m
  BY <1>1, <1>2, <1>3, <1>4, ShorterPath
<1>5. CASE m <= n
  BY <1>1, <1>2, <1>3, <1>5, ShorterPath
<1> QED
  BY <1>3, <1>4, <1>5

LEMMA PathsApart == OwnPaths
<1>1. ASSUME NEW s \in Leaves
      PROVE  PathOfLeaf[s] = PathOf(s) /\ PathOf(s) \notin {Payload, Truncated}
  <2>1. PICK n \in 1..MaxSteps : s \in [1..n -> Members \cup Elements]
    BY DEF Leaves, Members, Elements
  <2>2. n \in Nat /\ n >= 1
    BY TableAssumption
  <2>3. PathOf(s)[1] # "("
    BY <2>1, <2>2, PathReads
  <2>4. Payload[1] = "(" /\ Truncated[1] = "("
    BY DEF Payload, Truncated
  <2>5. PathOfLeaf[s] = PathOf(s)
    BY DEF PathOfLeaf
  <2> QED
    BY <2>3, <2>4, <2>5
<1>2. ASSUME NEW s \in Leaves, NEW r \in Leaves, PathOfLeaf[s] = PathOfLeaf[r]
      PROVE  s = r
  <2>1. PathOf(s) = PathOf(r)
    BY <1>1, <1>2
  <2> QED
    BY <2>1, PathTells
<1>3. DOMAIN PathOfLeaf = Leaves
  BY DEF PathOfLeaf
<1> QED
  BY <1>1, <1>2, <1>3 DEF OwnPaths, IsInjective

(***************************************************************************)
(* No two fields share a path, and none has that of a whole payload,       *)
(* whatever their keys are made of and however deep they lie               *)
(* (compare.js:71-73).                                                     *)
(***************************************************************************)
THEOREM FieldsCorrect == Spec => []FieldsTellApart
<1>1. CInv => FieldsTellApart
  BY PathsApart DEF FieldsTellApart
<1> QED
  BY <1>1, CompareInvariance, PTL
=============================================================================
