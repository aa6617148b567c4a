------------------------------- MODULE Sublist -------------------------------
(***************************************************************************)
(* Parts of a list in the order of the list, for the loops of the code     *)
(* that walk a slice or an array and keep some of its elements.  They are  *)
(* defined over the set of the indices that are kept, not by recursion     *)
(* over the list, so that lemmas about them can be proved.                 *)
(***************************************************************************)
EXTENDS Integers, Sequences, FiniteSets

\* The k-th element is the one at the index with k - 1 kept indices before it.
ElementsAt(s, kept) ==
  [k \in 1..Cardinality(kept) |->
     s[CHOOSE i \in kept : Cardinality({j \in kept : j < i}) = k - 1]]

\* The elements of a finite set of numbers, in ascending order.
Ascending(S) ==
  [k \in 1..Cardinality(S) |-> CHOOSE i \in S : Cardinality({j \in S : j < i}) = k - 1]

\* The members of a finite set in the order given by the pairs <<earlier, later>>.
RankIn(S, order, x) == Cardinality({y \in S : <<y, x>> \in order})

InRank(S, order) == [k \in 1..Cardinality(S) |-> CHOOSE x \in S : RankIn(S, order, x) = k - 1]

InOrder(S, Before(_, _)) == InRank(S, {xy \in S \X S : Before(xy[1], xy[2])})

Above(s, n) == ElementsAt(s, {i \in DOMAIN s : s[i] > n})
=============================================================================
