------------------------------ MODULE TopicFeed ------------------------------
(***************************************************************************)
(* What the store promises its readers (the package comment of             *)
(* internal/store/store.go): nobody is ever sent an event, and yet every   *)
(* reader that refreshes has, at that moment, an exact copy of the topic   *)
(* table, or of a first part of it that grows with every refresh.          *)
(*                                                                         *)
(* There are no cursors, sequence numbers or updates here: a refresh       *)
(* compares the copy with the table directly.                              *)
(***************************************************************************)
EXTENDS Integers, Sequences

CONSTANTS Readers, Names, MaxTopics, CountMod

VARIABLES
  table,       \* the topics: a sequence of [name, count]
  generation,  \* how often the table was cleared, plus one
  copy         \* per reader: the generation it read last and its copy then

feedVars == <<table, generation, copy>>

Entry == [name : Names, count : 0..(CountMod - 1)]

Init ==
  /\ table = <<>>
  /\ generation = 1
  /\ copy = [r \in Readers |-> [generation |-> 0, table |-> <<>>]]

Next1(n) == IF n + 1 = CountMod THEN 0 ELSE n + 1

PublishNew(name) ==
  /\ \A i \in DOMAIN table : table[i].name # name
  /\ Len(table) < MaxTopics
  /\ table' = Append(table, [name |-> name, count |-> Next1(0)])
  /\ UNCHANGED <<generation, copy>>

PublishAgain(i) ==
  /\ table' = [table EXCEPT ![i].count = Next1(@)]
  /\ UNCHANGED <<generation, copy>>

Clear ==
  /\ table' = <<>>
  /\ generation' = generation + 1
  /\ UNCHANGED copy

\* The first k topics, exactly as they are now; nothing the reader already
\* had of this generation is taken back, and a partial copy gains topics.
Refresh(r) ==
  LET had == IF copy[r].generation = generation THEN Len(copy[r].table) ELSE 0
  IN  \E k \in had..Len(table) :
        /\ k > had \/ k = Len(table)
        /\ copy' = [copy EXCEPT ![r] = [generation |-> generation,
                                        table |-> [i \in 1..k |-> table[i]]]]
        /\ UNCHANGED <<table, generation>>

Next ==
  \/ \E name \in Names : PublishNew(name)
  \/ \E i \in DOMAIN table : PublishAgain(i)
  \/ Clear
  \/ \E r \in Readers : Refresh(r)

Spec == Init /\ [][Next]_feedVars
=============================================================================
