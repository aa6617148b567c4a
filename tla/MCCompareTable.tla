--------------------------- MODULE MCCompareTable ---------------------------
(* Devices S7, S8 and 9 under 7, and a topic that resembles them; fields   *)
(* that come, go and change.                                               *)
EXTENDS CompareTable

MCLower == [c \in {"S", "s", "7", "8", "9"} |-> IF c = "S" THEN "s" ELSE c]

S7 == <<<<"7">>, <<"S", "7">>>>
S8 == <<<<"7">>, <<"S", "8">>>>
MCBatches == {{S7, <<<<"7">>, <<"9">>>>, <<<<"9">>, <<"S", "7">>>>}, {S8}}

MCTyped == {<<<<"9">>>>, <<<<"s", "8">>>>, S8}

MCSaved == {<<S7, S8>>}

MCSenders == {S7, S8}

A == <<[index |-> FALSE, key |-> <<"a">>]>>
B == <<[index |-> FALSE, key |-> <<"b">>]>>
Json(leaves) == [leaves |-> leaves, text |-> "{}", trunc |-> FALSE]
MCMessages ==
  {Json(<<[steps |-> A, value |-> "1"]>>),
   Json(<<[steps |-> B, value |-> "1"], [steps |-> A, value |-> "2"]>>)}

MCKeys ==
  {<<>>, <<"7">>, <<"7", "8">>, <<"a">>, <<"a", ".", "a">>, <<"[", "a", "]">>,
   <<"a", "[", "a", "]">>, <<"(", "p", ")">>, <<"\"">>, <<"\\">>, <<"\"", "a", "\"">>,
   <<"a", "\"", "]", "[", "\"", "a">>}
=============================================================================
