--------------------------- MODULE MCWindowChain ---------------------------
(***************************************************************************)
(* Layouts of WindowChain for TLC: a chain of three windows of one stream, *)
(* under each boundary row, and two streams whose last windows are         *)
(* coupled, so one window reads two.                                       *)
(***************************************************************************)
EXTENDS WindowChain

\* one stream of three windows, each reading the one before
Chain == [windows |-> 1..3,
          stream |-> [w \in 1..3 |-> "a"],
          deps |-> [w \in 1..3 |-> IF w = 1 THEN {} ELSE {w - 1}],
          pin |-> [w \in 1..3 |-> IF w = 1 THEN {} ELSE {w - 1}],
          checked |-> TRUE, bestStatus |-> TRUE,
          solves |-> 1, segments |-> {2, 3}]

\* windows 1 and 3 of stream a, window 2 of stream b; 3 reads across
Join == [windows |-> 1..3,
         stream |-> [w \in 1..3 |-> IF w = 2 THEN "b" ELSE "a"],
         deps |-> [w \in 1..3 |-> IF w = 3 THEN {1, 2} ELSE {}],
         pin |-> [w \in 1..3 |-> IF w = 3 THEN {1} ELSE {}],
         checked |-> TRUE, bestStatus |-> FALSE,
         solves |-> 2, segments |-> {3}]

ChainLayouts == {Chain, [Chain EXCEPT !.checked = FALSE], Join}
=============================================================================
