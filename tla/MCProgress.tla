----------------------------- MODULE MCProgress -----------------------------
(***************************************************************************)
(* A graph of three items, reported on while it is drained: item 3 waits   *)
(* on item 1, shares a plan file with item 2 and comes before it in rank.  *)
(***************************************************************************)
EXTENDS Progress

CONSTANTS f1, f2, f3

Deps3 == [i \in 1..3 |-> IF i = 3 THEN {1} ELSE {}]
Plan3 == [i \in 1..3 |-> IF i = 1 THEN {f1} ELSE {f2}]
Spec3 == [i \in 1..3 |-> {f3}]
Rank3 == [i \in 1..3 |-> IF i = 3 THEN 1 ELSE i + 1]
=============================================================================
