--------------------------- MODULE MCTaskBacklog ---------------------------
(***************************************************************************)
(* A small work graph for TaskBacklog: item 2 waits on item 1, and both    *)
(* watch one source file.                                                  *)
(***************************************************************************)
EXTENDS TaskBacklog, TLC

CONSTANT f1

Symmetric == Permutations(Workers) \cup Permutations(Fingerprints)

Deps2 == [i \in 1..2 |-> IF i = 2 THEN {1} ELSE {}]
Rank2 == [i \in 1..2 |-> i]

Free2 == [i \in 1..2 |-> {}]
Shared2 == [i \in 1..2 |-> {f1}]
=============================================================================
