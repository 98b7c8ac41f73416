----------------------------- MODULE MCRelease -----------------------------
(* Two builds of one version, and one of the next.                         *)
EXTENDS Release

CONSTANTS a, b

TwoBuilds == {[v |-> 1, src |-> a], [v |-> 1, src |-> b], [v |-> 2, src |-> a]}
=============================================================================
