------------------------------- MODULE MCTurn -------------------------------
(***************************************************************************)
(* The anchor and the attempt journal in one run.  They have no variable   *)
(* in common, so a step of one never enables a step of the other: each is  *)
(* explored while the other is as it starts.                               *)
(***************************************************************************)
EXTENDS Anchor, Attempts
CONSTANTS a, b, v, f, f1, d1
MCSymmetry == Permutations(Procs) \cup Permutations(Goals)
MCLists == {<<a>>, <<b, a, b>>, <<a, v>>, <<>>}
MCFiles == {f}
MCFps == {f1}
MCEventFps == {d1}

TurnVars == <<anchorVars, journalVars>>
TurnInit == AnchorInit /\ JournalInit
TurnNext ==
    \/ JournalInit /\ AnchorNext /\ UNCHANGED journalVars
    \/ AnchorInit /\ files[f] = "clean" /\ JournalNext /\ UNCHANGED anchorVars
TurnSpec == TurnInit /\ [][TurnNext]_TurnVars
=============================================================================
