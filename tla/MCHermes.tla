------------------------------ MODULE MCHermes ------------------------------
(* Two requests of one session, each a turn of its own or both in one turn. *)
EXTENDS Hermes
CONSTANTS r1, r2, s1
MCSessionOf == [r \in {r1, r2} |-> s1]
MCTurnOf == [r \in {r1, r2} |-> r]
MCSubjects == {<<"prepare", r>> : r \in {r1, r2}} \cup {<<"record", c>> : c \in 1..MaxHooks}
                \cup {<<"warm", s1>>}
=============================================================================
