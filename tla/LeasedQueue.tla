---------------------------- MODULE LeasedQueue ----------------------------
(***************************************************************************)
(* What the work queue promises its callers, with everything about         *)
(* dependencies, files, statuses and commands left out: an item is held    *)
(* under at most one token, a token is issued once, and only the token an  *)
(* item is held under, while its time has not run out, can have the item   *)
(* closed.  A closed claim is spent: its token never holds anything again. *)
(***************************************************************************)
EXTENDS Naturals

CONSTANTS Items, MaxFences

VARIABLES
    held,      \* the token each item is held under, 0 when it is free
    issued,    \* tokens issued so far are 1..issued
    expired,   \* tokens whose time has run out
    spent      \* tokens that had a closing command accepted

qvars == <<held, issued, expired, spent>>

QueueInit ==
    /\ held = [i \in Items |-> 0]
    /\ issued = 0
    /\ expired = {}
    /\ spent = {}

\* Holds that end in a step without being closed: released, blocked, frozen anew.
Dropped(free) == [i \in Items |-> IF i \in free THEN 0 ELSE held[i]]

Drop(free) ==
    /\ held' = Dropped(free)
    /\ UNCHANGED <<issued, expired, spent>>

Claim(i, free) ==
    /\ issued < MaxFences
    /\ Dropped(free)[i] = 0
    /\ issued' = issued + 1
    /\ held' = [Dropped(free) EXCEPT ![i] = issued + 1]
    /\ UNCHANGED <<expired, spent>>

RunOut(i) ==
    /\ held[i] # 0
    /\ expired' = expired \cup {held[i]}
    /\ UNCHANGED <<held, issued, spent>>

CloseHeld(i) ==
    /\ held[i] # 0
    /\ held[i] \notin expired
    /\ spent' = spent \cup {held[i]}
    /\ held' = [held EXCEPT ![i] = 0]
    /\ UNCHANGED <<issued, expired>>

QueueNext ==
    \/ \E free \in SUBSET Items : Drop(free) \/ \E i \in Items : Claim(i, free)
    \/ \E i \in Items : RunOut(i) \/ CloseHeld(i)

QueueSpec == QueueInit /\ [][QueueNext]_qvars
-----------------------------------------------------------------------------
\* No two items are held under one token, no spent token holds an item, and no
\* token is held that was never issued.
HeldApart ==
    \A i \in Items : held[i] # 0 =>
        /\ held[i] \in 1..issued
        /\ held[i] \notin spent
        /\ \A j \in Items : held[j] = held[i] => j = i
=============================================================================
