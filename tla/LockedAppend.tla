---------------------------- MODULE LockedAppend ----------------------------
(***************************************************************************)
(* The one way a worker appends a line to a shared log:                    *)
(* plugin/scripts/_locked_append.py.  The lock is flock() on a sidecar     *)
(* file, so the kernel drops it when its holder dies.  A line reaches the  *)
(* file in one or more writes: here a head, without the newline, and a     *)
(* tail, which ends the line.  A reader takes no lock.                     *)
(***************************************************************************)
EXTENDS Integers, Sequences, FiniteSets

CONSTANTS
    Writers,  \* the processes that append to one log
    Nobody    \* no process

ASSUME NobodyAssumption == Nobody \notin Writers

VARIABLES
    log,     \* the file: the fragments written, in order
    holder,  \* the process that holds the lock
    at,      \* where each process is in locked_append_line
    record,  \* the record each process is appending, numbered by its call
    calls    \* calls of locked_append_line so far

appendVars == <<log, holder, at, record, calls>>

Fragment == [record : Nat, part : {"head", "tail"}]
Head1(r) == [record |-> r, part |-> "head"]

Tail1(r) == [record |-> r, part |-> "tail"]

AppendTypeOK ==
    /\ log \in Seq(Fragment)
    /\ holder \in Writers \cup {Nobody}
    /\ at \in [Writers -> {"idle", "waiting", "holding", "half", "written"}]
    /\ record \in [Writers -> Nat]
    /\ calls \in Nat

AppendInit ==
    /\ log = <<>> /\ holder = Nobody /\ calls = 0
    /\ at = [w \in Writers |-> "idle"]
    /\ record = [w \in Writers |-> 0]
-----------------------------------------------------------------------------
Call(w) ==
    /\ at[w] = "idle"
    /\ at' = [at EXCEPT ![w] = "waiting"]
    /\ calls' = calls + 1
    /\ record' = [record EXCEPT ![w] = calls + 1]
    /\ UNCHANGED <<log, holder>>

\* Mutant: flock fails to exclude (the lock is taken on the caller's own file).
WrongAcquireShared(w) ==
    /\ at[w] = "waiting"
    /\ holder' = w
    /\ at' = [at EXCEPT ![w] = "holding"]
    /\ UNCHANGED <<log, record, calls>>

Acquire(w) ==
    /\ at[w] = "waiting" /\ holder = Nobody
    /\ holder' = w
    /\ at' = [at EXCEPT ![w] = "holding"]
    /\ UNCHANGED <<log, record, calls>>

\* Mutant: the wait has no deadline.
WrongGiveUpNever(w) == FALSE /\ UNCHANGED appendVars

\* The deadline passes while another process holds the lock: the line is skipped.
GiveUp(w) ==
    /\ at[w] = "waiting" /\ holder # Nobody
    /\ at' = [at EXCEPT ![w] = "idle"]
    /\ UNCHANGED <<log, holder, record, calls>>

WriteHead(w) ==
    /\ at[w] = "holding"
    /\ log' = Append(log, Head1(record[w]))
    /\ at' = [at EXCEPT ![w] = "half"]
    /\ UNCHANGED <<holder, record, calls>>

WriteTail(w) ==
    /\ at[w] = "half"
    /\ log' = Append(log, Tail1(record[w]))
    /\ at' = [at EXCEPT ![w] = "written"]
    /\ UNCHANGED <<holder, record, calls>>

\* After fsync: the lock is released and the call returns True.
Release(w) ==
    /\ at[w] = "written"
    /\ at' = [at EXCEPT ![w] = "idle"]
    /\ holder' = Nobody
    /\ UNCHANGED <<log, record, calls>>

\* An OSError of open, write or fsync (the call returns False), or a kill: in
\* both cases the lock goes and what has been written stays.
Stop(w) ==
    /\ at[w] # "idle"
    /\ at' = [at EXCEPT ![w] = "idle"]
    /\ holder' = IF holder = w THEN Nobody ELSE holder
    /\ UNCHANGED <<log, record, calls>>

WriteFails(w) == at[w] \in {"holding", "half", "written"} /\ Stop(w)

AppendStep(w) ==
    \/ Acquire(w) \/ GiveUp(w) \/ WriteHead(w) \/ WriteTail(w) \/ Release(w)
    \/ WriteFails(w)

AppendNext == \E w \in Writers : Call(w) \/ AppendStep(w) \/ Stop(w)

AppendSpec == AppendInit /\ [][AppendNext]_appendVars
-----------------------------------------------------------------------------
IsTail(i) == log[i].part = "tail"
-----------------------------------------------------------------------------
\* The tail of a record stands right behind its own head: no two appends
\* interleave, whatever is killed, fails or times out ("can interleave partial
\* writes and corrupt a line", module docstring).
TailFollowsHead ==
    \A i \in 1..Len(log) : IsTail(i) => i > 1 /\ log[i - 1] = Head1(log[i].record)

\* No call waits for ever, even behind a holder that never moves again ("a
\* stuck/leaked lock must never wedge the caller").
EveryAppendReturns == \A w \in Writers : (at[w] = "waiting") ~> (at[w] # "waiting")
=============================================================================
