------------------------------ MODULE Attempts ------------------------------
(***************************************************************************)
(* The attempt journal, the stall detector and the phase planner:          *)
(* plugin/scripts/loop_journal.py, plugin/scripts/hierarchical_planner.py  *)
(* and the part of the stop hook that drives them once a turn.             *)
(*                                                                         *)
(* The agent, and any sub-agent beside it, appends a row per attempt; at   *)
(* the end of the turn the hook adds a row if the last one is not of this  *)
(* turn, then runs the planner, which may write a new phase.  The detector *)
(* (`stall`, `resume`) reads the rows together with the events of another  *)
(* tool, merged by a time stamp of whole seconds; the planner and the hook *)
(* read the rows alone.  A row is stamped before its writer waits for the  *)
(* lock of the file, so the stamps of a file need not be in its order.     *)
(***************************************************************************)
EXTENDS Integers, Sequences, FiniteSets

CONSTANTS
    K,             \* DEFAULT_K, STALL_RETHRESHOLD and the hook's 3 (all 3 in the code)
    Window,        \* rows of the journal's tail that the hook reads (max(3 * K, 12))
    PlanInterval,  \* DEFAULT_PLAN_INTERVAL (5 in the code)
    Fps,           \* what the signal lines of a failure text say
    EventFps,      \* fingerprints of the other tool's validation_fail events
    NoFp,          \* no failure text
    MaxRows,       \* bound: rows in the journal
    MaxEvents,     \* bound: events of the other tool
    MaxClock,      \* bound: seconds that stamps tell apart
    MaxIterations  \* bound: turns of one loop

ASSUME SizeAssumption ==
    /\ K \in Nat \ {0} /\ Window \in Nat /\ Window >= K /\ PlanInterval \in Nat \ {0}
    /\ {MaxRows, MaxEvents, MaxClock} \subseteq Nat /\ MaxIterations \in Nat \ {0}

VARIABLES
    journal,    \* journal.jsonl
    events,     \* .simplicio/events.jsonl
    iteration,  \* of the scratchpad
    number,     \* the iteration number in the last row of the journal
    hook,       \* where the turn is: "turn", "recorded", "planned"
    phase       \* phase.json

journalVars == <<journal, events, iteration, number, hook, phase>>

Gates == {"pass", "fail", "blocked"}
Entry == [gate : Gates, fp : Fps \cup EventFps \cup {NoFp}, ts : 0..MaxClock,
          source : {"journal", "dev-cli"}]
PhaseNames == {"explore", "debug", "implement", "escalate"}
NoPhase == [phase |-> "none", iteration |-> 0, stall |-> 0]

JournalTypeOK ==
    /\ journal \in Seq(Entry) /\ events \in Seq(Entry)
    /\ iteration \in 1..MaxIterations
    /\ number \in 0..MaxIterations
    /\ hook \in {"turn", "recorded", "planned"}
    /\ phase = NoPhase \/ /\ phase.phase \in PhaseNames
                          /\ phase.iteration \in 0..Len(journal)
                          /\ phase.stall \in 0..phase.iteration
-----------------------------------------------------------------------------
(* The detector.                                                           *)

LastRow(rows) == rows[Len(rows)]
Same(row, fp) == row.gate # "pass" /\ row.fp = fp

\* The trailing run of attempts that failed with one fingerprint.
Streak(rows) ==
    IF rows = <<>> \/ LastRow(rows).gate = "pass" \/ LastRow(rows).fp = NoFp THEN 0
    ELSE CHOOSE n \in 1..Len(rows) :
           /\ \A k \in (Len(rows) - n + 1)..Len(rows) : Same(rows[k], LastRow(rows).fp)
           /\ n < Len(rows) => ~Same(rows[Len(rows) - n], LastRow(rows).fp)

Stalled(rows) == Streak(rows) >= K

\* Mutant: events are put before every row.
WrongMergedEventsFirst == events \o journal

\* A stable sort by the second.
Precedes(rows, j, k) == rows[j].ts < rows[k].ts \/ (rows[j].ts = rows[k].ts /\ j < k)
Place(rows, k) == 1 + Cardinality({j \in DOMAIN rows : Precedes(rows, j, k)})
StableSort(rows) == [p \in DOMAIN rows |-> rows[CHOOSE k \in DOMAIN rows : Place(rows, k) = p]]

\* merge_dev_cli: rows of the journal before events; without events nothing is sorted.
Merged == IF events = <<>> THEN journal ELSE StableSort(journal \o events)

\* What `stall` and `resume` tell the agent.
StallShown == Stalled(Merged)

\* _journal_stall: the same of the journal's tail, for the hook's stall record.
HookStall == Streak(SubSeq(journal, IF Len(journal) > Window THEN Len(journal) - Window + 1 ELSE 1, Len(journal)))
-----------------------------------------------------------------------------
(* The planner.                                                            *)

\* load_journal: the rows alone, without the events.
PlannerRows == journal

\* Mutant: the threshold is passed, not reached.
WrongExecutionStateOver(rows) ==
    IF rows = <<>> \/ LastRow(rows).gate = "blocked" THEN "planned"
    ELSE IF LastRow(rows).gate = "pass" THEN "verified"
    ELSE IF Streak(rows) > K THEN "stalled" ELSE "executed"

ExecutionState(rows) ==
    IF rows = <<>> \/ LastRow(rows).gate = "blocked" THEN "planned"
    ELSE IF LastRow(rows).gate = "pass" THEN "verified"
    ELSE IF Streak(rows) >= K THEN "stalled" ELSE "executed"

\* recommend_phase; "none" is a missing phase.json.
Recommended(rows, last) ==
    CASE ExecutionState(rows) = "stalled" ->
           IF Streak(rows) > K \/ last.phase \in {"none", "explore"} THEN "escalate" ELSE "explore"
      [] ExecutionState(rows) # "stalled" /\ last.phase = "none" ->
           IF rows = <<>> THEN "implement" ELSE "debug"
      [] /\ ExecutionState(rows) # "stalled" /\ last.phase = "debug"
         /\ Streak(rows) > last.stall + 1 -> "explore"
      [] OTHER -> last.phase

Replan ==
    \/ phase = NoPhase
    \/ Len(PlannerRows) - phase.iteration >= PlanInterval
    \/ ExecutionState(PlannerRows) = "stalled"

\* A goal that speaks of a bug, a fix or an error turns implement to debug; the goal is
\* read from the scratchpad, and may be of any kind.
Biased(name) == IF name = "implement" THEN {"implement", "debug"} ELSE {name}

\* cmd_plan.
Plan ==
    IF Replan
    THEN \E name \in Biased(Recommended(PlannerRows, phase)) :
            phase' = [phase |-> name, iteration |-> Len(PlannerRows), stall |-> Streak(PlannerRows)]
    ELSE phase' = phase
-----------------------------------------------------------------------------
JournalInit ==
    /\ journal = <<>> /\ events = <<>>
    /\ iteration = 1 /\ number = 0
    /\ hook = "turn" /\ phase = NoPhase

\* A row is stamped, waits for the lock, and is appended: meanwhile other writers append
\* rows with later stamps, so in the order of the file stamps are any.
Log(gate, fp, n) ==
    /\ Len(journal) < MaxRows
    /\ \E ts \in 0..MaxClock :
          journal' = Append(journal, [gate |-> gate, fp |-> fp, ts |-> ts, source |-> "journal"])
    /\ number' = n

\* A failure text: its signal lines, and the paths, numbers and times in them.
Failures == [signal : Fps, at : {1, 2}]

\* fingerprint: paths, numbers and times are normalised away.
Fingerprint(failure) == IF failure \in Failures THEN failure.signal ELSE NoFp

\* cmd_record by an agent, at any time; the number is that of the turn, or 0 when the
\* flag is left out.  A row that is skipped because the lock is busy changes nothing.
Record(gate, failure, n) ==
    /\ gate = "pass" => Fingerprint(failure) = NoFp
    /\ Log(gate, Fingerprint(failure), n)
    /\ UNCHANGED <<events, iteration, hook, phase>>

\* The other tool logs an event, stamped by its own rules; edit_applied and task_complete
\* count as passes.
LogEvent(gate, fp) ==
    /\ Len(events) < MaxEvents
    /\ \E ts \in 0..MaxClock :
          events' = Append(events, [gate |-> gate, fp |-> fp, ts |-> ts, source |-> "dev-cli"])
    /\ UNCHANGED <<journal, iteration, number, hook, phase>>

\* auto_record_journal: a row for a turn nobody recorded; it may also fail silently.
HookRecords(gate) ==
    /\ hook = "turn"
    /\ hook' = "recorded"
    /\ \/ number # iteration /\ Log(gate, NoFp, iteration)
       \/ UNCHANGED <<journal, number>>
    /\ UNCHANGED <<events, iteration, phase>>

\* _call_hierarchical_planner.
HookPlans ==
    /\ hook = "recorded"
    /\ hook' = "planned"
    /\ Plan
    /\ UNCHANGED <<journal, events, iteration, number>>

\* `plan` and `clear` given by hand.
CmdPlan ==
    /\ hook = "turn"
    /\ Plan
    /\ UNCHANGED <<journal, events, iteration, number, hook>>
CmdClearPhase ==
    /\ hook = "turn"
    /\ phase' = NoPhase
    /\ UNCHANGED <<journal, events, iteration, number, hook>>

\* The re-feed starts the next turn; the planner may have been cut off by its timeout.
NextTurn ==
    /\ hook # "turn" /\ iteration < MaxIterations
    /\ hook' = "turn" /\ iteration' = iteration + 1
    /\ UNCHANGED <<journal, events, number, phase>>

\* The loop ended and another one starts: neither file is removed.
NextLoop ==
    /\ hook # "turn"
    /\ hook' = "turn" /\ iteration' = 1
    /\ UNCHANGED <<journal, events, number, phase>>

JournalNext ==
    \/ \E gate \in Gates, failure \in Failures \cup {NoFp}, n \in {0, iteration} :
          Record(gate, failure, n)
    \/ \E fp \in EventFps : LogEvent("fail", fp)
    \/ LogEvent("pass", NoFp)
    \/ \E gate \in {"pass", "blocked"} : HookRecords(gate)
    \/ HookPlans \/ CmdPlan \/ CmdClearPhase \/ NextTurn \/ NextLoop

JournalSpec == JournalInit /\ [][JournalNext]_journalVars
-----------------------------------------------------------------------------
\* A pass at the end of its file ends every stall that is shown, however long it was and
\* whichever file it is in, when no entry of its file has a later stamp and those of the
\* other file are earlier (analyze on the merged rows).  A pass stamped before a failure
\* that got the lock first does not: sorting puts that failure behind it.
PassEndsStall ==
    \A file \in {journal, events} :
        /\ file # <<>> /\ LastRow(file).gate = "pass"
        /\ \A k \in DOMAIN file : file[k].ts <= LastRow(file).ts
        /\ \A other \in {journal, events} \ {file} :
             \A k \in DOMAIN other : other[k].ts < LastRow(file).ts
        => ~StallShown

\* The planner the hook runs heeds a stall that the hook itself sees in the journal's tail,
\* though each has a streak of its own: a third equal failure turns every phase but explore
\* to explore, and escalates from there; a fourth escalates whatever the phase is.
PlannerHeedsStall ==
    [][ hook = "recorded" /\ hook' = "planned"
        /\ HookStall >= K /\ LastRow(journal).gate = "fail"
          => /\ phase'.phase \in {"explore", "escalate"}
             /\ phase'.phase = "explore" => Streak(journal) = K /\ phase.phase # "explore" ]_journalVars

\* Escalation ("STOP making changes") is left by nothing but a fresh stall or by clear:
\* no pass, no other failure and no amount of turns resumes the work by itself.
EscalationHolds ==
    [][ phase.phase = "escalate" /\ phase'.phase \notin {"escalate", "none"}
          => phase'.phase = "explore" /\ Streak(journal) = K ]_journalVars
=============================================================================
