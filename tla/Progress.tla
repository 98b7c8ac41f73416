------------------------------ MODULE Progress ------------------------------
(***************************************************************************)
(* The progress report: plugin/scripts/loop_progress.py, composed with the *)
(* backlog it reports on.  Any process of the loop may emit an event at    *)
(* any time (task_backlog.py, task_anchor.py, loop_journal.py, the stop    *)
(* hook, the agent): it reads the anchor, then the backlog, works out a    *)
(* percentage, appends the event, reads everything once more and replaces  *)
(* the snapshot.  It takes no lock on what it reads, so that the two files *)
(* may be of two different moments.                                        *)
(*                                                                         *)
(* A percentage is counted in units: an item is worth MaxAcs of them.      *)
(* Abstracted: a run without a backlog, for which the percentage is the    *)
(* item's own, and the wording of PROGRESS.md and of the turn header.      *)
(***************************************************************************)
EXTENDS TaskBacklog

CONSTANTS
    MaxAcs,      \* acceptance criteria of every item
    Labelled,    \* every `task_anchor.py set` names its --item, as the docs show it
    Emitters,    \* processes that emit events
    MaxEmits     \* bound: events and refreshes

ASSUME ProgressAssumption ==
    /\ MaxAcs \in Nat \ {0} /\ MaxEmits \in Nat /\ Labelled \in BOOLEAN

VARIABLES
    anchor,    \* anchor.json: the item it names, the item its criteria are of, criteria met
    met,       \* history: the most criteria of each item that were ever met
    emitter,   \* what each emitter is at, and what it has read or worked out
    event,     \* the last line of progress.jsonl
    snapshot,  \* progress.json
    emits      \* events and refreshes begun

reportVars == <<anchor, met, emitter, event, snapshot, emits>>
allVars == <<vars, reportVars>>

NoItem == 0
NoAnchor == [item |-> NoItem, of |-> NoItem, done |-> 0]
Quiet == [at |-> "idle", last |-> FALSE, seen |-> NoAnchor, units |-> 0]
Units == 0..(2 * NumItems * MaxAcs)
RunStates == {"running", "closed"}

ReportTypeOK ==
    /\ anchor \in [item : Items \cup {NoItem}, of : Items \cup {NoItem}, done : 0..MaxAcs]
    /\ met \in [Items -> 0..MaxAcs]
    /\ emitter \in [Emitters ->
           [at : {"idle", "anchored", "counted", "appended", "anchored again", "counted again"},
            last : BOOLEAN, seen : [item : Items \cup {NoItem}, of : Items \cup {NoItem},
                                    done : 0..MaxAcs], units : Units]]
    /\ event \in [units : Units, last : BOOLEAN]
    /\ snapshot \in [units : Units, state : RunStates]
    /\ emits \in 0..MaxEmits

ProgressInit ==
    /\ Init
    /\ anchor = NoAnchor /\ met = [i \in Items |-> 0]
    /\ emitter = [e \in Emitters |-> Quiet]
    /\ event = [units |-> 0, last |-> FALSE]
    /\ snapshot = [units |-> 0, state |-> "running"]
    /\ emits = 0
-----------------------------------------------------------------------------
(* The anchor of the item that is worked on (module Anchor has it whole).  *)

\* `set` for an item that was claimed; without --item the old label stays, and only
\* the criteria of the same goal keep their status.
SetAnchor(i, named) ==
    /\ item[i].status \in Active /\ (Labelled => named)
    /\ anchor' = [item |-> IF named THEN i ELSE anchor.item, of |-> i,
                  done |-> IF anchor.of = i THEN anchor.done ELSE 0]
    /\ UNCHANGED <<vars, met, emitter, event, snapshot, emits>>

\* `mark` a criterion of the anchored item met, or open again.
MarkAnchor(done) ==
    /\ anchor.of # NoItem /\ done \in {anchor.done - 1, anchor.done + 1} \cap (0..MaxAcs)
    /\ anchor' = [anchor EXCEPT !.done = done]
    /\ met' = IF done > met[anchor.of] THEN [met EXCEPT ![anchor.of] = done] ELSE met
    /\ UNCHANGED <<vars, emitter, event, snapshot, emits>>
-----------------------------------------------------------------------------
(* The percentage.                                                         *)

DoneItems == {i \in Items : item[i].status = "done"}

\* read_backlog_state takes the first active row of the file.
ActiveItem ==
    LET active == {i \in Items : item[i].status \in Active}
    IN  IF active = {} THEN NoItem ELSE CHOOSE i \in active : \A j \in active : i <= j

\* Mutant: the anchor counts whatever item it is of, as it did before #304.
WrongActivePart(seen) == seen.done
\* compute_pct: the anchor counts if it names the item that is active, and an anchor
\* without a name (NoItem) counts while no item is active.
ActivePart(seen) == IF seen.item = ActiveItem THEN seen.done ELSE 0

Overall(seen) == MaxAcs * Cardinality(DoneItems) + ActivePart(seen)
-----------------------------------------------------------------------------
(* emit_event, read by read.                                               *)

Becomes(e, how) == emitter' = [emitter EXCEPT ![e] = how]

\* The closing event of a run is refeed_exit, which the stop hook emits.
ReadAnchor(e, last) ==
    /\ emitter[e].at = "idle" /\ emits < MaxEmits
    /\ emits' = emits + 1
    /\ Becomes(e, [Quiet EXCEPT !.at = "anchored", !.last = last, !.seen = anchor])
    /\ UNCHANGED <<vars, anchor, met, event, snapshot>>

ReadBacklog(e) ==
    /\ emitter[e].at = "anchored"
    /\ Becomes(e, [emitter[e] EXCEPT !.at = "counted", !.seen = NoAnchor,
                                     !.units = Overall(emitter[e].seen)])
    /\ UNCHANGED <<vars, anchor, met, event, snapshot, emits>>

AppendEvent(e) ==
    /\ emitter[e].at = "counted"
    /\ event' = [units |-> emitter[e].units, last |-> emitter[e].last]
    /\ Becomes(e, [Quiet EXCEPT !.at = "appended"])
    /\ UNCHANGED <<vars, anchor, met, snapshot, emits>>

\* The stop hook refreshes the snapshot for the header of its re-feed, without an event.
Refresh(e) ==
    /\ emitter[e].at = "idle" /\ emits < MaxEmits
    /\ emits' = emits + 1
    /\ Becomes(e, [Quiet EXCEPT !.at = "appended"])
    /\ UNCHANGED <<vars, anchor, met, event, snapshot>>

\* build_snapshot: the same two reads again, then the last event, whoever appended it.
ReadAnchorAgain(e) ==
    /\ emitter[e].at = "appended"
    /\ Becomes(e, [Quiet EXCEPT !.at = "anchored again", !.seen = anchor])
    /\ UNCHANGED <<vars, anchor, met, event, snapshot, emits>>

ReadBacklogAgain(e) ==
    /\ emitter[e].at = "anchored again"
    /\ Becomes(e, [Quiet EXCEPT !.at = "counted again", !.last = event.last,
                                !.units = Overall(emitter[e].seen)])
    /\ UNCHANGED <<vars, anchor, met, event, snapshot, emits>>

RunState(last) == IF last THEN "closed" ELSE "running"

WriteSnapshot(e) ==
    /\ emitter[e].at = "counted again"
    /\ snapshot' = [units |-> emitter[e].units, state |-> RunState(emitter[e].last)]
    /\ Becomes(e, Quiet)
    /\ UNCHANGED <<vars, anchor, met, event, emits>>

Emit(e) ==
    \/ \E last \in BOOLEAN : ReadAnchor(e, last)
    \/ ReadBacklog(e) \/ AppendEvent(e) \/ Refresh(e)
    \/ ReadAnchorAgain(e) \/ ReadBacklogAgain(e) \/ WriteSnapshot(e)

Report ==
    \/ \E i \in Items, named \in BOOLEAN : SetAnchor(i, named)
    \/ \E done \in 0..MaxAcs : MarkAnchor(done)
    \/ \E e \in Emitters : Emit(e)

\* The backlog is drained (DrainSpec) while all of this goes on.
ProgressNext == Report \/ (DrainNext /\ UNCHANGED reportVars)

ProgressSpec ==
    /\ ProgressInit /\ [][ProgressNext]_allVars
    /\ WF_allVars(Claim /\ UNCHANGED reportVars)
    /\ WF_allVars(CmdPoll /\ UNCHANGED reportVars)
    /\ \A i \in Items : WF_allVars(Finish(i) /\ UNCHANGED reportVars)
-----------------------------------------------------------------------------
\* What was ever achieved: an item that is done is worth all its units, any other
\* what was met of its criteria at best.
Earned ==
    LET worth[i \in 0..NumItems] ==
            IF i = 0 THEN 0
            ELSE worth[i - 1] + (IF i \in DoneItems THEN MaxAcs ELSE met[i])
    IN  worth[NumItems]

\* No event and no snapshot claims more than was achieved by then: an anchor that was
\* read before its item was closed, or that is left over from it, is not counted on
\* top of the closed item ("must not double-count its progress", compute_pct; "a
\* fabricated number is prohibited").
NeverOverstated == event.units <= Earned /\ snapshot.units <= Earned
=============================================================================
