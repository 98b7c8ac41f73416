------------------------------ MODULE LoopStop ------------------------------
(***************************************************************************)
(* The driver of the autonomous loop: plugin/hooks/loop_stop.py.           *)
(*                                                                         *)
(* The host runs the stop hook when the agent's turn ends.  The hook reads *)
(* the scratchpad and either feeds the goal back (next iteration) or lets  *)
(* the session end, after a handoff note if the goal is not reached.  All  *)
(* of its memory is a handful of files, written one after the other and    *)
(* shared with the agent, with background gates and with the user; the     *)
(* hook can be killed between any two writes, and almost every error in it *)
(* is swallowed.                                                           *)
(*                                                                         *)
(* Inputs the hook obtains by running something else are free choices at   *)
(* the point where it asks: missing operators, a delivery violation, the   *)
(* maintenance receipt, the verdict of the completion oracle (a script     *)
(* that is not part of this repository).                                   *)
(***************************************************************************)
EXTENDS Naturals, FiniteSets

CONSTANTS
    Caps,         \* max_iterations values loops are armed with; 0 is no cap
    Formats,      \* how the iteration line is written: "plain" or "quoted"
    DiskFails,    \* may writes and removals fail (disk full, file held open)?
    MaxLoops,     \* bound: loops armed in one behaviour
    MaxIteration, \* bound: value of the iteration line
    MaxNonces,    \* bound: challenges issued
    MaxUpsets,    \* bound: gates launched and handoffs latched
    MaxKills      \* bound: hooks killed, or cancelled while they run

ASSUME LoopAssumption ==
    /\ Caps \subseteq Nat
    /\ Formats \subseteq {"plain", "quoted"}
    /\ DiskFails \in BOOLEAN
    /\ MaxLoops \in Nat /\ MaxIteration \in Nat \ {0} /\ MaxNonces \in Nat
    /\ MaxUpsets \in Nat /\ MaxKills \in Nat

VARIABLES
    pad,        \* scratchpad.md
    doneFlag,   \* done.flag (or the legacy "done")
    stop,       \* .simplicio/orchestrator/STOP
    gate,       \* gate.lock: absent, younger than its TTL, older
    latch,      \* spindle_state.json holds an unreleased latch
    challenge,  \* nonce in watcher_challenge.json, 0 when absent
    receipt,    \* watcher_state.json: nonce it echoes; when it was made (history)
    watching,   \* what a watcher in flight will put in its receipt
    journal,    \* last row of journal.jsonl: iteration; its loop (history)
    pc,         \* whose turn it is: the agent, a step of the hook, nobody
    meta,       \* the hook's local copy of the scratchpad
    measured,   \* the hook's watcher tag: MEASURED?
    loops,      \* number of loops armed
    fate,       \* history: what became of every loop
    feeds,      \* history: re-feeds of the current loop
    nonces, upsets, kills  \* counters of the bounds

flags == <<doneFlag, stop, gate, latch>>
watch == <<challenge, receipt, watching>>
files == <<pad, flags, watch, journal>>
local == <<pc, meta, measured>>
history == <<loops, fate, feeds, nonces, upsets, kills>>
vars == <<files, local, history>>

Loops == 1..MaxLoops
\* "badint": the frontmatter parses but iteration or max_iterations does not.
Kinds == {"absent", "corrupt", "badint", "ok"}
Pad == [kind : Kinds, loop : 0..MaxLoops, iteration : 0..MaxIteration, cap : Caps \cup {0},
        format : Formats \cup {"plain"}, promise : BOOLEAN]
NoPad == [kind |-> "absent", loop |-> 0, iteration |-> 0, cap |-> 0, format |-> "plain",
          promise |-> FALSE]
Receipt == [nonce : 0..MaxNonces, loop : 0..MaxLoops, iteration : 0..MaxIteration]
NoReceipt == [nonce |-> 0, loop |-> 0, iteration |-> 0]
NoRow == [loop |-> 0, iteration |-> 0]
HookSteps == {"read", "callouts", "look", "checks", "record", "verify", "audit", "guard", "verdict",
              "bump", "challenge", "wiki", "emit", "handoff", "clean", "cleanFlags", "cleanWatcher"}
Fates == {"unborn", "running", "complete", "handed", "corrupt", "cancelled"}

TypeOK ==
    /\ pad \in Pad /\ meta \in Pad
    /\ doneFlag \in BOOLEAN /\ stop \in BOOLEAN /\ latch \in BOOLEAN /\ measured \in BOOLEAN
    /\ gate \in {"none", "fresh", "stale"}
    /\ challenge \in 0..MaxNonces
    /\ receipt \in Receipt /\ watching \in Receipt
    /\ journal \in [loop : 0..MaxLoops, iteration : 0..MaxIteration]
    /\ pc \in HookSteps \cup {"agent", "ended"}
    /\ loops \in 0..MaxLoops
    /\ fate \in [Loops -> Fates]
    /\ feeds \in 0..MaxNonces
    /\ nonces \in 0..MaxNonces /\ upsets \in 0..MaxUpsets /\ kills \in 0..MaxKills

Init ==
    /\ pad = NoPad /\ meta = NoPad
    /\ doneFlag = FALSE /\ stop = FALSE /\ latch = FALSE /\ measured = FALSE
    /\ gate = "none"
    /\ challenge = 0
    /\ receipt = NoReceipt /\ watching = NoReceipt
    /\ journal = NoRow
    /\ pc = "agent"
    /\ loops = 0
    /\ fate = [l \in Loops |-> "unborn"]
    /\ feeds = 0 /\ nonces = 0 /\ upsets = 0 /\ kills = 0

Fate(l, f) == fate' = IF l \in Loops THEN [fate EXCEPT ![l] = f] ELSE fate
Goto(step) == pc' = step
\* The hook's process is gone, and what it remembered with it.
Exit(turn) == pc' = turn /\ meta' = NoPad /\ measured' = FALSE
-----------------------------------------------------------------------------
(* The agent's turn, and what happens around the loop.                     *)

\* The scratchpad of a new loop, written by the agent (SKILL.md, state file).
Arm(cap, format, promise) ==
    /\ pc = "agent" /\ pad.kind = "absent" /\ loops < MaxLoops
    /\ loops' = loops + 1
    /\ pad' = [kind |-> "ok", loop |-> loops + 1, iteration |-> 1, cap |-> cap,
               format |-> format, promise |-> promise]
    /\ Fate(loops + 1, "running")
    /\ feeds' = 0
    /\ UNCHANGED <<flags, watch, journal, local, nonces, upsets, kills>>

\* The frontmatter gets mangled; or the user cancels by deleting the loop directory,
\* at any moment (SKILL.md, Cancel).
Mangle(kind) ==
    /\ pc = "agent" /\ pad.kind = "ok" /\ kind \in {"corrupt", "badint"}
    /\ pad' = [pad EXCEPT !.kind = kind]
    /\ UNCHANGED <<flags, watch, journal, local, history>>
Cancel ==
    /\ pad.kind # "absent"
    /\ \/ pc \in {"agent", "ended"} /\ UNCHANGED kills
       \/ pc \in HookSteps /\ kills < MaxKills /\ kills' = kills + 1
    /\ pad' = NoPad
    /\ doneFlag' = FALSE /\ gate' = "none" /\ latch' = FALSE
    /\ challenge' = 0 /\ receipt' = NoReceipt /\ journal' = NoRow
    /\ Fate(pad.loop, "cancelled")
    /\ UNCHANGED <<stop, watching, local, loops, feeds, nonces, upsets>>

\* watcher_verify.py verify reads the challenge, re-runs the checks, and writes a receipt
\* that echoes the challenge it read, which may meanwhile be an old one.  A receipt that
\* says UNVERIFIED is as good as none.
StartWatcher ==
    /\ pc = "agent" /\ challenge # 0 /\ watching = NoReceipt
    /\ watching' = [nonce |-> challenge, loop |-> pad.loop, iteration |-> pad.iteration]
    /\ UNCHANGED <<pad, flags, challenge, receipt, journal, pc, meta,
                   measured, history>>
WatcherAnswers ==
    /\ watching # NoReceipt
    /\ receipt' \in {watching, NoReceipt} /\ watching' = NoReceipt
    /\ UNCHANGED <<pad, flags, challenge, journal, local, history>>

\* loop_journal.py record for this turn; the capture hook raises the done flag.
RecordAttempt ==
    /\ pc = "agent" /\ pad.kind = "ok"
    /\ journal' = [loop |-> pad.loop, iteration |-> pad.iteration]
    /\ UNCHANGED <<pad, flags, challenge, receipt, watching, local, history>>
RaiseFlag ==
    /\ pc = "agent" /\ ~doneFlag
    /\ doneFlag' = TRUE
    /\ UNCHANGED <<pad, stop, gate, latch, watch, journal, local, history>>

\* A background gate is launched; it finishes, or its lock is left to age.
LaunchGate ==
    /\ pc = "agent" /\ upsets < MaxUpsets
    /\ gate' = "fresh" /\ upsets' = upsets + 1
    /\ UNCHANGED <<pad, doneFlag, stop, latch, watch, journal, local, loops, fate, feeds, nonces, kills>>
GateEnds ==
    /\ gate # "none"
    /\ gate' = "none"
    /\ UNCHANGED <<pad, doneFlag, stop, latch, watch, journal, local, history>>
GateAges ==
    /\ gate = "fresh"
    /\ gate' = "stale"
    /\ UNCHANGED <<pad, doneFlag, stop, latch, watch, journal, local, history>>

\* handoff.py handoff / confirm, by any agent.
Latch ==
    /\ ~latch /\ upsets < MaxUpsets
    /\ latch' = TRUE /\ upsets' = upsets + 1
    /\ UNCHANGED <<pad, doneFlag, stop, gate, watch, journal, local, loops, fate, feeds, nonces, kills>>
Confirm ==
    /\ latch
    /\ latch' = FALSE
    /\ UNCHANGED <<pad, doneFlag, stop, gate, watch, journal, local, history>>

SetStop(on) ==
    /\ stop # on
    /\ stop' = on
    /\ UNCHANGED <<pad, doneFlag, gate, latch, watch, journal, local, history>>

\* The turn ends and the host runs the hook; an ended session is started again.
EndTurn == pc = "agent" /\ Goto("read") /\ UNCHANGED <<files, meta, measured, history>>
Reinvoke == pc = "ended" /\ Goto("agent") /\ UNCHANGED <<files, meta, measured, history>>
-----------------------------------------------------------------------------
(* main: what the hook finds on disk, in the order it looks.               *)

ReadPad ==
    /\ pc = "read"
    /\ meta' = pad
    /\ Goto(IF pad.kind = "absent" THEN "look" ELSE "callouts")
    /\ UNCHANGED <<files, measured, history>>

\* The Runtime's claims, nest and checkpoint commands touch none of these files, but they
\* may take a minute between the look at the scratchpad and the look at everything else.
Callouts == pc = "callouts" /\ Goto("look") /\ UNCHANGED <<files, meta, measured, history>>

\* A STOP file beats everything; there is a handoff if there was a loop to hand off.
ReadStop ==
    /\ pc = "look" /\ stop
    /\ Goto(IF meta.kind \in {"ok", "badint"} THEN "handoff" ELSE "clean")
    /\ IF meta.kind = "corrupt" THEN Fate(meta.loop, "corrupt") ELSE UNCHANGED fate
    /\ UNCHANGED <<files, meta, measured, loops, feeds, nonces, upsets, kills>>

\* A fresh gate lock, or no loop at all: the session ends and all files stay.
ReadNothingToDo ==
    /\ pc = "look" /\ ~stop
    /\ gate = "fresh" \/ pad.kind = "absent"
    /\ Exit("ended")
    /\ UNCHANGED <<files, history>>

ReadCorrupt ==
    /\ pc = "look" /\ ~stop /\ gate # "fresh" /\ pad.kind # "absent"
    /\ meta.kind \in {"corrupt", "badint"}
    /\ Fate(meta.loop, "corrupt")
    /\ Goto("clean")
    /\ UNCHANGED <<files, meta, measured, loops, feeds, nonces, upsets, kills>>

\* Mutant: no TTL, any lock is a running gate.
WrongReadLoop ==
    /\ pc = "look" /\ ~stop /\ gate = "none" /\ pad.kind # "absent"
    /\ meta.kind = "ok"
    /\ Goto("checks")
    /\ UNCHANGED <<files, meta, measured, history>>
ReadLoop ==
    /\ pc = "look" /\ ~stop /\ gate # "fresh" /\ pad.kind # "absent"
    /\ meta.kind = "ok"
    /\ Goto("checks")
    /\ UNCHANGED <<files, meta, measured, history>>

\* A journal row of the turn that is ending, appended by a child process if it can be.
ThisTurn == [loop |-> meta.loop, iteration |-> meta.iteration]
Journaled == journal' = ThisTurn \/ (DiskFails /\ journal' = journal)

\* A bound operator does not answer; a file is there that the delivery contract forbids.
OperatorsBlock ==
    /\ pc = "checks"
    /\ Goto("handoff")
    /\ UNCHANGED <<files, meta, measured, history>>
DeliveryBlocks ==
    /\ pc = "checks"
    /\ Journaled
    /\ Goto("handoff")
    /\ UNCHANGED <<pad, flags, watch, meta, measured, history>>
ChecksPass == pc = "checks" /\ Goto("record") /\ UNCHANGED <<files, meta, measured, history>>

\* auto_record_journal, unless the last row already has this iteration.
Record ==
    /\ pc = "record"
    /\ Journaled \/ (journal.iteration = meta.iteration /\ journal' = journal)
    /\ Goto("verify")
    /\ UNCHANGED <<pad, flags, watch, meta, measured, history>>

\* Mutant: any receipt will do once there is a challenge.
WrongEchoesChallenge == receipt.nonce # 0 /\ challenge # 0
\* A receipt counts if it echoes the challenge on disk.
EchoesChallenge == receipt.nonce # 0 /\ challenge # 0 /\ receipt.nonce = challenge
Verify ==
    /\ pc = "verify"
    /\ measured' = EchoesChallenge
    /\ Goto("audit")
    /\ UNCHANGED <<files, meta, history>>

\* flow_audit_gap runs git over the working tree, for up to half a minute; what it says
\* goes to the oracle and into the header of the next turn, and stops nothing by itself.
Audit == pc = "audit" /\ Goto("guard") /\ UNCHANGED <<files, meta, measured, history>>

\* _delivery_stop_guard journals a violation of its own and goes on.
Guard ==
    /\ pc = "guard"
    /\ Journaled \/ journal' = journal
    /\ Goto("verdict")
    /\ UNCHANGED <<pad, flags, watch, meta, measured, history>>
-----------------------------------------------------------------------------
(* main: the verdict.                                                      *)

\* Mutant: off by one.
WrongCapReached == meta.cap > 0 /\ meta.iteration > meta.cap
CapReached == meta.cap > 0 /\ meta.iteration >= meta.cap

VerdictDeferred ==
    pc = "verdict" /\ Goto("handoff") /\ UNCHANGED <<files, meta, measured, history>>

\* The oracle is asked when a promise line is set and the turn's text was found, or when
\* the done flag is up; it may say ready.
OracleAsked == meta.promise \/ doneFlag
VerdictComplete ==
    /\ pc = "verdict" /\ OracleAsked
    /\ Fate(meta.loop, "complete")
    /\ Goto("clean")
    /\ UNCHANGED <<files, meta, measured, loops, feeds, nonces, upsets, kills>>

VerdictCap ==
    /\ pc = "verdict" /\ CapReached
    /\ Goto("handoff")
    /\ UNCHANGED <<files, meta, measured, history>>

\* Mutant: the note for the next agent is forgotten.
WrongVerdictLatched ==
    /\ pc = "verdict" /\ ~CapReached /\ latch
    /\ Goto("clean")
    /\ UNCHANGED <<files, meta, measured, history>>
VerdictLatched ==
    /\ pc = "verdict" /\ ~CapReached /\ latch
    /\ Goto("handoff")
    /\ UNCHANGED <<files, meta, measured, history>>

VerdictContinue ==
    /\ pc = "verdict" /\ ~CapReached /\ ~latch
    /\ Goto("bump")
    /\ UNCHANGED <<files, meta, measured, history>>

\* The file is read again and its first unquoted iteration line replaced.  A missing
\* file is an exception and a failed write an OSError: the session ends without a re-feed.
Bumped == IF pad.kind = "ok" /\ pad.format = "plain"
          THEN [pad EXCEPT !.iteration = meta.iteration + 1] ELSE pad
Bump ==
    /\ pc = "bump" /\ meta.iteration < MaxIteration
    /\ \/ pad.kind # "absent" /\ pad' = Bumped /\ Goto("challenge") /\ UNCHANGED <<meta, measured>>
       \/ (pad.kind = "absent" \/ DiskFails) /\ pad' = pad /\ Exit("ended")
    /\ UNCHANGED <<flags, watch, journal, history>>

\* write_watcher_challenge swallows its errors.
Challenge ==
    /\ pc = "challenge" /\ nonces < MaxNonces
    /\ nonces' = nonces + 1
    /\ \/ challenge' = nonces + 1
       \/ DiskFails /\ challenge' = challenge
    /\ Goto("wiki")
    /\ UNCHANGED <<pad, flags, receipt, watching, journal, meta, measured, loops, fate, feeds, upsets, kills>>

\* The shared wiki is refreshed by two child processes, which touch none of these files.
Wiki == pc = "wiki" /\ Goto("emit") /\ UNCHANGED <<files, meta, measured, history>>

\* The goal is printed: the host starts the agent's next turn.
Emit ==
    /\ pc = "emit"
    /\ feeds' = feeds + 1
    /\ Exit("agent")
    /\ UNCHANGED <<files, loops, fate, nonces, upsets, kills>>
-----------------------------------------------------------------------------
(* Stopping: write_handoff, then cleanup_and_stop file by file.  An error   *)
(* while writing the note or removing a file is passed over.               *)

Handoff ==
    /\ pc = "handoff"
    /\ \/ Fate(meta.loop, "handed")
       \/ DiskFails /\ UNCHANGED fate
    /\ Goto("clean")
    /\ UNCHANGED <<files, meta, measured, loops, feeds, nonces, upsets, kills>>

Clean ==
    /\ pc = "clean"
    /\ pad' = NoPad \/ (DiskFails /\ pad' = pad)
    /\ Goto("cleanFlags")
    /\ UNCHANGED <<flags, watch, journal, meta, measured, history>>
CleanFlags ==
    /\ pc = "cleanFlags"
    /\ doneFlag' = FALSE \/ (DiskFails /\ doneFlag' = doneFlag)
    /\ Goto("cleanWatcher")
    /\ UNCHANGED <<pad, stop, gate, latch, watch, journal, meta, measured, history>>
CleanWatcher ==
    /\ pc = "cleanWatcher"
    /\ receipt' = NoReceipt \/ (DiskFails /\ receipt' = receipt)
    /\ challenge' = 0 \/ (DiskFails /\ challenge' = challenge)
    /\ Exit("ended")
    /\ UNCHANGED <<pad, flags, watching, journal, history>>

\* The hook dies, or an exception reaches the outer except: the session ends.
Kill ==
    /\ pc \in HookSteps /\ kills < MaxKills
    /\ Exit("ended")
    /\ kills' = kills + 1
    /\ UNCHANGED <<files, loops, fate, feeds, nonces, upsets>>

HookStep ==
    \/ ReadPad \/ Callouts \/ ReadStop \/ ReadNothingToDo \/ ReadCorrupt \/ ReadLoop
    \/ OperatorsBlock \/ DeliveryBlocks \/ ChecksPass \/ Record \/ Verify \/ Audit \/ Guard
    \/ VerdictDeferred \/ VerdictComplete \/ VerdictCap \/ VerdictLatched \/ VerdictContinue
    \/ Bump \/ Challenge \/ Wiki \/ Emit
    \/ Handoff \/ Clean \/ CleanFlags \/ CleanWatcher

Around ==
    \/ \E cap \in Caps, format \in Formats, promise \in BOOLEAN : Arm(cap, format, promise)
    \/ \E kind \in {"corrupt", "badint"} : Mangle(kind)
    \/ Cancel \/ StartWatcher \/ WatcherAnswers \/ RecordAttempt \/ RaiseFlag
    \/ LaunchGate \/ GateEnds \/ GateAges \/ Latch \/ Confirm
    \/ \E on \in BOOLEAN : SetStop(on)

Next == HookStep \/ Around \/ Kill \/ EndTurn \/ Reinvoke

Spec == Init /\ [][Next]_vars

\* The host runs the hook to its end unless it dies, turns end, an idle session is
\* started again, and a lock gets old.
FairSpec ==
    /\ Spec
    /\ WF_vars(HookStep) /\ WF_vars(EndTurn) /\ WF_vars(Reinvoke) /\ WF_vars(GateAges)
-----------------------------------------------------------------------------
(* Properties.                                                             *)

\* No loop vanishes: when a scratchpad is gone its loop was completed, cancelled,
\* unreadable, or handed off first, wherever the hook was killed.
NoLoopLost == \A l \in 1..loops : fate[l] = "running" => pad.loop = l

\* A capped loop is fed back fewer times than its cap, through waits on gates,
\* kills and re-invocations.
CapHolds == pad.kind = "ok" /\ pad.cap > 0 => feeds < pad.cap

\* While no hook was killed half-way, a MEASURED tag speaks of this iteration
\* of this loop: a receipt of an earlier one "can no longer satisfy the gate on a later,
\* different iteration/goal" (watcher_verify).
ReceiptIsCurrent ==
    [][kills = 0 /\ pc = "verify" /\ pc' = "audit" /\ measured' =>
        receipt.loop = meta.loop /\ receipt.iteration = meta.iteration]_vars

\* A capped loop is over eventually, whatever stale lock, latch or kill it meets.
LoopEnds == \A l \in Loops : pad.loop = l /\ pad.cap > 0 ~> pad.loop # l
=============================================================================
