--------------------------- MODULE LoopStopProofs ---------------------------
(***************************************************************************)
(* Proofs about the loop driver, for any number of loops, caps, kills,     *)
(* gates and latches.                                                      *)
(*                                                                         *)
(*   TypeCorrect         every variable keeps its type                     *)
(*   NothingLost         NoLoopLost, when writes do not fail               *)
(*   CapIsKept           CapHolds, when the iteration line is plain        *)
(*   ReceiptsAreCurrent  ReceiptIsCurrent, when writes do not fail         *)
(*                                                                         *)
(* All rest on Base: what the hook remembers of the scratchpad while it    *)
(* runs is what is on disk, or nothing is.  The others add what is known   *)
(* at the steps that write.                                                *)
(***************************************************************************)
EXTENDS LoopStop, TLAPS

\* A re-feed uses up the challenge issued for it.
FeedsCounted == feeds + (IF pc \in {"wiki", "emit"} THEN 1 ELSE 0) <= nonces

\* A scratchpad on disk is that of a loop that was armed.
PadIsArmed ==
    /\ pad.kind = "absent" => pad = NoPad
    /\ pad.kind # "absent" => pad.loop \in 1..loops

\* Between reading the scratchpad and writing it, nobody else writes it.
Judging == {"checks", "record", "verify", "audit", "guard", "verdict", "bump"}
Reading == Judging \cup {"callouts", "look", "handoff"}
MetaIsPad ==
    pc \in Reading =>
        /\ pad = meta \/ pad = NoPad
        /\ meta.loop \in 1..loops \/ (pc = "look" /\ meta = NoPad)
        /\ pc \in Judging => meta.kind = "ok"

Base == TypeOK /\ FeedsCounted /\ PadIsArmed /\ MetaIsPad

USE DEF Loops, Kinds, Pad, NoPad, Receipt, NoReceipt, NoRow, HookSteps, Fates, Goto, Exit, Fate,
        files, flags, watch, local, history

LEMMA Exits ==
    ASSUME NEW turn, Exit(turn)
    PROVE  pc' = turn /\ meta' = NoPad /\ meta' \in Pad /\ measured' \in BOOLEAN
<1>1. measured' \in BOOLEAN
    BY ZenonT(30) DEF Exit
<1> QED
    BY <1>1, LoopAssumption

LEMMA BaseInit == Init => Base
<1> SUFFICES ASSUME Init PROVE Base
    OBVIOUS
<1>1. TypeOK
  <2>1. pad \in Pad /\ meta \in Pad
      BY LoopAssumption DEF Init
  <2>2. doneFlag \in BOOLEAN /\ stop \in BOOLEAN /\ latch \in BOOLEAN /\ measured \in BOOLEAN
      BY DEF Init
  <2>3. fate \in [Loops -> Fates]
      BY DEF Init
  <2> QED
      BY <2>1, <2>2, <2>3, LoopAssumption DEF Init, TypeOK
<1>2. FeedsCounted /\ PadIsArmed /\ MetaIsPad
    BY LoopAssumption DEF Init, FeedsCounted, PadIsArmed, MetaIsPad, Reading, Judging
<1> QED
    BY <1>1, <1>2 DEF Base

LEMMA BaseStep == Base /\ [Next]_vars => Base'
<1> SUFFICES ASSUME Base, [Next]_vars PROVE Base'
    OBVIOUS
<1> USE LoopAssumption DEF Base, TypeOK, FeedsCounted, PadIsArmed, MetaIsPad, Reading, Judging
<1>1. ASSUME NEW cap \in Caps, NEW format \in Formats, NEW promise \in BOOLEAN,
             Arm(cap, format, promise)
      PROVE  Base'
    BY <1>1 DEF Arm
<1>2. ASSUME NEW kind \in {"corrupt", "badint"}, Mangle(kind)
      PROVE  Base'
  <2>1. pad' \in Pad /\ pad'.kind # "absent" /\ pad'.loop = pad.loop
      BY <1>2 DEF Mangle
  <2> QED
      BY <1>2, <2>1 DEF Mangle
<1>3. CASE Cancel
  <2>1. doneFlag' \in BOOLEAN /\ latch' \in BOOLEAN
      BY <1>3 DEF Cancel
  <2>2. pad' \in Pad /\ fate' \in [Loops -> Fates]
      BY <1>3 DEF Cancel
  <2> QED
      BY <1>3, <2>1, <2>2, SMTT(60) DEF Cancel
<1>4. CASE StartWatcher
    BY <1>4 DEF StartWatcher
<1>5. CASE WatcherAnswers
    BY <1>5 DEF WatcherAnswers
<1>6a. CASE RecordAttempt
    BY <1>6a DEF RecordAttempt
<1>6b. CASE RaiseFlag
    BY <1>6b DEF RaiseFlag
<1>7a. CASE LaunchGate
    BY <1>7a DEF LaunchGate
<1>7b. CASE GateEnds
    BY <1>7b DEF GateEnds
<1>7c. CASE GateAges
    BY <1>7c DEF GateAges
<1>8a. CASE Latch
    BY <1>8a DEF Latch
<1>8b. CASE Confirm
  <2>1. latch' \in BOOLEAN
      BY <1>8b DEF Confirm
  <2> QED
      BY <1>8b, <2>1 DEF Confirm
<1>9. ASSUME NEW on \in BOOLEAN, SetStop(on)
      PROVE  Base'
    BY <1>9 DEF SetStop
<1>10. CASE ReadStop
  <2>1. fate' \in [Loops -> Fates]
      BY <1>10 DEF ReadStop
  <2> QED
      BY <1>10, <2>1 DEF ReadStop
<1>11. CASE ReadNothingToDo
  <2>1. Exit("ended")
      BY <1>11 DEF ReadNothingToDo
  <2>2. pc' = "ended" /\ meta' \in Pad /\ measured' \in BOOLEAN
      BY <2>1, Exits
  <2> HIDE DEF Exit
  <2> QED
      BY <1>11, <2>1, <2>2 DEF ReadNothingToDo
<1>12. CASE ReadCorrupt
  <2>1. fate' \in [Loops -> Fates]
      BY <1>12 DEF ReadCorrupt
  <2> QED
      BY <1>12, <2>1 DEF ReadCorrupt
<1>13. CASE ReadLoop
    BY <1>13 DEF ReadLoop
<1>13a. CASE ReadPad
  <2>1. pad.kind = "absent" => pc' = "look" /\ meta' = NoPad
      BY <1>13a DEF ReadPad
  <2>2. pad.kind # "absent" => pc' = "callouts" /\ meta'.loop \in 1..loops
      BY <1>13a DEF ReadPad
  <2>3. meta' = pad /\ UNCHANGED <<files, measured, history>>
      BY <1>13a DEF ReadPad
  <2>4. TypeOK'
      BY <2>1, <2>2, <2>3
  <2>5. FeedsCounted' /\ PadIsArmed'
      BY <1>13a, <2>1, <2>2, <2>3 DEF ReadPad
  <2>6. MetaIsPad'
      BY <2>1, <2>2, <2>3
  <2> QED
      BY <2>4, <2>5, <2>6
<1>13b. CASE Callouts
    BY <1>13b DEF Callouts
<1>13c. CASE Audit
    BY <1>13c DEF Audit
<1>14a. CASE OperatorsBlock
    BY <1>14a DEF OperatorsBlock
<1>14b. CASE DeliveryBlocks
  <2>1. journal' \in [loop : 0..MaxLoops, iteration : 0..MaxIteration]
      BY <1>14b DEF DeliveryBlocks, Journaled, ThisTurn
  <2> QED
      BY <1>14b, <2>1 DEF DeliveryBlocks
<1>15. CASE ChecksPass
    BY <1>15 DEF ChecksPass
<1>16. CASE Record
  <2>1. journal' \in [loop : 0..MaxLoops, iteration : 0..MaxIteration]
      BY <1>16 DEF Record, Journaled, ThisTurn
  <2> QED
      BY <1>16, <2>1 DEF Record
<1>16a. CASE Verify
  <2>1. measured' \in BOOLEAN
      BY <1>16a DEF Verify, EchoesChallenge
  <2> QED
      BY <1>16a, <2>1 DEF Verify
<1>16b. CASE Guard
  <2>1. journal' \in [loop : 0..MaxLoops, iteration : 0..MaxIteration]
      BY <1>16b DEF Guard, Journaled, ThisTurn
  <2> QED
      BY <1>16b, <2>1 DEF Guard
<1>17a. CASE VerdictDeferred
    BY <1>17a DEF VerdictDeferred
<1>17b. CASE VerdictCap
    BY <1>17b DEF VerdictCap
<1>17c. CASE VerdictLatched
    BY <1>17c DEF VerdictLatched
<1>17d. CASE VerdictContinue
    BY <1>17d DEF VerdictContinue
<1>18. CASE VerdictComplete
  <2>1. fate' \in [Loops -> Fates]
      BY <1>18 DEF VerdictComplete
  <2> QED
      BY <1>18, <2>1 DEF VerdictComplete
<1>19. CASE Bump
  <2>1. Bumped \in Pad /\ Bumped.loop = pad.loop /\ Bumped.kind = pad.kind
    <3>1. pad.kind = "ok" => pad = meta
        BY <1>19 DEF Bump
    <3>2. meta.iteration + 1 \in 0..MaxIteration
        BY <1>19 DEF Bump
    <3> QED
        BY <3>1, <3>2 DEF Bumped
  <2>2. pad' \in Pad /\ pad'.loop = pad.loop /\ pad'.kind = pad.kind
      BY <1>19, <2>1 DEF Bump
  <2>3. CASE Exit("ended")
    <3>1. pc' = "ended" /\ meta' \in Pad /\ measured' \in BOOLEAN
        BY <2>3, Exits
    <3> HIDE DEF Exit
    <3> QED
        BY <1>19, <2>2, <3>1 DEF Bump
  <2>4. CASE pc' = "challenge" /\ UNCHANGED <<meta, measured>>
      BY <1>19, <2>2, <2>4 DEF Bump
  <2> QED
      BY <1>19, <2>3, <2>4 DEF Bump
<1>20. CASE Challenge
    BY <1>20 DEF Challenge
<1>20a. CASE Wiki
    BY <1>20a DEF Wiki
<1>21. CASE Emit
  <2>1. Exit("agent")
      BY <1>21 DEF Emit
  <2>2. pc' = "agent" /\ meta' \in Pad /\ measured' \in BOOLEAN
      BY <2>1, Exits
  <2> HIDE DEF Exit
  <2> QED
      BY <1>21, <2>1, <2>2 DEF Emit
<1>22. CASE Handoff
  <2>1. fate' \in [Loops -> Fates]
      BY <1>22 DEF Handoff
  <2> QED
      BY <1>22, <2>1 DEF Handoff
<1>23a. CASE Clean
  <2>1. NoPad \in Pad
      OBVIOUS
  <2>2. CASE pad' = NoPad
      BY <1>23a, <2>1, <2>2 DEF Clean
  <2>3. CASE pad' = pad
      BY <1>23a, <2>3 DEF Clean
  <2> QED
      BY <1>23a, <2>2, <2>3 DEF Clean
<1>23b. CASE CleanFlags
  <2>1. doneFlag' \in BOOLEAN
      BY <1>23b DEF CleanFlags
  <2> QED
      BY <1>23b, <2>1 DEF CleanFlags
<1>24. CASE CleanWatcher
  <2>1. Exit("ended")
      BY <1>24 DEF CleanWatcher
  <2>2. pc' = "ended" /\ meta' \in Pad /\ measured' \in BOOLEAN
      BY <2>1, Exits
  <2> HIDE DEF Exit
  <2> QED
      BY <1>24, <2>1, <2>2, SMTT(60) DEF CleanWatcher
<1>25. CASE Kill
  <2>1. Exit("ended")
      BY <1>25 DEF Kill
  <2>2. pc' = "ended" /\ meta' \in Pad /\ measured' \in BOOLEAN
      BY <2>1, Exits
  <2> HIDE DEF Exit
  <2> QED
      BY <1>25, <2>1, <2>2 DEF Kill
<1>26. CASE EndTurn \/ Reinvoke
    BY <1>26, ZenonT(60) DEF EndTurn, Reinvoke
<1>27. CASE UNCHANGED vars
    BY <1>27 DEF vars
<1> HIDE DEF Base, TypeOK, FeedsCounted, PadIsArmed, MetaIsPad
<1> QED
    BY <1>1, <1>2, <1>3, <1>4, <1>5, <1>6a, <1>6b, <1>7a, <1>7b, <1>7c, <1>8a, <1>8b, <1>9, <1>10, <1>11, <1>12, <1>13, <1>13a, <1>13b, <1>13c, <1>14a,
       <1>14b, <1>15, <1>16, <1>16a, <1>16b, <1>17a, <1>17b, <1>17c, <1>17d, <1>18, <1>19, <1>20, <1>20a, <1>21, <1>22, <1>23a, <1>23b, <1>24, <1>25, <1>26, <1>27
    DEF Next, HookStep, Around

\* Every variable keeps its type, whatever the agent, the user, background gates
\* and other agents do to the files while the hook runs.
THEOREM TypeCorrect == Spec => []TypeOK
<1>1. Base => TypeOK
    BY DEF Base
<1> QED
    BY BaseInit, BaseStep, <1>1, PTL DEF Spec
-----------------------------------------------------------------------------
(* Nothing is lost.                                                        *)

\* Before the scratchpad is removed its loop is settled.
CleanIsSettled == pc = "clean" /\ pad.loop # 0 => fate[pad.loop] # "running"

Settling == Base /\ NoLoopLost /\ CleanIsSettled

LEMMA SettlingStep ==
    ASSUME DiskFails = FALSE, Base', Settling, [Next]_vars
    PROVE  Settling'
<1> USE LoopAssumption DEF Base, TypeOK, PadIsArmed, MetaIsPad, Reading, Judging, Settling, NoLoopLost,
                           CleanIsSettled
<1>1. ASSUME NEW cap \in Caps, NEW format \in Formats, NEW promise \in BOOLEAN,
             Arm(cap, format, promise)
      PROVE  Settling'
    BY <1>1 DEF Arm
<1>2. ASSUME NEW kind \in {"corrupt", "badint"}, Mangle(kind)
      PROVE  Settling'
    BY <1>2 DEF Mangle
<1>3. CASE Cancel
    BY <1>3 DEF Cancel
<1>4. CASE ReadStop
    BY <1>4 DEF ReadStop
<1>5. CASE ReadCorrupt
    BY <1>5 DEF ReadCorrupt
<1>6. CASE VerdictComplete
    BY <1>6 DEF VerdictComplete
<1>7. CASE Bump
    BY <1>7, ZenonT(60) DEF Bump, Bumped
<1>8. CASE Handoff
    BY <1>8 DEF Handoff
<1>9. CASE Clean
    BY <1>9 DEF Clean
<1>10. ASSUME UNCHANGED <<pad, loops, fate>>, pc' # "clean"
       PROVE  Settling'
    BY <1>10
<1>11. ASSUME UNCHANGED <<pad, loops, fate, pc>>
       PROVE  Settling'
    BY <1>11
<1> HIDE DEF Base, TypeOK, PadIsArmed, MetaIsPad, Settling, NoLoopLost, CleanIsSettled
<1>12. CASE \/ ReadPad \/ Callouts \/ OperatorsBlock \/ DeliveryBlocks \/ Verify \/ Audit \/ Guard
    BY <1>10, <1>12 DEF ReadPad, Callouts, OperatorsBlock, DeliveryBlocks, Verify, Audit, Guard
<1>13. CASE \/ ReadNothingToDo \/ ReadLoop \/ ChecksPass \/ Record \/ VerdictDeferred
            \/ VerdictCap \/ VerdictLatched \/ VerdictContinue \/ Challenge \/ Wiki \/ Emit
            \/ CleanFlags \/ CleanWatcher \/ Kill \/ EndTurn \/ Reinvoke
    BY <1>10, <1>13 DEF ReadNothingToDo, ReadLoop, ChecksPass, Record, VerdictDeferred, VerdictCap,
       VerdictLatched, VerdictContinue, Challenge, Wiki, Emit, CleanFlags, CleanWatcher, Kill, EndTurn,
       Reinvoke
<1>14. ASSUME NEW on \in BOOLEAN, SetStop(on)
       PROVE  Settling'
    BY <1>11, <1>14 DEF SetStop
<1>15. CASE \/ StartWatcher \/ WatcherAnswers \/ RecordAttempt \/ RaiseFlag \/ LaunchGate
            \/ GateEnds \/ GateAges \/ Latch \/ Confirm \/ UNCHANGED vars
    BY <1>11, <1>15 DEF StartWatcher, WatcherAnswers, RecordAttempt, RaiseFlag, LaunchGate,
       GateEnds, GateAges, Latch, Confirm, vars
<1> QED
    BY <1>1, <1>2, <1>3, <1>4, <1>5, <1>6, <1>7, <1>8, <1>9, <1>12, <1>13, <1>14, <1>15
    DEF Next, HookStep, Around

\* A scratchpad disappears only when its loop was completed, cancelled, unreadable or
\* handed off first, wherever the hook is killed, if the handoff note can be written.
\* (main, write_handoff, cleanup_and_stop)
THEOREM NothingLost == DiskFails = FALSE => (Spec => []NoLoopLost)
<1> SUFFICES ASSUME DiskFails = FALSE PROVE Spec => []NoLoopLost
    OBVIOUS
<1>1. Init => Settling
    BY BaseInit, LoopAssumption DEF Init, Settling, NoLoopLost, CleanIsSettled
<1>2. Settling /\ [Next]_vars => Settling'
    BY BaseStep, SettlingStep DEF Settling
<1>3. Settling => NoLoopLost
    BY DEF Settling
<1> QED
    BY <1>1, <1>2, <1>3, PTL DEF Spec
-----------------------------------------------------------------------------
(* The cap.                                                                *)

\* An iteration is counted before it is fed back.
FeedsBehind ==
    pad.kind = "ok" =>
        /\ feeds < pad.iteration
        /\ pc \in {"challenge", "wiki", "emit"} => feeds + 1 < pad.iteration
        /\ pad.cap > 0 => pad.iteration <= pad.cap
BumpBelowCap == pc = "bump" /\ meta.cap > 0 => meta.iteration < meta.cap

Counting == Base /\ FeedsBehind /\ BumpBelowCap

LEMMA Numbers ==
    TypeOK => /\ feeds \in Nat
              /\ pad.iteration \in Nat /\ pad.cap \in Nat
              /\ meta.iteration \in Nat /\ meta.cap \in Nat
<1>1. Caps \cup {0} \subseteq Nat
    BY LoopAssumption
<1>2. \A p \in Pad : p.iteration \in Nat /\ p.cap \in Caps \cup {0}
    BY LoopAssumption
<1>3. TypeOK => feeds \in Nat
    BY LoopAssumption DEF TypeOK
<1> HIDE DEF Pad
<1>4. TypeOK => pad \in Pad /\ meta \in Pad
    BY DEF TypeOK
<1> QED
    BY <1>1, <1>2, <1>3, <1>4

LEMMA CountingStep ==
    ASSUME Formats = {"plain"}, Base', Counting, [Next]_vars
    PROVE  Counting'
<1> USE LoopAssumption DEF Base, TypeOK, PadIsArmed, MetaIsPad, Reading, Judging, Counting, FeedsBehind,
                           BumpBelowCap
<1>1. ASSUME NEW cap \in Caps, NEW format \in Formats, NEW promise \in BOOLEAN,
             Arm(cap, format, promise)
      PROVE  Counting'
    BY <1>1 DEF Arm
<1>2. ASSUME NEW kind \in {"corrupt", "badint"}, Mangle(kind)
      PROVE  Counting'
    BY <1>2 DEF Mangle
<1>3. CASE Cancel
    BY <1>3 DEF Cancel
<1>4. CASE VerdictContinue
    BY <1>4, Numbers DEF VerdictContinue, CapReached
<1>5. CASE Bump
  <2>1. pad.format = "plain"
      OBVIOUS
  <2>2. CASE pad' = Bumped /\ pad.kind = "ok"
    <3>1. pad = meta
        BY <1>5, <2>2 DEF Bump
    <3>2. pad'.iteration = pad.iteration + 1 /\ pad'.cap = pad.cap
        BY <2>1, <2>2, <3>1 DEF Bumped
    <3> QED
        BY <1>5, <2>2, <3>1, <3>2, Numbers, SMTT(60) DEF Bump
  <2>3. CASE pad.kind # "ok"
      BY <1>5, <2>3 DEF Bump, Bumped
  <2>4. CASE pad' = pad /\ pc' = "ended"
      BY <1>5, <2>4 DEF Bump
  <2> QED
      BY <1>5, <2>2, <2>3, <2>4 DEF Bump
<1>6. CASE Challenge
    BY <1>6 DEF Challenge
<1>6a. CASE Wiki
    BY <1>6a DEF Wiki
<1>7. CASE Emit
    BY <1>7 DEF Emit
<1>8. CASE Clean
    BY <1>8 DEF Clean
<1>9. ASSUME UNCHANGED <<pad, feeds>>, pc' \notin {"challenge", "wiki", "emit", "bump"}
      PROVE  Counting'
    BY <1>9
<1>10. ASSUME UNCHANGED <<pad, feeds, pc, meta>>
       PROVE  Counting'
    BY <1>10
<1> HIDE DEF Base, TypeOK, PadIsArmed, MetaIsPad, Counting, FeedsBehind, BumpBelowCap
<1>11. CASE \/ ReadPad \/ Callouts \/ OperatorsBlock \/ DeliveryBlocks \/ Verify \/ Audit \/ Guard
    BY <1>9, <1>11 DEF ReadPad, Callouts, OperatorsBlock, DeliveryBlocks, Verify, Audit, Guard
<1>12. CASE \/ ReadStop \/ ReadNothingToDo \/ ReadCorrupt \/ ReadLoop \/ ChecksPass \/ Record
            \/ VerdictDeferred \/ VerdictComplete \/ VerdictCap \/ VerdictLatched \/ Handoff
            \/ CleanFlags \/ CleanWatcher \/ Kill \/ EndTurn \/ Reinvoke
    BY <1>9, <1>12 DEF ReadStop, ReadNothingToDo, ReadCorrupt, ReadLoop, ChecksPass, Record,
       VerdictDeferred, VerdictComplete, VerdictCap, VerdictLatched, Handoff, CleanFlags,
       CleanWatcher, Kill, EndTurn, Reinvoke
<1>13. ASSUME NEW on \in BOOLEAN, SetStop(on)
       PROVE  Counting'
    BY <1>10, <1>13 DEF SetStop
<1>14. CASE \/ StartWatcher \/ WatcherAnswers \/ RecordAttempt \/ RaiseFlag \/ LaunchGate
            \/ GateEnds \/ GateAges \/ Latch \/ Confirm \/ UNCHANGED vars
    BY <1>10, <1>14 DEF StartWatcher, WatcherAnswers, RecordAttempt, RaiseFlag, LaunchGate,
       GateEnds, GateAges, Latch, Confirm, vars
<1> QED
    BY <1>1, <1>2, <1>3, <1>4, <1>5, <1>6, <1>6a, <1>7, <1>8, <1>11, <1>12, <1>13, <1>14
    DEF Next, HookStep, Around

\* A loop with a cap is fed back fewer times than its cap, through waits on gates, kills
\* and re-invocations, if its iteration line is one the hook can rewrite.  (main)
THEOREM CapIsKept == Formats = {"plain"} => (Spec => []CapHolds)
<1> SUFFICES ASSUME Formats = {"plain"} PROVE Spec => []CapHolds
    OBVIOUS
<1>1. Init => Counting
    BY BaseInit, LoopAssumption DEF Init, Counting, FeedsBehind, BumpBelowCap
<1>2. Counting /\ [Next]_vars => Counting'
    BY BaseStep, CountingStep DEF Counting
<1>3. Counting => CapHolds
    BY Numbers DEF Counting, Base, FeedsBehind, CapHolds
<1> QED
    BY <1>1, <1>2, <1>3, PTL DEF Spec
-----------------------------------------------------------------------------
(* The receipt.                                                            *)

\* Before the hook has been killed half-way, a challenge on disk is the newest one and
\* belongs to the scratchpad on disk; so does every receipt that echoes it, but for the
\* moment between bumping the iteration and writing the next challenge.
Speaks(r) == r.nonce # 0 /\ r.nonce = challenge /\ pad.kind # "absent" /\ pc # "challenge" =>
                r.loop = pad.loop /\ r.iteration = pad.iteration
Current ==
    /\ challenge \in {0, nonces}
    /\ receipt.nonce <= nonces /\ watching.nonce <= nonces
    /\ pc \in Reading => meta = pad
    /\ pc = "challenge" => pad.kind # "absent"
    /\ pad.kind = "absent" /\ pc \notin {"cleanFlags", "cleanWatcher"} => challenge = 0
    /\ Speaks(receipt) /\ Speaks(watching)

Challenging == Base /\ (kills = 0 => Current)

LEMMA CurrentStep ==
    ASSUME DiskFails = FALSE, Base, Current, kills = 0, kills' = 0, [Next]_vars
    PROVE  Current'
<1> USE LoopAssumption DEF Base, TypeOK, PadIsArmed, MetaIsPad, Reading, Judging, Current, Speaks
<1>1. ASSUME NEW cap \in Caps, NEW format \in Formats, NEW promise \in BOOLEAN,
             Arm(cap, format, promise)
      PROVE  Current'
    BY <1>1 DEF Arm
<1>2. ASSUME NEW kind \in {"corrupt", "badint"}, Mangle(kind)
      PROVE  Current'
    BY <1>2 DEF Mangle
<1>3. CASE Cancel
    BY <1>3 DEF Cancel
<1>4. CASE StartWatcher
    BY <1>4 DEF StartWatcher
<1>5. CASE WatcherAnswers
  <2>1. receipt' = watching \/ receipt' = NoReceipt
      BY <1>5 DEF WatcherAnswers
  <2>2. watching' = NoReceipt /\ NoReceipt.nonce = 0 /\ nonces \in Nat
      BY <1>5 DEF WatcherAnswers
  <2>3. UNCHANGED <<pad, challenge, pc, meta, nonces>>
      BY <1>5 DEF WatcherAnswers
  <2>4. receipt'.nonce <= nonces /\ watching'.nonce <= nonces
      BY <2>1, <2>2
  <2>5. Speaks(receipt)' /\ Speaks(watching)'
      BY <2>1, <2>2, <2>3
  <2> QED
      BY <2>2, <2>3, <2>4, <2>5
<1>6. CASE ReadPad
    BY <1>6 DEF ReadPad
<1>7. CASE Bump
    BY <1>7 DEF Bump, Bumped
<1>8. CASE Challenge
  <2>1. nonces \in Nat /\ nonces' = nonces + 1 /\ challenge' = nonces' /\ pc' = "wiki"
      BY <1>8 DEF Challenge
  <2>2. pc = "challenge" /\ UNCHANGED <<pad, receipt, watching, meta>>
      BY <1>8 DEF Challenge
  <2>3. receipt.nonce \in Nat /\ watching.nonce \in Nat
      OBVIOUS
  <2>4. Speaks(receipt)' /\ Speaks(watching)'
      BY <2>1, <2>2, <2>3
  <2>5. pad.kind # "absent"
      BY <2>2
  <2> QED
      BY <2>1, <2>2, <2>3, <2>4, <2>5
<1>9. CASE Clean
    BY <1>9 DEF Clean
<1>10. CASE CleanWatcher
    BY <1>10 DEF CleanWatcher
<1>11. ASSUME UNCHANGED <<pad, watch, nonces, meta, pc>>
       PROVE  Current'
    BY <1>11
<1>12. ASSUME UNCHANGED <<pad, watch, nonces, meta>>, pc \in Reading \ {"handoff"},
              pc' \in HookSteps \ {"challenge", "cleanFlags", "cleanWatcher"}
       PROVE  Current'
    BY <1>12
<1>13. ASSUME UNCHANGED <<pad, watch, nonces>>, pc \notin {"cleanFlags", "cleanWatcher", "challenge"},
              pc' \notin Reading \cup {"challenge", "cleanFlags", "cleanWatcher"}
       PROVE  Current'
    BY <1>13
<1>14. CASE CleanFlags
    BY <1>14 DEF CleanFlags
<1> HIDE DEF Base, TypeOK, PadIsArmed, MetaIsPad, Current, Speaks
<1>15. CASE \/ Callouts \/ ReadStop \/ ReadCorrupt \/ ReadLoop \/ OperatorsBlock \/ DeliveryBlocks
            \/ ChecksPass \/ Record \/ Verify \/ Audit \/ Guard \/ VerdictDeferred \/ VerdictComplete
            \/ VerdictCap \/ VerdictLatched \/ VerdictContinue
    BY <1>12, <1>15 DEF Callouts, ReadStop, ReadCorrupt, ReadLoop, OperatorsBlock, DeliveryBlocks,
       ChecksPass, Record, Verify, Audit, Guard, VerdictDeferred, VerdictComplete, VerdictCap,
       VerdictLatched, VerdictContinue
<1>16. CASE \/ ReadNothingToDo \/ Wiki \/ Emit \/ Handoff \/ EndTurn \/ Reinvoke
    BY <1>13, <1>16 DEF ReadNothingToDo, Wiki, Emit, Handoff, EndTurn, Reinvoke
<1>17. ASSUME NEW on \in BOOLEAN, SetStop(on)
       PROVE  Current'
    BY <1>11, <1>17 DEF SetStop
<1>18. CASE \/ RecordAttempt \/ RaiseFlag \/ LaunchGate \/ GateEnds \/ GateAges \/ Latch \/ Confirm
            \/ UNCHANGED vars
    BY <1>11, <1>18 DEF RecordAttempt, RaiseFlag, LaunchGate, GateEnds, GateAges, Latch, Confirm, vars
<1>19. ~Kill
    BY DEF Kill, Base, TypeOK
<1> QED
    BY <1>1, <1>2, <1>3, <1>4, <1>5, <1>6, <1>7, <1>8, <1>9, <1>10, <1>14, <1>15, <1>16, <1>17,
       <1>18, <1>19 DEF Next, HookStep, Around

\* No bound of kills is ever given back.
LEMMA KillsStay == Base /\ [Next]_vars /\ kills' = 0 => kills = 0
<1> SUFFICES ASSUME Base, [Next]_vars, kills' = 0 PROVE kills = 0
    OBVIOUS
<1>0. kills \in Nat
    BY LoopAssumption DEF Base, TypeOK
<1>1. CASE Cancel \/ Kill
    BY <1>0, <1>1 DEF Cancel, Kill
<1>2. CASE UNCHANGED kills
    BY <1>2
<1>3. ~(Cancel \/ Kill) => UNCHANGED kills
    BY DEF Next, HookStep, Around, vars, Arm, Mangle, StartWatcher, WatcherAnswers, RecordAttempt,
       RaiseFlag, LaunchGate, GateEnds, GateAges, Latch, Confirm, SetStop, EndTurn, Reinvoke,
       ReadPad, Callouts, ReadStop, ReadNothingToDo, ReadCorrupt, ReadLoop, OperatorsBlock,
       DeliveryBlocks, ChecksPass, Record, Verify, Audit, Guard, VerdictDeferred, VerdictComplete,
       VerdictCap, VerdictLatched, VerdictContinue, Bump, Challenge, Wiki, Emit, Handoff, Clean,
       CleanFlags, CleanWatcher
<1> QED
    BY <1>1, <1>2, <1>3

\* While no hook has been killed half-way and writes do not fail, the hook calls a turn
\* MEASURED only on a receipt of this iteration of this loop, however late the watchers of
\* earlier iterations and loops answer.  (watcher_verify, write_watcher_challenge)
THEOREM ReceiptsAreCurrent == DiskFails = FALSE => (Spec => ReceiptIsCurrent)
<1> SUFFICES ASSUME DiskFails = FALSE PROVE Spec => ReceiptIsCurrent
    OBVIOUS
<1>1. Init => Challenging
    BY BaseInit, LoopAssumption DEF Init, Challenging, Current, Speaks, Reading, Judging
<1>2. Challenging /\ [Next]_vars => Challenging'
    BY BaseStep, CurrentStep, KillsStay DEF Challenging
<1>3. Challenging /\ [Next]_vars =>
        [kills = 0 /\ pc = "verify" /\ pc' = "audit" /\ measured' =>
            receipt.loop = meta.loop /\ receipt.iteration = meta.iteration]_vars
  <2> SUFFICES ASSUME Challenging, [Next]_vars, kills = 0, pc = "verify", pc' = "audit", measured'
               PROVE  receipt.loop = meta.loop /\ receipt.iteration = meta.iteration
      OBVIOUS
  <2>1. Verify
      BY DEF Next, HookStep, Around, vars, Arm, Mangle, Cancel, StartWatcher, WatcherAnswers,
         RecordAttempt, RaiseFlag, LaunchGate, GateEnds, GateAges, Latch, Confirm, SetStop,
         EndTurn, Reinvoke, Kill,
         ReadPad, Callouts, ReadStop, ReadNothingToDo, ReadCorrupt, ReadLoop, OperatorsBlock,
         DeliveryBlocks, ChecksPass, Record, Audit, Guard, VerdictDeferred, VerdictComplete,
         VerdictCap, VerdictLatched, VerdictContinue, Bump, Challenge, Wiki, Emit, Handoff, Clean,
         CleanFlags, CleanWatcher
  <2>2. EchoesChallenge
      BY <2>1, Zenon DEF Verify
  <2>3. meta = pad /\ meta.kind = "ok" /\ Speaks(receipt)
      BY DEF Challenging, Current, Base, MetaIsPad, Reading, Judging
  <2> QED
      BY <2>2, <2>3 DEF EchoesChallenge, Speaks
<1> QED
    BY <1>1, <1>2, <1>3, PTL DEF Spec, ReceiptIsCurrent
=============================================================================
