---------------------------- MODULE AppendProofs ----------------------------
(***************************************************************************)
(* Theorems about the two files that the loop's scripts append to: the     *)
(* event log of the handoff and the attempt journal.                       *)
(*                                                                         *)
(* The log of the handoff is only ever touched through the locked append,  *)
(* and the locked append never interleaves two records, for any number of  *)
(* processes, calls, kills and failed writes.                              *)
(*                                                                         *)
(* What the detector and the planner read out of the journal is proved for *)
(* every threshold, every window that holds it, and journals of any        *)
(* length.  The streak is chosen, so everything rests on there being one:  *)
(* a longest tail of equal failures exists because the numbers have least  *)
(* elements.  That a pass ends a stall is an argument about places: where  *)
(* the merge puts the last row of either file is the end, and nothing else *)
(* is there.                                                               *)
(***************************************************************************)
EXTENDS Handoff, Attempts, SequenceTheorems, FiniteSetTheorems, WellFoundedInduction, TLAPS

InLock == {"holding", "half", "written"}

\* Who is inside the lock holds it, and a half-written line is the last one.
LockInv ==
    /\ \A w \in Writers : at[w] \in InLock <=> holder = w
    /\ \A w \in Writers : at[w] = "half" =>
          Len(log) > 0 /\ log[Len(log)] = Head1(record[w])

AppendInv == AppendTypeOK /\ TailFollowsHead /\ LockInv

LEMMA AppendInitInv == AppendInit => AppendInv
  BY NobodyAssumption
  DEF AppendInit, AppendInv, AppendTypeOK, TailFollowsHead, IsTail, LockInv, InLock, Fragment

\* Writing a head behind any log, and a tail behind its own head, keeps the order.
LEMMA AppendHead ==
  ASSUME log \in Seq(Fragment), TailFollowsHead, NEW r \in Nat,
         log' = Append(log, Head1(r))
  PROVE  /\ log' \in Seq(Fragment) /\ TailFollowsHead'
         /\ Len(log') > 0 /\ log'[Len(log')] = Head1(r)
<1>1. Head1(r) \in Fragment BY DEF Head1, Fragment
<1>2. log' \in Seq(Fragment) /\ Len(log') = Len(log) + 1 /\ Len(log) \in Nat BY <1>1
<1>3. log'[Len(log')] = Head1(r) BY <1>1, <1>2
<1>4. ASSUME NEW i \in 1..Len(log)', IsTail(i)'
      PROVE  i > 1 /\ log'[i - 1] = Head1(log'[i].record)
  <2>1. i # Len(log)' BY <1>3, <1>4 DEF IsTail, Head1
  <2>2. i \in 1..Len(log) /\ log'[i] = log[i] BY <1>1, <1>2, <2>1
  <2>3. i > 1 /\ log[i - 1] = Head1(log[i].record)
    BY <1>4, <2>2 DEF TailFollowsHead, IsTail
  <2>4. log'[i - 1] = log[i - 1] BY <1>1, <1>2, <2>2, <2>3
  <2> QED BY <2>2, <2>3, <2>4
<1> QED BY <1>2, <1>3, <1>4 DEF TailFollowsHead

LEMMA AppendTail ==
  ASSUME log \in Seq(Fragment), TailFollowsHead, NEW r \in Nat,
         Len(log) > 0, log[Len(log)] = Head1(r), log' = Append(log, Tail1(r))
  PROVE  log' \in Seq(Fragment) /\ TailFollowsHead'
<1>1. Tail1(r) \in Fragment /\ Tail1(r).record = r BY DEF Tail1, Fragment
<1>2. log' \in Seq(Fragment) /\ Len(log') = Len(log) + 1 /\ Len(log) \in Nat BY <1>1
<1>3. log'[Len(log')] = Tail1(r) /\ log'[Len(log') - 1] = Head1(r) BY <1>1, <1>2
<1>4. ASSUME NEW i \in 1..Len(log)', IsTail(i)'
      PROVE  i > 1 /\ log'[i - 1] = Head1(log'[i].record)
  <2>1. CASE i = Len(log)' BY <1>1, <1>2, <1>3, <2>1
  <2>2. CASE i # Len(log)'
    <3>1. i \in 1..Len(log) /\ log'[i] = log[i] BY <1>1, <1>2, <2>2
    <3>2. i > 1 /\ log[i - 1] = Head1(log[i].record)
      BY <1>4, <3>1 DEF TailFollowsHead, IsTail
    <3>3. log'[i - 1] = log[i - 1] BY <1>1, <1>2, <3>1, <3>2
    <3> QED BY <3>1, <3>2, <3>3
  <2> QED BY <2>1, <2>2
<1> QED BY <1>2, <1>4 DEF TailFollowsHead

LEMMA AppendStepInv == AppendInv /\ [AppendNext]_appendVars => AppendInv'
<1> SUFFICES ASSUME AppendInv, [AppendNext]_appendVars PROVE AppendInv'
  OBVIOUS
<1> USE NobodyAssumption
<1>1. CASE UNCHANGED appendVars
  BY <1>1 DEF AppendInv, AppendTypeOK, TailFollowsHead, IsTail, LockInv, appendVars
<1>2. ASSUME NEW w \in Writers, Call(w) PROVE AppendInv'
  <2>1. AppendTypeOK' BY <1>2 DEF AppendInv, AppendTypeOK, Call
  <2>2. TailFollowsHead' BY <1>2 DEF AppendInv, TailFollowsHead, IsTail, Call
  <2>3. LockInv' BY <1>2 DEF AppendInv, AppendTypeOK, LockInv, InLock, Call
  <2> QED BY <2>1, <2>2, <2>3 DEF AppendInv
<1>3. ASSUME NEW w \in Writers, Acquire(w) PROVE AppendInv'
  <2>1. AppendTypeOK' BY <1>3 DEF AppendInv, AppendTypeOK, Acquire
  <2>2. TailFollowsHead' BY <1>3 DEF AppendInv, TailFollowsHead, IsTail, Acquire
  <2>3. LockInv' BY <1>3 DEF AppendInv, AppendTypeOK, LockInv, InLock, Acquire
  <2> QED BY <2>1, <2>2, <2>3 DEF AppendInv
<1>4. ASSUME NEW w \in Writers, GiveUp(w) PROVE AppendInv'
  <2>1. AppendTypeOK' BY <1>4 DEF AppendInv, AppendTypeOK, GiveUp
  <2>2. TailFollowsHead' BY <1>4 DEF AppendInv, TailFollowsHead, IsTail, GiveUp
  <2>3. LockInv' BY <1>4 DEF AppendInv, AppendTypeOK, LockInv, InLock, GiveUp
  <2> QED BY <2>1, <2>2, <2>3 DEF AppendInv
<1>5. ASSUME NEW w \in Writers, WriteHead(w) PROVE AppendInv'
  <2>1. record[w] \in Nat BY DEF AppendInv, AppendTypeOK
  <2>2. /\ log' \in Seq(Fragment) /\ TailFollowsHead'
        /\ Len(log') > 0 /\ log'[Len(log')] = Head1(record[w])
    BY <1>5, <2>1, AppendHead DEF AppendInv, AppendTypeOK, WriteHead
  <2>3. AppendTypeOK' BY <1>5, <2>2 DEF AppendInv, AppendTypeOK, WriteHead
  <2>4. LockInv' BY <1>5, <2>2 DEF AppendInv, AppendTypeOK, LockInv, InLock, WriteHead
  <2> QED BY <2>2, <2>3, <2>4 DEF AppendInv
<1>6. ASSUME NEW w \in Writers, WriteTail(w) PROVE AppendInv'
  <2>1. /\ record[w] \in Nat /\ Len(log) > 0 /\ log[Len(log)] = Head1(record[w])
    BY <1>6 DEF AppendInv, AppendTypeOK, LockInv, WriteTail
  <2>2. log' \in Seq(Fragment) /\ TailFollowsHead'
    BY <1>6, <2>1, AppendTail DEF AppendInv, AppendTypeOK, WriteTail
  <2>3. AppendTypeOK' BY <1>6, <2>2 DEF AppendInv, AppendTypeOK, WriteTail
  <2>4. \A v \in Writers : at'[v] \in InLock <=> holder' = v
    BY <1>6 DEF AppendInv, AppendTypeOK, LockInv, InLock, WriteTail
  <2>5. \A v \in Writers : at'[v] # "half"
    BY <1>6 DEF AppendInv, AppendTypeOK, LockInv, InLock, WriteTail
  <2> QED BY <2>2, <2>3, <2>4, <2>5 DEF AppendInv, LockInv
<1>7. ASSUME NEW w \in Writers, Release(w) PROVE AppendInv'
  <2>1. AppendTypeOK' BY <1>7 DEF AppendInv, AppendTypeOK, Release
  <2>2. TailFollowsHead' BY <1>7 DEF AppendInv, TailFollowsHead, IsTail, Release
  <2>3. LockInv' BY <1>7 DEF AppendInv, AppendTypeOK, LockInv, InLock, Release
  <2> QED BY <2>1, <2>2, <2>3 DEF AppendInv
<1>8. ASSUME NEW w \in Writers, Stop(w) PROVE AppendInv'
  <2>1. AppendTypeOK' BY <1>8 DEF AppendInv, AppendTypeOK, Stop
  <2>2. TailFollowsHead' BY <1>8 DEF AppendInv, TailFollowsHead, IsTail, Stop
  <2>3. LockInv' BY <1>8 DEF AppendInv, AppendTypeOK, LockInv, InLock, Stop
  <2> QED BY <2>1, <2>2, <2>3 DEF AppendInv
<1> QED BY <1>1, <1>2, <1>3, <1>4, <1>5, <1>6, <1>7, <1>8
        DEF AppendNext, AppendStep, WriteFails
-----------------------------------------------------------------------------
\* Every behaviour of locked_append_line, on any platform with a lock, keeps
\* the records apart.
THEOREM RecordsNeverInterleave == AppendSpec => []TailFollowsHead
<1>1. AppendInv => TailFollowsHead BY DEF AppendInv
<1> QED BY <1>1, AppendInitInv, AppendStepInv, PTL DEF AppendSpec

\* A step of the handoff is a step of the locked append, or leaves the log alone.
LEMMA HandoffStepIsAppendStep == [Next]_vars => [AppendNext]_appendVars
<1> SUFFICES ASSUME [Next]_vars PROVE [AppendNext]_appendVars
  OBVIOUS
<1>1. CASE UNCHANGED vars BY <1>1 DEF vars
<1>2. ASSUME NEW w \in Writers,
             \/ CmdHandoff(w) \/ CmdConfirm(w) \/ CmdClear(w)
             \/ Open(w) \/ Write(w) \/ Rename(w) \/ RenameFails(w)
             \/ WriteNote(w) \/ Finish(w)
      PROVE  UNCHANGED appendVars
  BY <1>2 DEF CmdHandoff, CmdConfirm, CmdClear, Open, Write, Rename, RenameFails,
              WriteNote, Finish
<1>3. ASSUME NEW w \in Writers, AppendEvent(w) PROVE AppendNext
  BY <1>3 DEF AppendEvent, AppendNext
<1>4. ASSUME NEW w \in Writers, LogStep(w) PROVE AppendNext
  BY <1>4 DEF LogStep, AppendNext, AppendStep
<1>5. ASSUME NEW w \in Writers, Kill(w) PROVE [AppendNext]_appendVars
  BY <1>5 DEF Kill, AppendNext
<1> QED BY <1>1, <1>2, <1>3, <1>4, <1>5 DEF Next

\* The composition: the handoff commands, however they overlap and whichever are
\* killed, use the log as the locked append's specification allows.
THEOREM HandoffImplementsAppend == Spec => AppendSpec
<1>1. Init => AppendInit BY DEF Init
<1> QED BY <1>1, HandoffStepIsAppendStep, PTL DEF Spec, AppendSpec

\* So no event of one command is ever written inside an event of another.
THEOREM EventsNeverInterleave == Spec => []TailFollowsHead
BY HandoffImplementsAppend, RecordsNeverInterleave, PTL
-----------------------------------------------------------------------------
(* The latch.                                                              *)

\* Where the commands are when no command read the state while another was about to
\* replace it.
Calm ==
    /\ file \in Inodes \cup {NoInode} /\ tmp \in Inodes \cup {NoInode}
    /\ content \in [Inodes -> Spindle \cup {NoSpindle}]
    /\ legacy \in Spindle \cup {NoSpindle}
    /\ step \in [Writers -> Changing \cup {"idle", "note", "event", "logging"}]
    /\ command \in [Writers -> {"handoff", "confirm", "clear"}]
    /\ mem \in [Writers -> Spindle \cup {NoSpindle}]
    /\ fd \in [Writers -> Inodes \cup {NoInode}]
    /\ made \in 0..MaxHandoffs /\ shipped \subseteq 1..made
    /\ received \in [0..MaxHandoffs -> Nat]
    /\ tmp # NoInode => tmp # file
    /\ \A v, w \in Writers : step[v] \in Changing /\ step[w] \in Changing => v = w
    /\ \A w \in Writers :
         IF step[w] \in {"write", "rename"} THEN fd[w] = tmp /\ tmp # NoInode
         ELSE fd[w] = NoInode
    /\ \A w \in Writers : step[w] = "write" => tmp \in empty
    /\ \A w \in Writers : step[w] = "rename" => content[tmp] = mem[w]
    /\ \A w \in Writers : step[w] \in Changing =>
         /\ mem[w] \in Spindle
         /\ \/ /\ command[w] = "handoff" /\ made \notin shipped
               /\ mem[w] = [no |-> made, latch |-> TRUE] /\ made # 0
            \/ /\ command[w] = "confirm"
               /\ Read # NoSpindle /\ mem[w] = [Read EXCEPT !.latch = FALSE]

LatchInv == overlap \in BOOLEAN /\ (~overlap => Calm) /\ LatchHolds

\* A process that opens the temporary file alone finds an inode that is not in use.
LEMMA FreshInode ==
    ASSUME tmp = NoInode, \A w \in Writers : fd[w] = NoInode
    PROVE  Fresh \in Inodes /\ Fresh # file /\ Fresh # NoInode
<1> DEFINE Used == {file, tmp} \cup {fd[w] : w \in Writers}
<1>1. Cardinality(Writers) \in Nat
  BY BoundAssumption, FS_CardinalityType
<1>2. 1 \in Inodes /\ 2 \in Inodes /\ \A i \in Inodes : i # NoInode
  BY <1>1 DEF Inodes, NoInode
<1>3. \E i \in Inodes : i \notin Used
  <2>1. CASE file = 1
    BY <1>2, <2>1 DEF NoInode
  <2>2. CASE file # 1
    BY <1>2, <2>2 DEF NoInode
  <2> QED BY <2>1, <2>2
<1>4. Fresh \in Inodes /\ Fresh \notin Used
  <2> HIDE DEF Used
  <2>1. Fresh = CHOOSE i \in Inodes : i \notin Used
    BY DEF Fresh, Used
  <2> QED BY <1>3, <2>1
<1> QED BY <1>2, <1>4

\* The promise is about the newest handoff: the latch is as it was when neither that
\* nor the state file changes.
LEMMA LatchKept ==
    ASSUME LatchHolds, overlap => overlap', overlap' \in BOOLEAN,
           ~overlap' => shipped' = shipped /\ received' = received /\ cleared' = cleared
                        /\ Read' = Read
    PROVE  LatchHolds'
<1> SUFFICES ASSUME (shipped # {} /\ received[Newest] = 0 /\ ~cleared /\ ~overlap)'
             PROVE  Read' = [no |-> Newest', latch |-> TRUE]
  BY DEF LatchHolds
<1>1. shipped' = shipped /\ received' = received /\ cleared' = cleared /\ Read' = Read /\ ~overlap
  OBVIOUS
<1>2. Newest' = Newest
  BY <1>1 DEF Newest
<1> QED BY <1>1, <1>2 DEF LatchHolds

LEMMA InitLatchInv == Init => LatchInv
<1> SUFFICES ASSUME Init PROVE LatchInv
  OBVIOUS
<1>1. legacy \in Spindle \cup {NoSpindle}
  BY BoundAssumption DEF Init, Spindle
<1>2. Calm
  BY <1>1, BoundAssumption DEF Init, Calm, Changing, NoInode
<1> QED BY <1>2 DEF LatchInv, LatchHolds, Init

\* A command that reads the state while another is about to replace it ends the calm;
\* otherwise it is the only one that may replace it.
LEMMA StartKeeps ==
    ASSUME LatchInv, NEW w \in Writers, NEW cmd \in {"handoff", "confirm"},
           NEW spindle \in Spindle, Start(w, cmd, spindle, "open"),
           made' \in 0..MaxHandoffs, made <= made',
           ~overlap =>
             \/ cmd = "handoff" /\ made' \notin shipped /\ made' # 0
                /\ spindle = [no |-> made', latch |-> TRUE]
             \/ /\ cmd = "confirm" /\ made' = made
                /\ Read # NoSpindle /\ spindle = [Read EXCEPT !.latch = FALSE],
           UNCHANGED <<content, empty, tmp, file, legacy, fd, shipped, received, cleared>>
    PROVE  LatchInv'
<1>1. overlap' \in BOOLEAN /\ (overlap => overlap')
  BY DEF LatchInv, Start
<1>2. Read' = Read
  BY DEF Read
<1>3. LatchHolds'
  BY <1>1, <1>2, LatchKept DEF LatchInv
<1>4. ASSUME ~overlap' PROVE Calm'
  <2>1. Calm /\ \A v \in Writers : step[v] \notin Changing
    BY <1>1, <1>4 DEF LatchInv, Start
  <2>2. /\ step' = [step EXCEPT ![w] = "open"] /\ command' = [command EXCEPT ![w] = cmd]
        /\ mem' = [mem EXCEPT ![w] = spindle] /\ step[w] = "idle"
    BY DEF Start
  <2>3. \A v \in Writers : step'[v] \in Changing => v = w
    BY <2>1, <2>2 DEF Calm
  <2>4. \A v \in Writers : step'[v] \notin {"write", "rename"} /\ fd'[v] = NoInode
    BY <2>1, <2>2 DEF Calm, Changing
  <2>5. /\ step' \in [Writers -> Changing \cup {"idle", "note", "event", "logging"}]
        /\ command' \in [Writers -> {"handoff", "confirm", "clear"}]
        /\ mem' \in [Writers -> Spindle \cup {NoSpindle}]
        /\ command'[w] = cmd /\ mem'[w] = spindle
    BY <2>1, <2>2 DEF Calm, Changing
  <2>6. shipped \subseteq 1..made'
    BY <2>1, BoundAssumption DEF Calm
  <2> QED BY <1>1, <1>2, <1>4, <2>1, <2>3, <2>4, <2>5, <2>6 DEF Calm
<1> QED BY <1>1, <1>3, <1>4 DEF LatchInv

\* A step that ends a command, or one that is not about to replace the state.
LEMMA QuietKeeps ==
    ASSUME LatchInv, NEW w \in Writers, NEW next \in {"idle", "note", "event", "logging"},
           step' = [step EXCEPT ![w] = next],
           step[w] \in {"write", "rename"} => fd' = [fd EXCEPT ![w] = NoInode],
           fd' \in {fd, [fd EXCEPT ![w] = NoInode]},
           UNCHANGED <<content, empty, tmp, file, legacy, command, mem, made, shipped,
                       received, cleared, overlap>>
    PROVE  LatchInv'
<1>1. Read' = Read
  BY DEF Read
<1>2. LatchHolds'
  BY <1>1, LatchKept DEF LatchInv
<1>3. ASSUME ~overlap PROVE Calm'
  <2>1. Calm
    BY <1>3 DEF LatchInv
  <2>2. /\ step' \in [Writers -> Changing \cup {"idle", "note", "event", "logging"}]
        /\ step'[w] \notin Changing /\ step'[w] \notin {"write", "rename"}
        /\ \A v \in Writers \ {w} : step'[v] = step[v]
    BY <2>1 DEF Calm, Changing
  <2>3. /\ fd' \in [Writers -> Inodes \cup {NoInode}] /\ fd'[w] = NoInode
        /\ \A v \in Writers \ {w} : fd'[v] = fd[v]
    BY <2>1 DEF Calm
  <2> QED BY <1>1, <2>1, <2>2, <2>3 DEF Calm, Changing
<1> QED BY <1>2, <1>3 DEF LatchInv

LEMMA OpenKeeps == ASSUME LatchInv, NEW w \in Writers, Open(w) PROVE LatchInv'
<1> DEFINE i == IF tmp = NoInode THEN Fresh ELSE tmp
<1>1. /\ step[w] = "open" /\ step' = [step EXCEPT ![w] = "write"]
      /\ tmp' = i /\ fd' = [fd EXCEPT ![w] = i]
      /\ content' = [content EXCEPT ![i] = NoSpindle] /\ empty' = empty \cup {i}
      /\ UNCHANGED <<file, legacy, command, mem, made, shipped, received, cleared, overlap>>
  BY DEF Open
<1>2. ASSUME ~overlap PROVE Calm' /\ Read' = Read
  <2>1. Calm
    BY <1>2 DEF LatchInv
  <2>2. \A v \in Writers \ {w} : step[v] \notin Changing
    BY <1>1, <2>1 DEF Calm, Changing
  <2>3. \A v \in Writers : fd[v] = NoInode
    BY <1>1, <2>1, <2>2 DEF Calm, Changing
  <2>4. i \in Inodes /\ i # file /\ i # NoInode
    BY <2>1, <2>3, FreshInode DEF Calm
  <2> HIDE DEF i
  <2>5. Read' = Read
    BY <1>1, <2>1, <2>4 DEF Read, Calm
  <2>6. /\ content' \in [Inodes -> Spindle \cup {NoSpindle}]
        /\ fd' \in [Writers -> Inodes \cup {NoInode}] /\ fd'[w] = i
        /\ \A v \in Writers \ {w} : fd'[v] = NoInode
        /\ step' \in [Writers -> Changing \cup {"idle", "note", "event", "logging"}]
        /\ step'[w] = "write" /\ \A v \in Writers \ {w} : step'[v] = step[v]
    BY <1>1, <2>1, <2>3, <2>4 DEF Calm, Changing
  <2> QED BY <1>1, <2>1, <2>2, <2>4, <2>5, <2>6 DEF Calm, Changing
<1>3. LatchHolds'
  BY <1>1, <1>2, LatchKept DEF LatchInv
<1> QED BY <1>1, <1>2, <1>3 DEF LatchInv

LEMMA WriteKeeps == ASSUME LatchInv, NEW w \in Writers, Write(w) PROVE LatchInv'
<1>1. /\ step[w] = "write" /\ step' = [step EXCEPT ![w] = "rename"]
      /\ empty' = empty \ {fd[w]}
      /\ UNCHANGED <<tmp, file, legacy, command, mem, fd, made, shipped, received, cleared,
                     overlap>>
  BY DEF Write
<1>2. ASSUME ~overlap PROVE Calm' /\ Read' = Read
  <2>1. Calm
    BY <1>2 DEF LatchInv
  <2>2. \A v \in Writers \ {w} : step[v] \notin Changing
    BY <1>1, <2>1 DEF Calm, Changing
  <2>3. /\ fd[w] = tmp /\ tmp \in Inodes /\ tmp # file /\ tmp \in empty
        /\ mem[w] \in Spindle
    BY <1>1, <2>1 DEF Calm, Changing
  <2>4. content' = [content EXCEPT ![tmp] = mem[w]]
    BY <2>3 DEF Write
  <2>5. Read' = Read
    BY <1>1, <2>1, <2>3, <2>4 DEF Read, Calm
  <2>6. /\ content' \in [Inodes -> Spindle \cup {NoSpindle}] /\ content'[tmp] = mem[w]
        /\ step' \in [Writers -> Changing \cup {"idle", "note", "event", "logging"}]
        /\ step'[w] = "rename" /\ \A v \in Writers \ {w} : step'[v] = step[v]
    BY <1>1, <2>1, <2>3, <2>4 DEF Calm, Changing
  <2> QED BY <1>1, <2>1, <2>2, <2>3, <2>5, <2>6 DEF Calm, Changing
<1>3. LatchHolds'
  BY <1>1, <1>2, LatchKept DEF LatchInv
<1> QED BY <1>1, <1>2, <1>3 DEF LatchInv

\* The state file is replaced: by the latched spindle of the newest handoff, or by the
\* unlatched copy of what it held, which counts as a confirmation of that.
LEMMA RenameKeeps == ASSUME LatchInv, NEW w \in Writers, Rename(w) PROVE LatchInv'
<1> SUFFICES ASSUME ~overlap PROVE Calm' /\ LatchHolds'
  BY DEF LatchInv, LatchHolds, Rename
<1>1. /\ step[w] = "rename" /\ file' = tmp /\ tmp' = NoInode
      /\ fd' = [fd EXCEPT ![w] = NoInode]
      /\ step' = [step EXCEPT ![w] = IF command[w] = "handoff" THEN "note" ELSE "event"]
      /\ UNCHANGED <<content, empty, legacy, command, mem, made, overlap>>
  BY DEF Rename
<1>2. Calm /\ LatchHolds
  BY DEF LatchInv
<1>3. \A v \in Writers \ {w} : step[v] \notin Changing
  BY <1>1, <1>2 DEF Calm, Changing
<1>4. /\ tmp \in Inodes /\ content[tmp] = mem[w] /\ mem[w] \in Spindle
  BY <1>1, <1>2 DEF Calm, Changing
<1>5. Read' = mem[w]
  BY <1>1, <1>4, SpindleAssumption DEF Read, Inodes, NoInode
<1>6. /\ step' \in [Writers -> Changing \cup {"idle", "note", "event", "logging"}]
      /\ \A v \in Writers : step'[v] \notin Changing
      /\ fd' \in [Writers -> Inodes \cup {NoInode}]
      /\ \A v \in Writers : fd'[v] = NoInode
  BY <1>1, <1>2, <1>3 DEF Calm, Changing
<1>7. CASE command[w] = "handoff"
  <2>1. made \notin shipped /\ mem[w] = [no |-> made, latch |-> TRUE] /\ made # 0
    BY <1>1, <1>2, <1>7 DEF Calm, Changing
  <2>2. shipped' = shipped \cup {made} /\ received' = received
    BY <1>7, <2>1 DEF Rename
  <2>3. shipped' \subseteq 1..made /\ made \in Nat
    BY <1>2, <2>1, <2>2, BoundAssumption DEF Calm
  <2>4. Newest' = made
    <3>1. made \in shipped' /\ \A m \in shipped' : m <= made
      BY <2>2, <2>3
    <3>2. \A n \in shipped' : (\A m \in shipped' : m <= n) => n = made
      BY <2>3, <3>1
    <3>3. Newest' = CHOOSE n \in shipped' : \A m \in shipped' : m <= n
      BY DEF Newest
    <3> QED BY <3>1, <3>2, <3>3
  <2>5. LatchHolds'
    BY <1>5, <2>1, <2>4 DEF LatchHolds
  <2> QED BY <1>1, <1>2, <1>4, <1>6, <2>2, <2>3, <2>5 DEF Calm, Changing
<1>8. CASE command[w] # "handoff"
  <2>1. Read # NoSpindle /\ mem[w] = [Read EXCEPT !.latch = FALSE]
    BY <1>1, <1>2, <1>8 DEF Calm, Changing
  <2>2. /\ shipped' = shipped /\ cleared' = cleared
        /\ received' = [received EXCEPT ![mem[w].no] = received[mem[w].no] + 1]
    BY <1>8 DEF Rename
  <2>3. Read \in Spindle
    BY <1>2, <2>1 DEF Read, Calm
  <2>4. mem[w].no = Read.no /\ mem[w].no \in 0..MaxHandoffs
    BY <2>1, <2>3 DEF Spindle
  <2>5. received' \in [0..MaxHandoffs -> Nat] /\ received'[mem[w].no] # 0
        /\ \A n : n # mem[w].no => received'[n] = received[n]
    BY <1>2, <2>2, <2>4 DEF Calm
  <2>6. LatchHolds'
    <3> SUFFICES ASSUME shipped # {}, received'[Newest] = 0, ~cleared PROVE FALSE
      BY <2>2 DEF LatchHolds, Newest
    <3>1. Newest # mem[w].no /\ received[Newest] = 0
      BY <2>5
    <3>2. Read = [no |-> Newest, latch |-> TRUE]
      BY <1>2, <3>1 DEF LatchHolds
    <3> QED BY <2>4, <3>1, <3>2
  <2> QED BY <1>1, <1>2, <1>4, <1>6, <2>2, <2>5, <2>6 DEF Calm, Changing
<1> QED BY <1>7, <1>8

LEMMA NextLatchInv == LatchInv /\ [Next]_vars => LatchInv'
<1> SUFFICES ASSUME LatchInv, [Next]_vars PROVE LatchInv'
  OBVIOUS
<1>1. ASSUME UNCHANGED stateVars PROVE LatchInv'
  <2>1. Read' = Read
    BY <1>1 DEF Read, stateVars
  <2>2. LatchHolds'
    BY <1>1, <2>1, LatchKept DEF LatchInv, stateVars
  <2> QED BY <1>1, <2>1, <2>2 DEF LatchInv, Calm, stateVars
<1>2. ASSUME NEW w \in Writers, CmdHandoff(w) PROVE LatchInv'
  <2>1. CASE overlap
    BY <1>2, <2>1 DEF CmdHandoff, Start, LatchInv, LatchHolds
  <2>2. CASE ~overlap
    <3>1. made \in 0..MaxHandoffs /\ shipped \subseteq 1..made
      BY <2>2 DEF LatchInv, Calm
    <3>2. /\ made' = made + 1 /\ made < MaxHandoffs
          /\ Start(w, "handoff", [no |-> made + 1, latch |-> TRUE], "open")
          /\ UNCHANGED <<content, empty, tmp, file, legacy, fd, shipped, received, cleared>>
      BY <1>2 DEF CmdHandoff
    <3>3. made' \in 0..MaxHandoffs /\ made <= made' /\ made' \notin shipped /\ made' # 0
          /\ [no |-> made + 1, latch |-> TRUE] \in Spindle
      BY <3>1, <3>2, BoundAssumption DEF Spindle
    <3> QED BY <3>2, <3>3, StartKeeps
  <2> QED BY <2>1, <2>2 DEF LatchInv
<1>3. ASSUME NEW w \in Writers, CmdConfirm(w) PROVE LatchInv'
  <2>1. CASE overlap
    BY <1>3, <2>1 DEF CmdConfirm, Start, LatchInv, LatchHolds
  <2>2. CASE ~overlap
    <3>1. made \in 0..MaxHandoffs /\ Read \in Spindle
      BY <1>3, <2>2 DEF LatchInv, Calm, Read, CmdConfirm
    <3>2. [Read EXCEPT !.latch = FALSE] \in Spindle
      BY <3>1 DEF Spindle
    <3>3. /\ made' = made /\ Read # NoSpindle
          /\ Start(w, "confirm", [Read EXCEPT !.latch = FALSE], "open")
          /\ UNCHANGED <<content, empty, tmp, file, legacy, fd, shipped, received, cleared>>
      BY <1>3 DEF CmdConfirm
    <3>4. made' \in 0..MaxHandoffs /\ made <= made'
      BY <3>1, <3>3
    <3> QED BY <3>2, <3>3, <3>4, StartKeeps
  <2> QED BY <2>1, <2>2 DEF LatchInv
<1>4. ASSUME NEW w \in Writers, CmdClear(w) PROVE LatchInv'
  <2>1. /\ overlap' \in BOOLEAN /\ (overlap => overlap') /\ cleared' = TRUE
    BY <1>4 DEF CmdClear, Start, LatchInv
  <2>2. ASSUME ~overlap' PROVE Calm'
    <3>1. Calm /\ \A v \in Writers : step[v] \notin Changing
      BY <1>4, <2>1, <2>2 DEF LatchInv, CmdClear, Start
    <3>2. /\ step' = [step EXCEPT ![w] = "event"] /\ command' = [command EXCEPT ![w] = "clear"]
          /\ mem' = [mem EXCEPT ![w] = NoSpindle] /\ file' = NoInode
          /\ UNCHANGED <<content, empty, tmp, legacy, fd, made, shipped, received>>
      BY <1>4 DEF CmdClear, Start
    <3>3. /\ step' \in [Writers -> Changing \cup {"idle", "note", "event", "logging"}]
          /\ command' \in [Writers -> {"handoff", "confirm", "clear"}]
          /\ mem' \in [Writers -> Spindle \cup {NoSpindle}]
          /\ \A v \in Writers : step'[v] \notin Changing /\ fd'[v] = NoInode
      BY <3>1, <3>2 DEF Calm, Changing
    <3> QED BY <3>1, <3>2, <3>3 DEF Calm, Changing
  <2> QED BY <2>1, <2>2 DEF LatchInv, LatchHolds
<1>5. ASSUME NEW w \in Writers, Open(w) \/ Write(w) \/ Rename(w) PROVE LatchInv'
  BY <1>5, OpenKeeps, WriteKeeps, RenameKeeps
<1>6. ASSUME NEW w \in Writers,
             RenameFails(w) \/ WriteNote(w) \/ AppendEvent(w) \/ Finish(w) \/ Kill(w)
      PROVE  LatchInv'
  BY <1>6, QuietKeeps DEF RenameFails, WriteNote, AppendEvent, Finish, Kill
<1>7. ASSUME NEW w \in Writers, LogStep(w) PROVE LatchInv'
  BY <1>1, <1>7 DEF LogStep
<1>8. CASE UNCHANGED vars
  BY <1>1, <1>8 DEF vars
<1> QED BY <1>2, <1>3, <1>4, <1>5, <1>6, <1>7, <1>8 DEF Next

\* A handoff that nobody confirmed or cleared stays latched and readable, for any number
\* of processes, whichever are killed and wherever, as long as no command read the state
\* while another was about to replace it (handoff.py, _write_spindle and _read_spindle).
THEOREM LatchIsKept == Spec => []LatchHolds
<1>1. LatchInv => LatchHolds
  BY DEF LatchInv
<1> QED BY <1>1, InitLatchInv, NextLatchInv, PTL DEF Spec
-----------------------------------------------------------------------------
(* The attempt journal, the detector and the planner.                      *)

\* Which file a row stands in shows in the row.
SourcesApart ==
    /\ \A k \in 1..Len(journal) : journal[k].source = "journal"
    /\ \A k \in 1..Len(events) : events[k].source = "dev-cli"

AttemptsInv == JournalTypeOK /\ SourcesApart
-----------------------------------------------------------------------------
(* The streak.                                                             *)

LEMMA LeastNatural ==
    ASSUME NEW S \in SUBSET Nat, S # {}
    PROVE  \E m \in S : \A k \in S : m <= k
<1> DEFINE R == {ss \in Nat \X Nat : ss[1] < ss[2]}
<1>1. IsWellFoundedOn(R, Nat)
  BY NatLessThanWellFounded DEF OpToRel
<1> HIDE DEF R
<1>2. PICK m \in S : \A k \in S : <<k, m>> \notin R
  BY <1>1, WFMin, Zenon
<1>3. \A k \in S : ~(k < m)
  BY <1>2 DEF R
<1> QED BY <1>2, <1>3

\* The last n rows are failures with this fingerprint.
AllSame(rows, n, fp) == \A k \in (Len(rows) - n + 1)..Len(rows) : Same(rows[k], fp)

Failing(rows) == rows # <<>> /\ LastRow(rows).gate # "pass" /\ LastRow(rows).fp # NoFp

\* The streak of a failing journal is as long as it can be.
LEMMA StreakIsLongest ==
    ASSUME NEW rows \in Seq(Entry), Failing(rows)
    PROVE  /\ Streak(rows) \in 1..Len(rows)
           /\ AllSame(rows, Streak(rows), LastRow(rows).fp)
           /\ \A m \in 1..Len(rows) : AllSame(rows, m, LastRow(rows).fp) => m <= Streak(rows)
<1> DEFINE fp == LastRow(rows).fp
           L == Len(rows)
           Ends(n) == AllSame(rows, n, fp) /\ (n < L => ~Same(rows[L - n], fp))
           S == {j \in Nat : j < L /\ AllSame(rows, L - j, fp)}
<1>1. L \in Nat /\ L >= 1
  BY EmptySeq DEF Failing
<1>2. Same(rows[L], fp)
  BY DEF Failing, Same, LastRow
<1>3. L - 1 \in S
  BY <1>1, <1>2 DEF AllSame
<1>4. PICK j \in S : \A i \in S : j <= i
  BY <1>3, LeastNatural
<1>5. L - j \in 1..L /\ AllSame(rows, L - j, fp)
  BY <1>1, <1>4
<1>6. ASSUME L - j < L, Same(rows[L - (L - j)], fp) PROVE FALSE
  <2>1. j \in Nat /\ j >= 1 /\ Same(rows[j], fp)
    BY <1>1, <1>4, <1>6
  <2>2. AllSame(rows, L - (j - 1), fp)
    BY <1>1, <1>5, <2>1 DEF AllSame
  <2>3. j - 1 \in S
    BY <1>1, <1>4, <2>1, <2>2
  <2> QED BY <1>4, <2>1, <2>3
<1>7. \E n \in 1..L : Ends(n)
  BY <1>5, <1>6
<1>8. Streak(rows) = CHOOSE n \in 1..L : Ends(n)
  BY DEF Streak, Failing, AllSame
<1> HIDE DEF Ends
<1>9. Streak(rows) \in 1..L /\ Ends(Streak(rows))
  BY <1>7, <1>8
<1>10. ASSUME NEW m \in 1..L, AllSame(rows, m, fp), ~(m <= Streak(rows)) PROVE FALSE
  <2>1. Streak(rows) < L /\ L - Streak(rows) \in (L - m + 1)..L
    BY <1>1, <1>9, <1>10
  <2>2. Same(rows[L - Streak(rows)], fp)
    BY <1>10, <2>1 DEF AllSame
  <2> QED BY <1>9, <2>1, <2>2 DEF Ends
<1> QED BY <1>9, <1>10 DEF Ends

LEMMA StreakRange ==
    ASSUME NEW rows \in Seq(Entry)
    PROVE  /\ Streak(rows) \in 0..Len(rows)
           /\ Streak(rows) > 0 => Failing(rows)
<1>1. CASE Failing(rows)
  BY <1>1, StreakIsLongest
<1>2. CASE ~Failing(rows)
  BY <1>2, Len(rows) \in Nat DEF Streak, Failing
<1> QED BY <1>1, <1>2

\* A streak in the tail of the journal is a streak of the journal.
LEMMA TailStreak ==
    ASSUME NEW rows \in Seq(Entry), NEW a \in 1..Len(rows),
           NEW n \in Nat \ {0}, Streak(SubSeq(rows, a, Len(rows))) >= n
    PROVE  Streak(rows) >= n
<1> DEFINE L == Len(rows)
           tail == SubSeq(rows, a, L)
           s == Streak(tail)
<1>1. L \in Nat /\ a \in Nat /\ 1 <= a /\ a <= L
  OBVIOUS
<1>2. /\ tail \in Seq(Entry) /\ Len(tail) = L - a + 1
      /\ \A k \in 1..(L - a + 1) : tail[k] = rows[a + k - 1]
  BY <1>1, SubSeqProperties
<1>3. LastRow(tail) = LastRow(rows)
  BY <1>1, <1>2 DEF LastRow
<1>4. Failing(tail) /\ s \in 1..(L - a + 1) /\ AllSame(tail, s, LastRow(tail).fp)
  <2>0. s >= n
    OBVIOUS
  <2> HIDE DEF tail
  <2>1. s \in 0..Len(tail)
    BY <1>2, StreakRange
  <2>2. Failing(tail)
    BY <1>1, <1>2, <2>0, <2>1, StreakRange
  <2> QED BY <1>2, <2>2, StreakIsLongest
<1>5. Failing(rows)
  <2>1. rows # <<>>
    BY <1>1
  <2>2. LastRow(tail).gate # "pass" /\ LastRow(tail).fp # NoFp
    BY <1>4 DEF Failing
  <2> QED BY <1>3, <2>1, <2>2 DEF Failing
<1>6. s \in 1..L
  BY <1>1, <1>4
<1>7. AllSame(rows, s, LastRow(rows).fp)
  <2> SUFFICES ASSUME NEW k \in (L - s + 1)..L PROVE Same(rows[k], LastRow(rows).fp)
    BY DEF AllSame
  <2>1. k - a + 1 \in (Len(tail) - s + 1)..Len(tail) /\ k - a + 1 \in 1..(L - a + 1)
    BY <1>1, <1>2, <1>4
  <2>2. tail[k - a + 1] = rows[k]
    BY <1>1, <1>2, <2>1
  <2> QED BY <1>3, <1>4, <2>1, <2>2 DEF AllSame
<1>8. s <= Streak(rows)
  BY <1>5, <1>6, <1>7, StreakIsLongest
<1> QED BY <1>6, <1>8, StreakRange
-----------------------------------------------------------------------------
(* The type.                                                               *)

LEMMA StateOf == ASSUME NEW rows \in Seq(Entry)
                 PROVE  ExecutionState(rows) = "stalled" <=>
                            rows # <<>> /\ LastRow(rows).gate \notin {"pass", "blocked"}
                                        /\ Streak(rows) >= K
BY DEF ExecutionState

LEMMA RecommendedKnown ==
    ASSUME NEW rows \in Seq(Entry), NEW last, last.phase \in PhaseNames \cup {"none"}
    PROVE  Recommended(rows, last) \in PhaseNames
BY DEF Recommended, PhaseNames

LEMMA BiasedKnown ==
    ASSUME NEW name \in PhaseNames
    PROVE  /\ Biased(name) \subseteq PhaseNames
           /\ name # "implement" => Biased(name) = {name}
BY DEF Biased, PhaseNames

\* What a plan makes of the phase.
LEMMA PlanKeeps ==
    ASSUME JournalTypeOK, Plan
    PROVE  \/ phase' = NoPhase /\ phase = NoPhase
           \/ /\ phase'.phase \in PhaseNames
              /\ phase'.iteration \in 0..Len(journal)
              /\ phase'.stall \in 0..phase'.iteration
<1>1. journal \in Seq(Entry) /\ Len(journal) \in Nat
  BY DEF JournalTypeOK
<1>2. phase.phase \in PhaseNames \cup {"none"}
  BY DEF JournalTypeOK, NoPhase
<1>3. CASE Replan
  <2>1. PICK name \in Biased(Recommended(journal, phase)) :
            phase' = [phase |-> name, iteration |-> Len(journal), stall |-> Streak(journal)]
    BY <1>3 DEF Plan, PlannerRows
  <2>2. name \in PhaseNames
    BY <1>1, <1>2, <2>1, RecommendedKnown, BiasedKnown
  <2>3. Streak(journal) \in 0..Len(journal)
    BY <1>1, StreakRange
  <2> QED BY <1>1, <2>1, <2>2, <2>3
<1>4. CASE ~Replan
  BY <1>1, <1>4 DEF Plan, JournalTypeOK, Replan
<1> QED BY <1>3, <1>4

LEMMA InitAttemptsInv == JournalInit => AttemptsInv
<1> SUFFICES ASSUME JournalInit PROVE AttemptsInv
  OBVIOUS
<1>1. JournalTypeOK
  BY SizeAssumption DEF JournalInit, JournalTypeOK
<1>2. SourcesApart
  BY DEF JournalInit, SourcesApart
<1> QED BY <1>1, <1>2 DEF AttemptsInv

\* A row more in the journal.
LEMMA LogKeeps ==
    ASSUME AttemptsInv, NEW gate \in Gates, NEW fp \in Fps \cup {NoFp},
           NEW n \in 0..MaxIterations, Log(gate, fp, n)
    PROVE  /\ journal' \in Seq(Entry) /\ number' \in 0..MaxIterations
           /\ Len(journal') = Len(journal) + 1
           /\ \A k \in 1..Len(journal') : journal'[k].source = "journal"
<1>0. PICK ts \in 0..MaxClock :
          journal' = Append(journal, [gate |-> gate, fp |-> fp, ts |-> ts, source |-> "journal"])
  BY DEF Log
<1> DEFINE row == [gate |-> gate, fp |-> fp, ts |-> ts, source |-> "journal"]
<1>1. journal \in Seq(Entry) /\ row \in Entry
  BY DEF AttemptsInv, JournalTypeOK, Entry
<1>2. journal' = Append(journal, row) /\ number' = n
  BY <1>0 DEF Log
<1>3. /\ journal' \in Seq(Entry) /\ Len(journal') = Len(journal) + 1 /\ Len(journal) \in Nat
      /\ \A k \in 1..Len(journal) : journal'[k] = journal[k]
      /\ journal'[Len(journal) + 1] = row
  BY <1>1, <1>2, AppendProperties
<1>4. ASSUME NEW k \in 1..Len(journal') PROVE journal'[k].source = "journal"
  <2>1. CASE k \in 1..Len(journal)
    BY <1>3, <2>1 DEF AttemptsInv, SourcesApart
  <2>2. CASE k = Len(journal) + 1
    BY <1>3, <2>2
  <2> QED BY <1>3, <2>1, <2>2
<1> QED BY <1>2, <1>3, <1>4

LEMMA NextAttemptsInv == AttemptsInv /\ [JournalNext]_journalVars => AttemptsInv'
<1> SUFFICES ASSUME AttemptsInv, [JournalNext]_journalVars PROVE AttemptsInv'
  OBVIOUS
<1>0. /\ JournalTypeOK /\ SourcesApart
      /\ Len(journal) \in Nat /\ Len(events) \in Nat
  BY DEF AttemptsInv, JournalTypeOK
<1>1. ASSUME NEW gate \in Gates, NEW failure \in Failures \cup {NoFp}, NEW n \in {0, iteration},
             Record(gate, failure, n)
      PROVE  AttemptsInv'
  <2>1. Fingerprint(failure) \in Fps \cup {NoFp}
    BY DEF Fingerprint, Failures
  <2>2. n \in 0..MaxIterations
    BY <1>0, SizeAssumption DEF JournalTypeOK
  <2>3. Log(gate, Fingerprint(failure), n) /\ UNCHANGED <<events, iteration, hook, phase>>
    BY <1>1 DEF Record
  <2>4. /\ journal' \in Seq(Entry) /\ number' \in 0..MaxIterations
        /\ Len(journal') = Len(journal) + 1
        /\ \A k \in 1..Len(journal') : journal'[k].source = "journal"
    BY <2>1, <2>2, <2>3, LogKeeps
  <2>5. JournalTypeOK'
    BY <1>0, <2>3, <2>4 DEF JournalTypeOK
  <2> QED BY <1>0, <2>3, <2>4, <2>5 DEF AttemptsInv, SourcesApart
<1>2. ASSUME NEW gate \in {"fail", "pass"}, NEW fp \in EventFps \cup {NoFp}, LogEvent(gate, fp)
      PROVE  AttemptsInv'
  <2>0. PICK ts \in 0..MaxClock :
            events' = Append(events, [gate |-> gate, fp |-> fp, ts |-> ts, source |-> "dev-cli"])
    BY <1>2 DEF LogEvent
  <2> DEFINE row == [gate |-> gate, fp |-> fp, ts |-> ts, source |-> "dev-cli"]
  <2>1. events \in Seq(Entry) /\ row \in Entry
    BY <1>0 DEF JournalTypeOK, Entry, Gates
  <2>2. events' = Append(events, row)
        /\ UNCHANGED <<journal, iteration, number, hook, phase>>
    BY <1>2, <2>0 DEF LogEvent
  <2>3. /\ events' \in Seq(Entry) /\ Len(events') = Len(events) + 1
        /\ \A k \in 1..Len(events) : events'[k] = events[k]
        /\ events'[Len(events) + 1] = row
    BY <2>1, <2>2, AppendProperties
  <2>4. ASSUME NEW k \in 1..Len(events') PROVE events'[k].source = "dev-cli"
    <3>1. CASE k \in 1..Len(events)
      BY <1>0, <2>3, <3>1 DEF SourcesApart
    <3>2. CASE k = Len(events) + 1
      BY <2>3, <3>2
    <3> QED BY <1>0, <2>3, <3>1, <3>2
  <2>5. JournalTypeOK'
    BY <1>0, <2>2, <2>3 DEF JournalTypeOK
  <2> QED BY <1>0, <2>2, <2>4, <2>5 DEF AttemptsInv, SourcesApart
<1>4. ASSUME NEW gate \in {"pass", "blocked"}, HookRecords(gate) PROVE AttemptsInv'
  <2>1. CASE Log(gate, NoFp, iteration)
    <3>1. /\ journal' \in Seq(Entry) /\ number' \in 0..MaxIterations
          /\ Len(journal') = Len(journal) + 1
          /\ \A k \in 1..Len(journal') : journal'[k].source = "journal"
      <4>1. gate \in Gates /\ NoFp \in Fps \cup {NoFp} /\ iteration \in 0..MaxIterations
        BY <1>0, SizeAssumption DEF JournalTypeOK, Gates
      <4> QED BY <2>1, <4>1, LogKeeps
    <3>2. JournalTypeOK'
      BY <1>0, <1>4, <3>1 DEF JournalTypeOK, HookRecords
    <3> QED BY <1>0, <1>4, <3>1, <3>2 DEF AttemptsInv, SourcesApart, HookRecords
  <2>2. CASE UNCHANGED <<journal, number>>
    BY <1>0, <1>4, <2>2 DEF JournalTypeOK, AttemptsInv, SourcesApart, HookRecords
  <2> QED BY <1>4, <2>1, <2>2 DEF HookRecords
<1>5. CASE HookPlans \/ CmdPlan
  <2>1. Plan /\ hook' \in {"planned", hook} /\ UNCHANGED <<journal, events, iteration, number>>
    BY <1>5 DEF HookPlans, CmdPlan
  <2>2. JournalTypeOK'
    BY <1>0, <2>1, PlanKeeps DEF JournalTypeOK
  <2> QED BY <1>0, <2>1, <2>2 DEF AttemptsInv, SourcesApart
<1>6. CASE CmdClearPhase
  BY <1>0, <1>6 DEF CmdClearPhase, JournalTypeOK, AttemptsInv, SourcesApart
<1>7. CASE NextTurn \/ NextLoop
  <2>1. iteration' \in 1..MaxIterations /\ hook' = "turn"
        /\ UNCHANGED <<journal, events, number, phase>>
    BY <1>0, <1>7, SizeAssumption DEF NextTurn, NextLoop, JournalTypeOK
  <2> QED BY <1>0, <2>1 DEF JournalTypeOK, AttemptsInv, SourcesApart
<1>8. CASE UNCHANGED journalVars
  BY <1>0, <1>8 DEF journalVars, JournalTypeOK, AttemptsInv, SourcesApart
<1> QED BY <1>1, <1>2, <1>4, <1>5, <1>6, <1>7, <1>8 DEF JournalNext

\* Every variable keeps its type: in particular a phase is one of the planner's, and
\* speaks of rows that are in the journal.
THEOREM JournalTypeCorrect == JournalSpec => []JournalTypeOK
<1>1. AttemptsInv => JournalTypeOK
  BY DEF AttemptsInv
<1> QED BY <1>1, InitAttemptsInv, NextAttemptsInv, PTL DEF JournalSpec
-----------------------------------------------------------------------------
(* The planner.                                                            *)

LEMMA PlanOfStall ==
    ASSUME JournalTypeOK, Plan, Streak(journal) >= K, LastRow(journal).gate = "fail"
    PROVE  /\ phase'.phase \in {"explore", "escalate"}
           /\ phase'.phase = "explore" => Streak(journal) = K /\ phase.phase # "explore"
<1>1. journal \in Seq(Entry) /\ Streak(journal) \in Nat /\ Streak(journal) > 0
  BY StreakRange, SizeAssumption DEF JournalTypeOK
<1>2. ExecutionState(journal) = "stalled"
  BY <1>1, StateOf, StreakRange DEF Failing
<1>3. PICK name \in Biased(Recommended(journal, phase)) :
          phase' = [phase |-> name, iteration |-> Len(journal), stall |-> Streak(journal)]
  BY <1>2 DEF Plan, Replan, PlannerRows
<1>4. Recommended(journal, phase) =
        IF Streak(journal) > K \/ phase.phase \in {"none", "explore"} THEN "escalate" ELSE "explore"
  BY <1>2 DEF Recommended
<1>5. name = Recommended(journal, phase)
  BY <1>3, <1>4, BiasedKnown DEF PhaseNames
<1> QED BY <1>1, <1>3, <1>4, <1>5, SizeAssumption

\* The planner heeds a stall that the hook sees in the tail of the journal: explore, or
\* escalate after explore or at a fourth equal failure (cmd_plan, _journal_stall).
THEOREM StallsAreHeeded == JournalSpec => PlannerHeedsStall
<1>1. AttemptsInv /\ [JournalNext]_journalVars =>
        [ hook = "recorded" /\ hook' = "planned"
          /\ HookStall >= K /\ LastRow(journal).gate = "fail"
            => /\ phase'.phase \in {"explore", "escalate"}
               /\ phase'.phase = "explore" => Streak(journal) = K /\ phase.phase # "explore" ]_journalVars
  <2> SUFFICES ASSUME AttemptsInv, [JournalNext]_journalVars, hook = "recorded", hook' = "planned",
                      HookStall >= K, LastRow(journal).gate = "fail"
               PROVE  /\ phase'.phase \in {"explore", "escalate"}
                      /\ phase'.phase = "explore" => Streak(journal) = K /\ phase.phase # "explore"
    OBVIOUS
  <2>1. Plan
    BY DEF JournalNext, journalVars, Record, LogEvent, HookRecords, HookPlans, CmdPlan, CmdClearPhase,
           NextTurn, NextLoop
  <2>2. JournalTypeOK /\ journal \in Seq(Entry) /\ Len(journal) \in Nat
    BY DEF AttemptsInv, JournalTypeOK
  <2>3. Streak(journal) >= K
    <3> DEFINE a == IF Len(journal) > Window THEN Len(journal) - Window + 1 ELSE 1
    <3>1. HookStall = Streak(SubSeq(journal, a, Len(journal)))
      BY DEF HookStall
    <3>2. CASE journal = <<>>
      <4>1. SubSeq(journal, a, Len(journal)) = <<>>
        BY <3>2, SizeAssumption
      <4>2. HookStall = 0
        BY <3>1, <4>1 DEF Streak
      <4> QED BY <4>2, SizeAssumption
    <3>3. CASE journal # <<>>
      <4>1. a \in 1..Len(journal)
        BY <2>2, <3>3, SizeAssumption
      <4> QED BY <2>2, <3>1, <4>1, TailStreak, SizeAssumption
    <3> QED BY <3>2, <3>3
  <2> QED BY <2>1, <2>2, <2>3, PlanOfStall
<1> QED BY <1>1, InitAttemptsInv, NextAttemptsInv, PTL DEF JournalSpec, PlannerHeedsStall

\* Escalation is left by a fresh stall or by clear alone (recommend_phase).
THEOREM EscalationIsKept == JournalSpec => EscalationHolds
<1>1. AttemptsInv /\ [JournalNext]_journalVars =>
        [ phase.phase = "escalate" /\ phase'.phase \notin {"escalate", "none"}
            => phase'.phase = "explore" /\ Streak(journal) = K ]_journalVars
  <2> SUFFICES ASSUME AttemptsInv, [JournalNext]_journalVars, phase.phase = "escalate",
                      phase'.phase \notin {"escalate", "none"}
               PROVE  phase'.phase = "explore" /\ Streak(journal) = K
    OBVIOUS
  <2>1. Plan
    <3>1. ~UNCHANGED phase /\ ~CmdClearPhase
      BY DEF CmdClearPhase, NoPhase
    <3> QED BY <3>1 DEF JournalNext, journalVars, Record, LogEvent, HookRecords, HookPlans, CmdPlan,
                        NextTurn, NextLoop
  <2>2. journal \in Seq(Entry) /\ Streak(journal) \in Nat /\ JournalTypeOK
    BY StreakRange DEF AttemptsInv, JournalTypeOK
  <2>3. PICK name \in Biased(Recommended(journal, phase)) :
            phase' = [phase |-> name, iteration |-> Len(journal), stall |-> Streak(journal)]
    BY <2>1 DEF Plan, PlannerRows
  <2>4. ExecutionState(journal) = "stalled"
    <3> SUFFICES ASSUME ExecutionState(journal) # "stalled" PROVE FALSE
      OBVIOUS
    <3>1. Recommended(journal, phase) = "escalate"
      BY DEF Recommended
    <3> QED BY <2>3, <3>1 DEF Biased
  <2>5. Recommended(journal, phase) = IF Streak(journal) > K THEN "escalate" ELSE "explore"
    BY <2>4 DEF Recommended
  <2>6. name = Recommended(journal, phase)
    BY <2>3, <2>5 DEF Biased
  <2>7. Streak(journal) >= K
    BY <2>2, <2>4, StateOf
  <2> QED BY <2>2, <2>3, <2>5, <2>6, <2>7, SizeAssumption
<1> QED BY <1>1, InitAttemptsInv, NextAttemptsInv, PTL DEF JournalSpec, EscalationHolds
-----------------------------------------------------------------------------
(* The merge.                                                              *)

Entries == journal \o events
Earlier(k) == {j \in DOMAIN Entries : Precedes(Entries, j, k)}

LEMMA EntriesKnown ==
    ASSUME JournalTypeOK
    PROVE  /\ Len(journal) \in Nat /\ Len(events) \in Nat
           /\ DOMAIN journal = 1..Len(journal) /\ DOMAIN events = 1..Len(events)
           /\ Entries \in Seq(Entry) /\ Len(Entries) = Len(journal) + Len(events)
           /\ DOMAIN Entries = 1..Len(Entries)
           /\ \A k \in DOMAIN journal : Entries[k] = journal[k]
           /\ \A k \in DOMAIN events : Entries[Len(journal) + k] = events[k]
           /\ \A k \in DOMAIN Entries : Entries[k].ts \in Nat
           /\ \A k \in DOMAIN Entries : k \in DOMAIN journal
                  \/ (k - Len(journal) \in DOMAIN events /\ Entries[k] = events[k - Len(journal)])
<1>1. journal \in Seq(Entry) /\ events \in Seq(Entry)
  BY DEF JournalTypeOK
<1>2. /\ Entries \in Seq(Entry) /\ Len(Entries) = Len(journal) + Len(events)
      /\ \A k \in 1..Len(journal) : Entries[k] = journal[k]
      /\ \A k \in 1..Len(events) : Entries[Len(journal) + k] = events[k]
  BY <1>1, ConcatProperties DEF Entries
<1>3. \A r \in Entry : r.ts \in Nat
  BY DEF Entry
<1>4. \A k \in 1..Len(Entries) : Entries[k] \in Entry
  BY <1>2
<1>5. ASSUME NEW k \in 1..Len(Entries), k \notin 1..Len(journal)
      PROVE  k - Len(journal) \in 1..Len(events) /\ Entries[k] = events[k - Len(journal)]
  <2>1. k - Len(journal) \in 1..Len(events)
    BY <1>1, <1>2, <1>5
  <2>2. Entries[Len(journal) + (k - Len(journal))] = events[k - Len(journal)]
    BY <1>2, <2>1
  <2>3. Len(journal) + (k - Len(journal)) = k
    BY <1>1, <1>5
  <2> QED BY <2>1, <2>2, <2>3
<1>6. DOMAIN journal = 1..Len(journal) /\ DOMAIN events = 1..Len(events) /\ DOMAIN Entries = 1..Len(Entries)
  BY <1>1, <1>2
<1> HIDE DEF Entries
<1> QED BY <1>1, <1>2, <1>3, <1>4, <1>5, <1>6

\* An entry that every other one precedes stands at the end of the merge.
LEMMA LastMerged ==
    ASSUME JournalTypeOK, events # <<>>, NEW z \in DOMAIN Entries,
           \A k \in DOMAIN Entries \ {z} : Precedes(Entries, k, z) /\ ~Precedes(Entries, z, k)
    PROVE  Merged # <<>> /\ LastRow(Merged) = Entries[z]
<1> DEFINE N == Len(Entries)
           Others == (1..N) \ {z}
<1>1. N \in Nat /\ DOMAIN Entries = 1..N /\ z \in 1..N /\ N > 0
  BY EntriesKnown
<1>2. \A k \in 1..N : ~Precedes(Entries, k, k)
  BY <1>1, EntriesKnown DEF Precedes
<1> HIDE DEF N
<1>3. IsFiniteSet(1..N) /\ Cardinality(1..N) = N
  BY <1>1, FS_Interval
<1>4. IsFiniteSet(Others) /\ Cardinality(Others) = N - 1
  BY <1>1, <1>3, FS_RemoveElement
<1> HIDE DEF Others
<1>5. Earlier(z) = Others
  BY <1>1, <1>2 DEF Earlier, Others
<1>6. Place(Entries, z) = N
  <2>1. 1 + (N - 1) = N
    BY <1>1
  <2> QED BY <1>4, <1>5, <2>1 DEF Place, Earlier
<1>7. ASSUME NEW k \in 1..N, k # z PROVE Place(Entries, k) # N
  <2>1. Earlier(k) \in SUBSET Others /\ k \in Others /\ k \notin Earlier(k)
    BY <1>1, <1>2, <1>7 DEF Earlier, Others
  <2>2. /\ Cardinality(Earlier(k)) <= Cardinality(Others)
        /\ Cardinality(Earlier(k)) = Cardinality(Others) => Others = Earlier(k)
        /\ IsFiniteSet(Earlier(k))
    BY <1>4, <2>1, FS_Subset
  <2>3. Cardinality(Earlier(k)) \in Nat
    BY <2>2, FS_CardinalityType
  <2>4. Cardinality(Earlier(k)) # N - 1
    BY <1>4, <2>1, <2>2
  <2> QED BY <1>1, <2>3, <2>4 DEF Place, Earlier
<1>8. (CHOOSE k \in 1..N : Place(Entries, k) = N) = z
  BY <1>1, <1>6, <1>7, Zenon
<1>9. Merged = StableSort(Entries)
  BY DEF Merged, Entries
<1>10. StableSort(Entries) = [p \in 1..N |-> Entries[CHOOSE k \in 1..N : Place(Entries, k) = p]]
  BY <1>1 DEF StableSort
<1>11. Len(Merged) = N /\ Merged[N] = Entries[z]
  BY <1>1, <1>8, <1>9, <1>10
<1> QED BY <1>1, <1>11 DEF LastRow

\* The latest entry of the journal, when it is the last one.
LEMMA PassOfRows ==
    ASSUME JournalTypeOK, journal # <<>>,
           \A k \in DOMAIN journal : journal[k].ts <= LastRow(journal).ts,
           \A j \in DOMAIN events : events[j].ts < LastRow(journal).ts
    PROVE  Merged # <<>> /\ LastRow(Merged) = LastRow(journal)
<1>1. CASE events = <<>>
  BY <1>1 DEF Merged
<1>2. CASE events # <<>>
  <2> DEFINE z == Len(journal)
  <2>1. z \in Nat /\ z \in DOMAIN journal /\ z \in DOMAIN Entries /\ Entries[z] = LastRow(journal)
    BY EntriesKnown, EmptySeq DEF JournalTypeOK, LastRow
  <2>2. ASSUME NEW k \in DOMAIN Entries \ {z}
        PROVE  Precedes(Entries, k, z) /\ ~Precedes(Entries, z, k)
    <3>1. Entries[k].ts \in Nat /\ Entries[z].ts \in Nat /\ k \in Nat
      BY <2>1, EntriesKnown
    <3>2. CASE k \in DOMAIN journal
      <4>1. Entries[k].ts <= Entries[z].ts /\ k < z
        BY <2>1, <3>2, EntriesKnown
      <4> QED BY <2>1, <3>1, <4>1 DEF Precedes
    <3>3. CASE k \notin DOMAIN journal
      <4>1. Entries[k].ts < Entries[z].ts
        BY <2>1, <3>3, EntriesKnown
      <4> QED BY <2>1, <3>1, <4>1 DEF Precedes
    <3> QED BY <3>2, <3>3
  <2> HIDE DEF z
  <2> QED BY <1>2, <2>1, <2>2, LastMerged
<1> QED BY <1>1, <1>2

\* The same of the events.
LEMMA PassOfEvents ==
    ASSUME JournalTypeOK, events # <<>>,
           \A k \in DOMAIN events : events[k].ts <= LastRow(events).ts,
           \A k \in DOMAIN journal : journal[k].ts < LastRow(events).ts
    PROVE  Merged # <<>> /\ LastRow(Merged) = LastRow(events)
<1> DEFINE z == Len(journal) + Len(events)
<1>1. /\ z \in Nat /\ z \in DOMAIN Entries /\ z \notin DOMAIN journal
      /\ Len(events) \in DOMAIN events /\ Entries[z] = LastRow(events)
  BY EntriesKnown, EmptySeq DEF JournalTypeOK, LastRow
<1>2. ASSUME NEW k \in DOMAIN Entries \ {z}
      PROVE  Precedes(Entries, k, z) /\ ~Precedes(Entries, z, k)
  <2>1. Entries[k].ts \in Nat /\ Entries[z].ts \in Nat /\ k \in Nat
    BY <1>1, EntriesKnown
  <2>2. CASE k \in DOMAIN journal
    <3>1. Entries[k].ts < Entries[z].ts
      BY <1>1, <2>2, EntriesKnown
    <3> QED BY <1>1, <2>1, <3>1 DEF Precedes
  <2>3. CASE k \notin DOMAIN journal
    <3>1. k - Len(journal) \in DOMAIN events /\ Entries[k] = events[k - Len(journal)]
      BY <2>3, EntriesKnown
    <3>2. Entries[k].ts <= Entries[z].ts
      BY <1>1, <3>1
    <3>3. k < z
      <4>1. k \in 1..Len(Entries) /\ Len(Entries) = z
        BY EntriesKnown, Zenon
      <4> HIDE DEF z
      <4> QED BY <1>1, <4>1
    <3> QED BY <1>1, <2>1, <3>2, <3>3 DEF Precedes
  <2> QED BY <2>2, <2>3
<1> HIDE DEF z
<1> QED BY <1>1, <1>2, LastMerged

\* A pass at the end of its file, with a stamp that none of its own file passes and that is
\* later than those of the other file, ends every stall that is shown, however many failures
\* are before it in either file (merge_dev_cli, analyze).
THEOREM PassesEndStalls == JournalSpec => []PassEndsStall
<1>1. AttemptsInv => PassEndsStall
  <2> SUFFICES ASSUME AttemptsInv, NEW own \in {journal, events},
                      own # <<>>, LastRow(own).gate = "pass",
                      \A k \in DOMAIN own : own[k].ts <= LastRow(own).ts,
                      \A other \in {journal, events} \ {own} :
                        \A k \in DOMAIN other : other[k].ts < LastRow(own).ts
               PROVE  ~StallShown
    BY DEF PassEndsStall
  <2>1. journal # events
    <3>1. ASSUME journal = events PROVE FALSE
      <4>1. Len(journal) >= 1
        BY <3>1, EmptySeq DEF AttemptsInv, JournalTypeOK
      <4>2. journal[1].source = "journal" /\ events[1].source = "dev-cli"
        BY <3>1, <4>1 DEF AttemptsInv, JournalTypeOK, SourcesApart
      <4> QED BY <3>1, <4>2
    <3> QED BY <3>1
  <2>2. Merged # <<>> /\ LastRow(Merged) = LastRow(own)
    <3>1. CASE own = journal
      BY <2>1, <3>1, PassOfRows DEF AttemptsInv
    <3>2. CASE own = events
      BY <2>1, <3>2, PassOfEvents DEF AttemptsInv
    <3> QED BY <3>1, <3>2
  <2>3. Streak(Merged) = 0
    BY <2>2 DEF Streak
  <2> QED BY <2>3, SizeAssumption DEF StallShown, Stalled
<1> QED BY <1>1, InitAttemptsInv, NextAttemptsInv, PTL DEF JournalSpec
=============================================================================
