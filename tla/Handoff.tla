------------------------------- MODULE Handoff -------------------------------
(***************************************************************************)
(* The agent-to-agent handoff: plugin/scripts/handoff.py, composed with    *)
(* the locked append of its event log.  A command reads the state file,    *)
(* changes what it read, writes it to ONE temporary name that all          *)
(* processes share, renames that over the state file, writes the note and  *)
(* appends an event.  Only the append is locked: commands overlap freely.  *)
(*                                                                         *)
(* Files are inodes, because a process may still hold the temporary file   *)
(* open when another has renamed it into place.  A spindle is the number   *)
(* of its handoff (which fixes the agents and the transferred state) and   *)
(* the latch.  spindle.json of an older version is read, never written.    *)
(***************************************************************************)
EXTENDS LockedAppend

CONSTANTS
    NoSpindle,    \* no state: absent or not readable as JSON
    MaxHandoffs,  \* bound: handoffs made
    MaxCommands,  \* bound: handoffs, confirms and clears started
    MaxKills      \* bound: processes killed or stopped by an error of the log

VARIABLES
    content,  \* of each inode: a spindle, or NoSpindle when empty or torn
    empty,    \* the inodes of length zero
    tmp,      \* the inode named spindle_state.json.tmp
    file,     \* the inode named spindle_state.json
    legacy,   \* what spindle.json holds
    note,     \* the handoff HANDOFF.md tells of
    step,     \* where each process is in its command
    command,  \* the command each process runs
    mem,      \* the spindle each process has in memory
    fd,       \* the inode each process has open
    made,     \* handoffs started so far
    started,  \* commands started so far
    kills,    \* kills so far
    shipped,  \* history: handoffs whose state file was renamed into place
    received, \* history: how often each handoff was confirmed
    cleared,  \* history: a clear came after the last handoff shipped
    overlap   \* history: a command read the state while another was about to replace it

stateVars == <<content, empty, tmp, file, legacy, note, step, command, mem, fd, made,
               started, shipped, received, cleared, overlap>>
vars == <<appendVars, stateVars, kills>>

ASSUME BoundAssumption ==
    IsFiniteSet(Writers) /\ MaxHandoffs \in Nat /\ MaxCommands \in Nat /\ MaxKills \in Nat

Inodes == 1..(Cardinality(Writers) + 2)  \* as many as can be open or named at once
NoInode == 0
Spindle == [no : 0..MaxHandoffs, latch : BOOLEAN]
ASSUME SpindleAssumption == NoSpindle \notin Spindle
Changing == {"open", "write", "rename"}

TypeOK ==
    /\ AppendTypeOK
    /\ content \in [Inodes -> Spindle \cup {NoSpindle}] /\ empty \subseteq Inodes
    /\ tmp \in Inodes \cup {NoInode} /\ file \in Inodes \cup {NoInode}
    /\ legacy \in Spindle \cup {NoSpindle} /\ note \in 0..MaxHandoffs
    /\ step \in [Writers -> Changing \cup {"idle", "note", "event", "logging"}]
    /\ command \in [Writers -> {"handoff", "confirm", "clear"}]
    /\ mem \in [Writers -> Spindle \cup {NoSpindle}]
    /\ fd \in [Writers -> Inodes \cup {NoInode}]
    /\ made \in 0..MaxHandoffs /\ started \in 0..MaxCommands /\ kills \in 0..MaxKills
    /\ shipped \subseteq 1..MaxHandoffs /\ received \in [0..MaxHandoffs -> Nat]
    /\ cleared \in BOOLEAN /\ overlap \in BOOLEAN

Init ==
    /\ AppendInit
    /\ content = [i \in Inodes |-> NoSpindle] /\ empty = {}
    /\ tmp = NoInode /\ file = NoInode /\ note = 0
    /\ legacy \in {NoSpindle} \cup [no : {0}, latch : BOOLEAN]
    /\ step = [w \in Writers |-> "idle"] /\ command = [w \in Writers |-> "clear"]
    /\ mem = [w \in Writers |-> NoSpindle] /\ fd = [w \in Writers |-> NoInode]
    /\ made = 0 /\ started = 0 /\ kills = 0
    /\ shipped = {} /\ received = [n \in 0..MaxHandoffs |-> 0]
    /\ cleared = FALSE /\ overlap = FALSE
-----------------------------------------------------------------------------
\* _read_spindle.
Read ==
    IF file = NoInode \/ content[file] = NoSpindle THEN legacy ELSE content[file]

\* The reading part of a command, done at once; the rest of it is the steps below.
Start(w, cmd, spindle, next) ==
    /\ step[w] = "idle" /\ at[w] = "idle" /\ started < MaxCommands
    /\ started' = started + 1
    /\ command' = [command EXCEPT ![w] = cmd]
    /\ mem' = [mem EXCEPT ![w] = spindle]
    /\ step' = [step EXCEPT ![w] = next]
    /\ overlap' = (overlap \/ \E other \in Writers : step[other] \in Changing)

\* cmd_handoff: what it read only fills previous_agent; the latch is set whatever it was.
CmdHandoff(w) ==
    /\ made < MaxHandoffs
    /\ made' = made + 1
    /\ Start(w, "handoff", [no |-> made + 1, latch |-> TRUE], "open")
    /\ UNCHANGED <<appendVars, content, empty, tmp, file, legacy, note, fd, kills,
                   shipped, received, cleared>>

\* cmd_confirm, for whoever runs it: no name is asked for.  cmd_receive then prints what
\* it finds.
CmdConfirm(w) ==
    /\ Read # NoSpindle /\ Read.latch
    /\ Start(w, "confirm", [Read EXCEPT !.latch = FALSE], "open")
    /\ UNCHANGED <<appendVars, content, empty, tmp, file, legacy, note, fd, kills, made,
                   shipped, received, cleared>>

\* cmd_clear removes the current file name alone.
CmdClear(w) ==
    /\ file # NoInode
    /\ Start(w, "clear", NoSpindle, "event")
    /\ file' = NoInode
    /\ cleared' = TRUE
    /\ UNCHANGED <<appendVars, content, empty, tmp, legacy, note, fd, kills, made,
                   shipped, received>>
-----------------------------------------------------------------------------
(* _write_spindle: open, write and rename.                                 *)

Fresh == CHOOSE i \in Inodes : i \notin {file, tmp} \cup {fd[w] : w \in Writers}

\* Mutant: the state file is opened and truncated in place.
WrongOpenInPlace(w) ==
    LET i == IF file = NoInode THEN Fresh ELSE file IN
    /\ step[w] = "open"
    /\ tmp' = i /\ file' = i
    /\ fd' = [fd EXCEPT ![w] = i]
    /\ content' = [content EXCEPT ![i] = NoSpindle]
    /\ empty' = empty \cup {i}
    /\ step' = [step EXCEPT ![w] = "write"]
    /\ UNCHANGED <<appendVars, legacy, note, command, mem, made, started, kills,
                   shipped, received, cleared, overlap>>

\* open(tmp, "w"): a temporary file left by another process is truncated and shared.
Open(w) ==
    LET i == IF tmp = NoInode THEN Fresh ELSE tmp IN
    /\ step[w] = "open"
    /\ tmp' = i
    /\ fd' = [fd EXCEPT ![w] = i]
    /\ content' = [content EXCEPT ![i] = NoSpindle]
    /\ empty' = empty \cup {i}
    /\ step' = [step EXCEPT ![w] = "write"]
    /\ UNCHANGED <<appendVars, file, legacy, note, command, mem, made, started, kills,
                   shipped, received, cleared, overlap>>

\* json.dump and close.  Over what another process wrote to the same inode the
\* text is whole if it is the longer one, and torn otherwise.
Write(w) ==
    /\ step[w] = "write"
    /\ \E text \in {mem[w]} \cup (IF fd[w] \in empty THEN {} ELSE {NoSpindle}) :
          content' = [content EXCEPT ![fd[w]] = text]
    /\ empty' = empty \ {fd[w]}
    /\ step' = [step EXCEPT ![w] = "rename"]
    /\ UNCHANGED <<appendVars, tmp, file, legacy, note, command, mem, fd, made, started,
                   kills, shipped, received, cleared, overlap>>

\* os.replace.
Rename(w) ==
    /\ step[w] = "rename" /\ tmp # NoInode
    /\ file' = tmp /\ tmp' = NoInode
    /\ fd' = [fd EXCEPT ![w] = NoInode]
    /\ IF command[w] = "handoff"
         THEN /\ shipped' = shipped \cup {mem[w].no} /\ cleared' = FALSE
              /\ step' = [step EXCEPT ![w] = "note"]
              /\ UNCHANGED received
         ELSE /\ received' = [received EXCEPT ![mem[w].no] = @ + 1]
              /\ step' = [step EXCEPT ![w] = "event"]
              /\ UNCHANGED <<shipped, cleared>>
    /\ UNCHANGED <<appendVars, content, empty, legacy, note, command, mem, made, started,
                   kills, overlap>>

\* The temporary file has been renamed by another process: FileNotFoundError.
RenameFails(w) ==
    /\ step[w] = "rename" /\ tmp = NoInode
    /\ step' = [step EXCEPT ![w] = "idle"]
    /\ fd' = [fd EXCEPT ![w] = NoInode]
    /\ UNCHANGED <<appendVars, content, empty, tmp, file, legacy, note, command, mem, made,
                   started, kills, shipped, received, cleared, overlap>>

\* _write_handoff_md: an error leaves the old note.
WriteNote(w) ==
    /\ step[w] = "note"
    /\ note' \in {note, mem[w].no}
    /\ step' = [step EXCEPT ![w] = "event"]
    /\ UNCHANGED <<appendVars, content, empty, tmp, file, legacy, command, mem, fd, made,
                   started, kills, shipped, received, cleared, overlap>>

\* _append_event: the call, and the return of the command when the call returns.
AppendEvent(w) ==
    /\ step[w] = "event"
    /\ Call(w)
    /\ step' = [step EXCEPT ![w] = "logging"]
    /\ UNCHANGED <<content, empty, tmp, file, legacy, note, command, mem, fd, made,
                   started, kills, shipped, received, cleared, overlap>>

Finish(w) ==
    /\ step[w] = "logging" /\ at[w] = "idle"
    /\ step' = [step EXCEPT ![w] = "idle"]
    /\ UNCHANGED <<appendVars, content, empty, tmp, file, legacy, note, command, mem, fd,
                   made, started, kills, shipped, received, cleared, overlap>>

\* A process is killed: its files are closed and its lock is dropped.
Kill(w) ==
    /\ step[w] # "idle" /\ kills < MaxKills
    /\ kills' = kills + 1
    /\ step' = [step EXCEPT ![w] = "idle"]
    /\ fd' = [fd EXCEPT ![w] = NoInode]
    /\ IF at[w] = "idle" THEN UNCHANGED appendVars ELSE Stop(w)
    /\ UNCHANGED <<content, empty, tmp, file, legacy, note, command, mem, made, started,
                   shipped, received, cleared, overlap>>

\* A step of locked_append_line; its failures count as kills.
LogStep(w) ==
    /\ \/ /\ Acquire(w) \/ GiveUp(w) \/ WriteHead(w) \/ WriteTail(w) \/ Release(w)
          /\ UNCHANGED kills
       \/ WriteFails(w) /\ kills < MaxKills /\ kills' = kills + 1
    /\ UNCHANGED stateVars

Next ==
    \E w \in Writers :
        \/ CmdHandoff(w) \/ CmdConfirm(w) \/ CmdClear(w)
        \/ Open(w) \/ Write(w) \/ Rename(w) \/ RenameFails(w)
        \/ WriteNote(w) \/ AppendEvent(w) \/ LogStep(w) \/ Finish(w) \/ Kill(w)

Spec == Init /\ [][Next]_vars

\* A waiting process polls until its deadline.  Nothing is assumed of the holder:
\* it may hang in a write or an fsync for ever.
FairSpec == Spec /\ \A w \in Writers : WF_vars((Acquire(w) \/ GiveUp(w)) /\ UNCHANGED <<stateVars, kills>>)
-----------------------------------------------------------------------------
Newest == CHOOSE n \in shipped : \A m \in shipped : m <= n

\* A handoff that nobody confirmed or cleared is still latched and readable,
\* whichever commands were killed at whichever step, as long as no command read
\* the state while another was about to replace it ("if the next agent never
\* confirms, the handoff remains LATCHED").
LatchHolds ==
    shipped # {} /\ received[Newest] = 0 /\ ~cleared /\ ~overlap =>
        Read = [no |-> Newest, latch |-> TRUE]
=============================================================================
