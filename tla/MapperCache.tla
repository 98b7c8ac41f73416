----------------------------- MODULE MapperCache -----------------------------
(***************************************************************************)
(* The project map of .simplicio/hook-context: made and handed out by the  *)
(* Claude hook (plugins/simplicio/hooks/mapper_context.py) and by the      *)
(* Hermes plugin when its Runtime fails (plugins/simplicio-hermes/         *)
(* hermes_plugin.py).  Both keep map.md and warm-receipt.json there, each  *)
(* replaced atomically but not together; only the hook takes warm.lock,    *)
(* and a lock older than DEFAULT_TIMEOUT_SECONDS is taken over although    *)
(* two mappers of that timeout each may still run under it.                *)
(*                                                                         *)
(* A generation names the tree a map is for.  The hook derives it from git *)
(* status and file times, which do not show what changes inside an         *)
(* untracked directory; where git does not answer, all it has is the time  *)
(* of the root directory, which a change of a file does not move.  Hermes  *)
(* hashes every byte.  The mappers are external: the Runtime writes a file *)
(* of its caller's own, the Python Mapper reads the tree, then writes      *)
(* .simplicio/docs, which its callers share.  A digest is the text it is a *)
(* digest of.                                                              *)
(***************************************************************************)
EXTENDS Naturals, FiniteSets

CONSTANTS
    Hooks,        \* processes of the Claude hook
    Agents,       \* Hermes processes
    Sessions,     \* prompt contexts, as _session_scope tells them apart
    Runtime,      \* the maker of a map that no Python Mapper made
    Nothing,      \* no map, receipt, marker, lock, text
    MaxCalls,     \* bound: calls of hook and plugin
    MaxBusy,      \* bound: calls at work at the same time
    MaxEvents     \* bound: edits, upgrades of the Mapper, looks without git, kills, old locks

Procs == Hooks \cup Agents

ASSUME MapperAssumption ==
    /\ Hooks \cap Agents = {} /\ Nothing \notin Procs \cup Sessions
    /\ Runtime \notin Nat
    /\ MaxCalls \in Nat /\ MaxBusy \in Nat /\ MaxEvents \in Nat

VARIABLES
    tree,      \* the project: what git status shows of it, what not, and its root's time
    mapper,    \* the installed Python Mapper
    docs,      \* .simplicio/docs/architecture.md
    mapFile,   \* map.md
    receipt,   \* warm-receipt.json
    lock,      \* warm.lock: whose, and whether it is older than its limit
    marker,    \* mapper-delivery-<scope>.json of every session
    at,        \* where each process is
    job,       \* what each process knows: its call, what it looked at and how, what it read
    stray,     \* the tree read by a Mapper whose caller was killed
    given,     \* history: the receipts whose map each session was given
    cut,       \* history: sessions with a hook killed between marker and output
    crossed,   \* history: the tree changed between a look and the Mapper's read
    mixed,     \* history: two runs of the Python Mapper overlapped
    calls, events  \* counters of the bounds

vars == <<tree, mapper, docs, mapFile, receipt, lock, marker, at, job, stray, given, cut,
          crossed, mixed, calls, events>>
cache == <<docs, mapFile, receipt, lock>>
surroundings == <<tree, mapper, events>>
world == <<surroundings, calls>>
history == <<given, cut, crossed, mixed>>

Trees == [shown : {0, 1}, hidden : {0, 1}, root : 0..MaxEvents]
Texts == [of : Trees, by : {Runtime} \cup (0..MaxEvents)]

\* How a tree is looked at: by git, by the root's time where git fails, takes more than two
\* seconds or is not there, or by every byte.
Looks == {"git", "root", "bytes"}

\* _generation of the hook, and _project_generation of Hermes: what a look tells apart.
Generation(how, t) ==
    [how |-> how,
     shown |-> IF how = "root" THEN 0 ELSE t.shown,
     hidden |-> IF how = "bytes" THEN t.hidden ELSE 0,
     root |-> IF how = "root" THEN t.root ELSE 0]
Generations == [how : Looks, shown : {0, 1}, hidden : {0, 1}, root : 0..MaxEvents]

\* One call: the session and event of a hook, the tree looked at and how, the Mapper Hermes
\* resolved, the receipt in hand (with its text), the text still to be recorded.
NoJob == [session |-> Nothing, speaks |-> FALSE, forced |-> FALSE, looked |-> Nothing,
          how |-> "bytes", mapper |-> 0, receipt |-> Nothing, text |-> Nothing]
LookedFor(p) == Generation(job[p].how, job[p].looked)
Places == {"idle", "look", "lock", "steal", "again", "resolve", "runtime", "python", "writing",
           "read", "replace", "record", "unlock", "deliver", "print"}
Receipts == [generation : Generations, text : Texts,
             mapper : {Nothing} \cup (0..MaxEvents)]

TypeOK ==
    /\ tree \in Trees /\ mapper \in 0..MaxEvents
    /\ docs \in Texts \cup {Nothing} /\ mapFile \in Texts \cup {Nothing}
    /\ receipt \in Receipts \cup {Nothing}
    /\ lock \in [by : Hooks, old : BOOLEAN] \cup {Nothing}
    /\ marker \in [Sessions -> Receipts \cup {Nothing}]
    /\ at \in [Procs -> Places]
    /\ \A p \in Procs :
          /\ job[p].session \in Sessions \cup {Nothing}
          /\ job[p].looked \in Trees \cup {Nothing} /\ job[p].how \in Looks
          /\ job[p].receipt \in Receipts \cup {Nothing}
          /\ job[p].text \in Texts \cup {Nothing}
    /\ stray \in Texts \cup {Nothing}
    /\ given \in [Sessions -> SUBSET Receipts] /\ cut \subseteq Sessions
    /\ crossed \in BOOLEAN /\ mixed \in BOOLEAN

Init ==
    /\ tree = [shown |-> 0, hidden |-> 0, root |-> 0] /\ mapper = 0
    /\ docs = Nothing /\ mapFile = Nothing /\ receipt = Nothing /\ lock = Nothing
    /\ marker = [s \in Sessions |-> Nothing]
    /\ at = [p \in Procs |-> "idle"] /\ job = [p \in Procs |-> NoJob]
    /\ stray = Nothing
    /\ given = [s \in Sessions |-> {}] /\ cut = {} /\ crossed = FALSE /\ mixed = FALSE
    /\ calls = 0 /\ events = 0
-----------------------------------------------------------------------------
Goto(p, place) == at' = [at EXCEPT ![p] = place]
Note(p, place, known) ==
    /\ Goto(p, place)
    /\ job' = [job EXCEPT ![p] = known]

\* Back to the host: denied, recovered, or with what it asked for.
Return(p) == Note(p, "idle", NoJob)
Keep(p, place) == Goto(p, place) /\ UNCHANGED job

(* The start of a call.                                                    *)

Event == events < MaxEvents /\ events' = events + 1

Call(p) ==
    /\ at[p] = "idle" /\ Cardinality({q \in Procs : at[q] # "idle"}) < MaxBusy
    /\ calls < MaxCalls /\ calls' = calls + 1

\* main: a hook for an event, of which some may add to the prompt; the look at the tree,
\* which git answers or not.
StartHook(p) ==
    /\ Call(p)
    /\ \E s \in Sessions, speaks, forced \in BOOLEAN, how \in {"git", "root"} :
          /\ Note(p, "look", [NoJob EXCEPT !.session = s, !.speaks = speaks, !.how = how,
                                           !.forced = forced /\ speaks, !.looked = tree])
          /\ IF how = "root" THEN Event ELSE UNCHANGED events
    /\ UNCHANGED <<cache, tree, mapper, history, marker, stray>>

\* _python_mapper_receipt: the look at the tree, ...
StartAgent(p) ==
    /\ Call(p)
    /\ Note(p, "resolve", [NoJob EXCEPT !.looked = tree])
    /\ UNCHANGED <<cache, surroundings, history, marker, stray>>

\* ... then the Mapper, attested before it may be used; none, or a wrong one, ends the call.
Resolve(p) ==
    /\ at[p] = "resolve"
    /\ \/ Note(p, "look", [job[p] EXCEPT !.mapper = mapper])
       \/ Return(p)
    /\ UNCHANGED <<cache, world, history, marker, stray>>

\* _read_ready, and the checks of _python_mapper_receipt: the receipt names this
\* generation and the map beside it is the one it was written for.  The two files are
\* read one after the other and compared, so a map replaced in between is not used.
Usable(p, r) ==
    /\ r # Nothing /\ mapFile = r.text
    /\ r.generation = LookedFor(p)
    /\ p \in Agents => r.mapper = job[p].mapper

\* A usable map is handed out, otherwise one is made.
Look(p) ==
    /\ at[p] = "look"
    /\ IF Usable(p, receipt)
         THEN Note(p, "deliver", [job[p] EXCEPT !.receipt = receipt])
         ELSE Keep(p, IF p \in Hooks THEN "lock" ELSE "python")
    /\ UNCHANGED <<cache, world, history, marker, stray>>
-----------------------------------------------------------------------------
(* warm.lock.                                                              *)

\* _lock: created if absent; an old one is to be removed; otherwise the hook is denied.
Lock(p) ==
    /\ at[p] = "lock"
    /\ IF lock = Nothing
         THEN lock' = [by |-> p, old |-> FALSE] /\ Keep(p, "again")
         ELSE /\ IF lock.old THEN Keep(p, "steal") ELSE Return(p)
              /\ UNCHANGED lock
    /\ UNCHANGED <<docs, mapFile, receipt, world, history, marker, stray>>

\* The old lock is removed, or by now another one; one that is gone denies the hook.
Steal(p) ==
    /\ at[p] = "steal"
    /\ IF lock = Nothing THEN Return(p) ELSE Keep(p, "lock")
    /\ lock' = Nothing
    /\ UNCHANGED <<docs, mapFile, receipt, world, history, marker, stray>>

\* _ensure_map under the lock.
LookAgain(p) ==
    /\ at[p] = "again"
    /\ IF Usable(p, receipt)
         THEN Note(p, "unlock", [job[p] EXCEPT !.receipt = receipt])
         ELSE Keep(p, "runtime")
    /\ UNCHANGED <<cache, world, history, marker, stray>>

\* The `finally` of _ensure_map, which removes whichever lock is there.
Unlock(p) ==
    /\ at[p] = "unlock"
    /\ lock' = Nothing
    /\ IF job[p].receipt = Nothing THEN Return(p) ELSE Keep(p, "deliver")
    /\ UNCHANGED <<docs, mapFile, receipt, world, history, marker, stray>>
-----------------------------------------------------------------------------
(* Making a map.                                                           *)

Crossing(p) == crossed' = (crossed \/ Generation(job[p].how, tree) # LookedFor(p))

\* _run_runtime_mapper, which falls back to the Python Mapper on any failure.
RunRuntime(p) ==
    /\ at[p] = "runtime"
    /\ \/ Note(p, "replace", [job[p] EXCEPT !.text = [of |-> tree, by |-> Runtime]])
          /\ Crossing(p)
       \/ Keep(p, "python") /\ UNCHANGED crossed
    /\ UNCHANGED <<cache, world, given, cut, mixed, marker, stray>>

\* No map: a hook still removes its lock.
GiveUp(p) == IF p \in Hooks THEN Note(p, "unlock", [job[p] EXCEPT !.text = Nothing]) ELSE Return(p)

\* The Python Mapper reads the tree, unless it cannot be run, ...
RunPython(p) ==
    /\ at[p] = "python"
    /\ \/ /\ Note(p, "writing", [job[p] EXCEPT !.text = [of |-> tree, by |-> mapper]])
          /\ Crossing(p)
          /\ mixed' = (mixed \/ stray # Nothing
                             \/ \E q \in Procs \ {p} : at[q] \in {"writing", "read"})
       \/ GiveUp(p) /\ UNCHANGED <<crossed, mixed>>
    /\ UNCHANGED <<cache, world, given, cut, marker, stray>>

\* ... writes what it made of it, or fails or runs out of its time, ...
PythonWrites(p) ==
    /\ at[p] = "writing"
    /\ \/ docs' = job[p].text /\ Note(p, "read", [job[p] EXCEPT !.text = Nothing])
       \/ GiveUp(p) /\ UNCHANGED docs
    /\ UNCHANGED <<mapFile, receipt, lock, world, history, marker, stray>>

\* ... and its caller reads it (_python_map_markdown).
ReadDocs(p) ==
    /\ at[p] = "read"
    /\ Note(p, "replace", [job[p] EXCEPT !.text = docs])
    /\ UNCHANGED <<cache, world, history, marker, stray>>

\* map.md is replaced, ...
Replace(p) ==
    /\ at[p] = "replace"
    /\ mapFile' = job[p].text
    /\ Keep(p, "record")
    /\ UNCHANGED <<docs, receipt, lock, world, history, marker, stray>>

\* Mutant: the map is taken to be of the tree as it is when the receipt is written.
WrongReceiptOfNow(p) ==
    [generation |-> Generation(job[p].how, tree), text |-> job[p].text,
     mapper |-> IF p \in Agents THEN job[p].mapper ELSE Nothing]

ReceiptOf(p) ==
    [generation |-> LookedFor(p), text |-> job[p].text,
     mapper |-> IF p \in Agents THEN job[p].mapper ELSE Nothing]

\* ... then the receipt.
RecordMap(p) ==
    /\ at[p] = "record"
    /\ receipt' = ReceiptOf(p)
    /\ Note(p, IF p \in Hooks THEN "unlock" ELSE "deliver",
            [job[p] EXCEPT !.receipt = ReceiptOf(p), !.text = Nothing])
    /\ UNCHANGED <<docs, mapFile, lock, world, history, marker, stray>>
-----------------------------------------------------------------------------
(* Handing it out.                                                         *)

\* Mutant: a session that was given some map is given no other.
WrongAlreadyGivenAny(s, r) == marker[s] # Nothing

AlreadyGiven(s, r) == marker[s] # Nothing /\ marker[s].generation = r.generation /\ marker[s].text = r.text

Withheld(p) == at[p] = "deliver" /\ job[p].speaks /\ ~job[p].forced /\ AlreadyGiven(job[p].session, job[p].receipt)

\* _context: the map must still be that of the receipt; the marker is written first, and
\* what the session has already been given is not repeated.  Other events only let the
\* tool call pass.
DeliverHook(p) ==
    /\ at[p] = "deliver" /\ p \in Hooks
    /\ LET s == job[p].session
           r == job[p].receipt
       IN  IF job[p].speaks /\ mapFile = r.text /\ ~Withheld(p)
             THEN /\ marker' = [marker EXCEPT ![s] = r]
                  /\ Keep(p, "print")
             ELSE Return(p) /\ UNCHANGED marker
    /\ UNCHANGED <<cache, world, history, stray>>

\* _emit_context.
EmitContext(p) ==
    /\ at[p] = "print"
    /\ given' = [given EXCEPT ![job[p].session] = @ \cup {job[p].receipt}]
    /\ Return(p)
    /\ UNCHANGED <<cache, world, cut, crossed, mixed, marker, stray>>

\* _python_receipt: Hermes hands out the text it has in hand, whatever map.md is by now.
DeliverAgent(p) ==
    /\ at[p] = "deliver" /\ p \in Agents
    /\ Return(p)
    /\ UNCHANGED <<cache, world, history, marker, stray>>
-----------------------------------------------------------------------------
(* The surroundings.                                                       *)

LockAges ==
    /\ lock # Nothing /\ ~lock.old /\ Event
    /\ lock' = [lock EXCEPT !.old = TRUE]
    /\ UNCHANGED <<docs, mapFile, receipt, tree, mapper, calls, history, marker, at, job, stray>>

\* A change of the project, which may undo an earlier one.  Only one that makes, renames or
\* removes an entry of the root directory moves the root's time, and that never back.
Edit ==
    /\ Event
    /\ \/ tree' = [tree EXCEPT !.shown = 1 - @]
       \/ tree' = [tree EXCEPT !.hidden = 1 - @]
       \/ tree' = [tree EXCEPT !.shown = 1 - @, !.root = @ + 1]
    /\ UNCHANGED <<cache, mapper, calls, history, marker, at, job, stray>>

Upgrade ==
    /\ Event
    /\ mapper' = mapper + 1
    /\ UNCHANGED <<cache, tree, calls, history, marker, at, job, stray>>

\* A process is killed.  A Mapper it had running lives on, or not.
Kill(p) ==
    /\ at[p] # "idle" /\ Event
    /\ \/ at[p] = "writing" /\ stray = Nothing /\ stray' = job[p].text
       \/ UNCHANGED stray
    /\ cut' = IF at[p] = "print" THEN cut \cup {job[p].session} ELSE cut
    /\ Return(p)
    /\ UNCHANGED <<cache, tree, mapper, calls, given, crossed, mixed, marker>>

StrayWrites ==
    /\ stray # Nothing /\ docs' = stray /\ stray' = Nothing
    /\ mixed' = (mixed \/ \E q \in Procs : at[q] \in {"writing", "read"})
    /\ UNCHANGED <<mapFile, receipt, lock, world, given, cut, crossed, marker, at, job>>

HookStep(p) ==
    \/ StartHook(p) \/ Look(p) \/ Lock(p) \/ Steal(p) \/ LookAgain(p) \/ Unlock(p)
    \/ RunRuntime(p) \/ RunPython(p) \/ PythonWrites(p) \/ ReadDocs(p)
    \/ Replace(p) \/ RecordMap(p) \/ DeliverHook(p) \/ EmitContext(p)

AgentStep(p) ==
    \/ StartAgent(p) \/ Resolve(p) \/ Look(p)
    \/ RunPython(p) \/ PythonWrites(p) \/ ReadDocs(p)
    \/ Replace(p) \/ RecordMap(p) \/ DeliverAgent(p)

Next ==
    \/ \E p \in Hooks : HookStep(p)
    \/ \E p \in Agents : AgentStep(p)
    \/ \E p \in Procs : Kill(p)
    \/ LockAges \/ StrayWrites \/ Edit \/ Upgrade

Spec == Init /\ [][Next]_vars
-----------------------------------------------------------------------------
\* What is about to be handed out, or lets a tool call pass.
HandsOut(p) == at[p] = "print" \/ (at[p] = "deliver" /\ (p \in Agents \/ ~job[p].speaks))

\* It is a map of the tree that was looked at for it ("verifies a Mapper artifact for the
\* current project revision"), however the two programs replace map.md and receipt under
\* each other and take over each other's locks - unless some tree changed while it was
\* mapped, or two runs of the Python Mapper shared .simplicio/docs.  It says nothing of a
\* hook whose look git did not answer: that one hands out a map of any tree that had the
\* same root time, so a stale one after a change of a file, which the revision promised
\* by the docstring would exclude.
HandedOutIsCurrent ==
    ~crossed /\ ~mixed =>
        \A p \in Procs : HandsOut(p) /\ job[p].how # "root" =>
            Generation(job[p].how, job[p].receipt.text.of) = LookedFor(p)

\* A session from which a map is withheld was given that map ("The host conversation
\* already contains the stable block") or is being given it, unless a hook died between
\* its marker and its output.
WithheldWasGiven ==
    \A p \in Hooks : Withheld(p) /\ job[p].session \notin cut =>
        \/ job[p].receipt \in given[job[p].session]
        \/ \E q \in Hooks : at[q] = "print" /\ job[q].session = job[p].session
                             /\ job[q].receipt = job[p].receipt
=============================================================================
