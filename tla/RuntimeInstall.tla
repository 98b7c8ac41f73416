--------------------------- MODULE RuntimeInstall ---------------------------
(***************************************************************************)
(* The Runtime that the desktop application installs for the user:         *)
(* apps/desktop/src-tauri/src/runtime_install.rs, install_journal.rs,      *)
(* runtime_lifecycle.rs and the commands of lib.rs that drive them.        *)
(*                                                                         *)
(* An application process carries a packaged build.  `install` puts it in  *)
(* the place of the managed one, which it backs up first, and then writes  *)
(* a receipt that names it; only a file the receipt names may be replaced. *)
(* Two processes exclude each other by a file lock that the system frees   *)
(* when its holder dies.  Around an install, but around no other command,  *)
(* a journal says that one is under way: a dead one stays "pending" until  *)
(* it is reconciled.  Inside a process commands are one at a time.         *)
(*                                                                         *)
(* Any step can fail, and a failing rename can have taken effect.  Someone *)
(* who takes no lock can put a file of its own in the place of the target  *)
(* or remove it, and the application itself is updated.                    *)
(***************************************************************************)
EXTENDS Integers

CONSTANTS
    Apps,         \* processes of the application
    MaxBuild,     \* bound: builds of the Runtime, ordered by version
    Foreign,      \* a file in the place of the target that nobody packaged
    NoLife,       \* no lifecycle state from which a rollback starts
    MaxCommands,  \* bound: commands started
    MaxTouches    \* bound: changes of the target by someone without the lock

NoFile == 0
Builds == 1..MaxBuild
Records == {"in_progress", "settled", "reconciliation_required"}

ASSUME InstallAssumption ==
    /\ MaxBuild \in Nat \ {0} /\ MaxCommands \in Nat /\ MaxTouches \in Nat
    /\ Foreign \notin 0..MaxBuild /\ NoLife \notin (0..MaxBuild) \X Builds
    /\ Apps \cap (Records \cup {"torn", "none"}) = {}

VARIABLES
    bundle,   \* the packaged build
    target,   \* ~/.simplicio/bin/simplicio
    backup,   \* simplicio.previous
    receipt,  \* the build that desktop-runtime-receipt.json names
    life,     \* desktop-runtime-lifecycle.json: the active and the previous build
    attempt,  \* install-attempt.json, its .bak and its .tmp
    at,       \* where each process is in its command
    job,      \* what each process knows of it
    commands, \* commands started
    touches,  \* changes of the target by someone without the lock
    owed,     \* history: an install was begun and has not succeeded, nor was it reconciled,
              \* and no other process has run an install or a reconciliation beside it
    good,     \* history: the build that target and receipt agreed on when the lock was last freed
    touched   \* history: since then someone without the lock has changed the target

fileVars == <<target, backup, receipt>>
historyVars == <<owed, good, touched>>
countVars == <<commands, touches>>
installVars == <<bundle, fileVars, life, attempt, at, job, countVars, historyVars>>

\* A record half-written: by a process that is still at it, or by a dead one.
Unreadable == Apps \cup {"torn"}
JournalSteps == {"create", "fill", "clear", "aside", "place"}
LockedSteps == {"exact", "exactWritten", "backup", "recheck", "publish", "readback", "activate",
                "written", "undo", "restore", "undoReceipt", "swap", "swapped", "checked", "swapBack"}
Job == [kind : {"none", "install", "reconcile", "apply", "rollback"},
        record : Records,                 \* what it writes to the journal
        new : 0..MaxBuild,                \* the build it publishes
        old : 0..MaxBuild,                \* the target it found, NoFile if there was none
        oldReceipt : 0..MaxBuild,         \* the receipt it found
        previous : 0..MaxBuild,           \* the build a later rollback returns to
        overlaps : BOOLEAN]               \* history: another journaled command ran beside it
NoJob == [kind |-> "none", record |-> "settled", new |-> NoFile, old |-> NoFile,
          oldReceipt |-> NoFile, previous |-> NoFile, overlaps |-> FALSE]

InstallTypeOK ==
    /\ bundle \in Builds /\ target \in Builds \cup {NoFile, Foreign}
    /\ backup \in Builds \cup {NoFile} /\ receipt \in Builds \cup {NoFile}
    /\ life \in ((0..MaxBuild) \X Builds) \cup {NoLife}
    /\ attempt \in [{"path", "bak", "tmp"} -> Records \cup Unreadable \cup {"none"}]
    /\ at \in [Apps -> {"idle", "lock", "lockRollback", "persist"} \cup JournalSteps \cup LockedSteps]
    /\ job \in [Apps -> Job]
    /\ commands \in 0..MaxCommands /\ touches \in 0..MaxTouches
    /\ owed \in BOOLEAN /\ good \in Builds \cup {NoFile} /\ touched \in BOOLEAN

InstallInit ==
    /\ bundle \in Builds
    /\ target = NoFile /\ backup = NoFile /\ receipt = NoFile /\ life = NoLife
    /\ attempt = [name \in {"path", "bak", "tmp"} |-> "none"]
    /\ at = [p \in Apps |-> "idle"] /\ job = [p \in Apps |-> NoJob]
    /\ commands = 0 /\ touches = 0
    /\ owed = FALSE /\ good = NoFile /\ touched = FALSE
-----------------------------------------------------------------------------
(* The journal.                                                            *)

\* candidate: the first of the three that exists.
Candidate ==
    IF attempt["path"] # "none" THEN attempt["path"]
    ELSE IF attempt["bak"] # "none" THEN attempt["bak"] ELSE attempt["tmp"]

\* InstallAttempt::load: whatever is not a settled record blocks.
Pending == Candidate \notin {"none", "settled"}

InJournal(p) == at[p] # "idle" /\ job[p].kind \in {"install", "reconcile"}
Alone(p) == \A q \in Apps \ {p} : ~InJournal(q)

Goto(p, step) == at' = [at EXCEPT ![p] = step]
Write(p, record) == at' = [at EXCEPT ![p] = "create"] /\ job' = [job EXCEPT ![p].record = record]
Leave(p) == at' = [at EXCEPT ![p] = "idle"] /\ job' = [job EXCEPT ![p] = NoJob]
Abandoned(p) == [name \in DOMAIN attempt |-> IF attempt[name] = p THEN "torn" ELSE attempt[name]]

\* write_atomic: a stale temporary file is removed and a new one created ...
JournalCreate(p) ==
    /\ at[p] = "create"
    /\ attempt' = [attempt EXCEPT !["tmp"] = p] /\ Goto(p, "fill")
    /\ UNCHANGED <<bundle, fileVars, life, job, countVars, historyVars>>

\* ... written under whatever name it has by now ...
JournalFill(p) ==
    /\ at[p] = "fill"
    /\ attempt' = [name \in DOMAIN attempt |->
                      IF attempt[name] = p THEN job[p].record ELSE attempt[name]]
    /\ Goto(p, "clear")
    /\ UNCHANGED <<bundle, fileVars, life, job, countVars, historyVars>>

\* ... an old record first loses its older backup ...
JournalClear(p) ==
    /\ at[p] = "clear"
    /\ IF attempt["path"] = "none" THEN Goto(p, "place") /\ UNCHANGED attempt
       ELSE Goto(p, "aside") /\ attempt' = [attempt EXCEPT !["bak"] = "none"]
    /\ UNCHANGED <<bundle, fileVars, life, job, countVars, historyVars>>

\* Mutant: the old record is removed, not renamed.
WrongSetAsideRemoves == [attempt EXCEPT !["path"] = "none"]

SetAside == [attempt EXCEPT !["bak"] = attempt["path"], !["path"] = "none"]

\* ... and is then renamed to .bak itself ...
JournalAside(p) ==
    /\ at[p] = "aside" /\ attempt["path"] # "none"
    /\ attempt' = SetAside /\ Goto(p, "place")
    /\ UNCHANGED <<bundle, fileVars, life, job, countVars, historyVars>>

\* ... and the new one renamed to the path; the install then starts, or the command is over.
JournalPlace(p) ==
    /\ at[p] = "place" /\ attempt["tmp"] # "none"
    /\ attempt' = [attempt EXCEPT !["path"] = attempt["tmp"], !["tmp"] = "none"]
    /\ IF job[p].record = "in_progress" THEN Goto(p, "lock") /\ UNCHANGED job ELSE Leave(p)
    /\ owed' = CASE job[p].record = "in_progress" -> ~job[p].overlaps
                 [] job[p].record = "settled" -> FALSE
                 [] OTHER -> owed
    /\ UNCHANGED <<bundle, fileVars, life, countVars, good, touched>>

\* A step of it that fails ends the command, the first perhaps with the stale file removed;
\* the last one puts the old record back.
JournalFails(p) ==
    /\ at[p] \in JournalSteps
    /\ \/ attempt' = Abandoned(p)
       \/ at[p] = "create" /\ attempt' = [attempt EXCEPT !["tmp"] = "none"]
       \/ /\ at[p] = "place" /\ attempt["path"] = "none" /\ attempt["bak"] # "none"
          /\ attempt' = [attempt EXCEPT !["path"] = attempt["bak"], !["bak"] = "none"]
    /\ Leave(p)
    /\ UNCHANGED <<bundle, fileVars, life, countVars, historyVars>>
-----------------------------------------------------------------------------
(* The commands.                                                           *)

\* inspect_target, against a build to install.
TargetState(new) ==
    CASE target = NoFile -> "Absent"
      [] target = new -> "Exact"
      [] target \notin {NoFile, new} /\ target # receipt -> "Untrusted"
      [] target \notin {NoFile, new} /\ target = receipt ->
            IF target > new THEN "NewerReceipted" ELSE "Replace"

Start(p, step) ==
    /\ at[p] = "idle" /\ commands < MaxCommands
    /\ Goto(p, step) /\ commands' = commands + 1
    /\ UNCHANGED <<bundle, fileVars, life, attempt, touches, good, touched>>

StartJournaled(p, new) ==
    /\ Start(p, "create")
    /\ job' = [q \in Apps |->
                  IF q = p THEN [new EXCEPT !.overlaps = ~Alone(p)]
                  ELSE IF InJournal(q) THEN [job[q] EXCEPT !.overlaps = TRUE] ELSE job[q]]
    /\ owed' = (owed /\ Alone(p))

\* desktop_install_runtime up to begin_persisted.
StartInstall(p) ==
    /\ ~Pending
    /\ StartJournaled(p, [NoJob EXCEPT !.kind = "install", !.record = "in_progress"])

\* desktop_reconcile_runtime_install: only a look at the target (current_snapshot), which
\* an untrusted one fails; then the journal is settled.
StartReconcile(p) ==
    /\ Pending /\ TargetState(bundle) # "Untrusted"
    /\ StartJournaled(p, [NoJob EXCEPT !.kind = "reconcile"])

\* runtime_lifecycle::apply up to the install: a file that its receipt does not name fails.
StartApply(p) ==
    /\ target = NoFile \/ receipt \in {NoFile, target}
    /\ Start(p, "lock")
    /\ job' = [job EXCEPT ![p] = [NoJob EXCEPT !.kind = "apply",
                                     !.previous = IF target = NoFile THEN NoFile ELSE receipt]]
    /\ UNCHANGED owed

\* runtime_lifecycle::rollback up to the rollback of the installer.
StartRollback(p) ==
    /\ life # NoLife
    /\ Start(p, "lockRollback")
    /\ job' = [job EXCEPT ![p] = [NoJob EXCEPT !.kind = "rollback", !.old = life[1], !.new = life[2]]]
    /\ UNCHANGED owed

\* runtime_lifecycle::read rewrites a state that is not of this build and this target.
ReadLifecycle ==
    /\ life # NoLife /\ ~(life[1] = bundle /\ life[1] = target)
    /\ TargetState(bundle) \in {"Exact", "NewerReceipted"}
    /\ life' = NoLife
    /\ UNCHANGED <<bundle, fileVars, attempt, at, job, countVars, historyVars>>
-----------------------------------------------------------------------------
(* install.                                                                *)

Free(p) == \A q \in Apps \ {p} : at[q] \notin LockedSteps
Agreed == target' = receipt' /\ receipt' # NoFile

\* The lock is freed: by a command that ends, or by the death of its process.
Unlock(p) ==
    IF at[p] \in LockedSteps /\ Agreed
    THEN good' = target' /\ touched' = FALSE
    ELSE UNCHANGED <<good, touched>>

\* An install is journaled (finish_persisted); the other two persist the lifecycle state.
Succeeds(p) ==
    /\ IF job[p].kind = "install" THEN Write(p, "settled") ELSE Goto(p, "persist") /\ UNCHANGED job
    /\ Unlock(p) /\ UNCHANGED <<bundle, life, attempt, countVars, owed>>
Fails(p) ==
    /\ IF job[p].kind = "install" THEN Write(p, "reconciliation_required") ELSE Leave(p)
    /\ Unlock(p) /\ UNCHANGED <<bundle, life, attempt, countVars, owed>>
Proceeds(p, step) == Goto(p, step) /\ UNCHANGED <<bundle, life, attempt, job, countVars, historyVars>>

\* The package is validated, the lock is taken without waiting, the target is inspected.
TakeLock(p) ==
    /\ at[p] = "lock"
    /\ UNCHANGED fileVars
    /\ \/ Fails(p)
       \/ /\ Free(p) /\ TargetState(bundle) \in {"Absent", "Exact", "Replace"}
          /\ job' = [job EXCEPT ![p].new = bundle, ![p].old = target, ![p].oldReceipt = receipt]
          /\ Goto(p, CASE TargetState(bundle) = "Absent" -> "recheck"
                       [] TargetState(bundle) = "Exact" -> "exact"
                       [] OTHER -> "backup")
          /\ UNCHANGED <<bundle, life, attempt, countVars, historyVars>>

\* The target is exact: its receipt is written again ...
ExactReceipt(p) ==
    /\ at[p] = "exact"
    /\ \/ UNCHANGED fileVars /\ Fails(p)
       \/ /\ target = job[p].new /\ receipt' = job[p].new
          /\ Proceeds(p, "exactWritten") /\ UNCHANGED <<target, backup>>

\* ... and stays if the write and a second look at the target say so.
ExactDone(p) ==
    /\ at[p] = "exactWritten"
    /\ UNCHANGED <<target, backup>>
    /\ \/ target = job[p].new /\ UNCHANGED receipt /\ Succeeds(p)
       \/ receipt' \in {receipt, job[p].oldReceipt} /\ Fails(p)

\* Mutant: the staged build is backed up, not the one it replaces.
WrongBackedUpStaged(p) == job[p].new

BackedUp(p) == job[p].old

\* backup_existing.
BackUp(p) ==
    /\ at[p] = "backup"
    /\ UNCHANGED <<target, receipt>>
    /\ \/ UNCHANGED backup /\ Fails(p)
       \/ /\ target = job[p].old /\ backup' = BackedUp(p)
          /\ Fails(p) \/ Proceeds(p, "recheck")

\* The last look at the target before it is replaced.
Recheck(p) ==
    /\ at[p] = "recheck"
    /\ UNCHANGED fileVars
    /\ IF target = job[p].old THEN Proceeds(p, "publish") ELSE Fails(p)

\* The rename: it works, fails, or fails though it has worked.
ReplaceStaged(p) ==
    /\ at[p] = "publish"
    /\ UNCHANGED <<backup, receipt>>
    /\ \/ UNCHANGED target /\ Fails(p)
       \/ target' = job[p].new /\ (Proceeds(p, "activate") \/ Proceeds(p, "readback"))

\* Only an effect that was its own is undone.
Readback(p) ==
    /\ at[p] = "readback"
    /\ UNCHANGED fileVars
    /\ IF target = job[p].new /\ receipt = job[p].oldReceipt THEN Proceeds(p, "undo") ELSE Fails(p)

\* What is published is made durable and looked at; then the receipt is written.
Activate(p) ==
    /\ at[p] = "activate"
    /\ UNCHANGED <<target, backup>>
    /\ \/ Proceeds(p, "undo") /\ UNCHANGED receipt
       \/ target = job[p].new /\ receipt' = job[p].new /\ Proceeds(p, "written")

\* write_managed_receipt_transactional: a write in doubt is taken back, if that works.
Written(p) ==
    /\ at[p] = "written"
    /\ UNCHANGED <<target, backup>>
    /\ \/ UNCHANGED receipt /\ Succeeds(p)
       \/ receipt' \in {receipt, job[p].oldReceipt} /\ Proceeds(p, "undo")

\* rollback_published_install: not if someone else has changed the target since ...
Undo(p) ==
    /\ at[p] = "undo"
    /\ UNCHANGED fileVars
    /\ IF target = job[p].new THEN Proceeds(p, "restore") ELSE Fails(p)

\* ... restore_backup, or the removal of what was not there ...
Restore(p) ==
    /\ at[p] = "restore"
    /\ target' = target \/ (job[p].old \in {NoFile, backup} /\ target' = job[p].old)
    /\ Proceeds(p, "undoReceipt") /\ UNCHANGED <<backup, receipt>>

\* ... and the receipt.  The install has failed, whatever it reports of the restoration.
UndoReceipt(p) ==
    /\ at[p] = "undoReceipt"
    /\ UNCHANGED <<target, backup>>
    /\ receipt' \in {receipt, job[p].oldReceipt} /\ Fails(p)
-----------------------------------------------------------------------------
(* rollback, to the build and from the build that the lifecycle state names. *)

LockRollback(p) ==
    /\ at[p] = "lockRollback"
    /\ UNCHANGED fileVars
    /\ \/ Fails(p)
       \/ /\ Free(p) /\ target = job[p].old /\ backup = job[p].new
          /\ job' = [job EXCEPT ![p].oldReceipt = receipt]
          /\ Goto(p, "swap") /\ UNCHANGED <<bundle, life, attempt, countVars, historyVars>>

\* restore_backup; from here on the build rolled back from is given up.
Swap(p) ==
    /\ at[p] = "swap"
    /\ UNCHANGED <<backup, receipt>>
    /\ \/ Proceeds(p, "swapBack") /\ UNCHANGED target
       \/ /\ backup = job[p].new /\ target' = job[p].new /\ good' = job[p].new
          /\ Goto(p, "swapped") \/ Goto(p, "swapBack")
          /\ UNCHANGED <<bundle, life, attempt, job, countVars, owed, touched>>

Swapped(p) ==
    /\ at[p] = "swapped"
    /\ UNCHANGED <<target, backup>>
    /\ \/ receipt' = job[p].new /\ Proceeds(p, "checked")
       \/ receipt' \in {receipt, job[p].oldReceipt} /\ Proceeds(p, "swapBack")

\* The build that is back is run.
Checked(p) ==
    /\ at[p] = "checked"
    /\ UNCHANGED fileVars
    /\ (target = job[p].new /\ Succeeds(p)) \/ Proceeds(p, "swapBack")

\* The staged copy of the build rolled back from returns, over whatever is there.
SwapBack(p) ==
    /\ at[p] = "swapBack"
    /\ target' \in {target, job[p].old} /\ receipt' \in {receipt, job[p].oldReceipt}
    /\ UNCHANGED backup /\ Fails(p)

\* The lock is free again.  A rollback needs a backup and a previous build, and allows no
\* second one; an apply looks at the target once more.
Persist(p) ==
    /\ at[p] = "persist"
    /\ \/ UNCHANGED life
       \/ job[p].kind = "rollback" /\ life' = NoLife
       \/ /\ job[p].kind = "apply" /\ target = job[p].new
          /\ life' = IF NoFile \in {backup, job[p].previous} THEN NoLife
                     ELSE <<job[p].new, job[p].previous>>
    /\ Leave(p)
    /\ UNCHANGED <<bundle, fileVars, attempt, countVars, historyVars>>
-----------------------------------------------------------------------------
(* What else happens.                                                      *)

Die(p) ==
    /\ at[p] # "idle"
    /\ Leave(p) /\ attempt' = Abandoned(p)
    /\ UNCHANGED fileVars /\ Unlock(p)
    /\ UNCHANGED <<bundle, life, countVars, owed>>

\* The application is updated, or an older one put back.
Update ==
    /\ bundle' \in Builds \ {bundle}
    /\ UNCHANGED <<fileVars, life, attempt, at, job, countVars, historyVars>>

\* Someone without the lock writes or removes the target.
Intrude ==
    /\ touches < MaxTouches /\ touches' = touches + 1
    /\ target' \in {Foreign, NoFile} \ {target} /\ touched' = TRUE
    /\ UNCHANGED <<bundle, backup, receipt, life, attempt, at, job, commands, owed, good>>

Journaling(p) ==
    \/ JournalCreate(p) \/ JournalFill(p) \/ JournalClear(p) \/ JournalAside(p)
    \/ JournalPlace(p) \/ JournalFails(p)
Starting(p) == StartInstall(p) \/ StartReconcile(p) \/ StartApply(p) \/ StartRollback(p)
Installing(p) ==
    \/ TakeLock(p) \/ ExactReceipt(p) \/ ExactDone(p) \/ BackUp(p) \/ Recheck(p) \/ ReplaceStaged(p)
    \/ Readback(p) \/ Activate(p) \/ Written(p) \/ Undo(p) \/ Restore(p) \/ UndoReceipt(p)
RollingBack(p) == \/ LockRollback(p) \/ Swap(p) \/ Swapped(p) \/ Checked(p)
                      \/ SwapBack(p) \/ Persist(p)

InstallNext ==
    \/ \E p \in Apps : Journaling(p) \/ Starting(p) \/ Installing(p) \/ RollingBack(p) \/ Die(p)
    \/ ReadLifecycle \/ Update \/ Intrude

InstallSpec == InstallInit /\ [][InstallNext]_installVars
-----------------------------------------------------------------------------
\* Whatever fails or is killed in an install, in a rollback or in the undoing of either, the
\* build the user had last, the one that target and receipt agreed on, is still there as the
\* target or as its backup (rollback_published_install, restore_backup).  A rollback gives up
\* the build it starts from; nothing is said once someone without the lock has interfered.
BuildIsKept == good # NoFile /\ ~touched => good \in {target, backup}

\* An install that began and did not succeed is shown as pending, and blocks the next, until
\* it is reconciled ("restored.pending_error() == reconciliation_required" after a reload),
\* wherever a kill or an error stops the rewriting of the journal.  Two processes that
\* overlap share its files, and are left out.
InterruptedIsPending == owed => Pending
=============================================================================
