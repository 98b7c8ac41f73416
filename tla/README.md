# Simplicio: a TLA+ model of the loop, its tools and its release

This directory holds TLA+ modules that model parts of this repository, TLC
configurations that check them on small instances, and TLAPS proofs of their most
important properties for every instance. Paths below are relative to the
repository root; every definition that stands for code names its lines in
`PROJECT.json` under `map`.

## 1. Inventory

The repository distributes the (closed-source) Simplicio Runtime. What it holds in
source form is the tooling around it, in four groups.

### 1.1 The autonomous loop (`plugin/`)

An agent works on a goal turn after turn. Nothing in this group is a daemon: every
part is a short-lived process (a hook the host runs, or a command the agent runs)
whose memory is a few files under `.simplicio/orchestrator/`. All hard behaviour
comes from that: who writes which file, in which order, with which lock, and what a
process that died half-way leaves for the next one.

| Part | State it keeps | Operations | Talks to |
|---|---|---|---|
| loop driver `hooks/loop_stop.py` | `scratchpad.md` (goal, iteration, cap, promise), `done.flag`, `watcher_challenge.json`, `HANDOFF.md` | `main` at the end of every turn: stop, hand off, wait, or bump the iteration and feed the goal back | reads the gate lock, the handoff latch, the watcher receipt, the journal, the completion receipt; calls journal, planner, oracle |
| work queue `scripts/task_backlog.py` | `backlog.json` (master, items, leases, attempts) under a sidecar lock; one `state.json` per item | `init next heartbeat status poll checklist done skip block fail transition` | many agents; the task anchor of an item |
| handoff latch `scripts/handoff.py` | `spindle_state.json` (or the legacy `spindle.json`), `HANDOFF.md`, `handoffs/events.jsonl` | `handoff confirm receive status clear` | the loop driver reads the latch; no lock |
| attempt journal `scripts/loop_journal.py` | `journal.jsonl` | `record resume stall` and reports | stop hook (fallback record), planner, the event file of another tool |
| progress narration `scripts/loop_progress.py` | `progress.jsonl`, `progress.json`, `PROGRESS.md` | `emit refresh` | reads anchor and backlog; called by nearly every other part |
| phase planner `scripts/hierarchical_planner.py` | `phase.json` | `plan clear` | journal, stop hook |
| task anchor `scripts/task_anchor.py` | `anchor.json` (frozen goal, criteria, evidence) | `set mark gate` and the drift check | queue (`done` asks it), watcher |
| watcher `scripts/watcher_verify.py` | `watcher_challenge.json`, `watcher_state.json` | `issue verify` | challenge of the stop hook, receipts of a run |
| delivery contract `scripts/delivery_contract.py` | frozen contract, baseline of files | `capture_baseline check_new_files` and linters | stop hook blocks on a violation |
| coordinator `scripts/coordinator.py` | none | `decide` over the claims and pull requests of an issue | code hosting service |
| worktree cleanup `scripts/worktree_cleanup.py` | git | check, then delete a branch and its worktree | git, code hosting service |
| locked append `scripts/_locked_append.py` | any log | append one line under a lock with a timeout | journal, handoff log |
| action gate `hooks/action_gate.py` and other hooks | none | allow or block a command or a diff | host |
| audits and evidence tools | none | one-shot scans | agent |

What makes them correct, and what is hard about it:

* *queue*: one holder per claim; a worker whose lease ran out cannot close the item
  of its successor (fencing); no two items that edit the same file are worked on at
  once; dependencies first; an item that keeps failing is parked; the drained verdict
  is neither early nor missing. Hard: leases lapse at any moment, credentials arrive
  late or are omitted, every look at the file recomputes it, commands die between the
  item's own file and the backlog.
* *driver*: no loop ends without a trace; a cap is a cap; a stale lock, latch, receipt
  or journal row does not decide about the wrong turn. Hard: some ten files written one
  by one by a process that may be killed in between, next to agents, watchers and
  background gates that write the same directory, and almost every error swallowed.
* *latch*: a handoff reaches its target once. Hard: read-modify-write without a lock.
* *progress*: no event and no snapshot claims more than was achieved. Hard: two files of
  two different moments, read without a lock.
* *journal, planner*: a streak of equal failures is noticed, and only that. Hard: the
  file outlives loops.
* *anchor, watcher*: a criterion counts as met only with evidence for this goal and
  this turn. Hard: deterministic challenges, re-anchoring, stale receipts.
* *coordinator*: a session takes an issue over only from a claim it could not see or that
  is stale. Hard: a survey is two calls, the decision is taken from a snapshot.
* *cleanup*: nothing unmerged or dirty is deleted. Hard: check, then act.

### 1.2 The desktop application (`apps/desktop`)

A Tauri shell (Rust, `src-tauri/src`) around the Runtime, with a React front end.

| Part | State | Hard behaviour |
|---|---|---|
| Runtime installation `runtime_install.rs`, `install_journal.rs`, `runtime_lifecycle.rs` | target binary, backup, receipt that names the target, install journal, lifecycle state | crash between phases, failing renames that had effect, rollback and undoing, two processes of the application, a file nobody's receipt names |
| Runtime processes `runtime_process.rs`, `supervisor.rs` | owned children, deadlines, restart budget | shutdown against a late spawn, timeout against exit |
| updater `desktop_updater.rs`, `desktop_updates.ts` | staged update, manifest | download, verify, stage, hand over; crash between |
| authentication `auth_login.rs`, `auth_access.rs`, `auth.ts` | chosen Runtime candidate, pending login | probe and login must use one candidate; repeated and cancelled logins |
| idle session `session_idle.ts`, usage store `usage_store.ts`, changefeed `usage_changefeed.rs` | deadline, cursor, cached answers | activity in another window, late answers overtaking newer ones |
| project discovery `project_discovery_process.rs`, token aggregation `consolidated_tokens.rs` | bounded workers and budgets | deadlines and limits |
| queries, exports, screens, platform glue | none of their own | validation and rendering |

### 1.3 Host integrations

| Part | State | Hard behaviour |
|---|---|---|
| Hermes plugin `plugins/simplicio-hermes/hermes_plugin.py` | tables of prepared requests, recorded results and receipts; one child process; the map cache | threads that share one pipe; results reported late, twice or without identifiers; bounded tables that forget |
| Mapper context hook `plugins/simplicio/hooks/mapper_context.py` | `.simplicio/hook-context`: `map.md`, `warm-receipt.json`, `warm.lock`, one delivery marker per session | a lock shorter than the work done under it, two files replaced one after the other, a second program that takes no lock |
| other plugins, `codex/`, MCP bootstrap | none | glue that starts the installed binary |

### 1.4 Distribution

`scripts/publish_release_local.py` publishes a signed bundle: it pushes a release branch,
merges it into the public master, tags, makes the GitHub release and uploads the wheel,
each step a command that may fail, with `--resume` as the way back. What it shares with
another publisher is the remote alone; the hard part is which half-done state a second
publisher, or the same one again, may continue from.

`install.sh`, `install.ps1`, `npm/`, `pypi/` and the other scripts are installers
(download, verify, place) and release checks, sequential programs without retained state.

## 2. Plan

The order in which the parts were taken, the most important behaviour first; all of this
is done.

1. `TaskBacklog`, and the abstract `LeasedQueue` it implements.
2. `LoopStop`.
3. `LockedAppend`, and `Handoff` on top of it, which implements it.
4. `Attempts` (journal, detector, planner), `Anchor` (criteria, contract), `Watcher`
   composed with `Anchor`: what the driver takes for free choices.
5. `Progress` composed with `TaskBacklog`: what is shown of it all.
6. `Delivery` (coordinator and cleanup): sessions that share an issue.
7. `McpBridge` and, on top of it, `Hermes`; `MapperCache`, which the hook and Hermes share.
8. `Release`.
9. `RuntimeInstall`, of the desktop application.
10. Proofs of all the safety properties of these modules (section 5).

A component gets one run, which asks its safety and its liveness question of the same
state graph where that graph is small enough (`Anchor` and `Attempts`, which share no
variable, are explored in one run), and a violated run only for a disagreement between code
and documentation that matters to a user. Each module is independent of the
others except as drawn here:

    LeasedQueue  <=  TaskBacklog  <-  Progress          (<= implements, <- extends)
    LockedAppend <=  Handoff
    Anchor       <-  Watcher
    McpBridge    <-  Hermes
    LoopStop     Attempts     Delivery     Release     MapperCache     RuntimeInstall

What would come next: the desktop's processes and its updater; and `Watcher` composed with
`LoopStop`, whose `receipt` and `challenge` stand for the same two files.

## 3. Modules

History variables record what happened for a property to speak of; no guard reads them.

### 3.1 `TaskBacklog`: the leased work queue

| Code | Model |
|---|---|
| an item row: status, `reason_code`, `lease`, `failure_fingerprints` | `item[i]` |
| the attempt records of all items | `attempts`, in the order of claims; the n-th claim's token (a random id in the code) is the number n, so "a token nobody else has" is kept and "a token somebody else guesses" is not |
| `master.empty_polls` | `emptyPolls`, counted up to the threshold |
| the item's `run/state.json` | `ws[i]` |
| size, time and hash of a source file against its snapshot | membership in `changed` |
| deadline of a lease against the clock | the flag `live`, cleared by `Expire` at any moment |
| `_refresh_ready_states` | `RefreshedRow`, applied to all rows by every command that calls it |
| a command: lock, load, change, save, unlock | one action (`CmdNext`, `CmdDone`, ...) |
| a command that dies before its save | `CrashInInit`, `CrashInDone`, `UnsavedRefresh(n)` |

A command is atomic because `_state_lock` spans its whole read-modify-write and `_save`
replaces the file. What it writes elsewhere before the save is not covered by the lock's
atomicity, hence the crash actions. Credentials are enumerated: every command is tried
with every holder, no holder, every token issued so far and none.

`accepted` (tokens that a closing command accepted) and `lapsed` (tokens whose deadline
passed) are history variables. `MCTaskBacklog` gives the small graphs.

### 3.2 `LoopStop`: the loop driver

| Code | Model |
|---|---|
| `scratchpad.md` | `pad`: absent, unparseable, with a bad number, or a loop with its iteration, cap, promise and the way the iteration line is written |
| `done.flag`, `STOP`, `gate.lock` and its age, the latch | `doneFlag`, `stop`, `gate`, `latch` |
| nonce in `watcher_challenge.json` | `challenge`; a counter, since nonces are random |
| `watcher_state.json` with status MEASURED and match | `receipt`: the nonce it echoes, and (history) the turn the watcher looked at |
| a watcher that is still running | `watching` |
| last row of `journal.jsonl` | `journal`: its iteration, and (history) its loop |
| the hook's position between two reads or writes | `pc` |
| `meta` parsed once at the start | `meta` |

`main` is cut where it writes or where somebody else's write could matter: read the
scratchpad, the checks, the fallback record with the watcher check, the verdict, the
bump, the challenge, the re-feed; or the handoff note and the three groups of files of
`cleanup_and_stop`. Between any two steps the hook may be killed (`Kill`, which also
stands for the exceptions that reach the outer `except`), the user may delete the loop
directory, a gate may end, another agent may latch or confirm. The verdict's inputs from
other programs are free choices. `DiskFails` lets each write and removal fail the way the
code passes over it. `fate`, `feeds`, `loops` are history.

### 3.3 `LeasedQueue`: what the queue promises

Items are free, held under a token, or free again; a token is issued once, may expire, and
is spent when it closes its item. `TaskBacklog` implements it under the mapping `held` ↦
the fence of an item's lease, `issued` ↦ the number of attempts, `expired` ↦ `lapsed`,
`spent` ↦ `accepted`. Every command is either a `Claim` or a `CloseHeld` of one item, a
`RunOut`, or a `Drop` of some items: a refresh, a freeze or an uncredentialed command may
take leases away and never makes one.

### 3.4 `LockedAppend` and `Handoff`

| Code | Model |
|---|---|
| a shared log, written in one or more `write` calls | `log`, a head and a tail per record |
| `flock` on the sidecar file and the deadline of the wait for it | `holder`; `GiveUp` whenever somebody else holds it |
| an exception under the lock, a failed flush | `at` goes back to idle with the head written |
| `spindle_state.json`, its `.tmp` | `file`, `tmp`: numbers of inodes, since a process may hold open what another renames |
| `spindle.json` of an older version | `legacy`, read and never written |
| `HANDOFF.md` | `note` |
| a command between two file operations | `step`, `command`, `mem`, `fd` |

`handoff`, `confirm` (which `receive` calls) and `clear` are each cut into read, open of
the temporary name, write, rename, note and event. `shipped`, `received`, `cleared` and
`overlap` are history.

### 3.5 `Attempts`: journal, stall detector, planner

| Code | Model |
|---|---|
| a row of `journal.jsonl` | gate, fingerprint and stamp; the iteration number of the last row is `number` |
| the stamp, taken before the wait for the journal's lock | any second: of two appenders the later one may get the lock first, so a file need not be in the order of its stamps |
| `.simplicio/events.jsonl` of another tool | `events` |
| rows and events sorted by their stamps, stably; rows left as they are while there is no event | `Merged`: `Precedes` says which comes first, `Place` how many do |
| `stall`, `resume` over both files | `StallShown` |
| the hook's tail of `Window` rows, the planner's rows | `HookStall`, `PlannerRows` |
| `phase.json` | `phase` |
| the end of a turn: fallback row, then the planner | `HookRecords`, `HookPlans` |

Failure texts are what is left of them after the fingerprint: the signal lines, or nothing.

### 3.6 `Anchor`: task anchor and delivery contract

| Code | Model |
|---|---|
| `anchor.json` | `anchor`, or torn while it is truncated and not yet written |
| a command: load, compute, truncate, write | `CmdSet`, `CmdMark`, `CmdSetDelivery`, then `SaveOpen`, `SaveWrite`; no lock, so two processes overlap |
| criteria and their merge on a re-set | a sequence of texts with status, evidence, reason; `Parsed`, `Merge` |
| `gate` and the drift check | `Ready`, `DriftVerdict` |
| `delivery_baseline.json`, `git status` | `baseline`, in the two forms of its two writers; `files` |
| the two new-file guards of a turn, each with its look at the files | `NewFileGuard`, then `DeliveryStopGuard`; files may change in between |
| git that does not answer, an exception in a guard | the first guard passes `unseen`; the second does nothing, or sees no file |

`NewFileGuard` is `delivery_new_file_violation`, which asks `check_new_files` of the contract;
`DeliveryStopGuard` is `_delivery_stop_guard` of the hook. History: `proven`, `excused`, `held`
(the goal on file), `forced` (commands with `--force`), `blind` (commands that loaded a
truncated file, or that another save overtook between their load and their save),
`authorized` and `readmitted` (new files that a `set` captured, with another contract than
before or with the same one).

### 3.7 `Watcher`: receipts, composed with `Anchor`

| Code | Model |
|---|---|
| `watcher_challenge.json` | `challenge`: a nonce of the hook, or a hash of goal and statuses, taken for what it hashes |
| reports in a run directory | `independent`, `evidence` |
| `watcher_state.json` | `state` |
| a running `verify` | `verifying`: `VerifyStart` reads the challenge, `VerifyRead` the rest, `VerifyWrite` writes; `VerifyDies` |
| the comparison of the report's commit, of its diff and of the files it cites with the tree | `Comparisons`: each the same, another, or not made, because the report does not name it, `rev-parse` fails or no cited path is a Python file |
| the stop hook that clears the loop's files | `HookRemoves` |

What the hook makes of the receipt is `Accepts`. The independent watcher is external.

### 3.8 `Progress`, composed with `TaskBacklog`

An emitter reads anchor, then backlog, appends its event, reads both once more and
replaces the snapshot; `emitter[e]` is where it is and what it has read. A percentage is
counted in units, `MaxAcs` to an item (`Overall`). The backlog goes on under `DrainNext`
meanwhile. The anchor is reduced to the item it names, the item whose criteria it holds
and how many are met.

### 3.9 `Delivery`: coordinator and worktree cleanup

| Code | Model |
|---|---|
| claim comments, pull requests | `claims` in order, `pr` |
| `survey`: two calls of `gh` | `SurveyPrs`, `SurveyIssue`, kept in `view` |
| `decide` | `Decide`, a function of that snapshot |
| worktree, local and remote branch of a session | `tree`, `local`, `remote`; a worktree whose removal was cut off is `torn` |
| safety receipt, and whether the command names it (`--safety-json`) | `receipt` against `active`; `named` of `Start` |
| cleanup: inspect, then three deletions | `Start`, `Inspect`, `RemoveTree`, `DeleteLocal`, `DeleteRemote`; `Stop` between any two and inside the first |

What a session does between the two scripts is told by `SKILL.md` and is external.

### 3.10 `McpBridge` and `Hermes`

| Code | Model |
|---|---|
| the bridge's lock, child process, request counter | `lock`, `alive`, `nextId` |
| requests whose answers are still in the pipe | `owed` |
| a call of a thread | `call`: waiting for the lock, writing (which may block for good), waiting for its answer until the time-out |
| `_PREPARED`, `_RECORDED_REQUESTS`, `_RECORDED_PROVIDER_IDS`, `_CORRELATION_RECEIPTS`, `_WARMING` | `prepared`, `recorded`, `pids`, `receipts`, `warming`: sequences in order of insertion, which is that of eviction |
| a hook that has let go of `_STATE_LOCK` to call the bridge | `doing`, finished by `Remember`, `Block`, `FinishRecord`, `WarmedUp` |
| the fallback to the Python Mapper: lock without a deadline, run, kill, wait for its output | `fallback`: `FallBack`, `LockMap`, `KillMapper`; what a killed mapper holds open may stay open |
| which preparation a result belongs to | `Candidates`, over what the host tells (`Knowledge`) |

### 3.11 `MapperCache`: the map of the Claude hook and of Hermes

| Code | Model |
|---|---|
| the tree: what git status shows, what it does not, the time of the root | `tree.shown`, `tree.hidden`, `tree.root` |
| `_generation`, `_project_generation` | `Generation(how, t)`: the hook sees the first part, or the root's time where git fails, is slow or is not there (`how = "root"`); Hermes sees every byte |
| `map.md`, `warm-receipt.json`, `.simplicio/docs` | `mapFile`, `receipt`, `docs`, each replaced on its own |
| `warm.lock` and its age | `lock`, taken over (`Steal`) once it is old |
| delivery marker of a session | `marker` |
| a Python Mapper whose caller was killed | `stray` |

### 3.12 `Release`: `publish_release_local.py`

| Code | Model |
|---|---|
| public master, `release/<tag>`, tags, GitHub releases, PyPI | `master`, `branch`, `tag`, `release`, `pypi` |
| a publisher's clone | `clone`: its head, its branch, dirtiness, its own tags |
| the stages of `publish` and `--resume` | `proc[p].at`; each stage is a guard (`PublicPreflight`, `SameFiles`, `TerminalSmoke`, ...) and one remote effect |
| a command that fails, a process that dies, an operator | `Fail`, `Kill`, `Pull`, `RepairClone`, `DropBranch` |

A commit of master is the release its tree carries: the version and the Runtime commit.

### 3.13 `RuntimeInstall`: the Runtime under the desktop application

| Code | Model |
|---|---|
| the packaged Runtime of an application, and its update | `bundle`, `Update`; builds are numbers in the order of their versions |
| `~/.simplicio/bin/simplicio`, `simplicio.previous` | `target`, `backup` |
| `desktop-runtime-receipt.json` | `receipt`: the build whose digest it names |
| `desktop-runtime-lifecycle.json` | `life`: the active and the previous build, or none to roll back to |
| `install-attempt.json`, its `.bak`, its `.tmp` | `attempt["path"]`, `["bak"]`, `["tmp"]`: a record, torn, or being written by a process |
| the lock on the bin directory, freed when its holder dies | the processes whose `at` is in `LockedSteps` |
| the mutex of one application process | a process is at one command at a time |
| `desktop_install_runtime`, `desktop_reconcile_runtime_install`, `apply`, `rollback` | `StartInstall`, `StartReconcile`, `StartApply`, `StartRollback`, and the steps that follow |
| `write_atomic` | `JournalCreate`, `JournalFill`, `JournalClear`, `JournalAside`, `JournalPlace`; `JournalFails` |
| `install_with_controls` | `TakeLock`, `BackUp`, `Recheck`, `ReplaceStaged`, `Readback`, `Activate`, `Written`; `Undo`, `Restore`, `UndoReceipt` |
| `rollback` | `LockRollback`, `Swap`, `Swapped`, `Checked`, `SwapBack`, `Persist` |
| a process that is killed, a program without the lock | `Die`, `Intrude` |

A digest is what it is a digest of. Every step may fail, and a failing rename, write or
removal may have had its effect; what the code looks at again afterwards decides how it goes
on. `owed`, `good`, `touched` and `overlaps` are history.

## 4. Runs

Each run is complete in under five minutes with two TLC workers.

| Run | Question | Distinct states |
|---|---|---|
| `backlog_leases` | Fencing: can stale, foreign or missing credentials close or rewrite another's claim, is a failing item parked, do the items' own files stay level through crashes, and is it all a leased queue? | 1.27 M |
| `backlog_drain` | Do fair workers that lose a lease to the clock get everything done, conflicting items apart and dependencies first; is "drained" then, and only then, the answer; and is what is shown meanwhile never more than was achieved? | 1.34 M |
| `loopstop_driver` | Two capped loops, a kill between any two writes, a gate or a latch, cancel and STOP at any time, watchers that answer turns late, a fair host: no loop lost, cap kept, no late receipt taken for a current one, and it ends. | 1.55 M |
| `turn` | The anchor and the journal of a turn. Is credit given only for what was marked with evidence under this goal; is the goal frozen for every command that saves over what it loaded; does a new file slip between two guards over one baseline? Do hook and planner, each with a streak of its own, agree when it matters; what ends a stall? | 3.87 M |
| `handoff` | Does the event log keep whole lines, does an unconfirmed handoff stay latched, does every append return? | 1.12 M |
| `watcher` | Is an accepted receipt about criteria that were all done, and fresh for the nonce it answers? | 2.29 M |
| `hermes` | Does a call get its own answer, is a provider call counted once and credited to its own request, does every hook return that does not hang in a wait without a deadline? | 776 k |
| `mapper_cache` | Is a map that is handed out one of the tree that was looked at, and a withheld one given before? | 8.20 M |
| `delivery` | Is a later claim justified, are changes lost only to a session that came back, does a cleanup that finds receipt and merge delete the branch? | 438 k |
| `runtime_install` | Through failures, deaths and updates of the application: is the build in use last still there, and does an interrupted install stay pending until it is reconciled? | 3.47 M |
| `release` | Do tag, release and master agree, is a tagged version closed, does a final release get its wheel? | 620 k |
| `release_resume` | (violated) "`--resume` requires the matching existing tag, final release and exact Runtime asset set". | |

The violated run: two builds of one version are merged, one after the other, from two
clones; the first died before its tag. Resumed, it compares its bundle with its own clone
and its tag with nothing but the name, and uploads its own wheel for the other build's
release. The lines are under `findings` in `PROJECT.json`.

Every module states its type invariant. Those of `TaskBacklog`, `LoopStop`, `Attempts`,
`Delivery`, `Release`, `RuntimeInstall` and `MapperCache` are theorems; the others hold in
the state graphs of the runs and are not repeated in their configurations.

### Bounds

* `TaskBacklogLeases.cfg`: two items, one after the other, sharing a source file, two named
  workers and anonymous claims; `MaxFences = 2`, so that a lapsed token meets a successor;
  one re-freeze; two failures with equal or different fingerprints, one below and one at
  the threshold; `transition` to another active state and back to ready. Workers and
  fingerprints are symmetric. `AllowReopen = FALSE` (see section 5).
* `Progress.cfg`: three items, two of which share a plan file and one of which waits on
  another, in an order that is not the file's; one lease lost (`MaxFences` is the number of
  items plus one); `EmptyPolls = 2`, so that an answer between the two empty polls exists;
  one emitter that reports once while everything else goes on; `set` always names its item
  (`Labelled`, see section 6).
* `LoopStopDriver.cfg`: cap 2, so that a loop is fed back and handed off; two loops, for
  what one leaves and the next finds; one kill and one gate or latch. `MaxIteration` and
  `MaxNonces` lie above what these need, so the guards never stop the hook (`LoopEnds`
  would show it).
* `Handoff.cfg`: two processes, three commands, two handoffs, one kill or failed write at
  any step: enough for a handoff over a handoff and a confirm beside either.
* `Turn.cfg`: two processes, three commands, criteria `a`, `b` and a vague one in lists
  that move, repeat and drop them, two goals, an open and a closed contract, one file. For
  the journal `K = 2` where the code has 3, a tail of two rows, a re-plan after two; three
  rows and two events hold a streak below, at and above `K`, one broken in the middle and
  one spread over both files; two seconds, so that a row may be stamped before one that
  stands above it. Anchor and journal have no variable in common: each is explored while
  the other is as it starts (`MCTurn`).
* `Watcher.cfg`: one process, two criteria, and one of each of: nonce of the hook, derived
  challenge, verification, second; two reports, so that one may come while the other is
  being verified. What the tree looks like to a verification is chosen freely.
* `Hermes.cfg`: two threads, two requests of one session, tables of two preparations, one
  provider id and two receipts, so that each of them evicts; four hooks; one upset: a
  session end, a death or an unreadable line of the child, a write that hangs or a mapper
  whose output stays open.
* `MapperCache.cfg`: two hooks and one Hermes process, two at work at once, three calls,
  two events (edit, upgrade, kill, lock that ages, a look that git does not answer). Hooks
  are symmetric.
* `RuntimeInstall.cfg`: two processes of the application, which are symmetric, three
  commands, two builds, one change of the target by a program without the lock. Three
  commands are an install, one that overlaps or follows it, and a reconciliation or
  rollback of the two. Failures and deaths have no bound of their own.
* `Delivery.cfg`: two sessions, a claim that becomes stale within the clock, two surveys,
  one session that returns or cleanup that is stopped, between its steps or inside the
  first of them.
* `Release.cfg`, `ReleaseResumed.cfg`: two publishers, two builds of one version and one of
  the next, two merges on top of the old master, one death.

Deadlock checking is off in the other runs, and on in `runtime_install`, where an update is
always possible: a queue whose items are closed, a session nobody continues, a
release that is out may stop, and so do the bounds.

### Fairness

* `DrainSpec`, and `ProgressSpec` on it: workers keep claiming, someone keeps polling, and
  a worker that holds an item finishes it unless its lease lapses first. Leases lapse only
  as often as the bound on tokens allows a new claim. Skip, block, fail and transitions,
  which need not happen, are left out of that run.
* `LoopStop`: the host runs a hook it started to its end unless it is killed, turns end, an
  ended session is started again, and a lock gets older than its limit. Nothing is asked
  of the user, of gates, of the other agent or of watchers.
* `Handoff`: a process that waits for the lock keeps trying, and gives up at its deadline.
  Nothing is asked of whoever holds it.
* `Hermes`: a thread takes those steps alone that have a deadline or that wait for nothing
  but a lock (`Alone`). Nothing is asked of the child process, not even that it reads or
  answers. Two waits of the code have no deadline, and no fairness is put on them: writing
  to the child, and reading the output of a mapper that was killed while something it
  started holds the output open. `EveryHookReturns` says that there is no third. For the
  lock weak fairness is enough, since finitely many hooks take it.
* `Delivery`: a cleanup that runs goes on. Nobody has to start one, or to name the receipt.
* `RuntimeInstall`: none; both its properties are safety.
* `Release`: a process goes on until it fails, and the operator resumes what can be resumed
  (strong, since a clone at another stage disables it).

## 5. Proofs

Every theorem is for all values of the constants that satisfy the named assumptions of its
module: any number of items, processes, sessions, requests, publishers, kills, and any
threshold. All safety properties that the runs check, state invariants and action properties
alike, are stated by a theorem. A proof module EXTENDS what it is about:

| Proof module | About |
|---|---|
| `TaskBacklogProofs` | `TaskBacklog`, `LeasedQueue`, `Progress` |
| `LoopStopProofs` | `LoopStop` |
| `AppendProofs` | `LockedAppend`, `Handoff`, `Attempts` (the two journals; in `Attempts` the names of the specification begin with `Journal`, so that both can be extended) |
| `WatcherProofs` | `Anchor`, `Watcher` |
| `HermesProofs` | `McpBridge`, `Hermes` |
| `ReleaseProofs` | `Release`, `RuntimeInstall` (whose names begin with `Install` where the two would clash) |
| `DeliveryProofs`, `MapperCacheProofs` | the module of that name |

### `TaskBacklogProofs`

* `TypeCorrect`, `LeasesOwnAttempts`. The inductive invariant is
  `IInv == TypeOK /\ LeaseOwnsAttempt`. Neither half is inductive alone: the type of the
  history sets needs leases that point at existing attempts, and the ownership needs the
  types. Each action is one step; actions that only refresh rows go through one lemma about
  `RefreshedRow` (a lease is kept or dropped, never made), closing actions through one about
  `Close`.
* `AttemptsImmutable`, an action property: a lemma says what a step may do to the attempt
  history, and ownership says that the record `_finish_attempt` touches is still open.
* `FencingIsSound`: an accepted token closed its own attempt. It adds one conjunct to
  `IInv`; the point of the proof is that the compared token is the one of the record that
  gets closed.
* `Refines`: `Spec => ImplementsLeasedQueue`. The invariant is
  `LInv == IInv /\ LiveNotLapsed` (a lease that is live has not been noted as lapsed), which
  is what lets an accepted close be a `CloseHeld`. Two lemmas say when a step maps to `Drop`
  and to `Claim`; each action cites one of them. `HeldUnderOwnToken` carries the abstract
  queue's promise `HeldApart` over.
* `WorkFollowsDependencies`, `WorkIsDisjoint`, `LateClaimsCloseNothing`,
  `PoisonStaysParked`, for `AllowReopen = FALSE`: that callers do not name finished items in
  `skip`, `block` or `fail` without credentials. The assumption is needed: those commands
  then reopen a finished item under what depends on it (section 6). The invariant `DInv`
  adds to `LInv` that what an active or done item depends on is done, that what is active
  is apart, and that an idle item has no lease.
* `WorkspaceLeads`: `WorkspaceNotBehind`, without that assumption, over all crashes.
* `DrainedBacklogIsDone`, `DrainedIsDoneWhileReported`, `DrainingIsOrderly`, of the drained
  backlog alone and with reports beside it. `DrainInv` adds to `DInv` which statuses occur
  while nothing is skipped or failed, and that an empty poll was counted only when all was
  done. The step that matters is the poll: `deps` point to smaller numbers, so the item with the
  least number that is not done waits for nothing; a refresh makes it ready or leaves it
  with its owner, and in both cases `cmd_poll` sees a busy backlog.
* `ReportsAreNeverOverstated`, for `Labelled = TRUE` (section 6). `ReportInv` says of the
  anchor, and of every copy an emitter holds, that it counts no more criteria than were ever
  met of the item it names. What was achieved, a sum over the items, is a recursive function
  that is unrolled: lemmas show that it exists, grows with each of its terms, and covers a
  term that stands alone.

### `LoopStopProofs`

* `TypeCorrect`, from `Base`: while the hook is between reading and writing, what it
  remembers of the scratchpad is what is on disk or nothing is; and a re-feed uses up the
  challenge issued for it (which bounds the counters).
* `NothingLost`: `NoLoopLost`, if writes do not fail. It needs `CleanIsSettled`: at the
  moment the scratchpad is about to be removed, its loop has already got its fate.
* `CapIsKept`: `CapHolds`, if the iteration line is written plainly, with or without failing
  writes. It needs `FeedsBehind`: the number of re-feeds stays below the iteration, by two
  between the bump and the re-feed. A quoted iteration line is parsed and never bumped, so
  the assumption is needed.
* `ReceiptsAreCurrent`: `ReceiptIsCurrent`, if writes do not fail (a challenge that could
  not be written leaves the old receipt valid, section 6). `Current`: until a hook is
  killed, the challenge on disk is the newest or there is none, and a receipt that echoes
  it, written or still being worked at, speaks of the scratchpad on disk, but for the moment
  between the bump and the next challenge.

### `AppendProofs`

* `RecordsNeverInterleave`: in `LockedAppend` by itself, `TailFollowsHead`. The invariant
  `AppendInv` adds `LockInv`: whoever is past the lock holds it, and a writer with half a
  record has written the last fragment.
* `HandoffImplementsAppend`: each step of the handoff commands is a step of the append or a
  stutter; `EventsNeverInterleave` carries the first theorem over.
* `LatchIsKept`: `LatchHolds`. `Calm` describes the commands as long as no two of them
  overlap: one process at most is changing the state file, the inode it writes is the one
  under the temporary name and not the one in place, and what it is about to rename is the
  newest handoff or the confirmation of what is in place.
* `JournalTypeCorrect`, `StallsAreHeeded`, `EscalationIsKept`. The streak is chosen (the
  number of rows such that these fail alike and the one before does not), so it has to be
  shown to exist: a longest tail of equal failures does, because the numbers have least
  elements. A tail of the journal then has the streak of the whole journal or its own
  length, which is why hook and planner agree for every `Window` that is no shorter than
  `K`. `StallsAreHeeded` is for one `K` of hook and planner, and for a tail that ends in a
  failure and not in a blocked row (section 6). `EscalationIsKept` is proved only; no run
  repeats it.
* `PassesEndStalls`, an argument about places: the place that `Merged` gives to the last row
  of either file is the end when no row of its file has a later stamp and all of the other
  file are earlier, and no other row has that place. The first condition is needed, because
  stamps need not be in the order of the file.

### `WatcherProofs`

* `CreditIsAlwaysEarned`, `GoalsAreHeld`, `NewFilesAreSeen` of the anchor. What is saved was
  computed from what was loaded, without a lock; so credit is earned if it is earned in every
  copy (`Standing`): the one on file and those that processes hold. `AnchorInv` says it of all
  of them. `HeldInv` says of every command that was neither forced nor overtaken that it holds
  the goal on file, which is why its save keeps it; `BaselineInv` says that what the first
  guard lets through was captured by a `set`. Merging a re-set criteria list is where it could
  go wrong: the lists that `Parsed` and `Merge` build by folds are unrolled, and the lemmas
  say from which line or which old criterion each of the new ones comes.
* `AcceptedReceiptsSawAllDone`, `AcceptedReceiptsAreFresh`. `WatchInv` says of the receipt
  that a `verify` still holds and of the one on disk alike that it saw what it promises
  (`Earned`) and is no older than the nonce it names (`Young`).

### `HermesProofs`

* `AnswersAreOwn`, of the bridge called with anything at any time. `BridgeInv`: who waits
  for an answer holds the lock, every answer still in the pipe has a number that was given
  out, and one with the number of a call is about what that call asked.
* `HooksUseTheBridge`: the hooks call it in no other way (`Spec => BridgeSpec`), so
  `HookAnswersAreOwn` follows. It needs `HookInv`: a thread calls the bridge exactly while
  it is in a hook, and the number of provider calls is within that of hooks.
* `OnlyTheForgottenMiscredits`, an action property, from what `Candidates` can contain.
* `EveryReportIsAccounted`: `CountedOnceInWindow`, its two halves by two invariants.
  `Window`: a provider id that was counted is at a place in the table of ids that tells how
  many were counted after it, or so many were that it may be forgotten. `Answered`: the
  number of receipts is that of the ended reports, up to the bound. Threads and requests
  are assumed finite, as they are in a process.

### `DeliveryProofs`

* `TypeCorrect`, `ClaimsAreJustified`, `NoChangesLost`. The invariant has two halves that do
  not need each other. `BoardInv`: claims are in the order of time, and a decision to take
  an issue was justified against every claim it knew, for which the newest of them decides.
  `WorkInv`: a receipt means that the session exited, unless it came back, and what a
  cleanup has found out stays true except for that.

### `ReleaseProofs`

* `BranchLocksVersion`: from the push of its branch to the push of its tag a publisher is
  alone with its version. `TagsAgree` and `TaggedStaysClosed` rest on it, together with
  `LateIsLockedOut` (who found the version free before it was tagged finds the branch taken
  at its push) and `TagIsHead` (a clone that made its tag stays at the commit that carries
    its release). `TypeCorrect` is the rest of `ReleaseInv`.
* `InstallTypes`, `BuildsAreKept`, `InterruptionsArePending` of the installation, for any
  number of processes and commands. `KeptInv`: one process at most is past the lock
  (`Exclusive`), it knows what it found there (`FoundAsLeft`), and at each of its steps the
  build in use last is where that step leaves it (`GoodWhileLocked`). `JournalInv`: a
  journaled command that is alone finds its own record under the name it expects
  (`JournalIsOwn`), and as long as an install is owed some record that is not settled is
  the first of the three files to exist (`OwedIsThere`). The two halves share only the
  types.

### `MapperCacheProofs`

* `TypeCorrect`, `HandedOutFits`, `WithheldIsKnown`, from `CacheInv`. Hook and Hermes read
  each other's receipts; what keeps them apart is the form of the generation, of which the
  hook's has only what git status shows, so that neither takes a receipt of the other for
  its own. A call in hand of a text knows that it fits what it looked at, if git answered
  that look (the generation of one that did not names no content), unless the tree
  changed or two Mappers overlapped (`JobOk`), and `Alone` says what not overlapping means.
  `MarkersOk`: a marker is that of a map that was given, is being given, or was cut off by a
  kill. `warm.lock` plays no part: both theorems hold however it is taken over.

### How sums, folds and streaks are treated

The prover cannot instantiate an induction theorem that takes a predicate as a parameter. The
proofs use none: a recursive function over `0..n` is shown to exist by taking the least number
at which it would fail, and a fold over a finite set is unrolled by one element in the same
way. So nothing is left out for that reason.

### Only model-checked

* The liveness properties: `EverythingGetsDone`, `LoopEnds`, `EveryAppendReturns`,
  `EveryHookReturns`, `CleanupFinishes`, `FinalIsFinished`. Fairness and ENABLED are beyond
  the prover.
* That the bounds of the remaining modules' type invariants (`Handoff`, `Anchor`,
  `Watcher`, `Hermes`, `Progress`) are kept: the proofs type what they use.

## 6. What was met while modelling

Behaviour of the code that surprised the modellers. The models keep it; where a property
had to be stated around it, the property's comment says so.

*Queue.* `skip`, `block` and `fail` without credentials reopen a finished item, although
the comment at `plugin/scripts/task_backlog.py:1032` calls closing irreversible. A
re-`init` with the same goal drops progress that `extension-points.md:97` calls preserved.
A manual block on an item with pending dependencies is overwritten and later lifted. On
POSIX the wait for the backlog's lock has no limit.

*Driver.* A quoted iteration line is never bumped, so the cap never fires. A challenge that
could not be written leaves the old receipt valid. A journal row of an earlier loop with the
same number hides that this turn has none. The scratchpad is read before up to a minute of
calls to the Runtime. The hook table of `plugin/skills/simplicio-loop/SKILL.md` reads as if
a raised done flag or an unverified watcher decided by themselves, while `main` leaves both
to the completion oracle (`watcher_pass` is computed and not used).

*Progress.* `set` without `--item` keeps the previous label, and a closed item may then be
counted twice (with `Labelled = FALSE`, `NeverOverstated` fails). Percentages of concurrent
emitters may be appended oldest last, and an emitter that began before the loop closed may
write "in progress" over the closed snapshot, which `progress-feedback.md:125-129` excludes.
A rejected promise emits the closing event although the loop goes on.

*Journal and planner.* A streak of blocked gates is "planned" to the planner and a stall to
the detector. Rows without a fingerprint, or with the number 0, break a streak. An escalation
survives passes, and journal and phase survive the loop. An event of the other tool in the
same second can hide a stall of the journal, which the docstring at `loop_journal.py:284-285`
says merged events must never do. A row is stamped before the wait for the lock
(`loop_journal.py:483`, `489`), so a pass may stand behind the failure it came before, and be
sorted in front of it; as long as there is no event the rows are not sorted at all.

*Handoff.* `confirm` does not look at who confirms; `clear` leaves the legacy file; all
processes share one temporary name, so that two handoffs at once may leave no latch
(`overlap`); an event is skipped when the log's lock is held for too long.

*Anchor and watcher.* A goal is frozen only against commands that save over what they loaded:
two `set` that both read an empty anchor, one that saves over a forced goal, or one that reads
a file truncated by another, replace it without `--force`, which the comment at
`task_anchor.py:41` excludes. `_delivery_stop_guard` reads `paths` where `delivery_contract`
writes `new_files`; each drops what the other wrote, so a file that was authorized is flagged
again by the first guard after the second has written. `capture_baseline` drops the `head` the
other had noted, and setting the same contract again captures again: a new file that was to be
flagged is then part of the baseline, against `delivery_contract.py:30-32`. Both guards let a
turn pass when they cannot tell: the first when git fails (`delivery_contract.py:201`) or it
raises (`loop_stop.py:339`), the second when it raises (`loop_stop.py:398`); and the first
imports a package `simplicio_loop` (`loop_stop.py:322`) that is not in the repository, without
which it does nothing. A waived criterion is ready for `gate` and never accepted by the
watcher. Two marks at once lose one. A derived challenge does not depend on the criteria's
texts. A report that names no challenge is taken for any, and one that names no commit skips
the comparison of trees, as does a `rev-parse` that fails (`watcher_verify.py:502`). Of the
files an item cites only Python paths are compared (306-334), and a status that begins with a
space is cut (187). `_wi_diff_empty_between` always looks at the main repository, whichever
worktree the item has.

*Hermes.* A request that was evicted from the bounded table, or whose session has ended, may
be recorded again. A late report with the id of a provider call that was already counted takes
the preparation of another request. Writing to the child, taking the lock of the Python Mapper
(`hermes_plugin.py:803`), reading what is left of its output after it was killed (167), and
taking the lock in `close()` have no limit. A session that ends during its warm-up may be
warmed up twice.

*Coordinator and cleanup.* A survey reads at most 100 pull requests, open ones are not
looked at, so a claim at work for more than the stale time is reclaimed; "#1" matches "#12".
A merged pull request counts whatever was committed after it, and `branch -D` deletes such
commits. A cleanup killed between its two branch deletions leaves the remote branch behind
(the next one fails at the local branch, which is gone); a worktree directory removed by
hand is skipped for ever, and so is one whose removal failed half-way, because the files it
lacks are changes. The documented command (`SKILL.md:714`, `worktree_cleanup.py:23-25`)
names no `--safety-json`, without which `decide_cleanup` (223) skips every branch; and nothing
starts the cleanup again.

*Release.* The branch `release/<tag>` is the only lock, and the script never deletes it:
where the host deletes it on merge, a second publisher may merge the same version again.
Between the push of the branch and the final release only an operator can finish. A tag left
in a clone makes a later `git tag` fail after the merge. A stale clone is noticed after it
was made dirty. `--resume` of a version whose wheel exists can report success for another
source, and is impossible once every clone has moved on.

*Runtime installation.* An install that is killed between the new target and its receipt,
after which the application is updated, and a rollback killed at the same point, leave a
target that no receipt names: every later install refuses it, and its attempt can never be
reconciled. Where the same application restarts, the reconciliation settles without
rewriting the receipt. The journal is not locked: two processes use one temporary name, and
one may settle what the other has just begun; `apply` and `rollback` do not write it at
all. Between the last comparison of a digest and the rename a program without the lock may
still change the target. A rollback that fails puts the copy it had set aside over whatever
is there by then.

*Map cache.* The limit of the lock (120 s) is shorter than the two mappers (120 s each) that
may run under it, and the hook that was robbed of it removes the robber's. The generation is
not looked at again after mapping. The hook's generation misses edits inside untracked
directories, which Hermes' sees, so that the two invalidate each other's receipts. Where git
fails, takes two seconds or has no repository, it is the time of the root directory
(`mapper_context.py:154-157`), which an edit of a file does not change: the hook then hands
out a map of another content, against the docstring (4-5). The
marker is written before the output, so a hook killed between them withholds a map that was
never given.

## 7. Not modelled

* *Desktop* (section 1.2): the application's processes, its updates, login and idle session.
  Of the installation: two different builds of one version, which are ordered like two
  versions here; a backup that another program removes; permissions that cannot be set after
  a rename, which are a step that succeeds and a death.
* *Queue*: the revision counter (`--expected-revision`), the optional agent identity, the
  parsing of items, and how its lock is acquired.
* *Driver*: the text of the re-feed, calls to the Runtime's event log. What the operator
  probes, the completion oracle and the flow audit answer are free choices.
* *Anchor and contract*: the comment lint, which matches text; the prototype gate, which is
  an external package that is skipped when it is missing.
* *Watcher*: the re-execution of an operator's checks and the quality matrix, whose outcome
  is a free choice.
* *Journal*: the row that the delivery guard appends on its own (`loop_stop.py:384-391`, gate
  "block", without the lock).
* *Cleanup*: `--dry-run`.
* *Progress*: rendering, and a run without a backlog.
* *Hermes*: measurement mode and synthetic identifiers.
* *Release*: signatures, package contents and the smoke tests, but for what they can tell
  about the remote; `cut_public_overlay_release.py`, which attaches assets by another way;
  the release gates that read and report.
* Installers, host glue, the action gate, audits and evidence tools, the cross-agent wiki,
  renderers: one-shot programs that keep no state a model checker could explore. The
  Runtime itself is not in the repository.
