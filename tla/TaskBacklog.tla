---------------------------- MODULE TaskBacklog ----------------------------
(***************************************************************************)
(* The leased work queue of plugin/scripts/task_backlog.py.                *)
(*                                                                         *)
(* A backlog file holds a frozen graph of work items.  Agents claim an     *)
(* item under a lease (worker name + fencing token + expiry), renew it,    *)
(* and close it as done, skipped, blocked or failed.  Every command is one *)
(* process that takes the sidecar lock for its whole read/modify/write and *)
(* replaces the file atomically (_state_lock, _save), so a command is one  *)
(* action here; what a command writes OUTSIDE the backlog file before it   *)
(* saves (the item's state.json) can survive a crash that the save does    *)
(* not, and the crash points are actions of their own.                     *)
(*                                                                         *)
(* Time is the flag "live" of a lease: TRUE until Expire.  The three       *)
(* comparisons with the clock (refresh <=, _lease_matches <=, cmd_next >)  *)
(* agree on which side of the deadline a lease is.                         *)
(*                                                                         *)
(* Not here: the master's revision (--expected-revision callers are        *)
(* refused or not, which is a caller that does nothing) and the optional   *)
(* --agent-id identity, a third credential beside worker and fence.        *)
(***************************************************************************)
EXTENDS Naturals, Sequences, FiniteSets

CONSTANTS
    NumItems,      \* items are numbered in file order
    Workers,       \* names given with --worker
    Anonymous,     \* "__anonymous__", the holder when cmd_next has no --worker
    None,          \* an absent worker name
    Files,         \* the files plan_files and source_refs name
    Fingerprints,  \* failure fingerprints
    Deps,          \* depends_on of every item
    PlanFiles,     \* plan_files of every item
    SourceRefs,    \* source_refs of every item
    Rank,          \* place in the (priority, id) order
    MaxFailures,   \* --max-failures
    EmptyPolls,    \* --empty-polls: k of the "drained" verdict
    Targets,       \* the --to values callers give cmd_transition
    AllowReopen,   \* do callers name closed items in skip / block / fail?
    Crashes,       \* may a command die before its save?
    MaxFences,     \* bound: leases issued in one behaviour
    MaxEpochs      \* bound: runs of cmd_init in one behaviour

Items == 1..NumItems
Holders == Workers \cup {Anonymous}

ASSUME SizeAssumption ==
    /\ NumItems \in Nat
    /\ MaxFailures \in Nat \ {0}
    /\ EmptyPolls \in Nat \ {0}
    /\ MaxFences \in Nat
    /\ MaxEpochs \in Nat
    /\ AllowReopen \in BOOLEAN
    /\ Crashes \in BOOLEAN
ASSUME NameAssumption == None \notin Holders /\ Anonymous \notin Workers
\* What _validate_graph accepts, with files listed once per item and a strict
\* (priority, id) order.  Acyclicity is stated by numbering: every accepted
\* graph has one, and the checked instances are given in such an order.
AcceptedGraph ==
    /\ Deps \in [Items -> SUBSET Items]
    /\ \A i \in Items : \A d \in Deps[i] : d < i
    /\ PlanFiles \in [Items -> SUBSET Files]
    /\ SourceRefs \in [Items -> SUBSET Files]
    /\ Rank \in [Items -> Nat]
    /\ \A i, j \in Items : Rank[i] = Rank[j] => i = j
    /\ \A i \in Items : PlanFiles[i] # {} => SourceRefs[i] # {}  \* plan_files are the default

ASSUME GraphAssumption == AcceptedGraph

VARIABLES
    item,        \* the item rows: status, reason_code, lease, failures
    attempts,    \* every attempt record ever appended, in the order of claims;
                 \* the n-th claim's fencing token is n (a uuid in the code)
    emptyPolls,  \* master.empty_polls, counted up to EmptyPolls
    ws,          \* what each item's run/state.json says
    changed,     \* files that differ from their frozen snapshot
    epoch,       \* how many times the backlog was frozen
    accepted,    \* history: tokens an accepted done/skip/block/fail presented
    lapsed       \* history: tokens whose lease has been past its deadline

vars == <<item, attempts, emptyPolls, ws, changed, epoch, accepted, lapsed>>

Active == {"claimed", "running", "verification", "delivery"}
Settled == {"done", "skipped", "cancelled", "failed", "dead-letter"}
Statuses == Active \cup Settled \cup {"ready", "blocked", "invalidated", "quarantined"}
\* reason_code, up to what the code compares it with.
Codes == {"other", "dependency-pending", "source-changed"}

NoLease == [worker |-> None, fence |-> 0, live |-> FALSE]
Fences == 0..MaxFences
Lease == [worker : Holders \cup {None}, fence : Fences, live : BOOLEAN]
Item == [status : Statuses, code : Codes, lease : Lease, failures : SUBSET Fingerprints]
\* "erased" is a record that a later cmd_init dropped with the file it was in.
AttemptStatus == {"active", "done", "skipped", "blocked", "failed", "erased"}
Attempt == [item : Items, worker : Holders, status : AttemptStatus]
\* "refrozen": written by a cmd_init that died before its save.
Workspace == {"frozen", "refrozen", "invalidated", "done"}

TypeOK ==
    /\ item \in [Items -> Item]
    /\ attempts \in Seq(Attempt) /\ Len(attempts) <= MaxFences
    /\ emptyPolls \in 0..EmptyPolls
    /\ ws \in [Items -> Workspace]
    /\ changed \subseteq Files
    /\ epoch \in 1..(MaxEpochs + 1)
    /\ accepted \subseteq 1..Len(attempts)
    /\ lapsed \subseteq 1..Len(attempts)
-----------------------------------------------------------------------------
(* Reading the graph.                                                      *)

Pending(i) == {d \in Deps[i] : item[d].status # "done"}
SourceChanged(i) == SourceRefs[i] \cap changed # {}
Conflicts(i, j) == PlanFiles[i] \cap PlanFiles[j] # {}

\* Definitions whose name starts with Wrong are mistakes the code could make; no
\* specification uses them.  Each shows that some property would notice it.
WrongLeaseMatchesAnyFence(i, worker, fence, require) ==
    /\ require => worker # None /\ fence # 0
    /\ worker # None => item[i].lease.worker = worker
    /\ item[i].lease.live
WrongLeaseMatchesExpired(i, worker, fence, require) ==
    /\ require => worker # None /\ fence # 0
    /\ worker # None => item[i].lease.worker = worker
    /\ fence # 0 => item[i].lease.fence = fence

\* _lease_matches: a missing worker or fence is not compared unless required.
LeaseMatches(i, worker, fence, require) ==
    /\ require => worker # None /\ fence # 0
    /\ worker # None => item[i].lease.worker = worker
    /\ fence # 0 => item[i].lease.fence = fence
    /\ item[i].lease.live

\* The test skip, block and fail share: an active item needs both credentials,
\* any other item is checked only against credentials that were given.
MayClose(i, worker, fence) ==
    IF item[i].status \in Active
    THEN LeaseMatches(i, worker, fence, TRUE)
    ELSE (worker # None \/ fence # 0) => LeaseMatches(i, worker, fence, FALSE)

WrongReleasedNever(row) == row
\* An active item whose lease has no owner or is past its deadline is ready.
Released(row) ==
    IF row.status \notin Active \/ (row.lease.worker # None /\ row.lease.live)
    THEN row
    ELSE [row EXCEPT !.status = "ready", !.lease = NoLease]

Unblocked(row) ==
    IF row.status = "blocked" /\ row.code = "dependency-pending"
    THEN [row EXCEPT !.status = "ready", !.code = "other"]
    ELSE IF row.status = "invalidated" /\ row.code # "source-changed"
    THEN [row EXCEPT !.status = "ready"]
    ELSE row

WrongRefreshedRowIgnoresDeps(i) ==
    IF item[i].status \in Settled THEN item[i] ELSE Unblocked(Released(item[i]))
\* _refresh_ready_states on one row.  No row it writes is or stops being "done",
\* so the order in which the code visits the rows does not matter.
RefreshedRow(i) ==
    IF item[i].status \in Settled THEN item[i]
    ELSE IF SourceChanged(i)
    THEN [item[i] EXCEPT !.status = "invalidated", !.code = "source-changed", !.lease = NoLease]
    ELSE IF Pending(i) # {}
    THEN [Released(item[i]) EXCEPT !.status = "blocked", !.code = "dependency-pending"]
    ELSE Unblocked(Released(item[i]))
Refreshed == [i \in Items |-> RefreshedRow(i)]

\* The state.json files a refresh overwrites, on rows 1..n of the file.
WsRefreshed(n) ==
    [i \in Items |-> IF i <= n /\ item[i].status \notin Settled /\ SourceChanged(i)
                     THEN "invalidated" ELSE ws[i]]

WrongFinishedNewest(i, outcome) ==
    LET mine == {k \in DOMAIN attempts : attempts[k].item = i}
    IN [k \in DOMAIN attempts |->
          IF k \in mine /\ \A j \in mine : j <= k THEN [attempts[k] EXCEPT !.status = outcome]
          ELSE attempts[k]]
\* _finish_attempt: close the record the row's lease points to, if it has one.
Finished(i, outcome) ==
    IF item[i].lease.fence = 0 THEN attempts
    ELSE [attempts EXCEPT ![item[i].lease.fence].status = outcome]

FrozenRow(i) ==
    [status |-> IF Deps[i] = {} THEN "ready" ELSE "blocked",
     code |-> IF Deps[i] = {} THEN "other" ELSE "dependency-pending",
     lease |-> NoLease, failures |-> {}]
-----------------------------------------------------------------------------
(* Freezing the backlog.                                                   *)

Init ==
    /\ item = [i \in Items |-> FrozenRow(i)]
    /\ attempts = <<>>
    /\ emptyPolls = 0
    /\ ws = [i \in Items |-> "frozen"]
    /\ changed = {}
    /\ epoch = 1
    /\ accepted = {}
    /\ lapsed = {}

\* cmd_init over an existing backlog: new rows, new master, new workspaces.
CmdInit ==
    /\ epoch <= MaxEpochs
    /\ item' = [i \in Items |-> FrozenRow(i)]
    /\ attempts' = [k \in DOMAIN attempts |-> [attempts[k] EXCEPT !.status = "erased"]]
    /\ emptyPolls' = 0
    /\ ws' = [i \in Items |-> "frozen"]
    /\ changed' = {}
    /\ epoch' = epoch + 1
    /\ UNCHANGED <<accepted, lapsed>>

\* cmd_init dies after writing the first n workspaces: the old backlog stays.
CrashInInit(n) ==
    /\ Crashes
    /\ epoch <= MaxEpochs
    /\ ws' = [i \in Items |-> IF i <= n THEN "refrozen" ELSE ws[i]]
    /\ UNCHANGED <<item, attempts, emptyPolls, changed, epoch, accepted, lapsed>>
-----------------------------------------------------------------------------
(* Claiming: cmd_next.                                                     *)

HoldsLive(worker, i) ==
    item[i].status \in Active /\ item[i].lease.live /\ item[i].lease.worker = worker

WrongClaimableWithConflicts == {i \in Items : Refreshed[i].status = "ready"}
Claimable == {i \in Items :
    /\ Refreshed[i].status = "ready"
    /\ \A j \in Items : Refreshed[j].status \in Active => ~Conflicts(i, j)}

\* The first claimable row in (priority, id) order.
IsPick(i) == i \in Claimable /\ \A j \in Claimable : Rank[i] <= Rank[j]

\* A named worker that holds a live item: its deadline is pushed back, which keeps
\* the lease live, and nothing is refreshed or claimed.
RenewByNext(worker) ==
    /\ worker # Anonymous /\ \E i \in Items : HoldsLive(worker, i)
    /\ UNCHANGED vars

CmdNext(worker) ==
    /\ ~\E i \in Items : worker # Anonymous /\ HoldsLive(worker, i)
    /\ Len(attempts) < MaxFences
    /\ ws' = WsRefreshed(NumItems)
    /\ \/ \E i \in Items :
            /\ IsPick(i)
            /\ item' = [Refreshed EXCEPT ![i].status = "claimed",
                          ![i].lease = [worker |-> worker, fence |-> Len(attempts) + 1,
                                        live |-> TRUE]]
            /\ attempts' = Append(attempts, [item |-> i, worker |-> worker, status |-> "active"])
            /\ emptyPolls' = 0
       \/ /\ Claimable = {}
          /\ item' = Refreshed
          /\ UNCHANGED <<attempts, emptyPolls>>
    /\ UNCHANGED <<changed, epoch, accepted, lapsed>>
-----------------------------------------------------------------------------
(* Renewing and looking: heartbeat, status, poll, checklist.               *)

\* A refresh that is written to the workspaces but not to the backlog file:
\* cmd_checklist, a heartbeat that is refused, or a command killed after n rows.
UnsavedRefresh(n) ==
    /\ ws' = WsRefreshed(n)
    /\ UNCHANGED <<item, attempts, emptyPolls, changed, epoch, accepted, lapsed>>

\* cmd_heartbeat of the holder: the whole graph is refreshed and saved, then the
\* lease, still live, gets a new deadline.
Heartbeat(worker, fence, i) ==
    /\ worker # None
    /\ Refreshed[i].status \in Active
    /\ LeaseMatches(i, worker, fence, FALSE)
    /\ item' = [Refreshed EXCEPT ![i].lease.live = TRUE]
    /\ ws' = WsRefreshed(NumItems)
    /\ UNCHANGED <<attempts, emptyPolls, changed, epoch, accepted, lapsed>>

CmdStatus ==
    /\ item' = Refreshed
    /\ ws' = WsRefreshed(NumItems)
    /\ UNCHANGED <<attempts, emptyPolls, changed, epoch, accepted, lapsed>>

WrongBusyReadyOnly(rows) == \E i \in Items : rows[i].status = "ready"
Busy(rows) == \E i \in Items : \/ rows[i].status = "ready"
                               \/ rows[i].status \in Active /\ rows[i].lease.worker # None

\* cmd_poll: "drained" is answered when the counter reaches EmptyPolls.
CmdPoll ==
    /\ item' = Refreshed
    /\ ws' = WsRefreshed(NumItems)
    /\ emptyPolls' = IF Busy(Refreshed) THEN 0
                     ELSE IF emptyPolls < EmptyPolls THEN emptyPolls + 1 ELSE emptyPolls
    /\ UNCHANGED <<attempts, changed, epoch, accepted, lapsed>>
-----------------------------------------------------------------------------
(* Closing: done, skip, block, fail.                                       *)

WrongCloseKeepsLease(i, fence, outcome, row) ==
    /\ attempts' = Finished(i, outcome)
    /\ item' = [item EXCEPT ![i] = row]
    /\ accepted' = IF fence = 0 THEN accepted ELSE accepted \cup {fence}
    /\ UNCHANGED <<emptyPolls, changed, epoch, lapsed>>

\* A closing command was accepted for item i: attempt record, lease, history.
Close(i, fence, outcome, row) ==
    /\ attempts' = Finished(i, outcome)
    /\ item' = [item EXCEPT ![i] = [row EXCEPT !.lease = NoLease]]
    /\ accepted' = IF fence = 0 THEN accepted ELSE accepted \cup {fence}
    /\ UNCHANGED <<emptyPolls, changed, epoch, lapsed>>

\* cmd_done with an anchor whose criteria are all met: the lease is the only
\* thing the backlog itself checks.
CmdDone(worker, fence, i) ==
    /\ LeaseMatches(i, worker, fence, TRUE)
    /\ Close(i, fence, "done", [item[i] EXCEPT !.status = "done"])
    /\ ws' = [ws EXCEPT ![i] = "done"]

WrongCrashInDoneSavedFirst(worker, fence, i) ==
    /\ Crashes
    /\ LeaseMatches(i, worker, fence, TRUE)
    /\ Close(i, fence, "done", [item[i] EXCEPT !.status = "done"])
    /\ UNCHANGED ws

\* cmd_done dies between writing state.json and saving the backlog.
CrashInDone(worker, fence, i) ==
    /\ Crashes
    /\ LeaseMatches(i, worker, fence, TRUE)
    /\ ws' = [ws EXCEPT ![i] = "done"]
    /\ UNCHANGED <<item, attempts, emptyPolls, changed, epoch, accepted, lapsed>>

\* Closed for good as far as a disciplined caller is concerned.
Closed == {"done", "skipped", "cancelled", "dead-letter"}
Named(i) == AllowReopen \/ item[i].status \notin Closed

CmdSkip(worker, fence, i) ==
    /\ Named(i)
    /\ MayClose(i, worker, fence)
    /\ Close(i, fence, "skipped", [item[i] EXCEPT !.status = "skipped"])
    /\ UNCHANGED ws

CmdBlock(worker, fence, i) ==
    /\ Named(i)
    /\ MayClose(i, worker, fence)
    /\ Close(i, fence, "blocked", [item[i] EXCEPT !.status = "blocked", !.code = "other"])
    /\ UNCHANGED ws

WrongFailedRowCountsBefore(i, fp) ==
    [item[i] EXCEPT !.failures = item[i].failures \cup {fp}, !.code = "other",
       !.status = IF Cardinality(item[i].failures) >= MaxFailures THEN "dead-letter" ELSE "ready"]

\* A fingerprint counts once; the row is parked when enough distinct ones are in.
FailedRow(i, fp) ==
    LET failures == item[i].failures \cup {fp}
    IN [item[i] EXCEPT !.failures = failures, !.code = "other",
          !.status = IF Cardinality(failures) >= MaxFailures THEN "dead-letter" ELSE "ready"]

CmdFail(worker, fence, i, fp) ==
    /\ Named(i)
    /\ MayClose(i, worker, fence)
    /\ Close(i, fence, "failed", FailedRow(i, fp))
    /\ UNCHANGED ws
-----------------------------------------------------------------------------
(* cmd_transition.                                                         *)

Transitions(from) ==
    CASE from = "ready"        -> {"claimed", "blocked", "cancelled"}
      [] from = "claimed"      -> {"running", "verification", "delivery", "ready", "failed",
                                   "blocked", "cancelled"}
      [] from = "running"      -> {"verification", "delivery", "ready", "failed", "blocked",
                                   "cancelled"}
      [] from = "verification" -> {"delivery", "running", "ready", "failed", "blocked",
                                   "cancelled"}
      [] from = "delivery"     -> {"verification", "running", "ready", "failed", "blocked",
                                   "cancelled"}
      [] from = "blocked"      -> {"ready", "failed", "quarantined", "cancelled"}
      [] from = "failed"       -> {"ready", "dead-letter", "cancelled"}
      [] OTHER                 -> {}

\* The attempt record is left as it is; recode says whether --code was given.
CmdTransition(worker, fence, i, target, recode) ==
    /\ target \in Transitions(item[i].status)
    /\ item[i].status \in Active \/ target \in Active => LeaseMatches(i, worker, fence, TRUE)
    /\ item' = [item EXCEPT ![i].status = target,
                  ![i].code = IF recode THEN "other" ELSE item[i].code,
                  ![i].lease = IF target \in Active THEN item[i].lease ELSE NoLease]
    /\ UNCHANGED <<attempts, emptyPolls, ws, changed, epoch, accepted, lapsed>>
-----------------------------------------------------------------------------
(* The world around the backlog.                                           *)

\* The deadline of a lease passes.
Expire(i) ==
    /\ item[i].lease.live
    /\ item' = [item EXCEPT ![i].lease.live = FALSE]
    /\ lapsed' = lapsed \cup {item[i].lease.fence}
    /\ UNCHANGED <<attempts, emptyPolls, ws, changed, epoch, accepted>>

\* A source file is edited, or put back with the size, time and hash it had.
Touch(f) ==
    /\ changed' = IF f \in changed THEN changed \ {f} ELSE changed \cup {f}
    /\ UNCHANGED <<item, attempts, emptyPolls, ws, epoch, accepted, lapsed>>

WatchedFiles == UNION {SourceRefs[i] : i \in Items}

Credentials == (Holders \cup {None}) \X (0..Len(attempts))

Command(worker, fence, i) ==
    \/ Heartbeat(worker, fence, i)
    \/ CmdDone(worker, fence, i)
    \/ CrashInDone(worker, fence, i)
    \/ CmdSkip(worker, fence, i)
    \/ CmdBlock(worker, fence, i)
    \/ \E fp \in Fingerprints : CmdFail(worker, fence, i, fp)
    \/ \E target \in Targets, recode \in BOOLEAN :
         CmdTransition(worker, fence, i, target, recode)

Next ==
    \/ CmdInit
    \/ \E n \in Items : CrashInInit(n) \/ UnsavedRefresh(n)
    \/ \E worker \in Holders : CmdNext(worker) \/ RenewByNext(worker)
    \/ CmdStatus
    \/ CmdPoll
    \/ \E c \in Credentials, i \in Items : Command(c[1], c[2], i)
    \/ \E i \in Items : Expire(i)
    \/ \E f \in WatchedFiles : Touch(f)

Spec == Init /\ [][Next]_vars
-----------------------------------------------------------------------------
(* Safety.                                                                 *)

\* A lease on a row is the row's latest claim, recorded as a still-open attempt of
\* the same worker: no command leaves a lease behind whose attempt was closed, and
\* no two rows ever carry the same token.  (cmd_next, _record_attempt,
\* _finish_attempt and every place that sets lease to {}.)
LeaseOwnsAttempt ==
    \A i \in Items : item[i].lease # NoLease =>
        /\ item[i].lease.fence \in DOMAIN attempts
        /\ attempts[item[i].lease.fence] =
             [item |-> i, worker |-> item[i].lease.worker, status |-> "active"]
        /\ \A k \in DOMAIN attempts :
             k > item[i].lease.fence => attempts[k].item # i \/ attempts[k].status = "erased"

\* A token that got a closing command accepted closed its own attempt: a worker
\* whose item was taken over never closes the successor's attempt with the token
\* of its own.  (The fencing of cmd_done, cmd_skip, cmd_block, cmd_fail.)
AcceptedTokenClosedItsAttempt ==
    \A k \in accepted : attempts[k].status # "active"

\* A claim whose deadline passed can no longer close its item, whatever happens
\* later: its record stays open for ever (or goes with the file it is in).
LapsedNeverCloses ==
    \A k \in lapsed : attempts[k].status \in {"active", "erased"}

\* Two items worked on at the same time share no plan file (_conflicts).
NoConflictingWork ==
    \A i, j \in Items :
        i # j /\ item[i].status \in Active /\ item[j].status \in Active => ~Conflicts(i, j)

\* Nobody works on, or has finished, an item whose dependencies are not done.
DependenciesFirst ==
    \A i \in Items : item[i].status \in Active \cup {"done"} => Pending(i) = {}

\* MaxFailures distinct failures park an item, and nothing short of a new freeze
\* brings it back into circulation (cmd_fail and every refresh after it).
PoisonIsParked ==
    \A i \in Items : Cardinality(item[i].failures) >= MaxFailures => item[i].status = "dead-letter"

\* The workspace is written before the backlog: a row that is done or invalidated
\* has a state.json that says so, unless a later freeze died half way.
WorkspaceNotBehind ==
    \A i \in Items :
        /\ item[i].status = "done" => ws[i] \in {"done", "refrozen"}
        /\ item[i].status = "invalidated" => ws[i] # "frozen"

\* Attempt history is append-only and a closed record is never rewritten; only a
\* new freeze drops it (_finish_attempt: "without rewriting prior attempt history").
AttemptHistoryImmutable ==
    [][ /\ Len(attempts') >= Len(attempts)
        /\ \A k \in DOMAIN attempts :
             attempts'[k] # attempts[k] =>
                 attempts[k].status = "active" \/ attempts'[k].status = "erased" ]_vars
-----------------------------------------------------------------------------
(* The abstract queue, as seen through the leases and the records.         *)

Abstract == INSTANCE LeasedQueue WITH
    held    <- [i \in Items |-> item[i].lease.fence],
    issued  <- Len(attempts),
    expired <- lapsed,
    spent   <- accepted

\* The queue implements the leased queue: through every command, refresh, crash and
\* lapse an item is claimed under a new token only when it is free, and only the token
\* it is held under closes it, in time.
ImplementsLeasedQueue == Abstract!QueueSpec
-----------------------------------------------------------------------------
(* Draining.  Workers that finish what they claim, or lose it to the clock *)
(* at most MaxFences - NumItems times, so that the bound on tokens never   *)
(* keeps a worker from claiming.                                           *)

MayLapse == Cardinality(lapsed) < MaxFences - NumItems

Claim == \E worker \in Holders : CmdNext(worker)
Finish(i) == \E c \in Credentials : CmdDone(c[1], c[2], i)

DrainNext ==
    \/ Claim
    \/ CmdPoll
    \/ \E i \in Items : Finish(i)
    \/ \E i \in Items : MayLapse /\ Expire(i)

\* Somebody keeps asking for work, a holder that keeps its lease finishes, and the
\* drain loop keeps polling.
DrainSpec ==
    /\ Init /\ [][DrainNext]_vars
    /\ WF_vars(Claim)
    /\ WF_vars(CmdPoll)
    /\ \A i \in Items : WF_vars(Finish(i))

\* Dependencies and file conflicts never leave the workers waiting for one another:
\* the whole backlog gets done, lost leases included.
EverythingGetsDone == <>[](\A i \in Items : item[i].status = "done")

\* cmd_poll answers "drained" only when nothing is left, however the polls fall
\* between claims, lapses and completions.
DrainedMeansDone == emptyPolls >= EmptyPolls => \A i \in Items : item[i].status = "done"
=============================================================================
