------------------------------ MODULE Delivery ------------------------------
(***************************************************************************)
(* How several sessions share one GitHub issue: plugin/scripts/            *)
(* coordinator.py decides from the claims and pull requests it surveyed    *)
(* whether a session takes the issue, and plugin/scripts/                  *)
(* worktree_cleanup.py deletes a session's worktree and branch when its    *)
(* pull request has been merged.  Neither holds a lock: a survey is two    *)
(* calls of gh, a decision is taken from a snapshot that may be old, and a *)
(* cleanup is a row of git commands during which the session may return.   *)
(*                                                                         *)
(* What a session does between the two scripts (claim comment, work, pull  *)
(* request, exit) is external: SKILL.md tells it to.  Each session works   *)
(* on the branch and in the worktree that bear its name.  The pull         *)
(* requests all mention the issue.                                         *)
(***************************************************************************)
EXTENDS Integers, Sequences, FiniteSets

CONSTANTS
    Sessions,
    StaleHours, \* DEFAULT_STALE_HOURS
    MaxClock,   \* bound: hours
    MaxSurveys, \* bound: surveys of all sessions
    MaxUpsets   \* bound: sessions that come back and cleanups stopped half way

ASSUME DeliveryAssumption ==
    {StaleHours, MaxClock, MaxSurveys, MaxUpsets} \subseteq Nat

VARIABLES
    clock,
    claims,    \* the claim comments, and of each: the claims known and the hour when it was decided
    view,      \* each session's snapshot: claims read, whether a merged pull request was
    surveys,   \* surveys so far
    decision,  \* each session's last decision
    pr,        \* the pull request of each branch
    tree,      \* the worktree of each branch; torn: a removal was cut off inside it
    local, remote, \* the branches that exist
    upsets,
    active,    \* sessions whose terminal and agent run
    receipt,   \* sessions whose safety receipt says that they have exited
    job,       \* the cleanup under way
    woken      \* history: sessions that came back after their receipt was written

boardVars == <<claims, view, surveys, decision>>
workVars == <<pr, tree, local, remote, active, receipt, woken>>
vars == <<clock, upsets, boardVars, workVars, job>>

\* The decisions on which a session goes on.
Going == {"OWN", "CONTINUE_OWN", "RECLAIM_STALE"}
NoView == [at |-> "none", seen |-> 0, merged |-> FALSE]
NoDecision == [action |-> "none", at |-> 0, seen |-> 0]
NoJob == [at |-> "idle", for |-> CHOOSE s \in Sessions : TRUE, safe |-> FALSE, merged |-> FALSE]

TypeOK ==
    /\ clock \in 0..MaxClock
    /\ claims \in Seq([branch : Sessions, at : 0..MaxClock, seen : Nat, decided : 0..MaxClock])
    /\ view \in [Sessions -> [at : {"none", "prs", "full"}, seen : 0..Len(claims),
                              merged : BOOLEAN]]
    /\ surveys \in 0..MaxSurveys
    /\ decision \in [Sessions -> [action : Going \cup {"none"}, at : 0..MaxClock,
                                  seen : 0..Len(claims)]]
    /\ pr \in [Sessions -> {"none", "open", "merged"}]
    /\ tree \in [Sessions -> {"none", "clean", "dirty", "torn"}]
    /\ \A set \in {local, remote, active, receipt, woken} : set \subseteq Sessions
    /\ upsets \in 0..MaxUpsets
    /\ job \in [at : {"checked", "tree", "local", "remote"}, for : Sessions,
                safe : BOOLEAN, merged : BOOLEAN] \cup {NoJob}

Init ==
    /\ clock = 0 /\ claims = <<>>
    /\ view = [s \in Sessions |-> NoView] /\ surveys = 0
    /\ decision = [s \in Sessions |-> NoDecision]
    /\ pr = [s \in Sessions |-> "none"]
    /\ tree = [s \in Sessions |-> "none"]
    /\ local = {} /\ remote = {} /\ active = {} /\ receipt = {}
    /\ upsets = 0
    /\ job = NoJob /\ woken = {}

Tick == clock < MaxClock /\ clock' = clock + 1 /\ UNCHANGED <<upsets, boardVars, workVars, job>>
-----------------------------------------------------------------------------
(* coordinator.py                                                          *)

\* has_merged_pr_referencing, of the pull requests as they are.
AnyMerged == \E s \in Sessions : pr[s] = "merged"

\* cmd_survey, first call: gh pr list.
SurveyPrs(s) ==
    /\ surveys < MaxSurveys
    /\ surveys' = surveys + 1
    /\ view' = [view EXCEPT ![s] = [at |-> "prs", seen |-> 0, merged |-> AnyMerged]]
    /\ UNCHANGED <<clock, upsets, claims, decision, workVars, job>>

\* cmd_survey, second call: gh issue view.
SurveyIssue(s) ==
    /\ view[s].at = "prs"
    /\ view' = [view EXCEPT ![s].at = "full", ![s].seen = Len(claims)]
    /\ UNCHANGED <<clock, upsets, claims, surveys, decision, workVars, job>>

\* extract_claims sorts the claims by time: the last of those read is the newest.
LastClaim(seen) == claims[seen]

\* Mutant: the age is rounded up.
WrongDecide(s, seen, merged) ==
    IF seen = 0 THEN IF merged THEN "VERIFY_PARTIAL" ELSE "OWN"
    ELSE IF LastClaim(seen).branch = s THEN "CONTINUE_OWN"
    ELSE IF merged THEN "VERIFY_PARTIAL"
    ELSE IF clock - LastClaim(seen).at + 1 < StaleHours THEN "DEFER_ACTIVE_CLAIM"
    ELSE "RECLAIM_STALE"

\* decide_for_issue.
Decide(s, seen, merged) ==
    IF seen = 0 THEN IF merged THEN "VERIFY_PARTIAL" ELSE "OWN"
    ELSE IF LastClaim(seen).branch = s THEN "CONTINUE_OWN"
    ELSE IF merged THEN "VERIFY_PARTIAL"
    ELSE IF clock - LastClaim(seen).at < StaleHours THEN "DEFER_ACTIVE_CLAIM"
    ELSE "RECLAIM_STALE"

\* cmd_decide, from the snapshot as it is, at whatever time.  DEFER_ACTIVE_CLAIM and
\* VERIFY_PARTIAL leave the session with nothing to go on.
CmdDecide(s) ==
    /\ view[s].at = "full"
    /\ LET action == Decide(s, view[s].seen, view[s].merged)
       IN  decision' = [decision EXCEPT ![s] =
              IF action \in Going THEN [action |-> action, at |-> clock, seen |-> view[s].seen]
              ELSE NoDecision]
    /\ UNCHANGED <<clock, upsets, claims, view, surveys, workVars, job>>
-----------------------------------------------------------------------------
(* The sessions.                                                           *)

\* A session that may take the issue says so and starts to work on a branch.
Claim(s) ==
    /\ decision[s].action \in {"OWN", "RECLAIM_STALE"} /\ s \notin local /\ pr[s] = "none"
    /\ claims' = Append(claims, [branch |-> s, at |-> clock, seen |-> decision[s].seen,
                                 decided |-> decision[s].at])
    /\ decision' = [decision EXCEPT ![s] = NoDecision]
    /\ local' = local \cup {s} /\ active' = active \cup {s}
    /\ tree' = [tree EXCEPT ![s] = "clean"]
    /\ UNCHANGED <<clock, upsets, view, surveys, pr, remote, receipt, woken, job>>

Edit(s) ==
    /\ s \in active /\ tree[s] = "clean"
    /\ tree' = [tree EXCEPT ![s] = "dirty"]
    /\ UNCHANGED <<clock, upsets, boardVars, pr, local, remote, active, receipt, woken,
                   job>>

\* The changes, or what a torn worktree lacks, are committed and pushed; the pull request
\* is opened or has them too.
Commit(s) ==
    /\ s \in active /\ tree[s] \in {"dirty", "torn"}
    /\ tree' = [tree EXCEPT ![s] = "clean"]
    /\ pr' = [pr EXCEPT ![s] = IF @ = "none" THEN "open" ELSE @]
    /\ remote' = remote \cup {s}
    /\ UNCHANGED <<clock, upsets, boardVars, local, active, receipt, woken, job>>

Merge(s) ==
    /\ pr[s] = "open"
    /\ pr' = [pr EXCEPT ![s] = "merged"]
    /\ UNCHANGED <<clock, upsets, boardVars, tree, local, remote, active, receipt, woken,
                   job>>

\* The session ends, orderly or not, and its safety receipt is written.
Exit(s) ==
    /\ s \in active
    /\ active' = active \ {s} /\ receipt' = receipt \cup {s}
    /\ UNCHANGED <<clock, upsets, boardVars, pr, tree, local, remote, woken, job>>

\* It comes back to its worktree; the receipt is still there.
Return(s) ==
    /\ s \in local /\ s \notin active /\ tree[s] # "none" /\ upsets < MaxUpsets
    /\ active' = active \cup {s} /\ upsets' = upsets + 1 /\ woken' = woken \cup {s}
    /\ UNCHANGED <<clock, boardVars, pr, tree, local, remote, receipt, job>>
-----------------------------------------------------------------------------
(* worktree_cleanup.py run --pr N --branch s [--safety-json FILE]          *)

\* What cleanup finds out: whether the receipt reports an exit and no activity, whether
\* the pull request is merged, whether git lists a worktree of the branch, its status.
Safe(s) == s \in receipt
PrView(s) == pr[s]
Merged(s) == PrView(s) = "merged"
HasTree(s) == tree[s] # "none"
Dirty(s) == tree[s] \in {"dirty", "torn"}

\* The receipt is loaded, if the command names one, then the pull request is asked for.
Start(s, named) ==
    /\ job.at = "idle" /\ s \in local \cup remote
    /\ job' = [at |-> "checked", for |-> s, safe |-> named /\ Safe(s), merged |-> Merged(s)]
    /\ UNCHANGED <<clock, upsets, boardVars, workVars>>

\* Mutant: a worktree with changes is as good as any.
WrongDecideCleanup(merged, path, dirty, safe) ==
    IF ~merged \/ ~safe THEN "skip" ELSE IF path THEN "tree" ELSE "local"

\* Mutant: without a worktree there is nothing to clean.
WrongDecideCleanupTree(merged, path, dirty, safe) ==
    IF ~merged \/ (path /\ dirty) \/ ~safe THEN "skip" ELSE IF path THEN "tree" ELSE "skip"

\* decide_cleanup: where to begin.
DecideCleanup(merged, path, dirty, safe) ==
    IF ~merged \/ (path /\ dirty) \/ ~safe THEN "skip" ELSE IF path THEN "tree" ELSE "local"

\* The worktree is looked for and its status taken, and the decision made.
Inspect ==
    /\ job.at = "checked"
    /\ LET next == DecideCleanup(job.merged, HasTree(job.for), Dirty(job.for), job.safe)
       IN  job' = IF next = "skip" THEN NoJob ELSE [job EXCEPT !.at = next]
    /\ UNCHANGED <<clock, upsets, boardVars, workVars>>

\* git worktree remove --force takes what is in the worktree with it; it fails when
\* there is none.
RemoveTree ==
    /\ job.at = "tree"
    /\ job' = IF ~HasTree(job.for) THEN NoJob ELSE [job EXCEPT !.at = "local"]
    /\ tree' = [tree EXCEPT ![job.for] = "none"]
    /\ UNCHANGED <<clock, upsets, boardVars, pr, local, remote, active, receipt, woken>>

\* git branch -D fails when there is no such branch or a worktree has it.
DeleteLocal ==
    /\ job.at = "local"
    /\ \/ /\ job.for \in local /\ ~HasTree(job.for)
          /\ local' = local \ {job.for} /\ job' = [job EXCEPT !.at = "remote"]
       \/ /\ ~(job.for \in local /\ ~HasTree(job.for))
          /\ job' = NoJob /\ UNCHANGED local
    /\ UNCHANGED <<clock, upsets, boardVars, pr, tree, remote, active, receipt, woken>>

\* A failure of git push --delete is only noted.
DeleteRemote ==
    /\ job.at = "remote"
    /\ job' = NoJob /\ remote' = remote \ {job.for}
    /\ UNCHANGED <<clock, upsets, boardVars, pr, tree, local, active, receipt, woken>>

\* A command fails or the cleanup is killed.  A removal that is cut off has deleted some
\* of the files, and git still lists the worktree or does so no more.
Stop ==
    /\ job.at # "idle" /\ upsets < MaxUpsets
    /\ job' = NoJob /\ upsets' = upsets + 1
    /\ \/ UNCHANGED tree
       \/ /\ job.at = "tree" /\ HasTree(job.for)
          /\ \E left \in {"torn", "none"} : tree' = [tree EXCEPT ![job.for] = left]
    /\ UNCHANGED <<clock, boardVars, pr, local, remote, active, receipt, woken>>

Cleanup == Inspect \/ RemoveTree \/ DeleteLocal \/ DeleteRemote
-----------------------------------------------------------------------------
Coordinate(s) == SurveyPrs(s) \/ SurveyIssue(s) \/ CmdDecide(s)
Work(s) == Claim(s) \/ Edit(s) \/ Commit(s) \/ Merge(s) \/ Exit(s) \/ Return(s)

Next ==
    \/ Tick
    \/ \E s \in Sessions : Coordinate(s) \/ Work(s)
    \/ \E s \in Sessions, named \in BOOLEAN : Start(s, named)
    \/ Cleanup \/ Stop

Spec == Init /\ [][Next]_vars

\* A cleanup that runs goes on.  Nobody has to run one, or to name the receipt.
FairSpec == Spec /\ WF_vars(Cleanup)
-----------------------------------------------------------------------------
\* A session claims over the claim of another only when it could not see that yet,
\* or when that had grown stale ("DEFER_ACTIVE_CLAIM another branch claimed it
\* recently", module docstring).
LaterClaimIsJustified ==
    \A i, j \in 1..Len(claims) :
        (i < j /\ claims[i].branch # claims[j].branch) =>
            \/ claims[j].seen < i
            \/ claims[j].decided - claims[i].at >= StaleHours

\* Uncommitted changes are deleted, all or some, only of a session that came back to its worktree
\* after it had reported its exit ("ONLY when it's safe", module docstring).
ChangesLostOnlyToReturn ==
    [][\A s \in Sessions : (tree[s] = "dirty" /\ tree'[s] \in {"none", "torn"}) => s \in woken]_vars

\* A cleanup that finds the receipt and the merge, and no changes, deletes the branch, also
\* where an earlier one stopped after the worktree ("a missing worktree does not block
\* branch deletion"); unless it is stopped itself or the session comes back.
CleanupFinishes ==
    \A s \in Sessions, n \in 0..MaxUpsets :
        (/\ job.at = "checked" /\ job.for = s /\ job.safe /\ job.merged
         /\ s \in local \ active /\ ~Dirty(s) /\ upsets = n)
            ~> (s \notin local \/ upsets > n)
=============================================================================
