------------------------------ MODULE Watcher ------------------------------
(***************************************************************************)
(* The watcher receipts: plugin/scripts/watcher_verify.py, composed with   *)
(* the task anchor whose criteria it answers for and with the stop hook    *)
(* that issues the other kind of challenge and reads the receipt.          *)
(*                                                                         *)
(* A challenge is a nonce of the stop hook, or a hash of the goal and of   *)
(* the statuses of the criteria (not of their texts).  The independent     *)
(* watcher, which is not part of this repository, leaves what it measured  *)
(* in a run directory; `verify` compares that with challenge, anchor and   *)
(* tree and writes watcher_state.json.  Hashes are what they are hashes of *)
(***************************************************************************)
EXTENDS Anchor

CONSTANTS
    MaxNonces,   \* bound: nonces of the stop hook
    MaxIssues,   \* bound: challenges issued by `issue`
    MaxReports,  \* bound: reports of the independent watcher and of the operator
    MaxVerifies, \* bound: runs of `verify`
    MaxClock     \* bound: seconds

VARIABLES
    challenge,   \* watcher_challenge.json
    independent, \* independent-watcher-receipt.json
    evidence,    \* evidence-receipt.json
    state,       \* watcher_state.json
    verifying,   \* a running `verify`: the challenge it read, then its receipt
    clock,       \* the second it is
    nonces, issues, reports, verifies  \* counters of the bounds

watchVars == <<challenge, independent, evidence, state, verifying, clock,
               nonces, issues, reports, verifies>>
vars == <<anchorVars, watchVars>>

Nothing == [kind |-> "none"]
StatusesOf(a) == [i \in 1..Len(a.criteria) |-> a.criteria[i].status]

\* _derive_anchor_challenge, from what _anchor_snapshot keeps of the anchor.
Derived(a, n) == [kind |-> "anchor", goal |-> a.goal, statuses |-> StatusesOf(a), n |-> n]
Nonce(a, n) == [kind |-> "nonce", goal |-> a.goal, statuses |-> <<>>, n |-> n]

IsId(id) ==
    /\ id.kind \in {"anchor", "nonce"} /\ id.goal \in Goals \cup {NoGoal}
    /\ id.statuses \in Seq(Statuses) /\ id.n \in 0..MaxNonces

\* A report that names no challenge is taken for any.
Unnamed == [kind |-> "unnamed"]

IsReceipt(r) ==
    /\ r.match \in BOOLEAN /\ IsId(r.id) /\ r.seen \in Seq(Statuses)
    /\ r.source \in {"independent", "evidence"}
    /\ r.read \in 0..MaxClock /\ r.at \in 0..MaxClock

TypeOK ==
    /\ AnchorTypeOK
    /\ challenge # Nothing => IsId(challenge.id) /\ challenge.written \in 0..MaxClock
    /\ \A report \in {independent, evidence} :
          report # Nothing => report.measured \subseteq Nat
    /\ verifying.kind \in {"none", "read", "receipt"}
    /\ verifying # Nothing => IsId(verifying.id)
    /\ state # Nothing => IsReceipt(state)
    /\ verifying.kind = "receipt" => IsReceipt(verifying)
    /\ clock \in 0..MaxClock

Init ==
    /\ AnchorInit
    /\ challenge = Nothing /\ independent = Nothing /\ evidence = Nothing
    /\ state = Nothing /\ verifying = Nothing
    /\ clock = 0 /\ nonces = 0 /\ issues = 0 /\ reports = 0 /\ verifies = 0
-----------------------------------------------------------------------------
(* The surroundings: the stop hook, the two producers of reports.          *)

\* write_watcher_challenge of the stop hook.
HookChallenge ==
    /\ nonces < MaxNonces /\ nonces' = nonces + 1
    /\ challenge' = [id |-> Nonce(Loaded, nonces + 1), written |-> clock]
    /\ UNCHANGED <<anchorVars, independent, evidence, state, verifying, clock,
                   issues, reports, verifies>>

\* cleanup_and_stop of the stop hook removes receipt and challenge, one after the other.
HookRemoves ==
    /\ \/ state # Nothing /\ state' = Nothing /\ UNCHANGED challenge
       \/ challenge # Nothing /\ challenge' = Nothing /\ UNCHANGED state
    /\ UNCHANGED <<anchorVars, independent, evidence, verifying, clock,
                   nonces, issues, reports, verifies>>

\* The independent watcher measures, of the criteria on file, those it can confirm; its
\* report may name no challenge.
IndependentReports ==
    /\ reports < MaxReports /\ reports' = reports + 1
    /\ Loaded.criteria # <<>> /\ challenge # Nothing
    /\ \E measured \in SUBSET (1..Len(Loaded.criteria)), id \in {challenge.id, Unnamed} :
          independent' = [kind |-> "independent", id |-> id, measured |-> measured,
                          match |-> measured = 1..Len(Loaded.criteria)]
    /\ UNCHANGED <<anchorVars, challenge, evidence, state, verifying, clock,
                   nonces, issues, verifies>>

\* The operator leaves an evidence receipt for some criteria.
OperatorReports ==
    /\ reports < MaxReports /\ reports' = reports + 1
    /\ Loaded.criteria # <<>>
    /\ \E measured \in SUBSET (1..Len(Loaded.criteria)) :
          evidence' = [kind |-> "evidence", measured |-> measured]
    /\ UNCHANGED <<anchorVars, challenge, independent, state, verifying, clock,
                   nonces, issues, verifies>>

Tick ==
    /\ clock < MaxClock /\ clock' = clock + 1
    /\ UNCHANGED <<anchorVars, challenge, independent, evidence, state, verifying,
                   nonces, issues, reports, verifies>>
-----------------------------------------------------------------------------
\* cmd_issue: the iteration number of the challenge on disk is kept.
CmdIssue ==
    /\ issues < MaxIssues /\ issues' = issues + 1
    /\ Loaded.criteria # <<>>
    /\ challenge' = [id |-> Derived(Loaded, IF challenge = Nothing THEN 0 ELSE challenge.id.n),
                     written |-> clock]
    /\ UNCHANGED <<anchorVars, independent, evidence, state, verifying, clock,
                   nonces, reports, verifies>>

Bound == verifying.id.kind = "anchor"
UsingIndependent == independent # Nothing /\ (Bound \/ evidence = Nothing)

\* Mutant: a derived challenge is compared by its goal alone.
WrongChallengeMatchesGoal == verifying.id.goal = Loaded.goal

\* _validate_anchor_derived_challenge, and the looser check of a nonce.
ChallengeMatches ==
    IF Bound THEN verifying.id = Derived(Loaded, verifying.id.n)
    ELSE verifying.id.goal = NoGoal \/ Loaded.goal \in {NoGoal, verifying.id.goal}

\* _find_run_dir, _load_run_artifacts: unless the environment names the run directory,
\* one without an independent report is not found, and with it the evidence.
RunEvidence(named) == IF named \/ independent # Nothing THEN evidence ELSE Nothing

\* _criterion_results: a criterion counts when it is done and was measured.
CriteriaMatch(report) ==
    /\ Loaded.criteria # <<>>
    /\ \A i \in 1..Len(Loaded.criteria) :
          Loaded.criteria[i].status = "done" /\ i \in report.measured

\* _independent_criterion_results, and what is asked of the report as a whole.
IndependentMatch ==
    /\ independent.id \in {verifying.id, Unnamed}
    /\ independent.match
    /\ CriteriaMatch(independent)

\* What the checks of the evidence, and the lanes of the quality matrix, give when they
\* are run again: execute_receipt_checks, _quality_gate_reverify.
Reruns == [checks : BOOLEAN, quality : BOOLEAN]

\* How the tree compares with a report (_git_meta, _wi_files_from_receipt): its head with
\* the commit of the report, unless the report gives none or git names no head; its diff
\* with the fingerprint given, although a file that is edited and not staged shows in no
\* diff as long as no other is new or staged; and between the two commits the files that
\* are cited, which are Python files only, and "other" when git fails.
Comparisons == [commit : {"not given", "no head", "same", "other"},
                diff : {"not given", "same", "other"},
                files : {"not cited", "same", "other"}]

\* _wi_diff_empty_between: the head moved on, and the files that are cited did not change.
AdvanceOk(tree) == tree.commit = "other" /\ tree.files = "same"

TreeMatches(tree) == AdvanceOk(tree) \/ (tree.commit # "other" /\ tree.diff # "other")

Verdict(named, rerun, tree) ==
    /\ ChallengeMatches
    /\ rerun.quality
    /\ TreeMatches(tree)
    /\ IF UsingIndependent THEN IndependentMatch
       ELSE /\ RunEvidence(named) # Nothing /\ ~Bound /\ rerun.checks
            /\ CriteriaMatch(evidence)

\* cmd_verify reads the challenge first, ...
VerifyStart ==
    /\ verifying = Nothing /\ challenge # Nothing
    /\ verifies < MaxVerifies /\ verifies' = verifies + 1
    /\ verifying' = [kind |-> "read", id |-> challenge.id]
    /\ UNCHANGED <<anchorVars, challenge, independent, evidence, state, clock,
                   nonces, issues, reports>>

\* ... then the anchor, the reports and the tree, ...
VerifyRead ==
    /\ verifying.kind = "read"
    /\ \E named \in BOOLEAN, rerun \in Reruns, tree \in Comparisons :
          verifying' = [kind |-> "receipt", match |-> Verdict(named, rerun, tree),
                        id |-> verifying.id, seen |-> StatusesOf(Loaded),
                        read |-> clock, at |-> clock,
                        source |-> IF UsingIndependent THEN "independent" ELSE "evidence"]
    /\ UNCHANGED <<anchorVars, challenge, independent, evidence, state, clock,
                   nonces, issues, reports, verifies>>

\* ... and replaces the receipt, which gets the time it is then.
VerifyWrite ==
    /\ verifying.kind = "receipt"
    /\ state' = [verifying EXCEPT !.at = clock]
    /\ verifying' = Nothing
    /\ UNCHANGED <<anchorVars, challenge, independent, evidence, clock,
                   nonces, issues, reports, verifies>>

\* `verify` is killed.
VerifyDies ==
    /\ verifying # Nothing /\ verifying' = Nothing
    /\ UNCHANGED <<anchorVars, challenge, independent, evidence, state, clock,
                   nonces, issues, reports, verifies>>

Next ==
    \/ AnchorCommand /\ UNCHANGED watchVars
    \/ HookChallenge \/ HookRemoves \/ IndependentReports \/ OperatorReports \/ Tick
    \/ CmdIssue \/ VerifyStart \/ VerifyRead \/ VerifyWrite \/ VerifyDies

Spec == Init /\ [][Next]_vars
-----------------------------------------------------------------------------
\* Mutant: whichever challenge is on disk is taken as the one answered.
WrongAcceptsAnyChallenge ==
    /\ state # Nothing /\ state.match
    /\ challenge # Nothing /\ state.at >= challenge.written

\* watcher_verify of the stop hook: what it makes of the files on disk.
Accepts ==
    /\ state # Nothing /\ state.match
    /\ challenge # Nothing /\ state.id = challenge.id
    /\ state.at >= challenge.written

\* A receipt the hook accepts was written by a verification that saw every criterion
\* done.  When it answers a challenge derived from the anchor, those are the statuses the
\* challenge was issued for, and an independent report was used: such a challenge "alone
\* NEVER approves criteria" (watcher_verify.py), nor does the operator's own evidence.
AcceptedWasDone ==
    Accepts =>
        /\ state.seen # <<>> /\ \A i \in 1..Len(state.seen) : state.seen[i] = "done"
        /\ challenge.id.kind = "anchor" =>
              state.seen = challenge.id.statuses /\ state.source = "independent"

\* A receipt accepted for a nonce was measured after the nonce was written, whatever was
\* still running then: one "hand-written once at iteration 1 (or copied from a stale run)
\* can no longer satisfy the gate" (watcher_verify of the stop hook).
AcceptedIsFresh ==
    Accepts /\ challenge.id.kind = "nonce" => state.read >= challenge.written
=============================================================================
