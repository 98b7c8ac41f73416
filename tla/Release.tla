------------------------------ MODULE Release ------------------------------
(***************************************************************************)
(* scripts/publish_release_local.py: how a signed bundle becomes a public  *)
(* release.  A publisher works in a clone of the public repository; what   *)
(* it shares with other publishers is the remote: master, the branches     *)
(* release/<tag>, the tags, the GitHub releases and PyPI.  There is no     *)
(* lock: each step is a git, gh or twine command that may fail, and a      *)
(* publisher that dies leaves what it has done.  --resume is the way back  *)
(* once the GitHub release is complete; before that only an operator is.   *)
(*                                                                         *)
(* A commit of master is represented by the release that its tree carries, *)
(* [v, src]: the version in the manifest and version.txt, and the commit   *)
(* of the Runtime named by the manifest and VERSION.md.  The tests, the    *)
(* wheel's build and the installation smokes are left out where they       *)
(* cannot tell one state of the remote from another.  GitHub, git and PyPI *)
(* are external.                                                           *)
(***************************************************************************)
EXTENDS Integers, Sequences, FiniteSets

CONSTANTS
    Publishers,
    Bundles,    \* the signed bundles that were built: version and commit of the Runtime
    NoSource,   \* no commit
    MaxMaster,  \* bound: commits of master
    MaxKills    \* bound: publishers that die

ASSUME ReleaseAssumption ==
    /\ \A b \in Bundles : b = [v |-> b.v, src |-> b.src] /\ b.v \in Nat \ {0} /\ b.src # NoSource
    /\ MaxMaster \in Nat \ {0} /\ MaxKills \in Nat

VARIABLES
    master,   \* the releases carried by the commits of the public master
    branch,   \* remote release/<tag>: the commit of master it starts from and its release
    tag,      \* the commit of master that the remote tag of a version names, or 0
    release,  \* the GitHub release of a version
    pypi,     \* the wheel of a version on PyPI
    clone,    \* each publisher's clone
    proc,     \* each publisher's process
    kills     \* publishers that died

remoteVars == <<master, branch, tag, release, pypi>>
vars == <<master, branch, tag, release, pypi, clone, proc, kills>>

Versions == {b.v : b \in Bundles}
Sources == {b.src : b \in Bundles}
Older == [v |-> 0, src |-> NoSource]   \* what master carries before the first release here
NoBranch == [base |-> 0, src |-> NoSource]
NoRelease == [at |-> "none", src |-> NoSource]
Carried == Bundles \cup {Older}

Stages == {"idle", "staged", "committed", "pushed", "merged",
           "tagged", "visible", "drafted", "released", "resumed", "present", "uploaded"}
Idle == [at |-> "idle", v |-> 0, src |-> NoSource]

TypeOK ==
    /\ master \in Seq(Carried) /\ Len(master) \in 1..MaxMaster
    /\ branch \in [Versions -> [base : 1..MaxMaster, src : Sources] \cup {NoBranch}]
    /\ tag \in [Versions -> 0..Len(master)]
    /\ release \in [Versions -> [at : {"draft", "final"}, src : Sources] \cup {NoRelease}]
    /\ pypi \in [Versions -> Sources \cup {NoSource}]
    /\ clone \in [Publishers -> [head : 1..Len(master), on : {"master", "branch"},
                                 dirty : BOOLEAN, branches : SUBSET Versions,
                                 tags : [Versions -> 0..Len(master)]]]
    /\ \A p \in Publishers : clone[p].dirty => clone[p].on = "master"
    /\ proc \in [Publishers -> [at : Stages \ {"idle"}, v : Versions, src : Sources] \cup {Idle}]
    /\ kills \in 0..MaxKills

Init ==
    /\ master = <<Older>>
    /\ branch = [v \in Versions |-> NoBranch] /\ tag = [v \in Versions |-> 0]
    /\ release = [v \in Versions |-> NoRelease] /\ pypi = [v \in Versions |-> NoSource]
    /\ clone = [p \in Publishers |-> [head |-> 1, on |-> "master", dirty |-> FALSE, branches |-> {},
                                      tags |-> [v \in Versions |-> 0]]]
    /\ proc = [p \in Publishers |-> Idle]
    /\ kills = 0

At(p, stage) == proc[p].at = stage
Carries(p) == [v |-> proc[p].v, src |-> proc[p].src]
Go(p, stage) == proc' = [proc EXCEPT ![p].at = stage]
Clean(p) == clone[p].on = "master" /\ ~clone[p].dirty
-----------------------------------------------------------------------------
(* --publish                                                               *)

\* pypi_release_files.
OnPypi(v) == pypi[v] # NoSource

\* Mutant: the tag is not asked for.
WrongPublicPreflight(p, v) ==
    Clean(p) /\ release[v] = NoRelease /\ ~OnPypi(v)

\* public_preflight.
PublicPreflight(p, v) ==
    Clean(p) /\ tag[v] = 0 /\ release[v] = NoRelease /\ ~OnPypi(v)

\* verify_bundle: the signed bundle is of the version and the source asked for.
BundleIs(b, v, src) == b.v = v /\ b.src = src

\* The files of the bundle and the metadata of the release are written into the clone.
StagedClone(p) == [clone EXCEPT ![p].dirty = TRUE]

\* publish, as far as stage_bundle, stage_codex_hooks, update_public_metadata and
\* prepare_package.
Publish(p) ==
    \E b \in Bundles, v \in Versions, src \in Sources :
        /\ At(p, "idle") /\ PublicPreflight(p, v) /\ BundleIs(b, v, src)
        /\ clone' = StagedClone(p)
        /\ proc' = [proc EXCEPT ![p] = [at |-> "staged", v |-> v, src |-> src]]
        /\ UNCHANGED <<remoteVars, kills>>

\* prepare_plugin_release_policy: only after all that is the clone compared with the remote.
AtPublishedMaster(p) == clone[p].head = Len(master)

\* commit_public: git switch -c, which refuses a branch that exists, add and commit.
FreshBranch(p) == proc[p].v \notin clone[p].branches

Commit(p) ==
    /\ At(p, "staged") /\ AtPublishedMaster(p) /\ FreshBranch(p)
    /\ clone' = [clone EXCEPT ![p].dirty = FALSE, ![p].on = "branch",
                              ![p].branches = @ \cup {proc[p].v}]
    /\ Go(p, "committed") /\ UNCHANGED <<remoteVars, kills>>

\* git push is rejected while the remote has another branch of that name; gh pr create.
PushAccepted(p) == branch[proc[p].v] = NoBranch
Push(p) ==
    /\ At(p, "committed") /\ PushAccepted(p)
    /\ branch' = [branch EXCEPT ![proc[p].v] = [base |-> clone[p].head, src |-> proc[p].src]]
    /\ Go(p, "pushed") /\ UNCHANGED <<master, tag, release, pypi, clone, kills>>

\* gh pr merge --squash is refused on a conflict: each release changes the same lines of
\* the manifest, version.txt and the plugin's bootstrap.  The branch stays.
Mergeable(p) ==
    LET own == branch[proc[p].v] IN own # NoBranch /\ master[Len(master)] = master[own.base]
Merge(p) ==
    /\ At(p, "pushed") /\ Mergeable(p) /\ Len(master) < MaxMaster
    /\ master' = Append(master, Carries(p))
    /\ Go(p, "merged") /\ UNCHANGED <<branch, tag, release, pypi, clone, kills>>

\* Mutant: the merged files are not compared.
WrongSameFiles(p) == TRUE

\* git diff --exit-code <release commit> <public commit>.
SameFiles(p) == master[Len(master)] = Carries(p)

\* git tag refuses a tag that the clone has.
FreshTag(p) == clone[p].tags[proc[p].v] = 0

\* fetch, switch and merge --ff-only move the clone; then the files are compared and
\* the tag is made.
Sync(p) ==
    /\ At(p, "merged")
    /\ LET moved == [clone EXCEPT ![p].on = "master", ![p].head = Len(master)]
       IN  \/ /\ SameFiles(p) /\ FreshTag(p)
              /\ clone' = [moved EXCEPT ![p].tags[proc[p].v] = Len(master)]
              /\ Go(p, "tagged")
           \/ /\ ~(SameFiles(p) /\ FreshTag(p))
              /\ clone' = moved /\ proc' = [proc EXCEPT ![p] = Idle]
    /\ UNCHANGED <<remoteVars, kills>>

\* git push origin refs/tags/<tag>.
TagAccepted(p) == tag[proc[p].v] \in {0, clone[p].head}
PushTag(p) ==
    /\ At(p, "tagged") /\ TagAccepted(p)
    /\ tag' = [tag EXCEPT ![proc[p].v] = clone[p].head]
    /\ Go(p, "visible") /\ UNCHANGED <<master, branch, release, pypi, clone, kills>>

\* create_public_release: gh makes a draft, uploads the assets and publishes it.
NotReleased(p) == release[proc[p].v] = NoRelease
Draft(p) ==
    /\ At(p, "visible") /\ NotReleased(p)
    /\ release' = [release EXCEPT ![proc[p].v] = [at |-> "draft", src |-> proc[p].src]]
    /\ Go(p, "drafted") /\ UNCHANGED <<master, branch, tag, pypi, clone, kills>>
Finish(p) ==
    /\ At(p, "drafted")
    /\ release' = [release EXCEPT ![proc[p].v].at = "final"]
    /\ Go(p, "released") /\ UNCHANGED <<master, branch, tag, pypi, clone, kills>>
-----------------------------------------------------------------------------
(* --resume                                                                *)

\* git fetch --tags brings what the clone has not.
FetchedTag(p, v) == IF clone[p].tags[v] = 0 THEN tag[v] ELSE clone[p].tags[v]

\* resume_public_preflight.  The clone may be behind master.
ResumeReady(p, b) ==
    /\ Clean(p) /\ tag[b.v] # 0 /\ FetchedTag(p, b.v) = tag[b.v]
    /\ master[clone[p].head] = b
    /\ release[b.v].at = "final"

\* Mutant: the wheel is taken to be there.
WrongResume(p) ==
    \E b \in Bundles :
        /\ At(p, "idle") /\ ResumeReady(p, b)
        /\ clone' = [clone EXCEPT ![p].tags[b.v] = FetchedTag(p, b.v)]
        /\ proc' = [proc EXCEPT ![p] = [at |-> "present", v |-> b.v, src |-> b.src]]
        /\ UNCHANGED <<remoteVars, kills>>

\* resume_publish.
Resume(p) ==
    \E b \in Bundles :
        /\ At(p, "idle") /\ ResumeReady(p, b)
        /\ clone' = [clone EXCEPT ![p].tags[b.v] = FetchedTag(p, b.v)]
        /\ proc' = [proc EXCEPT ![p] = [at |-> IF OnPypi(b.v) THEN "present" ELSE "resumed",
                                        v |-> b.v, src |-> b.src]]
        /\ UNCHANGED <<remoteVars, kills>>
-----------------------------------------------------------------------------
(* The end of both.                                                        *)

\* The wheel was built before anything was pushed, from the package that prepare_package
\* bound to the manifest of the clone's bundle.
WheelOf(p) == proc[p].src

\* The terminal smoke installs the release from GitHub that the clone's manifest names.
TerminalSmoke(p) == release[proc[p].v].at = "final" /\ master[clone[p].head].v = proc[p].v

\* twine upload is refused for a file that exists.
UploadAccepted(p) == TerminalSmoke(p) /\ ~OnPypi(proc[p].v)

Upload(p) ==
    /\ proc[p].at \in {"released", "resumed"} /\ UploadAccepted(p)
    /\ pypi' = [pypi EXCEPT ![proc[p].v] = WheelOf(p)]
    /\ Go(p, "uploaded") /\ UNCHANGED <<master, branch, tag, release, clone, kills>>

\* wait_for_pypi.
WheelVisible(p) == OnPypi(proc[p].v)

\* The launcher in the wheel on PyPI installs a release only if its manifest has the digest
\* that prepare_pypi_release.py wrote into the package.
Trusted(v) == pypi[v]
PackageSmoke(p) == TerminalSmoke(p) /\ release[proc[p].v].src = Trusted(proc[p].v)

\* post_release_smoke.py looks at the GitHub release alone: a draft is not found by its
\* tag, the assets belong to one bundle of this version, the binary reports that version.
Downloaded(v) ==
    IF release[v].at = "final" THEN {[v |-> v, src |-> release[v].src]} ELSE {}
PayloadIs(b, v) == b \in Bundles /\ b.v = v
ReleaseSmoke(p) == \E b \in Downloaded(proc[p].v) : PayloadIs(b, proc[p].v)

Verified(p) == WheelVisible(p) /\ PackageSmoke(p) /\ ReleaseSmoke(p)

Verify(p) ==
    /\ proc[p].at \in {"uploaded", "present"} /\ Verified(p)
    /\ proc' = [proc EXCEPT ![p] = Idle]
    /\ UNCHANGED <<remoteVars, clone, kills>>

\* run raises PublishError when a command fails.
Refused(p) ==
    \/ At(p, "staged") /\ ~(AtPublishedMaster(p) /\ FreshBranch(p))
    \/ At(p, "committed") /\ ~PushAccepted(p)
    \/ At(p, "pushed") /\ ~(Mergeable(p) /\ Len(master) < MaxMaster)
    \/ At(p, "tagged") /\ ~TagAccepted(p)
    \/ At(p, "visible") /\ ~NotReleased(p)
    \/ proc[p].at \in {"released", "resumed"} /\ ~UploadAccepted(p)
    \/ proc[p].at \in {"uploaded", "present"} /\ ~Verified(p)
Fail(p) ==
    /\ Refused(p)
    /\ proc' = [proc EXCEPT ![p] = Idle]
    /\ UNCHANGED <<remoteVars, clone, kills>>

\* A command times out, a test or a smoke fails, or the publisher is interrupted.
Kill(p) ==
    /\ ~At(p, "idle") /\ kills < MaxKills
    /\ proc' = [proc EXCEPT ![p] = Idle] /\ kills' = kills + 1
    /\ UNCHANGED <<remoteVars, clone>>
-----------------------------------------------------------------------------
(* The operators (docs/RELEASE_RUNBOOK.md).                                *)

\* "Start from an updated, clean public master".
Pull(p) ==
    /\ At(p, "idle") /\ Clean(p) /\ clone[p].head < Len(master)
    /\ clone' = [clone EXCEPT ![p].head = Len(master)]
    /\ UNCHANGED <<remoteVars, proc, kills>>

\* A clone that a publisher left is put back to its master.  A tag stays.
RepairClone(p) ==
    /\ At(p, "idle") /\ (~Clean(p) \/ clone[p].branches # {})
    /\ clone' = [clone EXCEPT ![p].on = "master", ![p].dirty = FALSE, ![p].branches = {}]
    /\ UNCHANGED <<remoteVars, proc, kills>>

\* The branch of a publication that nobody goes on with is deleted.
DropBranch(v) ==
    /\ branch[v] # NoBranch /\ \A p \in Publishers : proc[p].v # v
    /\ branch' = [branch EXCEPT ![v] = NoBranch]
    /\ UNCHANGED <<master, tag, release, pypi, clone, proc, kills>>
-----------------------------------------------------------------------------
Step(p) ==
    \/ Commit(p) \/ Push(p) \/ Merge(p) \/ Sync(p) \/ PushTag(p)
    \/ Draft(p) \/ Finish(p) \/ Upload(p) \/ Verify(p) \/ Fail(p)

Next ==
    \/ \E p \in Publishers : \/ Publish(p) \/ Resume(p) \/ Step(p) \/ Kill(p)
                             \/ Pull(p) \/ RepairClone(p)
    \/ \E v \in Versions : DropBranch(v)

Spec == Init /\ [][Next]_vars

\* A process goes on until it fails, and the operator resumes what can be resumed.
FairSpec == Spec /\ \A p \in Publishers : WF_vars(Step(p)) /\ SF_vars(Resume(p))
-----------------------------------------------------------------------------
\* A tag names a commit that carries its version, whatever was merged between the
\* publisher's pull request and its fetch (the comparison of the merged files in
\* commit_public), and the GitHub release is of the source that this commit names.
TagCarriesItsRelease ==
    \A v \in Versions :
        /\ tag[v] # 0 => master[tag[v]].v = v
        /\ release[v] # NoRelease => tag[v] # 0 /\ master[tag[v]].src = release[v].src

\* Once the tag of a version is public, nobody merges that version again, even if it
\* has passed its preflight before (public_preflight, prepare_plugin_release_policy).
TaggedVersionIsClosed ==
    [][Len(master') > Len(master) => tag[master'[Len(master')].v] = 0]_vars

\* A final release gets its wheel while a clone is left at its commit: --resume is
\* enough (docs/RELEASE_RUNBOOK.md, step 6).
FinalIsFinished ==
    \A b \in Bundles :
        release[b.v] = [at |-> "final", src |-> b.src]
            ~> \/ pypi[b.v] # NoSource
               \/ \A p \in Publishers : ~ResumeReady(p, b)

\* "--resume requires the matching existing tag, final release and exact Runtime asset
\* set" (docs/RELEASE_RUNBOOK.md): the wheel it uploads is of the source of the release.
WheelMatchesRelease ==
    \A v \in Versions : pypi[v] # NoSource => pypi[v] = release[v].src
=============================================================================
