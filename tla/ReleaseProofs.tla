---------------------------- MODULE ReleaseProofs ----------------------------
(***************************************************************************)
(* What holds of the public release for any number of publishers, bundles, *)
(* merges and deaths: tag, release and master agree, and a version whose   *)
(* tag is public is not merged again.  The remote branch of a version is   *)
(* the lock that both rest on: who has pushed it and not failed since is   *)
(* alone with that version.                                                *)
(*                                                                         *)
(* And what holds of the installation of the Runtime on a user's machine,  *)
(* for any number of application processes: the build that was in use is   *)
(* never lost, and an interrupted install is not forgotten.                *)
(***************************************************************************)
EXTENDS Release, RuntimeInstall, TLAPS

\* What a publisher does is about a bundle that was built.
OfBundle == \A p \in Publishers : At(p, "idle") \/ Carries(p) \in Bundles

\* From the push of its branch to the push of its tag a publisher owns its version.
Owns(p) == proc[p].at \in {"pushed", "merged", "tagged"}

\* The branch of a version is the lock on it.
BranchIsLock ==
    /\ \A p \in Publishers : Owns(p) => branch[proc[p].v] # NoBranch
    /\ \A p, q \in Publishers : Owns(p) /\ Owns(q) /\ proc[p].v = proc[q].v => p = q

\* Who is about to push, or to merge, a version that was tagged since its preflight finds
\* the branch taken, and is not past the push.
LateIsLockedOut ==
    \A p \in Publishers :
        /\ proc[p].at \in {"staged", "committed"} /\ tag[proc[p].v] # 0 =>
              branch[proc[p].v] # NoBranch
        /\ At(p, "pushed") => tag[proc[p].v] = 0

\* The clone of a publisher that has made its tag stays at the commit that carries its
\* release, which is the one the public tag names as soon as there is one.
TagIsHead ==
    \A p \in Publishers :
        /\ proc[p].at \in {"tagged", "visible", "drafted"} => master[clone[p].head] = Carries(p)
        /\ proc[p].at \in {"visible", "drafted"} => tag[proc[p].v] = clone[p].head
        /\ At(p, "drafted") => release[proc[p].v] # NoRelease

ReleaseInv ==
    /\ TypeOK /\ OfBundle
    /\ BranchIsLock /\ LateIsLockedOut
    /\ TagIsHead /\ TagCarriesItsRelease
-----------------------------------------------------------------------------
LEMMA BundleFacts ==
  ASSUME NEW b \in Bundles
  PROVE  /\ b = [v |-> b.v, src |-> b.src] /\ b \in Carried
         /\ b.v \in Versions /\ b.v \in Nat \ {0}
         /\ b.src \in Sources /\ b.src # NoSource
  BY ReleaseAssumption DEF Carried, Versions, Sources

LEMMA VersionFacts ==
  /\ \A v \in Versions : v \in Nat \ {0}
  /\ \A src \in Sources : src # NoSource
  /\ MaxMaster \in Nat \ {0} /\ MaxKills \in Nat
  BY ReleaseAssumption DEF Versions, Sources

LEMMA ReleaseInitInv == Init => ReleaseInv
<1> SUFFICES ASSUME Init PROVE ReleaseInv
  OBVIOUS
<1>1. TypeOK BY VersionFacts DEF Init, TypeOK, Carried, Older, Idle
<1>2. OfBundle BY DEF Init, OfBundle, At, Idle
<1>3. BranchIsLock BY DEF Init, BranchIsLock, Owns, Idle
<1>4. LateIsLockedOut BY DEF Init, LateIsLockedOut, At, Idle
<1>5. TagIsHead BY DEF Init, TagIsHead, At, Idle
<1>6. TagCarriesItsRelease BY DEF Init, TagCarriesItsRelease
<1> QED BY <1>1, <1>2, <1>3, <1>4, <1>5, <1>6 DEF ReleaseInv

\* A publisher that is not idle is at work on a version that exists.
LEMMA AtWork ==
  ASSUME TypeOK, OfBundle, NEW p \in Publishers, proc[p].at # "idle"
  PROVE  /\ proc[p] = [at |-> proc[p].at, v |-> proc[p].v, src |-> proc[p].src]
         /\ proc[p].at \in Stages \ {"idle"}
         /\ proc[p].v \in Versions /\ proc[p].src \in Sources
         /\ Carries(p) \in Bundles /\ Carries(p) \in Carried
         /\ Carries(p).v = proc[p].v /\ Carries(p).src = proc[p].src
<1>1. proc[p] # Idle BY DEF Idle
<1>2. proc[p] \in [at : Stages \ {"idle"}, v : Versions, src : Sources] BY <1>1 DEF TypeOK
<1>3. Carries(p) \in Bundles BY DEF OfBundle, At
<1> QED BY <1>2, <1>3 DEF Carries, Carried

\* The end of a publisher, whether it has finished, failed or died, leaves everything
\* else as it is.
LEMMA EndStep ==
  ASSUME ReleaseInv, NEW p \in Publishers,
         proc' = [proc EXCEPT ![p] = Idle],
         UNCHANGED <<remoteVars, clone>>, kills' \in 0..MaxKills
  PROVE  ReleaseInv'
<1>0. /\ \A q \in Publishers : q # p => proc'[q] = proc[q]
      /\ proc'[p] = Idle /\ Idle.at = "idle"
      /\ proc' \in [Publishers -> [at : Stages \ {"idle"}, v : Versions, src : Sources] \cup {Idle}]
  BY DEF ReleaseInv, TypeOK, Idle
<1>1. TypeOK' BY <1>0 DEF ReleaseInv, TypeOK, remoteVars
<1>2. OfBundle' BY <1>0 DEF ReleaseInv, OfBundle, At, Carries
<1>3. BranchIsLock' BY <1>0 DEF ReleaseInv, BranchIsLock, Owns, remoteVars
<1>4. LateIsLockedOut' BY <1>0 DEF ReleaseInv, LateIsLockedOut, At, remoteVars
<1>5. TagIsHead' BY <1>0 DEF ReleaseInv, TagIsHead, At, Carries, remoteVars
<1>6. TagCarriesItsRelease' BY DEF ReleaseInv, TagCarriesItsRelease, remoteVars
<1> QED BY <1>1, <1>2, <1>3, <1>4, <1>5, <1>6 DEF ReleaseInv

\* What a clone is; its commits are those of master.
Clones == [head : 1..Len(master), on : {"master", "branch"}, dirty : BOOLEAN,
           branches : SUBSET Versions, tags : [Versions -> 0..Len(master)]]

\* One clone changes, to c.
LEMMA CloneStep ==
  ASSUME TypeOK, NEW p \in Publishers, NEW c \in Clones, c.dirty => c.on = "master",
         clone' = [clone EXCEPT ![p] = c]
  PROVE  /\ clone' \in [Publishers -> Clones]
         /\ clone'[p] = c /\ \A q \in Publishers : q # p => clone'[q] = clone[q]
         /\ \A q \in Publishers : clone'[q].dirty => clone'[q].on = "master"
<1>1. clone \in [Publishers -> Clones] BY DEF TypeOK, Clones
<1>2. /\ clone' \in [Publishers -> Clones]
      /\ clone'[p] = c /\ \A q \in Publishers : q # p => clone'[q] = clone[q]
  BY <1>1
<1>3. \A q \in Publishers : clone[q].dirty => clone[q].on = "master" BY DEF TypeOK
<1> QED BY <1>2, <1>3

LEMMA PublishStep == ASSUME ReleaseInv, NEW p \in Publishers, Publish(p) PROVE ReleaseInv'
<1>1. PICK b \in Bundles, v \in Versions, src \in Sources :
        /\ At(p, "idle") /\ PublicPreflight(p, v) /\ BundleIs(b, v, src)
        /\ clone' = StagedClone(p)
        /\ proc' = [proc EXCEPT ![p] = [at |-> "staged", v |-> v, src |-> src]]
        /\ UNCHANGED <<remoteVars, kills>>
  BY DEF Publish
<1>2. /\ \A q \in Publishers : q # p => proc'[q] = proc[q]
      /\ proc'[p] = [at |-> "staged", v |-> v, src |-> src]
      /\ [v |-> v, src |-> src] \in Bundles
  BY <1>1, BundleFacts DEF ReleaseInv, TypeOK, BundleIs
<1>3. /\ \A q \in Publishers : clone'[q].head = clone[q].head
      /\ clone' \in [Publishers -> Clones]
      /\ \A q \in Publishers : clone'[q].dirty => clone'[q].on = "master"
  <2> DEFINE c == [clone[p] EXCEPT !.dirty = TRUE]
  <2>1. clone[p] \in Clones BY DEF ReleaseInv, TypeOK, Clones
  <2>2. clone[p].on = "master" BY <1>1 DEF PublicPreflight, Clean
  <2>3. c \in Clones /\ c.head = clone[p].head /\ c.on = "master" BY <2>1, <2>2 DEF Clones
  <2>4. clone' = [clone EXCEPT ![p] = c] BY <1>1 DEF StagedClone
  <2> HIDE DEF c
  <2> QED BY <2>3, <2>4, CloneStep DEF ReleaseInv
<1>4. TypeOK'
  <2>1. proc' \in [Publishers -> [at : Stages \ {"idle"}, v : Versions, src : Sources] \cup {Idle}]
    BY <1>1 DEF ReleaseInv, TypeOK, Stages
  <2> QED BY <1>1, <1>3, <2>1 DEF ReleaseInv, TypeOK, remoteVars, Clones
<1>5. OfBundle' BY <1>2 DEF ReleaseInv, OfBundle, At, Carries
<1>6. BranchIsLock' BY <1>1, <1>2 DEF ReleaseInv, BranchIsLock, Owns, remoteVars
<1>7. LateIsLockedOut' BY <1>1, <1>2 DEF ReleaseInv, LateIsLockedOut, At, remoteVars, PublicPreflight
<1>8. TagIsHead' BY <1>1, <1>2, <1>3 DEF ReleaseInv, TagIsHead, At, Carries, remoteVars
<1>9. TagCarriesItsRelease' BY <1>1 DEF ReleaseInv, TagCarriesItsRelease, remoteVars
<1> QED BY <1>4, <1>5, <1>6, <1>7, <1>8, <1>9 DEF ReleaseInv

\* A publisher has gone on to another stage with the same release.
MovedOn(p, stage) ==
    /\ \A q \in Publishers : q # p => proc'[q] = proc[q]
    /\ proc'[p].at = stage
    /\ \A q \in Publishers : proc'[q].v = proc[q].v /\ Carries(q)' = Carries(q)
    /\ proc' \in [Publishers -> [at : Stages \ {"idle"}, v : Versions, src : Sources] \cup {Idle}]
    /\ OfBundle'

LEMMA GoFacts ==
  ASSUME ReleaseInv, NEW p \in Publishers, proc[p].at # "idle",
         NEW stage \in Stages \ {"idle"}, Go(p, stage)
  PROVE  MovedOn(p, stage)
<1>1. proc[p] = [at |-> proc[p].at, v |-> proc[p].v, src |-> proc[p].src]
      /\ proc[p].v \in Versions /\ proc[p].src \in Sources
      /\ Carries(p) \in Bundles
  BY AtWork DEF ReleaseInv
<1>2. proc'[p] = [at |-> stage, v |-> proc[p].v, src |-> proc[p].src]
  BY <1>1 DEF Go, ReleaseInv, TypeOK
<1>3. \A q \in Publishers : q # p => proc'[q] = proc[q] BY DEF Go, ReleaseInv, TypeOK
<1>4. proc' \in [Publishers -> [at : Stages \ {"idle"}, v : Versions, src : Sources] \cup {Idle}]
  BY <1>1, <1>2 DEF Go, ReleaseInv, TypeOK
<1>5. \A q \in Publishers : Carries(q)' = Carries(q) BY <1>2, <1>3 DEF Carries
<1>6. OfBundle' BY <1>1, <1>2, <1>3, <1>5 DEF ReleaseInv, OfBundle, At
<1> QED BY <1>2, <1>3, <1>4, <1>5, <1>6 DEF MovedOn

\* A step of one publisher that leaves the remote alone and no clone's commit.
LEMMA CommitStep == ASSUME ReleaseInv, NEW p \in Publishers, Commit(p) PROVE ReleaseInv'
<1>1. /\ At(p, "staged") /\ Go(p, "committed") /\ UNCHANGED <<remoteVars, kills>>
      /\ clone' = [clone EXCEPT ![p].dirty = FALSE, ![p].on = "branch",
                                ![p].branches = @ \cup {proc[p].v}]
  BY DEF Commit
<1>2. MovedOn(p, "committed") BY <1>1, GoFacts DEF At, Stages
<1>3. /\ \A q \in Publishers : clone'[q].head = clone[q].head
      /\ clone' \in [Publishers -> Clones]
      /\ \A q \in Publishers : clone'[q].dirty => clone'[q].on = "master"
  <2> DEFINE c == [clone[p] EXCEPT !.dirty = FALSE, !.on = "branch",
                                   !.branches = @ \cup {proc[p].v}]
  <2>1. clone[p] \in Clones BY DEF ReleaseInv, TypeOK, Clones
  <2>2. proc[p].v \in Versions BY <1>1, AtWork DEF ReleaseInv, At
  <2>3. c \in Clones /\ c.head = clone[p].head /\ ~c.dirty BY <2>1, <2>2 DEF Clones
  <2>4. clone' = [clone EXCEPT ![p] = c] BY <1>1
  <2> HIDE DEF c
  <2> QED BY <2>3, <2>4, CloneStep DEF ReleaseInv
<1>4. TypeOK' BY <1>1, <1>2, <1>3 DEF ReleaseInv, TypeOK, remoteVars, Clones, MovedOn
<1>5. BranchIsLock' BY <1>1, <1>2 DEF ReleaseInv, BranchIsLock, Owns, remoteVars, MovedOn
<1>6. LateIsLockedOut' BY <1>1, <1>2 DEF ReleaseInv, LateIsLockedOut, At, remoteVars, MovedOn
<1>7. TagIsHead' BY <1>1, <1>2, <1>3 DEF ReleaseInv, TagIsHead, At, remoteVars, MovedOn
<1>8. TagCarriesItsRelease' BY <1>1 DEF ReleaseInv, TagCarriesItsRelease, remoteVars
<1> QED BY <1>2, <1>4, <1>5, <1>6, <1>7, <1>8 DEF ReleaseInv, MovedOn

\* The push takes the lock: the branch was free, so nobody owned the version and, by
\* LateIsLockedOut, no tag of it was public.
LEMMA PushStep == ASSUME ReleaseInv, NEW p \in Publishers, Push(p) PROVE ReleaseInv'
<1>1. /\ At(p, "committed") /\ PushAccepted(p) /\ Go(p, "pushed")
      /\ branch' = [branch EXCEPT ![proc[p].v] = [base |-> clone[p].head, src |-> proc[p].src]]
      /\ UNCHANGED <<master, tag, release, pypi, clone, kills>>
  BY DEF Push
<1>2. MovedOn(p, "pushed") BY <1>1, GoFacts DEF At, Stages
<1>3. proc[p].v \in Versions /\ proc[p].src \in Sources BY <1>1, AtWork DEF ReleaseInv, At
<1>4. clone[p].head \in 1..MaxMaster BY VersionFacts DEF ReleaseInv, TypeOK
<1>5. /\ branch' \in [Versions -> [base : 1..MaxMaster, src : Sources] \cup {NoBranch}]
      /\ branch'[proc[p].v] # NoBranch
      /\ \A v \in Versions : branch[v] # NoBranch => branch'[v] # NoBranch
  <2>1. [base |-> clone[p].head, src |-> proc[p].src] # NoBranch BY <1>4 DEF NoBranch
  <2> QED BY <1>1, <1>3, <1>4, <2>1 DEF ReleaseInv, TypeOK
<1>6. TypeOK' BY <1>1, <1>2, <1>5 DEF ReleaseInv, TypeOK, MovedOn
<1>7. BranchIsLock'
  <2>1. \A q \in Publishers : Owns(q) => proc[q].v # proc[p].v
    BY <1>1 DEF ReleaseInv, BranchIsLock, PushAccepted
  <2>2. \A q \in Publishers : Owns(q) => proc[q].v \in Versions
    BY AtWork DEF ReleaseInv, Owns
  <2>3. \A q \in Publishers : q # p => (Owns(q)' <=> Owns(q)) BY <1>2 DEF Owns, MovedOn
  <2> QED BY <1>1, <1>2, <1>5, <2>1, <2>2, <2>3 DEF ReleaseInv, BranchIsLock, MovedOn
<1>8. LateIsLockedOut'
  <2>1. tag[proc[p].v] = 0 BY <1>1 DEF ReleaseInv, LateIsLockedOut, At, PushAccepted
  <2>2. \A q \in Publishers : proc[q].at \in {"staged", "committed"} => proc[q].v \in Versions
    BY AtWork DEF ReleaseInv
  <2> QED BY <1>1, <1>2, <1>5, <2>1, <2>2 DEF ReleaseInv, LateIsLockedOut, At, MovedOn
<1>9. TagIsHead' BY <1>1, <1>2 DEF ReleaseInv, TagIsHead, At, MovedOn
<1>10. TagCarriesItsRelease' BY <1>1 DEF ReleaseInv, TagCarriesItsRelease
<1> QED BY <1>2, <1>6, <1>7, <1>8, <1>9, <1>10 DEF ReleaseInv, MovedOn

\* A merge adds a commit: what the tags and the clones name is as it was.
LEMMA MergeStep == ASSUME ReleaseInv, NEW p \in Publishers, Merge(p) PROVE ReleaseInv'
<1>1. /\ At(p, "pushed") /\ Len(master) < MaxMaster /\ Go(p, "merged")
      /\ master' = Append(master, Carries(p))
      /\ UNCHANGED <<branch, tag, release, pypi, clone, kills>>
  BY DEF Merge
<1>2. MovedOn(p, "merged") BY <1>1, GoFacts DEF At, Stages
<1>3. Carries(p) \in Carried BY <1>1, AtWork DEF ReleaseInv, At
<1>4. /\ master' \in Seq(Carried) /\ Len(master') = Len(master) + 1
      /\ Len(master) \in Nat \ {0} /\ Len(master') \in 1..MaxMaster
      /\ \A i \in 1..Len(master) : master'[i] = master[i]
  BY <1>1, <1>3, VersionFacts DEF ReleaseInv, TypeOK
<1>5. TypeOK'
  <2>1. tag' \in [Versions -> 0..Len(master')] BY <1>1, <1>4 DEF ReleaseInv, TypeOK
  <2>2. clone' \in [Publishers -> [head : 1..Len(master'), on : {"master", "branch"},
                                   dirty : BOOLEAN, branches : SUBSET Versions,
                                   tags : [Versions -> 0..Len(master')]]]
    <3>1. 1..Len(master) \subseteq 1..Len(master') /\ 0..Len(master) \subseteq 0..Len(master')
      BY <1>4
    <3> QED BY <1>1, <3>1 DEF ReleaseInv, TypeOK
  <2> QED BY <1>1, <1>2, <1>4, <2>1, <2>2 DEF ReleaseInv, TypeOK, MovedOn
<1>6. BranchIsLock' BY <1>1, <1>2 DEF ReleaseInv, BranchIsLock, Owns, At, MovedOn
<1>7. LateIsLockedOut' BY <1>1, <1>2 DEF ReleaseInv, LateIsLockedOut, At, MovedOn
<1>8. TagIsHead'
  <2>1. \A q \in Publishers : clone[q].head \in 1..Len(master) BY DEF ReleaseInv, TypeOK
  <2> QED BY <1>1, <1>2, <1>4, <2>1 DEF ReleaseInv, TagIsHead, At, MovedOn
<1>9. TagCarriesItsRelease'
  <2>1. \A v \in Versions : tag[v] # 0 => tag[v] \in 1..Len(master)
    BY <1>4 DEF ReleaseInv, TypeOK
  <2> QED BY <1>1, <1>4, <2>1 DEF ReleaseInv, TagCarriesItsRelease
<1> QED BY <1>2, <1>5, <1>6, <1>7, <1>8, <1>9 DEF ReleaseInv, MovedOn

\* The fetch moves the clone of a publisher whose tag is not made yet; if the merged
\* files are its own, the tag it makes is the head it has now.
LEMMA SyncStep == ASSUME ReleaseInv, NEW p \in Publishers, Sync(p) PROVE ReleaseInv'
<1> DEFINE moved == [clone[p] EXCEPT !.on = "master", !.head = Len(master)]
<1>1. /\ At(p, "merged") /\ UNCHANGED <<remoteVars, kills>>
      /\ \/ /\ SameFiles(p) /\ Go(p, "tagged")
            /\ clone' = [clone EXCEPT ![p] = [moved EXCEPT !.tags[proc[p].v] = Len(master)]]
         \/ /\ proc' = [proc EXCEPT ![p] = Idle]
            /\ clone' = [clone EXCEPT ![p] = moved]
  BY DEF Sync
<1>2. proc[p].v \in Versions BY <1>1, AtWork DEF ReleaseInv, At
<1>3. moved \in Clones /\ moved.on = "master" /\ moved.head = Len(master)
  <2>1. clone[p] \in Clones /\ Len(master) \in 1..Len(master) BY DEF ReleaseInv, TypeOK, Clones
  <2> QED BY <2>1 DEF Clones
<1> HIDE DEF moved
<1>4. CASE /\ SameFiles(p) /\ Go(p, "tagged")
           /\ clone' = [clone EXCEPT ![p] = [moved EXCEPT !.tags[proc[p].v] = Len(master)]]
  <2> DEFINE c == [moved EXCEPT !.tags[proc[p].v] = Len(master)]
  <2>1. c \in Clones /\ c.on = "master" /\ c.head = Len(master)
    <3>1. Len(master) \in 0..Len(master) BY DEF ReleaseInv, TypeOK
    <3>2. c = [moved EXCEPT !.tags = [moved.tags EXCEPT ![proc[p].v] = Len(master)]] OBVIOUS
    <3>3. [moved.tags EXCEPT ![proc[p].v] = Len(master)] \in [Versions -> 0..Len(master)]
      BY <1>2, <1>3, <3>1 DEF Clones
    <3> HIDE DEF c
    <3> QED BY <1>3, <3>2, <3>3 DEF Clones
  <2>2. clone' = [clone EXCEPT ![p] = c] BY <1>4
  <2> HIDE DEF c
  <2>3. /\ clone' \in [Publishers -> Clones]
        /\ clone'[p].head = Len(master) /\ \A q \in Publishers : q # p => clone'[q] = clone[q]
        /\ \A q \in Publishers : clone'[q].dirty => clone'[q].on = "master"
    BY <2>1, <2>2, CloneStep DEF ReleaseInv
  <2>4. MovedOn(p, "tagged") BY <1>1, <1>4, GoFacts DEF At, Stages
  <2>5. TypeOK' BY <1>1, <2>3, <2>4 DEF ReleaseInv, TypeOK, remoteVars, Clones, MovedOn
  <2>6. BranchIsLock' BY <1>1, <2>4 DEF ReleaseInv, BranchIsLock, Owns, At, remoteVars, MovedOn
  <2>7. LateIsLockedOut' BY <1>1, <2>4 DEF ReleaseInv, LateIsLockedOut, At, remoteVars, MovedOn
  <2>8. TagIsHead' BY <1>1, <1>4, <2>3, <2>4 DEF ReleaseInv, TagIsHead, At, SameFiles, remoteVars, MovedOn
  <2>9. TagCarriesItsRelease' BY <1>1 DEF ReleaseInv, TagCarriesItsRelease, remoteVars
  <2> QED BY <2>4, <2>5, <2>6, <2>7, <2>8, <2>9 DEF ReleaseInv, MovedOn
<1>5. CASE /\ proc' = [proc EXCEPT ![p] = Idle]
           /\ clone' = [clone EXCEPT ![p] = moved]
  <2>1. /\ clone' \in [Publishers -> Clones]
        /\ \A q \in Publishers : q # p => clone'[q] = clone[q]
        /\ \A q \in Publishers : clone'[q].dirty => clone'[q].on = "master"
    BY <1>3, <1>5, CloneStep DEF ReleaseInv
  <2>2. /\ \A q \in Publishers : q # p => proc'[q] = proc[q]
        /\ proc'[p] = Idle /\ Idle.at = "idle"
        /\ proc' \in [Publishers -> [at : Stages \ {"idle"}, v : Versions, src : Sources] \cup {Idle}]
    BY <1>5 DEF ReleaseInv, TypeOK, Idle
  <2>3. TypeOK' BY <1>1, <2>1, <2>2 DEF ReleaseInv, TypeOK, remoteVars, Clones
  <2>4. OfBundle' BY <2>2 DEF ReleaseInv, OfBundle, At, Carries
  <2>5. BranchIsLock' BY <1>1, <2>2 DEF ReleaseInv, BranchIsLock, Owns, remoteVars
  <2>6. LateIsLockedOut' BY <1>1, <2>2 DEF ReleaseInv, LateIsLockedOut, At, remoteVars
  <2>7. TagIsHead' BY <1>1, <2>1, <2>2 DEF ReleaseInv, TagIsHead, At, Carries, remoteVars
  <2>8. TagCarriesItsRelease' BY <1>1 DEF ReleaseInv, TagCarriesItsRelease, remoteVars
  <2> QED BY <2>3, <2>4, <2>5, <2>6, <2>7, <2>8 DEF ReleaseInv
<1> QED BY <1>1, <1>4, <1>5

\* The tag is pushed by the owner of its version: who else is at work on that version has
\* not got past its branch, or has the same tag already.
LEMMA PushTagStep == ASSUME ReleaseInv, NEW p \in Publishers, PushTag(p) PROVE ReleaseInv'
<1>1. /\ At(p, "tagged") /\ TagAccepted(p) /\ Go(p, "visible")
      /\ tag' = [tag EXCEPT ![proc[p].v] = clone[p].head]
      /\ UNCHANGED <<master, branch, release, pypi, clone, kills>>
  BY DEF PushTag
<1>2. MovedOn(p, "visible") BY <1>1, GoFacts DEF At, Stages
<1>3. proc[p].v \in Versions /\ Carries(p).v = proc[p].v BY <1>1, AtWork DEF ReleaseInv, At
<1>4. Len(master) \in Nat \ {0} /\ clone[p].head \in 1..Len(master) BY DEF ReleaseInv, TypeOK
<1>5. /\ tag' \in [Versions -> 0..Len(master)] /\ tag'[proc[p].v] = clone[p].head
      /\ \A v \in Versions : v # proc[p].v => tag'[v] = tag[v]
      /\ \A v \in Versions : tag[v] # 0 => tag'[v] = tag[v]
  BY <1>1, <1>3, <1>4 DEF ReleaseInv, TypeOK, TagAccepted
<1>6. TypeOK' BY <1>1, <1>2, <1>5 DEF ReleaseInv, TypeOK, MovedOn
<1>7. BranchIsLock' BY <1>1, <1>2 DEF ReleaseInv, BranchIsLock, Owns, At, MovedOn
<1>8. LateIsLockedOut'
  <2>1. branch[proc[p].v] # NoBranch BY <1>1 DEF ReleaseInv, BranchIsLock, Owns, At
  <2>2. \A q \in Publishers : At(q, "pushed") => proc[q].v # proc[p].v
    BY <1>1 DEF ReleaseInv, BranchIsLock, Owns, At
  <2>3. \A q \in Publishers : proc[q].at \in {"staged", "committed", "pushed"} => proc[q].v \in Versions
    BY AtWork DEF ReleaseInv
  <2> QED BY <1>1, <1>2, <1>5, <2>1, <2>2, <2>3 DEF ReleaseInv, LateIsLockedOut, At, MovedOn
<1>9. TagIsHead'
  <2>1. \A q \in Publishers : proc[q].at \in {"visible", "drafted"} =>
          proc[q].v \in Versions /\ clone[q].head \in 1..Len(master)
    BY AtWork DEF ReleaseInv, TypeOK
  <2> QED BY <1>1, <1>2, <1>4, <1>5, <2>1 DEF ReleaseInv, TagIsHead, At, MovedOn
<1>10. TagCarriesItsRelease'
  <2>1. master[clone[p].head] = Carries(p) BY <1>1 DEF ReleaseInv, TagIsHead, At
  <2> QED BY <1>1, <1>3, <1>4, <1>5, <2>1 DEF ReleaseInv, TagCarriesItsRelease
<1> QED BY <1>2, <1>6, <1>7, <1>8, <1>9, <1>10 DEF ReleaseInv, MovedOn

LEMMA DraftStep == ASSUME ReleaseInv, NEW p \in Publishers, Draft(p) PROVE ReleaseInv'
<1>1. /\ At(p, "visible") /\ Go(p, "drafted")
      /\ release' = [release EXCEPT ![proc[p].v] = [at |-> "draft", src |-> proc[p].src]]
      /\ UNCHANGED <<master, branch, tag, pypi, clone, kills>>
  BY DEF Draft
<1>2. MovedOn(p, "drafted") BY <1>1, GoFacts DEF At, Stages
<1>3. proc[p].v \in Versions /\ proc[p].src \in Sources /\ Carries(p).src = proc[p].src
  BY <1>1, AtWork DEF ReleaseInv, At
<1>4. /\ release'[proc[p].v] = [at |-> "draft", src |-> proc[p].src]
      /\ release'[proc[p].v].src = proc[p].src /\ release'[proc[p].v] # NoRelease
      /\ \A v \in Versions : v # proc[p].v => release'[v] = release[v]
      /\ release' \in [Versions -> [at : {"draft", "final"}, src : Sources] \cup {NoRelease}]
  BY <1>1, <1>3 DEF ReleaseInv, TypeOK, NoRelease
<1>5. TypeOK' BY <1>1, <1>2, <1>4 DEF ReleaseInv, TypeOK, MovedOn
<1>6. BranchIsLock' BY <1>1, <1>2 DEF ReleaseInv, BranchIsLock, Owns, At, MovedOn
<1>7. LateIsLockedOut' BY <1>1, <1>2 DEF ReleaseInv, LateIsLockedOut, At, MovedOn
<1>8. TagIsHead'
  <2>1. \A q \in Publishers : At(q, "drafted") => proc[q].v \in Versions
    BY AtWork DEF ReleaseInv, At
  <2> QED BY <1>1, <1>2, <1>4, <2>1 DEF ReleaseInv, TagIsHead, At, MovedOn
<1>9. TagCarriesItsRelease'
  <2>1. tag[proc[p].v] = clone[p].head /\ master[clone[p].head] = Carries(p)
    BY <1>1 DEF ReleaseInv, TagIsHead, At
  <2>2. clone[p].head # 0 BY DEF ReleaseInv, TypeOK
  <2> QED BY <1>1, <1>3, <1>4, <2>1, <2>2 DEF ReleaseInv, TagCarriesItsRelease
<1> QED BY <1>2, <1>5, <1>6, <1>7, <1>8, <1>9 DEF ReleaseInv, MovedOn

LEMMA FinishStep == ASSUME ReleaseInv, NEW p \in Publishers, Finish(p) PROVE ReleaseInv'
<1>1. /\ At(p, "drafted") /\ Go(p, "released")
      /\ release' = [release EXCEPT ![proc[p].v].at = "final"]
      /\ UNCHANGED <<master, branch, tag, pypi, clone, kills>>
  BY DEF Finish
<1>2. MovedOn(p, "released") BY <1>1, GoFacts DEF At, Stages
<1>3. proc[p].v \in Versions /\ release[proc[p].v] # NoRelease
  BY <1>1, AtWork DEF ReleaseInv, At, TagIsHead
<1>4. /\ \A v \in Versions : v # proc[p].v => release'[v] = release[v]
      /\ release'[proc[p].v].src = release[proc[p].v].src /\ release'[proc[p].v] # NoRelease
      /\ release' \in [Versions -> [at : {"draft", "final"}, src : Sources] \cup {NoRelease}]
  <2>1. release[proc[p].v] \in [at : {"draft", "final"}, src : Sources]
    BY <1>3 DEF ReleaseInv, TypeOK
  <2> DEFINE r == [release[proc[p].v] EXCEPT !.at = "final"]
  <2>2. r \in [at : {"draft", "final"}, src : Sources] /\ r.src = release[proc[p].v].src
        /\ r.at = "final"
    BY <2>1
  <2>3. release' = [release EXCEPT ![proc[p].v] = r] BY <1>1
  <2> HIDE DEF r
  <2> QED BY <1>3, <2>2, <2>3 DEF ReleaseInv, TypeOK, NoRelease
<1>5. TypeOK' BY <1>1, <1>2, <1>4 DEF ReleaseInv, TypeOK, MovedOn
<1>6. BranchIsLock' BY <1>1, <1>2 DEF ReleaseInv, BranchIsLock, Owns, At, MovedOn
<1>7. LateIsLockedOut' BY <1>1, <1>2 DEF ReleaseInv, LateIsLockedOut, At, MovedOn
<1>8. TagIsHead'
  <2>1. \A q \in Publishers : At(q, "drafted") => proc[q].v \in Versions
    BY AtWork DEF ReleaseInv, At
  <2> QED BY <1>1, <1>2, <1>4, <2>1 DEF ReleaseInv, TagIsHead, At, MovedOn
<1>9. TagCarriesItsRelease' BY <1>1, <1>3, <1>4 DEF ReleaseInv, TagCarriesItsRelease
<1> QED BY <1>2, <1>5, <1>6, <1>7, <1>8, <1>9 DEF ReleaseInv, MovedOn

LEMMA ResumeStep == ASSUME ReleaseInv, NEW p \in Publishers, Resume(p) PROVE ReleaseInv'
<1>1. PICK b \in Bundles :
        /\ At(p, "idle") /\ ResumeReady(p, b)
        /\ clone' = [clone EXCEPT ![p].tags[b.v] = FetchedTag(p, b.v)]
        /\ proc' = [proc EXCEPT ![p] = [at |-> IF OnPypi(b.v) THEN "present" ELSE "resumed",
                                        v |-> b.v, src |-> b.src]]
        /\ UNCHANGED <<remoteVars, kills>>
  BY DEF Resume
<1>2. /\ b.v \in Versions /\ b.src \in Sources /\ [v |-> b.v, src |-> b.src] \in Bundles
  BY BundleFacts
<1>3. /\ \A q \in Publishers : q # p => proc'[q] = proc[q]
      /\ proc'[p].at \in {"present", "resumed"}
      /\ proc'[p].v = b.v /\ proc'[p].src = b.src
      /\ proc' \in [Publishers -> [at : Stages \ {"idle"}, v : Versions, src : Sources] \cup {Idle}]
  BY <1>1, <1>2 DEF ReleaseInv, TypeOK, Stages
<1>4. /\ clone' \in [Publishers -> Clones]
      /\ \A q \in Publishers : clone'[q].head = clone[q].head
      /\ \A q \in Publishers : clone'[q].dirty => clone'[q].on = "master"
  <2> DEFINE tags == [clone[p].tags EXCEPT ![b.v] = FetchedTag(p, b.v)]
             c == [clone[p] EXCEPT !.tags = tags]
  <2>1. clone[p] \in Clones BY DEF ReleaseInv, TypeOK, Clones
  <2>2. FetchedTag(p, b.v) \in 0..Len(master)
    BY <1>2, <2>1 DEF FetchedTag, ReleaseInv, TypeOK, Clones
  <2>3. tags \in [Versions -> 0..Len(master)] BY <2>1, <2>2 DEF Clones
  <2>4. clone' = [clone EXCEPT ![p] = c] BY <1>1
  <2>5. clone[p].on = "master" BY <1>1 DEF ResumeReady, Clean
  <2> HIDE DEF tags
  <2>6. c \in Clones /\ c.head = clone[p].head /\ c.on = "master" BY <2>1, <2>3, <2>5 DEF Clones
  <2> HIDE DEF c
  <2> QED BY <2>4, <2>6, CloneStep DEF ReleaseInv
<1>5. TypeOK' BY <1>1, <1>3, <1>4 DEF ReleaseInv, TypeOK, remoteVars, Clones
<1>6. OfBundle' BY <1>2, <1>3 DEF ReleaseInv, OfBundle, At, Carries
<1>7. BranchIsLock' BY <1>1, <1>3 DEF ReleaseInv, BranchIsLock, Owns, remoteVars
<1>8. LateIsLockedOut' BY <1>1, <1>3 DEF ReleaseInv, LateIsLockedOut, At, remoteVars
<1>9. TagIsHead' BY <1>1, <1>3, <1>4 DEF ReleaseInv, TagIsHead, At, Carries, remoteVars
<1>10. TagCarriesItsRelease' BY <1>1 DEF ReleaseInv, TagCarriesItsRelease, remoteVars
<1> QED BY <1>5, <1>6, <1>7, <1>8, <1>9, <1>10 DEF ReleaseInv

LEMMA UploadStep == ASSUME ReleaseInv, NEW p \in Publishers, Upload(p) PROVE ReleaseInv'
<1>1. /\ proc[p].at \in {"released", "resumed"} /\ Go(p, "uploaded")
      /\ pypi' = [pypi EXCEPT ![proc[p].v] = proc[p].src]
      /\ UNCHANGED <<master, branch, tag, release, clone, kills>>
  BY DEF Upload, WheelOf
<1>2. MovedOn(p, "uploaded") BY <1>1, GoFacts DEF Stages
<1>3. proc[p].v \in Versions /\ proc[p].src \in Sources BY <1>1, AtWork DEF ReleaseInv
<1>4. TypeOK' BY <1>1, <1>2, <1>3 DEF ReleaseInv, TypeOK, MovedOn
<1>5. BranchIsLock' BY <1>1, <1>2 DEF ReleaseInv, BranchIsLock, Owns, MovedOn
<1>6. LateIsLockedOut' BY <1>1, <1>2 DEF ReleaseInv, LateIsLockedOut, At, MovedOn
<1>7. TagIsHead' BY <1>1, <1>2 DEF ReleaseInv, TagIsHead, At, MovedOn
<1>8. TagCarriesItsRelease' BY <1>1 DEF ReleaseInv, TagCarriesItsRelease
<1> QED BY <1>2, <1>4, <1>5, <1>6, <1>7, <1>8 DEF ReleaseInv, MovedOn

\* An operator brings the clone of an idle publisher up to master, or puts it back.
LEMMA OperatorStep ==
  ASSUME ReleaseInv, NEW p \in Publishers, Pull(p) \/ RepairClone(p)
  PROVE  ReleaseInv'
<1> DEFINE c == IF Pull(p) THEN [clone[p] EXCEPT !.head = Len(master)]
                ELSE [clone[p] EXCEPT !.on = "master", !.dirty = FALSE, !.branches = {}]
<1>1. At(p, "idle") /\ UNCHANGED <<remoteVars, proc, kills>> BY DEF Pull, RepairClone
<1>2. clone' = [clone EXCEPT ![p] = c] BY DEF Pull, RepairClone
<1>3. c \in Clones /\ c.on = "master"
  <2>1. clone[p] \in Clones /\ Len(master) \in 1..Len(master) BY DEF ReleaseInv, TypeOK, Clones
  <2>2. CASE Pull(p)
    <3>1. clone[p].on = "master" BY <2>2 DEF Pull, Clean
    <3>2. [clone[p] EXCEPT !.head = Len(master)] \in Clones BY <2>1 DEF Clones
    <3>3. [clone[p] EXCEPT !.head = Len(master)].on = "master" BY <2>1, <3>1 DEF Clones
    <3> QED BY <2>2, <3>2, <3>3
  <2>3. CASE ~Pull(p)
    <3>1. [clone[p] EXCEPT !.on = "master", !.dirty = FALSE, !.branches = {}] \in Clones
      BY <2>1 DEF Clones
    <3>2. [clone[p] EXCEPT !.on = "master", !.dirty = FALSE, !.branches = {}].on = "master"
      BY <2>1 DEF Clones
    <3> QED BY <2>3, <3>1, <3>2
  <2> QED BY <2>2, <2>3
<1> HIDE DEF c
<1>4. /\ clone' \in [Publishers -> Clones]
      /\ \A q \in Publishers : q # p => clone'[q] = clone[q]
      /\ \A q \in Publishers : clone'[q].dirty => clone'[q].on = "master"
  BY <1>2, <1>3, CloneStep DEF ReleaseInv
<1>5. TypeOK' BY <1>1, <1>4 DEF ReleaseInv, TypeOK, remoteVars, Clones
<1>6. OfBundle' BY <1>1 DEF ReleaseInv, OfBundle, At, Carries
<1>7. BranchIsLock' BY <1>1 DEF ReleaseInv, BranchIsLock, Owns, remoteVars
<1>8. LateIsLockedOut' BY <1>1 DEF ReleaseInv, LateIsLockedOut, At, remoteVars
<1>9. TagIsHead' BY <1>1, <1>4 DEF ReleaseInv, TagIsHead, At, Carries, remoteVars
<1>10. TagCarriesItsRelease' BY <1>1 DEF ReleaseInv, TagCarriesItsRelease, remoteVars
<1> QED BY <1>5, <1>6, <1>7, <1>8, <1>9, <1>10 DEF ReleaseInv

\* A branch is deleted only when nobody is at work on its version.
LEMMA DropBranchStep == ASSUME ReleaseInv, NEW v \in Versions, DropBranch(v) PROVE ReleaseInv'
<1>1. /\ \A p \in Publishers : proc[p].v # v
      /\ branch' = [branch EXCEPT ![v] = NoBranch]
      /\ UNCHANGED <<master, tag, release, pypi, clone, proc, kills>>
  BY DEF DropBranch
<1>2. /\ branch' \in [Versions -> [base : 1..MaxMaster, src : Sources] \cup {NoBranch}]
      /\ \A w \in Versions : w # v => branch'[w] = branch[w]
  BY <1>1 DEF ReleaseInv, TypeOK
<1>3. \A p \in Publishers : ~At(p, "idle") => branch'[proc[p].v] = branch[proc[p].v]
  BY <1>1, <1>2, AtWork DEF ReleaseInv, At
<1>4. TypeOK' BY <1>1, <1>2 DEF ReleaseInv, TypeOK
<1>5. OfBundle' BY <1>1 DEF ReleaseInv, OfBundle, At, Carries
<1>6. BranchIsLock' BY <1>1, <1>3 DEF ReleaseInv, BranchIsLock, Owns, At
<1>7. LateIsLockedOut' BY <1>1, <1>3 DEF ReleaseInv, LateIsLockedOut, At
<1>8. TagIsHead' BY <1>1 DEF ReleaseInv, TagIsHead, At, Carries
<1>9. TagCarriesItsRelease' BY <1>1 DEF ReleaseInv, TagCarriesItsRelease
<1> QED BY <1>4, <1>5, <1>6, <1>7, <1>8, <1>9 DEF ReleaseInv

LEMMA ReleaseStepInv == ReleaseInv /\ [Next]_vars => ReleaseInv'
<1> SUFFICES ASSUME ReleaseInv, [Next]_vars PROVE ReleaseInv'
  OBVIOUS
<1>1. CASE UNCHANGED vars
  BY <1>1 DEF vars, ReleaseInv, TypeOK, OfBundle, BranchIsLock, Owns, LateIsLockedOut,
              TagIsHead, TagCarriesItsRelease, At, Carries
<1>2. ASSUME NEW p \in Publishers, Publish(p) PROVE ReleaseInv' BY <1>2, PublishStep
<1>3. ASSUME NEW p \in Publishers, Resume(p) PROVE ReleaseInv' BY <1>3, ResumeStep
<1>4. ASSUME NEW p \in Publishers, Step(p) PROVE ReleaseInv'
  <2>1. CASE Commit(p) BY <2>1, CommitStep
  <2>2. CASE Push(p) BY <2>2, PushStep
  <2>3. CASE Merge(p) BY <2>3, MergeStep
  <2>4. CASE Sync(p) BY <2>4, SyncStep
  <2>5. CASE PushTag(p) BY <2>5, PushTagStep
  <2>6. CASE Draft(p) BY <2>6, DraftStep
  <2>7. CASE Finish(p) BY <2>7, FinishStep
  <2>8. CASE Upload(p) BY <2>8, UploadStep
  <2>9. CASE Verify(p) \/ Fail(p)
    <3>1. kills' \in 0..MaxKills BY <2>9 DEF Verify, Fail, ReleaseInv, TypeOK
    <3>2. /\ proc' = [proc EXCEPT ![p] = Idle] /\ UNCHANGED <<remoteVars, clone>>
      BY <2>9 DEF Verify, Fail
    <3> QED BY <3>1, <3>2, EndStep
  <2> QED BY <1>4, <2>1, <2>2, <2>3, <2>4, <2>5, <2>6, <2>7, <2>8, <2>9 DEF Step
<1>5. ASSUME NEW p \in Publishers, Kill(p) PROVE ReleaseInv'
  <2>1. kills' \in 0..MaxKills BY <1>5, VersionFacts DEF Kill, ReleaseInv, TypeOK
  <2>2. /\ proc' = [proc EXCEPT ![p] = Idle] /\ UNCHANGED <<remoteVars, clone>>
    BY <1>5 DEF Kill
  <2> QED BY <2>1, <2>2, EndStep
<1>6. ASSUME NEW p \in Publishers, Pull(p) \/ RepairClone(p) PROVE ReleaseInv'
  BY <1>6, OperatorStep
<1>7. ASSUME NEW v \in Versions, DropBranch(v) PROVE ReleaseInv' BY <1>7, DropBranchStep
<1> QED BY <1>1, <1>2, <1>3, <1>4, <1>5, <1>6, <1>7 DEF Next
-----------------------------------------------------------------------------
\* Every variable of the release keeps its type; a commit of master carries a release
\* that was built, and no clone or tag is ahead of master.
THEOREM TypeCorrect == Spec => []TypeOK
<1>1. ReleaseInv => TypeOK BY DEF ReleaseInv
<1> QED BY <1>1, ReleaseInitInv, ReleaseStepInv, PTL DEF Spec

\* From the push of its release branch until its tag is public or it fails, a publisher
\* is alone with its version: git's refusal of a branch that exists is all the locking
\* that the publication has.
THEOREM BranchLocksVersion == Spec => []BranchIsLock
<1>1. ReleaseInv => BranchIsLock BY DEF ReleaseInv
<1> QED BY <1>1, ReleaseInitInv, ReleaseStepInv, PTL DEF Spec

\* Tag, GitHub release and master agree: a tag names a commit that carries its version
\* and the release is of the source that this commit names, however the publications of
\* several bundles overlap, fail and die (the comparison of the merged files in
\* commit_public).
THEOREM TagsAgree == Spec => []TagCarriesItsRelease
<1>1. ReleaseInv => TagCarriesItsRelease BY DEF ReleaseInv
<1> QED BY <1>1, ReleaseInitInv, ReleaseStepInv, PTL DEF Spec

\* A step adds a commit to master only by the merge of a publisher that has pushed its
\* branch, and then the tag of its version is not public yet.
LEMMA MergedIsUntagged ==
  ReleaseInv /\ [Next]_vars
    => (Len(master') > Len(master) => tag[master'[Len(master')].v] = 0)
<1> SUFFICES ASSUME ReleaseInv, [Next]_vars, Len(master') > Len(master)
             PROVE  tag[master'[Len(master')].v] = 0
  OBVIOUS
<1>1. Len(master) \in Nat BY DEF ReleaseInv, TypeOK
<1>2. master' # master BY <1>1
<1>3. PICK p \in Publishers : Merge(p)
  BY <1>2 DEF Next, Step, vars, remoteVars, Publish, Resume, Commit, Push, Sync, PushTag, Draft,
              Finish, Upload, Verify, Fail, Kill, Pull, RepairClone, DropBranch
<1>4. Carries(p) \in Carried /\ Carries(p).v = proc[p].v
  BY <1>3, AtWork DEF ReleaseInv, Merge, At
<1>5. master'[Len(master')] = Carries(p)
  BY <1>3, <1>4 DEF Merge, ReleaseInv, TypeOK
<1>6. tag[proc[p].v] = 0 BY <1>3 DEF Merge, ReleaseInv, LateIsLockedOut
<1> QED BY <1>4, <1>5, <1>6

\* Once the tag of a version is public nobody merges that version again, even a publisher
\* that passed its preflight before the tag came (public_preflight,
\* prepare_plugin_release_policy and the refusal of the branch).
THEOREM TaggedStaysClosed == Spec => TaggedVersionIsClosed
<1>1. ReleaseInv /\ [Next]_vars
        => [Len(master') > Len(master) => tag[master'[Len(master')].v] = 0]_vars
  BY MergedIsUntagged
<1> QED BY <1>1, ReleaseInitInv, ReleaseStepInv, PTL DEF Spec, TaggedVersionIsClosed
-----------------------------------------------------------------------------
(* The installation of the Runtime. *)

LEMMA InstallFacts ==
  /\ MaxBuild \in Nat \ {0} /\ MaxCommands \in Nat /\ MaxTouches \in Nat
  /\ Foreign \notin 0..MaxBuild /\ NoLife \notin (0..MaxBuild) \X Builds
  /\ Builds \subseteq 0..MaxBuild /\ NoFile \in 0..MaxBuild /\ NoFile \notin Builds
  /\ NoJob \in Job
BY InstallAssumption DEF Builds, NoFile, NoJob, Job, Records

LEMMA InstallStep == InstallTypeOK /\ [InstallNext]_installVars => InstallTypeOK'
<1> SUFFICES ASSUME InstallTypeOK, [InstallNext]_installVars PROVE InstallTypeOK'
  OBVIOUS
<1> USE InstallFacts DEF InstallTypeOK
<1> USE DEF fileVars, historyVars, countVars, Goto, Leave
<1>u. CASE UNCHANGED installVars BY <1>u DEF installVars
<1>a. ASSUME NEW p \in Apps, JournalCreate(p) PROVE InstallTypeOK'
  BY <1>a DEF JournalCreate, Unreadable, JournalSteps
<1>b. ASSUME NEW p \in Apps, JournalFill(p) PROVE InstallTypeOK'
  <2>1. job[p].record \in Records BY DEF Job
  <2>2. DOMAIN attempt = {"path", "bak", "tmp"} OBVIOUS
  <2> QED BY <1>b, <2>1, <2>2 DEF JournalFill, JournalSteps
<1>bc. ASSUME NEW p \in Apps, JournalClear(p) PROVE InstallTypeOK'
  BY <1>bc DEF JournalClear, JournalSteps
<1>c. ASSUME NEW p \in Apps, JournalAside(p) PROVE InstallTypeOK'
  BY <1>c DEF JournalAside, SetAside, JournalSteps
<1>d. ASSUME NEW p \in Apps, JournalPlace(p) PROVE InstallTypeOK'
  <2>1. owed' \in BOOLEAN BY <1>d DEF JournalPlace, Job, Records
  <2>2. job' \in [Apps -> Job] /\ at' \in [Apps -> {"idle", "lock", "lockRollback", "persist"} \cup JournalSteps \cup LockedSteps]
    BY <1>d DEF JournalPlace
  <2> QED BY <1>d, <2>1, <2>2 DEF JournalPlace
<1>e. ASSUME NEW p \in Apps, JournalFails(p) PROVE InstallTypeOK'
  BY <1>e DEF JournalFails, Abandoned, Unreadable
<1>f. ASSUME NEW p \in Apps, Starting(p) PROVE InstallTypeOK'
  <2>1. ASSUME NEW new \in Job, StartJournaled(p, new) PROVE InstallTypeOK'
    <3>1. \A q \in Apps : [job[q] EXCEPT !.overlaps = TRUE] \in Job BY DEF Job
    <3>2. [new EXCEPT !.overlaps = ~Alone(p)] \in Job BY <2>1 DEF Job, Alone, InJournal
    <3>3. job' \in [Apps -> Job] BY <2>1, <3>1, <3>2 DEF StartJournaled
    <3>4. owed' \in BOOLEAN BY <2>1 DEF StartJournaled
    <3> QED BY <2>1, <3>3, <3>4 DEF StartJournaled, Start, JournalSteps
  <2>2. CASE StartInstall(p)
    <3>1. [NoJob EXCEPT !.kind = "install", !.record = "in_progress"] \in Job BY DEF NoJob, Job, Records
    <3> QED BY <2>1, <2>2, <3>1 DEF StartInstall
  <2>3. CASE StartReconcile(p)
    <3>1. [NoJob EXCEPT !.kind = "reconcile"] \in Job BY DEF NoJob, Job, Records
    <3> QED BY <2>1, <2>3, <3>1 DEF StartReconcile
  <2>4. CASE StartApply(p)
    <3>1. [NoJob EXCEPT !.kind = "apply", !.previous = IF target = NoFile THEN NoFile ELSE receipt] \in Job
      BY DEF NoJob, Job, Records
    <3>2. job' \in [Apps -> Job] BY <2>4, <3>1 DEF StartApply
    <3> QED BY <2>4, <3>2 DEF StartApply, Start, LockedSteps
  <2>5. CASE StartRollback(p)
    <3>1. life[1] \in 0..MaxBuild /\ life[2] \in Builds BY <2>5 DEF StartRollback
    <3>2. [NoJob EXCEPT !.kind = "rollback", !.old = life[1], !.new = life[2]] \in Job
      BY <3>1 DEF NoJob, Job, Records
    <3>3. job' \in [Apps -> Job] BY <2>5, <3>2 DEF StartRollback
    <3> QED BY <2>5, <3>3 DEF StartRollback, Start
  <2> QED BY <1>f, <2>2, <2>3, <2>4, <2>5 DEF Starting
\* How a step of an install or of a rollback ends.
<1>1. ASSUME NEW p \in Apps, target' \in Builds \cup {NoFile, Foreign}, backup' \in Builds \cup {NoFile},
             receipt' \in Builds \cup {NoFile}, Unlock(p)
      PROVE  good' \in Builds \cup {NoFile} /\ touched' \in BOOLEAN
  BY <1>1 DEF Unlock, Agreed
<1>2. ASSUME NEW p \in Apps, target' \in Builds \cup {NoFile, Foreign}, backup' \in Builds \cup {NoFile},
             receipt' \in Builds \cup {NoFile}, Succeeds(p)
      PROVE  InstallTypeOK'
  <2>1. job' \in [Apps -> Job] BY <1>2 DEF Succeeds, Write, Job, Records
  <2> QED BY <1>1, <1>2, <2>1 DEF Succeeds, Write, JournalSteps
<1>3. ASSUME NEW p \in Apps, target' \in Builds \cup {NoFile, Foreign}, backup' \in Builds \cup {NoFile},
             receipt' \in Builds \cup {NoFile}, Fails(p)
      PROVE  InstallTypeOK'
  <2>1. job' \in [Apps -> Job] BY <1>3 DEF Fails, Write, Job, Records
  <2> QED BY <1>1, <1>3, <2>1 DEF Fails, Write, JournalSteps
<1>4. ASSUME NEW p \in Apps, NEW step \in LockedSteps,
             target' \in Builds \cup {NoFile, Foreign}, backup' \in Builds \cup {NoFile},
             receipt' \in Builds \cup {NoFile}, Proceeds(p, step)
      PROVE  InstallTypeOK'
  BY <1>4 DEF Proceeds
<1>5. \A p \in Apps : job[p].new \in 0..MaxBuild /\ job[p].old \in 0..MaxBuild /\ job[p].oldReceipt \in 0..MaxBuild
  BY DEF Job
<1>6. 0..MaxBuild \subseteq Builds \cup {NoFile} BY DEF Builds, NoFile
<1>g. ASSUME NEW p \in Apps, Installing(p) PROVE InstallTypeOK'
  <2>1. CASE TakeLock(p)
    <3>1. CASE Fails(p) BY <1>3, <2>1, <3>1 DEF TakeLock
    <3>2. CASE ~Fails(p)
      <4>1. target \in 0..MaxBuild
        BY <2>1, <3>2, InstallFacts DEF TakeLock, TargetState, Builds
      <4>2. job' \in [Apps -> Job] BY <2>1, <3>2, <4>1 DEF TakeLock, Job
      <4>3. at' \in [Apps -> {"idle", "lock", "lockRollback", "persist"} \cup JournalSteps \cup LockedSteps]
        BY <2>1, <3>2 DEF TakeLock, LockedSteps, TargetState
      <4> QED BY <2>1, <3>2, <4>2, <4>3 DEF TakeLock
    <3> QED BY <3>1, <3>2
  <2>2. CASE ExactReceipt(p) BY <1>3, <1>4, <1>5, <1>6, <2>2 DEF ExactReceipt, LockedSteps
  <2>3. CASE ExactDone(p) BY <1>2, <1>3, <1>5, <1>6, <2>3 DEF ExactDone
  <2>4. CASE BackUp(p) BY <1>3, <1>4, <1>5, <1>6, <2>4 DEF BackUp, BackedUp, LockedSteps
  <2>5. CASE Recheck(p) BY <1>3, <1>4, <2>5 DEF Recheck, LockedSteps
  <2>6. CASE ReplaceStaged(p) BY <1>3, <1>4, <1>5, <1>6, <2>6 DEF ReplaceStaged, LockedSteps
  <2>7. CASE Readback(p) BY <1>3, <1>4, <2>7 DEF Readback, LockedSteps
  <2>8. CASE Activate(p) BY <1>4, <1>5, <1>6, <2>8 DEF Activate, LockedSteps
  <2>9. CASE Written(p) BY <1>2, <1>4, <1>5, <1>6, <2>9 DEF Written, LockedSteps
  <2>10. CASE Undo(p) BY <1>3, <1>4, <2>10 DEF Undo, LockedSteps
  <2>11. CASE Restore(p) BY <1>4, <1>5, <1>6, <2>11 DEF Restore, LockedSteps
  <2>12. CASE UndoReceipt(p) BY <1>3, <1>5, <1>6, <2>12 DEF UndoReceipt
  <2> QED BY <1>g, <2>1, <2>2, <2>3, <2>4, <2>5, <2>6, <2>7, <2>8, <2>9, <2>10, <2>11, <2>12 DEF Installing
<1>h. ASSUME NEW p \in Apps, RollingBack(p) PROVE InstallTypeOK'
  <2>1. CASE LockRollback(p)
    <3>1. CASE Fails(p) BY <1>3, <2>1, <3>1 DEF LockRollback
    <3>2. CASE ~Fails(p)
      <4>1. job' \in [Apps -> Job] BY <1>6, <2>1, <3>2 DEF LockRollback, Job, Builds
      <4> QED BY <2>1, <3>2, <4>1 DEF LockRollback, LockedSteps
    <3> QED BY <3>1, <3>2
  <2>2. CASE Swap(p)
    <3>1. CASE Proceeds(p, "swapBack") /\ UNCHANGED target BY <1>4, <2>2, <3>1 DEF Swap, LockedSteps
    <3>2. CASE ~(Proceeds(p, "swapBack") /\ UNCHANGED target)
      <4>1. job[p].new \in Builds \cup {NoFile} BY <1>5, <1>6
      <4> QED BY <2>2, <3>2, <4>1 DEF Swap, LockedSteps
    <3> QED BY <3>1, <3>2
  <2>3. CASE Swapped(p) BY <1>4, <1>5, <1>6, <2>3 DEF Swapped, LockedSteps
  <2>4. CASE Checked(p) BY <1>2, <1>4, <2>4 DEF Checked, LockedSteps
  <2>5. CASE SwapBack(p) BY <1>3, <1>5, <1>6, <2>5 DEF SwapBack
  <2>6. CASE Persist(p)
    <3>1. NoFile \notin {backup, job[p].previous} =>
            <<job[p].new, job[p].previous>> \in (0..MaxBuild) \X Builds
      BY <1>5, <1>6 DEF Job
    <3> QED BY <2>6, <3>1 DEF Persist
  <2> QED BY <1>h, <2>1, <2>2, <2>3, <2>4, <2>5, <2>6 DEF RollingBack
<1>i. ASSUME NEW p \in Apps, Die(p) PROVE InstallTypeOK'
  BY <1>1, <1>i DEF Die, Abandoned, Unreadable
<1>j. CASE ReadLifecycle BY <1>j DEF ReadLifecycle
<1>k. CASE Update BY <1>k DEF Update
<1>l. CASE Intrude BY <1>l DEF Intrude
<1> QED BY <1>u, <1>a, <1>b, <1>bc, <1>c, <1>d, <1>e, <1>f, <1>g, <1>h, <1>i, <1>j, <1>k, <1>l
        DEF InstallNext, Journaling

-----------------------------------------------------------------------------
Locked(p) == at[p] \in LockedSteps

\* From the second look at the target on, an install or a rollback has its backup.
Spared(p) == at[p] \in {"recheck", "publish", "readback", "activate", "written", "undo", "restore",
                        "undoReceipt", "swapped", "checked"}

\* Who holds the lock is alone, and who is alone finds what the last one left.
Exclusive == \A p, q \in Apps : Locked(p) /\ Locked(q) => p = q
FoundAsLeft ==
    (\A p \in Apps : ~Locked(p)) /\ ~touched /\ target = receipt /\ receipt # NoFile => good = target

\* Where the good build is while the lock is held.
GoodWhileLocked ==
    ~touched => \A p \in Apps :
        /\ at[p] = "backup" => good = target /\ target = job[p].old
        /\ Spared(p) /\ good # NoFile => good = backup
        /\ at[p] = "swap" => target = job[p].old
        /\ at[p] = "swapBack" /\ good # NoFile => good = backup \/ (good = target /\ target = job[p].old)

KeptInv == InstallTypeOK /\ Exclusive /\ FoundAsLeft /\ GoodWhileLocked /\ BuildIsKept
LockInv == Exclusive /\ FoundAsLeft /\ GoodWhileLocked /\ BuildIsKept

LEMMA KeptStep == KeptInv /\ [InstallNext]_installVars => LockInv'
<1> SUFFICES ASSUME KeptInv, [InstallNext]_installVars PROVE LockInv'
  OBVIOUS
<1> USE DEF KeptInv, LockInv
<1>t. /\ at \in [Apps -> {"idle", "lock", "lockRollback", "persist"} \cup JournalSteps \cup LockedSteps]
      /\ job \in [Apps -> Job] /\ NoFile \notin Builds /\ receipt \in Builds \cup {NoFile}
      /\ touched \in BOOLEAN
  BY InstallFacts DEF InstallTypeOK
<1>n. \A p \in Apps : Spared(p) \/ at[p] \in {"backup", "swap", "swapBack"} => Locked(p)
  BY DEF Spared, Locked, LockedSteps
<1>n2. \A p \in Apps : (Spared(p) \/ at[p] \in {"backup", "swap", "swapBack"} => Locked(p))'
  BY DEF Spared, Locked, LockedSteps
<1>m. ASSUME NEW p \in Apps, Locked(p) PROVE \A q \in Apps : q # p => ~Locked(q)
  BY <1>m DEF Exclusive
\* A step outside the lock.
<1>1. ASSUME UNCHANGED <<fileVars, good, touched>>, NEW p \in Apps,
             \A q \in Apps : q # p => at'[q] = at[q] /\ job'[q].old = job[q].old,
             ~Locked(p), ~Locked(p)'
      PROVE  LockInv'
  <2> USE <1>1, <1>t DEF fileVars, Locked
  <2>1. Exclusive' BY DEF Exclusive
  <2>2. FoundAsLeft' BY DEF FoundAsLeft
  <2>3. GoodWhileLocked' BY <1>n, <1>n2 DEF GoodWhileLocked, Spared
  <2>4. BuildIsKept' BY DEF BuildIsKept
  <2> QED BY <2>1, <2>2, <2>3, <2>4
\* A step that takes the lock, or that is made under it; p is the only one of interest.
<1>2. ASSUME NEW p \in Apps, \A q \in Apps : q # p => at'[q] = at[q] /\ ~Locked(q),
             at'[p] \in LockedSteps, UNCHANGED touched,
             ~touched => /\ at'[p] = "backup" => good' = target' /\ target' = job'[p].old
                         /\ Spared(p)' /\ good' # NoFile => good' = backup'
                         /\ at'[p] = "swap" => target' = job'[p].old
                         /\ at'[p] = "swapBack" /\ good' # NoFile =>
                               good' = backup' \/ (good' = target' /\ target' = job'[p].old)
                         /\ good' # NoFile => good' \in {target', backup'}
      PROVE  LockInv'
  <2> USE <1>2, <1>t DEF Locked
  <2>1. Exclusive' BY DEF Exclusive
  <2>2. FoundAsLeft' BY DEF FoundAsLeft
  <2>3. GoodWhileLocked'
    <3>1. \A q \in Apps : q # p => at'[q] \notin LockedSteps OBVIOUS
    <3> QED BY <3>1, <1>n2 DEF GoodWhileLocked
  <2>4. BuildIsKept' BY DEF BuildIsKept
  <2> QED BY <2>1, <2>2, <2>3, <2>4
\* A step that frees the lock.
<1>3. ASSUME NEW p \in Apps, Locked(p), Unlock(p), \A q \in Apps : q # p => at'[q] = at[q],
             ~Locked(p)', good # NoFile /\ ~touched => good \in {target', backup'}
      PROVE  LockInv'
  <2> USE <1>3, <1>t DEF Locked
  <2>0. \A q \in Apps : at'[q] \notin LockedSteps BY <1>m
  <2>1. Exclusive' BY <2>0 DEF Exclusive
  <2>2. FoundAsLeft' BY DEF FoundAsLeft, Unlock, Agreed
  <2>3. GoodWhileLocked' BY <1>n2, <2>0 DEF GoodWhileLocked
  <2>4. BuildIsKept' BY DEF BuildIsKept, Unlock, Agreed
  <2> QED BY <2>1, <2>2, <2>3, <2>4
\* The ways a step of an install or of a rollback ends.
<1>4. ASSUME NEW p \in Apps, Fails(p) \/ Succeeds(p), Locked(p),
             good # NoFile /\ ~touched => good \in {target', backup'}
      PROVE  LockInv'
  <2>1. /\ Unlock(p) /\ \A q \in Apps : q # p => at'[q] = at[q]
        /\ at'[p] \in {"create", "persist", "idle"}
    BY <1>4, <1>t DEF Fails, Succeeds, Write, Goto, Leave
  <2> QED BY <1>3, <1>4, <2>1 DEF Locked, LockedSteps
<1>5. ASSUME NEW p \in Apps, Fails(p), ~Locked(p), UNCHANGED fileVars
      PROVE  LockInv'
  <2>1. /\ UNCHANGED <<good, touched>>
        /\ \A q \in Apps : q # p => at'[q] = at[q] /\ job'[q] = job[q]
        /\ at'[p] \in {"create", "idle"}
    BY <1>5, <1>t DEF Fails, Write, Leave, Unlock, Locked
  <2> QED BY <1>1, <1>5, <2>1 DEF Locked, LockedSteps
<1>6. ASSUME NEW p \in Apps, NEW step \in LockedSteps, Locked(p), Proceeds(p, step),
             ~touched => /\ step = "backup" => good = target' /\ target' = job[p].old
                         /\ Spared(p)' /\ good # NoFile => good = backup'
                         /\ step # "swap"
                         /\ step = "swapBack" /\ good # NoFile =>
                               good = backup' \/ (good = target' /\ target' = job[p].old)
                         /\ good # NoFile => good \in {target', backup'}
      PROVE  LockInv'
  <2>1. /\ \A q \in Apps : q # p => at'[q] = at[q] /\ ~Locked(q)
        /\ at'[p] = step /\ UNCHANGED <<job, touched, good>>
    BY <1>m, <1>6, <1>t DEF Proceeds, Goto, historyVars
  <2> QED BY <1>2, <1>6, <2>1
<1>k. \A p \in Apps : Locked(p) /\ good # NoFile /\ ~touched => good \in {target, backup}
  BY DEF BuildIsKept
<1>s. \A p \in Apps : Spared(p) /\ good # NoFile /\ ~touched => good = backup
  BY DEF GoodWhileLocked
<1>a. ASSUME NEW p \in Apps, Journaling(p) PROVE LockInv'
  <2>1. /\ UNCHANGED <<fileVars, good, touched>> /\ at[p] \in JournalSteps
        /\ \A q \in Apps : q # p => at'[q] = at[q] /\ job'[q] = job[q]
        /\ at'[p] \in JournalSteps \cup {"lock", "idle"}
    BY <1>a, <1>t DEF Journaling, JournalCreate, JournalFill, JournalClear, JournalAside, JournalPlace,
          JournalFails,
          JournalSteps, Goto, Leave, historyVars
  <2> QED BY <1>1, <2>1 DEF Locked, LockedSteps, JournalSteps
<1>b. ASSUME NEW p \in Apps, Starting(p) PROVE LockInv'
  <2>1. /\ UNCHANGED <<fileVars, good, touched>> /\ at[p] = "idle"
        /\ \A q \in Apps : q # p => at'[q] = at[q]
        /\ at'[p] \in {"create", "lock", "lockRollback"}
    BY <1>b, <1>t DEF Starting, StartInstall, StartReconcile, StartJournaled, StartApply, StartRollback,
          Start, Goto
  <2>2. ASSUME NEW new, StartJournaled(p, new), NEW q \in Apps, q # p PROVE job'[q].old = job[q].old
    BY <1>t, <2>2 DEF StartJournaled, Job
  <2>3. \A q \in Apps : q # p => job'[q].old = job[q].old
    BY <1>b, <1>t, <2>2 DEF Starting, StartInstall, StartReconcile, StartApply, StartRollback
  <2> QED BY <1>1, <2>1, <2>3 DEF Locked, LockedSteps
<1>c. ASSUME NEW p \in Apps, Installing(p) PROVE LockInv'
  <2>1. CASE TakeLock(p)
    <3>1. ~Locked(p) BY <2>1 DEF TakeLock, Locked, LockedSteps
    <3>2. CASE Fails(p) BY <1>5, <2>1, <3>1, <3>2 DEF TakeLock
    <3>3. CASE ~Fails(p)
      <4>1. /\ \A q \in Apps : q # p => at'[q] = at[q] /\ ~Locked(q)
            /\ job'[p].old = target /\ UNCHANGED <<fileVars, historyVars>>
            /\ at'[p] \in {"recheck", "exact", "backup"}
        BY <1>t, <2>1, <3>3 DEF TakeLock, Goto, Free, Locked, Job
      <4>2. ~touched /\ at'[p] = "backup" => good = target
        <5>1. at'[p] = "backup" => TargetState(bundle) \notin {"Absent", "Exact", "Untrusted"}
          BY <1>t, <2>1, <3>3 DEF TakeLock, Goto
        <5>2. at'[p] = "backup" => target = receipt /\ receipt # NoFile BY <5>1 DEF TargetState
        <5>3. \A q \in Apps : ~Locked(q) BY <3>1, <4>1
        <5> QED BY <5>2, <5>3 DEF FoundAsLeft
      <4>3. ~touched /\ at'[p] = "recheck" /\ good # NoFile => good = backup
        <5>1. at'[p] = "recheck" => target = NoFile
          BY <1>t, <2>1, <3>3 DEF TakeLock, Goto, TargetState
        <5> QED BY <5>1 DEF BuildIsKept
      <4> QED BY <1>2, <4>1, <4>2, <4>3 DEF LockedSteps, Spared, fileVars, historyVars, BuildIsKept
    <3> QED BY <3>2, <3>3
  <2>2. CASE ExactReceipt(p)
    BY <1>4, <1>6, <1>k, <2>2, <1>t DEF ExactReceipt, Locked, LockedSteps, Spared, Proceeds, Goto, fileVars
  <2>3. CASE ExactDone(p) BY <1>4, <1>k, <2>3 DEF ExactDone, Locked, LockedSteps
  <2>4. CASE BackUp(p)
    <3>1. Locked(p) /\ UNCHANGED target BY <2>4 DEF BackUp, Locked, LockedSteps
    <3>2. CASE UNCHANGED backup /\ Fails(p) BY <1>4, <1>k, <3>1, <3>2
    <3>3. CASE ~(UNCHANGED backup /\ Fails(p))
      <4>1. backup' = job[p].old /\ (Fails(p) \/ Proceeds(p, "recheck"))
        BY <2>4, <3>3 DEF BackUp, BackedUp
      <4>2. ~touched => good = job[p].old BY <2>4 DEF BackUp, GoodWhileLocked
      <4> QED BY <1>4, <1>6, <3>1, <4>1, <4>2 DEF LockedSteps
    <3> QED BY <3>2, <3>3
  <2>5. CASE Recheck(p)
    BY <1>4, <1>6, <1>k, <1>s, <2>5 DEF Recheck, Locked, LockedSteps, Spared, fileVars
  <2>6. CASE ReplaceStaged(p)
    BY <1>4, <1>6, <1>k, <1>s, <2>6 DEF ReplaceStaged, Locked, LockedSteps, Spared
  <2>7. CASE Readback(p)
    BY <1>4, <1>6, <1>k, <1>s, <2>7 DEF Readback, Locked, LockedSteps, Spared, fileVars
  <2>8. CASE Activate(p)
    BY <1>6, <1>k, <1>s, <2>8 DEF Activate, Locked, LockedSteps, Spared
  <2>9. CASE Written(p)
    BY <1>4, <1>6, <1>k, <1>s, <2>9 DEF Written, Locked, LockedSteps, Spared
  <2>10. CASE Undo(p)
    BY <1>4, <1>6, <1>k, <1>s, <2>10 DEF Undo, Locked, LockedSteps, Spared, fileVars
  <2>11. CASE Restore(p)
    BY <1>6, <1>k, <1>s, <2>11 DEF Restore, Locked, LockedSteps, Spared
  <2>12. CASE UndoReceipt(p)
    BY <1>4, <1>k, <2>12 DEF UndoReceipt, Locked, LockedSteps
  <2> QED BY <1>c, <2>1, <2>2, <2>3, <2>4, <2>5, <2>6, <2>7, <2>8, <2>9, <2>10, <2>11, <2>12 DEF Installing
<1>d. ASSUME NEW p \in Apps, RollingBack(p) PROVE LockInv'
  <2>1. CASE LockRollback(p)
    <3>1. ~Locked(p) BY <2>1 DEF LockRollback, Locked, LockedSteps
    <3>2. CASE Fails(p) BY <1>5, <2>1, <3>1, <3>2 DEF LockRollback
    <3>3. CASE ~Fails(p)
      <4>1. /\ \A q \in Apps : q # p => at'[q] = at[q] /\ ~Locked(q)
            /\ job'[p].old = target /\ UNCHANGED <<fileVars, historyVars>> /\ at'[p] = "swap"
        BY <1>t, <2>1, <3>3 DEF LockRollback, Goto, Free, Locked, Job
      <4> QED BY <1>2, <4>1 DEF LockedSteps, Spared, fileVars, historyVars, BuildIsKept
    <3> QED BY <3>2, <3>3
  <2>2. CASE Swap(p)
    <3>1. Locked(p) /\ UNCHANGED backup /\ (~touched => target = job[p].old)
      BY <2>2 DEF Swap, Locked, LockedSteps, GoodWhileLocked
    <3>2. CASE Proceeds(p, "swapBack") /\ UNCHANGED target
      BY <1>6, <1>k, <1>t, <3>1, <3>2 DEF LockedSteps, Spared, Proceeds, Goto
    <3>3. CASE ~(Proceeds(p, "swapBack") /\ UNCHANGED target)
      <4>1. /\ \A q \in Apps : q # p => at'[q] = at[q] /\ ~Locked(q)
            /\ at'[p] \in {"swapped", "swapBack"} /\ UNCHANGED touched /\ good' = backup'
        BY <1>m, <1>t, <2>2, <3>1, <3>3 DEF Swap, Goto
      <4> QED BY <1>2, <4>1 DEF LockedSteps
    <3> QED BY <3>2, <3>3
  <2>3. CASE Swapped(p)
    BY <1>6, <1>k, <1>s, <2>3 DEF Swapped, Locked, LockedSteps, Spared
  <2>4. CASE Checked(p)
    BY <1>4, <1>6, <1>k, <1>s, <2>4 DEF Checked, Locked, LockedSteps, Spared, fileVars
  <2>5. CASE SwapBack(p)
    <3>1. Locked(p) /\ UNCHANGED backup /\ target' \in {target, job[p].old} /\ Fails(p)
      BY <2>5 DEF SwapBack, Locked, LockedSteps
    <3>2. ~touched /\ good # NoFile => good = backup \/ (good = target /\ target = job[p].old)
      BY <2>5 DEF SwapBack, GoodWhileLocked
    <3> QED BY <1>4, <3>1, <3>2
  <2>6. CASE Persist(p)
    <3>1. /\ at[p] = "persist" /\ at'[p] = "idle" /\ UNCHANGED <<fileVars, good, touched>>
          /\ \A q \in Apps : q # p => at'[q] = at[q] /\ job'[q] = job[q]
      BY <1>t, <2>6 DEF Persist, Leave, historyVars
    <3> QED BY <1>1, <3>1 DEF Locked, LockedSteps
  <2> QED BY <1>d, <2>1, <2>2, <2>3, <2>4, <2>5, <2>6 DEF RollingBack
<1>e. ASSUME NEW p \in Apps, Die(p) PROVE LockInv'
  <2>1. /\ at'[p] = "idle" /\ UNCHANGED fileVars /\ Unlock(p)
        /\ \A q \in Apps : q # p => at'[q] = at[q] /\ job'[q] = job[q]
    BY <1>e, <1>t DEF Die, Leave
  <2>2. CASE Locked(p) BY <1>3, <1>k, <2>1, <2>2 DEF Locked, LockedSteps, fileVars
  <2>3. CASE ~Locked(p)
    <3>1. UNCHANGED <<good, touched>> BY <2>1, <2>3 DEF Unlock, Locked
    <3> QED BY <1>1, <2>1, <2>3, <3>1 DEF Locked, LockedSteps
  <2> QED BY <2>2, <2>3
<1>f. ASSUME UNCHANGED <<fileVars, good, touched, at, job>> PROVE LockInv'
  BY <1>f DEF fileVars, LockInv, Exclusive, Locked, FoundAsLeft, GoodWhileLocked, Spared, BuildIsKept
<1>g. CASE ReadLifecycle BY <1>f, <1>g DEF ReadLifecycle, historyVars
<1>h. CASE Update BY <1>f, <1>h DEF Update, historyVars
<1>i. CASE Intrude
  BY <1>i DEF Intrude, LockInv, Exclusive, Locked, FoundAsLeft, GoodWhileLocked, BuildIsKept
<1>j. CASE UNCHANGED installVars BY <1>f, <1>j DEF installVars, historyVars
<1> QED BY <1>a, <1>b, <1>c, <1>d, <1>e, <1>g, <1>h, <1>i, <1>j DEF InstallNext

-----------------------------------------------------------------------------
Unsettled == {"in_progress", "reconciliation_required", "torn"}

\* Who is alone with the journal: what is half-written is its own, and under "tmp".
JournalIsOwn ==
    \A p \in Apps :
        /\ at[p] \in JournalSteps => job[p].kind \in {"install", "reconcile"}
        /\ \A name \in {"path", "bak", "tmp"} : attempt[name] = p => at[p] = "fill"
        /\ InJournal(p) /\ ~job[p].overlaps =>
              /\ Alone(p)
              /\ at[p] = "fill" => attempt["tmp"] = p /\ p \notin {attempt["path"], attempt["bak"]}
              /\ at[p] \in {"clear", "aside", "place"} => attempt["tmp"] = job[p].record

\* What an interrupted install has left, and that who is in the journal then is alone.
OwedIsThere ==
    owed => /\ \A p \in Apps : InJournal(p) => ~job[p].overlaps
            /\ attempt["path"] \in Unsettled \/ (attempt["path"] = "none" /\ attempt["bak"] \in Unsettled)

JournalInv == JournalIsOwn /\ OwedIsThere

LEMMA JournalStep == InstallTypeOK /\ JournalInv /\ [InstallNext]_installVars => JournalInv'
<1> SUFFICES ASSUME InstallTypeOK, JournalInv, [InstallNext]_installVars PROVE JournalInv'
  OBVIOUS
<1> USE DEF JournalInv
<1>t. /\ at \in [Apps -> {"idle", "lock", "lockRollback", "persist"} \cup JournalSteps \cup LockedSteps]
      /\ job \in [Apps -> Job] /\ owed \in BOOLEAN
      /\ attempt \in [{"path", "bak", "tmp"} -> Records \cup Unreadable \cup {"none"}]
      /\ \A p \in Apps : p \notin Records \cup {"torn", "none"}
  BY InstallAssumption DEF InstallTypeOK
\* A step that leaves the journal, and who is in it, alone.
<1>1. ASSUME UNCHANGED <<attempt, owed>>,
             \A q \in Apps : /\ job'[q].kind = job[q].kind /\ job'[q].overlaps = job[q].overlaps
                             /\ at'[q] = at[q] \/ (at[q] \notin JournalSteps \cup {"idle"} /\ at'[q] \notin JournalSteps \cup {"idle"})
                             /\ job'[q].record = job[q].record
      PROVE  JournalInv'
  <2>1. \A q \in Apps : InJournal(q)' = InJournal(q) BY <1>1 DEF InJournal
  <2>2. \A q \in Apps : Alone(q)' = Alone(q) BY <2>1 DEF Alone
  <2>3. JournalIsOwn' BY <1>1, <2>1, <2>2, <1>t DEF JournalIsOwn, JournalSteps
  <2>4. OwedIsThere' BY <1>1, <2>1 DEF OwedIsThere
  <2> QED BY <2>3, <2>4
\* A step of one process outside the writing of the journal, to its end or to a new record.
<1>2. ASSUME NEW p \in Apps, at[p] \notin JournalSteps, at[p] # "idle", UNCHANGED owed,
             \A q \in Apps \ {p} : at'[q] = at[q] /\ job'[q] = job[q],
             UNCHANGED attempt \/ attempt' = Abandoned(p),
             \/ at'[p] = "idle"
             \/ /\ at'[p] = "create" /\ job[p].kind = "install"
                /\ job'[p].kind = "install" /\ job'[p].overlaps = job[p].overlaps
      PROVE  JournalInv'
  <2>0. \A name \in {"path", "bak", "tmp"} : attempt[name] # p
    BY <1>2 DEF JournalIsOwn, JournalSteps
  <2>1. attempt' = attempt BY <1>2, <2>0, <1>t DEF Abandoned
  <2>2. \A q \in Apps : InJournal(q)' => InJournal(q) /\ job'[q].overlaps = job[q].overlaps
    BY <1>2 DEF InJournal
  <2>3. \A q \in Apps : Alone(q) => Alone(q)' BY <2>2 DEF Alone
  <2>4. JournalIsOwn'
    BY <1>2, <2>0, <2>1, <2>2, <2>3, <1>t DEF JournalIsOwn, JournalSteps
  <2>5. OwedIsThere' BY <1>2, <2>1, <2>2 DEF OwedIsThere
  <2> QED BY <2>4, <2>5
<1>3. ASSUME NEW p \in Apps, Fails(p) \/ Succeeds(p), at[p] \in LockedSteps \cup {"lock", "lockRollback"}
      PROVE  JournalInv'
  <2>1. CASE Succeeds(p) /\ job[p].kind # "install"
    BY <1>1, <1>3, <2>1, <1>t DEF Succeeds, Goto, JournalSteps, LockedSteps
  <2>2. CASE Fails(p) \/ job[p].kind = "install"
    <3>1. /\ UNCHANGED <<owed, attempt>> /\ \A q \in Apps \ {p} : at'[q] = at[q] /\ job'[q] = job[q]
          /\ at[p] \notin JournalSteps \cup {"idle"}
      BY <1>3, <2>2, <1>t DEF Succeeds, Fails, Write, Leave, JournalSteps, LockedSteps
    <3>2. \/ at'[p] = "idle"
          \/ /\ at'[p] = "create" /\ job[p].kind = "install"
             /\ job'[p].kind = "install" /\ job'[p].overlaps = job[p].overlaps
      BY <1>3, <2>2, <1>t DEF Succeeds, Fails, Write, Leave, Job
    <3> QED BY <1>2, <3>1, <3>2
  <2> QED BY <1>3, <2>1, <2>2
<1>4. ASSUME NEW p \in Apps, NEW step \in LockedSteps, Proceeds(p, step), at[p] \in LockedSteps
      PROVE  JournalInv'
  BY <1>1, <1>4, <1>t DEF Proceeds, Goto, historyVars, JournalSteps, LockedSteps
<1>own. ASSUME NEW p \in Apps, at[p] \in JournalSteps
        PROVE  InJournal(p)
  BY <1>own DEF JournalIsOwn, InJournal, JournalSteps
<1>a. ASSUME NEW p \in Apps, JournalCreate(p) PROVE JournalInv'
  <2>1. InJournal(p) /\ at[p] = "create" BY <1>own, <1>a DEF JournalCreate, JournalSteps
  <2>2. /\ attempt'["path"] = attempt["path"] /\ attempt'["bak"] = attempt["bak"] /\ attempt'["tmp"] = p
        /\ at'[p] = "fill" /\ \A q \in Apps \ {p} : at'[q] = at[q]
        /\ UNCHANGED <<job, owed>>
    BY <1>a, <1>t DEF JournalCreate, Goto, historyVars
  <2>3. \A q \in Apps : InJournal(q)' = InJournal(q) /\ Alone(q)' = Alone(q)
    BY <2>1, <2>2 DEF InJournal, Alone
  <2>4. \A q \in Apps \ {p} : InJournal(q) => job[q].overlaps
    BY <2>1 DEF JournalIsOwn, Alone
  <2>5. JournalIsOwn' BY <2>1, <2>2, <2>3, <2>4 DEF JournalIsOwn, JournalSteps
  <2>6. OwedIsThere' BY <2>2, <2>3 DEF OwedIsThere
  <2> QED BY <2>5, <2>6
<1>b. ASSUME NEW p \in Apps, JournalFill(p) PROVE JournalInv'
  <2>1. InJournal(p) /\ at[p] = "fill" BY <1>own, <1>b DEF JournalFill, JournalSteps
  <2>2. /\ \A name \in {"path", "bak", "tmp"} :
              attempt'[name] = IF attempt[name] = p THEN job[p].record ELSE attempt[name]
        /\ at'[p] = "clear" /\ \A q \in Apps \ {p} : at'[q] = at[q]
        /\ UNCHANGED <<job, owed>> /\ job[p].record \in Records
    BY <1>b, <1>t DEF JournalFill, Goto, historyVars, Job
  <2>3. \A q \in Apps : InJournal(q)' = InJournal(q) /\ Alone(q)' = Alone(q)
    BY <2>1, <2>2 DEF InJournal, Alone
  <2>4. \A q \in Apps \ {p} : InJournal(q) => job[q].overlaps
    BY <2>1 DEF JournalIsOwn, Alone
  <2>5. JournalIsOwn' BY <2>1, <2>2, <2>3, <2>4, <1>t DEF JournalIsOwn, JournalSteps
  <2>6. OwedIsThere' BY <2>1, <2>2, <2>3 DEF OwedIsThere, JournalIsOwn
  <2> QED BY <2>5, <2>6
<1>bc. ASSUME NEW p \in Apps, JournalClear(p) PROVE JournalInv'
  <2>1. InJournal(p) /\ at[p] = "clear" BY <1>own, <1>bc DEF JournalClear, JournalSteps
  <2>2. /\ attempt'["tmp"] = attempt["tmp"] /\ attempt'["path"] = attempt["path"]
        /\ attempt'["bak"] = (IF attempt["path"] = "none" THEN attempt["bak"] ELSE "none")
        /\ at'[p] \in {"aside", "place"} /\ \A q \in Apps \ {p} : at'[q] = at[q]
        /\ UNCHANGED <<job, owed>>
    BY <1>bc, <1>t DEF JournalClear, Goto, historyVars
  <2>3. \A q \in Apps : InJournal(q)' = InJournal(q) /\ Alone(q)' = Alone(q)
    BY <2>1, <2>2 DEF InJournal, Alone
  <2>5. JournalIsOwn' BY <2>1, <2>2, <2>3, <1>t DEF JournalIsOwn, JournalSteps
  <2>6. OwedIsThere' BY <2>2, <2>3 DEF OwedIsThere, Unsettled
  <2> QED BY <2>5, <2>6
<1>c. ASSUME NEW p \in Apps, JournalAside(p) PROVE JournalInv'
  <2>1. InJournal(p) /\ at[p] = "aside" BY <1>own, <1>c DEF JournalAside, JournalSteps
  <2>2. /\ attempt'["tmp"] = attempt["tmp"]
        /\ attempt["path"] # "none" /\ attempt'["path"] = "none" /\ attempt'["bak"] = attempt["path"]
        /\ at'[p] = "place" /\ \A q \in Apps \ {p} : at'[q] = at[q]
        /\ UNCHANGED <<job, owed>>
    BY <1>c, <1>t DEF JournalAside, SetAside, Goto, historyVars
  <2>3. \A q \in Apps : InJournal(q)' = InJournal(q) /\ Alone(q)' = Alone(q)
    BY <2>1, <2>2 DEF InJournal, Alone
  <2>5. JournalIsOwn' BY <2>1, <2>2, <2>3, <1>t DEF JournalIsOwn, JournalSteps
  <2>6. OwedIsThere' BY <2>1, <2>2, <2>3 DEF OwedIsThere, Unsettled
  <2> QED BY <2>5, <2>6
<1>d. ASSUME NEW p \in Apps, JournalPlace(p) PROVE JournalInv'
  <2>1. InJournal(p) /\ at[p] = "place" BY <1>own, <1>d DEF JournalPlace, JournalSteps
  <2>2. /\ attempt'["path"] = attempt["tmp"] /\ attempt'["bak"] = attempt["bak"] /\ attempt'["tmp"] = "none"
        /\ at'[p] \in {"lock", "idle"} /\ \A q \in Apps \ {p} : at'[q] = at[q] /\ job'[q] = job[q]
        /\ at'[p] = "lock" => job' = job
    BY <1>d, <1>t DEF JournalPlace, Goto, Leave
  <2>3. /\ \A q \in Apps : InJournal(q)' => InJournal(q) /\ job'[q] = job[q]
        /\ \A q \in Apps : Alone(q) => Alone(q)'
    BY <2>1, <2>2 DEF InJournal, Alone
  <2>4. \A q \in Apps \ {p} : InJournal(q) => job[q].overlaps
    BY <2>1 DEF JournalIsOwn, Alone
  <2>5. JournalIsOwn' BY <2>1, <2>2, <2>3, <2>4, <1>t DEF JournalIsOwn, JournalSteps
  <2>6. OwedIsThere'
    <3>1. CASE job[p].record = "in_progress" /\ ~job[p].overlaps
      <4>1. attempt["tmp"] = "in_progress" BY <2>1, <3>1 DEF JournalIsOwn
      <4>2. \A q \in Apps \ {p} : ~InJournal(q)' BY <2>1, <2>3, <3>1 DEF JournalIsOwn, Alone
      <4>3. at'[p] = "lock" BY <1>d, <1>t, <3>1 DEF JournalPlace, Goto
      <4> QED BY <2>2, <3>1, <4>1, <4>2, <4>3 DEF OwedIsThere, Unsettled
    <3>2. CASE job[p].record \in {"in_progress", "settled"} /\ ~(job[p].record = "in_progress" /\ ~job[p].overlaps)
      <4>1. ~owed' BY <1>d, <1>t, <3>2 DEF JournalPlace, Job
      <4> QED BY <4>1 DEF OwedIsThere
    <3>3. CASE job[p].record \notin {"in_progress", "settled"}
      <4>1. owed' = owed /\ job[p].record = "reconciliation_required"
        BY <1>d, <1>t, <3>3 DEF JournalPlace, Job, Records
      <4>2. owed => attempt["tmp"] = "reconciliation_required"
        BY <2>1, <4>1 DEF JournalIsOwn, OwedIsThere
      <4> QED BY <2>2, <2>3, <4>1, <4>2 DEF OwedIsThere, Unsettled
    <3> QED BY <3>1, <3>2, <3>3
  <2> QED BY <2>5, <2>6
<1>e. ASSUME NEW p \in Apps, JournalFails(p) PROVE JournalInv'
  <2>1. InJournal(p) BY <1>own, <1>e DEF JournalFails
  <2>2. /\ at'[p] = "idle" /\ \A q \in Apps \ {p} : at'[q] = at[q] /\ job'[q] = job[q]
        /\ UNCHANGED owed /\ DOMAIN attempt = {"path", "bak", "tmp"}
    BY <1>e, <1>t DEF JournalFails, Leave, historyVars
  <2>3. /\ \A q \in Apps : InJournal(q)' => q # p /\ InJournal(q) /\ job'[q] = job[q]
        /\ \A q \in Apps : Alone(q) => Alone(q)'
    BY <2>1, <2>2 DEF InJournal, Alone
  <2>4. \A q \in Apps \ {p} : InJournal(q) => job[q].overlaps
    BY <2>1 DEF JournalIsOwn, Alone
  <2>5. CASE attempt' = Abandoned(p)
    <3>1. JournalIsOwn' BY <2>1, <2>2, <2>3, <2>4, <2>5, <1>t DEF JournalIsOwn, JournalSteps, Abandoned
    <3>2. OwedIsThere' BY <2>2, <2>3, <2>5, <1>t DEF OwedIsThere, Abandoned, Unsettled
    <3> QED BY <3>1, <3>2
  <2>6. CASE at[p] = "create" /\ attempt' = [attempt EXCEPT !["tmp"] = "none"]
    <3>1. JournalIsOwn' BY <2>1, <2>2, <2>3, <2>4, <2>6, <1>t DEF JournalIsOwn, JournalSteps
    <3>2. OwedIsThere' BY <2>2, <2>3, <2>6, <1>t DEF OwedIsThere
    <3> QED BY <3>1, <3>2
  <2>7. CASE attempt' # Abandoned(p) /\ ~(at[p] = "create" /\ attempt' = [attempt EXCEPT !["tmp"] = "none"])
    <3>1. /\ at[p] = "place" /\ attempt["path"] = "none"
          /\ attempt'["path"] = attempt["bak"] /\ attempt'["bak"] = "none" /\ attempt'["tmp"] = attempt["tmp"]
      BY <1>e, <2>7, <1>t DEF JournalFails
    <3>2. JournalIsOwn' BY <2>1, <2>2, <2>3, <2>4, <3>1, <1>t DEF JournalIsOwn, JournalSteps
    <3>3. OwedIsThere' BY <2>2, <2>3, <3>1 DEF OwedIsThere, Unsettled
    <3> QED BY <3>2, <3>3
  <2> QED BY <2>5, <2>6, <2>7
<1>f. ASSUME NEW p \in Apps, Starting(p) PROVE JournalInv'
  <2>1. ASSUME NEW new \in Job, new.kind \in {"install", "reconcile"}, StartJournaled(p, new)
        PROVE  JournalInv'
    <3>1. /\ at[p] = "idle" /\ at'[p] = "create" /\ UNCHANGED attempt
          /\ \A q \in Apps \ {p} : at'[q] = at[q] /\ job'[q].kind = job[q].kind /\ job'[q].record = job[q].record
          /\ job'[p].kind \in {"install", "reconcile"}
          /\ job'[p].overlaps = ~Alone(p)
          /\ \A q \in Apps \ {p} : InJournal(q) => job'[q].overlaps
          /\ owed' = (owed /\ Alone(p))
      BY <2>1, <1>t DEF StartJournaled, Start, Goto, Job
    <3>2. /\ \A q \in Apps \ {p} : InJournal(q)' = InJournal(q)
          /\ Alone(p)' = Alone(p)
      BY <3>1 DEF InJournal, Alone
    <3>3. Alone(p) \in BOOLEAN BY DEF Alone, InJournal
    <3>4. JournalIsOwn'
      <4>1. \A q \in Apps \ {p} : InJournal(q)' => job'[q].overlaps BY <3>1, <3>2
      <4>2. ~job'[p].overlaps => Alone(p)' BY <3>1, <3>2, <3>3
      <4>3. \A q \in Apps : at'[q] \in JournalSteps => job'[q].kind \in {"install", "reconcile"}
        BY <3>1 DEF JournalIsOwn
      <4>4. \A q \in Apps : \A name \in {"path", "bak", "tmp"} : attempt'[name] = q => at'[q] = "fill"
        BY <3>1, <1>t DEF JournalIsOwn
      <4> QED BY <3>1, <4>1, <4>2, <4>3, <4>4 DEF JournalIsOwn
    <3>5. OwedIsThere' BY <3>1, <3>2, <3>3 DEF OwedIsThere, Alone
    <3> QED BY <3>4, <3>5
  <2>2. CASE StartInstall(p) \/ StartReconcile(p)
    <3>1. [NoJob EXCEPT !.kind = "install", !.record = "in_progress"] \in Job
      BY InstallFacts DEF NoJob, Job, Records
    <3>2. [NoJob EXCEPT !.kind = "reconcile"] \in Job BY InstallFacts DEF NoJob, Job, Records
    <3> QED BY <2>1, <2>2, <3>1, <3>2 DEF StartInstall, StartReconcile, NoJob
  <2>3. CASE StartApply(p) \/ StartRollback(p)
    <3>1. /\ at[p] = "idle" /\ at'[p] \in {"lock", "lockRollback"} /\ UNCHANGED <<attempt, owed>>
          /\ \A q \in Apps \ {p} : at'[q] = at[q] /\ job'[q] = job[q]
          /\ job'[p].kind \in {"apply", "rollback"}
      <4>1. CASE StartApply(p) BY <4>1, <1>t DEF StartApply, Start, Goto, NoJob
      <4>2. CASE StartRollback(p) BY <4>2, <1>t DEF StartRollback, Start, Goto, NoJob
      <4> QED BY <2>3, <4>1, <4>2
    <3>2. \A q \in Apps : InJournal(q)' = InJournal(q) /\ Alone(q)' = Alone(q)
      BY <3>1 DEF InJournal, Alone
    <3>3. \A q \in Apps : InJournal(q) => q # p BY <3>1 DEF InJournal
    <3> QED BY <3>1, <3>2, <3>3, <1>t DEF JournalIsOwn, OwedIsThere, JournalSteps
  <2> QED BY <1>f, <2>2, <2>3 DEF Starting
<1>g. ASSUME NEW p \in Apps, Installing(p) PROVE JournalInv'
  <2>1. CASE TakeLock(p)
    <3>1. CASE Fails(p) BY <1>3, <2>1, <3>1 DEF TakeLock
    <3>2. CASE ~Fails(p)
      <4>1. /\ UNCHANGED <<attempt, owed>> /\ \A q \in Apps \ {p} : at'[q] = at[q] /\ job'[q] = job[q]
            /\ at[p] = "lock" /\ at'[p] \in {"recheck", "exact", "backup"}
            /\ job'[p].kind = job[p].kind /\ job'[p].overlaps = job[p].overlaps
            /\ job'[p].record = job[p].record
        BY <2>1, <3>2, <1>t DEF TakeLock, Goto, Job, historyVars
      <4> QED BY <1>1, <4>1 DEF JournalSteps
    <3> QED BY <3>1, <3>2
  <2>2. CASE ~TakeLock(p)
    <3>1. at[p] \in LockedSteps
      BY <1>g, <2>2 DEF Installing, ExactReceipt, ExactDone, BackUp, Recheck, ReplaceStaged, Readback,
            Activate, Written, Undo, Restore, UndoReceipt, LockedSteps
    <3>2. Fails(p) \/ Succeeds(p) \/ \E step \in LockedSteps : Proceeds(p, step)
      BY <1>g, <2>2 DEF Installing, ExactReceipt, ExactDone, BackUp, Recheck, ReplaceStaged, Readback,
            Activate, Written, Undo, Restore, UndoReceipt, LockedSteps
    <3> QED BY <1>3, <1>4, <3>1, <3>2
  <2> QED BY <2>1, <2>2
<1>h. ASSUME NEW p \in Apps, RollingBack(p) PROVE JournalInv'
  <2>1. CASE LockRollback(p)
    <3>1. CASE Fails(p) BY <1>3, <2>1, <3>1 DEF LockRollback
    <3>2. CASE ~Fails(p)
      <4>1. /\ UNCHANGED <<attempt, owed>> /\ \A q \in Apps \ {p} : at'[q] = at[q] /\ job'[q] = job[q]
            /\ at[p] = "lockRollback" /\ at'[p] = "swap"
            /\ job'[p].kind = job[p].kind /\ job'[p].overlaps = job[p].overlaps
            /\ job'[p].record = job[p].record
        BY <2>1, <3>2, <1>t DEF LockRollback, Goto, Job, historyVars
      <4> QED BY <1>1, <4>1 DEF JournalSteps
    <3> QED BY <3>1, <3>2
  <2>2. CASE Swap(p)
    <3>1. CASE Proceeds(p, "swapBack") BY <1>4, <2>2, <3>1 DEF Swap, LockedSteps
    <3>2. CASE ~Proceeds(p, "swapBack")
      <4>1. /\ UNCHANGED <<attempt, owed, job>> /\ \A q \in Apps \ {p} : at'[q] = at[q]
            /\ at[p] = "swap" /\ at'[p] \in {"swapped", "swapBack"}
        BY <2>2, <3>2, <1>t DEF Swap, Goto
      <4> QED BY <1>1, <4>1 DEF JournalSteps
    <3> QED BY <3>1, <3>2
  <2>3. CASE Swapped(p) BY <1>4, <2>3 DEF Swapped, LockedSteps
  <2>4. CASE Checked(p) BY <1>3, <1>4, <2>4 DEF Checked, LockedSteps
  <2>5. CASE SwapBack(p) BY <1>3, <2>5 DEF SwapBack, LockedSteps
  <2>6. CASE Persist(p)
    <3>1. /\ UNCHANGED <<attempt, owed>> /\ \A q \in Apps \ {p} : at'[q] = at[q] /\ job'[q] = job[q]
          /\ at[p] = "persist" /\ at'[p] = "idle"
      BY <2>6, <1>t DEF Persist, Leave, historyVars
    <3> QED BY <1>2, <3>1 DEF JournalSteps
  <2> QED BY <1>h, <2>1, <2>2, <2>3, <2>4, <2>5, <2>6 DEF RollingBack
<1>i. ASSUME NEW p \in Apps, Die(p) PROVE JournalInv'
  <2>1. /\ at'[p] = "idle" /\ at[p] # "idle" /\ \A q \in Apps \ {p} : at'[q] = at[q] /\ job'[q] = job[q]
        /\ UNCHANGED owed /\ attempt' = Abandoned(p) /\ DOMAIN attempt = {"path", "bak", "tmp"}
    BY <1>i, <1>t DEF Die, Leave
  <2>2. CASE at[p] \notin JournalSteps BY <1>2, <2>1, <2>2
  <2>3. CASE at[p] \in JournalSteps
    <3>1. InJournal(p) BY <1>own, <2>3
    <3>2. /\ \A q \in Apps : InJournal(q)' => q # p /\ InJournal(q) /\ job'[q] = job[q]
          /\ \A q \in Apps : Alone(q) => Alone(q)'
      BY <2>1 DEF InJournal, Alone
    <3>3. \A q \in Apps \ {p} : InJournal(q) => job[q].overlaps
      BY <3>1 DEF JournalIsOwn, Alone
    <3>4. JournalIsOwn' BY <2>1, <3>1, <3>2, <3>3, <1>t DEF JournalIsOwn, JournalSteps, Abandoned
    <3>5. OwedIsThere' BY <2>1, <3>2, <1>t DEF OwedIsThere, Abandoned, Unsettled
    <3> QED BY <3>4, <3>5
  <2> QED BY <2>2, <2>3
<1>j. ASSUME UNCHANGED <<attempt, owed, at, job>> PROVE JournalInv'
  BY <1>1, <1>j
<1>k. CASE ReadLifecycle BY <1>j, <1>k DEF ReadLifecycle, historyVars
<1>l. CASE Update BY <1>j, <1>l DEF Update, historyVars
<1>m. CASE Intrude BY <1>j, <1>m DEF Intrude
<1>n. CASE UNCHANGED installVars BY <1>j, <1>n DEF installVars, historyVars
<1> QED BY <1>a, <1>b, <1>bc, <1>c, <1>d, <1>e, <1>f, <1>g, <1>h, <1>i, <1>k, <1>l, <1>m, <1>n
        DEF InstallNext, Journaling
-----------------------------------------------------------------------------
InstallInv == KeptInv /\ JournalInv

LEMMA InstallInitInv == InstallInit => InstallInv
<1> SUFFICES ASSUME InstallInit PROVE InstallInv
  OBVIOUS
<1>1. InstallTypeOK
  <2>1. attempt \in [{"path", "bak", "tmp"} -> Records \cup Unreadable \cup {"none"}]
    BY DEF InstallInit
  <2>2. job \in [Apps -> Job] BY InstallFacts DEF InstallInit
  <2>3. at \in [Apps -> {"idle", "lock", "lockRollback", "persist"} \cup JournalSteps \cup LockedSteps]
    BY DEF InstallInit
  <2>4. commands \in 0..MaxCommands /\ touches \in 0..MaxTouches BY InstallFacts DEF InstallInit
  <2> QED BY <2>1, <2>2, <2>3, <2>4 DEF InstallInit, InstallTypeOK
<1>2. KeptInv
  BY <1>1 DEF InstallInit, KeptInv, Exclusive, Locked, LockedSteps, FoundAsLeft, GoodWhileLocked, Spared,
        BuildIsKept
<1>3. JournalInv
  BY InstallAssumption DEF InstallInit, JournalInv, JournalIsOwn, OwedIsThere, InJournal, JournalSteps, Records
<1> QED BY <1>2, <1>3 DEF InstallInv

LEMMA InstallInvariant == InstallSpec => []InstallInv
<1>1. InstallInv /\ [InstallNext]_installVars => InstallInv'
  BY InstallStep, KeptStep, JournalStep DEF InstallInv, KeptInv, LockInv
<1> QED BY InstallInitInv, <1>1, PTL DEF InstallSpec

\* Every variable of the installation keeps its type: no command, kill or failed rename puts
\* anything but a build, a foreign file or nothing where the Runtime is expected.
THEOREM InstallTypes == InstallSpec => []InstallTypeOK
<1>1. InstallInv => InstallTypeOK BY DEF InstallInv, KeptInv
<1> QED BY InstallInvariant, <1>1, PTL

\* For any number of application processes, builds and commands, through every failure and
\* death: the build that target and receipt agreed on last is still there as the target or
\* as its backup, unless someone without the lock has interfered or a rollback gave it up.
THEOREM BuildsAreKept == InstallSpec => []BuildIsKept
<1>1. InstallInv => BuildIsKept BY DEF InstallInv, KeptInv
<1> QED BY InstallInvariant, <1>1, PTL

\* An install that was begun alone and has not succeeded blocks the next one until it is
\* reconciled, at whichever step a death or an error stops the rewriting of its journal.
THEOREM InterruptionsArePending == InstallSpec => []InterruptedIsPending
<1>1. InstallInv => InterruptedIsPending
  BY DEF InstallInv, JournalInv, OwedIsThere, InterruptedIsPending, Pending, Candidate, Unsettled
<1> QED BY InstallInvariant, <1>1, PTL
=============================================================================
