--------------------------- MODULE DeliveryProofs ---------------------------
(***************************************************************************)
(* What the sessions of an issue can rely on without a lock, for any       *)
(* number of sessions, surveys and hours: what a later claim means, and    *)
(* whose uncommitted changes a cleanup may delete.                         *)
(***************************************************************************)
EXTENDS Delivery, TLAPS

\* The claims are in the order of their times, none in the future: the newest of those
\* read is the one that decides for all of them.
ClaimsInOrder ==
    /\ \A i, j \in 1..Len(claims) : i < j => claims[i].at <= claims[j].at
    /\ \A i \in 1..Len(claims) : claims[i].at <= clock

\* A decision to take the issue was justified against each claim it knew.
DecisionJustified ==
    \A s \in Sessions : decision[s].action \in {"OWN", "RECLAIM_STALE"} =>
        \A i \in 1..decision[s].seen : decision[s].at - claims[i].at >= StaleHours

\* A session that runs or has exited has its branch until that is merged; with a receipt
\* it runs only if it came back.
ReceiptMeansExit ==
    /\ \A s \in active \cup receipt : s \in local \/ pr[s] # "none"
    /\ receipt \cap active \subseteq woken

\* What the cleanup has found out stays true, except that a session may come back.
JobKnows ==
    /\ job.safe => job.for \in receipt
    /\ job.merged => pr[job.for] = "merged"
    /\ job.at \in {"tree", "local", "remote"} => job.safe /\ job.merged
    /\ job.at = "tree" => (tree[job.for] = "dirty" => job.for \in woken)

\* The invariant of what the coordinator sees, and that of the work and its cleanup:
\* neither needs the other.
BoardInv ==
    /\ clock \in 0..MaxClock /\ surveys \in 0..MaxSurveys
    /\ claims \in Seq([branch : Sessions, at : 0..MaxClock, seen : Nat, decided : 0..MaxClock])
    /\ view \in [Sessions -> [at : {"none", "prs", "full"}, seen : 0..Len(claims),
                              merged : BOOLEAN]]
    /\ decision \in [Sessions -> [action : Going \cup {"none"}, at : 0..MaxClock,
                                  seen : 0..Len(claims)]]
    /\ ClaimsInOrder /\ DecisionJustified /\ LaterClaimIsJustified

WorkInv ==
    /\ pr \in [Sessions -> {"none", "open", "merged"}]
    /\ tree \in [Sessions -> {"none", "clean", "dirty", "torn"}]
    /\ \A set \in {local, remote, active, receipt, woken} : set \subseteq Sessions
    /\ upsets \in 0..MaxUpsets
    /\ job \in [at : {"checked", "tree", "local", "remote"}, for : Sessions,
                safe : BOOLEAN, merged : BOOLEAN] \cup {NoJob}
    /\ ReceiptMeansExit /\ JobKnows

DeliveryInv == BoardInv /\ WorkInv
-----------------------------------------------------------------------------
LEMMA Bounds == StaleHours \in Nat /\ MaxClock \in Nat /\ MaxSurveys \in Nat /\ MaxUpsets \in Nat
  BY DeliveryAssumption

LEMMA NoJobFacts == NoJob.at = "idle" /\ ~NoJob.safe /\ ~NoJob.merged
  BY DEF NoJob

LEMMA DeliveryInitInv == Init => DeliveryInv
<1> SUFFICES ASSUME Init PROVE DeliveryInv
  OBVIOUS
<1>1. BoardInv
  BY Bounds DEF Init, BoardInv, ClaimsInOrder, DecisionJustified, LaterClaimIsJustified,
                NoView, NoDecision, Going
<1>2. WorkInv
  <2>1. ReceiptMeansExit BY DEF Init, ReceiptMeansExit
  <2>2. JobKnows BY NoJobFacts DEF Init, JobKnows
  <2> QED BY Bounds, <2>1, <2>2 DEF Init, WorkInv
<1> QED BY <1>1, <1>2 DEF DeliveryInv

LEMMA ClaimTimes ==
  ASSUME BoardInv
  PROVE  \A i \in 1..Len(claims) : claims[i].at \in Nat /\ claims[i].at <= clock
<1>1. \A i \in 1..Len(claims) :
        claims[i] \in [branch : Sessions, at : 0..MaxClock, seen : Nat, decided : 0..MaxClock]
  <2> DEFINE R == [branch : Sessions, at : 0..MaxClock, seen : Nat, decided : 0..MaxClock]
  <2>1. claims \in Seq(R) BY DEF BoardInv
  <2> HIDE DEF R
  <2>2. \A i \in 1..Len(claims) : claims[i] \in R BY <2>1
  <2> QED BY <2>2 DEF R
<1>2. \A i \in 1..Len(claims) : claims[i].at \in 0..MaxClock BY <1>1
<1>3. \A i \in 1..Len(claims) : claims[i].at \in Nat BY <1>2, Bounds
<1> QED BY <1>3 DEF BoardInv, ClaimsInOrder

LEMMA TickBoard == ASSUME BoardInv, Tick PROVE BoardInv'
<1>1. clock' = clock + 1 /\ clock' \in 0..MaxClock /\ UNCHANGED boardVars
  BY Bounds DEF Tick, BoardInv
<1>2. ClaimsInOrder'
  <2>1. claims' = claims /\ clock \in Nat BY <1>1 DEF boardVars, BoardInv
  <2>2. \A i \in 1..Len(claims) : claims[i].at <= clock' BY <1>1, <2>1, ClaimTimes
  <2> QED BY <2>1, <2>2 DEF BoardInv, ClaimsInOrder
<1>3. DecisionJustified' /\ LaterClaimIsJustified'
  BY <1>1 DEF BoardInv, DecisionJustified, LaterClaimIsJustified, boardVars
<1> QED BY <1>1, <1>2, <1>3 DEF BoardInv, boardVars

LEMMA SurveyBoard ==
  ASSUME BoardInv, NEW s \in Sessions, SurveyPrs(s) \/ SurveyIssue(s)
  PROVE  BoardInv'
<1> DEFINE View == [at : {"none", "prs", "full"}, seen : 0..Len(claims), merged : BOOLEAN]
<1>1. UNCHANGED <<clock, claims, decision>> BY DEF SurveyPrs, SurveyIssue
<1>2. surveys' \in 0..MaxSurveys
  <2>1. surveys \in 0..MaxSurveys BY DEF BoardInv
  <2>2. CASE SurveyPrs(s) BY <2>1, <2>2, Bounds DEF SurveyPrs
  <2>3. CASE SurveyIssue(s) BY <2>1, <2>3 DEF SurveyIssue
  <2> QED BY <2>2, <2>3
<1>3. Len(claims) \in Nat /\ view \in [Sessions -> View] BY DEF BoardInv
<1>4. view' \in [Sessions -> View]
  <2>1. CASE SurveyPrs(s)
    <3>1. AnyMerged \in BOOLEAN BY DEF AnyMerged
    <3>2. [at |-> "prs", seen |-> 0, merged |-> AnyMerged] \in View BY <1>3, <3>1
    <3> QED BY <1>3, <2>1, <3>2 DEF SurveyPrs
  <2>2. CASE SurveyIssue(s)
    <3> DEFINE v == [view[s] EXCEPT !.at = "full", !.seen = Len(claims)]
    <3>1. v \in View
      <4>1. view[s] \in View /\ Len(claims) \in 0..Len(claims) BY <1>3
      <4> QED BY <4>1
    <3>2. view' = [view EXCEPT ![s] = v] BY <2>2 DEF SurveyIssue
    <3> HIDE DEF v
    <3> QED BY <1>3, <3>1, <3>2
  <2> QED BY <2>1, <2>2
<1>5. ClaimsInOrder' /\ DecisionJustified' /\ LaterClaimIsJustified'
  BY <1>1 DEF BoardInv, ClaimsInOrder, DecisionJustified, LaterClaimIsJustified
<1> QED BY <1>1, <1>2, <1>4, <1>5 DEF BoardInv

\* The age that decides is that of the newest claim known; every other is older.
LEMMA DecideBoard == ASSUME BoardInv, NEW s \in Sessions, CmdDecide(s) PROVE BoardInv'
<1> DEFINE seen == view[s].seen
           action == Decide(s, seen, view[s].merged)
           new == IF action \in Going THEN [action |-> action, at |-> clock, seen |-> seen]
                  ELSE NoDecision
           Decision == [action : Going \cup {"none"}, at : 0..MaxClock, seen : 0..Len(claims)]
<1>1. decision' = [decision EXCEPT ![s] = new] /\ UNCHANGED <<clock, claims, view, surveys>>
  BY DEF CmdDecide
<1>2. seen \in 0..Len(claims) /\ Len(claims) \in Nat /\ clock \in 0..MaxClock BY DEF BoardInv
<1>3. new \in Decision BY <1>2, Bounds DEF NoDecision
<1>4. ASSUME new.action \in {"OWN", "RECLAIM_STALE"}, NEW i \in 1..new.seen
      PROVE  new.at - claims[i].at >= StaleHours
  <2>1. new = [action |-> action, at |-> clock, seen |-> seen]
    BY <1>4 DEF NoDecision
  <2>2. seen > 0 /\ action = "RECLAIM_STALE" /\ i \in 1..seen
    BY <1>2, <1>4, <2>1 DEF Decide
  <2>3. ~(clock - claims[seen].at < StaleHours) BY <2>2 DEF Decide, LastClaim
  <2>4. /\ seen \in 1..Len(claims) /\ i \in 1..Len(claims) /\ i <= seen
        /\ claims[seen].at \in Nat /\ claims[i].at \in Nat
    <3>1. seen \in 1..Len(claims) /\ i \in 1..Len(claims) /\ i <= seen BY <1>2, <2>2
    <3> QED BY <3>1, ClaimTimes
  <2>5. claims[i].at <= claims[seen].at
    <3>1. CASE i = seen BY <2>4, <3>1
    <3>2. CASE i < seen BY <2>4, <3>2 DEF BoardInv, ClaimsInOrder
    <3> QED BY <1>2, <2>4, <3>1, <3>2
  <2> QED BY <1>2, <2>1, <2>3, <2>4, <2>5, Bounds
<1> HIDE DEF new
<1>5. decision' \in [Sessions -> Decision] BY <1>1, <1>3 DEF BoardInv
<1>6. DecisionJustified'
  BY <1>1, <1>4 DEF BoardInv, DecisionJustified
<1>7. ClaimsInOrder' /\ LaterClaimIsJustified'
  BY <1>1 DEF BoardInv, ClaimsInOrder, LaterClaimIsJustified
<1> QED BY <1>1, <1>5, <1>6, <1>7 DEF BoardInv

\* The new claim is made now, by a decision that was justified against what it knew.
LEMMA ClaimBoard == ASSUME BoardInv, NEW s \in Sessions, Claim(s) PROVE BoardInv'
<1> DEFINE new == [branch |-> s, at |-> clock, seen |-> decision[s].seen,
                   decided |-> decision[s].at]
           n == Len(claims)
<1>1. /\ decision[s].action \in {"OWN", "RECLAIM_STALE"}
      /\ claims' = Append(claims, new)
      /\ decision' = [decision EXCEPT ![s] = NoDecision]
      /\ UNCHANGED <<clock, view, surveys>>
  BY DEF Claim
<1>2. /\ n \in Nat /\ clock \in 0..MaxClock
      /\ decision[s].seen \in 0..n /\ decision[s].at \in 0..MaxClock
  BY DEF BoardInv
<1>3. new \in [branch : Sessions, at : 0..MaxClock, seen : Nat, decided : 0..MaxClock]
  BY <1>2
<1>4. /\ claims' \in Seq([branch : Sessions, at : 0..MaxClock, seen : Nat, decided : 0..MaxClock])
      /\ Len(claims') = n + 1 /\ claims'[n + 1] = new
      /\ \A i \in 1..n : claims'[i] = claims[i]
  BY <1>1, <1>3 DEF BoardInv
<1>5. new.at = clock /\ new.seen = decision[s].seen /\ new.decided = decision[s].at OBVIOUS
<1> HIDE DEF new
<1>6. /\ view' \in [Sessions -> [at : {"none", "prs", "full"}, seen : 0..Len(claims'),
                                 merged : BOOLEAN]]
      /\ decision' \in [Sessions -> [action : Going \cup {"none"}, at : 0..MaxClock,
                                     seen : 0..Len(claims')]]
  <2>1. 0..n \subseteq 0..Len(claims') BY <1>2, <1>4
  <2>2. NoDecision \in [action : Going \cup {"none"}, at : 0..MaxClock, seen : 0..Len(claims')]
    BY <1>2, <1>4, Bounds DEF NoDecision
  <2> QED BY <1>1, <2>1, <2>2 DEF BoardInv
<1>7. ClaimsInOrder'
  <2>1. \A i \in 1..n : claims[i].at <= clock /\ claims[i].at \in Nat
    BY ClaimTimes
  <2>2. \A i \in 1..(n + 1) : i \in 1..n \/ i = n + 1 BY <1>2
  <2>3. \A i \in 1..(n + 1) : claims'[i].at <= clock'
    BY <1>1, <1>2, <1>4, <1>5, <2>1, <2>2
  <2>4. ASSUME NEW i \in 1..(n + 1), NEW j \in 1..(n + 1), i < j
        PROVE  claims'[i].at <= claims'[j].at
    <3>1. i \in 1..n BY <1>2, <2>4
    <3>2. CASE j \in 1..n BY <1>4, <2>4, <3>1, <3>2 DEF BoardInv, ClaimsInOrder
    <3>3. CASE j = n + 1 BY <1>4, <1>5, <2>1, <3>1, <3>3
    <3> QED BY <2>2, <3>2, <3>3
  <2> QED BY <1>4, <2>3, <2>4 DEF ClaimsInOrder
<1>8. DecisionJustified'
  <2> SUFFICES ASSUME NEW t \in Sessions, decision'[t].action \in {"OWN", "RECLAIM_STALE"},
                      NEW i \in 1..decision'[t].seen
               PROVE  decision'[t].at - claims'[i].at >= StaleHours
    BY DEF DecisionJustified
  <2>1. t # s /\ decision'[t] = decision[t] BY <1>1 DEF NoDecision, BoardInv
  <2>2. decision[t].seen \in 0..n BY DEF BoardInv
  <2>3. claims'[i] = claims[i] BY <1>2, <1>4, <2>1, <2>2
  <2> QED BY <2>1, <2>3 DEF BoardInv, DecisionJustified
<1>9. LaterClaimIsJustified'
  <2> SUFFICES ASSUME NEW i \in 1..(n + 1), NEW j \in 1..(n + 1), i < j,
                      claims'[i].branch # claims'[j].branch
               PROVE  \/ claims'[j].seen < i
                      \/ claims'[j].decided - claims'[i].at >= StaleHours
    BY <1>4 DEF LaterClaimIsJustified
  <2>1. i \in 1..n BY <1>2
  <2>2. CASE j \in 1..n BY <1>4, <2>1, <2>2 DEF BoardInv, LaterClaimIsJustified
  <2>3. CASE j = n + 1
    <3>1. CASE i <= decision[s].seen
      <4>1. i \in 1..decision[s].seen BY <1>2, <2>1, <3>1
      <4>2. decision[s].at - claims[i].at >= StaleHours
        BY <1>1, <4>1 DEF BoardInv, DecisionJustified
      <4> QED BY <1>4, <1>5, <2>1, <2>3, <4>2
    <3>2. CASE decision[s].seen < i BY <1>4, <1>5, <2>3, <3>2
    <3> QED BY <1>2, <3>1, <3>2
  <2> QED BY <1>2, <2>2, <2>3
<1> QED BY <1>1, <1>4, <1>6, <1>7, <1>8, <1>9 DEF BoardInv

LEMMA BoardStep == BoardInv /\ [Next]_vars => BoardInv'
<1> SUFFICES ASSUME BoardInv, [Next]_vars PROVE BoardInv'
  OBVIOUS
<1>1. CASE UNCHANGED <<clock, boardVars>>
  BY <1>1 DEF BoardInv, ClaimsInOrder, DecisionJustified, LaterClaimIsJustified, boardVars
<1>2. CASE Tick BY <1>2, TickBoard
<1>3. ASSUME NEW s \in Sessions, Coordinate(s) PROVE BoardInv'
  BY <1>3, SurveyBoard, DecideBoard DEF Coordinate
<1>4. ASSUME NEW s \in Sessions, Work(s) PROVE BoardInv'
  <2>1. CASE Claim(s) BY <2>1, ClaimBoard
  <2>2. CASE Edit(s) \/ Commit(s) \/ Merge(s) \/ Exit(s) \/ Return(s)
    BY <1>1, <2>2 DEF Edit, Commit, Merge, Exit, Return
  <2> QED BY <1>4, <2>1, <2>2 DEF Work
<1>7. ASSUME NEW s \in Sessions, NEW named \in BOOLEAN, Start(s, named) PROVE BoardInv'
  BY <1>1, <1>7 DEF Start
<1>5. CASE Cleanup \/ Stop
  BY <1>1, <1>5 DEF Cleanup, Inspect, RemoveTree, DeleteLocal, DeleteRemote, Stop
<1>6. CASE UNCHANGED vars BY <1>1, <1>6 DEF vars
<1> QED BY <1>2, <1>3, <1>4, <1>5, <1>6, <1>7 DEF Next
-----------------------------------------------------------------------------
\* What the invariant says of the variables that the sessions and the cleanup share.
LEMMA SessionStep ==
  ASSUME WorkInv, NEW s \in Sessions, Work(s)
  PROVE  WorkInv'
<1>1. job' = job BY DEF Work, Claim, Edit, Commit, Merge, Exit, Return
<1>2. upsets' \in 0..MaxUpsets
  BY Bounds DEF Work, Claim, Edit, Commit, Merge, Exit, Return, WorkInv
<1>3. job.for \in Sessions \/ job = NoJob BY DEF WorkInv
<1>4. CASE Claim(s)
  <2>1. /\ pr[s] = "none" /\ local' = local \cup {s} /\ active' = active \cup {s} /\ s \notin local
        /\ tree' = [tree EXCEPT ![s] = "clean"] /\ UNCHANGED <<pr, remote, receipt, woken>>
    BY <1>4 DEF Claim
  <2>2. s \notin receipt BY <2>1 DEF WorkInv, ReceiptMeansExit
  <2>3. ReceiptMeansExit' BY <2>1, <2>2 DEF WorkInv, ReceiptMeansExit
  <2>4. JobKnows'
    <3>1. job.safe => s # job.for BY <2>2 DEF WorkInv, JobKnows
    <3> QED BY <1>1, <2>1, <3>1 DEF WorkInv, JobKnows
  <2> QED BY <1>1, <1>2, <2>1, <2>3, <2>4 DEF WorkInv
<1>5. CASE Edit(s)
  <2>1. /\ s \in active /\ tree' = [tree EXCEPT ![s] = "dirty"]
        /\ UNCHANGED <<pr, local, remote, active, receipt, woken>>
    BY <1>5 DEF Edit
  <2>2. ReceiptMeansExit' BY <2>1 DEF WorkInv, ReceiptMeansExit
  <2>3. JobKnows'
    <3>1. s \in receipt => s \in woken BY <2>1 DEF WorkInv, ReceiptMeansExit
    <3>2. \A t \in Sessions : t # s => tree'[t] = tree[t] BY <2>1 DEF WorkInv
    <3>3. job.safe => job.for \in Sessions BY <1>3, NoJobFacts
    <3> QED BY <1>1, <2>1, <3>1, <3>2, <3>3 DEF WorkInv, JobKnows
  <2> QED BY <1>1, <1>2, <2>1, <2>2, <2>3 DEF WorkInv
<1>6. CASE Commit(s)
  <2>1. /\ s \in active /\ tree' = [tree EXCEPT ![s] = "clean"]
        /\ pr' = [pr EXCEPT ![s] = IF @ = "none" THEN "open" ELSE @]
        /\ remote' = remote \cup {s}
        /\ UNCHANGED <<local, active, receipt, woken>>
    BY <1>6 DEF Commit
  <2>2. /\ pr' \in [Sessions -> {"none", "open", "merged"}]
        /\ \A t \in Sessions : (pr[t] # "none" => pr'[t] # "none")
                               /\ (pr[t] = "merged" => pr'[t] = "merged")
    BY <2>1 DEF WorkInv
  <2>3. ReceiptMeansExit' BY <2>1, <2>2 DEF WorkInv, ReceiptMeansExit
  <2>4. JobKnows'
    <3>1. \A t \in Sessions : tree'[t] = "dirty" => tree[t] = "dirty" BY <2>1 DEF WorkInv
    <3>2. job.merged \/ job.safe => job.for \in Sessions BY <1>3, NoJobFacts
    <3> QED BY <1>1, <2>1, <2>2, <3>1, <3>2 DEF WorkInv, JobKnows
  <2> QED BY <1>1, <1>2, <2>1, <2>2, <2>3, <2>4 DEF WorkInv
<1>7. CASE Merge(s)
  <2>1. /\ pr' = [pr EXCEPT ![s] = "merged"]
        /\ UNCHANGED <<tree, local, remote, active, receipt, woken>>
    BY <1>7 DEF Merge
  <2>2. /\ pr' \in [Sessions -> {"none", "open", "merged"}]
        /\ \A t \in Sessions : (pr[t] # "none" => pr'[t] # "none")
                               /\ (pr[t] = "merged" => pr'[t] = "merged")
    BY <2>1 DEF WorkInv
  <2>3. ReceiptMeansExit' BY <2>1, <2>2 DEF WorkInv, ReceiptMeansExit
  <2>4. JobKnows'
    <3>1. job.merged \/ job.safe => job.for \in Sessions BY <1>3, NoJobFacts
    <3> QED BY <1>1, <2>1, <2>2, <3>1 DEF WorkInv, JobKnows
  <2> QED BY <1>1, <1>2, <2>1, <2>2, <2>3, <2>4 DEF WorkInv
<1>8. CASE Exit(s)
  <2>1. /\ s \in active /\ active' = active \ {s} /\ receipt' = receipt \cup {s}
        /\ UNCHANGED <<pr, tree, local, remote, woken>>
    BY <1>8 DEF Exit
  <2>2. ReceiptMeansExit' BY <2>1 DEF WorkInv, ReceiptMeansExit
  <2>3. JobKnows' BY <1>1, <2>1 DEF WorkInv, JobKnows
  <2> QED BY <1>1, <1>2, <2>1, <2>2, <2>3 DEF WorkInv
<1>9. CASE Return(s)
  <2>1. /\ s \in local /\ active' = active \cup {s} /\ woken' = woken \cup {s}
        /\ UNCHANGED <<pr, tree, local, remote, receipt>>
    BY <1>9 DEF Return
  <2>2. ReceiptMeansExit' BY <2>1 DEF WorkInv, ReceiptMeansExit
  <2>3. JobKnows' BY <1>1, <2>1 DEF WorkInv, JobKnows
  <2> QED BY <1>1, <1>2, <2>1, <2>2, <2>3 DEF WorkInv
<1> QED BY <1>4, <1>5, <1>6, <1>7, <1>8, <1>9 DEF Work

\* A cleanup deletes the branch only of what is merged, so who runs or has exited keeps
\* the branch or its merge.
LEMMA CleanupStep ==
  ASSUME WorkInv, Cleanup
  PROVE  WorkInv'
<1> DEFINE Jobs == [at : {"checked", "tree", "local", "remote"}, for : Sessions,
                    safe : BOOLEAN, merged : BOOLEAN]
<1>0. job.at # "idle" BY DEF Cleanup, Inspect, RemoveTree, DeleteLocal, DeleteRemote
<1>1. job \in Jobs BY <1>0, NoJobFacts DEF WorkInv
<1>2. job.for \in Sessions BY <1>1
<1>3. UNCHANGED <<upsets, pr, active, receipt, woken>>
  BY DEF Cleanup, Inspect, RemoveTree, DeleteLocal, DeleteRemote, workVars
<1>4. CASE Inspect
  <2> DEFINE next == DecideCleanup(job.merged, HasTree(job.for), Dirty(job.for), job.safe)
  <2>1. /\ job' = IF next = "skip" THEN NoJob ELSE [job EXCEPT !.at = next]
        /\ UNCHANGED <<tree, local, remote>>
    BY <1>4 DEF Inspect, workVars
  <2>2. CASE next = "skip"
    <3>1. JobKnows' BY <2>1, <2>2, NoJobFacts DEF JobKnows
    <3> QED BY <1>3, <2>1, <2>2, <3>1 DEF WorkInv, ReceiptMeansExit
  <2>3. CASE next # "skip"
    <3>1. /\ next \in {"tree", "local"} /\ job.merged /\ job.safe
          /\ next = "tree" => tree[job.for] # "dirty"
      BY <2>3 DEF DecideCleanup, HasTree, Dirty
    <3>2. job' = [job EXCEPT !.at = next] BY <2>1, <2>3
    <3> HIDE DEF next
    <3>3. /\ job' \in Jobs /\ job'.at = next /\ job'.for = job.for
          /\ job'.safe = job.safe /\ job'.merged = job.merged
      BY <1>1, <3>1, <3>2
    <3>4. JobKnows' BY <1>3, <2>1, <3>1, <3>3 DEF WorkInv, JobKnows
    <3> QED BY <1>3, <2>1, <3>3, <3>4 DEF WorkInv, ReceiptMeansExit
  <2> QED BY <2>2, <2>3
<1>5. CASE RemoveTree
  <2>1. /\ job.at = "tree"
        /\ job' = IF ~HasTree(job.for) THEN NoJob ELSE [job EXCEPT !.at = "local"]
        /\ tree' = [tree EXCEPT ![job.for] = "none"]
        /\ UNCHANGED <<local, remote>>
    BY <1>5 DEF RemoveTree
  <2>2. tree' \in [Sessions -> {"none", "clean", "dirty", "torn"}] BY <2>1 DEF WorkInv
  <2>3. \/ job' = NoJob
        \/ /\ job' \in Jobs /\ job'.at = "local" /\ job'.for = job.for
           /\ job'.safe = job.safe /\ job'.merged = job.merged
    BY <1>1, <2>1
  <2>4. JobKnows' BY <1>3, <2>1, <2>3, NoJobFacts DEF WorkInv, JobKnows
  <2>5. ReceiptMeansExit' BY <1>3, <2>1 DEF WorkInv, ReceiptMeansExit
  <2> QED BY <1>3, <2>1, <2>2, <2>3, <2>4, <2>5 DEF WorkInv
<1>6. CASE DeleteLocal
  <2>1. /\ job.at = "local" /\ local \ {job.for} \subseteq local' /\ local' \subseteq local
        /\ job' = NoJob \/ job' = [job EXCEPT !.at = "remote"]
        /\ UNCHANGED <<tree, remote>>
    BY <1>6 DEF DeleteLocal
  <2>2. \/ job' = NoJob
        \/ /\ job' \in Jobs /\ job'.at = "remote" /\ job'.for = job.for
           /\ job'.safe = job.safe /\ job'.merged = job.merged
    BY <1>1, <2>1
  <2>3. JobKnows' BY <1>3, <2>1, <2>2, NoJobFacts DEF WorkInv, JobKnows
  <2>4. pr[job.for] = "merged" BY <2>1 DEF WorkInv, JobKnows
  <2>5. ReceiptMeansExit' BY <1>3, <2>1, <2>4 DEF WorkInv, ReceiptMeansExit
  <2> QED BY <1>3, <2>1, <2>2, <2>3, <2>5 DEF WorkInv
<1>7. CASE DeleteRemote
  <2>1. job' = NoJob /\ remote' = remote \ {job.for} /\ UNCHANGED <<tree, local>>
    BY <1>7 DEF DeleteRemote
  <2>2. JobKnows' BY <2>1, NoJobFacts DEF JobKnows
  <2>3. ReceiptMeansExit' BY <1>3, <2>1 DEF WorkInv, ReceiptMeansExit
  <2> QED BY <1>3, <2>1, <2>2, <2>3 DEF WorkInv
<1> QED BY <1>4, <1>5, <1>6, <1>7 DEF Cleanup

LEMMA WorkStep == WorkInv /\ [Next]_vars => WorkInv'
<1> SUFFICES ASSUME WorkInv, [Next]_vars PROVE WorkInv'
  OBVIOUS
<1>1. CASE UNCHANGED <<upsets, workVars, job>>
  BY <1>1 DEF WorkInv, ReceiptMeansExit, JobKnows, workVars
<1>2. CASE Tick BY <1>1, <1>2 DEF Tick
<1>3. ASSUME NEW s \in Sessions, Coordinate(s) PROVE WorkInv'
  BY <1>1, <1>3 DEF Coordinate, SurveyPrs, SurveyIssue, CmdDecide
<1>4. ASSUME NEW s \in Sessions, Work(s) PROVE WorkInv' BY <1>4, SessionStep
<1>5. ASSUME NEW s \in Sessions, NEW named \in BOOLEAN, Start(s, named) PROVE WorkInv'
  <2>1. /\ job' = [at |-> "checked", for |-> s, safe |-> named /\ s \in receipt, merged |-> pr[s] = "merged"]
        /\ UNCHANGED <<upsets, workVars>>
    BY <1>5 DEF Start, Safe, Merged, PrView
  <2>2. /\ job' \in [at : {"checked", "tree", "local", "remote"}, for : Sessions,
                     safe : BOOLEAN, merged : BOOLEAN]
        /\ JobKnows'
    <3>1. (named /\ s \in receipt) \in BOOLEAN /\ (pr[s] = "merged") \in BOOLEAN OBVIOUS
    <3>2. job'.at = "checked" /\ job'.for = s BY <2>1
    <3>3. job'.safe => s \in receipt BY <2>1
    <3>4. job'.merged <=> pr[s] = "merged" BY <2>1
    <3>5. JobKnows' BY <2>1, <3>2, <3>3, <3>4 DEF JobKnows, workVars
    <3> QED BY <2>1, <3>1, <3>5
  <2> QED BY <2>1, <2>2 DEF WorkInv, ReceiptMeansExit, workVars
<1>6. CASE Cleanup BY <1>6, CleanupStep
<1>7. CASE Stop
  <2>1. /\ job' = NoJob /\ upsets' \in 0..MaxUpsets
        /\ UNCHANGED <<pr, local, remote, active, receipt, woken>>
        /\ tree' \in [Sessions -> {"none", "clean", "dirty", "torn"}]
    BY <1>7, Bounds DEF Stop, WorkInv
  <2>2. JobKnows' BY <2>1, NoJobFacts DEF JobKnows
  <2> QED BY <2>1, <2>2 DEF WorkInv, ReceiptMeansExit
<1>8. CASE UNCHANGED vars BY <1>1, <1>8 DEF vars
<1> QED BY <1>2, <1>3, <1>4, <1>5, <1>6, <1>7, <1>8 DEF Next

LEMMA DeliveryStepInv == DeliveryInv /\ [Next]_vars => DeliveryInv'
  BY BoardStep, WorkStep DEF DeliveryInv
-----------------------------------------------------------------------------
\* Every variable keeps its type; no survey and no decision knows of more claims than
\* there are.
THEOREM TypeCorrect == Spec => []TypeOK
<1>1. DeliveryInv => TypeOK BY DEF DeliveryInv, BoardInv, WorkInv, TypeOK
<1> QED BY <1>1, DeliveryInitInv, DeliveryStepInv, PTL DEF Spec

\* However surveys, decisions and claims of any number of sessions overlap, a session
\* claims over the claim of another only when its survey could not see that claim or when
\* that claim had been stale when the decision was taken (decide_for_issue).
THEOREM ClaimsAreJustified == Spec => []LaterClaimIsJustified
<1>1. DeliveryInv => LaterClaimIsJustified BY DEF DeliveryInv, BoardInv
<1> QED BY <1>1, DeliveryInitInv, DeliveryStepInv, PTL DEF Spec

LEMMA LostChanges ==
  WorkInv /\ [Next]_vars
    => \A s \in Sessions : (tree[s] = "dirty" /\ tree'[s] \in {"none", "torn"}) => s \in woken
<1> SUFFICES ASSUME WorkInv, [Next]_vars,
                    NEW s \in Sessions, tree[s] = "dirty", tree'[s] \in {"none", "torn"}
             PROVE  s \in woken
  OBVIOUS
<1>1. tree' # tree /\ tree \in [Sessions -> {"none", "clean", "dirty", "torn"}] BY DEF WorkInv
<1>2. ASSUME NEW t \in Sessions, Claim(t) \/ Edit(t) \/ Commit(t) PROVE FALSE
  BY <1>1, <1>2 DEF Claim, Edit, Commit
<1>3. RemoveTree \/ Stop
  BY <1>1, <1>2 DEF Next, vars, workVars, Tick, Coordinate, SurveyPrs, SurveyIssue, CmdDecide,
              Work, Merge, Exit, Return, Start, Cleanup, Inspect, DeleteLocal, DeleteRemote
<1>4. job.at = "tree" /\ s = job.for
  BY <1>1, <1>3 DEF RemoveTree, Stop
<1> QED BY <1>4 DEF WorkInv, JobKnows

\* A cleanup deletes uncommitted changes only of a session that came back to its worktree
\* after its receipt was written: who never exited, or exited and stayed away, loses
\* nothing, wherever the cleanup is stopped and begun again (decide_cleanup).
THEOREM NoChangesLost == Spec => ChangesLostOnlyToReturn
<1>1. DeliveryInv /\ [Next]_vars
        => [\A s \in Sessions : (tree[s] = "dirty" /\ tree'[s] \in {"none", "torn"}) => s \in woken]_vars
  BY LostChanges DEF DeliveryInv
<1> QED BY <1>1, DeliveryInitInv, DeliveryStepInv, PTL DEF Spec, ChangesLostOnlyToReturn
=============================================================================
