------------------------- MODULE TaskBacklogProofs -------------------------
(***************************************************************************)
(* Theorems about TaskBacklog for every graph, every set of workers and    *)
(* every bound, and about what Progress reports of a backlog while it is   *)
(* drained.                                                                *)
(*                                                                         *)
(* IInv, the type invariant with LeaseOwnsAttempt, is inductive: the type  *)
(* of the history variables needs to know that a lease points at an        *)
(* attempt that exists.  That a drained backlog is done is an argument     *)
(* about the graph: among the items that are not done, the one with the    *)
(* least number waits for nothing, so that a refresh makes it ready or     *)
(* leaves it with its owner, and in both cases cmd_poll sees a busy        *)
(* backlog.                                                                *)
(***************************************************************************)
EXTENDS Progress, SequenceTheorems, FiniteSetTheorems, WellFoundedInduction, TLAPS

IInv == TypeOK /\ LeaseOwnsAttempt
-----------------------------------------------------------------------------
(* What the operators of the module return.                                *)

LEMMA NoLeaseTyped == NoLease \in Lease
BY SizeAssumption DEF NoLease, Lease, Fences

LEMMA RowsTyped ==
    ASSUME TypeOK, NEW i \in Items
    PROVE  /\ item[i] \in Item
           /\ Released(item[i]) \in Item
           /\ Released(item[i]).lease \in {item[i].lease, NoLease}
           /\ Unblocked(Released(item[i])) \in Item
           /\ Unblocked(Released(item[i])).lease = Released(item[i]).lease
<1>1. item[i] \in Item
  BY DEF TypeOK
<1>2. Released(item[i]) \in Item /\ Released(item[i]).lease \in {item[i].lease, NoLease}
  BY <1>1, NoLeaseTyped DEF Released, Item, Statuses, Active
<1>3. ASSUME NEW r \in Item PROVE Unblocked(r) \in Item /\ Unblocked(r).lease = r.lease
  BY DEF Unblocked, Item, Statuses, Codes
<1> QED BY <1>1, <1>2, <1>3

\* A refresh keeps a lease as it is or takes it away; it never makes one up.
LEMMA RefreshedTyped ==
    ASSUME TypeOK
    PROVE  /\ Refreshed \in [Items -> Item]
           /\ \A i \in Items : Refreshed[i].lease \in {item[i].lease, NoLease}
<1> SUFFICES ASSUME NEW i \in Items
             PROVE  RefreshedRow(i) \in Item /\ RefreshedRow(i).lease \in {item[i].lease, NoLease}
  BY DEF Refreshed
<1>1. CASE item[i].status \in Settled
  BY <1>1, RowsTyped DEF RefreshedRow
<1>2. CASE item[i].status \notin Settled /\ SourceChanged(i)
  BY <1>2, RowsTyped, NoLeaseTyped DEF RefreshedRow, Item, Statuses, Codes
<1>3. CASE item[i].status \notin Settled /\ ~SourceChanged(i) /\ Pending(i) # {}
  <2> DEFINE r == Released(item[i])
  <2>1. RefreshedRow(i) = [r EXCEPT !.status = "blocked", !.code = "dependency-pending"]
    BY <1>3 DEF RefreshedRow
  <2>2. r \in Item /\ r.lease \in {item[i].lease, NoLease}
    BY RowsTyped
  <2> QED BY <2>1, <2>2 DEF Item, Statuses, Codes
<1>4. CASE item[i].status \notin Settled /\ ~SourceChanged(i) /\ Pending(i) = {}
  BY <1>4, RowsTyped DEF RefreshedRow
<1> QED BY <1>1, <1>2, <1>3, <1>4

LEMMA WsRefreshedTyped ==
    ASSUME TypeOK, NEW n
    PROVE  WsRefreshed(n) \in [Items -> Workspace]
BY DEF TypeOK, WsRefreshed, Workspace

\* Closing an attempt touches the record of the row's lease and no other.
LEMMA FinishedTyped ==
    ASSUME IInv, NEW i \in Items, NEW outcome \in AttemptStatus
    PROVE  /\ Finished(i, outcome) \in Seq(Attempt)
           /\ Len(Finished(i, outcome)) = Len(attempts)
           /\ \A k \in 1..Len(attempts) : Finished(i, outcome)[k] =
                IF k = item[i].lease.fence THEN [attempts[k] EXCEPT !.status = outcome]
                ELSE attempts[k]
<1> DEFINE f == item[i].lease.fence
<1>1. attempts \in Seq(Attempt) /\ Len(attempts) \in Nat /\ DOMAIN attempts = 1..Len(attempts)
  BY LenProperties DEF IInv, TypeOK
<1>2. CASE f = 0
  BY <1>1, <1>2 DEF Finished
<1>3. CASE f # 0
  <2>1. f \in 1..Len(attempts)
    <3>1. item[i].lease # NoLease
      BY <1>3 DEF NoLease
    <3> QED BY <3>1, <1>1 DEF IInv, LeaseOwnsAttempt
  <2>2. [attempts[f] EXCEPT !.status = outcome] \in Attempt
    <3>1. attempts[f] \in Attempt
      BY <1>1, <2>1, ElementOfSeq
    <3> QED BY <3>1 DEF Attempt
  <2>3. Finished(i, outcome) = [attempts EXCEPT ![f] = [attempts[f] EXCEPT !.status = outcome]]
    BY <1>3 DEF Finished
  <2> HIDE DEF f
  <2> QED BY <1>1, <2>1, <2>2, <2>3, ExceptSeq DEF f
<1> QED BY <1>2, <1>3
-----------------------------------------------------------------------------
(* How a step changes leases and attempts.                                 *)

\* Steps that append and close nothing: every lease stays that of the same claim.
LEMMA KeptLeases ==
    ASSUME IInv,
           item' \in [Items -> Item],
           attempts' = attempts,
           \A i \in Items :
             \/ item'[i].lease \in {item[i].lease, NoLease}
             \/ /\ item[i].lease # NoLease
                /\ item'[i].lease.worker = item[i].lease.worker
                /\ item'[i].lease.fence = item[i].lease.fence
    PROVE  LeaseOwnsAttempt'
<1> SUFFICES ASSUME NEW i \in Items, item'[i].lease # NoLease
             PROVE  /\ item'[i].lease.fence \in DOMAIN attempts
                    /\ attempts[item'[i].lease.fence] =
                         [item |-> i, worker |-> item'[i].lease.worker, status |-> "active"]
                    /\ \A k \in DOMAIN attempts : k > item'[i].lease.fence
                         => attempts[k].item # i \/ attempts[k].status = "erased"
  BY DEF LeaseOwnsAttempt
<1>1. /\ item[i].lease # NoLease
      /\ item'[i].lease.worker = item[i].lease.worker
      /\ item'[i].lease.fence = item[i].lease.fence
  OBVIOUS
<1> QED BY <1>1 DEF IInv, LeaseOwnsAttempt

\* A step that only refreshes the rows.
LEMMA RefreshStep ==
    ASSUME IInv, item' = Refreshed, attempts' = attempts
    PROVE  item' \in [Items -> Item] /\ LeaseOwnsAttempt'
<1>1. item' \in [Items -> Item]
  BY RefreshedTyped DEF IInv
<1>2. \A i \in Items : item'[i].lease \in {item[i].lease, NoLease}
  BY RefreshedTyped DEF IInv
<1> QED BY <1>1, <1>2, KeptLeases

LEMMA CloseStep ==
    ASSUME IInv, NEW i \in Items, NEW fence \in 0..Len(attempts),
           NEW outcome \in AttemptStatus, NEW row \in Item,
           Close(i, fence, outcome, row),
           ws' \in [Items -> Workspace]
    PROVE  IInv'
<1>0. /\ item \in [Items -> Item] /\ attempts \in Seq(Attempt) /\ Len(attempts) \in Nat
      /\ DOMAIN attempts = 1..Len(attempts)
  BY LenProperties DEF IInv, TypeOK
<1>1. /\ attempts' \in Seq(Attempt) /\ Len(attempts') = Len(attempts)
      /\ DOMAIN attempts' = 1..Len(attempts)
      /\ \A k \in 1..Len(attempts) : attempts'[k] =
           IF k = item[i].lease.fence THEN [attempts[k] EXCEPT !.status = outcome]
           ELSE attempts[k]
  <2>1. attempts' = Finished(i, outcome)
    BY DEF Close
  <2>2. /\ attempts' \in Seq(Attempt) /\ Len(attempts') = Len(attempts)
        /\ \A k \in 1..Len(attempts) : attempts'[k] =
             IF k = item[i].lease.fence THEN [attempts[k] EXCEPT !.status = outcome]
             ELSE attempts[k]
    BY <2>1, FinishedTyped
  <2>3. DOMAIN attempts' = 1..Len(attempts')
    BY <2>2, LenProperties
  <2> QED BY <2>2, <2>3
<1>2. item' = [item EXCEPT ![i] = [row EXCEPT !.lease = NoLease]]
  BY DEF Close
<1>3. [row EXCEPT !.lease = NoLease] \in Item /\ [row EXCEPT !.lease = NoLease].lease = NoLease
  BY NoLeaseTyped DEF Item
<1>4. /\ item' \in [Items -> Item]
      /\ item'[i].lease = NoLease
      /\ \A j \in Items \ {i} : item'[j] = item[j]
  BY <1>0, <1>2, <1>3
<1>5. TypeOK'
  <2>1. accepted' \subseteq 1..Len(attempts)
    BY <1>0 DEF Close, IInv, TypeOK
  <2> QED BY <1>0, <1>1, <1>4, <2>1 DEF Close, IInv, TypeOK
<1>6. LeaseOwnsAttempt'
  <2> SUFFICES ASSUME NEW j \in Items, item'[j].lease # NoLease
               PROVE  /\ item'[j].lease.fence \in DOMAIN attempts'
                      /\ attempts'[item'[j].lease.fence] =
                           [item |-> j, worker |-> item'[j].lease.worker, status |-> "active"]
                      /\ \A k \in DOMAIN attempts' : k > item'[j].lease.fence
                           => attempts'[k].item # j \/ attempts'[k].status = "erased"
    BY DEF LeaseOwnsAttempt
  <2> DEFINE f == item[j].lease.fence
  <2>1. j # i /\ item'[j] = item[j] /\ item[j].lease # NoLease
    BY <1>4
  <2>2. /\ f \in 1..Len(attempts)
        /\ attempts[f] = [item |-> j, worker |-> item[j].lease.worker, status |-> "active"]
        /\ \A k \in 1..Len(attempts) : k > f => attempts[k].item # j \/ attempts[k].status = "erased"
    BY <1>0, <2>1 DEF IInv, LeaseOwnsAttempt
  <2>3. item[i].lease.fence \in 1..Len(attempts) =>
          attempts[item[i].lease.fence].item = i
          /\ attempts[item[i].lease.fence].status = "active"
    <3>1. item[i].lease.fence \in 1..Len(attempts) => item[i].lease # NoLease
      BY <1>0 DEF NoLease
    <3>2. item[i].lease.fence \in 1..Len(attempts) =>
            attempts[item[i].lease.fence] =
              [item |-> i, worker |-> item[i].lease.worker, status |-> "active"]
      BY <3>1 DEF IInv, LeaseOwnsAttempt
    <3> QED BY <3>2
  <2>4. attempts'[f] = attempts[f]
    BY <1>1, <2>1, <2>2, <2>3
  <2>5. ASSUME NEW k \in 1..Len(attempts), k > f
        PROVE  attempts'[k].item # j \/ attempts'[k].status = "erased"
    <3>1. CASE k = item[i].lease.fence
      <4>1. attempts[k] \in Attempt
        BY <1>0, ElementOfSeq
      <4>2. attempts'[k].item = attempts[k].item
        BY <1>1, <3>1, <4>1 DEF Attempt
      <4> QED BY <4>2, <3>1, <2>1, <2>3
    <3>2. CASE k # item[i].lease.fence
      BY <3>2, <1>1, <2>2, <2>5
    <3> QED BY <3>1, <3>2
  <2> QED BY <1>1, <2>1, <2>2, <2>4, <2>5
<1> QED BY <1>5, <1>6 DEF IInv
-----------------------------------------------------------------------------
(* The invariant is inductive.                                             *)

LEMMA InitIInv == Init => IInv
<1> SUFFICES ASSUME Init PROVE IInv
  OBVIOUS
<1>1. \A i \in Items : FrozenRow(i) \in Item /\ FrozenRow(i).lease = NoLease
  BY NoLeaseTyped DEF FrozenRow, Item, Statuses, Settled, Active, Codes
<1>2. TypeOK
  BY <1>1, SizeAssumption, EmptySeq DEF Init, TypeOK, Workspace
<1>3. LeaseOwnsAttempt
  BY <1>1 DEF Init, LeaseOwnsAttempt
<1> QED BY <1>2, <1>3 DEF IInv

LEMMA CmdInitIInv == IInv /\ CmdInit => IInv'
<1> SUFFICES ASSUME IInv, CmdInit PROVE IInv'
  OBVIOUS
<1>1. \A i \in Items : FrozenRow(i) \in Item /\ FrozenRow(i).lease = NoLease
  BY NoLeaseTyped DEF FrozenRow, Item, Statuses, Settled, Active, Codes
<1>2. attempts' \in Seq(Attempt) /\ Len(attempts') = Len(attempts)
  <2>1. /\ Len(attempts) \in Nat /\ DOMAIN attempts = 1..Len(attempts)
        /\ \A k \in 1..Len(attempts) : attempts[k] \in Attempt
    BY LenProperties, ElementOfSeq DEF IInv, TypeOK
  <2>2. \A k \in 1..Len(attempts) : [attempts[k] EXCEPT !.status = "erased"] \in Attempt
    BY <2>1 DEF Attempt, AttemptStatus
  <2>3. attempts' = [k \in 1..Len(attempts) |-> [attempts[k] EXCEPT !.status = "erased"]]
    BY <2>1 DEF CmdInit
  <2>4. attempts' \in [1..Len(attempts) -> Attempt]
    BY <2>2, <2>3
  <2> QED BY <2>1, <2>4
<1>3. TypeOK'
  BY <1>1, <1>2, SizeAssumption DEF CmdInit, IInv, TypeOK, Workspace
<1>4. LeaseOwnsAttempt'
  BY <1>1 DEF CmdInit, LeaseOwnsAttempt
<1> QED BY <1>3, <1>4 DEF IInv

LEMMA CmdNextIInv == ASSUME IInv, NEW worker \in Holders, CmdNext(worker) PROVE IInv'
<1>0. /\ Refreshed \in [Items -> Item]
      /\ \A i \in Items : Refreshed[i].lease \in {item[i].lease, NoLease}
      /\ WsRefreshed(NumItems) \in [Items -> Workspace]
      /\ attempts \in Seq(Attempt) /\ Len(attempts) \in Nat /\ DOMAIN attempts = 1..Len(attempts)
  BY RefreshedTyped, WsRefreshedTyped, LenProperties DEF IInv, TypeOK
<1>1. CASE item' = Refreshed /\ UNCHANGED <<attempts, emptyPolls>>
  <2>1. LeaseOwnsAttempt'
    BY <1>1, RefreshStep
  <2> QED BY <1>0, <1>1, <2>1 DEF CmdNext, IInv, TypeOK
<1>2. ASSUME NEW i \in Items,
             item' = [Refreshed EXCEPT ![i].status = "claimed",
                        ![i].lease = [worker |-> worker, fence |-> Len(attempts) + 1,
                                      live |-> TRUE]],
             attempts' = Append(attempts, [item |-> i, worker |-> worker, status |-> "active"]),
             emptyPolls' = 0
      PROVE  IInv'
  <2> DEFINE n == Len(attempts) + 1
             new == [item |-> i, worker |-> worker, status |-> "active"]
             lease == [worker |-> worker, fence |-> n, live |-> TRUE]
  <2>1. new \in Attempt /\ lease \in Lease
    BY <1>0, SizeAssumption DEF Attempt, AttemptStatus, Lease, Fences, CmdNext
  <2>2. /\ attempts' \in Seq(Attempt) /\ Len(attempts') = n
        /\ DOMAIN attempts' = 1..n
        /\ attempts'[n] = new
        /\ \A k \in 1..Len(attempts) : attempts'[k] = attempts[k]
    BY <1>0, <1>2, <2>1
  <2>3. /\ item' \in [Items -> Item]
        /\ item'[i].lease = lease
        /\ \A j \in Items \ {i} : item'[j] = Refreshed[j]
    <3>1. [Refreshed[i] EXCEPT !.status = "claimed", !.lease = lease] \in Item
      BY <1>0, <2>1 DEF Item, Statuses, Active
    <3>2. item' = [Refreshed EXCEPT ![i] = [Refreshed[i] EXCEPT !.status = "claimed", !.lease = lease]]
      BY <1>0, <1>2
    <3> HIDE DEF lease
    <3>3. [Refreshed[i] EXCEPT !.status = "claimed", !.lease = lease].lease = lease
      BY <1>0 DEF Item
    <3> QED BY <1>0, <3>1, <3>2, <3>3
  <2>4. TypeOK'
    <3>1. n \in Nat /\ n <= MaxFences
      BY <1>0, SizeAssumption DEF CmdNext, IInv, TypeOK
    <3>2. accepted' \subseteq 1..n /\ lapsed' \subseteq 1..n
      BY <1>0 DEF CmdNext, IInv, TypeOK
    <3>3. ws' \in [Items -> Workspace] /\ emptyPolls' \in 0..EmptyPolls
      <4>1. ws' = WsRefreshed(NumItems)
        BY DEF CmdNext
      <4>2. 0 \in 0..EmptyPolls
        BY SizeAssumption
      <4> QED BY <1>0, <1>2, <4>1, <4>2
    <3>4. changed' \subseteq Files /\ epoch' \in 1..(MaxEpochs + 1)
      BY DEF CmdNext, IInv, TypeOK
    <3> HIDE DEF n
    <3> QED BY <2>2, <2>3, <3>1, <3>2, <3>3, <3>4 DEF TypeOK
  <2>5. LeaseOwnsAttempt'
    <3> SUFFICES ASSUME NEW j \in Items, item'[j].lease # NoLease
                 PROVE  /\ item'[j].lease.fence \in DOMAIN attempts'
                        /\ attempts'[item'[j].lease.fence] =
                             [item |-> j, worker |-> item'[j].lease.worker, status |-> "active"]
                        /\ \A k \in DOMAIN attempts' : k > item'[j].lease.fence
                             => attempts'[k].item # j \/ attempts'[k].status = "erased"
      BY DEF LeaseOwnsAttempt
    <3>1. CASE j = i
      BY <3>1, <1>0, <2>2, <2>3
    <3>2. CASE j # i
      <4>1. item'[j].lease = item[j].lease /\ item[j].lease # NoLease
        BY <3>2, <1>0, <2>3
      <4>2. /\ item[j].lease.fence \in 1..Len(attempts)
            /\ attempts[item[j].lease.fence] =
                 [item |-> j, worker |-> item[j].lease.worker, status |-> "active"]
            /\ \A k \in 1..Len(attempts) : k > item[j].lease.fence
                 => attempts[k].item # j \/ attempts[k].status = "erased"
        BY <1>0, <4>1 DEF IInv, LeaseOwnsAttempt
      <4>3. attempts'[n].item # j
        BY <2>2, <3>2
      <4> QED BY <1>0, <2>2, <4>1, <4>2, <4>3, SMTT(30)
    <3> QED BY <3>1, <3>2
  <2> QED BY <2>4, <2>5 DEF IInv
<1> QED BY <1>1, <1>2 DEF CmdNext

\* Expire and a renewed lease change the deadline, not whose the lease is.
LEMMA ExpireIInv == ASSUME IInv, NEW i \in Items, Expire(i) PROVE IInv'
<1>0. /\ item \in [Items -> Item] /\ Len(attempts) \in Nat /\ DOMAIN attempts = 1..Len(attempts)
  BY LenProperties DEF IInv, TypeOK
<1>1. item[i].lease # NoLease
  BY DEF Expire, NoLease
<1>2. item[i].lease.fence \in 1..Len(attempts)
  BY <1>0, <1>1 DEF IInv, LeaseOwnsAttempt
<1>3. /\ item' \in [Items -> Item]
      /\ item'[i].lease.worker = item[i].lease.worker
      /\ item'[i].lease.fence = item[i].lease.fence
      /\ \A j \in Items \ {i} : item'[j] = item[j]
  BY <1>0 DEF Expire, Item, Lease
<1>4. TypeOK'
  BY <1>2, <1>3 DEF Expire, IInv, TypeOK
<1>5. LeaseOwnsAttempt'
  BY <1>1, <1>3, KeptLeases DEF Expire
<1> QED BY <1>4, <1>5 DEF IInv

LEMMA HeartbeatIInv ==
    ASSUME IInv, NEW worker, NEW fence, NEW i \in Items, Heartbeat(worker, fence, i)
    PROVE  IInv'
<1>0. /\ Refreshed \in [Items -> Item]
      /\ \A j \in Items : Refreshed[j].lease \in {item[j].lease, NoLease}
      /\ WsRefreshed(NumItems) \in [Items -> Workspace]
      /\ item \in [Items -> Item]
  BY RefreshedTyped, WsRefreshedTyped DEF IInv, TypeOK
<1>1. item[i].lease # NoLease
  BY DEF Heartbeat, LeaseMatches, NoLease
<1>2. /\ item' \in [Items -> Item]
      /\ item'[i].lease.worker = Refreshed[i].lease.worker
      /\ item'[i].lease.fence = Refreshed[i].lease.fence
      /\ \A j \in Items \ {i} : item'[j] = Refreshed[j]
  <2>1. item' = [Refreshed EXCEPT ![i].lease.live = TRUE]
    BY DEF Heartbeat
  <2>2. Refreshed \in [Items -> Item] /\ Refreshed[i] \in Item /\ i \in Items
    BY <1>0
  <2>3. /\ item' \in [Items -> Item]
        /\ item'[i].lease.worker = Refreshed[i].lease.worker
        /\ item'[i].lease.fence = Refreshed[i].lease.fence
    BY ONLY <2>1, <2>2 DEF Item, Lease
  <2> QED BY ONLY <2>1, <2>2, <2>3
<1>3. Refreshed[i].lease = item[i].lease
  <2>1. CASE item[i].status \in Settled
    BY <2>1, <1>0 DEF Refreshed, RefreshedRow
  <2>2. CASE item[i].status \notin Settled
    <3>1. ~SourceChanged(i) /\ Pending(i) = {}
      BY <2>2, <1>0 DEF Heartbeat, Refreshed, RefreshedRow, Active, Item
    <3>2. Refreshed[i] = Unblocked(Released(item[i]))
      BY <2>2, <3>1 DEF Refreshed, RefreshedRow
    <3>3. Released(item[i]) = item[i]
      <4>1. CASE Released(item[i]) # item[i]
        <5>1. Released(item[i]).status = "ready" /\ Released(item[i]) \in Item
          BY <4>1, <1>0, NoLeaseTyped DEF Released, Item, Statuses
        <5>2. Refreshed[i].status = "ready"
          BY <5>1, <3>2 DEF Unblocked
        <5> QED BY <5>2 DEF Heartbeat, Active
      <4> QED BY <4>1
    <3> QED BY <3>2, <3>3, <1>0 DEF Unblocked, Item
  <2> QED BY <2>1, <2>2
<1>4. LeaseOwnsAttempt'
  <2>1. \A j \in Items :
          \/ item'[j].lease \in {item[j].lease, NoLease}
          \/ /\ item[j].lease # NoLease
             /\ item'[j].lease.worker = item[j].lease.worker
             /\ item'[j].lease.fence = item[j].lease.fence
    BY <1>0, <1>1, <1>2, <1>3
  <2> QED BY <1>2, <2>1, KeptLeases DEF Heartbeat
<1>5. TypeOK'
  BY <1>0, <1>2 DEF Heartbeat, IInv, TypeOK
<1> QED BY <1>4, <1>5 DEF IInv

LEMMA TransitionIInv ==
    ASSUME IInv, NEW worker, NEW fence, NEW i \in Items, NEW target, NEW recode \in BOOLEAN,
           CmdTransition(worker, fence, i, target, recode)
    PROVE  IInv'
<1>0. item \in [Items -> Item]
  BY DEF IInv, TypeOK
<1>1. target \in Statuses
  BY DEF CmdTransition, Transitions, Statuses, Active, Settled
<1>2. /\ item' \in [Items -> Item]
      /\ item'[i].lease \in {item[i].lease, NoLease}
      /\ \A j \in Items \ {i} : item'[j] = item[j]
  BY <1>0, <1>1, NoLeaseTyped, ZenonT(60) DEF CmdTransition, Item, Codes
<1>3. LeaseOwnsAttempt'
  <2>1. \A j \in Items : item'[j].lease \in {item[j].lease, NoLease}
    BY <1>2
  <2> QED BY <1>2, <2>1, KeptLeases DEF CmdTransition
<1>4. TypeOK'
  BY <1>2 DEF CmdTransition, IInv, TypeOK
<1> QED BY <1>3, <1>4 DEF IInv

LEMMA ClosingIInv ==
    ASSUME IInv, NEW worker, NEW fence \in 0..Len(attempts), NEW i \in Items,
           \/ CmdDone(worker, fence, i)
           \/ CmdSkip(worker, fence, i)
           \/ CmdBlock(worker, fence, i)
           \/ \E fp \in Fingerprints : CmdFail(worker, fence, i, fp)
    PROVE  IInv'
<1>0. item[i] \in Item /\ ws \in [Items -> Workspace]
  BY DEF IInv, TypeOK
<1>1. CASE CmdDone(worker, fence, i)
  <2>1. [item[i] EXCEPT !.status = "done"] \in Item /\ "done" \in AttemptStatus
    BY <1>0 DEF Item, Statuses, Settled, AttemptStatus
  <2>2. ws' \in [Items -> Workspace]
    BY <1>0, <1>1 DEF CmdDone, Workspace
  <2> QED BY <1>1, <2>1, <2>2, CloseStep DEF CmdDone
<1>2. CASE CmdSkip(worker, fence, i)
  <2>1. [item[i] EXCEPT !.status = "skipped"] \in Item /\ "skipped" \in AttemptStatus
    BY <1>0 DEF Item, Statuses, Settled, AttemptStatus
  <2> QED BY <1>0, <1>2, <2>1, CloseStep DEF CmdSkip
<1>3. CASE CmdBlock(worker, fence, i)
  <2>1. [item[i] EXCEPT !.status = "blocked", !.code = "other"] \in Item
        /\ "blocked" \in AttemptStatus
    BY <1>0 DEF Item, Statuses, Codes, AttemptStatus
  <2> QED BY <1>0, <1>3, <2>1, CloseStep DEF CmdBlock
<1>4. ASSUME NEW fp \in Fingerprints, CmdFail(worker, fence, i, fp) PROVE IInv'
  <2>1. FailedRow(i, fp) \in Item /\ "failed" \in AttemptStatus
    BY <1>0 DEF FailedRow, Item, Statuses, Settled, Codes, AttemptStatus
  <2> QED BY <1>0, <1>4, <2>1, CloseStep DEF CmdFail
<1> QED BY <1>1, <1>2, <1>3, <1>4

LEMMA NextIInv == IInv /\ [Next]_vars => IInv'
<1> SUFFICES ASSUME IInv, [Next]_vars PROVE IInv'
  OBVIOUS
<1>0. /\ Refreshed \in [Items -> Item]
      /\ \A n : WsRefreshed(n) \in [Items -> Workspace]
      /\ item \in [Items -> Item] /\ ws \in [Items -> Workspace]
  BY RefreshedTyped, WsRefreshedTyped DEF IInv, TypeOK
<1>1. CASE CmdInit
  BY <1>1, CmdInitIInv
<1>2. ASSUME NEW n \in Items, CrashInInit(n) PROVE IInv'
  <2>1. ws' \in [Items -> Workspace]
    BY <1>0, <1>2 DEF CrashInInit, Workspace
  <2> QED BY <1>2, <2>1 DEF CrashInInit, IInv, TypeOK, LeaseOwnsAttempt
<1>3. ASSUME NEW n \in Items, UnsavedRefresh(n) PROVE IInv'
  BY <1>0, <1>3 DEF UnsavedRefresh, IInv, TypeOK, LeaseOwnsAttempt
<1>4. ASSUME NEW worker \in Holders, CmdNext(worker) PROVE IInv'
  BY <1>4, CmdNextIInv
<1>5. ASSUME NEW worker \in Holders, RenewByNext(worker) PROVE IInv'
  BY <1>5 DEF RenewByNext, vars, IInv, TypeOK, LeaseOwnsAttempt
<1>6. CASE CmdStatus
  <2>1. LeaseOwnsAttempt'
    BY <1>6, RefreshStep DEF CmdStatus
  <2> QED BY <1>0, <1>6, <2>1 DEF CmdStatus, IInv, TypeOK
<1>7. CASE CmdPoll
  <2>1. LeaseOwnsAttempt'
    BY <1>7, RefreshStep DEF CmdPoll
  <2>2. emptyPolls' \in 0..EmptyPolls
    BY <1>7, SizeAssumption DEF CmdPoll, IInv, TypeOK
  <2> QED BY <1>0, <1>7, <2>1, <2>2 DEF CmdPoll, IInv, TypeOK
<1>8. ASSUME NEW worker, NEW fence \in 0..Len(attempts), NEW i \in Items,
             Command(worker, fence, i)
      PROVE  IInv'
  <2>1. CASE Heartbeat(worker, fence, i)
    BY <2>1, HeartbeatIInv
  <2>2. CASE CrashInDone(worker, fence, i)
    <3>1. ws' \in [Items -> Workspace]
      BY <1>0, <2>2 DEF CrashInDone, Workspace
    <3> QED BY <2>2, <3>1 DEF CrashInDone, IInv, TypeOK, LeaseOwnsAttempt
  <2>3. ASSUME NEW target \in Targets, NEW recode \in BOOLEAN,
               CmdTransition(worker, fence, i, target, recode)
        PROVE  IInv'
    BY <2>3, TransitionIInv
  <2> QED BY <1>8, <2>1, <2>2, <2>3, ClosingIInv DEF Command
<1>9. ASSUME NEW i \in Items, Expire(i) PROVE IInv'
  BY <1>9, ExpireIInv
<1>10. ASSUME NEW f \in WatchedFiles, Touch(f) PROVE IInv'
  <2>1. f \in Files
    BY GraphAssumption DEF AcceptedGraph, WatchedFiles
  <2> QED BY <1>10, <2>1 DEF Touch, IInv, TypeOK, LeaseOwnsAttempt
<1>11. CASE UNCHANGED vars
  BY <1>11 DEF vars, IInv, TypeOK, LeaseOwnsAttempt
<1> QED BY <1>1, <1>2, <1>3, <1>4, <1>5, <1>6, <1>7, <1>8, <1>9, <1>10, <1>11
        DEF Next, Credentials

\* In every reachable state of every backlog the variables have their types.
THEOREM TypeCorrect == Spec => []TypeOK
<1>1. Init => IInv
  BY InitIInv
<1>2. IInv /\ [Next]_vars => IInv'
  BY NextIInv
<1>3. IInv => TypeOK
  BY DEF IInv
<1> QED BY <1>1, <1>2, <1>3, PTL DEF Spec

\* In every reachable state of every backlog a lease is the latest claim of its
\* item and points at the open attempt of that claim.
THEOREM LeasesOwnAttempts == Spec => []LeaseOwnsAttempt
<1>1. Init => IInv
  BY InitIInv
<1>2. IInv /\ [Next]_vars => IInv'
  BY NextIInv
<1>3. IInv => LeaseOwnsAttempt
  BY DEF IInv
<1> QED BY <1>1, <1>2, <1>3, PTL DEF Spec
-----------------------------------------------------------------------------
(* The history of attempts.                                                *)

\* What any step does to the records: it may append one, close the open record of
\* the item's lease, or drop them all; a token the step accepts is that of a record
\* it closed.
AttemptStep ==
    /\ Len(attempts') >= Len(attempts)
    /\ \A k \in 1..Len(attempts) :
         attempts'[k] # attempts[k] =>
           attempts[k].status = "active" \/ attempts'[k].status = "erased"
    /\ \A k \in 1..Len(attempts) :
         attempts'[k].status = "active" => attempts[k].status = "active"
    /\ \A k \in accepted' \ accepted :
         k \in 1..Len(attempts) /\ attempts'[k].status # "active"

LEMMA CloseAttemptStep ==
    ASSUME IInv, NEW worker, NEW fence \in 0..Len(attempts), NEW i \in Items,
           NEW outcome \in {"done", "skipped", "blocked", "failed"}, NEW row,
           Close(i, fence, outcome, row),
           fence # 0 => item[i].lease.fence = fence
    PROVE  AttemptStep
<1> DEFINE f == item[i].lease.fence
<1>0. /\ attempts \in Seq(Attempt) /\ Len(attempts) \in Nat
      /\ \A k \in 1..Len(attempts) : attempts[k] \in Attempt
      /\ DOMAIN attempts = 1..Len(attempts)
  BY LenProperties, ElementOfSeq DEF IInv, TypeOK
<1>1. /\ Len(attempts') = Len(attempts)
      /\ \A k \in 1..Len(attempts) : attempts'[k] =
           IF k = f THEN [attempts[k] EXCEPT !.status = outcome] ELSE attempts[k]
  <2>1. attempts' = Finished(i, outcome) /\ outcome \in AttemptStatus
    BY DEF Close, AttemptStatus
  <2> QED BY <2>1, FinishedTyped
<1>2. f \in 1..Len(attempts) =>
        attempts[f].status = "active" /\ attempts'[f].status = outcome
  <2>1. f \in 1..Len(attempts) => item[i].lease # NoLease
    BY <1>0 DEF NoLease
  <2>2. f \in 1..Len(attempts) => attempts[f] =
          [item |-> i, worker |-> item[i].lease.worker, status |-> "active"]
    BY <2>1 DEF IInv, LeaseOwnsAttempt
  <2>3. f \in 1..Len(attempts) => attempts'[f] = [attempts[f] EXCEPT !.status = outcome]
    BY <1>1
  <2>4. \A a \in Attempt : [a EXCEPT !.status = outcome].status = outcome
    BY DEF Attempt
  <2> HIDE DEF f
  <2> QED BY <1>0, <2>2, <2>3, <2>4
<1>3. \A k \in accepted' \ accepted : k = f /\ f \in 1..Len(attempts)
  BY <1>0 DEF Close
<1> HIDE DEF f
<1>4. \A k \in 1..Len(attempts) : k # f => attempts'[k] = attempts[k]
  BY <1>1
<1>5. \A k \in 1..Len(attempts) :
        attempts'[k] # attempts[k] => attempts[k].status = "active"
  BY <1>2, <1>4
<1>6. \A k \in 1..Len(attempts) : attempts'[k].status = "active" => attempts[k].status = "active"
  BY <1>2, <1>4
<1> QED BY <1>0, <1>1, <1>2, <1>3, <1>5, <1>6 DEF AttemptStep

LEMMA NextAttemptStep == IInv /\ [Next]_vars => AttemptStep
<1> SUFFICES ASSUME IInv, [Next]_vars PROVE AttemptStep
  OBVIOUS
<1>0. /\ attempts \in Seq(Attempt) /\ Len(attempts) \in Nat
      /\ \A k \in 1..Len(attempts) : attempts[k] \in Attempt
      /\ DOMAIN attempts = 1..Len(attempts)
  BY LenProperties, ElementOfSeq DEF IInv, TypeOK
<1>1. ASSUME attempts' = attempts, accepted' = accepted PROVE AttemptStep
  BY <1>0, <1>1 DEF AttemptStep
<1>2. CASE CmdInit
  <2>1. attempts' = [k \in 1..Len(attempts) |-> [attempts[k] EXCEPT !.status = "erased"]]
    BY <1>0, <1>2 DEF CmdInit
  <2>2. Len(attempts') = Len(attempts)
    BY <1>0, <2>1
  <2>3. \A k \in 1..Len(attempts) : attempts'[k].status = "erased"
    BY <1>0, <2>1 DEF Attempt
  <2>4. accepted' = accepted
    BY <1>2 DEF CmdInit
  <2> QED BY <1>0, <2>2, <2>3, <2>4 DEF AttemptStep
<1>3. ASSUME NEW worker \in Holders, CmdNext(worker) PROVE AttemptStep
  <2>1. accepted' = accepted
    BY <1>3 DEF CmdNext
  <2>2. CASE attempts' = attempts
    BY <1>1, <2>1, <2>2
  <2>3. ASSUME NEW i \in Items,
               attempts' = Append(attempts, [item |-> i, worker |-> worker, status |-> "active"])
        PROVE  AttemptStep
    <3>1. [item |-> i, worker |-> worker, status |-> "active"] \in Attempt
      BY DEF Attempt, AttemptStatus
    <3>2. /\ Len(attempts') = Len(attempts) + 1
          /\ \A k \in 1..Len(attempts) : attempts'[k] = attempts[k]
      BY <1>0, <2>3, <3>1
    <3> QED BY <1>0, <2>1, <3>2 DEF AttemptStep
  <2> QED BY <1>3, <2>2, <2>3 DEF CmdNext
<1>4. ASSUME NEW worker, NEW fence \in 0..Len(attempts), NEW i \in Items,
             Command(worker, fence, i)
      PROVE  AttemptStep
  <2>1. CASE Heartbeat(worker, fence, i) \/ CrashInDone(worker, fence, i)
    BY <2>1, <1>1 DEF Heartbeat, CrashInDone
  <2>2. ASSUME NEW target \in Targets, NEW recode \in BOOLEAN,
               CmdTransition(worker, fence, i, target, recode)
        PROVE  AttemptStep
    BY <2>2, <1>1 DEF CmdTransition
  <2>3. CASE CmdDone(worker, fence, i)
    <3>1. fence # 0 => item[i].lease.fence = fence
      BY <2>3 DEF CmdDone, LeaseMatches
    <3> QED BY <2>3, <3>1, CloseAttemptStep DEF CmdDone
  <2>4. MayClose(i, worker, fence) => (fence # 0 => item[i].lease.fence = fence)
    BY DEF MayClose, LeaseMatches
  <2>5. CASE CmdSkip(worker, fence, i)
    BY <2>4, <2>5, CloseAttemptStep DEF CmdSkip
  <2>6. CASE CmdBlock(worker, fence, i)
    BY <2>4, <2>6, CloseAttemptStep DEF CmdBlock
  <2>7. ASSUME NEW fp \in Fingerprints, CmdFail(worker, fence, i, fp) PROVE AttemptStep
    BY <2>4, <2>7, CloseAttemptStep DEF CmdFail
  <2> QED BY <1>4, <2>1, <2>2, <2>3, <2>5, <2>6, <2>7 DEF Command
<1>5. CASE \E n \in Items : CrashInInit(n) \/ UnsavedRefresh(n)
  BY <1>1, <1>5 DEF CrashInInit, UnsavedRefresh
<1>6. CASE \E worker \in Holders : RenewByNext(worker)
  BY <1>1, <1>6 DEF RenewByNext, vars
<1>7. CASE CmdStatus \/ CmdPoll
  BY <1>1, <1>7 DEF CmdStatus, CmdPoll
<1>8. CASE (\E i \in Items : Expire(i)) \/ (\E g \in WatchedFiles : Touch(g))
  BY <1>1, <1>8 DEF Expire, Touch
<1>9. CASE UNCHANGED vars
  BY <1>1, <1>9 DEF vars
<1> QED BY <1>2, <1>3, <1>4, <1>5, <1>6, <1>7, <1>8, <1>9 DEF Next, Credentials

\* For every backlog: closed attempt records are never rewritten.
THEOREM AttemptsImmutable == Spec => AttemptHistoryImmutable
<1>1. Init => IInv
  BY InitIInv
<1>2. IInv /\ [Next]_vars => IInv'
  BY NextIInv
<1>3. IInv /\ [Next]_vars =>
        [ /\ Len(attempts') >= Len(attempts)
          /\ \A k \in DOMAIN attempts :
               attempts'[k] # attempts[k] =>
                 attempts[k].status = "active" \/ attempts'[k].status = "erased" ]_vars
  <2>1. IInv => DOMAIN attempts = 1..Len(attempts)
    BY LenProperties DEF IInv, TypeOK
  <2> QED BY <2>1, NextAttemptStep DEF AttemptStep
<1> QED BY <1>1, <1>2, <1>3, PTL DEF Spec, AttemptHistoryImmutable

\* For every backlog: a token that had a closing command accepted closed the
\* attempt it was issued for.
THEOREM FencingIsSound == Spec => []AcceptedTokenClosedItsAttempt
<1> DEFINE FInv == IInv /\ AcceptedTokenClosedItsAttempt
<1>1. Init => FInv
  BY InitIInv DEF Init, AcceptedTokenClosedItsAttempt
<1>2. FInv /\ [Next]_vars => FInv'
  <2> SUFFICES ASSUME FInv, [Next]_vars PROVE FInv'
    OBVIOUS
  <2>1. IInv' /\ AttemptStep
    BY NextIInv, NextAttemptStep
  <2>2. ASSUME NEW k \in accepted' PROVE attempts'[k].status # "active"
    <3>1. CASE k \in accepted
      <4>1. k \in 1..Len(attempts) /\ attempts[k].status # "active"
        BY <3>1 DEF IInv, TypeOK, AcceptedTokenClosedItsAttempt
      <4> QED BY <2>1, <4>1 DEF AttemptStep
    <3>2. CASE k \notin accepted
      BY <2>1, <2>2, <3>2 DEF AttemptStep
    <3> QED BY <3>1, <3>2
  <2> QED BY <2>1, <2>2 DEF AcceptedTokenClosedItsAttempt
<1>3. FInv => AcceptedTokenClosedItsAttempt
  OBVIOUS
<1> QED BY <1>1, <1>2, <1>3, PTL DEF Spec
-----------------------------------------------------------------------------
(* Two more families of theorems.  The first needs no assumption about     *)
(* callers: the queue implements LeasedQueue.  The second holds when       *)
(* callers never name a closed item in skip, block or fail (AllowReopen =  *)
(* FALSE): dependencies are done first, conflicting items are not worked   *)
(* on together, a claim that lapsed closes nothing, and what is parked     *)
(* stays parked.                                                           *)

\* A lease that counts as live has not been past its deadline.
LiveNotLapsed == \A i \in Items : item[i].lease.live => item[i].lease.fence \notin lapsed

LInv == IInv /\ LiveNotLapsed

LEMMA LeaseFacts ==
    ASSUME IInv
    PROVE  /\ item \in [Items -> Item]
           /\ Len(attempts) \in Nat
           /\ \A i \in Items : item[i].lease.fence \in 0..Len(attempts)
           /\ \A i \in Items : item[i].lease.live => item[i].lease.fence # 0
           /\ \A i, j \in Items : item[i].lease.fence # 0 /\ item[j].lease.fence = item[i].lease.fence
                                    => i = j
<1>1. /\ item \in [Items -> Item] /\ Len(attempts) \in Nat
      /\ DOMAIN attempts = 1..Len(attempts)
  BY LenProperties DEF IInv, TypeOK
<1>2. \A i \in Items : item[i].lease.fence # 0 \/ item[i].lease.live => item[i].lease # NoLease
  BY DEF NoLease
<1>3. \A i \in Items : item[i].lease # NoLease =>
        item[i].lease.fence \in 1..Len(attempts) /\ attempts[item[i].lease.fence].item = i
  <2> SUFFICES ASSUME NEW i \in Items, item[i].lease # NoLease
               PROVE  item[i].lease.fence \in 1..Len(attempts)
                      /\ attempts[item[i].lease.fence].item = i
    OBVIOUS
  <2>1. attempts[item[i].lease.fence] =
          [item |-> i, worker |-> item[i].lease.worker, status |-> "active"]
    BY DEF IInv, LeaseOwnsAttempt
  <2> QED BY <1>1, <2>1 DEF IInv, LeaseOwnsAttempt
<1>4. NoLease.fence = 0
  BY DEF NoLease
<1>5. \A i \in Items : item[i].lease.fence \in 0..Len(attempts)
  BY <1>1, <1>3, <1>4
<1>6. \A i \in Items : item[i].lease.live => item[i].lease.fence # 0
  BY <1>1, <1>2, <1>3
<1>7. \A i, j \in Items : item[i].lease.fence # 0 /\ item[j].lease.fence = item[i].lease.fence => i = j
  BY <1>2, <1>3
<1> QED BY <1>1, <1>5, <1>6, <1>7
-----------------------------------------------------------------------------
(* The refinement.                                                         *)

\* The abstract variables.
Held == [i \in Items |-> item[i].lease.fence]

\* A step that only takes leases away, or changes nothing about them.
LEMMA DropStep ==
    ASSUME LInv,
           item' \in [Items -> Item],
           \A i \in Items : \/ item'[i].lease \in {item[i].lease, NoLease}
                            \/ /\ item'[i].lease.fence = item[i].lease.fence
                               /\ item[i].lease.live,
           Len(attempts') = Len(attempts), lapsed' = lapsed, accepted' = accepted
    PROVE  LiveNotLapsed' /\ \E free \in SUBSET Items : Abstract!Drop(free)
<1>1. \A i \in Items : item'[i].lease.fence \in {item[i].lease.fence, 0}
  BY DEF NoLease
<1>2. LiveNotLapsed'
  BY DEF LInv, LiveNotLapsed, NoLease
<1>3. PICK free \in SUBSET Items : free = {i \in Items : item'[i].lease.fence = 0}
  OBVIOUS
<1>4. Abstract!Drop(free)
  BY <1>1, <1>3 DEF Abstract!Drop, Abstract!Dropped
<1> QED BY <1>2, <1>4

LEMMA RefreshOnly ==
    ASSUME LInv, item' = Refreshed, attempts' = attempts, lapsed' = lapsed, accepted' = accepted
    PROVE  LiveNotLapsed' /\ \E free \in SUBSET Items : Abstract!Drop(free)
<1>1. item' \in [Items -> Item] /\ \A i \in Items : item'[i].lease \in {item[i].lease, NoLease}
  BY RefreshedTyped DEF LInv, IInv
<1> QED BY <1>1, DropStep

LEMMA ClaimStep ==
    ASSUME LInv, NEW worker \in Holders, CmdNext(worker)
    PROVE  LiveNotLapsed' /\ [Abstract!QueueNext]_(Abstract!qvars)
<1>0. /\ Refreshed \in [Items -> Item]
      /\ \A i \in Items : Refreshed[i].lease \in {item[i].lease, NoLease}
      /\ attempts \in Seq(Attempt) /\ Len(attempts) \in Nat
      /\ lapsed \subseteq 1..Len(attempts)
  BY RefreshedTyped, LenProperties DEF LInv, IInv, TypeOK
<1>1. CASE item' = Refreshed /\ UNCHANGED <<attempts, emptyPolls>>
  <2>1. lapsed' = lapsed /\ accepted' = accepted
    BY DEF CmdNext
  <2> QED BY <1>1, <2>1, RefreshOnly DEF Abstract!QueueNext
<1>2. ASSUME NEW i \in Items,
             item' = [Refreshed EXCEPT ![i].status = "claimed",
                        ![i].lease = [worker |-> worker, fence |-> Len(attempts) + 1,
                                      live |-> TRUE]],
             attempts' = Append(attempts, [item |-> i, worker |-> worker, status |-> "active"])
      PROVE  LiveNotLapsed' /\ [Abstract!QueueNext]_(Abstract!qvars)
  <2> DEFINE n == Len(attempts) + 1
             lease == [worker |-> worker, fence |-> n, live |-> TRUE]
  <2>0. PICK free \in SUBSET Items : free = {j \in Items : item'[j].lease.fence = 0 \/ j = i}
    OBVIOUS
  <2>1. /\ item'[i].lease = lease
        /\ \A j \in Items \ {i} : item'[j] = Refreshed[j]
        /\ DOMAIN item' = Items
    <3>1. item' = [Refreshed EXCEPT ![i] =
                     [Refreshed[i] EXCEPT !.status = "claimed", !.lease = lease]]
      BY <1>0, <1>2
    <3> HIDE DEF lease
    <3>2. [Refreshed[i] EXCEPT !.status = "claimed", !.lease = lease].lease = lease
      BY <1>0 DEF Item
    <3> QED BY <1>0, <3>1, <3>2
  <2>2. Len(attempts') = n
    <3>1. [item |-> i, worker |-> worker, status |-> "active"] \in Attempt
      BY DEF Attempt, AttemptStatus
    <3> QED BY <1>0, <1>2, <3>1
  <2>3. lapsed' = lapsed /\ accepted' = accepted /\ Len(attempts) < MaxFences
    BY DEF CmdNext
  <2>4. LiveNotLapsed'
    <3> SUFFICES ASSUME NEW j \in Items, item'[j].lease.live
                 PROVE  item'[j].lease.fence \notin lapsed
      BY <2>3 DEF LiveNotLapsed
    <3>1. CASE j = i
      BY <3>1, <1>0, <2>1
    <3>2. CASE j # i
      <4>1. item'[j].lease \in {item[j].lease, NoLease}
        BY <3>2, <1>0, <2>1
      <4> QED BY <4>1 DEF LInv, LiveNotLapsed, NoLease
    <3> QED BY <3>1, <3>2
  <2>5. \A j \in Items \ {i} : item'[j].lease.fence \in {item[j].lease.fence, 0}
    BY <1>0, <2>1 DEF NoLease
  <2>6. Abstract!Claim(i, free)
    <3>0. item'[i].lease.fence = n /\ i \in free
      BY <2>0, <2>1
    <3>1. \A j \in Items \ {i} :
            item'[j].lease.fence = IF j \in free THEN 0 ELSE item[j].lease.fence
      BY <2>0, <2>5
    <3>2. Abstract!Dropped(free) \in [Items -> UNION {{0}, {item[j].lease.fence : j \in Items}}]
          /\ Abstract!Dropped(free)[i] = 0
          /\ \A j \in Items : Abstract!Dropped(free)[j] =
               IF j \in free THEN 0 ELSE item[j].lease.fence
      BY <3>0 DEF Abstract!Dropped
    <3> HIDE DEF n
    <3>3. Held' = [Abstract!Dropped(free) EXCEPT ![i] = n]
      BY <3>0, <3>1, <3>2 DEF Held
    <3> QED BY <2>2, <2>3, <3>2, <3>3 DEF Abstract!Claim, Held, n
  <2> QED BY <2>4, <2>6 DEF Abstract!QueueNext
<1> QED BY <1>1, <1>2 DEF CmdNext

\* A closing command: its own live token, or no token at all.
LEMMA CloseRefines ==
    ASSUME LInv, NEW fence \in 0..Len(attempts), NEW i \in Items,
           NEW outcome \in AttemptStatus, NEW row \in Item,
           Close(i, fence, outcome, row),
           fence # 0 => item[i].lease.fence = fence /\ item[i].lease.live
    PROVE  LiveNotLapsed' /\ [Abstract!QueueNext]_(Abstract!qvars)
<1>0. /\ item \in [Items -> Item]
      /\ Len(attempts') = Len(attempts)
  <2>1. attempts' = Finished(i, outcome)
    BY DEF Close
  <2> QED BY <2>1, FinishedTyped DEF LInv, IInv, TypeOK
<1>1. /\ item'[i].lease = NoLease
      /\ \A j \in Items \ {i} : item'[j] = item[j]
      /\ item' \in [Items -> Item]
  <2>1. [row EXCEPT !.lease = NoLease] \in Item /\ [row EXCEPT !.lease = NoLease].lease = NoLease
    BY NoLeaseTyped DEF Item
  <2>2. item' = [item EXCEPT ![i] = [row EXCEPT !.lease = NoLease]]
    BY DEF Close
  <2> QED BY <1>0, <2>1, <2>2
<1>2. lapsed' = lapsed
  BY DEF Close
<1>3. CASE fence = 0
  <2>1. accepted' = accepted
    BY <1>3 DEF Close
  <2>2. \A j \in Items : item'[j].lease \in {item[j].lease, NoLease}
    BY <1>1
  <2> QED BY <1>0, <1>1, <1>2, <2>1, <2>2, DropStep DEF Abstract!QueueNext
<1>4. CASE fence # 0
  <2>1. accepted' = accepted \cup {fence}
    BY <1>4 DEF Close
  <2>2. LiveNotLapsed'
    BY <1>1, <1>2 DEF LInv, LiveNotLapsed, NoLease
  <2>3. Held' = [Held EXCEPT ![i] = 0]
    <3>1. item'[i].lease.fence = 0
      BY <1>1 DEF NoLease
    <3>2. \A j \in Items \ {i} : item'[j].lease.fence = item[j].lease.fence
      BY <1>1
    <3> QED BY <3>1, <3>2 DEF Held
  <2>4. fence \notin lapsed
    BY <1>4 DEF LInv, LiveNotLapsed
  <2>5. Abstract!CloseHeld(i)
    BY <1>0, <1>2, <1>4, <2>1, <2>3, <2>4 DEF Abstract!CloseHeld, Held
  <2> QED BY <2>2, <2>5 DEF Abstract!QueueNext
<1> QED BY <1>3, <1>4

LEMMA ClosingRefines ==
    ASSUME LInv, NEW worker, NEW fence \in 0..Len(attempts), NEW i \in Items,
           \/ CmdDone(worker, fence, i)
           \/ CmdSkip(worker, fence, i)
           \/ CmdBlock(worker, fence, i)
           \/ \E fp \in Fingerprints : CmdFail(worker, fence, i, fp)
    PROVE  LiveNotLapsed' /\ [Abstract!QueueNext]_(Abstract!qvars)
<1>0. item[i] \in Item
  BY DEF LInv, IInv, TypeOK
<1>1. MayClose(i, worker, fence) =>
        (fence # 0 => item[i].lease.fence = fence /\ item[i].lease.live)
  BY DEF MayClose, LeaseMatches
<1>2. CASE CmdDone(worker, fence, i)
  <2>1. [item[i] EXCEPT !.status = "done"] \in Item /\ "done" \in AttemptStatus
    BY <1>0 DEF Item, Statuses, Settled, AttemptStatus
  <2>2. fence # 0 => item[i].lease.fence = fence /\ item[i].lease.live
    BY <1>2 DEF CmdDone, LeaseMatches
  <2> QED BY <1>2, <2>1, <2>2, CloseRefines DEF CmdDone
<1>3. CASE CmdSkip(worker, fence, i)
  <2>1. [item[i] EXCEPT !.status = "skipped"] \in Item /\ "skipped" \in AttemptStatus
    BY <1>0 DEF Item, Statuses, Settled, AttemptStatus
  <2> QED BY <1>1, <1>3, <2>1, CloseRefines DEF CmdSkip
<1>4. CASE CmdBlock(worker, fence, i)
  <2>1. [item[i] EXCEPT !.status = "blocked", !.code = "other"] \in Item
        /\ "blocked" \in AttemptStatus
    BY <1>0 DEF Item, Statuses, Codes, AttemptStatus
  <2> QED BY <1>1, <1>4, <2>1, CloseRefines DEF CmdBlock
<1>5. ASSUME NEW fp \in Fingerprints, CmdFail(worker, fence, i, fp)
      PROVE  LiveNotLapsed' /\ [Abstract!QueueNext]_(Abstract!qvars)
  <2>1. FailedRow(i, fp) \in Item /\ "failed" \in AttemptStatus
    BY <1>0 DEF FailedRow, Item, Statuses, Settled, Codes, AttemptStatus
  <2> QED BY <1>1, <1>5, <2>1, CloseRefines DEF CmdFail
<1> QED BY <1>2, <1>3, <1>4, <1>5

LEMMA ExpireRefines ==
    ASSUME LInv, NEW i \in Items, Expire(i)
    PROVE  LiveNotLapsed' /\ [Abstract!QueueNext]_(Abstract!qvars)
<1>0. /\ item \in [Items -> Item]
      /\ item[i].lease.fence # 0
      /\ \A j \in Items : item[j].lease.fence = item[i].lease.fence => j = i
      /\ \A j \in Items : item[j].lease.live => item[j].lease.fence # 0
  BY LeaseFacts DEF LInv, Expire
<1>1. /\ item'[i].lease.fence = item[i].lease.fence
      /\ item'[i].lease.live = FALSE
      /\ \A j \in Items \ {i} : item'[j] = item[j]
      /\ DOMAIN item' = Items
  BY <1>0 DEF Expire, Item, Lease
<1>2. lapsed' = lapsed \cup {item[i].lease.fence} /\ attempts' = attempts /\ accepted' = accepted
  BY DEF Expire
<1>3. LiveNotLapsed'
  BY <1>0, <1>1, <1>2 DEF LInv, LiveNotLapsed
<1>4. Held' = Held
  BY <1>0, <1>1 DEF Held
<1>5. Abstract!RunOut(i)
  BY <1>0, <1>2, <1>4 DEF Abstract!RunOut, Held
<1> QED BY <1>3, <1>5 DEF Abstract!QueueNext

LEMMA HeartbeatRefines ==
    ASSUME LInv, NEW worker, NEW fence, NEW i \in Items, Heartbeat(worker, fence, i), IInv'
    PROVE  LiveNotLapsed' /\ \E free \in SUBSET Items : Abstract!Drop(free)
<1>0. /\ Refreshed \in [Items -> Item]
      /\ \A j \in Items : Refreshed[j].lease \in {item[j].lease, NoLease}
      /\ item \in [Items -> Item]
  BY RefreshedTyped DEF LInv, IInv, TypeOK
<1>1. /\ item'[i].lease.fence = Refreshed[i].lease.fence
      /\ item'[i].lease.live
      /\ \A j \in Items \ {i} : item'[j] = Refreshed[j]
  BY <1>0 DEF Heartbeat, Item, Lease
<1>2. item'[i].lease.fence = item[i].lease.fence
  <2>1. item'[i].lease.fence # 0
    <3>1. item'[i].lease # NoLease
      BY <1>1 DEF NoLease
    <3>2. item'[i].lease.fence \in DOMAIN attempts'
      BY <3>1 DEF IInv, LeaseOwnsAttempt
    <3>3. attempts' \in Seq(Attempt)
      BY DEF IInv, TypeOK
    <3> QED BY <3>2, <3>3, LenProperties
  <2> QED BY <2>1, <1>0, <1>1 DEF NoLease
<1>3. item[i].lease.live
  BY DEF Heartbeat, LeaseMatches
<1>4. item' \in [Items -> Item] /\ attempts' = attempts /\ lapsed' = lapsed /\ accepted' = accepted
  BY DEF Heartbeat, IInv, TypeOK
<1>5. \A j \in Items : \/ item'[j].lease \in {item[j].lease, NoLease}
                       \/ item'[j].lease.fence = item[j].lease.fence /\ item[j].lease.live
  BY <1>0, <1>1, <1>2, <1>3
<1> QED BY <1>4, <1>5, DropStep

LEMMA TransitionRefines ==
    ASSUME LInv, NEW worker, NEW fence, NEW i \in Items, NEW target, NEW recode \in BOOLEAN,
           CmdTransition(worker, fence, i, target, recode), IInv'
    PROVE  LiveNotLapsed' /\ \E free \in SUBSET Items : Abstract!Drop(free)
<1>1. item \in [Items -> Item] /\ item' \in [Items -> Item]
  BY DEF LInv, IInv, TypeOK
<1>2. \A j \in Items : item'[j].lease \in {item[j].lease, NoLease}
  BY <1>1 DEF CmdTransition, Item
<1> QED BY <1>1, <1>2, DropStep DEF CmdTransition

\* Steps that leave leases and records alone.
LEMMA OtherRefines ==
    ASSUME LInv, item' = item, attempts' = attempts, accepted' = accepted, lapsed' = lapsed
    PROVE  LiveNotLapsed' /\ UNCHANGED Abstract!qvars
BY DEF LInv, LiveNotLapsed, Abstract!qvars

LEMMA InitLInv == Init => LInv /\ Abstract!QueueInit
<1> SUFFICES ASSUME Init PROVE LInv /\ Abstract!QueueInit
  OBVIOUS
<1>1. \A i \in Items : item[i].lease = NoLease
  BY DEF Init, FrozenRow
<1> QED BY <1>1, InitIInv, EmptySeq DEF Init, LInv, LiveNotLapsed, NoLease, Abstract!QueueInit

LEMMA CmdInitRefines ==
    ASSUME LInv, CmdInit, IInv'
    PROVE  LiveNotLapsed' /\ \E free \in SUBSET Items : Abstract!Drop(free)
<1>1. \A i \in Items : item'[i].lease = NoLease
  BY DEF CmdInit, FrozenRow
<1>2. item' \in [Items -> Item]
  BY DEF IInv, TypeOK
<1>3. Len(attempts') = Len(attempts)
  <2>1. Len(attempts) \in Nat /\ DOMAIN attempts = 1..Len(attempts)
    BY LenProperties DEF LInv, IInv, TypeOK
  <2> QED BY <2>1 DEF CmdInit
<1> QED BY <1>1, <1>2, <1>3, DropStep DEF CmdInit

LEMMA NextRefines == LInv /\ [Next]_vars => LInv' /\ [Abstract!QueueNext]_(Abstract!qvars)
<1> SUFFICES ASSUME LInv, [Next]_vars
             PROVE  LiveNotLapsed' /\ [Abstract!QueueNext]_(Abstract!qvars)
  BY NextIInv DEF LInv
<1>0. IInv'
  BY NextIInv DEF LInv
<1>d. (\E free \in SUBSET Items : Abstract!Drop(free)) => Abstract!QueueNext
  BY DEF Abstract!QueueNext
<1>1. CASE CmdInit
  BY <1>0, <1>1, <1>d, CmdInitRefines
<1>2. CASE \E n \in Items : CrashInInit(n) \/ UnsavedRefresh(n)
  BY <1>2, OtherRefines DEF CrashInInit, UnsavedRefresh
<1>3. ASSUME NEW worker \in Holders, CmdNext(worker)
      PROVE  LiveNotLapsed' /\ [Abstract!QueueNext]_(Abstract!qvars)
  BY <1>3, ClaimStep
<1>4. CASE \E worker \in Holders : RenewByNext(worker)
  BY <1>4, OtherRefines DEF RenewByNext, vars
<1>5. CASE CmdStatus \/ CmdPoll
  BY <1>5, <1>d, RefreshOnly DEF CmdStatus, CmdPoll
<1>6. ASSUME NEW worker, NEW fence \in 0..Len(attempts), NEW i \in Items,
             Command(worker, fence, i)
      PROVE  LiveNotLapsed' /\ [Abstract!QueueNext]_(Abstract!qvars)
  <2>1. CASE Heartbeat(worker, fence, i)
    BY <2>1, <1>0, <1>d, HeartbeatRefines
  <2>2. CASE CrashInDone(worker, fence, i)
    BY <2>2, OtherRefines DEF CrashInDone
  <2>3. ASSUME NEW target \in Targets, NEW recode \in BOOLEAN,
               CmdTransition(worker, fence, i, target, recode)
        PROVE  LiveNotLapsed' /\ [Abstract!QueueNext]_(Abstract!qvars)
    BY <2>3, <1>0, <1>d, TransitionRefines
  <2> QED BY <1>6, <2>1, <2>2, <2>3, ClosingRefines DEF Command
<1>7. ASSUME NEW i \in Items, Expire(i)
      PROVE  LiveNotLapsed' /\ [Abstract!QueueNext]_(Abstract!qvars)
  BY <1>7, ExpireRefines
<1>8. CASE \E f \in WatchedFiles : Touch(f)
  BY <1>8, OtherRefines DEF Touch
<1>9. CASE UNCHANGED vars
  BY <1>9, OtherRefines DEF vars
<1> QED BY <1>1, <1>2, <1>3, <1>4, <1>5, <1>6, <1>7, <1>8, <1>9 DEF Next, Credentials

\* For every backlog the commands implement the leased queue: whatever is refreshed,
\* crashes or lapses in between, only the token an item is held under closes it.
THEOREM Refines == Spec => ImplementsLeasedQueue
<1>1. Init => LInv /\ Abstract!QueueInit
  BY InitLInv
<1>2. LInv /\ [Next]_vars => LInv' /\ [Abstract!QueueNext]_(Abstract!qvars)
  BY NextRefines
<1> QED BY <1>1, <1>2, PTL DEF Spec, ImplementsLeasedQueue, Abstract!QueueSpec

\* For every backlog: no two items are held under one token, and no token that closed
\* an item holds one.
THEOREM HeldUnderOwnToken == Spec => []Abstract!HeldApart
<1>1. LInv /\ AcceptedTokenClosedItsAttempt => Abstract!HeldApart
  <2> SUFFICES ASSUME LInv, AcceptedTokenClosedItsAttempt, NEW i \in Items,
                      item[i].lease.fence # 0
               PROVE  /\ item[i].lease.fence \in 1..Len(attempts)
                      /\ item[i].lease.fence \notin accepted
                      /\ \A j \in Items : item[j].lease.fence = item[i].lease.fence => j = i
    BY DEF Abstract!HeldApart
  <2>1. attempts[item[i].lease.fence].status = "active"
    <3>1. item[i].lease # NoLease
      BY DEF NoLease
    <3>2. attempts[item[i].lease.fence] =
            [item |-> i, worker |-> item[i].lease.worker, status |-> "active"]
      BY <3>1 DEF LInv, IInv, LeaseOwnsAttempt
    <3> QED BY <3>2
  <2> QED BY <2>1, LeaseFacts DEF LInv, AcceptedTokenClosedItsAttempt
<1>2. Init => LInv
  BY InitLInv
<1>3. LInv /\ [Next]_vars => LInv'
  BY NextRefines
<1> QED BY <1>1, <1>2, <1>3, FencingIsSound, PTL DEF Spec
-----------------------------------------------------------------------------
(* Order of work, when no caller names a closed item.                      *)

\* Only an item somebody works on carries a lease.  Reopening breaks this: a row
\* blocked because its dependency was reopened under it keeps its live lease.
IdleHasNoLease == \A i \in Items : item[i].status \notin Active => item[i].lease = NoLease

DInv ==
    /\ LInv
    /\ IdleHasNoLease
    /\ DependenciesFirst
    /\ NoConflictingWork
    /\ LapsedNeverCloses

\* Apart from claims, a step makes nobody busy, and it finishes only what is held.
CalmStep ==
    /\ \A i \in Items : item'[i].status \in Active => item[i].status \in Active
    /\ \A i \in Items : item[i].status = "done" => item'[i].status = "done"
    /\ \A i \in Items : item'[i].status = "done" => item[i].status \in Active \cup {"done"}

LEMMA CalmOrder ==
    ASSUME DInv, CalmStep
    PROVE  DependenciesFirst' /\ NoConflictingWork'
<1>1. DependenciesFirst'
  <2> SUFFICES ASSUME NEW i \in Items, item'[i].status \in Active \cup {"done"},
                      NEW d \in Deps[i]
               PROVE  item'[d].status = "done"
    BY DEF DependenciesFirst, Pending
  <2>1. item[i].status \in Active \cup {"done"}
    BY DEF CalmStep
  <2>2. item[d].status = "done"
    BY <2>1 DEF DInv, DependenciesFirst, Pending
  <2>3. d \in Items
    BY GraphAssumption DEF AcceptedGraph
  <2> QED BY <2>2, <2>3 DEF CalmStep
<1>2. NoConflictingWork'
  BY DEF CalmStep, DInv, NoConflictingWork, Conflicts
<1> QED BY <1>1, <1>2

\* What a refresh does to statuses and leases.
LEMMA RefreshedCalm ==
    ASSUME DInv, NEW i \in Items
    PROVE  /\ Refreshed[i].status \in Active => item[i].status \in Active
           /\ Refreshed[i].status = "done" <=> item[i].status = "done"
           /\ Refreshed[i].status \notin Active => Refreshed[i].lease = NoLease
           /\ Refreshed[i].status = "ready" => Pending(i) = {}
<1>0. item[i] \in Item /\ Refreshed[i] = RefreshedRow(i)
  BY DEF DInv, LInv, IInv, TypeOK, Refreshed
<1>1. CASE item[i].status \in Settled
  BY <1>0, <1>1 DEF RefreshedRow, DInv, IdleHasNoLease, Settled, Active
<1>2. CASE item[i].status \notin Settled /\ SourceChanged(i)
  BY <1>0, <1>2 DEF RefreshedRow, Settled, Active, Item
<1>3. CASE item[i].status \notin Settled /\ ~SourceChanged(i) /\ Pending(i) # {}
  <2>1. item[i].status \notin Active /\ item[i].lease = NoLease
    BY <1>3 DEF DInv, IdleHasNoLease, DependenciesFirst
  <2>2. Refreshed[i] = [item[i] EXCEPT !.status = "blocked", !.code = "dependency-pending"]
    BY <1>0, <1>3, <2>1 DEF RefreshedRow, Released
  <2> QED BY <1>0, <1>3, <2>1, <2>2 DEF Settled, Active, Item
<1>4. CASE item[i].status \notin Settled /\ ~SourceChanged(i) /\ Pending(i) = {}
  <2>1. Refreshed[i] = Unblocked(Released(item[i]))
    BY <1>0, <1>4 DEF RefreshedRow
  <2>2. Released(item[i]) = item[i]
        \/ Released(item[i]) = [item[i] EXCEPT !.status = "ready", !.lease = NoLease]
    BY DEF Released
  <2>3. \/ Unblocked(Released(item[i])) = Released(item[i])
        \/ /\ Released(item[i]).status \in {"blocked", "invalidated"}
           /\ Unblocked(Released(item[i])).status = "ready"
           /\ Unblocked(Released(item[i])).lease = Released(item[i]).lease
    <3>1. Released(item[i]) \in Item
      BY RowsTyped DEF DInv, LInv, IInv
    <3> QED BY <3>1 DEF Unblocked, Item
  <2>4. [item[i] EXCEPT !.status = "ready", !.lease = NoLease].status = "ready"
        /\ [item[i] EXCEPT !.status = "ready", !.lease = NoLease].lease = NoLease
    BY <1>0 DEF Item
  <2>5. CASE Released(item[i]) = item[i]
    BY <1>4, <2>1, <2>3, <2>5 DEF Active, Settled, DInv, IdleHasNoLease
  <2>6. CASE Released(item[i]) = [item[i] EXCEPT !.status = "ready", !.lease = NoLease]
    BY <1>4, <2>1, <2>2, <2>3, <2>4, <2>6 DEF Active, Settled, Released
  <2> QED BY <2>2, <2>5, <2>6
<1> QED BY <1>1, <1>2, <1>3, <1>4

LEMMA RefreshKeepsDInv ==
    ASSUME DInv, item' = Refreshed, attempts' = attempts, lapsed' = lapsed, LInv'
    PROVE  DInv'
<1>1. CalmStep
  BY RefreshedCalm DEF CalmStep
<1>2. IdleHasNoLease'
  BY RefreshedCalm DEF IdleHasNoLease
<1>3. LapsedNeverCloses'
  BY DEF DInv, LapsedNeverCloses
<1> QED BY <1>1, <1>2, <1>3, CalmOrder DEF DInv

LEMMA ClaimKeepsDInv ==
    ASSUME DInv, NEW worker \in Holders, CmdNext(worker), LInv'
    PROVE  DInv'
<1>0. /\ Refreshed \in [Items -> Item] /\ lapsed' = lapsed
      /\ attempts \in Seq(Attempt) /\ Len(attempts) \in Nat
      /\ lapsed \subseteq 1..Len(attempts)
  BY RefreshedTyped, LenProperties DEF DInv, LInv, IInv, TypeOK, CmdNext
<1>1. CASE item' = Refreshed /\ attempts' = attempts
  BY <1>0, <1>1, RefreshKeepsDInv
<1>2. ASSUME NEW i \in Items, i \in Claimable,
             item' = [Refreshed EXCEPT ![i].status = "claimed",
                        ![i].lease = [worker |-> worker, fence |-> Len(attempts) + 1,
                                      live |-> TRUE]],
             attempts' = Append(attempts, [item |-> i, worker |-> worker, status |-> "active"])
      PROVE  DInv'
  <2>1. /\ item'[i].status = "claimed"
        /\ \A j \in Items \ {i} : item'[j] = Refreshed[j]
    BY <1>0, <1>2 DEF Item
  <2>2. /\ Refreshed[i].status = "ready"
        /\ \A j \in Items : Refreshed[j].status \in Active => ~Conflicts(i, j)
    BY <1>2 DEF Claimable
  <2>3. item[i].status # "done" /\ Pending(i) = {}
    BY <2>2, RefreshedCalm
  <2>4. \A j \in Items : item'[j].status = "done" <=> item[j].status = "done"
    BY <2>1, <2>3, RefreshedCalm
  <2>5. DependenciesFirst'
    <3> SUFFICES ASSUME NEW j \in Items, item'[j].status \in Active \cup {"done"},
                        NEW d \in Deps[j]
                 PROVE  item[d].status = "done"
      BY <2>4, GraphAssumption DEF AcceptedGraph, DependenciesFirst, Pending
    <3>1. CASE j = i
      BY <3>1, <2>3 DEF Pending
    <3>2. CASE j # i
      BY <3>2, <2>1, RefreshedCalm DEF DInv, DependenciesFirst, Pending
    <3> QED BY <3>1, <3>2
  <2>6. NoConflictingWork'
    <3>1. \A j \in Items \ {i} : item'[j].status \in Active =>
            item[j].status \in Active /\ ~Conflicts(i, j) /\ ~Conflicts(j, i)
      BY <2>1, <2>2, RefreshedCalm DEF Conflicts
    <3> QED BY <3>1 DEF NoConflictingWork, DInv, Conflicts
  <2>7. IdleHasNoLease'
    BY <2>1, RefreshedCalm DEF IdleHasNoLease, Active
  <2>8. LapsedNeverCloses'
    <3>1. [item |-> i, worker |-> worker, status |-> "active"] \in Attempt
      BY DEF Attempt, AttemptStatus
    <3>2. \A k \in 1..Len(attempts) : attempts'[k] = attempts[k]
      BY <1>0, <1>2, <3>1
    <3> QED BY <1>0, <3>2 DEF LapsedNeverCloses, DInv
  <2> QED BY <2>5, <2>6, <2>7, <2>8 DEF DInv
<1> QED BY <1>1, <1>2 DEF CmdNext, IsPick

\* A closing command: the row is no longer busy, and the record it closes is that of
\* a lease still in time.
LEMMA CloseKeepsDInv ==
    ASSUME DInv, LInv', NEW i \in Items, NEW fence, NEW row \in Item,
           NEW outcome \in AttemptStatus, Close(i, fence, outcome, row),
           row.status \notin Active,
           row.status = "done" => item[i].status \in Active \cup {"done"},
           item[i].status = "done" => row.status = "done",
           item[i].lease # NoLease => item[i].lease.live
    PROVE  DInv'
<1>1. /\ item'[i].lease = NoLease
      /\ item'[i].status = row.status
      /\ \A j \in Items \ {i} : item'[j] = item[j]
  <2>1. /\ [row EXCEPT !.lease = NoLease].lease = NoLease
        /\ [row EXCEPT !.lease = NoLease].status = row.status
    BY DEF Item
  <2>2. item' = [item EXCEPT ![i] = [row EXCEPT !.lease = NoLease]] /\ item \in [Items -> Item]
    BY DEF Close, DInv, LInv, IInv, TypeOK
  <2> QED BY <2>1, <2>2
<1>2. CalmStep
  BY <1>1 DEF CalmStep
<1>3. IdleHasNoLease'
  BY <1>1 DEF IdleHasNoLease, DInv
<1>4. LapsedNeverCloses'
  <2>1. attempts' = Finished(i, outcome) /\ lapsed' = lapsed
    BY DEF Close
  <2>2. \A k \in 1..Len(attempts) : attempts'[k] =
          IF k = item[i].lease.fence THEN [attempts[k] EXCEPT !.status = outcome]
          ELSE attempts[k]
    BY <2>1, FinishedTyped DEF DInv, LInv
  <2>3. item[i].lease.fence \notin lapsed
    <3>1. CASE item[i].lease = NoLease
      BY <3>1 DEF NoLease, DInv, LInv, IInv, TypeOK
    <3>2. CASE item[i].lease # NoLease
      BY <3>2 DEF DInv, LInv, LiveNotLapsed
    <3> QED BY <3>1, <3>2
  <2>4. lapsed \subseteq 1..Len(attempts)
    BY DEF DInv, LInv, IInv, TypeOK
  <2> QED BY <2>1, <2>2, <2>3, <2>4 DEF LapsedNeverCloses, DInv
<1> QED BY <1>2, <1>3, <1>4, CalmOrder DEF DInv

LEMMA DoneKeepsDInv ==
    ASSUME DInv, LInv', NEW worker, NEW fence, NEW i \in Items, CmdDone(worker, fence, i)
    PROVE  DInv'
<1>1. item[i].lease.fence # 0 /\ item[i].lease.live
  BY DEF CmdDone, LeaseMatches
<1>2. item[i].status \in Active
  BY <1>1 DEF DInv, IdleHasNoLease, NoLease
<1>3. [item[i] EXCEPT !.status = "done"] \in Item
      /\ [item[i] EXCEPT !.status = "done"].status = "done" /\ "done" \in AttemptStatus
  BY DEF DInv, LInv, IInv, TypeOK, Item, Statuses, Settled, AttemptStatus
<1>4. "done" \notin Active
  BY DEF Active
<1> QED BY <1>1, <1>2, <1>3, <1>4, CloseKeepsDInv DEF CmdDone

LEMMA ClosingKeepsDInv ==
    ASSUME AllowReopen = FALSE, DInv, LInv', NEW worker, NEW fence, NEW i \in Items,
           \/ CmdDone(worker, fence, i)
           \/ CmdSkip(worker, fence, i)
           \/ CmdBlock(worker, fence, i)
           \/ \E fp \in Fingerprints : CmdFail(worker, fence, i, fp)
    PROVE  DInv'
<1>0. item[i] \in Item
  BY DEF DInv, LInv, IInv, TypeOK
<1>1. CASE CmdDone(worker, fence, i)
  BY <1>1, DoneKeepsDInv
<1>2. MayClose(i, worker, fence) => (item[i].lease # NoLease => item[i].lease.live)
  BY DEF MayClose, LeaseMatches, DInv, IdleHasNoLease
<1>3. Named(i) => item[i].status # "done"
  BY DEF Named, Closed
<1>4. CASE CmdSkip(worker, fence, i)
  <2>1. [item[i] EXCEPT !.status = "skipped"] \in Item /\ "skipped" \in AttemptStatus
        /\ [item[i] EXCEPT !.status = "skipped"].status = "skipped"
    BY <1>0 DEF Item, Statuses, Settled, AttemptStatus
  <2>2. "skipped" \notin Active
    BY DEF Active
  <2> QED BY <1>2, <1>3, <1>4, <2>1, <2>2, CloseKeepsDInv DEF CmdSkip
<1>5. CASE CmdBlock(worker, fence, i)
  <2>1. [item[i] EXCEPT !.status = "blocked", !.code = "other"] \in Item
        /\ [item[i] EXCEPT !.status = "blocked", !.code = "other"].status = "blocked"
        /\ "blocked" \in AttemptStatus
    BY <1>0 DEF Item, Statuses, Codes, AttemptStatus
  <2>2. "blocked" \notin Active
    BY DEF Active
  <2> QED BY <1>2, <1>3, <1>5, <2>1, <2>2, CloseKeepsDInv DEF CmdBlock
<1>6. ASSUME NEW fp \in Fingerprints, CmdFail(worker, fence, i, fp) PROVE DInv'
  <2>1. FailedRow(i, fp) \in Item /\ "failed" \in AttemptStatus
        /\ FailedRow(i, fp).status \in {"ready", "dead-letter"}
    BY <1>0 DEF FailedRow, Item, Statuses, Settled, Codes, AttemptStatus
  <2>2. "ready" \notin Active /\ "dead-letter" \notin Active
    BY DEF Active
  <2> QED BY <1>2, <1>3, <1>6, <2>1, <2>2, CloseKeepsDInv DEF CmdFail
<1> QED BY <1>1, <1>4, <1>5, <1>6

LEMMA TransitionKeepsDInv ==
    ASSUME DInv, LInv', NEW worker, NEW fence, NEW i \in Items, NEW target,
           NEW recode \in BOOLEAN, CmdTransition(worker, fence, i, target, recode)
    PROVE  DInv'
<1>0. item \in [Items -> Item] /\ attempts' = attempts /\ lapsed' = lapsed
  BY DEF DInv, LInv, IInv, TypeOK, CmdTransition
<1>1. /\ item'[i].status = target
      /\ item'[i].lease = IF target \in Active THEN item[i].lease ELSE NoLease
      /\ \A j \in Items \ {i} : item'[j] = item[j]
  BY <1>0 DEF CmdTransition, Item
<1>2. target # "done" /\ item[i].status # "done"
  BY DEF CmdTransition, Transitions
<1>3. target \in Active => item[i].status \in Active
  <2> SUFFICES ASSUME target \in Active PROVE item[i].lease.fence # 0
    BY DEF DInv, IdleHasNoLease, NoLease
  <2> QED BY DEF CmdTransition, LeaseMatches
<1>4. CalmStep
  BY <1>1, <1>2, <1>3 DEF CalmStep
<1>5. IdleHasNoLease' /\ LapsedNeverCloses'
  BY <1>0, <1>1 DEF DInv, IdleHasNoLease, LapsedNeverCloses
<1> QED BY <1>4, <1>5, CalmOrder DEF DInv

LEMMA HeartbeatKeepsDInv ==
    ASSUME DInv, LInv', NEW worker, NEW fence, NEW i \in Items, Heartbeat(worker, fence, i)
    PROVE  DInv'
<1>0. Refreshed \in [Items -> Item]
  BY RefreshedTyped DEF DInv, LInv, IInv
<1>1. /\ item'[i].status = Refreshed[i].status
      /\ Refreshed[i].status \in Active
      /\ \A j \in Items \ {i} : item'[j] = Refreshed[j]
      /\ attempts' = attempts /\ lapsed' = lapsed
  BY <1>0 DEF Heartbeat, Item
<1>2. CalmStep
  BY <1>1, RefreshedCalm DEF CalmStep
<1>3. IdleHasNoLease'
  BY <1>1, RefreshedCalm DEF IdleHasNoLease
<1>4. LapsedNeverCloses'
  BY <1>1 DEF DInv, LapsedNeverCloses
<1> QED BY <1>2, <1>3, <1>4, CalmOrder DEF DInv

LEMMA ExpireKeepsDInv ==
    ASSUME DInv, LInv', NEW i \in Items, Expire(i)
    PROVE  DInv'
<1>0. item \in [Items -> Item] /\ attempts' = attempts
  BY DEF DInv, LInv, IInv, TypeOK, Expire
<1>1. /\ item'[i].status = item[i].status
      /\ \A j \in Items \ {i} : item'[j] = item[j]
      /\ lapsed' = lapsed \cup {item[i].lease.fence}
  BY <1>0 DEF Expire, Item
<1>2. item[i].lease # NoLease /\ item[i].status \in Active
  BY DEF Expire, NoLease, DInv, IdleHasNoLease
<1>3. CalmStep
  BY <1>1 DEF CalmStep
<1>4. IdleHasNoLease'
  BY <1>1, <1>2 DEF DInv, IdleHasNoLease
<1>5. attempts[item[i].lease.fence].status = "active"
  <2>1. attempts[item[i].lease.fence] =
          [item |-> i, worker |-> item[i].lease.worker, status |-> "active"]
    BY <1>2 DEF DInv, LInv, IInv, LeaseOwnsAttempt
  <2> QED BY <2>1
<1>6. LapsedNeverCloses'
  BY <1>0, <1>1, <1>5 DEF DInv, LapsedNeverCloses
<1> QED BY <1>3, <1>4, <1>6, CalmOrder DEF DInv

LEMMA CmdInitKeepsDInv ==
    ASSUME DInv, LInv', CmdInit
    PROVE  DInv'
<1>1. \A i \in Items : /\ item'[i].status \notin Active \cup {"done"}
                       /\ item'[i].lease = NoLease
  BY DEF CmdInit, FrozenRow, Active
<1>2. LapsedNeverCloses'
  <2>1. /\ lapsed \subseteq DOMAIN attempts /\ lapsed' = lapsed
        /\ \A k \in 1..Len(attempts) : attempts[k] \in Attempt
        /\ DOMAIN attempts = 1..Len(attempts)
    BY LenProperties, ElementOfSeq DEF DInv, LInv, IInv, TypeOK, CmdInit
  <2>2. \A k \in DOMAIN attempts : attempts'[k].status = "erased"
    BY <2>1 DEF CmdInit, Attempt
  <2> QED BY <2>1, <2>2 DEF LapsedNeverCloses
<1> QED BY <1>1, <1>2 DEF DInv, IdleHasNoLease, DependenciesFirst, NoConflictingWork

LEMMA InitDInv == Init => DInv
<1> SUFFICES ASSUME Init PROVE DInv
  OBVIOUS
<1>1. \A i \in Items : item[i].status \notin Active \cup {"done"} /\ item[i].lease = NoLease
  BY DEF Init, FrozenRow, Active
<1>2. LapsedNeverCloses
  BY DEF Init, LapsedNeverCloses
<1> QED BY <1>1, <1>2, InitLInv
        DEF DInv, IdleHasNoLease, DependenciesFirst, NoConflictingWork

LEMMA NextDInv == ASSUME AllowReopen = FALSE PROVE DInv /\ [Next]_vars => DInv'
<1> SUFFICES ASSUME DInv, [Next]_vars PROVE DInv'
  OBVIOUS
<1>0. LInv'
  BY NextRefines DEF DInv
<1>1. ASSUME item' = item, attempts' = attempts, lapsed' = lapsed PROVE DInv'
  BY <1>0, <1>1 DEF DInv, IdleHasNoLease, DependenciesFirst, Pending, NoConflictingWork,
                    LapsedNeverCloses
<1>2. CASE CmdInit
  BY <1>0, <1>2, CmdInitKeepsDInv
<1>3. CASE \E n \in Items : CrashInInit(n) \/ UnsavedRefresh(n)
  BY <1>1, <1>3 DEF CrashInInit, UnsavedRefresh
<1>4. ASSUME NEW worker \in Holders, CmdNext(worker) PROVE DInv'
  BY <1>0, <1>4, ClaimKeepsDInv
<1>5. CASE \E worker \in Holders : RenewByNext(worker)
  BY <1>1, <1>5 DEF RenewByNext, vars
<1>6. CASE CmdStatus \/ CmdPoll
  BY <1>0, <1>6, RefreshKeepsDInv DEF CmdStatus, CmdPoll
<1>7. ASSUME NEW worker, NEW fence \in 0..Len(attempts), NEW i \in Items,
             Command(worker, fence, i)
      PROVE  DInv'
  <2>1. CASE Heartbeat(worker, fence, i)
    BY <2>1, <1>0, HeartbeatKeepsDInv
  <2>2. CASE CrashInDone(worker, fence, i)
    BY <2>2, <1>1 DEF CrashInDone
  <2>3. ASSUME NEW target \in Targets, NEW recode \in BOOLEAN,
               CmdTransition(worker, fence, i, target, recode)
        PROVE  DInv'
    BY <2>3, <1>0, TransitionKeepsDInv
  <2> QED BY <1>0, <1>7, <2>1, <2>2, <2>3, ClosingKeepsDInv DEF Command
<1>8. ASSUME NEW i \in Items, Expire(i) PROVE DInv'
  BY <1>0, <1>8, ExpireKeepsDInv
<1>9. CASE \E f \in WatchedFiles : Touch(f)
  BY <1>1, <1>9 DEF Touch
<1>10. CASE UNCHANGED vars
  BY <1>1, <1>10 DEF vars
<1> QED BY <1>2, <1>3, <1>4, <1>5, <1>6, <1>7, <1>8, <1>9, <1>10 DEF Next, Credentials

\* For every backlog whose callers leave closed items alone: nobody works on, or has
\* finished, an item whose dependencies are not done.
THEOREM WorkFollowsDependencies ==
    ASSUME AllowReopen = FALSE PROVE Spec => []DependenciesFirst
<1>1. DInv /\ [Next]_vars => DInv'
  BY NextDInv
<1>2. DInv => DependenciesFirst
  BY DEF DInv
<1> QED BY <1>1, <1>2, InitDInv, PTL DEF Spec

\* For every such backlog: items that share a plan file are never worked on at once.
THEOREM WorkIsDisjoint ==
    ASSUME AllowReopen = FALSE PROVE Spec => []NoConflictingWork
<1>1. DInv /\ [Next]_vars => DInv'
  BY NextDInv
<1>2. DInv => NoConflictingWork
  BY DEF DInv
<1> QED BY <1>1, <1>2, InitDInv, PTL DEF Spec

\* For every such backlog: a claim whose deadline passed never closes its item.
THEOREM LateClaimsCloseNothing ==
    ASSUME AllowReopen = FALSE PROVE Spec => []LapsedNeverCloses
<1>1. DInv /\ [Next]_vars => DInv'
  BY NextDInv
<1>2. DInv => LapsedNeverCloses
  BY DEF DInv
<1> QED BY <1>1, <1>2, InitDInv, PTL DEF Spec
-----------------------------------------------------------------------------
(* Rows and their workspaces.                                              *)

\* A refresh keeps what is settled, and the failures of every row; it makes nothing done,
\* and an item is invalidated only with its source changed, or was before.
LEMMA RefreshedKeeps ==
    ASSUME TypeOK, NEW i \in Items
    PROVE  /\ item[i].status \in Settled => Refreshed[i] = item[i]
           /\ Refreshed[i].failures = item[i].failures
           /\ Refreshed[i].status = "done" => item[i].status = "done"
           /\ Refreshed[i].status = "invalidated" =>
                item[i].status = "invalidated" \/ (item[i].status \notin Settled /\ SourceChanged(i))
<1>0. item[i] \in Item /\ Refreshed[i] = RefreshedRow(i)
  BY DEF TypeOK, Refreshed
<1>1. /\ Released(item[i]) \in Item
      /\ Released(item[i]).failures = item[i].failures
      /\ Released(item[i]).status \in {item[i].status, "ready"}
  BY <1>0, RowsTyped DEF Released, Item
<1>2. ASSUME NEW r \in Item
      PROVE  Unblocked(r).failures = r.failures /\ Unblocked(r).status \in {r.status, "ready"}
  BY DEF Unblocked, Item
<1>3. CASE item[i].status \in Settled
  BY <1>0, <1>3 DEF RefreshedRow, Settled
<1>4. CASE item[i].status \notin Settled /\ SourceChanged(i)
  <2>1. Refreshed[i] = [item[i] EXCEPT !.status = "invalidated", !.code = "source-changed",
                                       !.lease = NoLease]
    BY <1>0, <1>4 DEF RefreshedRow
  <2> QED BY <1>0, <1>4, <2>1 DEF Item
<1>5. CASE item[i].status \notin Settled /\ ~SourceChanged(i) /\ Pending(i) # {}
  <2> DEFINE r == Released(item[i])
  <2>1. Refreshed[i] = [r EXCEPT !.status = "blocked", !.code = "dependency-pending"]
    BY <1>0, <1>5 DEF RefreshedRow
  <2>2. r \in Item /\ r.failures = item[i].failures
    BY <1>1
  <2> HIDE DEF r
  <2> QED BY <1>5, <2>1, <2>2 DEF Item
<1>6. CASE item[i].status \notin Settled /\ ~SourceChanged(i) /\ Pending(i) = {}
  <2>1. Refreshed[i] = Unblocked(Released(item[i]))
    BY <1>0, <1>6 DEF RefreshedRow
  <2> QED BY <1>1, <1>2, <1>6, <2>1
<1> QED BY <1>3, <1>4, <1>5, <1>6

\* What a step does to the failures and the parking of a row.
ParkStep == \A i \in Items :
    \/ /\ item'[i].failures = item[i].failures
       /\ item[i].status = "dead-letter" => item'[i].status = "dead-letter"
    \/ item'[i].failures = {}
    \/ Cardinality(item'[i].failures) >= MaxFailures => item'[i].status = "dead-letter"

LEMMA ParkClose ==
    ASSUME TypeOK, AllowReopen = FALSE, IdleHasNoLease, NEW worker, NEW fence, NEW i \in Items,
           \/ CmdDone(worker, fence, i)
           \/ CmdSkip(worker, fence, i)
           \/ CmdBlock(worker, fence, i)
           \/ \E fp \in Fingerprints : CmdFail(worker, fence, i, fp)
    PROVE  ParkStep
<1>0. item \in [Items -> Item] /\ item[i] \in Item
  BY DEF TypeOK
<1>1. ASSUME NEW row \in Item, NEW outcome, Close(i, fence, outcome, row)
      PROVE  /\ item'[i].failures = row.failures /\ item'[i].status = row.status
             /\ \A j \in Items \ {i} : item'[j] = item[j]
  <2>1. item' = [item EXCEPT ![i] = [row EXCEPT !.lease = NoLease]]
    BY <1>1 DEF Close
  <2> QED BY <1>0, <2>1 DEF Item
<1>2. CASE CmdDone(worker, fence, i)
  <2>1. item[i].lease.live
    BY <1>2 DEF CmdDone, LeaseMatches
  <2>2. item[i].status \in Active
    BY <2>1 DEF IdleHasNoLease, NoLease
  <2> DEFINE row == [item[i] EXCEPT !.status = "done"]
  <2>3. row \in Item /\ row.failures = item[i].failures
    BY <1>0 DEF Item, Statuses, Settled
  <2>4. Close(i, fence, "done", row)
    BY <1>2 DEF CmdDone
  <2> HIDE DEF row
  <2> QED BY <1>1, <2>2, <2>3, <2>4 DEF ParkStep, Active
<1>3. CASE CmdSkip(worker, fence, i)
  <2>1. item[i].status # "dead-letter"
    BY <1>3 DEF CmdSkip, Named, Closed
  <2> DEFINE row == [item[i] EXCEPT !.status = "skipped"]
  <2>2. row \in Item /\ row.failures = item[i].failures
    BY <1>0 DEF Item, Statuses, Settled
  <2>3. Close(i, fence, "skipped", row)
    BY <1>3 DEF CmdSkip
  <2> HIDE DEF row
  <2> QED BY <1>1, <2>1, <2>2, <2>3 DEF ParkStep
<1>4. CASE CmdBlock(worker, fence, i)
  <2>1. item[i].status # "dead-letter"
    BY <1>4 DEF CmdBlock, Named, Closed
  <2> DEFINE row == [item[i] EXCEPT !.status = "blocked", !.code = "other"]
  <2>2. row \in Item /\ row.failures = item[i].failures
    BY <1>0 DEF Item, Statuses, Codes
  <2>3. Close(i, fence, "blocked", row)
    BY <1>4 DEF CmdBlock
  <2> HIDE DEF row
  <2> QED BY <1>1, <2>1, <2>2, <2>3 DEF ParkStep
<1>5. ASSUME NEW fp \in Fingerprints, CmdFail(worker, fence, i, fp) PROVE ParkStep
  <2>1. /\ FailedRow(i, fp) \in Item
        /\ Cardinality(FailedRow(i, fp).failures) >= MaxFailures =>
             FailedRow(i, fp).status = "dead-letter"
    BY <1>0 DEF FailedRow, Item, Statuses, Settled, Codes
  <2>2. Close(i, fence, "failed", FailedRow(i, fp))
    BY <1>5 DEF CmdFail
  <2> QED BY <1>1, <2>1, <2>2 DEF ParkStep
<1> QED BY <1>2, <1>3, <1>4, <1>5

LEMMA NextPark == ASSUME AllowReopen = FALSE PROVE DInv /\ [Next]_vars => ParkStep
<1> SUFFICES ASSUME DInv, [Next]_vars PROVE ParkStep
  OBVIOUS
<1>0. TypeOK /\ item \in [Items -> Item] /\ Refreshed \in [Items -> Item]
  BY RefreshedTyped DEF DInv, LInv, IInv, TypeOK
<1>1. ASSUME item' = item PROVE ParkStep
  BY <1>1 DEF ParkStep
<1>2. ASSUME NEW i \in Items, item'[i].failures = Refreshed[i].failures,
             item'[i].status = Refreshed[i].status \/ Refreshed[i].status # "dead-letter"
      PROVE  /\ item'[i].failures = item[i].failures
             /\ item[i].status = "dead-letter" => item'[i].status = "dead-letter"
  BY <1>0, <1>2, RefreshedKeeps DEF Settled
<1>3. CASE CmdInit
  BY <1>3 DEF CmdInit, FrozenRow, ParkStep
<1>4. ASSUME NEW worker \in Holders, CmdNext(worker) PROVE ParkStep
  <2>1. CASE item' = Refreshed
    BY <1>2, <2>1 DEF ParkStep
  <2>2. ASSUME NEW i \in Items, IsPick(i),
               item' = [Refreshed EXCEPT ![i].status = "claimed",
                          ![i].lease = [worker |-> worker, fence |-> Len(attempts) + 1,
                                        live |-> TRUE]]
        PROVE  ParkStep
    <3>1. /\ item'[i].failures = Refreshed[i].failures
          /\ \A j \in Items \ {i} : item'[j] = Refreshed[j]
      BY <1>0, <2>2 DEF Item
    <3>2. Refreshed[i].status # "dead-letter"
      BY <2>2 DEF IsPick, Claimable
    <3> QED BY <1>2, <3>1, <3>2 DEF ParkStep
  <2> QED BY <1>4, <2>1, <2>2 DEF CmdNext
<1>5. CASE CmdStatus \/ CmdPoll
  BY <1>2, <1>5 DEF CmdStatus, CmdPoll, ParkStep
<1>6. ASSUME NEW worker, NEW fence \in 0..Len(attempts), NEW i \in Items,
             Command(worker, fence, i)
      PROVE  ParkStep
  <2>1. CASE Heartbeat(worker, fence, i)
    <3>1. /\ item'[i].failures = Refreshed[i].failures /\ item'[i].status = Refreshed[i].status
          /\ \A j \in Items \ {i} : item'[j] = Refreshed[j]
      BY <1>0, <2>1 DEF Heartbeat, Item
    <3> QED BY <1>2, <3>1 DEF ParkStep
  <2>2. CASE CrashInDone(worker, fence, i)
    BY <1>1, <2>2 DEF CrashInDone
  <2>3. ASSUME NEW target \in Targets, NEW recode \in BOOLEAN,
               CmdTransition(worker, fence, i, target, recode)
        PROVE  ParkStep
    <3>1. item[i].status # "dead-letter"
      BY <2>3 DEF CmdTransition, Transitions
    <3>2. /\ item'[i].failures = item[i].failures
          /\ \A j \in Items \ {i} : item'[j] = item[j]
      BY <1>0, <2>3 DEF CmdTransition, Item
    <3> QED BY <3>1, <3>2 DEF ParkStep
  <2> QED BY <1>0, <1>6, <2>1, <2>2, <2>3, ParkClose DEF Command, DInv
<1>7. ASSUME NEW i \in Items, Expire(i) PROVE ParkStep
  <2>1. /\ item'[i].failures = item[i].failures /\ item'[i].status = item[i].status
        /\ \A j \in Items \ {i} : item'[j] = item[j]
    BY <1>0, <1>7 DEF Expire, Item
  <2> QED BY <2>1 DEF ParkStep
<1>8. CASE \/ \E n \in Items : CrashInInit(n) \/ UnsavedRefresh(n)
           \/ \E worker \in Holders : RenewByNext(worker)
           \/ \E f \in WatchedFiles : Touch(f)
           \/ UNCHANGED vars
  BY <1>1, <1>8 DEF CrashInInit, UnsavedRefresh, RenewByNext, Touch, vars
<1> QED BY <1>3, <1>4, <1>5, <1>6, <1>7, <1>8 DEF Next, Credentials

\* For every backlog whose callers leave closed items alone: an item with MaxFailures
\* distinct failures is parked, and no refresh, claim, heartbeat or transition brings it
\* back before the next freeze (cmd_fail).
THEOREM PoisonStaysParked ==
    ASSUME AllowReopen = FALSE PROVE Spec => []PoisonIsParked
<1>0. Cardinality({}) = 0
  BY FS_EmptySet
<1>1. Init => PoisonIsParked
  <2> SUFFICES ASSUME Init, NEW i \in Items PROVE ~(Cardinality(item[i].failures) >= MaxFailures)
    BY DEF PoisonIsParked
  <2>1. item[i].failures = {}
    BY DEF Init, FrozenRow
  <2>2. ~(0 >= MaxFailures)
    BY SizeAssumption
  <2> QED BY <1>0, <2>1, <2>2
<1>2. DInv /\ PoisonIsParked /\ [Next]_vars => PoisonIsParked'
  <2> SUFFICES ASSUME PoisonIsParked, ParkStep PROVE PoisonIsParked'
    BY NextPark
  <2> SUFFICES ASSUME NEW i \in Items, Cardinality(item'[i].failures) >= MaxFailures
               PROVE  item'[i].status = "dead-letter"
    BY DEF PoisonIsParked
  <2>1. item'[i].failures # {}
    BY <1>0, SizeAssumption
  <2> QED BY <2>1 DEF ParkStep, PoisonIsParked
<1>3. DInv /\ [Next]_vars => DInv'
  BY NextDInv
<1> QED BY <1>1, <1>2, <1>3, InitDInv, PTL DEF Spec

\* What a step does to a row and its workspace: a row comes to be done or invalidated
\* only with a workspace that says so, and the workspace of such a row is overwritten
\* only by something that knows better.
WorkspaceStep == \A i \in Items :
    /\ item'[i].status = "done" =>
         ws'[i] \in {"done", "refrozen"} \/ (item[i].status = "done" /\ ws'[i] = ws[i])
    /\ item'[i].status = "invalidated" =>
         ws'[i] # "frozen" \/ (item[i].status = "invalidated" /\ ws'[i] = ws[i])

LEMMA RefreshWorkspace ==
    ASSUME TypeOK, NEW n \in Items \cup {NumItems}, ws' = WsRefreshed(n),
           \/ item' = item
           \/ n = NumItems /\ \A i \in Items :
                item'[i].status \in {"done", "invalidated"} => item'[i].status = Refreshed[i].status
    PROVE  WorkspaceStep
<1> SUFFICES ASSUME NEW i \in Items
             PROVE  /\ item'[i].status = "done" => item[i].status = "done" /\ ws'[i] = ws[i]
                    /\ item'[i].status = "invalidated" =>
                         ws'[i] # "frozen" \/ (item[i].status = "invalidated" /\ ws'[i] = ws[i])
  BY DEF WorkspaceStep
<1>1. ws'[i] = IF i <= n /\ item[i].status \notin Settled /\ SourceChanged(i)
               THEN "invalidated" ELSE ws[i]
  BY DEF WsRefreshed
<1>2. CASE item' = item
  BY <1>1, <1>2 DEF Settled
<1>3. CASE /\ n = NumItems
           /\ item'[i].status \in {"done", "invalidated"} => item'[i].status = Refreshed[i].status
  <2>1. i <= NumItems
    BY SizeAssumption DEF Items
  <2> QED BY <1>1, <1>3, <2>1, RefreshedKeeps DEF Settled
<1> QED BY <1>2, <1>3

LEMMA NextWorkspace == IInv /\ [Next]_vars => WorkspaceStep
<1> SUFFICES ASSUME IInv, [Next]_vars PROVE WorkspaceStep
  OBVIOUS
<1>0. TypeOK /\ item \in [Items -> Item] /\ Refreshed \in [Items -> Item]
      /\ ws \in [Items -> Workspace]
  BY RefreshedTyped DEF IInv, TypeOK
<1>1. CASE CmdInit
  BY <1>1 DEF CmdInit, FrozenRow, WorkspaceStep
<1>2. ASSUME NEW n \in Items, CrashInInit(n) PROVE WorkspaceStep
  <2>1. \A i \in Items : ws'[i] \in {"refrozen", ws[i]} /\ item'[i] = item[i]
    BY <1>2 DEF CrashInInit
  <2> QED BY <2>1 DEF WorkspaceStep
<1>3. ASSUME NEW n \in Items, UnsavedRefresh(n) PROVE WorkspaceStep
  BY <1>0, <1>3, RefreshWorkspace DEF UnsavedRefresh
<1>4. ASSUME NEW worker \in Holders, CmdNext(worker) PROVE WorkspaceStep
  <2>1. ws' = WsRefreshed(NumItems)
    BY <1>4 DEF CmdNext
  <2>2. \A i \in Items :
          item'[i].status \in {"done", "invalidated"} => item'[i].status = Refreshed[i].status
    <3>1. CASE item' = Refreshed
      BY <3>1
    <3>2. ASSUME NEW i \in Items,
                 item' = [Refreshed EXCEPT ![i].status = "claimed",
                            ![i].lease = [worker |-> worker, fence |-> Len(attempts) + 1,
                                          live |-> TRUE]]
          PROVE  \A j \in Items :
            item'[j].status \in {"done", "invalidated"} => item'[j].status = Refreshed[j].status
      BY <1>0, <3>2 DEF Item
    <3> QED BY <1>4, <3>1, <3>2 DEF CmdNext
  <2> QED BY <1>0, <2>1, <2>2, RefreshWorkspace
<1>5. CASE CmdStatus \/ CmdPoll
  BY <1>0, <1>5, RefreshWorkspace DEF CmdStatus, CmdPoll
<1>6. ASSUME NEW worker, NEW fence \in 0..Len(attempts), NEW i \in Items,
             Command(worker, fence, i)
      PROVE  WorkspaceStep
  <2>0. item[i] \in Item
    BY <1>0
  <2>1. CASE Heartbeat(worker, fence, i)
    <3>1. /\ item'[i].status = Refreshed[i].status
          /\ \A j \in Items \ {i} : item'[j] = Refreshed[j]
          /\ ws' = WsRefreshed(NumItems)
      BY <1>0, <2>1 DEF Heartbeat, Item
    <3> QED BY <1>0, <3>1, RefreshWorkspace
  <2>2. CASE CrashInDone(worker, fence, i)
    <3>1. ws' = [ws EXCEPT ![i] = "done"] /\ item' = item
      BY <2>2 DEF CrashInDone
    <3> QED BY <1>0, <3>1 DEF WorkspaceStep
  <2>3. ASSUME NEW target \in Targets, NEW recode \in BOOLEAN,
               CmdTransition(worker, fence, i, target, recode)
        PROVE  WorkspaceStep
    <3>1. target \notin {"done", "invalidated"}
      BY <2>3 DEF CmdTransition, Transitions
    <3>2. /\ item'[i].status = target /\ ws' = ws
          /\ \A j \in Items \ {i} : item'[j] = item[j]
      BY <1>0, <2>3 DEF CmdTransition, Item
    <3> QED BY <3>1, <3>2 DEF WorkspaceStep
  <2>4. ASSUME NEW row \in Item, NEW outcome, Close(i, fence, outcome, row)
        PROVE  item'[i].status = row.status /\ \A j \in Items \ {i} : item'[j] = item[j]
    <3>1. item' = [item EXCEPT ![i] = [row EXCEPT !.lease = NoLease]]
      BY <2>4 DEF Close
    <3> QED BY <1>0, <3>1 DEF Item
  <2>5. CASE CmdDone(worker, fence, i)
    <3>1. [item[i] EXCEPT !.status = "done"] \in Item
      BY <2>0 DEF Item, Statuses, Settled
    <3>2. \A j \in Items \ {i} : item'[j] = item[j]
      BY <2>4, <2>5, <3>1 DEF CmdDone
    <3>3. ws'[i] = "done" /\ \A j \in Items \ {i} : ws'[j] = ws[j]
      BY <1>0, <2>5 DEF CmdDone
    <3> QED BY <3>2, <3>3 DEF WorkspaceStep
  <2>6. ASSUME NEW row \in Item, NEW outcome, Close(i, fence, outcome, row), ws' = ws,
               row.status \notin {"done", "invalidated"}
        PROVE  WorkspaceStep
    BY <2>4, <2>6 DEF WorkspaceStep
  <2>7. CASE CmdSkip(worker, fence, i)
    <3>1. [item[i] EXCEPT !.status = "skipped"] \in Item
          /\ [item[i] EXCEPT !.status = "skipped"].status = "skipped"
      BY <2>0 DEF Item, Statuses, Settled
    <3> QED BY <2>6, <2>7, <3>1 DEF CmdSkip
  <2>8. CASE CmdBlock(worker, fence, i)
    <3>1. [item[i] EXCEPT !.status = "blocked", !.code = "other"] \in Item
          /\ [item[i] EXCEPT !.status = "blocked", !.code = "other"].status = "blocked"
      BY <2>0 DEF Item, Statuses, Codes
    <3> QED BY <2>6, <2>8, <3>1 DEF CmdBlock
  <2>9. ASSUME NEW fp \in Fingerprints, CmdFail(worker, fence, i, fp) PROVE WorkspaceStep
    <3>1. FailedRow(i, fp) \in Item /\ FailedRow(i, fp).status \in {"ready", "dead-letter"}
      BY <2>0 DEF FailedRow, Item, Statuses, Settled, Codes
    <3> QED BY <2>6, <2>9, <3>1 DEF CmdFail
  <2> QED BY <1>6, <2>1, <2>2, <2>3, <2>5, <2>7, <2>8, <2>9 DEF Command
<1>7. ASSUME NEW i \in Items, Expire(i) PROVE WorkspaceStep
  <2>1. /\ item'[i].status = item[i].status /\ ws' = ws
        /\ \A j \in Items \ {i} : item'[j] = item[j]
    BY <1>0, <1>7 DEF Expire, Item
  <2> QED BY <2>1 DEF WorkspaceStep
<1>8. CASE \/ \E worker \in Holders : RenewByNext(worker)
           \/ \E f \in WatchedFiles : Touch(f)
           \/ UNCHANGED vars
  BY <1>8 DEF RenewByNext, Touch, vars, WorkspaceStep
<1> QED BY <1>1, <1>2, <1>3, <1>4, <1>5, <1>6, <1>7, <1>8 DEF Next, Credentials

\* For every backlog: a row that is done or invalidated has a state.json that says so,
\* wherever commands die between the workspace and the backlog, unless a later freeze
\* died half way (_write_item_workspace before _save).
THEOREM WorkspaceLeads == Spec => []WorkspaceNotBehind
<1>1. Init => WorkspaceNotBehind
  BY DEF Init, FrozenRow, WorkspaceNotBehind
<1>2. IInv /\ WorkspaceNotBehind /\ [Next]_vars => WorkspaceNotBehind'
  BY NextWorkspace DEF WorkspaceStep, WorkspaceNotBehind
<1> QED BY <1>1, <1>2, InitIInv, NextIInv, PTL DEF Spec
-----------------------------------------------------------------------------
(* The backlog while it is drained, and what is reported of it.            *)

\* Draining never skips, blocks, fails or invalidates anything.
DrainInv ==
    /\ DInv
    /\ changed = {}
    /\ \A i \in Items :
         /\ item[i].status \in Active \cup {"done", "ready", "blocked"}
         /\ item[i].status = "blocked" => item[i].code = "dependency-pending"
         /\ item[i].status \in Active => item[i].lease.worker # None
    /\ emptyPolls > 0 => \A i \in Items : item[i].status = "done"
-----------------------------------------------------------------------------
LEMMA LeastNatural ==
    ASSUME NEW S \in SUBSET Nat, S # {}
    PROVE  \E m \in S : \A k \in S : m <= k
<1> DEFINE R == {ss \in Nat \X Nat : ss[1] < ss[2]}
<1>1. IsWellFoundedOn(R, Nat)
  BY NatLessThanWellFounded DEF OpToRel
<1> HIDE DEF R
<1>2. PICK m \in S : \A k \in S : <<k, m>> \notin R
  BY <1>1, WFMin, Zenon
<1>3. \A k \in S : ~(k < m)
  BY <1>2 DEF R
<1> QED BY <1>2, <1>3

\* What a refresh makes of a row while the backlog is drained.
LEMMA RefreshedDrain ==
    ASSUME DrainInv, NEW i \in Items
    PROVE  /\ Refreshed[i].status \in Active \cup {"done", "ready", "blocked"}
           /\ Refreshed[i].status = "blocked" => Refreshed[i].code = "dependency-pending"
           /\ Refreshed[i].status \in Active => Refreshed[i].lease.worker # None
           /\ item[i].status # "done" /\ Pending(i) = {} =>
                Refreshed[i].status \in Active \cup {"ready"}
<1>0. /\ item[i] \in Item /\ Refreshed[i] = RefreshedRow(i) /\ ~SourceChanged(i)
      /\ Released(item[i]) \in Item
  BY RowsTyped DEF DrainInv, DInv, LInv, IInv, TypeOK, Refreshed, SourceChanged
<1>1. CASE item[i].status \in Settled
  BY <1>0, <1>1 DEF RefreshedRow, DrainInv, Settled, Active
<1>2. CASE item[i].status \notin Settled /\ Pending(i) # {}
  <2>1. RefreshedRow(i) = [Released(item[i]) EXCEPT !.status = "blocked",
                                                    !.code = "dependency-pending"]
    BY <1>0, <1>2 DEF RefreshedRow
  <2>2. \A r \in Item : /\ [r EXCEPT !.status = "blocked",
                                     !.code = "dependency-pending"].status = "blocked"
                        /\ [r EXCEPT !.status = "blocked",
                               !.code = "dependency-pending"].code = "dependency-pending"
    BY DEF Item
  <2>3. RefreshedRow(i).status = "blocked" /\ RefreshedRow(i).code = "dependency-pending"
    BY <1>0, <2>1, <2>2
  <2> QED BY <1>0, <1>2, <2>3 DEF Active
<1>3. CASE item[i].status \notin Settled /\ Pending(i) = {}
  <2>1. RefreshedRow(i) = Unblocked(Released(item[i]))
    BY <1>0, <1>3 DEF RefreshedRow
  <2>2. CASE item[i].status \in Active /\ ~(item[i].lease.worker # None /\ item[i].lease.live)
    <3>1. Released(item[i]).status = "ready"
      BY <1>0, <2>2 DEF Released, Item
    <3> QED BY <1>0, <2>1, <3>1 DEF Unblocked, Active
  <2>3. CASE item[i].status \in Active /\ item[i].lease.worker # None /\ item[i].lease.live
    <3>1. Released(item[i]) = item[i]
      BY <2>3 DEF Released
    <3> QED BY <1>0, <2>1, <2>3, <3>1 DEF Unblocked, Active
  <2>4. CASE item[i].status \notin Active
    <3>1. Released(item[i]) = item[i] /\ item[i].status \in {"ready", "blocked"}
      BY <1>3, <2>4 DEF Released, DrainInv, Settled
    <3>2. item[i].status = "blocked" => item[i].code = "dependency-pending"
      BY DEF DrainInv
    <3>3. Unblocked(item[i]).status = "ready"
      BY <1>0, <3>1, <3>2 DEF Unblocked, Item
    <3> QED BY <1>0, <2>1, <3>1, <3>3 DEF Active
  <2> QED BY <2>2, <2>3, <2>4
<1> QED BY <1>1, <1>2, <1>3

\* cmd_poll finds nothing to wait for only when everything is done.
LEMMA IdleMeansDone ==
    ASSUME DrainInv, ~Busy(Refreshed), NEW j \in Items
    PROVE  item[j].status = "done"
<1> DEFINE Open == {i \in Items : item[i].status # "done"}
<1>1. Items \subseteq Nat
  BY SizeAssumption DEF Items
<1> SUFFICES ASSUME Open # {} PROVE FALSE
  OBVIOUS
<1>2. PICK m \in Open : \A k \in Open : m <= k
  BY <1>1, LeastNatural
<1>3. Pending(m) = {}
  <2> SUFFICES ASSUME NEW d \in Deps[m] PROVE item[d].status = "done"
    BY DEF Pending
  <2>1. d \in Items /\ d < m
    BY GraphAssumption DEF AcceptedGraph
  <2> QED BY <1>1, <1>2, <2>1
<1>4. Refreshed[m].status = "ready"
      \/ (Refreshed[m].status \in Active /\ Refreshed[m].lease.worker # None)
  BY <1>3, RefreshedDrain
<1> QED BY <1>4 DEF Busy

LEMMA InitDrainInv == Init => DrainInv
BY InitDInv DEF Init, FrozenRow, DrainInv, Active

LEMMA NextDrainInv == DrainInv /\ [DrainNext]_vars => DrainInv'
<1> SUFFICES ASSUME DrainInv, [DrainNext]_vars PROVE DrainInv'
  OBVIOUS
<1>0. /\ item \in [Items -> Item] /\ Refreshed \in [Items -> Item]
      /\ emptyPolls \in Nat
  BY RefreshedTyped, SizeAssumption DEF DrainInv, DInv, LInv, IInv, TypeOK
<1>1. ASSUME NEW worker \in Holders, CmdNext(worker) PROVE DrainInv'
  <2>1. DInv'
    <3>1. [Next]_vars
      BY <1>1 DEF Next
    <3> QED BY <1>1, <3>1, NextRefines, ClaimKeepsDInv DEF DrainInv, DInv
  <2>2. changed' = {}
    BY <1>1 DEF CmdNext, DrainInv
  <2>3. CASE item' = Refreshed /\ emptyPolls' = emptyPolls
    <3>1. \A i \in Items : item[i].status = "done" => item'[i].status = "done"
      BY <2>3, RefreshedCalm DEF DrainInv
    <3> QED BY <2>1, <2>2, <2>3, <3>1, RefreshedDrain DEF DrainInv
  <2>4. ASSUME NEW i \in Items, emptyPolls' = 0,
               item' = [Refreshed EXCEPT ![i].status = "claimed",
                          ![i].lease = [worker |-> worker, fence |-> Len(attempts) + 1,
                                        live |-> TRUE]]
        PROVE  DrainInv'
    <3>1. /\ item'[i].status = "claimed" /\ item'[i].lease.worker = worker
          /\ \A k \in Items \ {i} : item'[k] = Refreshed[k]
      BY <1>0, <2>4 DEF Item
    <3>2. worker # None
      BY NameAssumption
    <3>3. ASSUME NEW k \in Items
          PROVE  /\ item'[k].status \in Active \cup {"done", "ready", "blocked"}
                 /\ item'[k].status = "blocked" => item'[k].code = "dependency-pending"
                 /\ item'[k].status \in Active => item'[k].lease.worker # None
      <4>1. CASE k = i
        BY <3>1, <3>2, <4>1 DEF Active
      <4>2. CASE k # i
        BY <3>1, <4>2, RefreshedDrain
      <4> QED BY <4>1, <4>2
    <3>4. ~(emptyPolls' > 0)
      BY <2>4
    <3> QED BY <2>1, <2>2, <3>3, <3>4 DEF DrainInv
  <2> QED BY <1>1, <2>3, <2>4 DEF CmdNext
<1>2. CASE CmdPoll
  <2>1. DInv'
    <3>1. [Next]_vars
      BY <1>2 DEF Next
    <3> QED BY <1>2, <3>1, NextRefines, RefreshKeepsDInv DEF DrainInv, DInv, CmdPoll
  <2>2. changed' = {} /\ item' = Refreshed
    BY <1>2 DEF CmdPoll, DrainInv
  <2>3. emptyPolls' > 0 => \A i \in Items : item'[i].status = "done"
    <3>1. Busy(Refreshed) => emptyPolls' = 0
      BY <1>2, Zenon DEF CmdPoll
    <3>2. CASE ~Busy(Refreshed)
      BY <2>2, <3>2, IdleMeansDone, RefreshedCalm DEF DrainInv
    <3> QED BY <3>1, <3>2
  <2> QED BY <2>1, <2>2, <2>3, RefreshedDrain DEF DrainInv
<1>3. ASSUME NEW i \in Items, NEW worker \in Holders \cup {None},
             NEW fence \in 0..Len(attempts), CmdDone(worker, fence, i)
      PROVE  DrainInv'
  <2>1. DInv'
    <3>1. [Next]_vars
      <4>1. <<worker, fence>> \in Credentials /\ Command(worker, fence, i)
        BY <1>3 DEF Credentials, Command
      <4> QED BY <4>1 DEF Next
    <3> QED BY <1>3, <3>1, NextRefines, DoneKeepsDInv DEF DrainInv, DInv
  <2>2. /\ item'[i].status = "done" /\ changed' = changed /\ emptyPolls' = emptyPolls
        /\ \A k \in Items \ {i} : item'[k] = item[k]
    <3> DEFINE row == [item[i] EXCEPT !.status = "done"]
    <3>1. row \in Item /\ row.status = "done"
      BY <1>0 DEF Item, Statuses, Settled
    <3>2. item' = [item EXCEPT ![i] = [row EXCEPT !.lease = NoLease]]
          /\ changed' = changed /\ emptyPolls' = emptyPolls
      BY <1>3 DEF CmdDone, Close
    <3> HIDE DEF row
    <3>3. [row EXCEPT !.lease = NoLease].status = "done"
      BY <3>1 DEF Item
    <3> QED BY <1>0, <3>2, <3>3
  <2> QED BY <2>1, <2>2 DEF DrainInv, Active
<1>4. ASSUME NEW i \in Items, Expire(i) PROVE DrainInv'
  <2>1. DInv'
    <3>1. [Next]_vars
      BY <1>4 DEF Next
    <3> QED BY <1>4, <3>1, NextRefines, ExpireKeepsDInv DEF DrainInv, DInv
  <2>2. /\ item'[i].status = item[i].status /\ item'[i].code = item[i].code
        /\ item'[i].lease.worker = item[i].lease.worker
        /\ \A k \in Items \ {i} : item'[k] = item[k]
        /\ changed' = changed /\ emptyPolls' = emptyPolls
    <3>1. item[i] \in Item /\ item[i].lease \in Lease
      BY <1>0 DEF Item
    <3> QED BY <1>0, <1>4, <3>1 DEF Expire, Item, Lease
  <2> QED BY <2>1, <2>2 DEF DrainInv
<1>5. CASE UNCHANGED vars
  <2>1. DInv'
    BY <1>5, NextRefines DEF DrainInv, DInv, vars, IdleHasNoLease, DependenciesFirst, Pending,
                             NoConflictingWork, LapsedNeverCloses
  <2> QED BY <1>5, <2>1 DEF DrainInv, vars
<1> QED BY <1>1, <1>2, <1>3, <1>4, <1>5 DEF DrainNext, Claim, Finish, Credentials

LEMMA DrainKeepsDone ==
    ASSUME DrainInv, [DrainNext]_vars, NEW i \in Items, item[i].status = "done"
    PROVE  item'[i].status = "done"
<1>0. item \in [Items -> Item] /\ Refreshed \in [Items -> Item]
  BY RefreshedTyped DEF DrainInv, DInv, LInv, IInv, TypeOK
<1>1. Refreshed[i].status = "done"
  BY RefreshedCalm DEF DrainInv
<1>2. ASSUME NEW worker \in Holders, CmdNext(worker) PROVE item'[i].status = "done"
  <2>1. ASSUME NEW k \in Items, IsPick(k),
               item' = [Refreshed EXCEPT ![k].status = "claimed",
                          ![k].lease = [worker |-> worker, fence |-> Len(attempts) + 1,
                                        live |-> TRUE]]
        PROVE  item'[i].status = "done"
    <3>1. k # i
      BY <1>1, <2>1 DEF IsPick, Claimable
    <3> QED BY <1>0, <1>1, <2>1, <3>1
  <2> QED BY <1>1, <1>2, <2>1 DEF CmdNext
<1>3. ASSUME NEW k \in Items, NEW worker, NEW fence, CmdDone(worker, fence, k)
      PROVE  item'[i].status = "done"
  <2> DEFINE row == [item[k] EXCEPT !.status = "done"]
  <2>1. row \in Item /\ row.status = "done"
    BY <1>0 DEF Item, Statuses, Settled
  <2>2. item' = [item EXCEPT ![k] = [row EXCEPT !.lease = NoLease]]
    BY <1>3 DEF CmdDone, Close
  <2> HIDE DEF row
  <2>3. [row EXCEPT !.lease = NoLease].status = "done"
    BY <2>1 DEF Item
  <2> QED BY <1>0, <2>2, <2>3
<1>4. ASSUME NEW k \in Items, Expire(k) PROVE item'[i].status = "done"
  <2>1. item'[k].status = item[k].status /\ (k # i => item'[i] = item[i])
    BY <1>0, <1>4 DEF Expire, Item
  <2> QED BY <2>1
<1>5. CASE CmdPoll \/ UNCHANGED vars
  BY <1>1, <1>5 DEF CmdPoll, vars
<1> QED BY <1>2, <1>3, <1>4, <1>5 DEF DrainNext, Claim, Finish

\* For every backlog that is drained: cmd_poll answers "drained" only when every item is
\* done, however its polls fall between claims, lapses and completions.
THEOREM DrainedBacklogIsDone == DrainSpec => []DrainedMeansDone
<1>1. DrainInv => DrainedMeansDone
  BY SizeAssumption DEF DrainInv, DInv, LInv, IInv, TypeOK, DrainedMeansDone
<1> QED BY <1>1, InitDrainInv, NextDrainInv, PTL DEF DrainSpec

\* Reporting leaves the backlog alone, so that all of this also holds of the backlog
\* that is reported on.
LEMMA ReportLeavesBacklog == [ProgressNext]_allVars => [DrainNext]_vars
BY DEF ProgressNext, allVars, Report, SetAnchor, MarkAnchor, Emit, ReadAnchor, ReadBacklog,
       AppendEvent, Refresh, ReadAnchorAgain, ReadBacklogAgain, WriteSnapshot

LEMMA DrainedWhileReported == ProgressSpec => []DrainInv
<1>1. ProgressInit => DrainInv
  BY InitDrainInv DEF ProgressInit
<1>2. DrainInv /\ [ProgressNext]_allVars => DrainInv'
  BY NextDrainInv, ReportLeavesBacklog
<1> QED BY <1>1, <1>2, PTL DEF ProgressSpec

\* The same while any number of emitters report.
THEOREM DrainedIsDoneWhileReported == ProgressSpec => []DrainedMeansDone
<1>1. DrainInv => DrainedMeansDone
  BY SizeAssumption DEF DrainInv, DInv, LInv, IInv, TypeOK, DrainedMeansDone
<1> QED BY <1>1, DrainedWhileReported, PTL

\* Workers that drain the backlog never share a plan file, and never work ahead of a
\* dependency, whatever callers may do elsewhere.
THEOREM DrainingIsOrderly == ProgressSpec => [](NoConflictingWork /\ DependenciesFirst)
<1>1. DrainInv => NoConflictingWork /\ DependenciesFirst
  BY DEF DrainInv, DInv
<1> QED BY <1>1, DrainedWhileReported, PTL
-----------------------------------------------------------------------------
(* Sums.  Earned is a sum over the items; that the recursive function it   *)
(* is taken from exists, grows with its weights and bounds a product from  *)
(* above is shown each time at the least number at which it would not.     *)

\* f holds the running sums of the weights w, as the recursive function in Earned does.
RunningSum(f, w, n) == f = [i \in 0..n |-> IF i = 0 THEN 0 ELSE f[i - 1] + w[i]]

LEMMA RunningSumExists ==
    ASSUME NEW w
    PROVE  \E f : RunningSum(f, w, NumItems)
<1> DEFINE Bad == {n \in 0..NumItems : ~\E f : RunningSum(f, w, n)}
<1>0. NumItems \in Nat /\ Bad \subseteq Nat
  BY SizeAssumption
<1> SUFFICES ASSUME Bad # {} PROVE FALSE
  BY <1>0
<1>1. PICK m \in Bad : \A k \in Bad : m <= k
  BY <1>0, LeastNatural
<1> DEFINE z == [i \in 0..0 |-> 0]
<1>2. RunningSum(z, w, 0)
  BY DEF RunningSum
<1>3. m # 0 /\ m - 1 \in 0..NumItems /\ m - 1 \notin Bad
  BY <1>0, <1>1, <1>2
<1>4. PICK f : RunningSum(f, w, m - 1)
  BY <1>3
<1> DEFINE g == [i \in 0..m |-> IF i = m THEN f[m - 1] + w[m] ELSE f[i]]
<1>5. ASSUME NEW i \in 0..m PROVE g[i] = IF i = 0 THEN 0 ELSE g[i - 1] + w[i]
  <2>1. CASE i = m
    BY <1>0, <1>3, <2>1
  <2>2. CASE i # m
    <3>1. i \in 0..(m - 1) /\ (i # 0 => i - 1 \in 0..m /\ i - 1 # m)
      BY <1>0, <1>3, <2>2
    <3>2. f[i] = IF i = 0 THEN 0 ELSE f[i - 1] + w[i]
      BY <3>1, <1>4 DEF RunningSum
    <3> QED BY <2>2, <3>1, <3>2
  <2> QED BY <2>1, <2>2
<1>6. RunningSum(g, w, m)
  <2>1. g = [i \in 0..m |-> g[i]]
    OBVIOUS
  <2> HIDE DEF g
  <2> QED BY <1>5, <2>1 DEF RunningSum
<1> QED BY <1>1, <1>6

LEMMA RunningSumValues ==
    ASSUME NEW w, NEW f, RunningSum(f, w, NumItems)
    PROVE  f[0] = 0 /\ \A i \in Items : f[i] = f[i - 1] + w[i]
BY SizeAssumption DEF RunningSum, Items

LEMMA RunningSumMonotone ==
    ASSUME NEW v \in [Items -> Nat], NEW w \in [Items -> Nat], NEW f, NEW g,
           RunningSum(f, v, NumItems), RunningSum(g, w, NumItems),
           \A i \in Items : v[i] <= w[i]
    PROVE  f[NumItems] \in Nat /\ g[NumItems] \in Nat /\ f[NumItems] <= g[NumItems]
<1> DEFINE Bad == {n \in 0..NumItems : ~(f[n] \in Nat /\ g[n] \in Nat /\ f[n] <= g[n])}
<1>0. NumItems \in Nat /\ Bad \subseteq Nat
  BY SizeAssumption
<1> SUFFICES ASSUME Bad # {} PROVE FALSE
  BY <1>0
<1>1. PICK m \in Bad : \A k \in Bad : m <= k
  BY <1>0, LeastNatural
<1>2. m # 0
  BY <1>1, RunningSumValues
<1>3. m \in Items /\ m - 1 \in 0..NumItems /\ m - 1 \notin Bad
  BY <1>0, <1>1, <1>2 DEF Items
<1>4. f[m] = f[m - 1] + v[m] /\ g[m] = g[m - 1] + w[m]
  BY <1>3, RunningSumValues
<1>5. /\ f[m - 1] \in Nat /\ g[m - 1] \in Nat /\ f[m - 1] <= g[m - 1]
      /\ v[m] \in Nat /\ w[m] \in Nat /\ v[m] <= w[m]
  BY <1>3
<1>6. f[m] \in Nat /\ g[m] \in Nat /\ f[m] <= g[m]
  BY <1>4, <1>5
<1> QED BY <1>1, <1>6

\* A sum is at least what its closed items and one other are worth.
LEMMA RunningSumCounts ==
    ASSUME NEW w \in [Items -> Nat], NEW f, RunningSum(f, w, NumItems),
           NEW D \in SUBSET Items, \A i \in D : w[i] = MaxAcs,
           NEW a \in Items \cup {NoItem}, NEW x \in Nat,
           IF a = NoItem THEN x = 0 ELSE a \notin D /\ x <= w[a]
    PROVE  MaxAcs * Cardinality(D) + x <= f[NumItems]
<1> DEFINE Upto(n) == D \cap 1..n
           Extra(n) == IF a \in 1..n THEN x ELSE 0
           Good(n) == /\ IsFiniteSet(Upto(n)) /\ f[n] \in Nat
                      /\ MaxAcs * Cardinality(Upto(n)) + Extra(n) <= f[n]
           Bad == {n \in 0..NumItems : ~Good(n)}
<1>0. NumItems \in Nat /\ Bad \subseteq Nat /\ MaxAcs \in Nat
  BY SizeAssumption, ProgressAssumption
<1>1. Good(0)
  <2>1. Upto(0) = {} /\ Extra(0) = 0
    OBVIOUS
  <2>2. MaxAcs * 0 = 0
    BY <1>0
  <2> QED BY <2>1, <2>2, FS_EmptySet, RunningSumValues
<1>2. ASSUME NEW m \in Items, Good(m - 1) PROVE Good(m)
  <2>0. m \in Nat \ {0}
    BY <1>0 DEF Items
  <2>1. f[m] = f[m - 1] + w[m] /\ w[m] \in Nat /\ f[m - 1] \in Nat
    BY <1>2, RunningSumValues
  <2> DEFINE c == Cardinality(Upto(m - 1))
  <2>2. c \in Nat
    BY <1>2, FS_CardinalityType
  <2>3. MaxAcs * c + Extra(m - 1) <= f[m - 1]
    BY <1>2
  <2>4. CASE m \in D
    <3>1. Upto(m) = Upto(m - 1) \cup {m} /\ m \notin Upto(m - 1)
      BY <2>0, <2>4
    <3>2. IsFiniteSet(Upto(m)) /\ Cardinality(Upto(m)) = c + 1
      <4>1. IsFiniteSet(Upto(m - 1))
        BY <1>2
      <4> HIDE DEF Upto
      <4> QED BY <3>1, <4>1, FS_AddElement
    <3>3. Extra(m) = Extra(m - 1) /\ Extra(m) \in Nat
      BY <2>0, <2>4 DEF NoItem
    <3>4. MaxAcs * (c + 1) = MaxAcs * c + MaxAcs /\ MaxAcs * c \in Nat
      BY <1>0, <2>2
    <3>5. f[m] = f[m - 1] + MaxAcs
      BY <2>1, <2>4
    <3> HIDE DEF c, Extra, Upto
    <3> QED BY <1>0, <2>1, <2>3, <3>2, <3>3, <3>4, <3>5
  <2>5. CASE m \notin D
    <3>1. Upto(m) = Upto(m - 1)
      BY <2>0, <2>5
    <3>2. Extra(m) <= Extra(m - 1) + w[m] /\ Extra(m) \in Nat /\ Extra(m - 1) \in Nat
      BY <2>0, <2>1 DEF NoItem
    <3>3. MaxAcs * c \in Nat
      BY <1>0, <2>2
    <3>4. IsFiniteSet(Upto(m)) /\ Cardinality(Upto(m)) = c
      BY <1>2, <3>1
    <3> HIDE DEF c, Extra, Upto
    <3> QED BY <2>1, <2>3, <3>2, <3>3, <3>4
  <2> QED BY <2>4, <2>5
<1>3. Good(NumItems)
  <2> HIDE DEF Good
  <2> SUFFICES ASSUME Bad # {} PROVE FALSE
    BY <1>0
  <2>1. PICK m \in Bad : \A k \in Bad : m <= k
    BY <1>0, LeastNatural
  <2>2. m \in Items /\ m - 1 \in 0..NumItems /\ m - 1 \notin Bad
    BY <1>0, <1>1, <2>1 DEF Items
  <2> QED BY <1>2, <2>1, <2>2
<1>4. Upto(NumItems) = D /\ Extra(NumItems) = x
  BY <1>0 DEF Items, NoItem
<1> QED BY <1>3, <1>4

Worth == [i \in Items |-> IF i \in DoneItems THEN MaxAcs ELSE met[i]]

LEMMA EarnedIsRunningSum == \E f : RunningSum(f, Worth, NumItems) /\ Earned = f[NumItems]
<1> DEFINE IsWorth(f) == f = [i \in 0..NumItems |-> IF i = 0 THEN 0
                ELSE f[i - 1] + (IF i \in DoneItems THEN MaxAcs ELSE met[i])]
<1>1. PICK f : RunningSum(f, Worth, NumItems)
  BY RunningSumExists
<1>2. \A g : IsWorth(g) <=> RunningSum(g, Worth, NumItems)
  <2>1. ASSUME NEW i \in 0..NumItems, i # 0
        PROVE  Worth[i] = IF i \in DoneItems THEN MaxAcs ELSE met[i]
    BY <2>1, SizeAssumption DEF Worth, Items
  <2> QED BY <2>1 DEF RunningSum
<1>3. IsWorth(CHOOSE g : IsWorth(g))
  BY <1>1, <1>2
<1>4. Earned = (CHOOSE g : IsWorth(g))[NumItems]
  BY DEF Earned
<1> QED BY <1>2, <1>3, <1>4
-----------------------------------------------------------------------------
(* What is reported.                                                       *)

\* An anchor, and every copy an emitter took of it, names the item its criteria are
\* of, and counts no more of them than were ever met.
Anchors == [item : Items \cup {NoItem}, of : Items \cup {NoItem}, done : Nat]
Honest(seen) ==
    /\ seen \in Anchors
    /\ seen.item = seen.of
    /\ IF seen.of = NoItem THEN seen.done = 0 ELSE seen.done <= met[seen.of]

EmitterState ==
    [at : {"idle", "anchored", "counted", "appended", "anchored again", "counted again"},
     last : BOOLEAN, seen : Anchors, units : Int]
Supported(how) == how \in EmitterState /\ Honest(how.seen) /\ how.units <= Earned

ReportInv ==
    /\ met \in [Items -> 0..MaxAcs]
    /\ Honest(anchor)
    /\ emitter \in [Emitters -> EmitterState]
    /\ \A e \in Emitters : Supported(emitter[e])
    /\ event \in [units : Int, last : BOOLEAN] /\ snapshot.units \in Int
    /\ NeverOverstated

LEMMA WorthTyped == ASSUME ReportInv PROVE Worth \in [Items -> Nat]
<1> SUFFICES ASSUME NEW i \in Items PROVE Worth[i] \in Nat
  BY DEF Worth
<1>0. met \in [Items -> 0..MaxAcs]
  BY DEF ReportInv
<1>1. met[i] \in Nat
  BY <1>0, ProgressAssumption
<1> QED BY <1>1, ProgressAssumption DEF Worth

LEMMA EarnedNext == (\E f : RunningSum(f, Worth, NumItems) /\ Earned = f[NumItems])'
BY EarnedIsRunningSum, PTL

\* What was achieved is never lost again.
LEMMA EarnedGrows ==
    ASSUME ReportInv, met' \in [Items -> 0..MaxAcs],
           \A i \in Items : met[i] <= met'[i],
           DoneItems \subseteq DoneItems'
    PROVE  Earned \in Nat /\ Earned' \in Nat /\ Earned <= Earned'
<1>1. PICK f : RunningSum(f, Worth, NumItems) /\ Earned = f[NumItems]
  BY EarnedIsRunningSum
<1>2. PICK g : RunningSum(g, Worth', NumItems) /\ Earned' = g[NumItems]
  BY EarnedNext
<1>3. /\ Worth \in [Items -> Nat] /\ Worth' \in [Items -> Nat]
      /\ \A i \in Items : Worth[i] <= Worth'[i]
  <2>1. ASSUME NEW i \in Items
        PROVE  Worth'[i] \in Nat /\ Worth[i] <= Worth'[i]
    <3>1. met[i] \in 0..MaxAcs /\ met'[i] \in 0..MaxAcs /\ met[i] <= met'[i]
      BY DEF ReportInv
    <3> QED BY <3>1, ProgressAssumption DEF Worth
  <2>2. Worth' = [i \in Items |-> Worth'[i]]
    BY DEF Worth
  <2> QED BY <2>1, <2>2, WorthTyped
<1> QED BY <1>1, <1>2, <1>3, RunningSumMonotone

\* compute_pct never counts more than was achieved, whatever backlog it reads after
\* the anchor.
LEMMA OverallIsEarned ==
    ASSUME DrainInv, ReportInv, NEW seen, Honest(seen)
    PROVE  Overall(seen) \in Int /\ Overall(seen) <= Earned
<1>1. PICK f : RunningSum(f, Worth, NumItems) /\ Earned = f[NumItems]
  BY EarnedIsRunningSum
<1>2. DoneItems \in SUBSET Items /\ \A i \in DoneItems : Worth[i] = MaxAcs
  BY DEF DoneItems, Worth
<1> DEFINE a == IF ActiveItem # NoItem /\ seen.item = ActiveItem THEN ActiveItem ELSE NoItem
           x == ActivePart(seen)
<1>3. ActiveItem # NoItem => ActiveItem \in Items /\ item[ActiveItem].status \in Active
  <2> DEFINE active == {i \in Items : item[i].status \in Active}
  <2>1. CASE active = {}
    BY <2>1 DEF ActiveItem
  <2>2. CASE active # {}
    <3>1. active \in SUBSET Nat
      BY SizeAssumption DEF Items
    <3>2. \E i \in active : \A j \in active : i <= j
      BY <2>2, <3>1, LeastNatural
    <3>3. ActiveItem \in active
      BY <2>2, <3>2 DEF ActiveItem
    <3> QED BY <3>3
  <2> QED BY <2>1, <2>2
<1>4. /\ a \in Items \cup {NoItem} /\ x \in Nat
      /\ IF a = NoItem THEN x = 0 ELSE a \notin DoneItems /\ x <= Worth[a]
  BY <1>3 DEF ActivePart, Honest, Anchors, DoneItems, Worth, NoItem, Active
<1>5. MaxAcs * Cardinality(DoneItems) + x <= f[NumItems]
  <2> HIDE DEF a, x
  <2> QED BY <1>1, <1>2, <1>4, WorthTyped, RunningSumCounts
<1>6. MaxAcs * Cardinality(DoneItems) \in Nat
  <2>1. IsFiniteSet(Items)
    BY SizeAssumption, FS_Interval DEF Items
  <2>2. Cardinality(DoneItems) \in Nat
    BY <1>2, <2>1, FS_Subset, FS_CardinalityType
  <2> QED BY <2>2, ProgressAssumption
<1> QED BY <1>1, <1>4, <1>5, <1>6 DEF Overall

\* What is supported now stays so, as long as more is achieved.
Achieving == /\ met' \in [Items -> 0..MaxAcs]
             /\ \A i \in Items : met[i] <= met'[i]
             /\ DoneItems \subseteq DoneItems'

LEMMA SupportedNext ==
    ASSUME ReportInv, Achieving, NEW how, Supported(how)
    PROVE  Supported(how)'
<1>1. Earned \in Nat /\ Earned' \in Nat /\ Earned <= Earned'
  BY EarnedGrows DEF Achieving
<1>2. how \in EmitterState /\ Honest(how.seen) /\ how.units <= Earned
  BY DEF Supported
<1>3. how.units \in Int /\ how.seen \in Anchors
  BY <1>2 DEF EmitterState
<1>4. how.units <= Earned'
  BY <1>1, <1>2, <1>3
<1>5. CASE how.seen.of = NoItem
  BY <1>2, <1>4, <1>5 DEF Honest, Supported
<1>6. CASE how.seen.of # NoItem
  <2> DEFINE i == how.seen.of
             done == how.seen.done
  <2>1. i \in Items /\ done \in Nat /\ done <= met[i]
    BY <1>2, <1>3, <1>6 DEF Honest, Anchors
  <2>2. met \in [Items -> 0..MaxAcs] /\ met' \in [Items -> 0..MaxAcs] /\ met[i] <= met'[i]
    BY <2>1 DEF ReportInv, Achieving
  <2>3. done <= met'[i]
    <3> HIDE DEF i, done
    <3> QED BY <2>1, <2>2, ProgressAssumption
  <2> QED BY <1>2, <1>4, <1>6, <2>3 DEF Honest, Supported
<1> QED BY <1>5, <1>6

\* The emitters, the last event and the snapshot that a step leaves as they are, or
\* replaces by something supported before the step.
LEMMA ReportKeeps ==
    ASSUME ReportInv, Achieving, Honest(anchor)',
           emitter' \in [Emitters -> EmitterState],
           \A e \in Emitters : Supported(emitter'[e]),
           event' \in [units : Int, last : BOOLEAN], event'.units <= Earned,
           snapshot'.units \in Int, snapshot'.units <= Earned
    PROVE  ReportInv'
<1>1. Earned \in Nat /\ Earned' \in Nat /\ Earned <= Earned'
  BY EarnedGrows DEF Achieving
<1>2. NeverOverstated'
  BY <1>1 DEF NeverOverstated
<1>3. ASSUME NEW e \in Emitters PROVE Supported(emitter[e])'
  <2>1. Supported(emitter'[e])
    OBVIOUS
  <2> QED BY <2>1, SupportedNext DEF Supported, Honest
<1> QED BY <1>2, <1>3 DEF ReportInv, Achieving

LEMMA QuietSupported ==
    ASSUME ReportInv
    PROVE  /\ Quiet \in EmitterState /\ Supported(Quiet)
           /\ NoAnchor \in Anchors /\ Honest(NoAnchor)
<1>1. Earned \in Nat
  <2>1. PICK f : RunningSum(f, Worth, NumItems) /\ Earned = f[NumItems]
    BY EarnedIsRunningSum
  <2>2. \A i \in Items : Worth[i] <= Worth[i]
    BY WorthTyped
  <2> QED BY <2>1, <2>2, WorthTyped, RunningSumMonotone
<1>2. NoAnchor \in Anchors /\ Honest(NoAnchor)
  BY DEF NoAnchor, Anchors, Honest, NoItem
<1>3. Quiet \in EmitterState /\ Quiet.seen = NoAnchor /\ Quiet.units = 0
  BY <1>2 DEF Quiet, EmitterState
<1> QED BY <1>1, <1>2, <1>3 DEF Supported

\* A step of one emitter: the state it comes to is supported, and it publishes nothing
\* but what it had worked out.
LEMMA EmitKeeps ==
    ASSUME DrainInv, ReportInv, NEW e \in Emitters, Emit(e)
    PROVE  ReportInv'
<1>0. /\ emitter \in [Emitters -> EmitterState] /\ Supported(emitter[e]) /\ Honest(anchor)
      /\ event \in [units : Int, last : BOOLEAN] /\ event.units <= Earned
      /\ snapshot.units \in Int /\ snapshot.units <= Earned
  BY DEF ReportInv, NeverOverstated
<1>1. /\ emitter[e] \in EmitterState /\ emitter[e].units \in Int
      /\ emitter[e].units <= Earned /\ emitter[e].seen \in Anchors
      /\ Honest(emitter[e].seen) /\ emitter[e].last \in BOOLEAN
  BY <1>0 DEF Supported, EmitterState
<1>2. Overall(emitter[e].seen) \in Int /\ Overall(emitter[e].seen) <= Earned
  BY <1>1, OverallIsEarned
<1>3. /\ Quiet \in EmitterState /\ Supported(Quiet)
      /\ NoAnchor \in Anchors /\ Honest(NoAnchor)
      /\ Quiet.units \in Int /\ Quiet.units <= Earned
  BY QuietSupported DEF Supported, EmitterState
<1>4. anchor' = anchor /\ met' = met /\ item' = item
  BY DEF Emit, ReadAnchor, ReadBacklog, AppendEvent, Refresh, ReadAnchorAgain,
         ReadBacklogAgain, WriteSnapshot, vars
<1>5. Achieving /\ Honest(anchor)'
  <2>1. met \in [Items -> 0..MaxAcs]
    BY DEF ReportInv
  <2>2. \A i \in Items : met[i] <= met'[i]
    BY <1>4, <2>1, ProgressAssumption
  <2> QED BY <1>0, <1>4, <2>1, <2>2 DEF Achieving, DoneItems, Honest
<1>6. ASSUME NEW how, Becomes(e, how), Supported(how),
             event' \in [units : Int, last : BOOLEAN], event'.units <= Earned,
             snapshot'.units \in Int, snapshot'.units <= Earned
      PROVE  ReportInv'
  <2>1. /\ emitter' \in [Emitters -> EmitterState]
        /\ \A d \in Emitters : Supported(emitter'[d])
    BY <1>0, <1>6 DEF Becomes, Supported, ReportInv
  <2> QED BY <1>5, <1>6, <2>1, ReportKeeps
<1>7. ASSUME NEW last \in BOOLEAN, ReadAnchor(e, last) PROVE ReportInv'
  <2> DEFINE how == [Quiet EXCEPT !.at = "anchored", !.last = last, !.seen = anchor]
  <2>1. how \in EmitterState /\ how.seen = anchor /\ how.units = Quiet.units
    BY <1>0, <1>3 DEF EmitterState, Honest
  <2>2. Becomes(e, how) /\ event' = event /\ snapshot' = snapshot
    BY <1>7 DEF ReadAnchor
  <2> HIDE DEF how
  <2> QED BY <1>0, <1>3, <1>6, <2>1, <2>2 DEF Supported
<1>8. CASE ReadBacklog(e)
  <2> DEFINE how == [emitter[e] EXCEPT !.at = "counted", !.seen = NoAnchor,
                                       !.units = Overall(emitter[e].seen)]
  <2>1. how \in EmitterState /\ how.seen = NoAnchor /\ how.units = Overall(emitter[e].seen)
    BY <1>1, <1>2, <1>3 DEF EmitterState
  <2>2. Becomes(e, how) /\ event' = event /\ snapshot' = snapshot
    BY <1>8 DEF ReadBacklog
  <2> HIDE DEF how
  <2> QED BY <1>0, <1>2, <1>3, <1>6, <2>1, <2>2 DEF Supported
<1>9. CASE AppendEvent(e) \/ Refresh(e)
  <2> DEFINE how == [Quiet EXCEPT !.at = "appended"]
  <2>1. how \in EmitterState /\ how.seen = Quiet.seen /\ how.units = Quiet.units
    BY <1>3 DEF EmitterState
  <2>2. /\ Becomes(e, how) /\ snapshot' = snapshot
        /\ event' \in {event, [units |-> emitter[e].units, last |-> emitter[e].last]}
    BY <1>9 DEF AppendEvent, Refresh
  <2>3. event' \in [units : Int, last : BOOLEAN] /\ event'.units <= Earned
    BY <1>0, <1>1, <2>2
  <2> HIDE DEF how
  <2> QED BY <1>0, <1>3, <1>6, <2>1, <2>2, <2>3 DEF Supported
<1>10. CASE ReadAnchorAgain(e)
  <2> DEFINE how == [Quiet EXCEPT !.at = "anchored again", !.seen = anchor]
  <2>1. how \in EmitterState /\ how.seen = anchor /\ how.units = Quiet.units
    BY <1>0, <1>3 DEF EmitterState, Honest
  <2>2. Becomes(e, how) /\ event' = event /\ snapshot' = snapshot
    BY <1>10 DEF ReadAnchorAgain
  <2> HIDE DEF how
  <2> QED BY <1>0, <1>3, <1>6, <2>1, <2>2 DEF Supported
<1>11. CASE ReadBacklogAgain(e)
  <2> DEFINE how == [Quiet EXCEPT !.at = "counted again", !.last = event.last,
                                  !.units = Overall(emitter[e].seen)]
  <2>1. how \in EmitterState /\ how.seen = Quiet.seen /\ how.units = Overall(emitter[e].seen)
    BY <1>0, <1>2, <1>3 DEF EmitterState
  <2>2. Becomes(e, how) /\ event' = event /\ snapshot' = snapshot
    BY <1>11 DEF ReadBacklogAgain
  <2> HIDE DEF how
  <2> QED BY <1>0, <1>2, <1>3, <1>6, <2>1, <2>2 DEF Supported
<1>12. CASE WriteSnapshot(e)
  <2>1. Becomes(e, Quiet) /\ event' = event /\ snapshot'.units = emitter[e].units
    BY <1>12 DEF WriteSnapshot
  <2> QED BY <1>0, <1>1, <1>3, <1>6, <2>1
<1> QED BY <1>7, <1>8, <1>9, <1>10, <1>11, <1>12 DEF Emit

LEMMA NextReportInv ==
    ASSUME Labelled = TRUE
    PROVE  DrainInv /\ ReportInv /\ [ProgressNext]_allVars => ReportInv'
<1> SUFFICES ASSUME DrainInv, ReportInv, [ProgressNext]_allVars PROVE ReportInv'
  OBVIOUS
<1>0. /\ met \in [Items -> 0..MaxAcs] /\ emitter \in [Emitters -> EmitterState]
      /\ \A e \in Emitters : Supported(emitter[e])
      /\ event \in [units : Int, last : BOOLEAN] /\ event.units <= Earned
      /\ snapshot.units \in Int /\ snapshot.units <= Earned
      /\ Honest(anchor) /\ anchor \in Anchors
  BY DEF ReportInv, NeverOverstated, Honest
<1>1. \A i \in Items : met[i] \in Nat /\ met[i] <= met[i] /\ met[i] <= MaxAcs
  BY <1>0, ProgressAssumption
<1>2. ASSUME NEW i \in Items, SetAnchor(i, TRUE) PROVE ReportInv'
  <2>1. /\ UNCHANGED <<item, met, emitter, event, snapshot>>
        /\ anchor' = [item |-> i, of |-> i, done |-> IF anchor.of = i THEN anchor.done ELSE 0]
    BY <1>2 DEF SetAnchor, vars
  <2>2. Achieving
    BY <1>0, <1>1, <2>1 DEF Achieving, DoneItems
  <2>3. Honest(anchor)'
    BY <1>0, <1>1, <2>1 DEF Honest, Anchors, NoItem, Items
  <2> QED BY <1>0, <2>1, <2>2, <2>3, ReportKeeps
<1>3. ASSUME NEW done \in 0..MaxAcs, MarkAnchor(done) PROVE ReportInv'
  <2>1. /\ UNCHANGED <<item, emitter, event, snapshot>>
        /\ anchor.of \in Items /\ anchor' = [anchor EXCEPT !.done = done]
        /\ met' = IF done > met[anchor.of] THEN [met EXCEPT ![anchor.of] = done] ELSE met
    BY <1>0, <1>3 DEF MarkAnchor, vars, Anchors
  <2> DEFINE i == anchor.of
  <2>2. /\ met' \in [Items -> 0..MaxAcs] /\ done <= met'[i]
        /\ \A k \in Items : met[k] <= met'[k]
    <3> HIDE DEF i
    <3> QED BY <1>0, <1>1, <2>1, ProgressAssumption DEF i
  <2>3. Achieving
    BY <2>1, <2>2 DEF Achieving, DoneItems
  <2>4. Honest(anchor)'
    <3>1. anchor' \in Anchors /\ anchor'.item = anchor.item /\ anchor'.of = i /\ anchor'.done = done
      BY <1>0, <2>1, ProgressAssumption DEF Anchors
    <3>2. i # NoItem /\ anchor.item = i
      BY <1>0, <1>3 DEF Honest, MarkAnchor
    <3> QED BY <2>2, <3>1, <3>2 DEF Honest
  <2> QED BY <1>0, <2>1, <2>3, <2>4, ReportKeeps
<1>4. CASE \E e \in Emitters : Emit(e)
  BY <1>4, EmitKeeps
<1>5. CASE [DrainNext]_vars /\ UNCHANGED reportVars
  <2>1. DrainInv'
    BY <1>5, NextDrainInv
  <2>2. DoneItems \subseteq DoneItems'
    BY <1>5, DrainKeepsDone DEF DoneItems
  <2>3. UNCHANGED <<anchor, met, emitter, event, snapshot>>
    BY <1>5 DEF reportVars
  <2>4. Achieving /\ Honest(anchor)'
    BY <1>0, <1>1, <2>2, <2>3 DEF Achieving, Honest
  <2> QED BY <1>0, <2>3, <2>4, ReportKeeps
<1> QED BY <1>2, <1>3, <1>4, <1>5 DEF ProgressNext, Report, SetAnchor, allVars

LEMMA InitReportInv == ProgressInit => ReportInv
<1> SUFFICES ASSUME ProgressInit PROVE ReportInv
  OBVIOUS
<1>1. /\ anchor = NoAnchor /\ met = [i \in Items |-> 0]
      /\ emitter = [e \in Emitters |-> Quiet]
      /\ event = [units |-> 0, last |-> FALSE]
      /\ snapshot = [units |-> 0, state |-> "running"]
  BY DEF ProgressInit
<1>2. NoAnchor \in Anchors /\ Honest(NoAnchor)
  BY DEF NoAnchor, Anchors, Honest, NoItem
<1>3. Quiet \in EmitterState /\ Quiet.seen = NoAnchor /\ Quiet.units = 0
  BY <1>2 DEF Quiet, EmitterState
<1>4. met \in [Items -> 0..MaxAcs]
  BY <1>1, ProgressAssumption
<1>5. Earned \in Nat
  <2>1. Worth \in [Items -> Nat]
    BY <1>1, ProgressAssumption DEF Worth
  <2>2. PICK f : RunningSum(f, Worth, NumItems) /\ Earned = f[NumItems]
    BY EarnedIsRunningSum
  <2>3. \A i \in Items : Worth[i] <= Worth[i]
    BY <2>1
  <2> QED BY <2>1, <2>2, <2>3, RunningSumMonotone
<1>6. \A e \in Emitters : Supported(emitter[e])
  BY <1>1, <1>2, <1>3, <1>5 DEF Supported
<1>7. NeverOverstated
  BY <1>1, <1>5 DEF NeverOverstated
<1> QED BY <1>1, <1>2, <1>3, <1>4, <1>6, <1>7 DEF ReportInv

\* When every `task_anchor.py set` names its item: no event and no snapshot claims more
\* than was achieved by then, however many emitters read the anchor and the backlog at
\* different moments while the backlog is drained (compute_pct, emit_event,
\* build_snapshot).
THEOREM ReportsAreNeverOverstated ==
    ASSUME Labelled = TRUE PROVE ProgressSpec => []NeverOverstated
<1>1. DrainInv /\ ReportInv /\ [ProgressNext]_allVars => ReportInv'
  BY NextReportInv
<1>2. ReportInv => NeverOverstated
  BY DEF ReportInv
<1> QED BY <1>1, <1>2, InitReportInv, DrainedWhileReported, PTL DEF ProgressSpec
=============================================================================
