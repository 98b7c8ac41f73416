--------------------------- MODULE WatcherProofs ----------------------------
(***************************************************************************)
(* Theorems about the task anchor and about the watcher receipts that      *)
(* answer for it, for every set of processes, texts, goals and contracts.  *)
(*                                                                         *)
(* What is saved is what was computed from what was loaded, so credit is   *)
(* earned if it is earned in every copy of the anchor: the one on file and *)
(* those that processes hold.  A receipt is what one reading of anchor,    *)
(* reports and tree gave; what it promises is shown of the receipt a       *)
(* `verify` still holds, and survives the writing.                         *)
(***************************************************************************)
EXTENDS Watcher, SequenceTheorems, FiniteSetTheorems, WellFoundedInduction, TLAPS

\* An anchor gives credit that was earned.
Credited(a) ==
    \A i \in 1..Len(a.criteria) :
        LET key == <<a.goal, a.criteria[i].text>>
        IN  /\ a.criteria[i].status = "done" => a.criteria[i].evidence /\ key \in proven
            /\ a.criteria[i].status = "waived" => key \in excused

Anchors == [goal : Goals \cup {NoGoal}, criteria : Seq(Criterion),
            delivery : Contracts \cup {NoContract}]

Standing(a) == a \in Anchors /\ (a.goal = NoGoal => a = None) /\ Credited(a)

AnchorInv ==
    /\ anchor = Torn \/ Standing(anchor)
    /\ at \in [Procs -> {"idle", "open", "write"}]
    /\ mem \in [Procs -> Anchors]
    /\ \A p \in Procs : Standing(mem[p]) /\ (at[p] # "idle" => mem[p].goal # NoGoal)

\* A command that is not blind is about to save over the goal it loaded.
HeldInv ==
    /\ anchor # Torn => anchor.goal = held
    /\ \A p \in Procs \ (forced \cup blind) :
          at[p] # "idle" => held = NoGoal \/ mem[p].goal = held

\* The first guard lets through what some `set` captured.
BaselineInv == baseline.new \subseteq authorized \cup readmitted
-----------------------------------------------------------------------------
(* The criteria as they are parsed: the fold over the lines, unrolled.     *)

LEMMA LeastNatural ==
    ASSUME NEW S \in SUBSET Nat, S # {}
    PROVE  \E m \in S : \A k \in S : m <= k
<1> DEFINE R == {ss \in Nat \X Nat : ss[1] < ss[2]}
<1>1. IsWellFoundedOn(R, Nat)
  BY NatLessThanWellFounded DEF OpToRel
<1> HIDE DEF R
<1>2. PICK m \in S : \A k \in S : <<k, m>> \notin R
  BY <1>1, WFMin, Zenon
<1>3. \A k \in S : ~(k < m)
  BY <1>2 DEF R
<1> QED BY <1>2, <1>3

Kept(kept, text) == IF Contains(kept, text) THEN kept ELSE Append(kept, text)
Keeps(it, lines, D) ==
    it = [s \in D |-> IF s = {} THEN << >> ELSE Kept(it[s \ {Max(s)}], lines[Max(s)])]
UpTo(n, k) == {s \in SUBSET (1..n) : Cardinality(s) <= k}

LEMMA MaxLess ==
    ASSUME NEW n \in Nat, NEW s \in SUBSET (1..n), s # {}
    PROVE  /\ Max(s) \in s /\ s \ {Max(s)} \in SUBSET (1..n)
           /\ Cardinality(s) \in Nat \ {0}
           /\ Cardinality(s \ {Max(s)}) = Cardinality(s) - 1
<1>1. Max(s) \in s
  <2> DEFINE T == {j \in 0..n : n - j \in s}
  <2>1. \A y \in s : y \in 1..n /\ n - y \in T
    OBVIOUS
  <2>2. T \in SUBSET Nat /\ T # {}
    <3>1. PICK y \in s : TRUE
      OBVIOUS
    <3>2. n - y \in T
      BY <2>1, <3>1
    <3>3. T \subseteq Nat
      OBVIOUS
    <3> HIDE DEF T
    <3> QED BY <3>2, <3>3
  <2>3. PICK m \in T : \A k \in T : m <= k
    BY <2>2, LeastNatural
  <2>4. n - m \in s /\ \A y \in s : n - m >= y
    BY <2>1, <2>3
  <2> QED BY <2>4 DEF Max
<1>2. IsFiniteSet(s) /\ Cardinality(s) \in Nat
  <2>1. IsFiniteSet(1..n)
    BY FS_Interval
  <2> QED BY <2>1, FS_Subset, FS_CardinalityType
<1>3. Cardinality(s) # 0
  BY <1>2, FS_EmptySet
<1> QED BY <1>1, <1>2, <1>3, FS_RemoveElement

LEMMA KeepsUpTo ==
    ASSUME NEW n \in Nat, NEW lines, NEW k \in Nat
    PROVE  \E it : Keeps(it, lines, UpTo(n, k))
<1> DEFINE Bad == {j \in Nat : ~\E it : Keeps(it, lines, UpTo(n, j))}
<1> SUFFICES ASSUME Bad # {} PROVE FALSE
  OBVIOUS
<1>1. PICK m \in Bad : \A j \in Bad : m <= j
  BY LeastNatural
<1>2. m # 0
  <2> DEFINE z == [s \in UpTo(n, 0) |-> << >>]
  <2>1. ASSUME NEW s \in UpTo(n, 0) PROVE s = {}
    <3>1. s \in SUBSET (1..n) /\ Cardinality(s) <= 0
      BY DEF UpTo
    <3>2. s # {} => Cardinality(s) \in Nat \ {0}
      BY <3>1, MaxLess
    <3> QED BY <3>1, <3>2
  <2>2. Keeps(z, lines, UpTo(n, 0))
    BY <2>1 DEF Keeps
  <2> QED BY <2>2
<1>3. m - 1 \in Nat /\ m - 1 \notin Bad
  BY <1>1, <1>2
<1>4. PICK f : Keeps(f, lines, UpTo(n, m - 1))
  BY <1>3
<1> DEFINE g == [s \in UpTo(n, m) |->
                   IF s = {} THEN << >> ELSE Kept(f[s \ {Max(s)}], lines[Max(s)])]
<1>5. ASSUME NEW s \in UpTo(n, m)
      PROVE  g[s] = IF s = {} THEN << >> ELSE Kept(g[s \ {Max(s)}], lines[Max(s)])
  <2> DEFINE q == s \ {Max(s)}
  <2>1. CASE s = {}
    BY <2>1
  <2>2. CASE s # {}
    <3>1. q \in UpTo(n, m - 1) /\ q \in UpTo(n, m)
      <4>1. s \in SUBSET (1..n) /\ Cardinality(s) <= m
        BY DEF UpTo
      <4>2. /\ q \in SUBSET (1..n) /\ Cardinality(s) \in Nat
            /\ Cardinality(q) = Cardinality(s) - 1
        BY <2>2, <4>1, MaxLess
      <4> QED BY <4>1, <4>2 DEF UpTo
    <3>2. f[q] = IF q = {} THEN << >> ELSE Kept(f[q \ {Max(q)}], lines[Max(q)])
      BY <1>4, <3>1 DEF Keeps
    <3>3. g[q] = f[q]
      BY <3>1, <3>2
    <3>4. g[s] = Kept(f[q], lines[Max(s)])
      BY <2>2
    <3> QED BY <2>2, <3>3, <3>4
  <2> QED BY <2>1, <2>2
<1>6. Keeps(g, lines, UpTo(n, m))
  <2>1. g = [s \in UpTo(n, m) |-> g[s]]
    OBVIOUS
  <2> HIDE DEF g
  <2> QED BY <1>5, <2>1 DEF Keeps
<1> QED BY <1>1, <1>6

LEMMA KeepsExist ==
    ASSUME NEW n \in Nat, NEW lines
    PROVE  \E it : Keeps(it, lines, SUBSET (1..n))
<1>1. IsFiniteSet(1..n) /\ Cardinality(1..n) \in Nat
  BY FS_Interval, FS_CardinalityType
<1>2. UpTo(n, Cardinality(1..n)) = SUBSET (1..n)
  BY <1>1, FS_Subset DEF UpTo
<1>3. \E it : Keeps(it, lines, UpTo(n, Cardinality(1..n)))
  BY <1>1, KeepsUpTo
<1> QED BY <1>2, <1>3

LEMMA KeptTexts ==
    ASSUME NEW n \in Nat, NEW lines, n = Len(lines), lines \in Seq(Texts),
           NEW it, Keeps(it, lines, SUBSET (1..n))
    PROVE  it[1..n] \in Seq(Texts)
<1> DEFINE Bad == {k \in Nat : \E s \in SUBSET (1..n) : Cardinality(s) = k /\ it[s] \notin Seq(Texts)}
<1>1. it[{}] \in Seq(Texts)
  BY DEF Keeps
<1>2. ASSUME NEW s \in SUBSET (1..n), s # {}, it[s \ {Max(s)}] \in Seq(Texts)
      PROVE  it[s] \in Seq(Texts)
  <2>1. lines[Max(s)] \in Texts
    BY <1>2, MaxLess, ElementOfSeq
  <2>2. it[s] = Kept(it[s \ {Max(s)}], lines[Max(s)])
    BY <1>2 DEF Keeps
  <2> QED BY <1>2, <2>1, <2>2 DEF Kept
<1>3. Bad = {}
  <2> SUFFICES ASSUME Bad # {} PROVE FALSE
    OBVIOUS
  <2>1. PICK m \in Bad : \A k \in Bad : m <= k
    BY LeastNatural
  <2>2. PICK s \in SUBSET (1..n) : Cardinality(s) = m /\ it[s] \notin Seq(Texts)
    BY <2>1
  <2>3. s # {} /\ it[s \ {Max(s)}] \notin Seq(Texts)
    BY <1>1, <1>2, <2>2
  <2>4. /\ s \ {Max(s)} \in SUBSET (1..n) /\ Cardinality(s) \in Nat \ {0}
        /\ Cardinality(s \ {Max(s)}) = Cardinality(s) - 1
    BY <2>3, MaxLess
  <2>5. m - 1 \in Nat /\ Cardinality(s \ {Max(s)}) = m - 1
    BY <2>2, <2>4
  <2>6. m - 1 \in Bad
    BY <2>3, <2>4, <2>5
  <2> QED BY <2>1, <2>5, <2>6
<1>4. IsFiniteSet(1..n) /\ Cardinality(1..n) \in Nat
  BY FS_Interval, FS_CardinalityType
<1> QED BY <1>3, <1>4

LEMMA ParsedTexts == ASSUME NEW lines \in Lists PROVE Parsed(lines) \in Seq(Texts)
<1> DEFINE n == Len(lines)
<1>0. lines \in Seq(Texts) /\ n \in Nat /\ DOMAIN lines = 1..n
  BY AnchorAssumption
<1> DEFINE Is(it) ==
      it = [s \in SUBSET (DOMAIN lines) |->
              IF s = {} THEN << >>
              ELSE IF Contains(it[s \ {Max(s)}], lines[Max(s)]) THEN it[s \ {Max(s)}]
                   ELSE Append(it[s \ {Max(s)}], lines[Max(s)])]
<1>1. PICK f : Keeps(f, lines, SUBSET (1..n))
  BY <1>0, KeepsExist
<1>2. \A it : Is(it) <=> Keeps(it, lines, SUBSET (1..n))
  BY <1>0 DEF Keeps, Kept
<1>3. Is(CHOOSE it : Is(it))
  <2>1. Is(f)
    BY <1>1, <1>2
  <2> HIDE DEF Is
  <2> QED BY <2>1
<1>4. Parsed(lines) = (CHOOSE it : Is(it))[DOMAIN lines]
  BY DEF Parsed, FoldLeft, MapThenFoldSet
<1> HIDE DEF Is
<1> QED BY <1>0, <1>2, <1>3, <1>4, KeptTexts

LEMMA ListsAreTexts == ASSUME NEW list \in GivenLists PROVE list \in Seq(Texts)
BY ParsedTexts DEF GivenLists
-----------------------------------------------------------------------------
(* The anchor.                                                             *)

LEMMA NoneStands == None \in Anchors /\ None.goal = NoGoal /\ None.criteria = << >> /\ Standing(None)
<1>1. None \in Anchors /\ None.goal = NoGoal /\ None.criteria = << >>
  BY DEF None, Anchors
<1> QED BY <1>1 DEF Standing, Credited

LEMMA LoadedStands == AnchorInv => Standing(Loaded) /\ Loaded \in Anchors
BY NoneStands DEF AnchorInv, Loaded, Standing

\* A copy stands by what it stood by when there is more history.
LEMMA StandingStays ==
    ASSUME NEW a, Standing(a), proven \subseteq proven', excused \subseteq excused'
    PROVE  a \in Anchors /\ (a.goal = NoGoal => a = None) /\ Credited(a)'
BY DEF Standing, Credited

\* One process is about to save an anchor that stands; nothing is on file yet.
LEMMA BeginKeeps ==
    ASSUME AnchorInv, NEW p \in Procs, NEW a \in Anchors, NEW force, Begin(p, a, force),
           a.goal # NoGoal, Credited(a)', proven \subseteq proven', excused \subseteq excused'
    PROVE  AnchorInv'
<1>1. /\ mem' \in [Procs -> Anchors] /\ mem'[p] = a /\ at'[p] = "open"
      /\ at' \in [Procs -> {"idle", "open", "write"}]
      /\ \A q \in Procs \ {p} : mem'[q] = mem[q] /\ at'[q] = at[q]
  BY DEF AnchorInv, Begin
<1>2. anchor' = anchor
  BY DEF Begin
<1>3. \A q \in Procs : Standing(mem[q]) /\ (at[q] # "idle" => mem[q].goal # NoGoal)
  BY DEF AnchorInv
<1>4. ASSUME NEW q \in Procs PROVE Standing(mem[q])' /\ (at'[q] # "idle" => mem'[q].goal # NoGoal)
  <2>1. CASE q = p
    BY <1>1, <2>1 DEF Standing, Credited
  <2>2. CASE q # p
    <3>1. mem[q] \in Anchors /\ (mem[q].goal = NoGoal => mem[q] = None)
      BY <1>3 DEF Standing
    <3>2. Credited(mem[q])'
      BY <1>1, <1>3, <2>2 DEF Standing, Credited
    <3> QED BY <1>1, <1>3, <2>2, <3>1, <3>2 DEF Standing
  <2> QED BY <2>1, <2>2
<1>5. anchor' = Torn \/ Standing(anchor)'
  <2>1. CASE anchor = Torn
    BY <1>2, <2>1 DEF Torn, None
  <2>2. CASE Standing(anchor)
    BY <1>2, <2>2 DEF Standing, Credited
  <2> QED BY <2>1, <2>2 DEF AnchorInv
<1> QED BY <1>1, <1>4, <1>5 DEF AnchorInv

LEMMA FrozenCriteria ==
    ASSUME NEW list \in Seq(Texts)
    PROVE  /\ Freeze(list) \in Seq(Criterion) /\ Len(Freeze(list)) = Len(list)
           /\ \A i \in 1..Len(list) : Freeze(list)[i].status = "pending"
<1>1. \A text \in Texts : Fresh(text) \in Criterion /\ Fresh(text).status = "pending"
  BY DEF Fresh, Criterion, Statuses
<1>2. \A i \in 1..Len(list) : list[i] \in Texts
  BY ElementOfSeq
<1> QED BY <1>1, <1>2 DEF Freeze

\* What is merged stands under the goal it stood under: a criterion is carried over
\* with its text.
LEMMA MergedCriteria ==
    ASSUME NEW old \in Seq(Criterion), NEW list \in Seq(Texts)
    PROVE  /\ Merge(old, list) \in Seq(Criterion) /\ Len(Merge(old, list)) = Len(list)
           /\ \A i \in 1..Len(list) :
                \/ Merge(old, list)[i].status = "pending"
                \/ \E k \in 1..Len(old) :
                     /\ Merge(old, list)[i].text = old[k].text
                     /\ Merge(old, list)[i].status = old[k].status
                     /\ Merge(old, list)[i].evidence = old[k].evidence
<1>1. ASSUME NEW i \in 1..Len(list)
      PROVE  /\ Merge(old, list)[i] \in Criterion
             /\ \/ Merge(old, list)[i].status = "pending"
                \/ \E k \in 1..Len(old) :
                     /\ Merge(old, list)[i].text = old[k].text
                     /\ Merge(old, list)[i].status = old[k].status
                     /\ Merge(old, list)[i].evidence = old[k].evidence
  <2>0. list[i] \in Texts
    BY ElementOfSeq
  <2>1. CASE \E k \in 1..Len(old) : old[k].text = list[i]
    <3> DEFINE k == CHOOSE k \in 1..Len(old) : old[k].text = list[i]
               c == [old[k] EXCEPT !.reason = FALSE]
    <3>1. k \in 1..Len(old) /\ old[k].text = list[i]
      BY <2>1
    <3>2. Merge(old, list)[i] = c
      BY <2>1 DEF Merge
    <3> HIDE DEF k
    <3>3. old[k] \in Criterion
      BY <3>1, ElementOfSeq
    <3>4. c \in Criterion /\ c.text = old[k].text /\ c.status = old[k].status
          /\ c.evidence = old[k].evidence
      BY <3>3 DEF Criterion
    <3> QED BY <3>1, <3>2, <3>4
  <2>2. CASE ~\E k \in 1..Len(old) : old[k].text = list[i]
    BY <2>0, <2>2 DEF Merge, Fresh, Criterion, Statuses
  <2> QED BY <2>1, <2>2
<1>2. Merge(old, list) = [i \in 1..Len(list) |-> Merge(old, list)[i]]
  BY DEF Merge
<1>3. Len(list) \in Nat
  OBVIOUS
<1>4. Merge(old, list) \in Seq(Criterion) /\ Len(Merge(old, list)) = Len(list)
  BY <1>1, <1>2, <1>3
<1> QED BY <1>1, <1>4

LEMMA CmdSetKeeps == ASSUME AnchorInv, NEW p \in Procs, CmdSet(p) PROVE AnchorInv'
<1> PICK goal \in Goals, list \in GivenLists, force \in BOOLEAN,
         contract \in Contracts \cup {NoContract} :
      /\ MaySetGoal(goal, force)
      /\ ApplyDelivery(contract, force)
      /\ Begin(p, [goal |-> goal,
                   criteria |-> IF Loaded.goal = goal THEN Merge(Loaded.criteria, list)
                                ELSE Freeze(list),
                   delivery |-> IF contract = NoContract THEN Loaded.delivery ELSE contract],
               force)
      /\ UNCHANGED <<proven, excused>>
  BY DEF CmdSet
<1> PICK l : l = Loaded
  OBVIOUS
<1> PICK a : a = [goal |-> goal,
                  criteria |-> IF l.goal = goal THEN Merge(l.criteria, list) ELSE Freeze(list),
                  delivery |-> IF contract = NoContract THEN l.delivery ELSE contract]
  OBVIOUS
<1>1. Begin(p, a, force)
  OBVIOUS
<1>2. Standing(l) /\ l \in Anchors /\ goal # NoGoal /\ list \in Seq(Texts)
  BY LoadedStands, AnchorAssumption, ListsAreTexts
<1>3. l.goal \in Goals \cup {NoGoal} /\ l.criteria \in Seq(Criterion)
      /\ l.delivery \in Contracts \cup {NoContract}
  BY <1>2 DEF Anchors
<1>4. a \in Anchors /\ a.goal = goal
      /\ a.criteria = IF l.goal = goal THEN Merge(l.criteria, list) ELSE Freeze(list)
  <2>1. Merge(l.criteria, list) \in Seq(Criterion) /\ Freeze(list) \in Seq(Criterion)
    BY <1>2, <1>3, MergedCriteria, FrozenCriteria
  <2> QED BY <1>3, <2>1 DEF Anchors
<1>5. Credited(a)'
  <2>1. CASE l.goal = goal
    <3>1. ASSUME NEW i \in 1..Len(list)
          PROVE  /\ a.criteria[i].status = "done" =>
                      a.criteria[i].evidence /\ <<goal, a.criteria[i].text>> \in proven
                 /\ a.criteria[i].status = "waived" => <<goal, a.criteria[i].text>> \in excused
      <4>1. CASE a.criteria[i].status = "pending"
        BY <4>1
      <4>2. ASSUME NEW k \in 1..Len(l.criteria), a.criteria[i].text = l.criteria[k].text,
                   a.criteria[i].status = l.criteria[k].status,
                   a.criteria[i].evidence = l.criteria[k].evidence
            PROVE  /\ a.criteria[i].status = "done" =>
                        a.criteria[i].evidence /\ <<goal, a.criteria[i].text>> \in proven
                   /\ a.criteria[i].status = "waived" => <<goal, a.criteria[i].text>> \in excused
        BY <1>2, <2>1, <4>2 DEF Standing, Credited
      <4>3. a.criteria = Merge(l.criteria, list)
        BY <1>4, <2>1
      <4>4. \/ a.criteria[i].status = "pending"
            \/ \E k \in 1..Len(l.criteria) :
                  /\ a.criteria[i].text = l.criteria[k].text
                  /\ a.criteria[i].status = l.criteria[k].status
                  /\ a.criteria[i].evidence = l.criteria[k].evidence
        <5>1. /\ l.criteria \in Seq(Criterion) /\ list \in Seq(Texts)
          BY <1>2, <1>3
        <5> DEFINE m == Merge(l.criteria, list)
        <5>2. \/ m[i].status = "pending"
              \/ \E k \in 1..Len(l.criteria) :
                    /\ m[i].text = l.criteria[k].text
                    /\ m[i].status = l.criteria[k].status
                    /\ m[i].evidence = l.criteria[k].evidence
          BY <5>1, MergedCriteria, Zenon
        <5>3. a.criteria = m
          BY <4>3
        <5> HIDE DEF m
        <5> QED BY <5>2, <5>3
      <4> QED BY <4>1, <4>2, <4>4, Zenon
    <3>2. Len(a.criteria) = Len(list)
      BY <1>2, <1>3, <1>4, <2>1, MergedCriteria
    <3> QED BY <1>4, <3>1, <3>2 DEF Credited
  <2>2. CASE l.goal # goal
    BY <1>2, <1>4, <2>2, FrozenCriteria DEF Credited
  <2> QED BY <2>1, <2>2
<1> QED BY <1>1, <1>2, <1>4, <1>5, BeginKeeps

LEMMA CmdSetDeliveryKeeps == ASSUME AnchorInv, NEW p \in Procs, CmdSetDelivery(p) PROVE AnchorInv'
<1> PICK force \in BOOLEAN, contract \in Contracts :
      /\ Loaded.goal # NoGoal
      /\ ApplyDelivery(contract, force)
      /\ Begin(p, [Loaded EXCEPT !.delivery = contract], force)
      /\ UNCHANGED <<proven, excused>>
  BY DEF CmdSetDelivery
<1> PICK l : l = Loaded
  OBVIOUS
<1> PICK a : a = [l EXCEPT !.delivery = contract]
  OBVIOUS
<1>1. Begin(p, a, force)
  OBVIOUS
<1>2. Standing(l) /\ l \in Anchors
  BY LoadedStands
<1>3. a \in Anchors /\ a.goal = l.goal /\ a.criteria = l.criteria
  BY <1>2 DEF Anchors
<1>4. Credited(a)'
  BY <1>2, <1>3 DEF Standing, Credited
<1> QED BY <1>1, <1>3, <1>4, BeginKeeps

LEMMA CmdMarkKeeps == ASSUME AnchorInv, NEW p \in Procs, CmdMark(p) PROVE AnchorInv'
<1> PICK k \in 1..Len(Loaded.criteria), status \in Marks, shown \in BOOLEAN, why \in BOOLEAN :
      /\ MayMark(status, shown, why)
      /\ Begin(p, [Loaded EXCEPT !.criteria[k] =
                       [text |-> Loaded.criteria[k].text, status |-> status,
                        evidence |-> shown \/ Loaded.criteria[k].evidence,
                        reason |-> why \/ Loaded.criteria[k].reason]], FALSE)
      /\ proven' = IF status = "done" /\ shown
                   THEN proven \cup {<<Loaded.goal, Loaded.criteria[k].text>>} ELSE proven
      /\ excused' = IF status = "waived" /\ why
                    THEN excused \cup {<<Loaded.goal, Loaded.criteria[k].text>>} ELSE excused
      /\ UNCHANGED <<baseline, authorized, readmitted>>
  BY Zenon DEF CmdMark
<1> PICK l : l = Loaded
  OBVIOUS
<1>1. /\ k \in 1..Len(l.criteria) /\ MayMark(status, shown, why)
      /\ proven' = IF status = "done" /\ shown
                   THEN proven \cup {<<l.goal, l.criteria[k].text>>} ELSE proven
      /\ excused' = IF status = "waived" /\ why
                    THEN excused \cup {<<l.goal, l.criteria[k].text>>} ELSE excused
  OBVIOUS
<1> PICK c : c = [text |-> l.criteria[k].text, status |-> status,
                  evidence |-> shown \/ l.criteria[k].evidence,
                  reason |-> why \/ l.criteria[k].reason]
  OBVIOUS
<1> PICK a : a = [l EXCEPT !.criteria[k] = c]
  OBVIOUS
<1>2. Begin(p, a, FALSE)
  OBVIOUS
<1>3. Standing(l) /\ l \in Anchors
  BY LoadedStands
<1>4. l.criteria \in Seq(Criterion) /\ l.criteria[k] \in Criterion
  BY <1>3, ElementOfSeq DEF Anchors
<1>5. c \in Criterion /\ c.text = l.criteria[k].text /\ c.status = status
      /\ (status = "done" => shown /\ c.evidence) /\ (status = "waived" => why)
  BY <1>1, <1>4, AnchorAssumption DEF Criterion, Statuses, MayMark
<1>6. a \in Anchors /\ a.goal = l.goal /\ a.criteria = [l.criteria EXCEPT ![k] = c]
  <2> DEFINE cs == [l.criteria EXCEPT ![k] = c]
  <2>1. cs \in Seq(Criterion)
    BY <1>1, <1>4, <1>5, ExceptSeq
  <2>2. a = [l EXCEPT !.criteria = cs]
    OBVIOUS
  <2> HIDE DEF cs
  <2>3. a \in Anchors /\ a.goal = l.goal /\ a.criteria = cs
    BY <1>3, <2>1, <2>2 DEF Anchors
  <2> QED BY <2>3 DEF cs
<1>7. Len(a.criteria) = Len(l.criteria) /\ a.criteria[k] = c
      /\ \A i \in 1..Len(l.criteria) : i # k => a.criteria[i] = l.criteria[i]
  BY <1>1, <1>4, <1>5, <1>6, ExceptSeq
<1>8. Credited(a)'
  <2>1. proven \subseteq proven' /\ excused \subseteq excused'
    BY <1>1
  <2>2. /\ status = "done" => <<l.goal, c.text>> \in proven'
        /\ status = "waived" => <<l.goal, c.text>> \in excused'
    BY <1>1, <1>5
  <2> QED BY <1>3, <1>5, <1>6, <1>7, <2>1, <2>2 DEF Standing, Credited
<1>9. a.goal # NoGoal
  BY <1>1, <1>3, <1>6, NoneStands DEF Standing
<1>10. proven \subseteq proven' /\ excused \subseteq excused'
  BY <1>1
<1> QED BY <1>2, <1>6, <1>8, <1>9, <1>10, BeginKeeps

LEMMA SaveKeeps ==
    ASSUME AnchorInv, NEW p \in Procs, SaveOpen(p) \/ SaveWrite(p) \/ Kill(p)
    PROVE  AnchorInv'
<1>1. /\ at' \in [Procs -> {"idle", "open", "write"}] /\ mem' \in [Procs -> Anchors]
      /\ UNCHANGED <<proven, excused>>
      /\ anchor' \in {anchor, Torn, mem[p]}
      /\ \A q \in Procs : \/ mem'[q] = None /\ at'[q] = "idle"
                          \/ mem'[q] = mem[q] /\ (at'[q] # "idle" => at[q] # "idle")
  <2>1. CASE SaveOpen(p)
    BY <2>1 DEF SaveOpen, AnchorInv
  <2>2. CASE SaveWrite(p)
    BY <2>2, NoneStands DEF SaveWrite, AnchorInv
  <2>3. CASE Kill(p)
    BY <2>3, NoneStands DEF Kill, AnchorInv
  <2> QED BY <2>1, <2>2, <2>3
<1>2. \A a : Standing(a)' <=> Standing(a)
  BY <1>1 DEF Standing, Credited
<1>3. anchor' = Torn \/ Standing(anchor)'
  BY <1>1 DEF AnchorInv, Standing, Credited, Torn, None
<1>4. \A q \in Procs : Standing(mem[q])' /\ (at'[q] # "idle" => mem'[q].goal # NoGoal)
  BY <1>1, NoneStands DEF AnchorInv, Standing, Credited
<1> QED BY <1>1, <1>3, <1>4 DEF AnchorInv

LEMMA InitAnchorInv == AnchorInit => AnchorInv
BY NoneStands DEF AnchorInit, AnchorInv

LEMMA NextAnchorInv == AnchorInv /\ [AnchorNext]_anchorVars => AnchorInv'
<1> SUFFICES ASSUME AnchorInv, [AnchorNext]_anchorVars PROVE AnchorInv'
  OBVIOUS
<1>1. ASSUME UNCHANGED commandVars PROVE AnchorInv'
  BY <1>1 DEF commandVars, AnchorInv, Standing, Credited, Torn, None
<1>2. CASE FilesChange \/ NewFileGuard \/ DeliveryStopGuard \/ UNCHANGED anchorVars
  BY <1>1, <1>2 DEF FilesChange, NewFileGuard, DeliveryStopGuard, anchorVars
<1> QED BY <1>2, CmdSetKeeps, CmdSetDeliveryKeeps, CmdMarkKeeps, SaveKeeps
        DEF AnchorNext, AnchorCommand

LEMMA CreditByStanding == AnchorInv => CreditIsEarned
<1> SUFFICES ASSUME AnchorInv PROVE CreditIsEarned
  OBVIOUS
<1>1. Standing(Loaded)
  BY LoadedStands
<1>2. ASSUME NEW i \in 1..Len(Loaded.criteria)
      PROVE  LET key == <<Loaded.goal, Loaded.criteria[i].text>>
             IN  /\ Loaded.criteria[i].status = "done" =>
                      Loaded.criteria[i].evidence /\ key \in proven
                 /\ Loaded.criteria[i].status = "waived" => key \in excused
  BY <1>1 DEF Standing, Credited
<1>3. ASSUME NEW goal \in Goals, NEW i \in 1..Len(Loaded.criteria),
             DriftVerdict(Loaded, goal) = "ANCHORED"
      PROVE  <<goal, Loaded.criteria[i].text>> \in proven \cup excused
  <2>1. Loaded.goal = goal /\ Open(Loaded) = {}
    BY <1>3 DEF DriftVerdict, Ready
  <2>2. Loaded.criteria[i].status \in {"done", "waived"}
    BY <2>1 DEF Open
  <2> QED BY <1>2, <2>1, <2>2
<1> QED BY <1>2, <1>3 DEF CreditIsEarned, Open, Excused

LEMMA AnchorIsOrderly == AnchorSpec => []AnchorInv
BY InitAnchorInv, NextAnchorInv, PTL DEF AnchorSpec

\* Gate and drift check count no criterion that was not marked done with evidence under
\* its text and goal, or excused, although anchor.json is written without a lock
\* (cmd_mark, merge_preserving, drift_verdict, cmd_gate).
THEOREM CreditIsAlwaysEarned == AnchorSpec => []CreditIsEarned
BY AnchorIsOrderly, CreditByStanding, PTL

-----------------------------------------------------------------------------
(* The frozen goal.                                                        *)

\* A command that does not meet a truncated file begins with the goal on file, or with
\* --force, or when none is frozen.
LEMMA BeginHolds ==
    ASSUME AnchorInv, HeldInv, NEW p \in Procs, NEW a, NEW force, Begin(p, a, force),
           Loaded.goal \in {NoGoal, a.goal} \/ force
    PROVE  HeldInv'
<1>1. /\ anchor' = anchor /\ held' = held /\ mem'[p] = a
      /\ forced' = IF force THEN forced \cup {p} ELSE forced
      /\ blind' = IF anchor = Torn THEN blind \cup {p} ELSE blind
      /\ \A q \in Procs \ {p} : mem'[q] = mem[q] /\ at'[q] = at[q]
  BY DEF Begin, AnchorInv
<1>2. ASSUME p \notin forced', p \notin blind' PROVE held = NoGoal \/ a.goal = held
  BY <1>1, <1>2 DEF HeldInv, Loaded
<1>3. ASSUME NEW q \in Procs \ (forced' \cup blind'), at'[q] # "idle"
      PROVE  held' = NoGoal \/ mem'[q].goal = held'
  BY <1>1, <1>2, <1>3 DEF HeldInv
<1> QED BY <1>1, <1>3 DEF HeldInv, Torn, None

\* A save overtakes all others, and what it writes is what is held.
LEMMA SaveHolds ==
    ASSUME AnchorInv, HeldInv, NEW p \in Procs, SaveOpen(p) \/ SaveWrite(p) \/ Kill(p)
    PROVE  HeldInv'
<1>1. CASE SaveOpen(p)
  <2>1. \A q \in Procs \ {p} : mem'[q] = mem[q] /\ at'[q] = at[q]
                                /\ (at[q] # "idle" => q \in blind')
    BY <1>1 DEF SaveOpen, Overtaken, AnchorInv
  <2>2. anchor' = Torn' /\ mem' = mem /\ held' = held /\ forced' = forced
        /\ at[p] # "idle" /\ blind \subseteq blind'
    BY <1>1 DEF SaveOpen, Torn, None
  <2> QED BY <2>1, <2>2 DEF HeldInv
<1>2. CASE SaveWrite(p)
  <2>1. \A q \in Procs : at'[q] # "idle" => q \in blind'
    BY <1>2 DEF SaveWrite, Overtaken, AnchorInv
  <2>2. anchor' # Torn' => anchor'.goal = held'
    BY <1>2 DEF SaveWrite, Torn, None
  <2> QED BY <2>1, <2>2 DEF HeldInv
<1>3. CASE Kill(p)
  <2>1. /\ anchor' = anchor /\ Torn' = Torn /\ held' = held /\ at'[p] = "idle"
        /\ \A q \in Procs \ {p} : /\ mem'[q] = mem[q] /\ at'[q] = at[q]
                                  /\ q \in forced' \cup blind' <=> q \in forced \cup blind
    BY <1>3 DEF Kill, AnchorInv, Torn, None
  <2> QED BY <2>1 DEF HeldInv
<1> QED BY <1>1, <1>2, <1>3

LEMMA NextHolds == AnchorInv /\ HeldInv /\ [AnchorNext]_anchorVars => HeldInv'
<1> SUFFICES ASSUME AnchorInv, HeldInv, [AnchorNext]_anchorVars PROVE HeldInv'
  OBVIOUS
<1>0. Loaded \in Anchors
  BY LoadedStands
<1>1. ASSUME UNCHANGED commandVars PROVE HeldInv'
  BY <1>1 DEF commandVars, HeldInv, Torn, None
<1>2. CASE FilesChange \/ NewFileGuard \/ DeliveryStopGuard \/ UNCHANGED anchorVars
  BY <1>1, <1>2 DEF FilesChange, NewFileGuard, DeliveryStopGuard, anchorVars
<1>3. ASSUME NEW p \in Procs, CmdSet(p) PROVE HeldInv'
  <2>1. PICK goal \in Goals, list \in GivenLists, force \in BOOLEAN,
             contract \in Contracts \cup {NoContract} :
          /\ MaySetGoal(goal, force)
          /\ Begin(p, [goal |-> goal,
                       criteria |-> IF Loaded.goal = goal THEN Merge(Loaded.criteria, list)
                                    ELSE Freeze(list),
                       delivery |-> IF contract = NoContract THEN Loaded.delivery
                                    ELSE contract],
                   force)
    BY <1>3 DEF CmdSet
  <2>2. PICK a : Begin(p, a, force) /\ a.goal = goal
    BY <2>1
  <2> QED BY <2>1, <2>2, BeginHolds DEF MaySetGoal
<1>4. ASSUME NEW p \in Procs, CmdSetDelivery(p) PROVE HeldInv'
  <2>1. PICK force \in BOOLEAN, contract \in Contracts :
          Begin(p, [Loaded EXCEPT !.delivery = contract], force)
    BY <1>4 DEF CmdSetDelivery
  <2>2. [Loaded EXCEPT !.delivery = contract].goal = Loaded.goal
    BY <1>0 DEF Anchors
  <2> QED BY <2>1, <2>2, BeginHolds
<1>5. ASSUME NEW p \in Procs, CmdMark(p) PROVE HeldInv'
  <2>1. PICK k, c : Begin(p, [Loaded EXCEPT !.criteria[k] = c], FALSE)
    BY <1>5, Zenon DEF CmdMark
  <2>2. [Loaded EXCEPT !.criteria[k] = c].goal = Loaded.goal
    BY <1>0 DEF Anchors
  <2> QED BY <2>1, <2>2, BeginHolds
<1> QED BY <1>2, <1>3, <1>4, <1>5, SaveHolds DEF AnchorNext, AnchorCommand

\* A goal on file is replaced by another only when a command with --force saves, or one
\* that met a truncated file or was overtaken by another save (cmd_set, _load, _save).
THEOREM GoalsAreHeld == AnchorSpec => GoalHeld
<1>1. AnchorInit => HeldInv
  BY DEF AnchorInit, HeldInv, None
<1>2. AnchorInv /\ HeldInv /\ [AnchorNext]_anchorVars
        => [\A p \in Procs \ (forced \cup blind) :
              SaveWrite(p) /\ held # NoGoal => held' = held]_anchorVars
  BY DEF HeldInv, SaveWrite
<1> QED BY <1>1, <1>2, NextHolds, AnchorIsOrderly, PTL DEF AnchorSpec, GoalHeld
-----------------------------------------------------------------------------
(* The baseline of the two guards.                                         *)

LEMMA NextBaselineInv == BaselineInv /\ [AnchorNext]_anchorVars => BaselineInv'
<1> SUFFICES ASSUME BaselineInv, [AnchorNext]_anchorVars PROVE BaselineInv'
  OBVIOUS
<1>1. ASSUME UNCHANGED <<baseline, authorized, readmitted>> PROVE BaselineInv'
  BY <1>1 DEF BaselineInv
<1>2. ASSUME NEW contract, NEW force, ApplyDelivery(contract, force) PROVE BaselineInv'
  BY <1>1, <1>2 DEF ApplyDelivery, CaptureBaseline, BaselineInv
<1>3. CASE AnchorCommand
  BY <1>1, <1>2, <1>3, ZenonT(60) DEF AnchorCommand, CmdSet, CmdSetDelivery, CmdMark, SaveOpen, SaveWrite, Kill,
                          guardVars
<1>4. CASE FilesChange \/ NewFileGuard \/ UNCHANGED anchorVars
  BY <1>1, <1>4 DEF FilesChange, NewFileGuard, anchorVars, guardVars
<1>5. CASE DeliveryStopGuard
  BY <1>5 DEF DeliveryStopGuard, NextBaseline, BaselineInv
<1> QED BY <1>3, <1>4, <1>5 DEF AnchorNext

\* When git answers the first guard, a turn under a contract without new files passes it
\* with none but those that some `set` captured (new_file_guard, capture_baseline).
THEOREM NewFilesAreSeen == AnchorSpec => NoNewFileSlips
<1>1. AnchorInit => BaselineInv
  BY DEF AnchorInit, BaselineInv, NoBaseline
<1>2. BaselineInv /\ [AnchorNext]_anchorVars
        => [turn = "agent" /\ turn' = "passed" /\ Loaded.delivery \in Closed
              => NewFiles \subseteq authorized \cup readmitted]_anchorVars
  <2> SUFFICES ASSUME BaselineInv, AnchorNext, turn = "agent", turn' = "passed",
                      Loaded.delivery \in Closed
               PROVE  NewFiles \subseteq authorized \cup readmitted
    OBVIOUS
  <2>1. CASE NewFileGuard
    BY <2>1 DEF NewFileGuard, Unauthorized, BaselineInv
  <2>2. ASSUME ~NewFileGuard PROVE FALSE
    BY <2>2 DEF AnchorNext, AnchorCommand, CmdSet, CmdSetDelivery, CmdMark, Begin, SaveOpen,
                SaveWrite, Kill, FilesChange, DeliveryStopGuard, guardVars
  <2> QED BY <2>1, <2>2
<1> QED BY <1>1, <1>2, NextBaselineInv, PTL DEF AnchorSpec, NoNewFileSlips
-----------------------------------------------------------------------------
(* The watcher receipts.                                                   *)

\* What a receipt that says MEASURED promises.
Earned(r) ==
    r.match =>
        /\ r.seen # <<>> /\ \A i \in 1..Len(r.seen) : r.seen[i] = "done"
        /\ r.id.kind = "anchor" => r.seen = r.id.statuses /\ r.source = "independent"

\* A nonce has the number it was given.
Numbered(id) == id.kind = "nonce" => id.n \in Nat /\ id.n <= nonces

\* A receipt for the nonce on disk was read since that was written.
Young(r) ==
    challenge # Nothing /\ challenge.id.kind = "nonce" /\ r.id = challenge.id =>
        r.read >= challenge.written

Whole(r) == r = [kind |-> r.kind, match |-> r.match, id |-> r.id, seen |-> r.seen,
                 read |-> r.read, at |-> r.at, source |-> r.source]

Good(r) == Earned(r) /\ Young(r) /\ Numbered(r.id)

WatchInv ==
    /\ clock \in Nat /\ nonces \in Nat
    /\ challenge # Nothing => /\ challenge.written \in Nat /\ challenge.written <= clock
                              /\ Numbered(challenge.id)
    /\ verifying.kind = "read" => Numbered(verifying.id)
    /\ verifying.kind = "receipt" => Whole(verifying) /\ Good(verifying)
    /\ state # Nothing => Good(state)

WatcherInv == AnchorInv /\ WatchInv

LEMMA StatusesSeen ==
    ASSUME NEW a \in Anchors
    PROVE  /\ Len(StatusesOf(a)) = Len(a.criteria)
           /\ \A i \in 1..Len(a.criteria) : StatusesOf(a)[i] = a.criteria[i].status
           /\ a.criteria # <<>> => StatusesOf(a) # <<>>
<1>1. a.criteria \in Seq(Criterion) /\ Len(a.criteria) \in Nat
  BY DEF Anchors
<1> QED BY <1>1, EmptySeq DEF StatusesOf

\* What one reading of anchor, reports and tree gives.
LEMMA ReadKeeps ==
    ASSUME WatcherInv, VerifyRead
    PROVE  WatchInv'
<1>1. PICK named \in BOOLEAN, rerun \in Reruns, tree \in Comparisons :
        verifying' = [kind |-> "receipt", match |-> Verdict(named, rerun, tree),
                      id |-> verifying.id, seen |-> StatusesOf(Loaded),
                      read |-> clock, at |-> clock,
                      source |-> IF UsingIndependent THEN "independent" ELSE "evidence"]
  BY DEF VerifyRead
<1>2. Loaded \in Anchors
  BY LoadedStands DEF WatcherInv
<1>3. /\ verifying'.kind = "receipt" /\ verifying'.match = Verdict(named, rerun, tree)
      /\ verifying'.id = verifying.id /\ verifying'.seen = StatusesOf(Loaded)
      /\ verifying'.read = clock
      /\ verifying'.source = IF UsingIndependent THEN "independent" ELSE "evidence"
      /\ Whole(verifying')
  BY <1>1 DEF Whole
<1>4. ASSUME Verdict(named, rerun, tree) PROVE Earned(verifying')
  <2>1. PICK report : CriteriaMatch(report)
    BY <1>4 DEF Verdict, IndependentMatch
  <2>2. verifying'.seen # <<>> /\ \A i \in 1..Len(verifying'.seen) : verifying'.seen[i] = "done"
    BY <1>2, <1>3, <2>1, StatusesSeen DEF CriteriaMatch
  <2>3. verifying'.id.kind = "anchor" =>
          verifying'.seen = verifying'.id.statuses /\ verifying'.source = "independent"
    BY <1>3, <1>4 DEF Verdict, ChallengeMatches, Bound, Derived
  <2> QED BY <2>2, <2>3 DEF Earned
<1>5. Earned(verifying')
  BY <1>3, <1>4 DEF Earned
<1>6. Young(verifying') /\ Numbered(verifying.id)
  BY <1>3 DEF WatcherInv, WatchInv, Young, VerifyRead
<1>7. UNCHANGED <<clock, nonces, challenge, state>>
  BY DEF VerifyRead
<1>8. Good(verifying)'
  BY <1>3, <1>5, <1>6, <1>7 DEF Good, Earned, Young, Numbered
<1>9. state' # Nothing => Good(state)'
  BY <1>7 DEF WatcherInv, WatchInv, Good, Earned, Young, Numbered
<1> QED BY <1>3, <1>7, <1>8, <1>9 DEF WatcherInv, WatchInv, Numbered

\* A new nonce is nobody's yet, and no challenge is older for the anchor's own.
LEMMA ChallengeKeeps ==
    ASSUME WatchInv, HookChallenge \/ CmdIssue
    PROVE  WatchInv'
<1>1. UNCHANGED <<clock, verifying, state>> /\ challenge'.written = clock
      /\ nonces' \in Nat /\ nonces' >= nonces /\ clock \in Nat /\ nonces \in Nat
  BY DEF HookChallenge, CmdIssue, WatchInv
<1>2. \/ challenge'.id.kind = "nonce" /\ challenge'.id.n = nonces + 1 /\ nonces' = nonces + 1
      \/ challenge'.id.kind = "anchor"
  BY DEF HookChallenge, CmdIssue, Nonce, Derived
<1>3. ASSUME NEW r, Good(r) PROVE Earned(r) /\ Numbered(r.id)' /\ Young(r)'
  BY <1>1, <1>2, <1>3 DEF Good, Numbered, Young
<1>4. ASSUME NEW id, Numbered(id) PROVE Numbered(id)'
  BY <1>1, <1>4 DEF Numbered
<1>5. Numbered(challenge.id)'
  BY <1>1, <1>2 DEF Numbered
<1>6. verifying.kind = "receipt" => Good(verifying)'
  BY <1>1, <1>3 DEF WatchInv, Good, Earned, Young, Numbered
<1>7. state # Nothing => Good(state)'
  BY <1>1, <1>3 DEF WatchInv, Good, Earned, Young, Numbered
<1>8. verifying.kind = "read" => Numbered(verifying.id)'
  BY <1>1 DEF WatchInv, Numbered
<1> QED BY <1>1, <1>5, <1>6, <1>7, <1>8 DEF WatchInv

LEMMA WriteKeeps == ASSUME WatchInv, VerifyWrite PROVE WatchInv'
<1>1. UNCHANGED <<clock, nonces, challenge>> /\ verifying' = Nothing
      /\ Whole(verifying) /\ Good(verifying) /\ state' = [verifying EXCEPT !.at = clock]
  BY DEF VerifyWrite, WatchInv
<1>2. /\ state'.match = verifying.match /\ state'.id = verifying.id
      /\ state'.seen = verifying.seen /\ state'.read = verifying.read
      /\ state'.source = verifying.source
  BY <1>1 DEF Whole
<1>3. Good(state)'
  BY <1>1, <1>2 DEF Good, Earned, Young, Numbered
<1>4. verifying'.kind = "none"
  BY <1>1 DEF Nothing
<1> QED BY <1>1, <1>3, <1>4 DEF WatchInv, Numbered

LEMMA InitWatcherInv == Init => WatcherInv
BY InitAnchorInv DEF Init, WatcherInv, WatchInv, Nothing

LEMMA NextWatcherInv == WatcherInv /\ [Next]_vars => WatcherInv'
<1> SUFFICES ASSUME WatcherInv, [Next]_vars PROVE WatcherInv'
  OBVIOUS
<1>1. [AnchorNext]_anchorVars
  BY DEF Next, vars, AnchorNext, HookChallenge, HookRemoves, IndependentReports,
         OperatorReports, Tick, CmdIssue, VerifyStart, VerifyRead, VerifyWrite, VerifyDies
<1>2. AnchorInv'
  BY <1>1, NextAnchorInv DEF WatcherInv
<1>3. ASSUME UNCHANGED <<challenge, state, nonces>>, clock' \in Nat, clock' >= clock,
             verifying' \in {verifying, Nothing}
      PROVE  WatchInv'
  BY <1>3 DEF WatcherInv, WatchInv, Good, Earned, Young, Numbered, Whole, Nothing
<1>4. ASSUME Tick PROVE WatchInv'
  BY <1>3, <1>4 DEF Tick, WatcherInv, WatchInv
<1>5. ASSUME UNCHANGED <<challenge, state, nonces, clock, verifying>> PROVE WatchInv'
  BY <1>3, <1>5 DEF WatcherInv, WatchInv
<1>6. ASSUME VerifyDies PROVE WatchInv'
  BY <1>3, <1>6 DEF VerifyDies, WatcherInv, WatchInv
<1>7. ASSUME VerifyStart PROVE WatchInv'
  <2>1. /\ verifying'.kind = "read" /\ Numbered(challenge.id) /\ verifying'.id = challenge.id
        /\ UNCHANGED <<challenge, state, nonces, clock>>
    BY <1>7 DEF VerifyStart, WatcherInv, WatchInv
  <2> QED BY <2>1 DEF WatcherInv, WatchInv, Good, Earned, Young, Numbered
<1>8. ASSUME HookRemoves PROVE WatchInv'
  BY <1>8 DEF HookRemoves, WatcherInv, WatchInv, Good, Earned, Young, Numbered
<1>9. WatchInv'
  BY <1>4, <1>5, <1>6, <1>7, <1>8, ReadKeeps, ChallengeKeeps, WriteKeeps
     DEF Next, vars, watchVars, IndependentReports, OperatorReports, WatcherInv
<1> QED BY <1>2, <1>9 DEF WatcherInv

LEMMA WatcherIsOrderly == Spec => []WatcherInv
BY InitWatcherInv, NextWatcherInv, PTL DEF Spec

\* A receipt the stop hook accepts saw every criterion done; for a challenge that was
\* derived from the anchor it saw those statuses, and an independent report (cmd_verify).
THEOREM AcceptedReceiptsSawAllDone == Spec => []AcceptedWasDone
<1>1. WatcherInv => AcceptedWasDone
  BY DEF WatcherInv, WatchInv, Good, Earned, AcceptedWasDone, Accepts
<1> QED BY <1>1, WatcherIsOrderly, PTL

\* A receipt accepted for a nonce was measured after the nonce was written
\* (watcher_verify of the stop hook).
THEOREM AcceptedReceiptsAreFresh == Spec => []AcceptedIsFresh
<1>1. WatcherInv => AcceptedIsFresh
  BY DEF WatcherInv, WatchInv, Good, Young, AcceptedIsFresh, Accepts
<1> QED BY <1>1, WatcherIsOrderly, PTL
=============================================================================
