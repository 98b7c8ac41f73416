------------------------- MODULE MapperCacheProofs -------------------------
(***************************************************************************)
(* Theorems about the project map that the Claude hook and Hermes share,   *)
(* for any number of processes, sessions, edits, upgrades and kills.       *)
(*                                                                         *)
(* The two read each other's files; what keeps them apart is the form of   *)
(* the generation, which differs with how the tree was looked at: Hermes   *)
(* never takes a receipt of the hook for its own, nor the hook one of      *)
(* Hermes, nor a look by git one of a look without.                        *)
(* The lock plays no part in either proof.                                 *)
(***************************************************************************)
EXTENDS MapperCache, TLAPS

OfHook(g) == g.how # "bytes"
JobState == [session : Sessions \cup {Nothing}, speaks : BOOLEAN, forced : BOOLEAN,
             looked : Trees \cup {Nothing}, how : Looks, mapper : 0..MaxEvents,
             receipt : Receipts \cup {Nothing}, text : Texts \cup {Nothing}]
Calm == ~crossed /\ ~mixed

\* A text is of the tree that a call looked at, as far as its generation tells trees apart.
Fits(text, known) == Generation(known.how, text.of) = Generation(known.how, known.looked)

\* The receipt in hand: under calm that of a map that fits, for a hook one of a hook.
Held(p, known, calm) ==
    /\ known.receipt \in Receipts
    /\ calm => Fits(known.receipt.text, known)
    /\ p \in Hooks => known.receipt.mapper = Nothing /\ OfHook(known.receipt.generation)

\* What a call knows where it is, given what is in .simplicio/docs.
JobOk(p, place, known, d, calm) ==
    /\ place \in Places /\ known \in JobState
    /\ place # "idle" => known.looked \in Trees /\ (p \in Hooks <=> known.how # "bytes")
    /\ place # "idle" /\ p \in Hooks => known.session \in Sessions
    /\ place \in {"writing", "replace", "record"} =>
          known.text \in Texts /\ (calm => Fits(known.text, known))
    /\ place = "read" => d \in Texts /\ (calm => Fits(d, known))
    /\ place \notin {"unlock", "deliver", "print"} => known.receipt = Nothing
    /\ place \in {"deliver", "print"} => Held(p, known, calm)
    /\ place = "print" => p \in Hooks
    /\ place = "unlock" /\ known.receipt # Nothing => Held(p, known, calm)

WorldOk ==
    /\ tree \in Trees /\ mapper \in 0..MaxEvents /\ events \in 0..MaxEvents
    /\ mapper <= events /\ tree.root <= events
    /\ docs \in Texts \cup {Nothing} /\ mapFile \in Texts \cup {Nothing}
    /\ lock \in [by : Hooks, old : BOOLEAN] \cup {Nothing}
    /\ stray \in Texts \cup {Nothing}
    /\ cut \subseteq Sessions /\ crossed \in BOOLEAN /\ mixed \in BOOLEAN

ReceiptOk ==
    /\ receipt \in Receipts \cup {Nothing}
    /\ receipt # Nothing =>
          /\ Calm => receipt.generation = Generation(receipt.generation.how, receipt.text.of)
          /\ OfHook(receipt.generation) => receipt.mapper = Nothing

JobsOk ==
    /\ at \in [Procs -> Places] /\ job \in [Procs -> JobState]
    /\ \A p \in Procs : JobOk(p, at[p], job[p], docs, Calm)

\* Runs of the Python Mapper that did not overlap.
Mapping == {"writing", "read"}
Alone ==
    ~mixed => \A p \in Procs : at[p] \in Mapping =>
                 stray = Nothing /\ \A q \in Procs : at[q] \in Mapping => q = p

\* A marker is that of a map that was given, is being given, or was cut off.
MarkersOk ==
    /\ marker \in [Sessions -> Receipts \cup {Nothing}]
    /\ given \in [Sessions -> SUBSET Receipts]
    /\ \A s \in Sessions : marker[s] # Nothing =>
          /\ marker[s] \in Receipts /\ marker[s].mapper = Nothing
          /\ \/ s \in cut \/ marker[s] \in given[s]
             \/ \E q \in Hooks : /\ at[q] = "print" /\ job[q].session = s
                                  /\ job[q].receipt = marker[s]

CacheInv == WorldOk /\ ReceiptOk /\ JobsOk /\ Alone /\ MarkersOk
-----------------------------------------------------------------------------
(* Generations.                                                            *)

LEMMA GenerationOf ==
    ASSUME NEW how \in Looks, NEW t \in Trees
    PROVE  Generation(how, t) \in Generations /\ Generation(how, t).how = how
BY MapperAssumption DEF Generation, Generations, Trees

\* A receipt that may be used is for the tree that was looked at.
LEMMA UsableFits ==
    ASSUME CacheInv, NEW p \in Procs, at[p] # "idle", Usable(p, receipt)
    PROVE  /\ receipt \in Receipts
           /\ Calm => Fits(receipt.text, job[p])
           /\ p \in Hooks => receipt.mapper = Nothing /\ OfHook(receipt.generation)
<1>1. receipt # Nothing /\ receipt.generation = LookedFor(p)
  BY DEF Usable
<1>2. /\ receipt \in Receipts /\ job[p].looked \in Trees /\ job[p].how \in Looks
      /\ p \in Hooks <=> job[p].how # "bytes"
  BY <1>1 DEF CacheInv, ReceiptOk, JobsOk, JobOk, JobState
<1>3. receipt.generation.how = job[p].how
  BY <1>1, <1>2, GenerationOf DEF LookedFor
<1>4. Calm => receipt.generation = Generation(receipt.generation.how, receipt.text.of)
  BY <1>1 DEF CacheInv, ReceiptOk
<1>5. Calm => Fits(receipt.text, job[p])
  BY <1>1, <1>3, <1>4 DEF Fits, LookedFor
<1> QED BY <1>1, <1>2, <1>3, <1>5 DEF CacheInv, ReceiptOk, OfHook

LEMMA ReceiptMade ==
    ASSUME CacheInv, NEW p \in Procs, at[p] = "record"
    PROVE  /\ ReceiptOf(p) \in Receipts
           /\ Calm => Fits(ReceiptOf(p).text, job[p])
           /\ Calm => ReceiptOf(p).generation =
                        Generation(ReceiptOf(p).generation.how, ReceiptOf(p).text.of)
           /\ p \in Hooks => ReceiptOf(p).mapper = Nothing /\ OfHook(ReceiptOf(p).generation)
           /\ OfHook(ReceiptOf(p).generation) => ReceiptOf(p).mapper = Nothing
<1>1. /\ job[p].text \in Texts /\ job[p].looked \in Trees /\ job[p].mapper \in 0..MaxEvents
      /\ job[p].how \in Looks /\ (p \in Hooks <=> job[p].how # "bytes")
      /\ Calm => Fits(job[p].text, job[p])
  BY DEF CacheInv, JobsOk, JobOk, JobState
<1>2. /\ ReceiptOf(p).generation = LookedFor(p)
      /\ ReceiptOf(p).text = job[p].text
      /\ ReceiptOf(p).mapper = IF p \in Agents THEN job[p].mapper ELSE Nothing
  BY DEF ReceiptOf
<1>3. LookedFor(p) \in Generations /\ LookedFor(p).how = job[p].how
  BY <1>1, GenerationOf DEF LookedFor
<1>4. ReceiptOf(p) \in Receipts
  BY <1>1, <1>3 DEF ReceiptOf, Receipts
<1>5. Calm => LookedFor(p) = Generation(job[p].how, job[p].text.of)
  BY <1>1 DEF Fits, LookedFor
<1>6. p \in Hooks => p \notin Agents
  BY MapperAssumption
<1> QED BY <1>1, <1>2, <1>3, <1>4, <1>5, <1>6 DEF Fits, OfHook
-----------------------------------------------------------------------------
(* Steps of one process.                                                   *)

LEMMA NoJobTyped == NoJob \in JobState /\ NoJob.receipt = Nothing
BY MapperAssumption DEF NoJob, JobState, Looks

LEMMA IdleOk == ASSUME NEW p, NEW d, NEW calm PROVE JobOk(p, "idle", NoJob, d, calm)
BY NoJobTyped DEF JobOk, Places

Plain == {"look", "lock", "steal", "again", "resolve", "runtime", "python"}

LEMMA PlainOk ==
    ASSUME JobsOk, NEW p \in Procs, at[p] \in Plain, NEW place \in Plain, NEW d, NEW calm
    PROVE  JobOk(p, place, job[p], d, calm)
BY DEF JobsOk, JobOk, Plain, Places

LEMMA KeepIsNote ==
    ASSUME JobsOk, NEW p \in Procs, NEW place, Keep(p, place)
    PROVE  Note(p, place, job[p])
BY DEF JobsOk, Keep, Note

LEMMA JobsKeep ==
    ASSUME JobsOk, NEW p \in Procs, NEW place, NEW known, Note(p, place, known),
           JobOk(p, place, known, docs', Calm'), Calm' => Calm,
           \A q \in Procs : q # p /\ at[q] = "read" =>
               docs' \in Texts /\ (Calm' => docs' = docs)
    PROVE  JobsOk'
<1>1. at' \in [Procs -> Places] /\ job' \in [Procs -> JobState]
  BY DEF JobsOk, Note, Goto, JobOk
<1>2. at'[p] = place /\ job'[p] = known
  BY DEF JobsOk, Note, Goto
<1>3. ASSUME NEW q \in Procs, q # p PROVE JobOk(q, at'[q], job'[q], docs', Calm')
  <2>1. at'[q] = at[q] /\ job'[q] = job[q]
    BY <1>3 DEF JobsOk, Note, Goto
  <2>2. JobOk(q, at[q], job[q], docs, Calm)
    BY DEF JobsOk
  <2> QED BY <1>3, <2>1, <2>2 DEF JobOk, Held
<1> QED BY <1>1, <1>2, <1>3 DEF JobsOk

\* A step that touches neither docs nor receipt nor markers, and starts no Mapper.
LEMMA QuietStep ==
    ASSUME CacheInv, NEW p \in Procs, NEW place, NEW known, Note(p, place, known),
           JobOk(p, place, known, docs, Calm'), at[p] # "print",
           place \notin Mapping, Calm' => Calm, ~mixed' => ~mixed,
           UNCHANGED <<docs, receipt, stray, marker, given, cut>>
    PROVE  ReceiptOk' /\ JobsOk' /\ Alone' /\ MarkersOk'
<1>1. JobsOk'
  <2>1. \A q \in Procs : q # p /\ at[q] = "read" => docs' \in Texts /\ (Calm' => docs' = docs)
    BY DEF CacheInv, JobsOk, JobOk
  <2> QED BY <2>1, JobsKeep DEF CacheInv
<1>2. ReceiptOk'
  BY DEF CacheInv, ReceiptOk
<1>3. \A q \in Procs : (q # p => at'[q] = at[q] /\ job'[q] = job[q]) /\ at'[p] = place
  BY DEF CacheInv, JobsOk, Note, Goto
<1>4. Alone'
  BY <1>3 DEF CacheInv, Alone
<1>5. MarkersOk'
  <2>1. \A q \in Hooks : at[q] = "print" => at'[q] = at[q] /\ job'[q] = job[q]
    BY <1>3 DEF Procs
  <2> QED BY <2>1 DEF CacheInv, MarkersOk
<1> QED BY <1>1, <1>2, <1>4, <1>5

\* The same of a process that goes back to its host.
LEMMA QuietReturn ==
    ASSUME CacheInv, NEW p \in Procs, Return(p), at[p] # "print", Calm' => Calm, ~mixed' => ~mixed,
           UNCHANGED <<docs, receipt, stray, marker, given, cut>>
    PROVE  ReceiptOk' /\ JobsOk' /\ Alone' /\ MarkersOk'
<1>1. Note(p, "idle", NoJob)
  BY DEF Return
<1>2. JobOk(p, "idle", NoJob, docs, Calm')
  BY IdleOk
<1> QED BY <1>1, <1>2, QuietStep DEF Mapping

\* And of one that goes on to look, to lock or to run something.
LEMMA QuietKeep ==
    ASSUME CacheInv, NEW p \in Procs, NEW place \in Plain, Keep(p, place),
           at[p] \in Plain, Calm' => Calm, ~mixed' => ~mixed,
           UNCHANGED <<docs, receipt, stray, marker, given, cut>>
    PROVE  ReceiptOk' /\ JobsOk' /\ Alone' /\ MarkersOk'
<1>1. Note(p, place, job[p])
  BY KeepIsNote DEF CacheInv
<1>2. JobOk(p, place, job[p], docs, Calm')
  BY PlainOk DEF CacheInv
<1> QED BY <1>1, <1>2, QuietStep DEF Mapping, Plain
-----------------------------------------------------------------------------
(* One lemma for each action.                                              *)

Rest == ReceiptOk /\ JobsOk /\ Alone /\ MarkersOk

\* What a process knows that is not idle.
LEMMA Known ==
    ASSUME CacheInv, NEW p \in Procs
    PROVE  /\ job[p] \in JobState /\ JobOk(p, at[p], job[p], docs, Calm)
           /\ at[p] # "idle" => job[p].looked \in Trees /\ (p \in Hooks => job[p].session \in Sessions)
BY DEF CacheInv, JobsOk, JobOk

LEMMA StartHookKeeps == ASSUME CacheInv, NEW p \in Hooks, StartHook(p) PROVE Rest'
<1>1. PICK s \in Sessions, speaks \in BOOLEAN, forced \in BOOLEAN, how \in {"git", "root"} :
          Note(p, "look", [NoJob EXCEPT !.session = s, !.speaks = speaks, !.how = how,
                                        !.forced = forced /\ speaks, !.looked = tree])
  BY DEF StartHook
<1> DEFINE known == [NoJob EXCEPT !.session = s, !.speaks = speaks, !.how = how,
                                  !.forced = forced /\ speaks, !.looked = tree]
<1>2. known \in JobState /\ known.looked \in Trees /\ known.session \in Sessions
  <2>1. (forced /\ speaks) \in BOOLEAN
    OBVIOUS
  <2>2. NoJob \in JobState /\ tree \in Trees
    BY NoJobTyped DEF CacheInv, WorldOk
  <2> QED BY <2>1, <2>2 DEF NoJob, JobState, Looks
<1>2a. known.receipt = Nothing /\ known.how # "bytes"
  BY DEF NoJob
<1> HIDE DEF known
<1>3. JobOk(p, "look", known, docs, Calm')
  BY <1>2, <1>2a DEF JobOk, Places
<1>4. at[p] = "idle" /\ UNCHANGED <<docs, receipt, stray, marker, given, cut, crossed, mixed>>
  BY DEF StartHook, Call, cache, history
<1>5. Note(p, "look", known) /\ p \in Procs
  BY <1>1 DEF known, Procs
<1> QED BY <1>3, <1>4, <1>5, QuietStep DEF Rest, Calm, Mapping

LEMMA StartAgentKeeps == ASSUME CacheInv, NEW p \in Agents, StartAgent(p) PROVE Rest'
<1> DEFINE known == [NoJob EXCEPT !.looked = tree]
<1>1. known \in JobState /\ known.looked \in Trees /\ known.receipt = Nothing /\ known.how = "bytes"
  BY NoJobTyped DEF CacheInv, WorldOk, NoJob, JobState
<1>2. Note(p, "resolve", known) /\ p \in Procs /\ p \notin Hooks
  BY MapperAssumption DEF StartAgent, Procs
<1> HIDE DEF known
<1>3. JobOk(p, "resolve", known, docs, Calm')
  BY <1>1, <1>2 DEF JobOk, Places
<1>4. at[p] = "idle" /\ UNCHANGED <<docs, receipt, stray, marker, given, cut, crossed, mixed>>
  BY DEF StartAgent, Call, cache, history
<1> QED BY <1>2, <1>3, <1>4, QuietStep DEF Rest, Calm, Mapping

LEMMA ResolveKeeps == ASSUME CacheInv, NEW p \in Agents, Resolve(p) PROVE Rest'
<1>1. p \in Procs /\ p \notin Hooks
  BY MapperAssumption DEF Procs
<1>2. at[p] = "resolve" /\ UNCHANGED <<docs, receipt, stray, marker, given, cut, crossed, mixed>>
  BY DEF Resolve, cache, history
<1>3. CASE Return(p)
  BY <1>1, <1>2, <1>3, QuietReturn DEF Rest, Calm
<1>4. CASE Note(p, "look", [job[p] EXCEPT !.mapper = mapper])
  <2> DEFINE known == [job[p] EXCEPT !.mapper = mapper]
  <2>1. /\ known \in JobState /\ known.looked \in Trees /\ known.receipt = job[p].receipt
        /\ known.how = job[p].how
    BY <1>1, <1>2, Known DEF CacheInv, WorldOk, JobState
  <2> HIDE DEF known
  <2>2. JobOk(p, "look", known, docs, Calm')
    BY <1>1, <1>2, <2>1, Known DEF JobOk, Places
  <2>3. Note(p, "look", known)
    BY <1>4 DEF known
  <2> QED BY <1>1, <1>2, <2>2, <2>3, QuietStep DEF Rest, Calm, Mapping
<1> QED BY <1>3, <1>4 DEF Resolve

\* A usable receipt in hand.
LEMMA InHand ==
    ASSUME CacheInv, NEW p \in Procs, at[p] # "idle", Usable(p, receipt),
           NEW place \in {"deliver", "unlock"}
    PROVE  JobOk(p, place, [job[p] EXCEPT !.receipt = receipt], docs, Calm)
<1> DEFINE known == [job[p] EXCEPT !.receipt = receipt]
<1>1. receipt \in Receipts
  BY UsableFits
<1>2. /\ known \in JobState /\ known.receipt = receipt
      /\ known.looked = job[p].looked /\ known.how = job[p].how /\ known.session = job[p].session
  BY <1>1, Known DEF JobState
<1> HIDE DEF known
<1>3. Held(p, known, Calm)
  BY <1>1, <1>2, UsableFits DEF Held, Fits
<1> QED BY <1>2, <1>3, Known DEF JobOk, Places, known

LEMMA LookKeeps == ASSUME CacheInv, NEW p \in Procs, Look(p) PROVE Rest'
<1>1. at[p] = "look" /\ UNCHANGED <<docs, receipt, stray, marker, given, cut, crossed, mixed>>
  BY DEF Look, cache, history
<1>2. CASE Usable(p, receipt)
  <2>1. Note(p, "deliver", [job[p] EXCEPT !.receipt = receipt])
    BY <1>2 DEF Look
  <2>2. JobOk(p, "deliver", [job[p] EXCEPT !.receipt = receipt], docs, Calm)
    BY <1>1, <1>2, InHand
  <2> QED BY <1>1, <2>1, <2>2, QuietStep DEF Rest, Calm, Mapping
<1>3. CASE ~Usable(p, receipt)
  <2>1. Keep(p, "lock") \/ Keep(p, "python")
    BY <1>3 DEF Look
  <2> QED BY <1>1, <2>1, QuietKeep DEF Rest, Calm, Plain
<1> QED BY <1>2, <1>3

LEMMA LockKeeps == ASSUME CacheInv, NEW p \in Procs, Lock(p) \/ Steal(p) PROVE Rest'
<1>1. /\ at[p] \in {"lock", "steal"}
      /\ UNCHANGED <<docs, receipt, stray, marker, given, cut, crossed, mixed>>
  BY DEF Lock, Steal, history
<1>2. Return(p) \/ \E place \in Plain : Keep(p, place)
  BY DEF Lock, Steal, Plain
<1>3. CASE Return(p)
  BY <1>1, <1>3, QuietReturn DEF Rest, Calm
<1>4. CASE \E place \in Plain : Keep(p, place)
  <2>1. PICK place \in Plain : Keep(p, place)
    BY <1>4
  <2>2. at[p] \in Plain
    BY <1>1 DEF Plain
  <2> QED BY <1>1, <2>1, <2>2, QuietKeep DEF Rest, Calm
<1> QED BY <1>2, <1>3, <1>4

LEMMA LookAgainKeeps == ASSUME CacheInv, NEW p \in Procs, LookAgain(p) PROVE Rest'
<1>1. at[p] = "again" /\ UNCHANGED <<docs, receipt, stray, marker, given, cut, crossed, mixed>>
  BY DEF LookAgain, cache, history
<1>2. CASE Usable(p, receipt)
  <2>1. Note(p, "unlock", [job[p] EXCEPT !.receipt = receipt])
    BY <1>2 DEF LookAgain
  <2>2. JobOk(p, "unlock", [job[p] EXCEPT !.receipt = receipt], docs, Calm)
    BY <1>1, <1>2, InHand
  <2> QED BY <1>1, <2>1, <2>2, QuietStep DEF Rest, Calm, Mapping
<1>3. CASE ~Usable(p, receipt)
  <2>1. Keep(p, "runtime")
    BY <1>3 DEF LookAgain
  <2> QED BY <1>1, <2>1, QuietKeep DEF Rest, Calm, Plain
<1> QED BY <1>2, <1>3

LEMMA UnlockKeeps == ASSUME CacheInv, NEW p \in Procs, Unlock(p) PROVE Rest'
<1>1. at[p] = "unlock" /\ UNCHANGED <<docs, receipt, stray, marker, given, cut, crossed, mixed>>
  BY DEF Unlock, history
<1>2. CASE Return(p)
  BY <1>1, <1>2, QuietReturn DEF Rest, Calm
<1>3. CASE job[p].receipt # Nothing /\ Keep(p, "deliver")
  <2>1. Note(p, "deliver", job[p])
    BY <1>3, KeepIsNote DEF CacheInv
  <2>2. JobOk(p, "deliver", job[p], docs, Calm)
    BY <1>1, <1>3, Known DEF JobOk, Places
  <2> QED BY <1>1, <2>1, <2>2, QuietStep DEF Rest, Calm, Mapping
<1> QED BY <1>2, <1>3 DEF Unlock

\* A text that is made now fits what was looked at, unless that is called crossed.
LEMMA MadeNow ==
    ASSUME CacheInv, NEW p \in Procs, at[p] \in {"runtime", "python"}, Crossing(p),
           NEW by \in {Runtime} \cup (0..MaxEvents), NEW place \in {"replace", "writing"}
    PROVE  JobOk(p, place, [job[p] EXCEPT !.text = [of |-> tree, by |-> by]], docs, Calm')
<1> DEFINE text == [of |-> tree, by |-> by]
           known == [job[p] EXCEPT !.text = text]
<1>1. text \in Texts /\ text.of = tree
  BY DEF CacheInv, WorldOk, Texts
<1>2. /\ known \in JobState /\ known.text = text
      /\ known.looked = job[p].looked /\ known.how = job[p].how /\ known.session = job[p].session
      /\ known.receipt = job[p].receipt
  BY <1>1, Known DEF JobState
<1> HIDE DEF known, text
<1>3. Calm' => Fits(text, known)
  BY <1>1, <1>2 DEF Crossing, Calm, Fits, LookedFor
<1> QED BY <1>1, <1>2, <1>3, Known DEF JobOk, Places, known, text

LEMMA RunRuntimeKeeps == ASSUME CacheInv, NEW p \in Procs, RunRuntime(p) PROVE Rest'
<1>1. at[p] = "runtime" /\ UNCHANGED <<docs, receipt, stray, marker, given, cut, mixed>>
  BY DEF RunRuntime, cache
<1>2. CASE /\ Note(p, "replace", [job[p] EXCEPT !.text = [of |-> tree, by |-> Runtime]])
           /\ Crossing(p)
  <2>1. JobOk(p, "replace", [job[p] EXCEPT !.text = [of |-> tree, by |-> Runtime]], docs, Calm')
    BY <1>1, <1>2, MadeNow
  <2>2. Calm' => Calm
    BY <1>1, <1>2 DEF Crossing, Calm
  <2> QED BY <1>1, <1>2, <2>1, <2>2, QuietStep DEF Rest, Mapping
<1>3. CASE Keep(p, "python") /\ UNCHANGED crossed
  BY <1>1, <1>3, QuietKeep DEF Rest, Calm, Plain
<1> QED BY <1>2, <1>3 DEF RunRuntime

LEMMA GiveUpKeeps ==
    ASSUME CacheInv, NEW p \in Procs, GiveUp(p), at[p] \in {"python", "writing"},
           UNCHANGED <<docs, receipt, stray, marker, given, cut, crossed, mixed>>
    PROVE  Rest'
<1>1. CASE p \in Hooks
  <2> DEFINE known == [job[p] EXCEPT !.text = Nothing]
  <2>1. Note(p, "unlock", known)
    BY <1>1 DEF GiveUp
  <2>2. /\ known \in JobState /\ known.receipt = job[p].receipt
        /\ known.looked = job[p].looked /\ known.how = job[p].how /\ known.session = job[p].session
    BY Known DEF JobState
  <2> HIDE DEF known
  <2>3. ASSUME known.receipt # Nothing PROVE Held(p, known, Calm)
    BY <2>2, <2>3, Known DEF JobOk
  <2>4. JobOk(p, "unlock", known, docs, Calm)
    BY <2>2, <2>3, Known DEF JobOk, Places
  <2> QED BY <2>1, <2>4, QuietStep DEF Rest, Calm, Mapping
<1>2. CASE p \notin Hooks
  BY <1>2, QuietReturn DEF Rest, Calm, GiveUp
<1> QED BY <1>1, <1>2

LEMMA RunPythonKeeps == ASSUME CacheInv, NEW p \in Procs, RunPython(p) PROVE Rest'
<1>1. at[p] = "python" /\ UNCHANGED <<docs, receipt, stray, marker, given, cut>>
  BY DEF RunPython, cache
<1>2. CASE GiveUp(p) /\ UNCHANGED <<crossed, mixed>>
  BY <1>1, <1>2, GiveUpKeeps
<1>3. CASE /\ Note(p, "writing", [job[p] EXCEPT !.text = [of |-> tree, by |-> mapper]])
           /\ Crossing(p)
           /\ mixed' = (mixed \/ stray # Nothing
                              \/ \E q \in Procs \ {p} : at[q] \in {"writing", "read"})
  <2>1. JobOk(p, "writing", [job[p] EXCEPT !.text = [of |-> tree, by |-> mapper]], docs, Calm')
    BY <1>1, <1>3, MadeNow DEF CacheInv, WorldOk
  <2>2. Calm' => Calm
    BY <1>3 DEF Crossing, Calm
  <2>3. \A q \in Procs : q # p /\ at[q] = "read" => docs' \in Texts /\ (Calm' => docs' = docs)
    BY <1>1 DEF CacheInv, JobsOk, JobOk
  <2>4. JobsOk'
    BY <1>1, <1>3, <2>1, <2>2, <2>3, JobsKeep DEF CacheInv
  <2>5. ReceiptOk'
    BY <1>1, <2>2 DEF CacheInv, ReceiptOk
  <2>6. \A q \in Procs : q # p => at'[q] = at[q] /\ job'[q] = job[q]
    BY <1>3 DEF CacheInv, JobsOk, Note, Goto
  <2>7. Alone'
    BY <1>1, <1>3, <2>6 DEF Alone, Mapping
  <2>8. MarkersOk'
    <3>1. \A q \in Hooks : at[q] = "print" => at'[q] = at[q] /\ job'[q] = job[q]
      BY <1>1, <2>6 DEF Procs
    <3> QED BY <1>1, <3>1 DEF CacheInv, MarkersOk
  <2> QED BY <2>4, <2>5, <2>7, <2>8 DEF Rest
<1> QED BY <1>2, <1>3 DEF RunPython

LEMMA PythonWritesKeeps == ASSUME CacheInv, NEW p \in Procs, PythonWrites(p) PROVE Rest'
<1>1. at[p] = "writing" /\ UNCHANGED <<receipt, stray, marker, given, cut, crossed, mixed>>
  BY DEF PythonWrites, history
<1>2. CASE GiveUp(p) /\ UNCHANGED docs
  BY <1>1, <1>2, GiveUpKeeps
<1>3. CASE docs' = job[p].text /\ Note(p, "read", [job[p] EXCEPT !.text = Nothing])
  <2> DEFINE known == [job[p] EXCEPT !.text = Nothing]
  <2>1. /\ known \in JobState /\ known.receipt = job[p].receipt
        /\ known.looked = job[p].looked /\ known.how = job[p].how /\ known.session = job[p].session
    BY Known DEF JobState
  <2>2. Note(p, "read", known)
    BY <1>3
  <2> HIDE DEF known
  <2>3. docs' \in Texts /\ (Calm => Fits(docs', known))
    BY <1>1, <1>3, <2>1, Known DEF JobOk, Fits
  <2>4. JobOk(p, "read", known, docs', Calm')
    BY <1>1, <2>1, <2>3, Known DEF JobOk, Places, Calm
  <2>5. ASSUME NEW q \in Procs, q # p, at[q] = "read" PROVE docs' \in Texts /\ (Calm' => docs' = docs)
    BY <1>1, <2>3, <2>5 DEF CacheInv, Alone, Mapping, Calm
  <2>6. JobsOk'
    BY <1>1, <2>2, <2>4, <2>5, JobsKeep DEF CacheInv, Calm
  <2>7. ReceiptOk'
    BY <1>1 DEF CacheInv, ReceiptOk, Calm
  <2>8. at'[p] = "read" /\ \A q \in Procs : q # p => at'[q] = at[q] /\ job'[q] = job[q]
    BY <2>2 DEF CacheInv, JobsOk, Note, Goto
  <2>9. Alone'
    BY <1>1, <2>8 DEF CacheInv, Alone, Mapping
  <2>10. MarkersOk'
    <3>1. \A q \in Hooks : at[q] = "print" => at'[q] = at[q] /\ job'[q] = job[q]
      BY <1>1, <2>8 DEF Procs
    <3> QED BY <1>1, <3>1 DEF CacheInv, MarkersOk
  <2> QED BY <2>6, <2>7, <2>9, <2>10 DEF Rest
<1> QED BY <1>2, <1>3 DEF PythonWrites

LEMMA ReadDocsKeeps == ASSUME CacheInv, NEW p \in Procs, ReadDocs(p) PROVE Rest'
<1> DEFINE known == [job[p] EXCEPT !.text = docs]
<1>1. /\ at[p] = "read" /\ Note(p, "replace", known)
      /\ UNCHANGED <<docs, receipt, stray, marker, given, cut, crossed, mixed>>
  BY DEF ReadDocs, cache, history
<1>2. docs \in Texts /\ (Calm => Fits(docs, job[p]))
  BY <1>1, Known DEF JobOk
<1>3. /\ known \in JobState /\ known.receipt = job[p].receipt /\ known.text = docs
      /\ known.looked = job[p].looked /\ known.how = job[p].how /\ known.session = job[p].session
  BY <1>2, Known DEF JobState
<1> HIDE DEF known
<1>4. JobOk(p, "replace", known, docs, Calm)
  BY <1>1, <1>2, <1>3, Known DEF JobOk, Places, Fits
<1> QED BY <1>1, <1>4, QuietStep DEF Rest, Calm, Mapping

LEMMA ReplaceKeeps == ASSUME CacheInv, NEW p \in Procs, Replace(p) PROVE Rest'
<1>1. /\ at[p] = "replace" /\ Keep(p, "record")
      /\ UNCHANGED <<docs, receipt, stray, marker, given, cut, crossed, mixed>>
  BY DEF Replace, history
<1>2. Note(p, "record", job[p])
  BY <1>1, KeepIsNote DEF CacheInv
<1>3. JobOk(p, "record", job[p], docs, Calm)
  BY <1>1, Known DEF JobOk, Places
<1> QED BY <1>1, <1>2, <1>3, QuietStep DEF Rest, Calm, Mapping

LEMMA RecordMapKeeps == ASSUME CacheInv, NEW p \in Procs, RecordMap(p) PROVE Rest'
<1> DEFINE known == [job[p] EXCEPT !.receipt = ReceiptOf(p), !.text = Nothing]
           place == IF p \in Hooks THEN "unlock" ELSE "deliver"
<1>1. /\ at[p] = "record" /\ receipt' = ReceiptOf(p) /\ Note(p, place, known)
      /\ UNCHANGED <<docs, stray, marker, given, cut, crossed, mixed>>
  BY DEF RecordMap, history
<1>2. /\ known \in JobState /\ known.receipt = ReceiptOf(p)
      /\ known.looked = job[p].looked /\ known.how = job[p].how /\ known.session = job[p].session
  BY <1>1, ReceiptMade, Known DEF JobState
<1> HIDE DEF known
<1>3. Held(p, known, Calm)
  BY <1>1, <1>2, ReceiptMade DEF Held, Fits
<1>4. JobOk(p, place, known, docs', Calm')
  BY <1>1, <1>2, <1>3, Known DEF JobOk, Places, Calm
<1>5. \A q \in Procs : q # p /\ at[q] = "read" => docs' \in Texts /\ (Calm' => docs' = docs)
  BY <1>1 DEF CacheInv, JobsOk, JobOk
<1>6. JobsOk'
  BY <1>1, <1>4, <1>5, JobsKeep DEF CacheInv, Calm
<1>7. ReceiptOk'
  BY <1>1, ReceiptMade DEF ReceiptOk, Calm
<1>8. at'[p] = place /\ \A q \in Procs : q # p => at'[q] = at[q] /\ job'[q] = job[q]
  BY <1>1 DEF CacheInv, JobsOk, Note, Goto
<1>9. Alone'
  BY <1>1, <1>8 DEF CacheInv, Alone, Mapping
<1>10. MarkersOk'
  <2>1. \A q \in Hooks : at[q] = "print" => at'[q] = at[q] /\ job'[q] = job[q]
    BY <1>1, <1>8 DEF Procs
  <2> QED BY <1>1, <2>1 DEF CacheInv, MarkersOk
<1> QED BY <1>6, <1>7, <1>9, <1>10 DEF Rest

LEMMA DeliverHookKeeps == ASSUME CacheInv, NEW p \in Hooks, DeliverHook(p) PROVE Rest'
<1>0. p \in Procs
  BY DEF Procs
<1>1. at[p] = "deliver" /\ UNCHANGED <<docs, receipt, stray, given, cut, crossed, mixed>>
  BY DEF DeliverHook, cache, history
<1>2. CASE Return(p) /\ UNCHANGED marker
  BY <1>0, <1>1, <1>2, QuietReturn DEF Rest, Calm
<1>3. CASE marker' = [marker EXCEPT ![job[p].session] = job[p].receipt] /\ Keep(p, "print")
  <2>1. Note(p, "print", job[p])
    BY <1>0, <1>3, KeepIsNote DEF CacheInv
  <2>2. JobOk(p, "print", job[p], docs', Calm')
    BY <1>0, <1>1, Known DEF JobOk, Places, Calm
  <2>3. \A q \in Procs : q # p /\ at[q] = "read" => docs' \in Texts /\ (Calm' => docs' = docs)
    BY <1>1 DEF CacheInv, JobsOk, JobOk
  <2>4. JobsOk'
    BY <1>0, <1>1, <2>1, <2>2, <2>3, JobsKeep DEF CacheInv, Calm
  <2>5. ReceiptOk'
    BY <1>1 DEF CacheInv, ReceiptOk, Calm
  <2>6. /\ at'[p] = "print" /\ job'[p] = job[p]
        /\ \A q \in Procs : q # p => at'[q] = at[q] /\ job'[q] = job[q]
    BY <1>0, <2>1 DEF CacheInv, JobsOk, Note, Goto
  <2>7. Alone'
    BY <1>0, <1>1, <2>6 DEF CacheInv, Alone, Mapping
  <2>8. job[p].session \in Sessions /\ job[p].receipt \in Receipts /\ job[p].receipt.mapper = Nothing
    BY <1>0, <1>1, Known DEF JobOk, Held
  <2>9. MarkersOk'
    <3>1. marker' \in [Sessions -> Receipts \cup {Nothing}]
      BY <1>3, <2>8 DEF CacheInv, MarkersOk
    <3>2. ASSUME NEW s \in Sessions, marker'[s] # Nothing
          PROVE  /\ marker'[s] \in Receipts /\ marker'[s].mapper = Nothing
                 /\ \/ s \in cut \/ marker'[s] \in given[s]
                    \/ \E q \in Hooks : /\ at'[q] = "print" /\ job'[q].session = s
                                         /\ job'[q].receipt = marker'[s]
      <4>1. CASE s = job[p].session
        <5>1. marker'[s] = job[p].receipt
          BY <1>3, <2>8, <4>1 DEF CacheInv, MarkersOk
        <5> QED BY <2>6, <2>8, <4>1, <5>1
      <4>2. CASE s # job[p].session
        <5>1. marker'[s] = marker[s]
          BY <1>3, <4>2 DEF CacheInv, MarkersOk
        <5>2. \A q \in Hooks : at[q] = "print" => at'[q] = at[q] /\ job'[q] = job[q]
          BY <1>1, <2>6 DEF Procs
        <5> QED BY <3>2, <5>1, <5>2 DEF CacheInv, MarkersOk
      <4> QED BY <4>1, <4>2
    <3> QED BY <1>1, <3>1, <3>2 DEF CacheInv, MarkersOk
  <2> QED BY <2>4, <2>5, <2>7, <2>9 DEF Rest
<1> QED BY <1>2, <1>3 DEF DeliverHook

LEMMA DeliverAgentKeeps == ASSUME CacheInv, NEW p \in Agents, DeliverAgent(p) PROVE Rest'
<1>1. /\ p \in Procs /\ at[p] = "deliver" /\ Return(p)
      /\ UNCHANGED <<docs, receipt, stray, marker, given, cut, crossed, mixed>>
  BY DEF DeliverAgent, cache, history, Procs
<1> QED BY <1>1, QuietReturn DEF Rest, Calm

\* A process that was printing, or is killed: what is not printed was cut off.
LEMMA LeaveKeeps ==
    ASSUME CacheInv, NEW p \in Procs, Return(p), UNCHANGED <<docs, receipt, marker, crossed, mixed>>,
           stray' = stray \/ (at[p] = "writing" /\ stray' = job[p].text),
           given' \in [Sessions -> SUBSET Receipts], \A s \in Sessions : given[s] \subseteq given'[s],
           cut \subseteq cut',
           at[p] = "print" => job[p].session \in cut' \/ job[p].receipt \in given'[job[p].session]
    PROVE  Rest'
<1>1. Note(p, "idle", NoJob)
  BY DEF Return
<1>2. JobsOk'
  <2>1. \A q \in Procs : q # p /\ at[q] = "read" => docs' \in Texts /\ (Calm' => docs' = docs)
    BY DEF CacheInv, JobsOk, JobOk
  <2>2. JobOk(p, "idle", NoJob, docs', Calm')
    BY IdleOk
  <2> QED BY <1>1, <2>1, <2>2, JobsKeep DEF CacheInv, Calm
<1>3. ReceiptOk'
  BY DEF CacheInv, ReceiptOk, Calm
<1>4. at'[p] = "idle" /\ \A q \in Procs : q # p => at'[q] = at[q] /\ job'[q] = job[q]
  BY <1>1 DEF CacheInv, JobsOk, Note, Goto
<1>5. Alone'
  <2> SUFFICES ASSUME ~mixed, NEW q \in Procs, at'[q] \in Mapping
               PROVE  stray' = Nothing /\ \A r \in Procs : at'[r] \in Mapping => r = q
    BY DEF Alone
  <2>1. q # p /\ at[q] \in Mapping
    BY <1>4 DEF Mapping
  <2>2. at[p] \notin Mapping
    BY <2>1 DEF CacheInv, Alone
  <2> QED BY <1>4, <2>1, <2>2 DEF CacheInv, Alone, Mapping
<1>6. MarkersOk'
  <2> SUFFICES ASSUME NEW s \in Sessions, marker[s] # Nothing
               PROVE  \/ s \in cut' \/ marker[s] \in given'[s]
                      \/ \E q \in Hooks : /\ at'[q] = "print" /\ job'[q].session = s
                                           /\ job'[q].receipt = marker[s]
    BY DEF CacheInv, MarkersOk
  <2>1. CASE s \in cut \/ marker[s] \in given[s]
    BY <2>1
  <2>2. CASE \E q \in Hooks : /\ at[q] = "print" /\ job[q].session = s
                               /\ job[q].receipt = marker[s]
    <3>1. PICK q \in Hooks : at[q] = "print" /\ job[q].session = s /\ job[q].receipt = marker[s]
      BY <2>2
    <3>2. CASE q = p
      BY <3>1, <3>2
    <3>3. CASE q # p
      BY <1>4, <3>1, <3>3 DEF Procs
    <3> QED BY <3>2, <3>3
  <2> QED BY <2>1, <2>2 DEF CacheInv, MarkersOk
<1> QED BY <1>2, <1>3, <1>5, <1>6 DEF Rest

LEMMA EmitContextKeeps == ASSUME CacheInv, NEW p \in Hooks, EmitContext(p) PROVE Rest'
<1> DEFINE s == job[p].session
           r == job[p].receipt
<1>1. /\ p \in Procs /\ at[p] = "print" /\ Return(p)
      /\ given' = [given EXCEPT ![s] = @ \cup {r}]
      /\ UNCHANGED <<docs, receipt, stray, marker, cut, crossed, mixed>>
  BY DEF EmitContext, cache, Procs
<1>2. s \in Sessions /\ r \in Receipts
  BY <1>1, Known DEF JobOk, Held
<1> HIDE DEF s, r
<1>3. /\ given' \in [Sessions -> SUBSET Receipts] /\ r \in given'[s]
      /\ \A u \in Sessions : given[u] \subseteq given'[u]
  BY <1>1, <1>2 DEF CacheInv, MarkersOk
<1> QED BY <1>1, <1>3, LeaveKeeps DEF s, r

LEMMA KillKeeps == ASSUME CacheInv, NEW p \in Procs, Kill(p) PROVE Rest'
<1>1. /\ Return(p) /\ UNCHANGED <<docs, receipt, marker, crossed, mixed, given>>
      /\ stray' = stray \/ (at[p] = "writing" /\ stray' = job[p].text)
      /\ cut \subseteq cut' /\ (at[p] = "print" => job[p].session \in cut')
  BY DEF Kill, cache
<1> QED BY <1>1, LeaveKeeps DEF CacheInv, MarkersOk

LEMMA StrayWritesKeeps == ASSUME CacheInv, StrayWrites PROVE Rest'
<1>1. /\ stray # Nothing /\ docs' = stray /\ stray' = Nothing
      /\ mixed' = (mixed \/ \E q \in Procs : at[q] \in {"writing", "read"})
      /\ UNCHANGED <<receipt, given, cut, crossed, marker, at, job>>
  BY DEF StrayWrites
<1>2. docs' \in Texts
  BY <1>1 DEF CacheInv, WorldOk
<1>3. (Calm' => Calm) /\ (~mixed' => ~mixed)
  BY <1>1 DEF Calm
<1>4. JobsOk'
  <2> SUFFICES ASSUME NEW q \in Procs PROVE JobOk(q, at[q], job[q], docs', Calm')
    BY <1>1 DEF CacheInv, JobsOk
  <2>1. Calm' => at[q] # "read"
    BY <1>1 DEF Calm
  <2> QED BY <1>2, <1>3, <2>1, Known DEF JobOk, Held
<1>5. ReceiptOk'
  BY <1>1, <1>3 DEF CacheInv, ReceiptOk
<1>6. Alone'
  BY <1>1, <1>3 DEF CacheInv, Alone
<1>7. MarkersOk'
  BY <1>1 DEF CacheInv, MarkersOk
<1> QED BY <1>4, <1>5, <1>6, <1>7 DEF Rest

\* The surroundings: what a process looked at stays what it looked at.
LEMMA SurroundingsKeep == ASSUME CacheInv, LockAges \/ Edit \/ Upgrade PROVE Rest'
<1>1. UNCHANGED <<docs, receipt, given, cut, crossed, mixed, marker, at, job, stray>>
  BY DEF LockAges, Edit, Upgrade, cache, history
<1> QED BY <1>1 DEF CacheInv, Rest, ReceiptOk, JobsOk, Alone, MarkersOk, Calm, JobOk, Held, Fits, Generation
-----------------------------------------------------------------------------
(* What the files hold.                                                    *)

\* What a step of one process may put there.
Moves(p) ==
    /\ tree' = tree /\ mapper' = mapper
    /\ events' = events \/ (events < MaxEvents /\ events' = events + 1)
    /\ docs' = docs \/ (at[p] = "writing" /\ docs' = job[p].text)
    /\ mapFile' = mapFile \/ (at[p] = "replace" /\ mapFile' = job[p].text)
    /\ lock' \in {lock, Nothing} \/ (p \in Hooks /\ lock' = [by |-> p, old |-> FALSE])
    /\ stray' = stray \/ (at[p] = "writing" /\ stray' = job[p].text)
    /\ cut' = cut \/ (at[p] = "print" /\ cut' = cut \cup {job[p].session})
    /\ crossed' = crossed \/ Crossing(p)
    /\ mixed' = mixed \/ mixed' = (mixed \/ stray # Nothing
                                         \/ \E q \in Procs \ {p} : at[q] \in {"writing", "read"})

LEMMA EachMoves ==
    ASSUME NEW p \in Procs, (p \in Hooks /\ HookStep(p)) \/ AgentStep(p) \/ Kill(p)
    PROVE  Moves(p)
<1> USE DEF Moves, cache, world, surroundings, history
<1>1. CASE Kill(p)
  BY <1>1 DEF Kill, Event
<1>2. CASE (p \in Hooks /\ StartHook(p)) \/ StartAgent(p) \/ Resolve(p) \/ Look(p)
  BY <1>2 DEF StartHook, StartAgent, Resolve, Look, Event
<1>3. CASE p \in Hooks /\ (Lock(p) \/ Steal(p) \/ LookAgain(p) \/ Unlock(p))
  BY <1>3 DEF Lock, Steal, LookAgain, Unlock
<1>4. CASE RunRuntime(p) \/ RunPython(p) \/ PythonWrites(p) \/ ReadDocs(p)
  BY <1>4 DEF RunRuntime, RunPython, PythonWrites, ReadDocs
<1>5. CASE Replace(p) \/ RecordMap(p) \/ DeliverHook(p) \/ EmitContext(p) \/ DeliverAgent(p)
  BY <1>5 DEF Replace, RecordMap, DeliverHook, EmitContext, DeliverAgent
<1> QED BY <1>1, <1>2, <1>3, <1>4, <1>5 DEF HookStep, AgentStep

LEMMA MovesKeep == ASSUME CacheInv, NEW p \in Procs, Moves(p) PROVE WorldOk'
<1>1. job[p].text \in Texts \cup {Nothing}
  BY Known DEF JobState
<1>2. at[p] = "print" => job[p].session \in Sessions
  BY Known DEF JobOk
<1>3. /\ tree' \in Trees /\ mapper' \in 0..MaxEvents /\ events' \in 0..MaxEvents
      /\ mapper' <= events' /\ tree'.root <= events'
  BY MapperAssumption DEF CacheInv, WorldOk, Moves, Trees
<1>4. /\ docs' \in Texts \cup {Nothing} /\ mapFile' \in Texts \cup {Nothing}
      /\ stray' \in Texts \cup {Nothing}
  BY <1>1 DEF CacheInv, WorldOk, Moves
<1>5. lock' \in [by : Hooks, old : BOOLEAN] \cup {Nothing}
  <2>1. p \in Hooks => [by |-> p, old |-> FALSE] \in [by : Hooks, old : BOOLEAN]
    OBVIOUS
  <2>2. lock' \in {lock, Nothing} \/ (p \in Hooks /\ lock' = [by |-> p, old |-> FALSE])
    BY DEF Moves
  <2> QED BY <2>1, <2>2 DEF CacheInv, WorldOk
<1>6. cut' \subseteq Sessions
  BY <1>2 DEF CacheInv, WorldOk, Moves
<1>7. crossed' \in BOOLEAN
  BY Zenon DEF CacheInv, WorldOk, Moves, Crossing
<1>8. mixed' \in BOOLEAN
  BY Zenon DEF CacheInv, WorldOk, Moves
<1> QED BY <1>3, <1>4, <1>5, <1>6, <1>7, <1>8 DEF WorldOk

LEMMA SurroundingsMove == ASSUME CacheInv, LockAges \/ Edit \/ Upgrade \/ StrayWrites PROVE WorldOk'
<1> USE DEF CacheInv, WorldOk, cache, history, world, surroundings
<1>1. CASE LockAges
  <2>1. lock' \in [by : Hooks, old : BOOLEAN]
    BY <1>1 DEF LockAges
  <2>2. events' \in 0..MaxEvents /\ mapper' <= events' /\ tree'.root <= events'
    BY <1>1, MapperAssumption DEF LockAges, Event, Trees
  <2> QED BY <1>1, <2>1, <2>2 DEF LockAges
<1>2. CASE Edit
  <2>1. /\ events \in 0..MaxEvents /\ events < MaxEvents /\ events' = events + 1
        /\ MaxEvents \in Nat /\ mapper' = mapper
        /\ UNCHANGED <<docs, mapFile, lock, stray, cut, crossed, mixed>>
    BY <1>2, MapperAssumption DEF Edit, Event
  <2>2. tree' \in Trees /\ tree'.root <= events'
    <3>1. /\ tree.shown \in {0, 1} /\ tree.hidden \in {0, 1} /\ tree.root \in 0..MaxEvents
          /\ tree.root <= events /\ tree \in Trees
      BY DEF Trees
    <3>2. 1 - tree.shown \in {0, 1} /\ 1 - tree.hidden \in {0, 1} /\ tree.root + 1 \in 0..MaxEvents
      BY <2>1, <3>1
    <3>3. CASE tree' = [tree EXCEPT !.shown = 1 - @]
      BY <2>1, <3>1, <3>2, <3>3 DEF Trees
    <3>4. CASE tree' = [tree EXCEPT !.hidden = 1 - @]
      BY <2>1, <3>1, <3>2, <3>4 DEF Trees
    <3>5. CASE tree' = [tree EXCEPT !.shown = 1 - @, !.root = @ + 1]
      <4>1. tree' = [shown |-> 1 - tree.shown, hidden |-> tree.hidden, root |-> tree.root + 1]
        BY <3>1, <3>5 DEF Trees
      <4>2. tree'.root = tree.root + 1 /\ tree.root + 1 <= events + 1
        BY <2>1, <3>1, <4>1
      <4> QED BY <2>1, <3>1, <3>2, <4>1, <4>2 DEF Trees
    <3> QED BY <1>2, <3>3, <3>4, <3>5 DEF Edit
  <2> QED BY <1>2, <2>1, <2>2 DEF Edit
<1>3. CASE Upgrade
  <2>1. /\ events' \in 0..MaxEvents /\ mapper' \in 0..MaxEvents
        /\ mapper' <= events' /\ tree'.root <= events'
    BY <1>3, MapperAssumption DEF Upgrade, Event, Trees
  <2> QED BY <1>3, <2>1 DEF Upgrade
<1>4. CASE StrayWrites
  BY <1>4 DEF StrayWrites
<1> QED BY <1>1, <1>2, <1>3, <1>4
-----------------------------------------------------------------------------
(* The theorems.                                                           *)

LEMMA InitCacheInv == Init => CacheInv
<1> SUFFICES ASSUME Init PROVE CacheInv
  OBVIOUS
<1>1. WorldOk
  <2>1. tree \in Trees /\ tree.root = 0 /\ 0 \in 0..MaxEvents /\ 0 <= 0
    BY MapperAssumption DEF Init, Trees
  <2> QED BY <2>1 DEF Init, WorldOk
<1>2. ReceiptOk /\ Alone /\ MarkersOk
  BY DEF Init, ReceiptOk, Alone, Mapping, MarkersOk
<1>3. JobsOk
  BY NoJobTyped, IdleOk DEF Init, JobsOk, Places
<1> QED BY <1>1, <1>2, <1>3 DEF CacheInv

LEMMA NextCacheInv == CacheInv /\ [Next]_vars => CacheInv'
<1> SUFFICES ASSUME CacheInv, [Next]_vars PROVE WorldOk' /\ Rest'
  BY DEF CacheInv, Rest
<1>1. ASSUME NEW p \in Hooks, HookStep(p) PROVE WorldOk' /\ Rest'
  <2>1. p \in Procs
    BY DEF Procs
  <2>2. WorldOk'
    BY <1>1, <2>1, EachMoves, MovesKeep
  <2>3. Rest'
    BY <1>1, <2>1, StartHookKeeps, LookKeeps, LockKeeps, LookAgainKeeps, UnlockKeeps, RunRuntimeKeeps,
       RunPythonKeeps, PythonWritesKeeps, ReadDocsKeeps, ReplaceKeeps, RecordMapKeeps,
       DeliverHookKeeps, EmitContextKeeps DEF HookStep
  <2> QED BY <2>2, <2>3
<1>2. ASSUME NEW p \in Agents, AgentStep(p) PROVE WorldOk' /\ Rest'
  <2>1. p \in Procs
    BY DEF Procs
  <2>2. WorldOk'
    BY <1>2, <2>1, EachMoves, MovesKeep
  <2>3. Rest'
    BY <1>2, <2>1, StartAgentKeeps, ResolveKeeps, LookKeeps, RunPythonKeeps, PythonWritesKeeps,
       ReadDocsKeeps, ReplaceKeeps, RecordMapKeeps, DeliverAgentKeeps DEF AgentStep
  <2> QED BY <2>2, <2>3
<1>3. ASSUME NEW p \in Procs, Kill(p) PROVE WorldOk' /\ Rest'
  BY <1>3, EachMoves, MovesKeep, KillKeeps
<1>4. CASE LockAges \/ Edit \/ Upgrade \/ StrayWrites
  BY <1>4, SurroundingsMove, SurroundingsKeep, StrayWritesKeeps
<1>5. CASE UNCHANGED vars
  <2> USE <1>5 DEF vars, cache, history, world, surroundings
  <2>1. WorldOk'
    BY DEF CacheInv, WorldOk
  <2>2. ReceiptOk' /\ Alone' /\ MarkersOk'
    BY DEF CacheInv, ReceiptOk, Alone, MarkersOk, Calm
  <2>3. JobsOk'
    BY DEF CacheInv, JobsOk, JobOk, Held, Fits, Calm, Generation
  <2> QED BY <2>1, <2>2, <2>3 DEF Rest
<1> QED BY <1>1, <1>2, <1>3, <1>4, <1>5 DEF Next

LEMMA CacheInvHolds == Spec => []CacheInv
BY InitCacheInv, NextCacheInv, PTL DEF Spec

\* Type correctness, for any number of processes and sessions.
THEOREM TypeCorrect == Spec => []TypeOK
<1>1. CacheInv => TypeOK
  <2> SUFFICES ASSUME CacheInv PROVE TypeOK
    OBVIOUS
  <2>1. \A p \in Procs : job[p] \in JobState
    BY DEF CacheInv, JobsOk
  <2>2. \A p \in Procs : /\ job[p].session \in Sessions \cup {Nothing}
                          /\ job[p].looked \in Trees \cup {Nothing} /\ job[p].how \in Looks
                          /\ job[p].receipt \in Receipts \cup {Nothing}
                          /\ job[p].text \in Texts \cup {Nothing}
    BY <2>1 DEF JobState
  <2> QED BY <2>2 DEF CacheInv, WorldOk, ReceiptOk, JobsOk, MarkersOk, TypeOK
<1> QED BY <1>1, CacheInvHolds, PTL

\* What the hook and Hermes hand out is a map of the tree that was looked at for it,
\* unless the tree changed while it was mapped or two runs of the Python Mapper shared
\* .simplicio/docs, and unless git did not answer a hook (_generation, _read_ready,
\* _python_mapper_receipt, _ensure_map).
THEOREM HandedOutFits == Spec => []HandedOutIsCurrent
<1>1. CacheInv => HandedOutIsCurrent
  <2> SUFFICES ASSUME CacheInv, Calm, NEW p \in Procs, HandsOut(p)
               PROVE  Generation(job[p].how, job[p].receipt.text.of) = LookedFor(p)
    BY DEF HandedOutIsCurrent, Calm
  <2>1. Held(p, job[p], Calm)
    BY Known DEF HandsOut, JobOk
  <2> QED BY <2>1 DEF Held, Fits, LookedFor
<1> QED BY <1>1, CacheInvHolds, PTL

\* A session from which the hook withholds a map was given it or is being given it, unless
\* a hook was killed between the marker and its output (_context, _emit_context).
THEOREM WithheldIsKnown == Spec => []WithheldWasGiven
<1>1. CacheInv => WithheldWasGiven
  <2> SUFFICES ASSUME CacheInv, NEW p \in Hooks, Withheld(p), job[p].session \notin cut
               PROVE  \/ job[p].receipt \in given[job[p].session]
                      \/ \E q \in Hooks : at[q] = "print" /\ job[q].session = job[p].session
                                           /\ job[q].receipt = job[p].receipt
    BY DEF WithheldWasGiven
  <2> DEFINE s == job[p].session
             r == job[p].receipt
  <2>1. p \in Procs /\ at[p] = "deliver"
    BY DEF Procs, Withheld
  <2>2. s \in Sessions /\ r \in Receipts /\ r.mapper = Nothing
    BY <2>1, Known DEF JobOk, Held
  <2>3. marker[s] # Nothing /\ marker[s].generation = r.generation /\ marker[s].text = r.text
    BY DEF Withheld, AlreadyGiven
  <2>4. marker[s] \in Receipts /\ marker[s].mapper = Nothing
    BY <2>2, <2>3 DEF CacheInv, MarkersOk
  <2>5. marker[s] = r
    <3> HIDE DEF s, r
    <3> QED BY <2>2, <2>3, <2>4 DEF Receipts
  <2> QED BY <2>2, <2>3, <2>5 DEF CacheInv, MarkersOk
<1> QED BY <1>1, CacheInvHolds, PTL
=============================================================================
