---------------------------- MODULE HermesProofs ----------------------------
(***************************************************************************)
(* Theorems about the Hermes hooks and the bridge they share, for every    *)
(* set of threads and requests and every bound.  The bridge is proved by   *)
(* itself, called with anything at any time; the hooks are then shown to   *)
(* call it in no other way, so that what holds of the bridge holds under   *)
(* them.                                                                   *)
(***************************************************************************)
EXTENDS Hermes, SequenceTheorems, FiniteSetTheorems, WellFoundedInduction, TLAPS

CallState == [at : {"idle", "queued", "writing", "asked", "answered", "failed"}, id : Nat,
              about : Subjects \cup {Nothing}, got : Subjects \cup {Nothing}]

\* The lock is held by whoever writes or waits for an answer, and an answer that is still to come
\* under the number of a call is about what that call asked.
Holds(t) == call[t].at \in {"writing", "asked"}

BridgeInv ==
    /\ lock \in Threads \cup {Nobody}
    /\ owed \subseteq Owed /\ nextId \in Nat \ {0}
    /\ call \in [Threads -> CallState]
    /\ \A line \in owed : line.id < nextId
    /\ \A t \in Threads :
         /\ call[t].at \in {"queued", "writing", "asked"} => call[t].about \in Subjects
         /\ Holds(t) <=> lock = t
         /\ Holds(t) =>
              /\ call[t].id < nextId
              /\ \A line \in owed : line.id = call[t].id => line.about = call[t].about
    /\ OwnAnswer
-----------------------------------------------------------------------------
(* The bridge.                                                             *)

LEMMA CallStates ==
    /\ NoCall \in CallState /\ NoCall.at = "idle"
    /\ \A s \in Subjects :
         [NoCall EXCEPT !.at = "queued", !.about = s] \in
           {c \in CallState : c.at = "queued" /\ c.about = s}
    /\ [NoCall EXCEPT !.at = "failed"] \in {c \in CallState : c.at = "failed"}
BY DEF NoCall, CallState

\* A thread that is not waiting for an answer, and will not be, changes its call.
LEMMA IdleCallKeeps ==
    ASSUME BridgeInv, NEW t \in Threads, NEW c \in CallState, call' = [call EXCEPT ![t] = c],
           c.at \notin {"writing", "asked"}, c.at = "queued" => c.about \in Subjects,
           c.at = "answered" => c.got = c.about,
           IF Holds(t) THEN lock' = Nobody ELSE lock' = lock,
           owed' \subseteq owed, nextId' = nextId
    PROVE  BridgeInv'
<1>1. call' \in [Threads -> CallState] /\ call'[t] = c
      /\ \A u \in Threads \ {t} : call'[u] = call[u]
  BY DEF BridgeInv
<1>2. \A u \in Threads : Holds(u)' <=> lock' = u
  <2>1. CASE Holds(t)
    BY <1>1, <2>1, BridgeAssumption DEF BridgeInv, Holds
  <2>2. CASE ~Holds(t)
    BY <1>1, <2>2 DEF BridgeInv, Holds
  <2> QED BY <2>1, <2>2
<1>3. lock' \in Threads \cup {Nobody}
  BY DEF BridgeInv
<1>4. OwnAnswer'
  BY <1>1 DEF BridgeInv, OwnAnswer
<1> QED BY <1>1, <1>2, <1>3, <1>4 DEF BridgeInv, Holds

LEMMA AskKeeps ==
    ASSUME BridgeInv, NEW t \in Threads, Ask(t) \/ AskBlocked(t)
    PROVE  BridgeInv'
<1> PICK at \in {"writing", "asked"} :
      /\ Numbered(t, at)
      /\ owed' \subseteq Kept \cup {[id |-> nextId, about |-> call[t].about]}
  BY DEF Ask, AskBlocked
<1> DEFINE c == [call[t] EXCEPT !.at = at, !.id = nextId]
           line1 == [id |-> nextId, about |-> call[t].about]
<1>1. /\ call[t] \in CallState /\ call[t].at = "queued" /\ call[t].about \in Subjects
      /\ lock = Nobody /\ lock' = t /\ nextId \in Nat /\ nextId' = nextId + 1
  BY DEF BridgeInv, Numbered
<1>2. c \in CallState /\ c.at = at /\ c.id = nextId /\ c.about = call[t].about
  BY <1>1 DEF CallState
<1>3. call' = [call EXCEPT ![t] = c] /\ owed' \subseteq owed \cup {line1}
  BY <1>1 DEF Numbered, Kept, BridgeInv
<1>4. line1 \in Owed /\ line1.id = nextId /\ line1.about = call[t].about
  BY <1>1 DEF Owed
<1> HIDE DEF c, line1
<1>5. call' \in [Threads -> CallState] /\ call'[t] = c
      /\ \A u \in Threads \ {t} : call'[u] = call[u]
  BY <1>2, <1>3 DEF BridgeInv
<1>6. \A line \in owed : line \in Owed /\ line.id \in Nat /\ line.id < nextId
  BY DEF BridgeInv, Owed
<1>7. owed' \subseteq Owed /\ \A line \in owed' : line.id < nextId'
  BY <1>1, <1>3, <1>4, <1>6
<1>8. \A u \in Threads : u # t => call[u].at \notin {"writing", "asked"}
  BY <1>1, BridgeAssumption DEF BridgeInv, Holds
<1>9. \A line \in owed' : line.id = nextId => line.about = c.about
  BY <1>2, <1>3, <1>4, <1>6
<1>10. OwnAnswer'
  BY <1>2, <1>5 DEF BridgeInv, OwnAnswer
<1>11. \A u \in Threads :
         /\ call'[u].at \in {"queued", "writing", "asked"} => call'[u].about \in Subjects
         /\ Holds(u)' <=> lock' = u
         /\ Holds(u)' =>
              /\ call'[u].id < nextId'
              /\ \A line \in owed' : line.id = call'[u].id => line.about = call'[u].about
  BY <1>1, <1>2, <1>5, <1>8, <1>9 DEF BridgeInv, Holds
<1>12. lock' \in Threads \cup {Nobody} /\ nextId' \in Nat \ {0}
  BY <1>1
<1> QED BY <1>5, <1>7, <1>10, <1>11, <1>12 DEF BridgeInv

LEMMA WriteEndsKeeps == ASSUME BridgeInv, NEW t \in Threads, WriteEnds(t) PROVE BridgeInv'
<1> DEFINE c == [call[t] EXCEPT !.at = "asked"]
           line1 == [id |-> call[t].id, about |-> call[t].about]
<1>1. /\ call[t] \in CallState /\ call[t].at = "writing" /\ call[t].about \in Subjects
      /\ lock = t /\ lock' = lock /\ nextId \in Nat /\ nextId' = nextId
      /\ call[t].id < nextId /\ call[t].id \in Nat
  BY DEF BridgeInv, WriteEnds, CallState, Holds
<1>2. c \in CallState /\ c.at = "asked" /\ c.id = call[t].id /\ c.about = call[t].about
  BY <1>1 DEF CallState
<1>3. call' = [call EXCEPT ![t] = c] /\ owed' = owed \cup {line1}
  BY <1>1 DEF WriteEnds, BridgeInv
<1>4. line1 \in Owed /\ line1.id = call[t].id /\ line1.about = call[t].about
  BY <1>1 DEF Owed
<1> HIDE DEF c, line1
<1>5. call' \in [Threads -> CallState] /\ call'[t] = c
      /\ \A u \in Threads \ {t} : call'[u] = call[u]
  BY <1>2, <1>3 DEF BridgeInv
<1>6. owed' \subseteq Owed /\ \A line \in owed' : line.id < nextId'
  BY <1>1, <1>3, <1>4 DEF BridgeInv
<1>7. \A u \in Threads : u # t => call[u].at \notin {"writing", "asked"}
  BY <1>1 DEF BridgeInv, Holds
<1>8. \A line \in owed' : line.id = c.id => line.about = c.about
  BY <1>1, <1>2, <1>3, <1>4 DEF BridgeInv, Holds
<1>9. OwnAnswer'
  BY <1>2, <1>5 DEF BridgeInv, OwnAnswer
<1>10. \A u \in Threads :
         /\ call'[u].at \in {"queued", "writing", "asked"} => call'[u].about \in Subjects
         /\ Holds(u)' <=> lock' = u
         /\ Holds(u)' =>
              /\ call'[u].id < nextId'
              /\ \A line \in owed' : line.id = call'[u].id => line.about = call'[u].about
  BY <1>1, <1>2, <1>5, <1>7, <1>8 DEF BridgeInv, Holds
<1>11. lock' \in Threads \cup {Nobody} /\ nextId' \in Nat \ {0}
  BY <1>1 DEF BridgeInv
<1> QED BY <1>5, <1>6, <1>9, <1>10, <1>11 DEF BridgeInv

LEMMA ReadKeeps == ASSUME BridgeInv, NEW t \in Threads, Read(t) PROVE BridgeInv'
<1>0. call[t].at = "asked" /\ call[t] \in CallState /\ nextId' = nextId
  BY DEF Read, BridgeInv
<1> PICK line \in owed :
      /\ owed' = owed \ {line}
      /\ \/ /\ IsAnswer(t, line) /\ Unlock
            /\ \E got \in Payloads(line) :
                 IF got = Nothing THEN Fail(t)
                 ELSE call' = [call EXCEPT ![t] = [call[t] EXCEPT !.at = "answered", !.id = 0,
                                                                  !.got = got]]
         \/ ~IsAnswer(t, line) /\ UNCHANGED <<call, lock>>
  BY DEF Read
<1>1. CASE UNCHANGED <<call, lock>>
  BY <1>0, <1>1 DEF BridgeInv, OwnAnswer, Holds
<1>2. CASE Fail(t) /\ Unlock
  BY <1>0, <1>2, CallStates, IdleCallKeeps DEF Fail, Unlock, Holds
<1>3. ASSUME IsAnswer(t, line), Unlock,
             call' = [call EXCEPT ![t] = [call[t] EXCEPT !.at = "answered", !.id = 0,
                                                         !.got = line.about]]
      PROVE  BridgeInv'
  <2> DEFINE c == [call[t] EXCEPT !.at = "answered", !.id = 0, !.got = line.about]
  <2>1. line.about = call[t].about /\ line.about \in Subjects
    BY <1>0, <1>3 DEF BridgeInv, IsAnswer, Owed, Holds
  <2>2. c \in CallState /\ c.at = "answered" /\ c.got = c.about
    BY <1>0, <2>1 DEF CallState
  <2>3. call' = [call EXCEPT ![t] = c] /\ lock' = Nobody
    BY <1>3 DEF Unlock
  <2> HIDE DEF c
  <2> QED BY <1>0, <2>2, <2>3, IdleCallKeeps DEF Holds
<1> QED BY <1>1, <1>2, <1>3 DEF Payloads

LEMMA InitBridgeInv == BridgeInit => BridgeInv
<1> SUFFICES ASSUME BridgeInit PROVE BridgeInv
  OBVIOUS
<1>1. call \in [Threads -> CallState] /\ \A t \in Threads : call[t].at = "idle"
  BY CallStates DEF BridgeInit
<1>2. \A t \in Threads : lock # t
  BY BridgeAssumption DEF BridgeInit
<1> QED BY <1>1, <1>2 DEF BridgeInit, BridgeInv, OwnAnswer, Holds

LEMMA NextBridgeInv == BridgeInv /\ [BridgeNext]_bridgeVars => BridgeInv'
<1> SUFFICES ASSUME BridgeInv, [BridgeNext]_bridgeVars PROVE BridgeInv'
  OBVIOUS
<1>1. ASSUME NEW t \in Threads, NEW s \in Subjects, call[t].at = "idle", Calling(t, s),
             UNCHANGED <<lock, alive, owed, nextId, upsets>>
      PROVE  BridgeInv'
  <2> DEFINE c == [NoCall EXCEPT !.at = "queued", !.about = s]
  <2>1. c \in CallState /\ c.at = "queued" /\ c.about \in Subjects
    BY CallStates
  <2>2. call' = [call EXCEPT ![t] = c]
    BY <1>1 DEF Calling
  <2> HIDE DEF c
  <2> QED BY <1>1, <2>1, <2>2, IdleCallKeeps DEF Holds
<1>2. ASSUME NEW t \in Threads, Returned(t), UNCHANGED <<lock, alive, owed, nextId, upsets>>
      PROVE  BridgeInv'
  BY <1>2, CallStates, IdleCallKeeps DEF Returned, Holds
<1>3. ASSUME NEW t \in Threads, Busy(t) \/ CannotStart(t) PROVE BridgeInv'
  BY <1>3, CallStates, IdleCallKeeps DEF Busy, CannotStart, Fail, Holds
<1>4. ASSUME NEW t \in Threads, ReadNoise(t) \/ TimeOut(t) \/ WriteBreaks(t)
      PROVE  BridgeInv'
  BY <1>4, CallStates, IdleCallKeeps, ZenonT(60)
     DEF ReadNoise, TimeOut, WriteBreaks, Fail, Unlock, Close, Holds
<1>5. CASE Dies
  BY <1>5 DEF Dies, Close, BridgeInv, OwnAnswer, Holds
<1>6. CASE UNCHANGED bridgeVars
  BY <1>6 DEF bridgeVars, BridgeInv, OwnAnswer, Holds
<1> QED BY <1>1, <1>2, <1>3, <1>4, <1>5, <1>6, AskKeeps, WriteEndsKeeps, ReadKeeps
        DEF BridgeNext, BridgeStep, Timed

LEMMA BridgeIsOrderly == BridgeSpec => []BridgeInv
BY InitBridgeInv, NextBridgeInv, PTL DEF BridgeSpec

\* What a call of the bridge returns answers that call, however many threads call it,
\* and whichever answers come late, torn or never (RuntimeMcpBridge.call).
THEOREM AnswersAreOwn == BridgeSpec => []OwnAnswer
<1>1. BridgeInv => OwnAnswer
  BY DEF BridgeInv
<1> QED BY <1>1, BridgeIsOrderly, PTL
-----------------------------------------------------------------------------
(* The hooks.                                                              *)

HookState == [hook : {"none", "request", "result", "warm"},
              for : Requests \cup Sessions \cup {Nothing}]
Match == [key : Requests, of : 1..MaxHooks, pid : BOOLEAN]

InHook(h) == {t \in Threads : doing[t].hook = h}

\* A thread calls the bridge, or asks the host's mapper, exactly while it is in a hook, never
\* both, and a provider call has had a
\* request hook, so that their number stays within the bound and the bridge knows what
\* a report of one is about.
HookInv ==
    /\ doing \in [Threads -> HookState]
    /\ \A t \in Threads :
         /\ call[t].at # "idle" <=> doing[t].hook # "none" /\ fallback[t] = "none"
         /\ doing[t].hook = "none" => doing[t] = Idle /\ fallback[t] = "none"
         /\ doing[t].hook = "request" => doing[t].for \in Requests
    /\ fallback \in [Threads -> Stages]
    /\ calls \in Seq(Requests) /\ hooks \in 0..MaxHooks
    /\ Len(calls) + Cardinality(InHook("request")) <= hooks
    /\ taken \in Seq(Match)

HermesInv == BridgeInv /\ HookInv

LEMMA IdleState == Idle \in HookState /\ Idle.hook = "none"
BY DEF Idle, HookState

LEMMA HookCount ==
    ASSUME NEW h \in {"none", "request", "result", "warm"}
    PROVE  IsFiniteSet(InHook(h)) /\ Cardinality(InHook(h)) \in Nat
<1>1. InHook(h) \subseteq Threads
  BY DEF InHook
<1>2. IsFiniteSet(InHook(h))
  BY <1>1, HermesAssumption, FS_Subset
<1> QED BY <1>2, FS_CardinalityType

LEMMA HookEnters ==
    ASSUME HermesInv, NEW t \in Threads, NEW h \in HookState, NEW c,
           doing[t] = Idle, h.hook # "none", h.hook = "request" => h.for \in Requests,
           doing' = [doing EXCEPT ![t] = h], call' = [call EXCEPT ![t] = c], c.at # "idle",
           hooks < MaxHooks, hooks' = hooks + 1, calls' = calls, taken' \in Seq(Match),
           fallback' = fallback
    PROVE  HookInv'
<1>1. /\ doing' \in [Threads -> HookState] /\ doing'[t] = h
      /\ \A u \in Threads \ {t} : doing'[u] = doing[u]
  BY DEF HermesInv, HookInv
<1>2. call'[t] = c /\ \A u \in Threads \ {t} : call'[u] = call[u]
  BY DEF HermesInv, BridgeInv
<1>3. /\ hooks \in Nat /\ MaxHooks \in Nat /\ Len(calls) \in Nat
      /\ Len(calls) + Cardinality(InHook("request")) <= hooks
  BY HermesAssumption DEF HermesInv, HookInv
<1>4. Cardinality(InHook("request")') <= Cardinality(InHook("request")) + 1
      /\ Cardinality(InHook("request")') \in Nat /\ Cardinality(InHook("request")) \in Nat
  <2>1. InHook("request")' = InHook("request")
        \/ InHook("request")' = InHook("request") \cup {t}
    BY <1>1, IdleState DEF InHook
  <2>2. IsFiniteSet(InHook("request")) /\ Cardinality(InHook("request")) \in Nat
    BY HookCount
  <2>3. Cardinality(InHook("request") \cup {t}) \in
          {Cardinality(InHook("request")), Cardinality(InHook("request")) + 1}
    BY <2>2, FS_AddElement
  <2> DEFINE n == Cardinality(InHook("request"))
             m == Cardinality(InHook("request")')
  <2>4. n \in Nat /\ m \in {n, n + 1}
    BY <2>1, <2>2, <2>3
  <2> HIDE DEF n, m
  <2>5. m <= n + 1 /\ m \in Nat /\ n \in Nat
    BY <2>4
  <2> QED BY <2>5 DEF n, m
<1>5. hooks' \in 0..MaxHooks /\ Len(calls') + Cardinality(InHook("request")') <= hooks'
  BY <1>3, <1>4
<1>6. calls' \in Seq(Requests)
  BY DEF HermesInv, HookInv
<1>7. \A u \in Threads :
        /\ call'[u].at # "idle" <=> doing'[u].hook # "none" /\ fallback'[u] = "none"
        /\ doing'[u].hook = "none" => doing'[u] = Idle /\ fallback'[u] = "none"
        /\ doing'[u].hook = "request" => doing'[u].for \in Requests
  <2>1. fallback[t] = "none"
    BY IdleState DEF HermesInv, HookInv
  <2> QED BY <1>1, <1>2, <2>1 DEF HermesInv, HookInv
<1>8. fallback' \in [Threads -> Stages]
  BY DEF HermesInv, HookInv
<1> QED BY <1>1, <1>5, <1>6, <1>7, <1>8 DEF HookInv

LEMMA HookLeaves ==
    ASSUME HermesInv, NEW t \in Threads, doing[t].hook # "none",
           MapComes(t) \/ NoMap(t) \/ (Returned(t) /\ UNCHANGED fallback),
           doing' = [doing EXCEPT ![t] = Idle], UNCHANGED <<hooks, taken>>,
           \/ calls' = calls
           \/ doing[t].hook = "request" /\ calls' = Append(calls, doing[t].for)
    PROVE  HookInv'
<1>1. /\ doing' \in [Threads -> HookState] /\ doing'[t] = Idle
      /\ \A u \in Threads \ {t} : doing'[u] = doing[u]
  BY IdleState DEF HermesInv, HookInv
<1>2. /\ call'[t].at = "idle" /\ fallback'[t] = "none" /\ fallback' \in [Threads -> Stages]
      /\ \A u \in Threads \ {t} : call'[u] = call[u] /\ fallback'[u] = fallback[u]
  <2>1. CASE Returned(t) /\ UNCHANGED fallback
    BY <2>1, CallStates DEF HermesInv, HookInv, BridgeInv, Returned
  <2>2. ASSUME HasMapLock(t), fallback' = [fallback EXCEPT ![t] = "none"], UNCHANGED call
        PROVE  <1>2
    BY <2>2 DEF HermesInv, HookInv, HasMapLock, Stages
  <2> QED BY <2>1, <2>2 DEF MapComes, NoMap, HasMapLock
<1>3. /\ hooks \in 0..MaxHooks /\ Len(calls) \in Nat /\ calls \in Seq(Requests)
      /\ Len(calls) + Cardinality(InHook("request")) <= hooks
  BY DEF HermesInv, HookInv
<1>4. InHook("request")' = InHook("request") \ {t}
  BY <1>1, IdleState DEF InHook
<1>5. Cardinality(InHook("request")') =
        IF doing[t].hook = "request" THEN Cardinality(InHook("request")) - 1
                                     ELSE Cardinality(InHook("request"))
  BY <1>4, HookCount, FS_RemoveElement, ZenonT(60) DEF InHook
<1>6. \A u \in Threads :
        /\ call'[u].at # "idle" <=> doing'[u].hook # "none" /\ fallback'[u] = "none"
        /\ doing'[u].hook = "none" => doing'[u] = Idle /\ fallback'[u] = "none"
        /\ doing'[u].hook = "request" => doing'[u].for \in Requests
  <2>1. Idle.hook = "none"
    BY IdleState
  <2> QED BY <1>1, <1>2, <2>1 DEF HermesInv, HookInv
<1>7. taken' \in Seq(Match) /\ hooks' = hooks
  BY DEF HermesInv, HookInv
<1>8. CASE calls' = calls
  <2>1. Len(calls') + Cardinality(InHook("request")') <= hooks
    BY <1>3, <1>5, <1>8, HookCount, HermesAssumption
  <2> QED BY <1>1, <1>2, <1>3, <1>8, <1>6, <1>7, <2>1 DEF HookInv
<1>9. CASE doing[t].hook = "request" /\ calls' = Append(calls, doing[t].for)
  <2>1. doing[t].for \in Requests
    BY <1>9 DEF HermesInv, HookInv
  <2>2. calls' \in Seq(Requests) /\ Len(calls') = Len(calls) + 1
    BY <1>3, <1>9, <2>1, AppendProperties
  <2>3. Len(calls') + Cardinality(InHook("request")') <= hooks
    BY <1>3, <1>5, <1>9, <2>2, HookCount, HermesAssumption
  <2> QED BY <1>1, <1>2, <1>3, <1>6, <1>7, <2>2, <2>3 DEF HookInv
<1> QED BY <1>8, <1>9

\* Nothing a hook keeps changes while the bridge works for it.
LEMMA BridgeStepKeepsHooks ==
    ASSUME HermesInv, NEW t \in Threads, BridgeStep(t), UNCHANGED hookVars
    PROVE  HookInv'
<1>1. call[t].at \in {"queued", "writing", "asked"} /\ call[t] \in CallState
  BY DEF BridgeStep, Timed, Busy, CannotStart, Ask, AskBlocked, Numbered, WriteEnds,
         WriteBreaks, TimeOut, Read, ReadNoise, HermesInv, BridgeInv
<1>2. call'[t].at # "idle" /\ \A u \in Threads \ {t} : call'[u] = call[u]
  <2>1. CASE Fail(t)
    BY <2>1, CallStates DEF Fail, HermesInv, BridgeInv
  <2>2. CASE Ask(t) \/ AskBlocked(t) \/ WriteEnds(t)
    BY <1>1, <2>2 DEF Ask, AskBlocked, Numbered, WriteEnds, CallState, HermesInv, BridgeInv
  <2>3. CASE Read(t) /\ ~Fail(t)
    <3>1. CASE call' = call
      BY <1>1, <3>1
    <3>2. CASE \E got : call' = [call EXCEPT ![t] = [call[t] EXCEPT !.at = "answered", !.id = 0,
                                                                    !.got = got]]
      BY <1>1, <3>2 DEF CallState, HermesInv, BridgeInv
    <3> QED BY <2>3, <3>1, <3>2 DEF Read
  <2> QED BY <2>1, <2>2, <2>3 
         DEF BridgeStep, Timed, Busy, CannotStart, TimeOut, WriteBreaks, ReadNoise
<1>3. InHook("request")' = InHook("request")
  BY DEF InHook, hookVars
<1> QED BY <1>1, <1>2, <1>3 DEF HermesInv, HookInv, hookVars

LEMMA FoundSet ==
    ASSUME NEW r, NEW known, Cardinality(Candidates(r, known)) = 1
    PROVE  LET key == CHOOSE p \in Candidates(r, known) : TRUE
           IN  key \in Requests /\ Candidates(r, known) = {key}
<1>1. IsFiniteSet(Candidates(r, known))
  BY HermesAssumption, FS_Subset DEF Candidates
<1>2. PICK p : Candidates(r, known) = {p}
  BY <1>1, FS_Singleton
<1>3. p \in Requests
  BY <1>2 DEF Candidates
<1> QED BY <1>2, <1>3

\* A result that is matched with the preparation of request key.
Takes(t, c, known, hasPid, key) ==
    /\ Candidates(calls[c], known) = {key} /\ ~Tracked(c, hasPid)
    /\ pids' = IF hasPid THEN Insert(pids, [req |-> c], MaxTracked) ELSE pids
    /\ taken' = Append(taken, [key |-> key, of |-> c, pid |-> hasPid])
    /\ doing' = [doing EXCEPT ![t] = [hook |-> "result", for |-> key]]
    /\ Calling(t, Record(c)) /\ UNCHANGED receipts

LEMMA ReportCases ==
    ASSUME NEW t, NEW c, NEW known, NEW hasPid, Report(t, c, known, hasPid)
    PROVE  /\ doing[t] = Idle /\ hooks < MaxHooks /\ told[c] < 2
           /\ hooks' = hooks + 1 /\ told' = [told EXCEPT ![c] = told[c] + 1]
           /\ UNCHANGED <<lock, alive, owed, nextId, upsets, warming, fallback, calls>>
           /\ \/ (\E v \in Verdicts : Diagnosed(v)) /\ UNCHANGED <<call, doing, pids, taken>>
              \/ \E key \in Requests : Takes(t, c, known, hasPid, key)
<1>1. \A v : v \in {"duplicate_result", "correlation_ambiguous", "correlation_missing"} =>
        v \in Verdicts
  BY DEF Verdicts
<1>2. CASE Cardinality(Candidates(calls[c], known)) # 1
  BY <1>1, <1>2 DEF Report, Missing
<1>3. CASE Cardinality(Candidates(calls[c], known)) = 1 /\ Tracked(c, hasPid)
  BY <1>1, <1>3 DEF Report
<1>4. CASE Cardinality(Candidates(calls[c], known)) = 1 /\ ~Tracked(c, hasPid)
  BY <1>4, FoundSet DEF Report, Takes
<1> QED BY <1>2, <1>3, <1>4

LEMMA InitHermesInv == Init => HermesInv
<1> SUFFICES ASSUME Init PROVE HermesInv
  OBVIOUS
<1>1. BridgeInv
  BY InitBridgeInv DEF Init
<1>2. doing \in [Threads -> HookState] /\ \A t \in Threads : doing[t] = Idle
  BY IdleState DEF Init
<1>3. (\A t \in Threads : call[t].at = "idle" /\ fallback[t] = "none")
      /\ fallback \in [Threads -> Stages]
  BY CallStates DEF Init, BridgeInit, Stages
<1>4. InHook("request") = {}
  BY <1>2, IdleState DEF InHook
<1>5. Cardinality(InHook("request")) = 0
  BY <1>4, FS_EmptySet
<1>6. calls \in Seq(Requests) /\ taken \in Seq(Match) /\ Len(calls) = 0 /\ hooks = 0
  BY DEF Init
<1> QED BY <1>1, <1>2, <1>3, <1>5, <1>6, IdleState, HermesAssumption DEF HermesInv, HookInv

\* One step of the hooks keeps the invariant, is a step of the bridge or none, and credits
\* a result to its own request if that is still open.
LEMMA RequestKeeps ==
    ASSUME HermesInv, NEW t \in Threads, NEW r \in Requests, Request(t, r)
    PROVE  HookInv' /\ [BridgeNext]_bridgeVars
<1> DEFINE h == [hook |-> "request", for |-> r]
           c == [NoCall EXCEPT !.at = "queued", !.about = Prepare(r)]
<1>1. Prepare(r) \in Subjects
  BY HermesAssumption
<1>2. h \in HookState /\ h.hook = "request" /\ h.for = r
  BY DEF HookState
<1>3. c.at # "idle"
  BY <1>1, CallStates
<1>4. doing[t] = Idle /\ call[t].at = "idle"
  BY IdleState DEF Request, HermesInv, HookInv
<1>5. BridgeNext
  BY <1>1, <1>4 DEF Request, BridgeNext
<1>6. /\ doing' = [doing EXCEPT ![t] = h] /\ call' = [call EXCEPT ![t] = c]
      /\ hooks < MaxHooks /\ hooks' = hooks + 1 /\ calls' = calls /\ taken' \in Seq(Match)
      /\ fallback' = fallback
  BY DEF Request, Calling, HermesInv, HookInv
<1> HIDE DEF h, c
<1> QED BY <1>2, <1>3, <1>4, <1>5, <1>6, HookEnters

LEMMA StartSessionKeeps ==
    ASSUME HermesInv, NEW t \in Threads, NEW s \in Sessions, StartSession(t, s)
    PROVE  HookInv' /\ [BridgeNext]_bridgeVars
<1> DEFINE h == [hook |-> "warm", for |-> s]
           c == [NoCall EXCEPT !.at = "queued", !.about = Warm(s)]
<1>1. Warm(s) \in Subjects
  BY HermesAssumption
<1>2. h \in HookState /\ h.hook = "warm"
  BY DEF HookState
<1>3. c.at # "idle"
  BY <1>1, CallStates
<1>4. doing[t] = Idle /\ call[t].at = "idle"
  BY IdleState DEF StartSession, HermesInv, HookInv
<1>5. BridgeNext
  BY <1>1, <1>4 DEF StartSession, BridgeNext
<1>6. /\ doing' = [doing EXCEPT ![t] = h] /\ call' = [call EXCEPT ![t] = c]
      /\ hooks < MaxHooks /\ hooks' = hooks + 1 /\ calls' = calls /\ taken' \in Seq(Match)
      /\ fallback' = fallback
  BY DEF StartSession, Calling, HermesInv, HookInv
<1> HIDE DEF h, c
<1> QED BY <1>2, <1>3, <1>4, <1>5, <1>6, HookEnters

\* A provider call that is reported has a number within the bound.
LEMMA CallsInBound ==
    ASSUME HermesInv, NEW c \in 1..Len(calls)
    PROVE  c \in 1..MaxHooks /\ Record(c) \in Subjects /\ calls[c] \in Requests
<1>1. /\ calls \in Seq(Requests) /\ Len(calls) \in Nat /\ hooks \in 0..MaxHooks
      /\ Len(calls) + Cardinality(InHook("request")) <= hooks
  BY DEF HermesInv, HookInv
<1>2. Len(calls) <= MaxHooks
  BY <1>1, HookCount, HermesAssumption
<1>3. c \in 1..MaxHooks
  BY <1>2, HermesAssumption
<1> QED BY <1>1, <1>3, HermesAssumption

LEMMA ReportKeeps ==
    ASSUME HermesInv, NEW t \in Threads, NEW c \in 1..Len(calls), NEW known \in Knowledge,
           NEW hasPid \in BOOLEAN, Report(t, c, known, hasPid)
    PROVE  HookInv' /\ [BridgeNext]_bridgeVars
<1>0. doing[t] = Idle /\ call[t].at = "idle" /\ hooks < MaxHooks /\ hooks' = hooks + 1
      /\ calls' = calls /\ UNCHANGED <<lock, alive, owed, nextId, upsets, fallback>>
  BY ReportCases, IdleState DEF HermesInv, HookInv
<1>1. CASE UNCHANGED <<call, doing, taken>>
  <2>1. InHook("request")' = InHook("request")
    BY <1>1 DEF InHook
  <2>2. hooks' \in 0..MaxHooks /\ hooks' >= hooks /\ hooks \in Nat /\ Len(calls) \in Nat
        /\ Len(calls) + Cardinality(InHook("request")) <= hooks
    BY <1>0, HermesAssumption DEF HermesInv, HookInv
  <2>3. Len(calls') + Cardinality(InHook("request")') <= hooks'
    BY <1>0, <2>1, <2>2, HookCount
  <2>4. HookInv'
    BY <1>0, <1>1, <2>2, <2>3 DEF HermesInv, HookInv
  <2> QED BY <1>0, <1>1, <2>4 DEF bridgeVars
<1>2. ASSUME NEW key \in Requests, Takes(t, c, known, hasPid, key)
      PROVE  HookInv' /\ [BridgeNext]_bridgeVars
  <2> DEFINE h == [hook |-> "result", for |-> key]
             q == [NoCall EXCEPT !.at = "queued", !.about = Record(c)]
             m == [key |-> key, of |-> c, pid |-> hasPid]
  <2>1. c \in 1..MaxHooks /\ Record(c) \in Subjects
    BY CallsInBound
  <2>2. h \in HookState /\ h.hook = "result"
    BY DEF HookState
  <2>3. q.at # "idle"
    BY <2>1, CallStates
  <2>4. m \in Match
    BY <2>1 DEF Match
  <2>5. BridgeNext
    BY <1>0, <1>2, <2>1 DEF Takes, BridgeNext
  <2>6. /\ doing' = [doing EXCEPT ![t] = h] /\ call' = [call EXCEPT ![t] = q]
        /\ taken' = Append(taken, m)
    BY <1>2 DEF Takes, Calling
  <2> HIDE DEF h, q, m
  <2>7. taken' \in Seq(Match)
    BY <2>4, <2>6, AppendProperties DEF HermesInv, HookInv
  <2> QED BY <1>0, <2>2, <2>3, <2>5, <2>6, <2>7, HookEnters
<1> QED BY <1>1, <1>2, ReportCases

LEMMA FinishKeeps ==
    ASSUME HermesInv, NEW t \in Threads, Finish(t)
    PROVE  HookInv' /\ [BridgeNext]_bridgeVars
<1>1. /\ doing[t].hook # "none" /\ doing' = [doing EXCEPT ![t] = Idle]
      /\ MapComes(t) \/ NoMap(t) \/ (Returned(t) /\ UNCHANGED fallback)
      /\ UNCHANGED <<hooks, taken>>
      /\ \/ calls' = calls
         \/ doing[t].hook = "request" /\ calls' = Append(calls, doing[t].for)
      /\ UNCHANGED <<lock, alive, owed, nextId, upsets>>
  BY DEF Finish, Remember, Block, FinishRecord, WarmedUp
<1>2. [BridgeNext]_bridgeVars
  BY <1>1 DEF MapComes, NoMap, BridgeNext, bridgeVars
<1> QED BY <1>1, <1>2, HookLeaves

\* The host's mapper is asked by a thread that is in a hook, and not at the bridge.
LEMMA MapperStepKeeps ==
    ASSUME HermesInv, NEW t \in Threads, MapperStep(t)
    PROVE  HookInv' /\ [BridgeNext]_bridgeVars
<1>1. /\ doing[t].hook # "none" /\ UNCHANGED <<doing, calls, hooks, taken>>
      /\ fallback' \in [Threads -> Stages] /\ fallback'[t] # "none" /\ call'[t].at = "idle"
      /\ \A u \in Threads \ {t} : call'[u] = call[u] /\ fallback'[u] = fallback[u]
  BY CallStates DEF MapperStep, FallBack, LockMap, KillMapper, MapperAt, Returned, Stages,
                    bridgeVars, HermesInv, HookInv, BridgeInv
<1>2. InHook("request")' = InHook("request")
  BY <1>1 DEF InHook
<1>3. [BridgeNext]_bridgeVars
  BY DEF MapperStep, FallBack, LockMap, KillMapper, MapperAt, BridgeNext
<1> QED BY <1>1, <1>2, <1>3 DEF HermesInv, HookInv

LEMMA NextHermesInv == HermesInv /\ [Next]_vars => HookInv' /\ [BridgeNext]_bridgeVars
<1> SUFFICES ASSUME HermesInv, [Next]_vars PROVE HookInv' /\ [BridgeNext]_bridgeVars
  OBVIOUS
<1>1. ASSUME NEW t \in Threads, Hook(t) PROVE HookInv' /\ [BridgeNext]_bridgeVars
  BY <1>1, RequestKeeps, ReportKeeps, StartSessionKeeps DEF Hook
<1>2. ASSUME NEW t \in Threads, Bridge(t) PROVE HookInv' /\ [BridgeNext]_bridgeVars
  BY <1>2, BridgeStepKeepsHooks DEF Bridge, BridgeNext
<1>3. ASSUME UNCHANGED <<call, doing, fallback, calls, hooks, taken>> PROVE HookInv'
  <2>1. InHook("request")' = InHook("request")
    BY <1>3 DEF InHook
  <2> QED BY <1>3, <2>1 DEF HermesInv, HookInv
<1>4. CASE UNCHANGED vars
  BY <1>3, <1>4 DEF vars, bridgeVars, hookVars
<1>5. ASSUME NEW s \in Sessions, EndSession(s) PROVE HookInv' /\ [BridgeNext]_bridgeVars
  <2>1. InHook("request")' = InHook("request")
    BY <1>5 DEF EndSession, InHook
  <2>2. /\ hooks' \in 0..MaxHooks /\ hooks \in Nat /\ hooks' = hooks + 1
        /\ Cardinality(InHook("request")) \in Nat /\ Len(calls) \in Nat
        /\ Len(calls) + Cardinality(InHook("request")) <= hooks
    BY <1>5, HookCount, HermesAssumption DEF EndSession, HermesInv, HookInv
  <2>3. Len(calls') + Cardinality(InHook("request")') <= hooks'
    BY <1>5, <2>1, <2>2 DEF EndSession
  <2> QED BY <1>5, <2>2, <2>3 DEF EndSession, bridgeVars, HermesInv, HookInv
<1>6. CASE Dies /\ UNCHANGED hookVars
  BY <1>3, <1>6 DEF Dies, hookVars, BridgeNext
<1> QED BY <1>1, <1>2, <1>4, <1>5, <1>6, MapperStepKeeps, FinishKeeps DEF Next

\* The hooks call the bridge in no other way than BridgeNext allows.
THEOREM HooksUseTheBridge == Spec => BridgeSpec
<1>1. Init => BridgeInit
  BY DEF Init
<1>2. HermesInv /\ [Next]_vars => HermesInv'
  BY NextHermesInv, NextBridgeInv DEF HermesInv
<1> QED BY <1>1, <1>2, InitHermesInv, NextHermesInv, PTL DEF Spec, BridgeSpec

LEMMA HermesIsOrderly == Spec => []HermesInv
<1>1. HermesInv /\ [Next]_vars => HermesInv'
  BY NextHermesInv, NextBridgeInv DEF HermesInv
<1> QED BY <1>1, InitHermesInv, PTL DEF Spec

\* Under the hooks, too, an answer of the bridge belongs to the call that gets it.
THEOREM HookAnswersAreOwn == Spec => []OwnAnswer
BY HooksUseTheBridge, AnswersAreOwn, PTL

\* While the preparation of a request is open, its result is credited to nobody else
\* (_record takes a preparation only when exactly one fits).
THEOREM OnlyTheForgottenMiscredits == Spec => MiscreditOnlyWhenForgotten
<1> DEFINE Credit == Len(taken') > Len(taken) =>
                       LET new == taken'[Len(taken')]
                       IN  calls[new.of] \in Keys(prepared) => new.key = calls[new.of]
<1>1. ASSUME HermesInv, [Next]_vars PROVE [Credit]_vars
  <2>0. taken \in Seq(Match)
    BY <1>1 DEF HermesInv, HookInv
  <2>1. ASSUME taken' = taken PROVE Credit
    BY <2>0, <2>1
  <2>2. ASSUME NEW t \in Threads, NEW c \in 1..Len(calls), NEW known \in Knowledge,
               NEW hasPid \in BOOLEAN, Report(t, c, known, hasPid)
        PROVE  Credit
    <3>1. ASSUME NEW key \in Requests, Takes(t, c, known, hasPid, key) PROVE Credit
      <4> DEFINE m == [key |-> key, of |-> c, pid |-> hasPid]
      <4>1. m.key = key /\ m.of = c
        OBVIOUS
      <4>2. taken' = Append(taken, m)
        BY <3>1 DEF Takes
      <4>3. m \in Match
        BY <1>1, CallsInBound DEF Match
      <4> HIDE DEF m
      <4>4. taken'[Len(taken')] = m
        BY <2>0, <4>2, <4>3, AppendProperties
      <4>5. calls[c] \in Requests
        BY <1>1, CallsInBound
      <4>6. calls[c] \in Keys(prepared) => calls[c] \in Candidates(calls[c], known)
        BY <4>5 DEF Candidates
      <4>7. Candidates(calls[c], known) = {key}
        BY <3>1 DEF Takes
      <4> QED BY <4>1, <4>4, <4>6, <4>7
    <3> QED BY <2>1, <3>1, <2>2, ReportCases
  <2>3. ASSUME NEW t \in Threads, Hook(t) PROVE Credit
    <3>1. taken' = taken \/ \E c \in 1..Len(calls), known \in Knowledge, hasPid \in BOOLEAN :
                              Report(t, c, known, hasPid)
      BY <2>3 DEF Hook, Request, StartSession
    <3> HIDE DEF Credit
    <3> QED BY <2>1, <2>2, <3>1
  <2>4. ASSUME NEW t \in Threads, Bridge(t) \/ MapperStep(t) \/ Finish(t) PROVE Credit
    <3>1. taken' = taken
      BY <2>4 DEF Bridge, MapperStep, FallBack, LockMap, KillMapper, MapperAt, Finish,
                  hookVars, Remember, Block, FinishRecord, WarmedUp
    <3> HIDE DEF Credit
    <3> QED BY <2>1, <3>1
  <2>5. ASSUME NEW s \in Sessions, EndSession(s) PROVE Credit
    BY <2>1, <2>5 DEF EndSession
  <2>6. CASE Dies /\ UNCHANGED hookVars
    BY <2>1, <2>6 DEF hookVars
  <2> HIDE DEF Credit
  <2> QED BY <1>1, <2>3, <2>4, <2>5, <2>6 DEF Next
<1> QED BY <1>1, HermesIsOrderly, PTL DEF Spec, MiscreditOnlyWhenForgotten
-----------------------------------------------------------------------------
(* The sum that FoldFunction computes, over any order of the elements.     *)

LEMMA LeastNatural ==
    ASSUME NEW S \in SUBSET Nat, S # {}
    PROVE  \E m \in S : \A k \in S : m <= k
<1> DEFINE R == {ss \in Nat \X Nat : ss[1] < ss[2]}
<1>1. IsWellFoundedOn(R, Nat)
  BY NatLessThanWellFounded DEF OpToRel
<1> HIDE DEF R
<1>2. PICK m \in S : \A k \in S : <<k, m>> \notin R
  BY <1>1, WFMin, Zenon
<1>3. \A k \in S : ~(k < m)
  BY <1>2 DEF R
<1> QED BY <1>2, <1>3

\* it holds the sums of w over the sets in D, as the recursive function behind FoldFunction
\* does; a set that is not empty is taken apart at the element it is said to hold.
One(s) == CHOOSE x \in s : TRUE
Sums(it, w, D) == it = [s \in D |-> IF s = {} THEN 0 ELSE w[One(s)] + it[s \ {One(s)}]]
Total(w) == FoldFunction(+, 0, w)
UpTo(S, n) == {s \in SUBSET S : Cardinality(s) <= n}

LEMMA OneLess ==
    ASSUME NEW S, IsFiniteSet(S), NEW s \in SUBSET S, s # {}
    PROVE  /\ One(s) \in s /\ s \ {One(s)} \in SUBSET S
           /\ Cardinality(s) \in Nat \ {0}
           /\ Cardinality(s \ {One(s)}) = Cardinality(s) - 1
<1>1. One(s) \in s
  BY DEF One
<1>2. IsFiniteSet(s) /\ Cardinality(s) \in Nat
  BY FS_Subset, FS_CardinalityType
<1>3. Cardinality(s) # 0
  BY <1>2, FS_EmptySet
<1> QED BY <1>1, <1>2, <1>3, FS_RemoveElement

LEMMA SumsUpTo ==
    ASSUME NEW S, IsFiniteSet(S), NEW w, NEW n \in Nat
    PROVE  \E it : Sums(it, w, UpTo(S, n))
<1> DEFINE Bad == {k \in Nat : ~\E it : Sums(it, w, UpTo(S, k))}
<1> SUFFICES ASSUME Bad # {} PROVE FALSE
  OBVIOUS
<1>1. PICK m \in Bad : \A k \in Bad : m <= k
  BY LeastNatural
<1>2. m # 0
  <2> DEFINE z == [s \in UpTo(S, 0) |-> 0]
  <2>1. ASSUME NEW s \in UpTo(S, 0) PROVE s = {}
    <3>1. s \in SUBSET S /\ Cardinality(s) <= 0
      BY DEF UpTo
    <3>2. s # {} => Cardinality(s) \in Nat \ {0}
      BY <3>1, OneLess
    <3> QED BY <3>1, <3>2
  <2>2. Sums(z, w, UpTo(S, 0))
    BY <2>1 DEF Sums
  <2> QED BY <2>2
<1>3. m - 1 \in Nat /\ m - 1 \notin Bad
  BY <1>1, <1>2
<1>4. PICK f : Sums(f, w, UpTo(S, m - 1))
  BY <1>3
<1> DEFINE g == [s \in UpTo(S, m) |-> IF s = {} THEN 0 ELSE w[One(s)] + f[s \ {One(s)}]]
<1>5. ASSUME NEW s \in UpTo(S, m)
      PROVE  g[s] = IF s = {} THEN 0 ELSE w[One(s)] + g[s \ {One(s)}]
  <2> DEFINE q == s \ {One(s)}
  <2>1. CASE s = {}
    BY <2>1
  <2>2. CASE s # {}
    <3>1. q \in UpTo(S, m - 1) /\ q \in UpTo(S, m)
      BY <2>2, OneLess DEF UpTo
    <3>2. f[q] = IF q = {} THEN 0 ELSE w[One(q)] + f[q \ {One(q)}]
      BY <1>4, <3>1 DEF Sums
    <3>3. g[q] = f[q]
      BY <3>1, <3>2
    <3>4. g[s] = w[One(s)] + f[q]
      BY <2>2
    <3> QED BY <2>2, <3>3, <3>4
  <2> QED BY <2>1, <2>2
<1>6. Sums(g, w, UpTo(S, m))
  <2>1. g = [s \in UpTo(S, m) |-> g[s]]
    OBVIOUS
  <2> HIDE DEF g
  <2> QED BY <1>5, <2>1 DEF Sums
<1> QED BY <1>1, <1>6

LEMMA SumsExist ==
    ASSUME NEW S, IsFiniteSet(S), NEW w
    PROVE  \E it : Sums(it, w, SUBSET S)
<1>1. UpTo(S, Cardinality(S)) = SUBSET S
  BY FS_Subset DEF UpTo
<1>2. Cardinality(S) \in Nat
  BY FS_CardinalityType
<1>3. \E it : Sums(it, w, UpTo(S, Cardinality(S)))
  BY <1>2, SumsUpTo
<1> QED BY <1>1, <1>3

LEMMA FoldIsSum ==
    ASSUME NEW S, IsFiniteSet(S), NEW w, S = DOMAIN w
    PROVE  \E it : Sums(it, w, SUBSET S) /\ Total(w) = it[S]
<1> DEFINE Is(it) == it = [s \in SUBSET S |-> IF s = {} THEN 0
                                    ELSE w[CHOOSE x \in s : TRUE] + it[s \ {CHOOSE x \in s : TRUE}]]
<1>1. PICK f : Sums(f, w, SUBSET S)
  BY SumsExist
<1>2. \A it : Is(it) <=> Sums(it, w, SUBSET S)
  BY DEF Sums, One
<1>3. Is(CHOOSE it : Is(it))
  <2>1. Is(f)
    BY <1>1, <1>2
  <2> HIDE DEF Is
  <2> QED BY <2>1
<1>4. Total(w) = (CHOOSE it : Is(it))[S]
  BY DEF Total, FoldFunction, FoldFunctionOnSet, MapThenFoldSet
<1> HIDE DEF Is
<1> QED BY <1>2, <1>3, <1>4

LEMMA SumsGrow ==
    ASSUME NEW S, IsFiniteSet(S), NEW v \in [S -> Nat], NEW w \in [S -> Nat], NEW c \in S,
           w = [v EXCEPT ![c] = v[c] + 1]
    PROVE  \A f, g : Sums(f, v, SUBSET S) /\ Sums(g, w, SUBSET S) =>
             f[S] \in Nat /\ g[S] = f[S] + 1
<1> SUFFICES ASSUME NEW f, NEW g, Sums(f, v, SUBSET S), Sums(g, w, SUBSET S)
             PROVE  f[S] \in Nat /\ g[S] = f[S] + 1
  OBVIOUS
<1> DEFINE Good(s) == f[s] \in Nat /\ g[s] = f[s] + (IF c \in s THEN 1 ELSE 0)
           Bad == {n \in Nat : \E s \in SUBSET S : Cardinality(s) = n /\ ~Good(s)}
<1>1. f[{}] = 0 /\ g[{}] = 0
  BY DEF Sums
<1>2. ASSUME NEW s \in SUBSET S, s # {}, Good(s \ {One(s)}) PROVE Good(s)
  <2> DEFINE x == One(s)
             q == s \ {One(s)}
  <2>1. f[s] = v[x] + f[q] /\ g[s] = w[x] + g[q]
    BY <1>2 DEF Sums
  <2>2. x \in s /\ q \in SUBSET S
    BY <1>2, OneLess
  <2>3. v[x] \in Nat /\ w[x] = IF x = c THEN v[x] + 1 ELSE v[x]
    BY <2>2
  <2>4. (c \in q) <=> (c \in s /\ c # x)
    OBVIOUS
  <2>5. f[q] \in Nat /\ g[q] = f[q] + (IF c \in q THEN 1 ELSE 0)
    BY <1>2
  <2> HIDE DEF x, q
  <2>6. f[s] \in Nat /\ g[s] = f[s] + (IF c \in s THEN 1 ELSE 0)
    BY <2>1, <2>2, <2>3, <2>4, <2>5
  <2> QED BY <2>6
<1>3. Bad = {}
  <2> HIDE DEF Good
  <2> SUFFICES ASSUME Bad # {} PROVE FALSE
    OBVIOUS
  <2>1. PICK m \in Bad : \A k \in Bad : m <= k
    BY LeastNatural
  <2>2. PICK s \in SUBSET S : Cardinality(s) = m /\ ~Good(s)
    BY <2>1
  <2>3. Good({})
    BY <1>1 DEF Good
  <2>4. s # {} /\ ~Good(s \ {One(s)})
    BY <1>2, <2>2, <2>3
  <2>5. /\ s \ {One(s)} \in SUBSET S /\ m - 1 \in Nat
        /\ Cardinality(s \ {One(s)}) = m - 1
    BY <2>2, <2>4, OneLess
  <2>6. m - 1 \in Bad
    BY <2>4, <2>5
  <2> QED BY <2>1, <2>6
<1>4. Good(S)
  <2>1. Cardinality(S) \in Nat
    BY FS_CardinalityType
  <2> HIDE DEF Good
  <2> QED BY <1>3, <2>1
<1> QED BY <1>4

LEMMA SumsZero ==
    ASSUME NEW S, IsFiniteSet(S), NEW f, Sums(f, [x \in S |-> 0], SUBSET S)
    PROVE  f[S] = 0
<1> DEFINE Bad == {n \in Nat : \E s \in SUBSET S : Cardinality(s) = n /\ f[s] # 0}
<1>1. f[{}] = 0
  BY DEF Sums
<1>2. ASSUME NEW s \in SUBSET S, s # {}, f[s \ {One(s)}] = 0 PROVE f[s] = 0
  <2>1. One(s) \in S
    BY <1>2, OneLess
  <2> DEFINE zero == [x \in S |-> 0]
  <2>3. zero[One(s)] = 0 /\ Sums(f, zero, SUBSET S)
    BY <2>1
  <2> HIDE DEF zero
  <2>4. f[s] = zero[One(s)] + f[s \ {One(s)}]
    BY <1>2, <2>3 DEF Sums
  <2> QED BY <1>2, <2>3, <2>4
<1>3. Bad = {}
  <2> SUFFICES ASSUME Bad # {} PROVE FALSE
    OBVIOUS
  <2>1. PICK m \in Bad : \A k \in Bad : m <= k
    BY LeastNatural
  <2>2. PICK s \in SUBSET S : Cardinality(s) = m /\ f[s] # 0
    BY <2>1
  <2>3. s # {} /\ f[s \ {One(s)}] # 0
    BY <1>1, <1>2, <2>2
  <2>4. /\ s \ {One(s)} \in SUBSET S /\ m - 1 \in Nat
        /\ Cardinality(s \ {One(s)}) = m - 1
    BY <2>2, <2>3, OneLess
  <2>5. m - 1 \in Bad
    BY <2>3, <2>4
  <2> QED BY <2>1, <2>5
<1> QED BY <1>3, FS_CardinalityType

\* One more report of one provider call.
LEMMA TotalGrows ==
    ASSUME NEW S, IsFiniteSet(S), NEW v \in [S -> Nat], NEW w \in [S -> Nat], NEW c \in S,
           w = [v EXCEPT ![c] = v[c] + 1]
    PROVE  Total(v) \in Nat /\ Total(w) = Total(v) + 1
<1>1. PICK f : Sums(f, v, SUBSET S) /\ Total(v) = f[S]
  BY FoldIsSum
<1>2. PICK g : Sums(g, w, SUBSET S) /\ Total(w) = g[S]
  BY FoldIsSum
<1>3. \A h, k : Sums(h, v, SUBSET S) /\ Sums(k, w, SUBSET S) =>
                 h[S] \in Nat /\ k[S] = h[S] + 1
  BY SumsGrow, ZenonT(60)
<1>4. f[S] \in Nat /\ g[S] = f[S] + 1
  BY <1>1, <1>2, <1>3
<1> QED BY <1>1, <1>2, <1>4

LEMMA TotalZero == ASSUME NEW S, IsFiniteSet(S) PROVE Total([x \in S |-> 0]) = 0
<1> DEFINE zero == [x \in S |-> 0]
<1>1. S = DOMAIN zero
  OBVIOUS
<1>2. PICK f : Sums(f, zero, SUBSET S) /\ Total(zero) = f[S]
  BY <1>1, FoldIsSum
<1> QED BY <1>2, SumsZero
-----------------------------------------------------------------------------
(* Results counted, reports answered.                                      *)

PidRow == [req : 1..MaxHooks]
CountedAfter(i) == {k \in (i + 1)..Len(taken) : taken[k].pid}

\* A provider id that was counted is still known, and so many others were counted after it
\* as are known behind it; or MaxTracked were, and it may be forgotten.
Window ==
    /\ pids \in Seq(PidRow) /\ Len(pids) <= MaxTracked
    /\ \A i \in 1..Len(taken) : taken[i].pid =>
         \/ Cardinality(CountedAfter(i)) >= MaxTracked
         \/ \E j \in 1..Len(pids) : /\ pids[j].req = taken[i].of
                                    /\ Cardinality(CountedAfter(i)) >= Len(pids) - j
    /\ \A i, j \in 1..Len(taken) :
         (i < j /\ taken[i].pid /\ taken[j].pid /\ taken[i].of = taken[j].of) =>
             Cardinality({k \in (i + 1)..(j - 1) : taken[k].pid}) >= MaxTracked

\* Reports whose hook has answered.
Ended == Total(told) - Cardinality(InHook("result"))
Capped(n) == IF n > MaxReceipts THEN MaxReceipts ELSE n

Answered ==
    /\ told \in [1..MaxHooks -> Nat] /\ receipts \in Seq(Verdicts)
    /\ Len(receipts) = Capped(Ended)

LEMMA CountInv == Window /\ Answered => CountedOnceInWindow
BY DEF Window, Answered, Ended, Capped, Total, InHook, CountedOnceInWindow

\* The id that is entered is not known yet, so it goes to the end; the oldest goes if
\* there is no room.
LEMMA InsertPid ==
    ASSUME pids \in Seq(PidRow), NEW c \in 1..MaxHooks, c \notin Keys(pids), Len(pids) <= MaxTracked
    PROVE  LET kept == IF Len(pids) >= MaxTracked THEN Tail(pids) ELSE pids
               dropped == IF Len(pids) >= MaxTracked THEN 1 ELSE 0
               new == Insert(pids, [req |-> c], MaxTracked)
           IN  /\ new \in Seq(PidRow) /\ Len(new) <= MaxTracked
               /\ Len(new) = Len(pids) - dropped + 1 /\ new[Len(new)].req = c
               /\ \A j \in 1..Len(pids) : j > dropped =>
                    j - dropped \in 1..Len(new) /\ new[j - dropped] = pids[j]
<1> DEFINE row == [req |-> c]
           kept == IF Len(pids) >= MaxTracked THEN Tail(pids) ELSE pids
           dropped == IF Len(pids) >= MaxTracked THEN 1 ELSE 0
<1>0. MaxTracked \in Nat \ {0} /\ Len(pids) \in Nat
  BY HermesAssumption
<1>1. /\ kept \in Seq(PidRow) /\ Len(kept) = Len(pids) - dropped
      /\ \A j \in 1..Len(kept) : kept[j] = pids[j + dropped]
  <2>1. CASE Len(pids) >= MaxTracked
    <3>1. pids # << >>
      BY <1>0, <2>1
    <3> QED BY <1>0, <2>1, <3>1, HeadTailProperties
  <2>2. CASE ~(Len(pids) >= MaxTracked)
    BY <1>0, <2>2
  <2> QED BY <2>1, <2>2
<1>2. row \in PidRow /\ row.req = c
  BY DEF PidRow
<1>3. c \notin Keys(kept)
  BY <1>0, <1>1 DEF Keys
<1>4. Insert(pids, row, MaxTracked) = Append(kept, row)
  BY <1>2, <1>3 DEF Insert, Put
<1> DEFINE new == Append(kept, row)
<1>5. /\ new \in Seq(PidRow) /\ Len(new) = Len(kept) + 1 /\ new[Len(new)] = row
      /\ \A j \in 1..Len(kept) : new[j] = kept[j]
  BY <1>1, <1>2, AppendProperties
<1> HIDE DEF row, kept, new
<1>6. Len(new) <= MaxTracked /\ Len(new) = Len(pids) - dropped + 1
  BY <1>0, <1>1, <1>5
<1>7. \A j \in 1..Len(pids) : j > dropped =>
        j - dropped \in 1..Len(new) /\ new[j - dropped] = pids[j]
  BY <1>0, <1>1, <1>5
<1> QED BY <1>2, <1>4, <1>5, <1>6, <1>7 DEF new, kept, row

LEMMA CountedFinite ==
    ASSUME NEW a \in Int, NEW b \in Int
    PROVE  /\ IsFiniteSet({k \in a..b : taken[k].pid})
           /\ Cardinality({k \in a..b : taken[k].pid}) \in Nat
<1>1. IsFiniteSet({k \in a..b : taken[k].pid})
  BY FS_Interval, FS_Subset
<1> QED BY <1>1, FS_CardinalityType

LEMMA TakesKeepsWindow ==
    ASSUME HermesInv, Window, NEW t \in Threads, NEW c \in 1..MaxHooks, NEW known,
           NEW hasPid \in BOOLEAN, NEW key \in Requests, Takes(t, c, known, hasPid, key)
    PROVE  Window'
<1> DEFINE m == [key |-> key, of |-> c, pid |-> hasPid]
<1>1. m \in Match /\ m.of = c /\ m.pid = hasPid
  BY DEF Match
<1>2. taken \in Seq(Match) /\ taken' = Append(taken, m)
  BY DEF HermesInv, HookInv, Takes
<1> HIDE DEF m
<1> PICK n \in Nat : n = Len(taken)
  BY <1>2
<1>3. /\ n \in Nat /\ n = Len(taken) /\ Len(taken') = n + 1 /\ taken'[n + 1] = m
      /\ \A i \in 1..n : taken'[i] = taken[i]
  BY <1>1, <1>2, AppendProperties
<1>4. MaxTracked \in Nat \ {0} /\ pids \in Seq(PidRow) /\ Len(pids) \in Nat
      /\ Len(pids) <= MaxTracked
  BY HermesAssumption DEF Window
<1>5. \A i \in 1..n : /\ Cardinality(CountedAfter(i)) \in Nat
                      /\ Cardinality(CountedAfter(i)') =
                           Cardinality(CountedAfter(i)) + (IF hasPid THEN 1 ELSE 0)
  <2> SUFFICES ASSUME NEW i \in 1..n
               PROVE  /\ Cardinality(CountedAfter(i)) \in Nat
                      /\ Cardinality(CountedAfter(i)') =
                           Cardinality(CountedAfter(i)) + (IF hasPid THEN 1 ELSE 0)
    OBVIOUS
  <2>1. IsFiniteSet(CountedAfter(i)) /\ Cardinality(CountedAfter(i)) \in Nat
    <3>1. i + 1 \in Int /\ Len(taken) \in Int
      BY <1>3
    <3> QED BY <3>1, CountedFinite DEF CountedAfter
  <2>2. CountedAfter(i)' = IF hasPid THEN CountedAfter(i) \cup {n + 1} ELSE CountedAfter(i)
    BY <1>1, <1>3 DEF CountedAfter
  <2>3. n + 1 \notin CountedAfter(i)
    BY <1>3 DEF CountedAfter
  <2>4. Cardinality(CountedAfter(i) \cup {n + 1}) = Cardinality(CountedAfter(i)) + 1
    BY <2>1, <2>3, FS_AddElement
  <2>5. CASE hasPid
    BY <2>1, <2>2, <2>4, <2>5
  <2>6. CASE ~hasPid
    BY <2>1, <2>2, <2>6
  <2> QED BY <2>5, <2>6
<1>6. Cardinality(CountedAfter(n + 1)') = 0
  <2>1. CountedAfter(n + 1)' = {}
    BY <1>3 DEF CountedAfter
  <2> QED BY <2>1, FS_EmptySet
<1>7. \A i, j \in 1..Len(taken') :
        (i < j /\ taken'[i].pid /\ taken'[j].pid /\ taken'[i].of = taken'[j].of) =>
            Cardinality({k \in (i + 1)..(j - 1) : taken'[k].pid}) >= MaxTracked
  <2> SUFFICES ASSUME NEW i \in 1..Len(taken'), NEW j \in 1..Len(taken'), i < j,
                      taken'[i].pid, taken'[j].pid, taken'[i].of = taken'[j].of
               PROVE  Cardinality({k \in (i + 1)..(j - 1) : taken'[k].pid}) >= MaxTracked
    OBVIOUS
  <2>1. i \in 1..n /\ taken'[i] = taken[i]
    BY <1>3
  <2>2. {k \in (i + 1)..(j - 1) : taken'[k].pid} = {k \in (i + 1)..(j - 1) : taken[k].pid}
    BY <1>3, <2>1
  <2>3. CASE j \in 1..n
    BY <1>3, <2>1, <2>2, <2>3 DEF Window
  <2>4. CASE j = n + 1
    <3>1. hasPid /\ taken[i].of = c
      BY <1>1, <1>3, <2>1, <2>4
    <3>2. c \notin Keys(pids)
      BY <3>1 DEF Takes, Tracked
    <3>3. Cardinality(CountedAfter(i)) >= MaxTracked
      BY <2>1, <3>1, <3>2 DEF Window, Keys
    <3>4. CountedAfter(i) = {k \in (i + 1)..(j - 1) : taken[k].pid}
      BY <1>3, <2>4 DEF CountedAfter
    <3> QED BY <2>2, <3>3, <3>4
  <2> QED BY <1>3, <2>3, <2>4
<1>8. CASE ~hasPid
  <2>1. pids' = pids
    BY <1>8 DEF Takes
  <2>2. ASSUME NEW i \in 1..Len(taken'), taken'[i].pid
        PROVE  \/ Cardinality(CountedAfter(i)') >= MaxTracked
               \/ \E j \in 1..Len(pids) : /\ pids[j].req = taken'[i].of
                                          /\ Cardinality(CountedAfter(i)') >= Len(pids) - j
    <3>1. i \in 1..n /\ taken'[i] = taken[i]
      BY <1>1, <1>3, <1>8, <2>2
    <3>2. Cardinality(CountedAfter(i)') = Cardinality(CountedAfter(i))
      BY <1>5, <1>8, <3>1
    <3> QED BY <2>2, <3>1, <3>2 DEF Window
  <2> QED BY <1>4, <1>7, <2>1, <2>2 DEF Window
<1>9. CASE hasPid
  <2> DEFINE dropped == IF Len(pids) >= MaxTracked THEN 1 ELSE 0
  <2>1. c \notin Keys(pids) /\ pids' = Insert(pids, [req |-> c], MaxTracked)
    BY <1>9 DEF Takes, Tracked
  <2>2. /\ pids' \in Seq(PidRow) /\ Len(pids') <= MaxTracked
        /\ Len(pids') = Len(pids) - dropped + 1 /\ pids'[Len(pids')].req = c
        /\ \A j \in 1..Len(pids) : j > dropped =>
             j - dropped \in 1..Len(pids') /\ pids'[j - dropped] = pids[j]
    BY <1>4, <2>1, InsertPid
  <2>3. ASSUME NEW i \in 1..Len(taken'), taken'[i].pid
        PROVE  \/ Cardinality(CountedAfter(i)') >= MaxTracked
               \/ \E j \in 1..Len(pids') : /\ pids'[j].req = taken'[i].of
                                           /\ Cardinality(CountedAfter(i)') >= Len(pids') - j
    <3>1. CASE i = n + 1
      BY <1>1, <1>3, <1>4, <1>6, <2>2, <3>1
    <3>2. CASE i # n + 1
      <4>1. i \in 1..n /\ taken'[i] = taken[i]
        BY <1>3, <3>2
      <4>2. /\ Cardinality(CountedAfter(i)) \in Nat
            /\ Cardinality(CountedAfter(i)') = Cardinality(CountedAfter(i)) + 1
        BY <1>5, <1>9, <4>1
      <4>3. CASE Cardinality(CountedAfter(i)) >= MaxTracked
        BY <1>4, <4>2, <4>3
      <4>4. ASSUME NEW j \in 1..Len(pids), pids[j].req = taken[i].of,
                   Cardinality(CountedAfter(i)) >= Len(pids) - j
            PROVE  \/ Cardinality(CountedAfter(i)') >= MaxTracked
                   \/ \E l \in 1..Len(pids') : /\ pids'[l].req = taken'[i].of
                                               /\ Cardinality(CountedAfter(i)') >= Len(pids') - l
        <5>1. CASE j > dropped
          <6>1. j - dropped \in 1..Len(pids') /\ pids'[j - dropped].req = taken'[i].of
            BY <2>2, <4>1, <4>4, <5>1
          <6>2. Cardinality(CountedAfter(i)') >= Len(pids') - (j - dropped)
            BY <1>4, <2>2, <4>2, <4>4
          <6> QED BY <6>1, <6>2
        <5>2. CASE ~(j > dropped)
          BY <1>4, <4>2, <4>4, <5>2
        <5> QED BY <5>1, <5>2
      <4> QED BY <2>3, <4>1, <4>3, <4>4 DEF Window
    <3> QED BY <3>1, <3>2
  <2> QED BY <1>7, <2>2, <2>3 DEF Window
<1> QED BY <1>8, <1>9

LEMMA OneReceipt ==
    ASSUME NEW verdict \in Verdicts, Diagnosed(verdict), receipts \in Seq(Verdicts),
           NEW n \in Int, Len(receipts) = Capped(n)
    PROVE  receipts' \in Seq(Verdicts) /\ Len(receipts') = Capped(n + 1)
<1>0. MaxReceipts \in Nat \ {0} /\ Len(receipts) \in Nat
  BY HermesAssumption
<1> DEFINE kept == IF Len(receipts) = MaxReceipts THEN Tail(receipts) ELSE receipts
<1>1. receipts' = Append(kept, verdict)
  BY DEF Diagnosed
<1>2. kept \in Seq(Verdicts)
      /\ Len(kept) = IF Len(receipts) = MaxReceipts THEN MaxReceipts - 1 ELSE Len(receipts)
  <2>1. CASE Len(receipts) = MaxReceipts
    <3>1. receipts # << >>
      BY <1>0, <2>1
    <3> QED BY <2>1, <3>1, HeadTailProperties
  <2>2. CASE Len(receipts) # MaxReceipts
    BY <2>2
  <2> QED BY <2>1, <2>2
<1> HIDE DEF kept
<1>3. receipts' \in Seq(Verdicts) /\ Len(receipts') = Len(kept) + 1
  BY <1>1, <1>2, AppendProperties
<1> QED BY <1>0, <1>2, <1>3 DEF Capped

\* The hook of one thread changes.
LEMMA ResultHooks ==
    ASSUME HermesInv, NEW t \in Threads, NEW h, doing' = [doing EXCEPT ![t] = h]
    PROVE  Cardinality(InHook("result")') =
             CASE h.hook = "result" /\ doing[t].hook # "result" -> Cardinality(InHook("result")) + 1
               [] h.hook # "result" /\ doing[t].hook = "result" -> Cardinality(InHook("result")) - 1
               [] OTHER -> Cardinality(InHook("result"))
<1>1. doing'[t] = h /\ \A u \in Threads \ {t} : doing'[u] = doing[u]
  BY DEF HermesInv, HookInv
<1>2. IsFiniteSet(InHook("result"))
  BY HookCount
<1>3. (t \in InHook("result")) <=> doing[t].hook = "result"
  BY DEF InHook
<1>4. CASE h.hook = "result"
  <2>1. InHook("result")' = InHook("result") \cup {t}
    BY <1>1, <1>4 DEF InHook
  <2> QED BY <1>2, <1>3, <1>4, <2>1, FS_AddElement
<1>5. CASE h.hook # "result"
  <2>1. InHook("result")' = InHook("result") \ {t}
    BY <1>1, <1>5 DEF InHook
  <2> QED BY <1>2, <1>3, <1>5, <2>1, FS_RemoveElement
<1> QED BY <1>4, <1>5

LEMMA ToldGrows ==
    ASSUME NEW v \in [1..MaxHooks -> Nat], NEW c \in 1..MaxHooks, NEW w,
           w = [v EXCEPT ![c] = v[c] + 1]
    PROVE  w \in [1..MaxHooks -> Nat] /\ Total(v) \in Nat /\ Total(w) = Total(v) + 1
<1> DEFINE D == 1..MaxHooks
<1>0. IsFiniteSet(D)
  BY HermesAssumption, FS_Interval
<1>1. v \in [D -> Nat] /\ w \in [D -> Nat] /\ c \in D
  OBVIOUS
<1>2. w \in [1..MaxHooks -> Nat]
  BY <1>1
<1> HIDE DEF D
<1>3. Total(v) \in Nat /\ Total(w) = Total(v) + 1
  BY <1>0, <1>1, TotalGrows
<1> QED BY <1>2, <1>3

LEMMA EndedIsInt == HermesInv /\ Answered => Ended \in Int /\ Total(told) \in Int
                                               /\ Cardinality(InHook("result")) \in Int
<1> SUFFICES ASSUME HermesInv, Answered
             PROVE  Total(told) \in Int /\ Cardinality(InHook("result")) \in Int
  BY DEF Ended
<1>1. Cardinality(InHook("result")) \in Int
  BY HookCount
<1>2. CASE MaxHooks = 0
  <2>1. told = [x \in {} |-> 0]
    BY <1>2 DEF Answered
  <2>2. Total([x \in {} |-> 0]) = 0
    BY FS_EmptySet, TotalZero
  <2> QED BY <1>1, <2>1, <2>2
<1>3. CASE MaxHooks # 0
  <2>1. 1 \in 1..MaxHooks /\ told \in [1..MaxHooks -> Nat]
    BY <1>3, HermesAssumption DEF Answered
  <2>2. Total(told) \in Nat
    BY <2>1, ToldGrows
  <2> QED BY <1>1, <2>2
<1> QED BY <1>2, <1>3

LEMMA ReportAnswered ==
    ASSUME HermesInv, Answered, NEW t \in Threads, NEW c \in 1..Len(calls), NEW known,
           NEW hasPid, Report(t, c, known, hasPid)
    PROVE  Answered'
<1>1. c \in 1..MaxHooks
  BY CallsInBound
<1>2. told \in [1..MaxHooks -> Nat] /\ told' = [told EXCEPT ![c] = told[c] + 1]
  BY ReportCases DEF Answered
<1>3. told' \in [1..MaxHooks -> Nat]
  BY <1>1, <1>2
<1>4. Total(told') = Total(told) + 1
  BY <1>1, <1>2, ToldGrows
<1>5. Ended \in Int /\ Total(told) \in Int /\ Cardinality(InHook("result")) \in Int
  BY EndedIsInt
<1>6. ASSUME NEW verdict \in Verdicts, Diagnosed(verdict), doing' = doing PROVE Answered'
  <2>1. InHook("result")' = InHook("result")
    BY <1>6 DEF InHook
  <2>2. Ended' = Ended + 1
    BY <1>4, <1>5, <2>1 DEF Ended
  <2>3. receipts' \in Seq(Verdicts) /\ Len(receipts') = Capped(Ended + 1)
    BY <1>5, <1>6, OneReceipt DEF Answered
  <2> QED BY <1>3, <2>2, <2>3 DEF Answered, Capped
<1>7. ASSUME NEW key \in Requests, Takes(t, c, known, hasPid, key) PROVE Answered'
  <2> DEFINE h == [hook |-> "result", for |-> key]
  <2>1. h.hook = "result" /\ doing' = [doing EXCEPT ![t] = h] /\ receipts' = receipts
    BY <1>7 DEF Takes
  <2>2. doing[t].hook = "none"
    BY ReportCases, IdleState
  <2> HIDE DEF h
  <2>3. Cardinality(InHook("result")') = Cardinality(InHook("result")) + 1
    BY <2>1, <2>2, ResultHooks
  <2>4. Ended' = Ended
    BY <1>4, <1>5, <2>3 DEF Ended
  <2> QED BY <1>3, <2>1, <2>4 DEF Answered, Capped
<1> QED BY <1>6, <1>7, ReportCases

LEMMA FinishRecordAnswered ==
    ASSUME HermesInv, Answered, NEW t \in Threads, FinishRecord(t)
    PROVE  Answered'
<1>1. Ended \in Int /\ Total(told) \in Int /\ Cardinality(InHook("result")) \in Int
  BY EndedIsInt
<1>2. doing[t].hook = "result" /\ doing' = [doing EXCEPT ![t] = Idle] /\ told' = told
  BY DEF FinishRecord
<1>3. Cardinality(InHook("result")') = Cardinality(InHook("result")) - 1
  BY <1>2, IdleState, ResultHooks
<1>4. Ended' = Ended + 1
  BY <1>1, <1>2, <1>3 DEF Ended
<1>5. PICK verdict \in Verdicts : Diagnosed(verdict)
  BY DEF FinishRecord, UsageReceipt, Verdicts
<1>6. receipts' \in Seq(Verdicts) /\ Len(receipts') = Capped(Ended + 1)
  BY <1>1, <1>5, OneReceipt DEF Answered
<1> QED BY <1>2, <1>4, <1>6 DEF Answered, Capped

\* A hook that is not a result hook begins or ends.
LEMMA OtherHookAnswered ==
    ASSUME HermesInv, Answered, NEW t \in Threads, NEW h, doing' = [doing EXCEPT ![t] = h],
           h.hook # "result", doing[t].hook # "result", UNCHANGED <<told, receipts>>
    PROVE  Answered'
<1>1. Cardinality(InHook("result")') = Cardinality(InHook("result"))
  BY ResultHooks
<1> QED BY <1>1 DEF Answered, Capped, Ended

LEMMA NextCounted ==
    ASSUME HermesInv, Window, Answered, [Next]_vars
    PROVE  Window' /\ Answered'
<1>1. ASSUME UNCHANGED <<pids, taken>> PROVE Window'
  BY <1>1 DEF Window, CountedAfter
<1>2. ASSUME UNCHANGED <<told, receipts, doing>> PROVE Answered'
  BY <1>2 DEF Answered, Ended, Capped, InHook
<1>3. ASSUME NEW t \in Threads, NEW c \in 1..Len(calls), NEW known \in Knowledge,
             NEW hasPid \in BOOLEAN, Report(t, c, known, hasPid)
      PROVE  Window' /\ Answered'
  <2>1. ASSUME NEW key \in Requests, Takes(t, c, known, hasPid, key) PROVE Window'
    BY <2>1, CallsInBound, TakesKeepsWindow
  <2> QED BY <1>1, <1>3, <2>1, ReportCases, ReportAnswered
<1>4. ASSUME NEW t \in Threads, NEW r \in Requests, Request(t, r) PROVE Window' /\ Answered'
  <2> DEFINE h == [hook |-> "request", for |-> r]
  <2>1. /\ h.hook = "request" /\ doing' = [doing EXCEPT ![t] = h] /\ doing[t].hook = "none"
        /\ UNCHANGED <<told, receipts, pids, taken>>
    BY <1>4, IdleState DEF Request
  <2> HIDE DEF h
  <2> QED BY <1>1, <2>1, OtherHookAnswered
<1>5. ASSUME NEW t \in Threads, NEW s \in Sessions, StartSession(t, s)
      PROVE  Window' /\ Answered'
  <2> DEFINE h == [hook |-> "warm", for |-> s]
  <2>1. /\ h.hook = "warm" /\ doing' = [doing EXCEPT ![t] = h] /\ doing[t].hook = "none"
        /\ UNCHANGED <<told, receipts, pids, taken>>
    BY <1>5, IdleState DEF StartSession
  <2> HIDE DEF h
  <2> QED BY <1>1, <2>1, OtherHookAnswered
<1>6. ASSUME NEW t \in Threads, Remember(t) \/ Block(t) \/ WarmedUp(t)
      PROVE  Window' /\ Answered'
  <2>1. /\ doing' = [doing EXCEPT ![t] = Idle] /\ doing[t].hook \in {"request", "warm"}
        /\ UNCHANGED <<told, receipts, pids, taken>>
    BY <1>6 DEF Remember, Block, WarmedUp
  <2> QED BY <1>1, <2>1, IdleState, OtherHookAnswered
<1>10. ASSUME NEW t \in Threads, MapperStep(t) PROVE Window' /\ Answered'
  <2>1. UNCHANGED <<told, receipts, doing, pids, taken>>
    BY <1>10 DEF MapperStep, FallBack, LockMap, KillMapper, MapperAt
  <2> QED BY <1>1, <1>2, <2>1
<1>7. ASSUME NEW t \in Threads, FinishRecord(t) PROVE Window' /\ Answered'
  BY <1>1, <1>7, FinishRecordAnswered DEF FinishRecord
<1>8. CASE UNCHANGED hookVars
  BY <1>1, <1>2, <1>8 DEF hookVars
<1>9. ASSUME NEW s \in Sessions, EndSession(s) PROVE Window' /\ Answered'
  BY <1>1, <1>2, <1>9 DEF EndSession
<1> QED BY <1>3, <1>4, <1>5, <1>6, <1>7, <1>8, <1>9, <1>10
        DEF Next, Hook, Finish, Bridge, vars

LEMMA InitCounted == Init => Window /\ Answered
<1> SUFFICES ASSUME Init PROVE Window /\ Answered
  OBVIOUS
<1>1. taken = << >> /\ pids = << >> /\ receipts = << >>
      /\ told = [x \in 1..MaxHooks |-> 0] /\ {MaxTracked, MaxReceipts} \subseteq Nat \ {0}
  BY HermesAssumption DEF Init
<1>2. InHook("result") = {}
  BY IdleState DEF Init, InHook
<1>3. IsFiniteSet(1..MaxHooks)
  BY HermesAssumption, FS_Interval
<1>4. Total(told) = 0
  BY <1>1, <1>3, TotalZero
<1>5. Ended = 0
  BY <1>2, <1>4, FS_EmptySet DEF Ended
<1> QED BY <1>1, <1>5 DEF Window, Answered, Capped

\* A provider call reported with its id is counted once within the window of ids that are
\* remembered, and every report that has ended left a receipt, up to the bound of the
\* receipts (_record, _emit_correlation_receipt, _bounded_insert).
THEOREM EveryReportIsAccounted == Spec => []CountedOnceInWindow
<1>1. Init => HermesInv /\ Window /\ Answered
  BY InitHermesInv, InitCounted
<1>2. HermesInv /\ Window /\ Answered /\ [Next]_vars => (HermesInv /\ Window /\ Answered)'
  BY NextHermesInv, NextBridgeInv, NextCounted DEF HermesInv
<1> QED BY <1>1, <1>2, CountInv, PTL DEF Spec
=============================================================================
