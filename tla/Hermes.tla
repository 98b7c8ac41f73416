------------------------------- MODULE Hermes -------------------------------
(***************************************************************************)
(* The hooks of plugins/simplicio-hermes/hermes_plugin.py, composed with   *)
(* the bridge they call.  A request hook prepares the map and remembers    *)
(* the preparation; the host then calls its provider, and later tells a    *)
(* result hook how it went, perhaps twice, perhaps without the identifier  *)
(* of the request.  The result hook finds the preparation it belongs to    *)
(* and reports the usage.  Hooks of one host run in several threads, which *)
(* share the dictionaries below; each change of them is made under         *)
(* _STATE_LOCK, but a hook lets go of that lock while it calls the bridge. *)
(*                                                                         *)
(* When the bridge brings no map, _prepare falls back on a mapper of the   *)
(* host: under _PYTHON_MAP_LOCK, which is waited for without a deadline,   *)
(* it asks the mapper for its version and, unless the map it made last     *)
(* still fits, has it make a new one.                                      *)
(*                                                                         *)
(* A dictionary is a sequence in the order of insertion, which is the      *)
(* order of eviction.  Abstracted: the map itself and whether a stored one *)
(* fits (MapperCache), the checks of a mapper's version and digest, the    *)
(* numbers of tokens, and the measurement mode, which only decides whether *)
(* a result hook raises once its receipt is made.                          *)
(***************************************************************************)
EXTENDS McpBridge, Functions

CONSTANTS
    Requests, Sessions,
    SessionOf, TurnOf,  \* the session and the turn of each request
    Middleware,   \* the host offers request middleware (_MIDDLEWARE_ENABLED, set by register)
    MaxPrepared,  \* the bound of _PREPARED (128 in _remember)
    MaxTracked,   \* _MAX_TRACKED_RESULTS
    MaxReceipts,  \* _MAX_CORRELATION_RECEIPTS
    MaxHooks      \* bound: hooks the host calls

Prepare(r) == <<"prepare", r>>
Record(c) == <<"record", c>>
Warm(s) == <<"warm", s>>

ASSUME HermesAssumption ==
    /\ SessionOf \in [Requests -> Sessions] /\ Middleware \in BOOLEAN
    /\ IsFiniteSet(Threads) /\ IsFiniteSet(Requests)
    /\ {MaxPrepared, MaxTracked, MaxReceipts} \subseteq Nat \ {0}
    /\ MaxHooks \in Nat
    /\ Subjects = {Prepare(r) : r \in Requests} \cup {Record(c) : c \in 1..MaxHooks}
                    \cup {Warm(s) : s \in Sessions}

VARIABLES
    prepared,    \* _PREPARED
    recorded,    \* _RECORDED_REQUESTS
    pids,        \* _RECORDED_PROVIDER_IDS: a provider call's number is its id
    warming,     \* _WARMING
    receipts,    \* _CORRELATION_RECEIPTS: the verdict of each
    doing,       \* the hook each thread is in, and the request or session it is for
    fallback,    \* how far each thread is with the host's mapper
    calls,       \* the provider calls made: the request of each
    told,        \* how often each provider call was reported
    hooks,       \* hooks called so far
    taken        \* history: results matched with a preparation

hookVars == <<prepared, recorded, pids, warming, receipts, doing, fallback, calls, told,
              hooks, taken>>
vars == <<bridgeVars, hookVars>>

\* Of a report that was refused, of a result whose use is known, of any other.
Verdicts == {"correlation_missing", "correlation_ambiguous", "duplicate_result",
             "measured", "unmeasured"}

Idle == [hook |-> "none", for |-> Nothing]

\* The fallback waits for the lock, has it and waits for the mapper, or waits for a mapper
\* that it has killed.
Stages == {"none", "waiting", "mapping", "killed"}
HasMapLock(t) == fallback[t] \in {"mapping", "killed"}

Keys(seq) == {seq[i].req : i \in 1..Len(seq)}
Distinct(seq) == \A i, j \in 1..Len(seq) : seq[i].req = seq[j].req => i = j

TypeOK ==
    /\ BridgeTypeOK
    /\ prepared \in Seq([req : Requests])
    /\ Len(prepared) <= MaxPrepared /\ Distinct(prepared)
    /\ recorded \in Seq([req : Requests]) /\ Distinct(recorded)
    /\ pids \in Seq([req : 1..MaxHooks]) /\ Distinct(pids) /\ Len(pids) <= MaxTracked
    /\ warming \subseteq Sessions
    /\ receipts \in Seq(Verdicts) /\ Len(receipts) <= MaxReceipts
    /\ doing \in [Threads -> [hook : {"none", "request", "result", "warm"},
                              for : Requests \cup Sessions \cup {Nothing}]]
    /\ fallback \in [Threads -> Stages]
    /\ \A t, u \in Threads : HasMapLock(t) /\ HasMapLock(u) => t = u
    /\ calls \in Seq(Requests) /\ told \in [1..MaxHooks -> 0..2]
    /\ hooks \in 0..MaxHooks
    /\ taken \in Seq([key : Requests, of : 1..MaxHooks, pid : BOOLEAN])

Init ==
    /\ BridgeInit
    /\ prepared = <<>> /\ recorded = <<>> /\ pids = <<>> /\ warming = {} /\ receipts = <<>>
    /\ doing = [t \in Threads |-> Idle]
    /\ fallback = [t \in Threads |-> "none"]
    /\ calls = <<>> /\ told = [c \in 1..MaxHooks |-> 0]
    /\ hooks = 0 /\ taken = <<>>
-----------------------------------------------------------------------------
(* Dictionaries.                                                           *)

Without(seq, keys) == SelectSeq(seq, LAMBDA e : e.req \notin keys)

\* A key that is there keeps its place.
Put(seq, e) ==
    IF e.req \in Keys(seq)
    THEN [i \in 1..Len(seq) |-> IF seq[i].req = e.req THEN e ELSE seq[i]]
    ELSE Append(seq, e)

\* The oldest entry makes room (_remember, _bounded_insert).
Insert(seq, e, max) == Put(IF Len(seq) >= max THEN Tail(seq) ELSE seq, e)
-----------------------------------------------------------------------------
(* Request hooks.                                                          *)

\* _llm_request forgets an earlier attempt of the request, _pre_llm_call (of a
\* host without middleware) does not; both then call the bridge.
Request(t, r) ==
    /\ doing[t] = Idle /\ hooks < MaxHooks
    /\ prepared' = IF Middleware THEN Without(prepared, {r}) ELSE prepared
    /\ doing' = [doing EXCEPT ![t] = [hook |-> "request", for |-> r]]
    /\ Calling(t, Prepare(r))
    /\ hooks' = hooks + 1
    /\ UNCHANGED <<lock, alive, owed, nextId, upsets, recorded, pids,
                   warming, receipts, fallback, calls, told, taken>>

\* The bridge brought no map that _mapper_context takes: the mapper of the host is tried.
FallBack(t) ==
    /\ doing[t].hook \in {"request", "warm"} /\ Returned(t)
    /\ fallback' = [fallback EXCEPT ![t] = "waiting"]
    /\ UNCHANGED <<lock, alive, owed, nextId, upsets, prepared, recorded, pids, warming,
                   receipts, doing, calls, told, hooks, taken>>

MapperAt(t, from, to) ==
    /\ fallback[t] = from /\ fallback' = [fallback EXCEPT ![t] = to]
    /\ UNCHANGED <<bridgeVars, prepared, recorded, pids, warming, receipts, doing, calls,
                   told, hooks, taken>>

\* "with _PYTHON_MAP_LOCK": the mapper is asked for its version and, unless a stored map
\* fits, for a map.
LockMap(t) == (\A u \in Threads : ~HasMapLock(u)) /\ MapperAt(t, "waiting", "mapping")

\* The mapper outlives the timeout of either and the second after SIGTERM: it is killed,
\* and waited for without a deadline (_run_scoped).
KillMapper(t) == MapperAt(t, "mapping", "killed")

\* _prepare returns a map: the Runtime's, a stored one that fits, or a new one.
MapComes(t) ==
    \/ call[t].at = "answered" /\ Returned(t) /\ UNCHANGED fallback
    \/ /\ fallback[t] = "mapping"
       /\ fallback' = [fallback EXCEPT ![t] = "none"] /\ UNCHANGED call

\* _prepare raises: there is no mapper, or it may not be used, fails, or ran too long.
NoMap(t) ==
    /\ HasMapLock(t)
    /\ fallback' = [fallback EXCEPT ![t] = "none"] /\ UNCHANGED call

\* There is a map, which middleware has put into the request: the preparation is
\* remembered and the host calls its provider.
Remember(t) ==
    /\ doing[t].hook = "request" /\ MapComes(t)
    /\ prepared' = Insert(prepared, [req |-> doing[t].for], MaxPrepared)
    /\ calls' = Append(calls, doing[t].for)
    /\ doing' = [doing EXCEPT ![t] = Idle]
    /\ UNCHANGED <<lock, alive, owed, nextId, upsets, recorded, pids,
                   warming, receipts, told, hooks, taken>>

\* There is none, or middleware does not know the shape of the request (_inject_context):
\* the hook raises and the provider is not called.
Block(t) ==
    /\ doing[t].hook = "request" /\ (NoMap(t) \/ (Middleware /\ MapComes(t)))
    /\ doing' = [doing EXCEPT ![t] = Idle]
    /\ UNCHANGED <<lock, alive, owed, nextId, upsets, prepared, recorded, pids,
                   warming, receipts, calls, told, hooks, taken>>
-----------------------------------------------------------------------------
(* Result hooks.                                                           *)

Knowledge == {"request", "turn", "session"}

\* Mutant: of several candidates the oldest is taken.
WrongCandidates(r, known) ==
    LET open == {i \in 1..Len(prepared) :
                    /\ SessionOf[prepared[i].req] = SessionOf[r]
                    /\ known = "request" => prepared[i].req = r
                    /\ known = "turn" => TurnOf[prepared[i].req] = TurnOf[r]}
    IN  {prepared[i].req : i \in {j \in open : \A k \in open : j <= k}}

\* The preparations a report may be about: those of its session, of its turn when
\* it names one, of its request when it names that.
Candidates(r, known) ==
    {p \in Requests : /\ p \in Keys(prepared) /\ SessionOf[p] = SessionOf[r]
                      /\ known = "request" => p = r
                      /\ known = "turn" => TurnOf[p] = TurnOf[r]}

\* Mutant: a provider id that was counted is not looked up.
WrongTracked(c, hasPid) == FALSE

Tracked(c, hasPid) == hasPid /\ c \in Keys(pids)

\* Mutant: a report that cannot be placed is passed over.
WrongDiagnosed(verdict) == UNCHANGED receipts

\* _emit_correlation_receipt, into a deque that forgets its oldest entry.
Diagnosed(verdict) ==
    receipts' = Append(IF Len(receipts) = MaxReceipts THEN Tail(receipts) ELSE receipts, verdict)

\* Why a report has no candidate: the request it names was recorded, or nothing is known.
Missing(r, known) ==
    IF known = "request" /\ r \in Keys(recorded) THEN "duplicate_result" ELSE "correlation_missing"

\* The report of provider call c reaches a hook (_post_api_request, _post_llm_call,
\* _api_request_error): _record up to its call of the bridge.
Report(t, c, known, hasPid) ==
    LET found == Candidates(calls[c], known)
        key == CHOOSE p \in found : TRUE
    IN  /\ doing[t] = Idle /\ hooks < MaxHooks /\ told[c] < 2
        /\ hooks' = hooks + 1 /\ told' = [told EXCEPT ![c] = @ + 1]
        /\ \/ /\ Cardinality(found) # 1
              /\ Diagnosed(IF found = {} THEN Missing(calls[c], known)
                           ELSE "correlation_ambiguous")
              /\ UNCHANGED <<call, doing, prepared, recorded, pids, taken>>
           \/ /\ Cardinality(found) = 1 /\ Tracked(c, hasPid)
              /\ Diagnosed("duplicate_result")
              /\ prepared' = Without(prepared, {key})
              /\ UNCHANGED <<call, doing, recorded, pids, taken>>
           \/ /\ Cardinality(found) = 1 /\ ~Tracked(c, hasPid)
              /\ prepared' = Without(prepared, {key})
              /\ recorded' = Insert(recorded, [req |-> key], MaxTracked)
              /\ pids' = IF hasPid THEN Insert(pids, [req |-> c], MaxTracked) ELSE pids
              /\ taken' = Append(taken, [key |-> key, of |-> c, pid |-> hasPid])
              /\ doing' = [doing EXCEPT ![t] = [hook |-> "result", for |-> key]]
              /\ Calling(t, Record(c))
              /\ UNCHANGED receipts
        /\ UNCHANGED <<lock, alive, owed, nextId, upsets, warming, fallback, calls>>

\* The report told the tokens in and out, or not both.
Usages == {"complete", "incomplete"}

\* _final_usage_receipt: a result is measured when the Runtime took it, its use is known
\* and its identifiers are the host's own.
UsageReceipt(t, usage, stable) ==
    Diagnosed(IF call[t].at = "answered" /\ usage = "complete" /\ stable
              THEN "measured" ELSE "unmeasured")

\* The usage receipt is made either way; the request is entered again, past the
\* bound and past the end of its session, when the Runtime took the record.
FinishRecord(t) ==
    /\ doing[t].hook = "result" /\ Returned(t)
    /\ \E usage \in Usages, stable \in BOOLEAN : UsageReceipt(t, usage, stable)
    /\ recorded' = IF call[t].at = "answered" THEN Put(recorded, [req |-> doing[t].for])
                                              ELSE recorded
    /\ doing' = [doing EXCEPT ![t] = Idle]
    /\ UNCHANGED <<lock, alive, owed, nextId, upsets, prepared, pids,
                   warming, fallback, calls, told, hooks, taken>>
-----------------------------------------------------------------------------
(* Sessions.                                                               *)

Warming(s) == s \in warming

\* _on_session_start: the map is warmed up in a thread of its own, once.
StartSession(t, s) ==
    /\ doing[t] = Idle /\ hooks < MaxHooks /\ ~Warming(s)
    /\ warming' = warming \cup {s} /\ hooks' = hooks + 1
    /\ doing' = [doing EXCEPT ![t] = [hook |-> "warm", for |-> s]]
    /\ Calling(t, Warm(s))
    /\ UNCHANGED <<lock, alive, owed, nextId, upsets, prepared, recorded,
                   pids, receipts, fallback, calls, told, taken>>

WarmedUp(t) ==
    /\ doing[t].hook = "warm" /\ (MapComes(t) \/ NoMap(t))
    /\ warming' = warming \ {doing[t].for}
    /\ doing' = [doing EXCEPT ![t] = Idle]
    /\ UNCHANGED <<lock, alive, owed, nextId, upsets, prepared, recorded, pids,
                   receipts, calls, told, hooks, taken>>

RecordedAfterEnd(s) == Without(recorded, {r \in Requests : SessionOf[r] = s})

\* _on_session_end.
EndSession(s) ==
    LET own == {r \in Requests : SessionOf[r] = s}
    IN  /\ hooks < MaxHooks /\ hooks' = hooks + 1
        /\ warming' = warming \ {s}
        /\ prepared' = Without(prepared, own)
        /\ recorded' = RecordedAfterEnd(s)
        /\ UNCHANGED <<bridgeVars, pids, receipts, doing, fallback, calls, told, taken>>
-----------------------------------------------------------------------------
Hook(t) ==
    \/ \E r \in Requests : Request(t, r)
    \/ \E c \in 1..Len(calls), known \in Knowledge, hasPid \in BOOLEAN :
          Report(t, c, known, hasPid)
    \/ \E s \in Sessions : StartSession(t, s)

Finish(t) == Remember(t) \/ Block(t) \/ FinishRecord(t) \/ WarmedUp(t)

MapperStep(t) == FallBack(t) \/ LockMap(t) \/ KillMapper(t)

Bridge(t) == BridgeStep(t) /\ UNCHANGED hookVars

\* What has a deadline, or waits for nothing but the lock.
Alone(t) ==
    \/ Timed(t) /\ UNCHANGED hookVars
    \/ fallback[t] # "killed" /\ (MapperStep(t) \/ Finish(t))

Next ==
    \/ \E t \in Threads : Hook(t) \/ Bridge(t) \/ MapperStep(t) \/ Finish(t)
    \/ \E s \in Sessions : EndSession(s)
    \/ Dies /\ UNCHANGED hookVars

Spec == Init /\ [][Next]_vars

\* A thread that is in a hook goes on by itself where its wait has a timeout, and takes
\* the lock of the mapper when that stays free.  Nothing is assumed of the Runtime, which
\* may never read what is written to it, nor of a mapper that was killed.
FairSpec == Spec /\ \A t \in Threads : WF_vars(Alone(t))
-----------------------------------------------------------------------------
\* A provider call that is reported with its id is counted once, however often and
\* against whichever request it is reported, until MaxTracked other ids have been
\* counted after it; and every report, counted or not, ends in a receipt ("Zero
\* candidates, ambiguous candidates, duplicate hooks and duplicate provider IDs produce
\* bounded ... diagnostics rather than silent returns", README.md of the plugin).
CountedOnceInWindow ==
    /\ \A i, j \in 1..Len(taken) :
          (i < j /\ taken[i].pid /\ taken[j].pid /\ taken[i].of = taken[j].of) =>
              Cardinality({k \in (i + 1)..(j - 1) : taken[k].pid}) >= MaxTracked
    /\ LET ended == FoldFunction(+, 0, told) - Cardinality({t \in Threads : doing[t].hook = "result"})
       IN  Len(receipts) = IF ended > MaxReceipts THEN MaxReceipts ELSE ended

\* A result is credited to another request only when its own preparation is gone:
\* as long as that is open, a report without identifiers is refused as ambiguous.
MiscreditOnlyWhenForgotten ==
    [][Len(taken') > Len(taken) =>
          LET new == taken'[Len(taken')]
          IN  calls[new.of] \in Keys(prepared) => new.key = calls[new.of]]_vars

\* A hook hangs for two reasons only: the Runtime does not read what this very hook writes
\* to it, or some mapper's output stays open after it was killed.  The first is not
\* shared: whoever waits for a hook that hangs in its write gives up and goes on.
HangsInWrite(t) == <>[](call[t].at = "writing")
MapperHangs == \E u \in Threads : <>[](fallback[u] = "killed")

EveryHookReturns ==
    \A t \in Threads :
        HangsInWrite(t) \/ MapperHangs \/ ((doing[t] # Idle) ~> (doing[t] = Idle))
=============================================================================
