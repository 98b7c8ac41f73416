----------------------------- MODULE McpBridge -----------------------------
(***************************************************************************)
(* RuntimeMcpBridge of plugins/simplicio-hermes/hermes_plugin.py: the      *)
(* threads of a Hermes host share one child process and talk to it, one    *)
(* JSON object per line, over its stdin and stdout.  A call takes the      *)
(* lock, starts the process when it is not running, writes a numbered      *)
(* request and reads lines until the answer with its number comes; any     *)
(* other line is skipped, a line that is no JSON fails the call and leaves *)
(* the process, with its answer still to come, to the next caller.         *)
(*                                                                         *)
(* Abstracted: the handshake of a new process (initialize, tools/list),    *)
(* whose failure is CannotStart.                                           *)
(***************************************************************************)
EXTENDS Integers, Sequences, FiniteSets

CONSTANTS
    Threads,   \* the threads of the host that may call
    Nobody,    \* no thread
    Nothing,   \* no subject of a call
    Subjects,  \* what calls are about
    MaxUpsets  \* bound: lines on stdout that are no JSON, and deaths of the process

ASSUME BridgeAssumption == Nobody \notin Threads /\ Nothing \notin Subjects

VARIABLES
    lock,    \* the thread that holds _lock
    alive,   \* the child process runs
    owed,    \* the requests written to it whose answer has not been read
    nextId,  \* _next_id
    upsets,  \* lines that are no JSON and deaths so far
    call     \* the call of each thread

bridgeVars == <<lock, alive, owed, nextId, upsets, call>>

Owed == [id : Nat, about : Subjects]
NoCall == [at |-> "idle", id |-> 0, about |-> Nothing, got |-> Nothing]

BridgeTypeOK ==
    /\ lock \in Threads \cup {Nobody}
    /\ alive \in BOOLEAN
    /\ owed \subseteq Owed
    /\ nextId \in Nat \ {0} /\ upsets \in 0..MaxUpsets
    /\ call \in [Threads -> [at : {"idle", "queued", "writing", "asked",
                                   "answered", "failed"},
                             id : Nat, about : Subjects \cup {Nothing},
                             got : Subjects \cup {Nothing}]]

BridgeInit ==
    /\ lock = Nobody /\ alive = FALSE /\ owed = {}
    /\ nextId = 1 /\ upsets = 0
    /\ call = [t \in Threads |-> NoCall]
-----------------------------------------------------------------------------
\* A thread enters call() / leaves it with its outcome.
Calling(t, about) == call' = [call EXCEPT ![t] = [NoCall EXCEPT !.at = "queued", !.about = about]]
Returned(t) == call[t].at \in {"answered", "failed"} /\ call' = [call EXCEPT ![t] = NoCall]

Fail(t) == call' = [call EXCEPT ![t] = [NoCall EXCEPT !.at = "failed"]]
Unlock == lock' = Nobody

\* "Runtime Mapper is busy": the timeout passes while another call has the lock.
Busy(t) ==
    /\ call[t].at = "queued" /\ lock # Nobody
    /\ Fail(t)
    /\ UNCHANGED <<lock, alive, owed, nextId, upsets>>

\* The process cannot be started or fails the handshake: it is closed again.
CannotStart(t) ==
    /\ call[t].at = "queued" /\ lock = Nobody /\ ~alive
    /\ Fail(t)
    /\ UNCHANGED <<lock, alive, owed, nextId, upsets>>

\* The lock is taken, the process is running or started, and the request gets its
\* number.  It is written; or the pipe is full and the write waits for the process.
Numbered(t, at) ==
    /\ call[t].at = "queued" /\ lock = Nobody
    /\ lock' = t /\ alive' = TRUE
    /\ call' = [call EXCEPT ![t].at = at, ![t].id = nextId]
    /\ nextId' = nextId + 1
    /\ UNCHANGED upsets

Kept == IF alive THEN owed ELSE {}

Ask(t) ==
    /\ Numbered(t, "asked")
    /\ owed' = Kept \cup {[id |-> nextId, about |-> call[t].about]}

AskBlocked(t) == Numbered(t, "writing") /\ owed' = Kept

\* The process reads on: a write has no deadline of its own.
WriteEnds(t) ==
    /\ call[t].at = "writing"
    /\ call' = [call EXCEPT ![t].at = "asked"]
    /\ owed' = owed \cup {[id |-> call[t].id, about |-> call[t].about]}
    /\ UNCHANGED <<lock, alive, nextId, upsets>>

\* Mutant: the number of an answer is not looked at.
WrongIsAnswer(t, line) == TRUE

IsAnswer(t, line) == line.id = call[t].id

\* What an answer holds: its text, or an error or no text at all (_content_payload).
Payloads(line) == {line.about, Nothing}

\* A line of the process is read: an answer it owes, to this request (then the call
\* ends) or to an earlier one (then it is skipped).
Read(t) ==
    /\ call[t].at = "asked"
    /\ \E line \in owed :
         /\ owed' = owed \ {line}
         /\ \/ /\ IsAnswer(t, line) /\ Unlock
               /\ \E got \in Payloads(line) :
                    IF got = Nothing THEN Fail(t)
                    ELSE call' = [call EXCEPT ![t] = [@ EXCEPT !.at = "answered", !.id = 0,
                                                               !.got = got]]
            \/ ~IsAnswer(t, line) /\ UNCHANGED <<call, lock>>
    /\ UNCHANGED <<alive, nextId, upsets>>

\* A line that is no JSON is read: the call fails, the process stays, and the
\* answer is still to come.
ReadNoise(t) ==
    /\ call[t].at = "asked" /\ upsets < MaxUpsets
    /\ Fail(t) /\ Unlock /\ upsets' = upsets + 1
    /\ UNCHANGED <<alive, owed, nextId>>

Close == alive' = FALSE /\ owed' = {}

\* Mutant: the wait for an answer has no deadline.
WrongTimeOut(t) == FALSE /\ UNCHANGED bridgeVars

\* The deadline of the answer passes, or the process ends: it is closed.
TimeOut(t) ==
    /\ call[t].at = "asked"
    /\ Close /\ Fail(t) /\ Unlock
    /\ UNCHANGED <<nextId, upsets>>

\* The process ends while a write waits for it: the pipe is broken.
WriteBreaks(t) ==
    /\ call[t].at = "writing"
    /\ Close /\ Fail(t) /\ Unlock
    /\ UNCHANGED <<nextId, upsets>>

\* The process ends while nobody waits for it.
Dies ==
    /\ alive /\ lock = Nobody /\ upsets < MaxUpsets
    /\ Close /\ upsets' = upsets + 1
    /\ UNCHANGED <<lock, nextId, call>>

\* The steps a thread takes by itself, without a word from the process.
Timed(t) == Busy(t) \/ CannotStart(t) \/ Ask(t) \/ AskBlocked(t) \/ TimeOut(t)

BridgeStep(t) == Timed(t) \/ WriteEnds(t) \/ WriteBreaks(t) \/ Read(t) \/ ReadNoise(t)

\* The bridge by itself, called with anything at any time.
BridgeNext ==
    \/ \E t \in Threads :
         \/ call[t].at = "idle" /\ (\E s \in Subjects : Calling(t, s))
              /\ UNCHANGED <<lock, alive, owed, nextId, upsets>>
         \/ Returned(t) /\ UNCHANGED <<lock, alive, owed, nextId, upsets>>
         \/ BridgeStep(t)
    \/ Dies

BridgeSpec == BridgeInit /\ [][BridgeNext]_bridgeVars
-----------------------------------------------------------------------------
\* What a call returns answers that call: never the request of another thread,
\* nor an earlier one that failed while its answer was on the way
\* ("if response.get("id") != request_id: continue").
OwnAnswer == \A t \in Threads : call[t].at = "answered" => call[t].got = call[t].about
=============================================================================
