------------------------------- MODULE Anchor -------------------------------
(***************************************************************************)
(* The task anchor and the delivery contract frozen onto it:               *)
(* plugin/scripts/task_anchor.py and plugin/scripts/delivery_contract.py.  *)
(*                                                                         *)
(* A command loads anchor.json, computes a new one and saves it by         *)
(* truncating the file and writing it anew: no lock, no temporary file.    *)
(* Commands overlap and can be killed; a truncated file loads as no anchor *)
(* at all.  A criterion is known to `mark` by its position (AC1, AC2, ...) *)
(* and to a re-set by its text.                                            *)
(***************************************************************************)
EXTENDS Integers, SequencesExt

CONSTANTS
    Procs,       \* processes that run anchor commands
    Texts,       \* texts of acceptance criteria
    Lists,       \* the lines given to `set`: sequences of texts, as they are typed
    Vague,       \* texts the lint refuses
    Goals,       \* goals, equal when their fingerprints are
    NoGoal,      \* no anchor
    Contracts,   \* delivery contracts that can be frozen
    Closed,      \* those with allow_new_files_in_repo = false
    NoContract,  \* none frozen
    Files,       \* files that can appear in the working tree
    Marks,       \* statuses that are marked
    MaxCommands  \* bound: commands started

ASSUME AnchorAssumption ==
    /\ Lists \subseteq Seq(Texts) /\ Vague \subseteq Texts
    /\ Marks \subseteq {"pending", "partial", "done", "waived"}
    /\ NoGoal \notin Goals /\ NoContract \notin Contracts /\ Closed \subseteq Contracts

VARIABLES
    anchor,    \* anchor.json
    mem,       \* the anchor each process is about to save
    at,        \* where each process is: "idle", "open", "write"
    baseline,  \* delivery_baseline.json, which two guards write in forms of their own
    files,     \* what `git status` shows of each file
    commands,  \* commands started
    proven,    \* history: (goal, text) pairs marked done with evidence
    excused,   \* history: (goal, text) pairs waived with a reason
    held,      \* history: the goal of the last anchor that was written whole
    forced,    \* history: processes whose command has --force
    blind,     \* history: those that loaded a truncated file or were overtaken by a save
    turn,      \* the stop hook: "agent" before its first look at the files, then what that
               \* look came to, "passed", or "unseen" when git did not answer
    authorized, \* history: the new files captured by a first freeze or with --force
    readmitted  \* history: those captured when the same contract was set again

commandVars == <<anchor, mem, at, commands, proven, excused, held, forced, blind>>
guardVars == <<baseline, files, turn, authorized, readmitted>>
anchorVars == <<commandVars, guardVars>>

Statuses == {"pending", "partial", "done", "waived"}
Criterion == [text : Texts, status : Statuses, evidence : BOOLEAN, reason : BOOLEAN]
None == [goal |-> NoGoal, criteria |-> <<>>, delivery |-> NoContract]
Torn == [None EXCEPT !.delivery = "torn"]

\* _load: a file that is absent or not JSON is an empty anchor.
Loaded == IF anchor = Torn THEN None ELSE anchor

\* `new` is read by the guard of delivery_contract, `paths` by the one of the stop hook.
NoBaseline == [new |-> {}, paths |-> {}]
NewFiles == {f \in Files : files[f] = "new"}
Changed == {f \in Files : files[f] # "clean"}

IsAnchor(a) ==
    /\ a.goal \in Goals \cup {NoGoal}
    /\ a.criteria \in Seq(Criterion)
    /\ a.delivery \in Contracts \cup {NoContract}

AnchorTypeOK ==
    /\ anchor = Torn \/ IsAnchor(anchor)
    /\ \A p \in Procs : IsAnchor(mem[p])
    /\ at \in [Procs -> {"idle", "open", "write"}]
    /\ baseline \in [new : SUBSET Files, paths : SUBSET Files]
    /\ files \in [Files -> {"clean", "new", "edited"}]
    /\ commands \in 0..MaxCommands
    /\ proven \subseteq Goals \X Texts /\ excused \subseteq Goals \X Texts
    /\ held \in Goals \cup {NoGoal} /\ forced \subseteq Procs /\ blind \subseteq Procs
    /\ turn \in {"agent", "passed", "unseen"}
    /\ authorized \subseteq Files /\ readmitted \subseteq Files

AnchorInit ==
    /\ anchor = None
    /\ mem = [p \in Procs |-> None]
    /\ at = [p \in Procs |-> "idle"]
    /\ baseline = NoBaseline /\ files \in [Files -> {"clean", "new"}] /\ commands = 0
    /\ proven = {} /\ excused = {} /\ held = NoGoal /\ forced = {} /\ blind = {}
    /\ turn = "agent" /\ authorized = {} /\ readmitted = {}
-----------------------------------------------------------------------------
(* The criteria.                                                           *)

\* parse_criteria: a text counts once, where it is first met.
Parsed(lines) == FoldLeft(LAMBDA kept, text : IF Contains(kept, text) THEN kept ELSE Append(kept, text),
                          <<>>, lines)

\* _collect_ac: no list, and none with a vague criterion in it, gets past the lint.
GivenLists == {list \in {Parsed(lines) : lines \in Lists} : list # <<>> /\ Vague \cap ToSet(list) = {}}

Fresh(text) == [text |-> text, status |-> "pending", evidence |-> FALSE, reason |-> FALSE]
Freeze(list) == [i \in 1..Len(list) |-> Fresh(list[i])]

\* Mutant: progress is carried over by position.
WrongMergeByPosition(old, list) ==
    [i \in 1..Len(list) |->
        IF i <= Len(old) THEN [old[i] EXCEPT !.text = list[i], !.reason = FALSE]
        ELSE Fresh(list[i])]

\* merge_preserving: by text.  The reason of a waiver is not carried over.
Merge(old, list) ==
    [i \in 1..Len(list) |->
        IF \E k \in 1..Len(old) : old[k].text = list[i]
        THEN [old[CHOOSE k \in 1..Len(old) : old[k].text = list[i]] EXCEPT !.reason = FALSE]
        ELSE Fresh(list[i])]

\* coverage, waived: criteria by their position.
Open(a) == {i \in 1..Len(a.criteria) : a.criteria[i].status \notin {"done", "waived"}}
Excused(a) == {i \in 1..Len(a.criteria) : a.criteria[i].status = "waived"}

\* cmd_gate, without the gate on prototypes that a package outside the repository adds.
Ready(a) == a.criteria # <<>> /\ Open(a) = {}

\* drift_verdict, which cmd_check gives for the goal of the turn.
DriftVerdict(a, goal) ==
    IF a.goal = NoGoal \/ a.goal # goal THEN "DRIFT"
    ELSE IF Ready(a) THEN "ANCHORED"
    ELSE "INCOMPLETE"
-----------------------------------------------------------------------------
(* The commands up to the save.                                            *)

Begin(p, new, force) ==
    /\ at[p] = "idle" /\ commands < MaxCommands
    /\ commands' = commands + 1
    /\ mem' = [mem EXCEPT ![p] = new]
    /\ at' = [at EXCEPT ![p] = "open"]
    /\ forced' = IF force THEN forced \cup {p} ELSE forced
    /\ blind' = IF anchor = Torn THEN blind \cup {p} ELSE blind
    /\ UNCHANGED <<anchor, files, held, turn>>

\* dc.validate, dc.freeze: a different contract needs --force; NoContract is no --delivery at all.
MayFreeze(contract, force) ==
    Loaded.delivery # NoContract /\ contract # NoContract /\ contract # Loaded.delivery => force

\* capture_baseline, if the disk lets it: the new files of now are authorized, or none
\* when git does not answer.  Nothing asks whether it is the first freeze or --force.
CaptureBaseline(force) ==
    \/ UNCHANGED <<baseline, authorized, readmitted>>
    \/ \E found \in {NewFiles, {}} :
          /\ baseline' = [new |-> found, paths |-> {}]
          /\ IF force \/ Loaded.delivery = NoContract
               THEN authorized' = found /\ readmitted' = {}
               ELSE readmitted' = found /\ UNCHANGED authorized

\* _apply_delivery captures the baseline before anything is saved.
ApplyDelivery(contract, force) ==
    /\ MayFreeze(contract, force)
    /\ IF contract \in Closed THEN CaptureBaseline(force)
       ELSE UNCHANGED <<baseline, authorized, readmitted>>

\* Mutant: a changed goal is not refused.
WrongMaySetGoalAlways(goal, force) == TRUE

MaySetGoal(goal, force) == Loaded.goal \in {NoGoal, goal} \/ force

\* cmd_set with a goal.
CmdSet(p) ==
    \E goal \in Goals, list \in GivenLists, force \in BOOLEAN, contract \in Contracts \cup {NoContract} :
        /\ MaySetGoal(goal, force)
        /\ ApplyDelivery(contract, force)
        /\ Begin(p, [goal |-> goal,
                     criteria |-> IF Loaded.goal = goal THEN Merge(Loaded.criteria, list)
                                  ELSE Freeze(list),
                     delivery |-> IF contract = NoContract THEN Loaded.delivery ELSE contract],
                 force)
        /\ UNCHANGED <<proven, excused>>

\* cmd_set with --delivery alone.
CmdSetDelivery(p) ==
    \E force \in BOOLEAN, contract \in Contracts :
        /\ Loaded.goal # NoGoal
        /\ ApplyDelivery(contract, force)
        /\ Begin(p, [Loaded EXCEPT !.delivery = contract], force)
        /\ UNCHANGED <<proven, excused>>

MayMark(status, evidence, reason) ==
    /\ status = "done" => evidence
    /\ status = "waived" => reason

\* cmd_mark.
CmdMark(p) ==
    \E k \in 1..Len(Loaded.criteria), status \in Marks, evidence, reason \in BOOLEAN :
        LET criterion == Loaded.criteria[k]
            key == <<Loaded.goal, criterion.text>>
        IN  /\ MayMark(status, evidence, reason)
            /\ Begin(p, [Loaded EXCEPT !.criteria[k] =
                             [text |-> criterion.text, status |-> status,
                              evidence |-> evidence \/ criterion.evidence,
                              reason |-> reason \/ criterion.reason]], FALSE)
            /\ proven' = IF status = "done" /\ evidence THEN proven \cup {key} ELSE proven
            /\ excused' = IF status = "waived" /\ reason THEN excused \cup {key} ELSE excused
            /\ UNCHANGED <<baseline, authorized, readmitted>>
-----------------------------------------------------------------------------
(* _save, and what happens around it.                                      *)

\* Whoever else is on the way to a save now holds what is no longer on file.
Overtaken(p) == {q \in Procs \ {p} : at[q] # "idle"}

SaveOpen(p) ==
    /\ at[p] = "open"
    /\ anchor' = Torn /\ blind' = blind \cup Overtaken(p)
    /\ at' = [at EXCEPT ![p] = "write"]
    /\ UNCHANGED <<mem, commands, proven, excused, held, forced, guardVars>>

\* Over the text of another that was written since the truncation it may come out garbled.
SaveWrite(p) ==
    /\ at[p] = "write"
    /\ \/ anchor' = mem[p] /\ held' = mem[p].goal
       \/ anchor # Torn /\ anchor' = Torn /\ UNCHANGED held
    /\ at' = [at EXCEPT ![p] = "idle"] /\ mem' = [mem EXCEPT ![p] = None]
    /\ forced' = forced \ {p} /\ blind' = (blind \cup Overtaken(p)) \ {p}
    /\ UNCHANGED <<commands, proven, excused, guardVars>>

Kill(p) ==
    /\ at[p] # "idle"
    /\ at' = [at EXCEPT ![p] = "idle"] /\ mem' = [mem EXCEPT ![p] = None]
    /\ forced' = forced \ {p} /\ blind' = blind \ {p}
    /\ UNCHANGED <<anchor, commands, proven, excused, held, guardVars>>

\* A file is created, edited, deleted, restored or committed.
FilesChange ==
    /\ \E f \in Files, shown \in {"clean", "new", "edited"} :
          files[f] # shown /\ files' = [files EXCEPT ![f] = shown]
    /\ UNCHANGED <<commandVars, baseline, turn, authorized, readmitted>>
-----------------------------------------------------------------------------
(* The end of a turn in the stop hook: two guards, which look at the files *)
(* one after the other.                                                    *)

\* check_new_files, which new_file_guard asks of a closed contract.
Unauthorized(found) == IF Loaded.delivery \in Closed THEN found \ baseline.new ELSE {}

\* delivery_new_file_violation.  A violation ends the loop, and the turn; if git does not
\* answer nothing is found, and nothing is violated.
NewFileGuard ==
    /\ turn = "agent"
    /\ turn' \in {IF Unauthorized(NewFiles) = {} THEN "passed" ELSE "agent", "unseen"}
    /\ UNCHANGED <<commandVars, baseline, files, authorized, readmitted>>

\* Mutant: a blocked turn, too, makes what it found the baseline, in both forms.
WrongNextBaseline(blocked, found) == [new |-> found, paths |-> found]

\* What _delivery_stop_guard leaves as the baseline.
NextBaseline(blocked, found) ==
    IF ~blocked /\ Loaded.delivery # NoContract THEN [new |-> {}, paths |-> found] ELSE baseline

\* _delivery_stop_guard.  It does nothing when anything fails in it, the import of a
\* package from outside the repository included; git that does not answer shows no file.
\* Files that are not in the baseline block it, and so do comments added to the code.
DeliveryStopGuard ==
    /\ turn # "agent" /\ turn' = "agent"
    /\ \/ UNCHANGED baseline
       \/ \E found \in {Changed, {}}, commented \in BOOLEAN :
             baseline' = NextBaseline(commented \/ (Loaded.delivery \in Closed
                                                      /\ found \ baseline.paths # {}), found)
    /\ UNCHANGED <<commandVars, files, authorized, readmitted>>

AnchorCommand ==
    \E p \in Procs : CmdSet(p) \/ CmdSetDelivery(p) \/ CmdMark(p)
                        \/ SaveOpen(p) \/ SaveWrite(p) \/ Kill(p)

AnchorNext ==
    \/ AnchorCommand
    \/ FilesChange \/ NewFileGuard \/ DeliveryStopGuard

AnchorSpec == AnchorInit /\ [][AnchorNext]_anchorVars
-----------------------------------------------------------------------------
\* The gate and the drift check give no credit that was not earned: whatever is reordered,
\* dropped, added again, typed twice, overwritten by another process or lost in a kill, a
\* criterion that is not open was marked done with evidence for this text under this goal
\* or excused with a reason, and a goal that is called ANCHORED has only such criteria.
CreditIsEarned ==
    LET earned == {i \in 1..Len(Loaded.criteria) :
                      /\ Loaded.criteria[i].evidence
                      /\ <<Loaded.goal, Loaded.criteria[i].text>> \in proven}
        waived == {i \in 1..Len(Loaded.criteria) :
                      <<Loaded.goal, Loaded.criteria[i].text>> \in excused}
    IN  /\ Excused(Loaded) \subseteq waived
        /\ (1..Len(Loaded.criteria)) \ (Open(Loaded) \cup Excused(Loaded)) \subseteq earned
        /\ \A goal \in Goals, i \in 1..Len(Loaded.criteria) :
               DriftVerdict(Loaded, goal) = "ANCHORED" =>
                   <<goal, Loaded.criteria[i].text>> \in proven \cup excused

\* A goal on file is replaced by another only when a command with --force saves ("a
\* CHANGED goal is refused unless --force").  That is so as long as a command saves over
\* what it loaded: one that met a truncated file, or that another save overtook, is not
\* refused, and the frozen goal is lost without --force.
GoalHeld ==
    [][\A p \in Procs \ (forced \cup blind) :
          SaveWrite(p) /\ held # NoGoal => held' = held]_anchorVars

\* When git answers it, the first guard lets no turn under a contract without new files
\* pass with a new file that was not there when a `set` captured the baseline, though
\* another guard reads and writes the same file in a form of its own.  Every such `set`
\* counts, the one that only repeats the contract too.
NoNewFileSlips ==
    [][turn = "agent" /\ turn' = "passed" /\ Loaded.delivery \in Closed
          => NewFiles \subseteq authorized \cup readmitted]_anchorVars
=============================================================================
