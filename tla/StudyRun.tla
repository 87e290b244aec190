-------------------------------- MODULE StudyRun -------------------------------
(***************************************************************************)
(* One supervised study: research_solomon_study.py,                        *)
(* research_reasoner_study.py and research_feral_coverage.py with their    *)
(* checkers.  `supervise' runs the controller `run' in a process of its    *)
(* own; the controller prepares its inputs, runs each job of its schedule  *)
(* in a further process, and closes what it leaves with COLLECTION.json;   *)
(* the checker later decides what the collected directory is worth.        *)
(***************************************************************************)
EXTENDS Supervisor

CONSTANTS
    Inputs,         \* the [study, mode, prepared, execution] it may be given
    Arms, Passes,   \* the methods compared, and how often each is run
    Calls1,         \* model calls one native job makes
    TotalSeconds, JobSeconds,
    Faults          \* how much may go wrong in one run

Jobs   == 1 .. Arms * Passes
Setup  == 0                 \* what is run before the jobs, and after them
Replay == Arms * Passes + 1
Items  == Setup .. Replay

ASSUME StudyAssumption ==
    /\ Arms \in Nat \ {0} /\ Passes \in Nat \ {0} /\ Calls1 \in Nat
    /\ TotalSeconds \in Nat \ {0} /\ JobSeconds \in Nat \ {0} /\ Faults \in Nat

VARIABLES
    input,      \* which study, how it is run, whether its inputs are in order
    ctl,        \* the controller: where it is and its `attempt' in memory
    sup,        \* the supervisor: where it is and its `terminal' in memory
    disk,       \* what they have written
    world,      \* what really happened: calls made, how each item ended
    verdict     \* the checker's answer

vars == <<proc, call, input, ctl, sup, disk, world, verdict>>

Is(s) == input.study = s

--------------------------------------------------------------------------------
(* The inputs.                                                              *)

\* The first arm calls the model; each pass starts one arm later.
ArmOf(j) == LET p == (j - 1) \div Arms IN (((j - 1) % Arms) + p) % Arms
Native(j) == j \in Jobs /\ ArmOf(j) = 0
NativeTotal == Calls1 * Cardinality({j \in Jobs : Native(j)})

ExecutionHolds == IF input.mode = "opened" THEN input.execution = "none"
                                           ELSE input.execution = "bound"
SolomonLimits  == Is("solomon")  /\ ExecutionHolds
ReasonerLimits == Is("reasoner") /\ ExecutionHolds
CoverageLimits == Is("coverage") /\ ExecutionHolds
LimitsHold == SolomonLimits \/ ReasonerLimits \/ CoverageLimits

SolomonInputs  == Is("solomon")  /\ input.prepared
ReasonerInputs == Is("reasoner") /\ input.prepared
CoverageInputs == Is("coverage") /\ input.prepared
InputsHold == SolomonInputs \/ ReasonerInputs \/ CoverageInputs

\* A record that is not on disk yet.
Absent == <<>>

NoAttempt == [started |-> 0, completed |-> 0, confirmed |-> 0, upper |-> 0,
              unknown |-> FALSE, status |-> "failed", stop |-> FALSE]
NoTerminal == [status |-> "failed", receipt |-> FALSE, collection |-> FALSE,
               stop |-> FALSE]

Init ==
    /\ input \in Inputs
    /\ proc = [p \in Procs |-> IF p = "sup" THEN [Unborn EXCEPT !.st = "runs"] ELSE Unborn]
    /\ call = [c \in Calls |-> NoCall]
    /\ ctl = [pc |-> "none", item |-> Setup, left |-> 0, attempt |-> NoAttempt]
    /\ sup = [pc |-> "start", terminal |-> NoTerminal]
    /\ disk = [attempt |-> Absent, receipts |-> {}, over |-> {}, rows |-> [j \in Jobs |-> "none"],
               collection |-> FALSE, terminal |-> Absent]
    /\ world = [made |-> 0, now |-> 0, ended |-> [i \in Items |-> "not"],
                faults |-> 0, struck |-> {}, damaged |-> FALSE]
    /\ verdict = "none"

--------------------------------------------------------------------------------
(* The supervisor.                                                          *)

Fault == world.faults < Faults /\ world' = [world EXCEPT !.faults = @ + 1]

SupAt(from, to) == Running("sup") /\ sup.pc = from /\ sup' = [sup EXCEPT !.pc = to]
supSteady == <<input, ctl, world, verdict>>
Handles(p) == proc' = [proc EXCEPT ![p].term = "handles"]
Default(p) == proc' = [proc EXCEPT ![p].term = "dies"]

\* Solomon's writes a failed SUPERVISOR.json before anything else.
SupStart ==
    /\ SupAt("start", "limits")
    /\ Handles("sup")
    /\ disk' = IF Is("solomon") THEN [disk EXCEPT !.terminal = <<NoTerminal>>] ELSE disk
    /\ UNCHANGED <<call, supSteady>>

SupLimits ==
    /\ SupAt("limits", IF LimitsHold THEN "launch" ELSE "note")
    /\ UNCHANGED <<proc, call, disk, supSteady>>

SupLaunch ==
    /\ SupAt("launch", "wait")
    /\ \/ Skip("outer", TotalSeconds) /\ UNCHANGED <<ctl, world>>
       \/ NoPopen("outer", TotalSeconds) /\ Fault /\ UNCHANGED ctl
       \/ /\ Popen("outer", TotalSeconds, "dies")
          /\ ctl' = [ctl EXCEPT !.pc = "boot"]
          /\ UNCHANGED world
    /\ UNCHANGED <<input, disk, verdict>>

\* run_process polls, returns and leaves the receipt process.json.
SupPoll ==
    /\ Running("sup") /\ sup.pc = "wait"
    /\ \/ RunProcess("outer") /\ UNCHANGED world
       \/ PollRaises("outer") /\ Fault
    /\ UNCHANGED <<input, ctl, sup, disk, verdict>>

SupReturn ==
    /\ SupAt("wait", "judge")
    /\ call["outer"].pc = "done"
    /\ UNCHANGED <<proc, call, disk, supSteady>>

\* The receipt's digest, the collection's when there is one, then the status.
SupJudge ==
    /\ Running("sup") /\ sup.pc = "judge"
    /\ sup' = [pc |-> "note",
               terminal |-> IF call["outer"].raised THEN sup.terminal ELSE
                   [sup.terminal EXCEPT
                     !.receipt = TRUE,
                     !.collection = disk.collection,
                     !.status = IF call["outer"].status = "complete" /\ disk.collection
                                THEN "complete" ELSE "failed"]]
    /\ UNCHANGED <<proc, call, disk, supSteady>>

SupNote ==
    /\ Running("sup") /\ sup.pc = "note"
    /\ sup' = [sup EXCEPT !.pc = "restore", !.terminal.stop = proc["sup"].told]
    /\ UNCHANGED <<proc, call, disk, supSteady>>

SupRestore ==
    /\ SupAt("restore", "save")
    /\ Default("sup")
    /\ UNCHANGED <<call, disk, supSteady>>

SupSave ==
    /\ SupAt("save", "done")
    /\ disk' = [disk EXCEPT !.terminal = <<sup.terminal>>]
    /\ UNCHANGED <<proc, call, supSteady>>

Supervise ==
    \/ SupStart \/ SupLimits \/ SupLaunch \/ SupPoll \/ SupReturn
    \/ SupJudge \/ SupNote \/ SupRestore \/ SupSave

SolomonSupervise  == Is("solomon")  /\ Supervise
ReasonerSupervise == Is("reasoner") /\ Supervise
CoverageSupervise == Is("coverage") /\ Supervise

--------------------------------------------------------------------------------
(* The controller.                                                          *)

At(from, to) == Running("ctl") /\ ctl.pc = from /\ ctl' = [ctl EXCEPT !.pc = to]
steady == <<input, sup, verdict>>
Stopped == proc["ctl"].told \/ ctl.left = 0
Save(attempt) == disk' = [disk EXCEPT !.attempt = <<attempt>>]

\* The clock starts; Solomon's writes its first attempt; handlers go in.
CtlStart ==
    /\ Running("ctl") /\ ctl.pc = "boot"
    /\ ctl' = [ctl EXCEPT !.pc = "inputs", !.left = TotalSeconds]
    /\ Handles("ctl")
    /\ IF Is("solomon") THEN Save(NoAttempt) ELSE UNCHANGED disk
    /\ UNCHANGED <<call, world, steady>>

CtlInputs ==
    /\ At("inputs", IF InputsHold /\ LimitsHold THEN "next" ELSE "note")
    /\ UNCHANGED <<proc, call, disk, world, steady>>

Last == IF Is("reasoner") THEN Replay ELSE Arms * Passes

\* A native job's calls are counted as an upper bound before they are made.
Booked(i) ==
    IF i \notin Jobs THEN ctl.attempt
    ELSE [ctl.attempt EXCEPT
            !.started = @ + 1,
            !.upper   = @ + IF Is("solomon") /\ Native(i) THEN Calls1 ELSE 0,
            !.unknown = @ \/ (Is("solomon") /\ Native(i))]

\* Mutant: paid calls are booked after they were made.
SavesAfter(i) == ~Is("solomon")
SavesFirst(i) == ~Is("solomon") \/ i \in Jobs

\* The next job is booked and the attempt saved, unless it was stopped.
CtlBook ==
    /\ Running("ctl") /\ ctl.pc = "next" /\ ctl.item <= Last
    /\ ~(ctl.item \in Jobs /\ Stopped)
    /\ ctl' = [ctl EXCEPT !.pc = "start", !.attempt = Booked(ctl.item)]
    /\ IF SavesFirst(ctl.item) THEN Save(Booked(ctl.item)) ELSE UNCHANGED disk
    /\ UNCHANGED <<proc, call, world, steady>>

CtlStopped ==
    /\ At("next", "note")
    /\ ctl.item \in Jobs /\ Stopped
    /\ UNCHANGED <<proc, call, disk, world, steady>>

Least(a, b) == IF a < b THEN a ELSE b
CtlChild ==
    /\ At("start", "wait")
    /\ LET left == Least(ctl.left, JobSeconds)
       IN  \/ Skip("inner", left) /\ UNCHANGED world
           \/ NoPopen("inner", left) /\ Fault
           \/ Popen("inner", left, "dies") /\ UNCHANGED world
           \/ Popen("inner", left, "deaf") /\ Fault
    /\ UNCHANGED <<disk, steady>>

CtlPoll ==
    /\ Running("ctl") /\ ctl.pc = "wait"
    /\ \/ RunProcess("inner") /\ UNCHANGED world
       \/ PollRaises("inner") /\ Fault
    /\ UNCHANGED <<ctl, disk, steady>>

CtlReturn ==
    /\ At("wait", IF call["inner"].status = "complete" THEN "rows" ELSE "note")
    /\ call["inner"].pc = "done"
    /\ call' = [call EXCEPT !["inner"] = NoCall]
    /\ proc' = [p \in Procs |-> IF p \in Group["inner"] THEN Unborn ELSE proc[p]]
    /\ disk' = IF call["inner"].status = "complete"
               THEN [disk EXCEPT !.receipts = @ \cup {ctl.item}] ELSE disk
    /\ UNCHANGED <<world, steady>>

\* The rows of an arm, and those its earlier passes left.
WellFormed(j) == disk.rows[j] # "malformed"
Repeats(j) == \A k \in Jobs : (k < j /\ ArmOf(k) = ArmOf(j)) => disk.rows[k] = disk.rows[j]
RowsHold(i) == ~Is("solomon") \/ (i \in Jobs => WellFormed(i) /\ Repeats(i))

Confirmed(i) ==
    IF i \notin Jobs THEN ctl.attempt
    ELSE [ctl.attempt EXCEPT
            !.completed = @ + 1,
            !.confirmed = @ + IF Is("solomon") /\ Native(i) THEN Calls1 ELSE 0,
            !.unknown   = FALSE]

\* Solomon's reads the rows at once and saves; the others leave them to a
\* replay, to the checker and to the attempt saved before the next item.
CtlRows ==
    /\ Running("ctl") /\ ctl.pc = "rows" /\ RowsHold(ctl.item)
    /\ ctl' = [ctl EXCEPT !.pc = "next", !.item = @ + 1, !.attempt = Confirmed(ctl.item)]
    /\ IF Is("solomon") /\ ctl.item \in Jobs THEN Save(Confirmed(ctl.item)) ELSE UNCHANGED disk
    /\ UNCHANGED <<proc, call, world, steady>>

\* Rows that fail, a compiler that differs, an output over its byte ceiling.
CtlRefuses ==
    /\ At("rows", "note")
    /\ ~RowsHold(ctl.item) \/ ctl.item = Setup \/ Is("coverage")
    /\ UNCHANGED <<proc, call, disk, world, steady>>

\* Coverage's looks at its worker files last, and no longer at the clock.
CtlFinish ==
    /\ Running("ctl") /\ ctl.pc = "next" /\ ctl.item = Last + 1
    /\ ctl' = [ctl EXCEPT !.pc = "note",
                          !.attempt.status = IF Stopped /\ ~Is("coverage")
                                             THEN "failed" ELSE "complete"]
    /\ UNCHANGED <<proc, call, disk, world, steady>>

\* finally: the signal is noted before the handlers go, in coverage's after.
Noted == [ctl.attempt EXCEPT !.stop = proc["ctl"].told]
CtlNote ==
    /\ Running("ctl") /\ ctl.pc = "note"
    /\ ctl' = [ctl EXCEPT !.pc = "restore", !.left = 0,
                          !.attempt = IF Is("coverage") THEN @ ELSE Noted]
    /\ UNCHANGED <<proc, call, disk, world, steady>>

CtlRestore ==
    /\ At("restore", "save")
    /\ Default("ctl")
    /\ UNCHANGED <<call, disk, world, steady>>

CtlSave ==
    /\ At("save", "collect")
    /\ Save(IF Is("coverage") THEN Noted ELSE ctl.attempt)
    /\ UNCHANGED <<proc, call, world, steady>>

CtlCollect ==
    /\ At("collect", "exit")
    /\ disk' = [disk EXCEPT !.collection = TRUE]
    /\ UNCHANGED <<proc, call, world, steady>>

CtlExit ==
    /\ At("exit", "gone")
    /\ proc' = Exits(proc, "ctl", IF ctl.attempt.status = "complete" THEN 0 ELSE 1)
    /\ UNCHANGED <<call, disk, world, steady>>

Run ==
    \/ CtlStart \/ CtlInputs \/ CtlBook \/ CtlStopped \/ CtlChild \/ CtlPoll
    \/ CtlReturn \/ CtlRows \/ CtlRefuses \/ CtlFinish
    \/ CtlNote \/ CtlRestore \/ CtlSave \/ CtlCollect \/ CtlExit

SolomonRun  == Is("solomon")  /\ Run
ReasonerRun == Is("reasoner") /\ Run
CoverageRun == Is("coverage") /\ Run

--------------------------------------------------------------------------------
(* The workers, and what may happen to the processes.                       *)

workers == <<call, ctl, input, sup, verdict>>

\* One model call of a native job.
Work ==
    /\ Running("job") /\ Native(ctl.item) /\ Is("solomon")
    /\ world.now < Calls1
    /\ world' = [world EXCEPT !.made = @ + 1, !.now = @ + 1]
    /\ UNCHANGED <<proc, disk, workers>>

\* A replay exits 0 only on rows that hold and repeat.
MayExitZero(i) ==
    /\ Is("solomon") /\ Native(i) => world.now = Calls1
    /\ i = Replay => \A j \in Jobs : WellFormed(j) /\ Repeats(j)

Clean == IF call["inner"].sent = {} THEN "clean" ELSE "spoilt"

JobExits(code) ==
    /\ Running("job")
    /\ code = 0 => MayExitZero(ctl.item)
    /\ proc' = Exits(proc, "job", code)
    /\ \E rows \in IF code = 0 /\ ctl.item \in Jobs THEN {"some", "other", "malformed"}
                                                     ELSE {"none"} :
        /\ rows \in {"other", "malformed"} => world.faults < Faults
        /\ world' = [world EXCEPT !.now = 0,
                        !.faults = @ + IF rows \in {"other", "malformed"} THEN 1 ELSE 0,
                        !.ended[ctl.item] = IF code = 0 THEN Clean ELSE "failed"]
        /\ disk' = IF ctl.item \in Jobs THEN [disk EXCEPT !.rows[ctl.item] = rows] ELSE disk
    /\ UNCHANGED workers

JobFloods ==
    /\ Running("job") /\ ~proc["job"].flood
    /\ proc' = [proc EXCEPT !["job"].flood = TRUE]
    /\ disk' = [disk EXCEPT !.over = @ \cup {ctl.item}]
    /\ Fault
    /\ UNCHANGED workers

JobForks ==
    /\ Running("job") /\ proc["kid"].st = "unborn"
    /\ \E term \in {"dies", "deaf"} :
        proc' = [proc EXCEPT !["kid"] = [Unborn EXCEPT !.st = "runs", !.term = term]]
    /\ Fault
    /\ UNCHANGED <<disk, workers>>

KidExits ==
    /\ Running("kid")
    /\ proc' = Exits(proc, "kid", 0)
    /\ UNCHANGED <<disk, world, workers>>

\* Its parent waits for it, or the system's first process does.
KidReaped ==
    /\ proc["kid"].st = "zombie"
    /\ proc' = [proc EXCEPT !["kid"].st = "gone"]
    /\ UNCHANGED <<disk, world, workers>>

Worker == Work \/ JobExits(0) \/ JobExits(1) \/ JobFloods \/ JobForks \/ KidExits \/ KidReaped

\* The operator or the host stops the supervisor.
TermSup ==
    /\ Running("sup") /\ ~proc["sup"].told /\ sup.pc # "done"
    /\ proc' = Signalled(proc, {"sup"}, "TERM")
    /\ UNCHANGED <<disk, world, workers>>

\* The kernel kills a process for its memory.
Struck ==
    /\ world.faults < Faults
    /\ \E p \in {"ctl", "job"} :
        /\ Running(p)
        /\ proc' = Signalled(proc, {p}, "KILL")
        /\ world' = [world EXCEPT !.faults = @ + 1, !.struck = @ \cup {p}]
    /\ UNCHANGED <<disk, workers>>

\* A second passes.
Tick ==
    /\ ~Due
    /\ \E c \in Calls : Polling(c)
    /\ call' = [c \in Calls |-> Later(c)]
    /\ ctl' = IF Running("ctl") THEN [ctl EXCEPT !.left = Down(@)] ELSE ctl
    /\ UNCHANGED <<proc, disk, input, sup, world, verdict>>

\* What was collected is changed, added to or cut short before it is checked.
Damage ==
    /\ ~Running("sup") \/ sup.pc = "done"
    /\ verdict = "none" /\ world.faults < Faults
    /\ world' = [world EXCEPT !.damaged = TRUE, !.faults = @ + 1]
    /\ UNCHANGED <<proc, disk, workers>>

--------------------------------------------------------------------------------
(* The checker, given the digest of the SUPERVISOR.json it expects.         *)

TerminalHolds(t) == t.status = "complete" /\ ~t.stop /\ t.receipt /\ t.collection

Inventory == ~world.damaged
\* Mutant: a receipt is enough, whatever it says.
ReceiptOnly(i) == i \in disk.receipts

\* Each checker's own reading of the rows; the reasoner's replays them.
SolomonVectors(j) == Is("solomon")  /\ WellFormed(j) /\ Repeats(j)
ReasonerReplay(j) == Is("reasoner") /\ WellFormed(j) /\ Repeats(j)
CoverageTrace(j)  == Is("coverage") /\ WellFormed(j) /\ Repeats(j)
CheckedRows(j) == SolomonVectors(j) \/ ReasonerReplay(j) \/ CoverageTrace(j)

\* Complete, and its logs within their limit, which run_process only samples.
ProcessAt(i) == i \in disk.receipts /\ i \notin disk.over

AttemptHolds(a) ==
    /\ a.status = "complete" /\ ~a.stop
    /\ a.started = Arms * Passes /\ a.completed = Arms * Passes
    /\ Is("solomon") => /\ a.confirmed = NativeTotal /\ a.upper = NativeTotal
                        /\ ~a.unknown

Accepted ==
    /\ disk.terminal # Absent /\ TerminalHolds(disk.terminal[1])
    /\ InputsHold /\ LimitsHold
    /\ Inventory
    /\ disk.attempt # Absent /\ AttemptHolds(disk.attempt[1])
    /\ \A i \in Setup .. Last : ProcessAt(i)
    /\ \A j \in Jobs : CheckedRows(j)

Check ==
    /\ ~Running("sup") \/ sup.pc = "done"
    /\ verdict = "none"
    /\ verdict' = IF Accepted THEN "verified_complete" ELSE "failed"
    /\ UNCHANGED <<proc, call, input, ctl, sup, disk, world>>

SolomonCheck  == Is("solomon")  /\ Check
ReasonerCheck == Is("reasoner") /\ Check
CoverageCheck == Is("coverage") /\ Check

--------------------------------------------------------------------------------
Studies ==
    \/ SolomonSupervise \/ ReasonerSupervise \/ CoverageSupervise
    \/ SolomonRun \/ ReasonerRun \/ CoverageRun

Next == Studies \/ Worker \/ TermSup \/ Struck \/ Tick \/ Damage
        \/ SolomonCheck \/ ReasonerCheck \/ CoverageCheck

\* The two Python processes and the clock go on; workers may hang for ever.
Fairness == WF_vars(Supervise) /\ WF_vars(Run) /\ WF_vars(Tick)

Spec == Init /\ [][Next]_vars /\ Fairness

--------------------------------------------------------------------------------
(* What a supervised study promises.                                        *)

GroupsEnd ==
    /\ call["inner"].pc = "done" => ~Alive(Group["inner"])
    /\ call["outer"].pc = "done" => ~Alive(Group["outer"])

JobsEnd ==
    call["outer"].pc = "done" /\ ~call["outer"].raised /\ "ctl" \notin world.struck
        => ~Alive({"ctl", "job", "kid"})

\* Once a call of run_process has returned, however it ended, nothing of the
\* group it started runs any more, so nothing writes to the logs whose digests
\* its receipt holds (feral_process.py:74, :91); and when the supervisor has its
\* answer no job is left behind in the session of its own the controller gave
\* it: the outer grace is the longer one.  Unless the controller was killed from
\* outside or the supervisor's own call threw (research_solomon_study.py:252).
NothingOutlives == GroupsEnd /\ JobsEnd

\* At every moment, so also where a process dies, the attempt on disk bounds
\* the model calls made, and is exact when it does not say `unknown'; and no
\* more jobs are completed on disk than really ended well.
WorkAccounted ==
    /\ Is("solomon") /\ disk.attempt # Absent =>
        LET a == disk.attempt[1]
        IN  /\ a.confirmed <= world.made /\ world.made <= a.upper
            /\ ~a.unknown => a.confirmed = world.made
    /\ disk.attempt # Absent =>
        disk.attempt[1].completed <= Cardinality({j \in Jobs : world.ended[j] = "clean"})

\* A verified study ran every item once to a clean end, in its own time, with
\* rows that hold and repeat; nothing of it was struck or damaged, and nobody
\* had stopped it when its controller closed the collection.
VerifiedMeansWhole ==
    verdict = "verified_complete" =>
        /\ \A i \in Setup .. Last : world.ended[i] = "clean" /\ i \notin disk.over
        /\ \A j \in Jobs : WellFormed(j) /\ Repeats(j)
        /\ world.struck = {} /\ ~world.damaged
        /\ call["outer"].status = "complete"
        /\ Is("solomon") => world.made = NativeTotal

\* Hung workers, lost signals and a kill from outside notwithstanding, the
\* supervisor ends with its record on disk, unless a TERM reached it while it
\* had no handler (research_solomon_study.py:268).
RunEnds == <>(sup.pc = "done" \/ ~Running("sup"))
================================================================================
