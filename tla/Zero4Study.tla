------------------------------- MODULE Zero4Study ------------------------------
(***************************************************************************)
(* src/scripts/zero4_study.py runs the ZERO.4 comparison and               *)
(* check_zero4_study.py replays it.  Every arm is trained for each seed in *)
(* chunks; when all training is over one checkpoint of each is selected by *)
(* its cost and sealed, and only then is anything evaluated.  Every native *)
(* process has a row in PROCESSES.json that names the seal it ran under.   *)
(* The records lie open: they may be altered before they are replayed.     *)
(***************************************************************************)
EXTENDS Integers, Sequences, FiniteSets, FiniteSetsExt

CONSTANTS
    Arms,           \* ARMS, in order
    Seeds,          \* number of seeds
    Attempts,       \* training.attempts
    Chunk,          \* training.chunk_attempts
    Budget,         \* training_cpu_us
    Costs,          \* what a training process may cost
    Mishaps,        \* bound on what goes wrong
    None

Guarded == {"replay_guard", "replay_projection"}
Replays == Guarded \cup {"replay"}
Trained == Replays \cup {"task_only"}

ASSUME Zero4StudyAssumption ==
    /\ Arms \in Seq(Trained \cup {"frozen"}) /\ Len(Arms) > 0
    /\ Seeds \in Nat \ {0} /\ Attempts \in Nat /\ Chunk \in Nat \ {0} /\ Attempts % Chunk = 0
    /\ Budget \in Nat /\ Costs \subseteq Nat /\ Mishaps \in Nat

\* What the records hold.
StateStatuses == {"complete", "failed", "training", "training_budget_reached", "guard_exhausted"}
Candidates    == [attempts : 0 .. Attempts, cost : Nat, row : Nat]
ReceiptType   == [status : {"complete", "failed", "skipped"}, cost : Nat]
StateType     == [attempts : 0 .. Attempts, status : StateStatuses, cands : Seq(Candidates),
                  selected : Candidates \cup {None}, log : {"absent", "fixed", "other", "refused"}]
ChoiceType    == [status : StateStatuses, selected : Candidates \cup {None}]
SealType      == [ver : Nat, training : Seq(StateType), choices : Seq(ChoiceType), before : Int]
EndType       == [seal : Nat, model : Candidates \cup {None},
                  whole : SUBSET {"retention", "task", "blimp", "tinystories"},
                  own : SUBSET {"retention", "task", "blimp", "tinystories"}]
ResultType    == [count : Nat, status : {"complete", "failed"}]

ASSUME NothingAssumption ==
    None \notin Nat \cup ReceiptType \cup SealType \cup EndType \cup ResultType

VARIABLES
    inputs,     \* the prepared files and their manifest
    ctl,        \* where run_study is
    rows,       \* PROCESSES.json and the receipts it names
    train,      \* TRAINING.json, one state for each seed and arm
    seal,       \* SELECTION.json
    ends,       \* ENDPOINT.json and the case rows of each evaluated model
    result,     \* RESULT.json
    verdict,    \* CHECK.json
    hurt,       \* an input, or a record of what was done, was altered
    mishaps     \* what may still go wrong

studyVars == <<inputs, ctl, rows, train, seal, ends, result, verdict, hurt, mishaps>>
trial     == <<train, seal, ends, result>>

Binaries == <<"lm", "export", "task", "language", "gold">>
Family   == <<"export", "retention", "task", "blimp", "tinystories">>
Cased    == {"retention", "task", "blimp", "tinystories"}
A        == Len(Arms)

\* ARMS rotated left by the index of the seed
Rotated(s) == [k \in 1 .. A |-> Arms[((s + k - 2) % A) + 1]]
Owners     == 1 .. Seeds * A
SeedOf(n)  == ((n - 1) \div A) + 1
ArmOf(n)   == Rotated(SeedOf(n))[((n - 1) % A) + 1]
OfSeed(s)  == (s - 1) * A + 1 .. s * A

--------------------------------------------------------------------------------
(* The records.  A digest is the version of a file: an edit makes a new one. *)

\* file: process.json; sha: the copy the row is bound to
NewRow(owner, stage) ==
    [owner |-> owner, stage |-> stage, status |-> "running",
     seal |-> IF seal = None THEN None ELSE seal.ver, file |-> None, sha |-> None]

Initial == [attempts |-> 0, cost |-> 0, row |-> 0]

\* log: samples.jsonl is absent, in the fixed order, in another, or has rows missing
NewState(n) ==
    [attempts |-> 0, status |-> IF ArmOf(n) = "frozen" THEN "complete" ELSE "training",
     cands |-> <<Initial>>, selected |-> None, log |-> "absent"]

StudyInit ==
    /\ inputs = "absent"
    /\ ctl = [pc |-> "prepare", i |-> 1, j |-> 1, over |-> FALSE, late |-> FALSE, erred |-> FALSE]
    /\ rows = <<>> /\ train = <<>> /\ seal = None
    /\ ends = [n \in Owners |-> None]
    /\ result = None /\ verdict = None /\ hurt = FALSE /\ mishaps = Mishaps

Mishap == mishaps > 0 /\ mishaps' = mishaps - 1
At(pc, i, j) == [ctl EXCEPT !.pc = pc, !.i = i, !.j = j]
Erred(c) == [c EXCEPT !.erred = TRUE]
Raised == Erred([ctl EXCEPT !.pc = "raise"])
Ended == ctl.pc \in {"done", "dead"}

\* prepare writes a manifest of what it copied; validate hashes it all again.
Prepares ==
    /\ ctl.pc = "prepare"
    /\ \/ inputs' = "whole" /\ UNCHANGED mishaps
       \/ Mishap /\ UNCHANGED inputs
    /\ ctl' = At("validate", 1, 1)
    /\ UNCHANGED <<rows, trial, verdict, hurt>>

Validates ==
    /\ ctl.pc = "validate"
    /\ ctl' = IF inputs = "whole" THEN At("compile", 1, 1) ELSE Raised
    /\ UNCHANGED <<inputs, rows, trial, verdict, hurt, mishaps>>

--------------------------------------------------------------------------------
(* Processes.run: a row is saved before the process and after it.           *)

Last == rows[Len(rows)]
Busy == Len(rows) > 0 /\ Last.status = "running"

Starts(owner, stage) ==
    /\ ~Busy
    /\ rows' = Append(rows, NewRow(owner, stage))
    /\ UNCHANGED <<inputs, ctl, trial, verdict, hurt, mishaps>>

Closed(status, file, sha) ==
    [rows EXCEPT ![Len(rows)] = [@ EXCEPT !.status = status, !.file = file, !.sha = sha]]
Receipt(status, cost) == [status |-> status, cost |-> cost]
Bound(status, cost) == Closed(status, Receipt(status, cost), Receipt(status, cost))

\* Nothing is run once the output is over its allowance, a receipt says skipped
\* after the deadline, and one that could not be started is not bound to its row.
Breaks(costs) ==
    /\ Busy
    /\ IF ctl.over THEN rows' = Closed("failed", None, None) /\ UNCHANGED mishaps
       ELSE IF ctl.late THEN rows' = Bound("skipped", 0) /\ UNCHANGED mishaps
       ELSE /\ Mishap
            /\ \/ \E c \in costs : rows' = Bound("failed", c)
               \/ rows' = Closed("failed", Receipt("failed", 0), None)

\* The allowance is looked at before a process only: this one may exceed it.
Completes(costs, over) ==
    /\ Busy /\ ~ctl.over /\ ~ctl.late
    /\ \E c \in costs : rows' = Bound("complete", c)
    /\ over => mishaps > 0
    /\ mishaps' = IF over THEN mishaps - 1 ELSE mishaps

Overs(c, over) == [c EXCEPT !.over = over]

\* Processes.cpu: what every process of an owner's training cost, kept or not
TrainingRows(table, n) == {i \in DOMAIN table : table[i].owner = n /\ table[i].stage = "training"}
FileCost(row) == IF row.file = None THEN 0 ELSE row.file.cost
Cost(table, n, k) == IF k \in TrainingRows(table, n) THEN FileCost(table[k]) ELSE 0
Charged(table, n, last) ==
    LET cpu[k \in 0 .. last] == IF k = 0 THEN 0 ELSE cpu[k - 1] + Cost(table, n, k)
    IN  cpu[last]

\* The study's deadline passes; a process under way then is one that breaks.
Lates ==
    /\ ~Busy /\ ~ctl.late /\ ctl.pc \in {"compile", "train", "evaluate", "gold"}
    /\ Mishap /\ ctl' = [ctl EXCEPT !.late = TRUE]
    /\ UNCHANGED <<inputs, rows, trial, verdict, hurt>>

CompileStarts == ctl.pc = "compile" /\ Starts(0, "compile")

OpensSeed(states, s) == [n \in 1 .. s * A |-> IF n \in DOMAIN states THEN states[n] ELSE NewState(n)]

CompileEnds ==
    /\ ctl.pc = "compile"
    /\ \/ Breaks({0}) /\ ctl' = Raised /\ UNCHANGED train
       \/ /\ Completes({0}, FALSE)
          /\ IF ctl.i < Len(Binaries)
             THEN ctl' = At("compile", ctl.i + 1, 1) /\ UNCHANGED train
             ELSE ctl' = At("train", 1, 1) /\ train' = OpensSeed(train, 1)
    /\ UNCHANGED <<inputs, seal, ends, result, verdict, hurt>>

--------------------------------------------------------------------------------
(* train: rounds of one chunk for each arm still in training.               *)

Turns == (Attempts \div Chunk) * A
Turn(t) == (ctl.i - 1) * A + ((t - 1) % A) + 1
NextTurn(states, t) ==
    LET open == {u \in t .. Turns : states[Turn(u)].status = "training"}
    IN  IF open = {} THEN Turns + 1 ELSE Min(open)

Learner == Turn(NextTurn(train, ctl.j))
TrainStarts ==
    /\ ctl.pc = "train" /\ NextTurn(train, ctl.j) <= Turns
    /\ Starts(Learner, "training")

\* The controller keeps its own place: the turn it took is the one it is in.
TrainDone(state, over) ==
    /\ train' = [train EXCEPT ![Learner] = state]
    /\ ctl' = Overs([ctl EXCEPT !.j = NextTurn(train, ctl.j) + 1], over)
    /\ UNCHANGED <<inputs, seal, ends, result, verdict, hurt>>

FailedState(state) == [state EXCEPT !.status = "failed"]

TrainBreaks ==
    /\ ctl.pc = "train" /\ Breaks(Costs)
    /\ TrainDone(FailedState(train[Learner]), ctl.over)

\* checkpoint: a file of another format, or that moved by no attempt or too many
CheckpointRefused ==
    /\ ctl.pc = "train" /\ Mishap /\ Busy /\ ~ctl.over /\ ~ctl.late
    /\ \E c \in Costs : rows' = Bound("complete", c)
    /\ TrainDone(FailedState(train[Learner]), FALSE)

\* verify_samples: the attempts are counted before the samples are read
Reached(state) == state.attempts + 1 .. Min({state.attempts + Chunk, Attempts})
SamplesRefused ==
    /\ ctl.pc = "train" /\ Mishap /\ Busy /\ ~ctl.over /\ ~ctl.late
    /\ \E c \in Costs : rows' = Bound("complete", c)
    /\ \E p \in Reached(train[Learner]) :
          TrainDone([FailedState(train[Learner]) EXCEPT !.attempts = p, !.log = "refused"], FALSE)

\* What stopped it, if anything; exceeding the allowance is said last.
Stopped(state, exhausted, cost) ==
    IF cost > Budget THEN "training_budget_reached"
    ELSE IF exhausted THEN "guard_exhausted"
    ELSE IF state.attempts = Attempts THEN "complete" ELSE "training"

Advanced(state, p, log, exhausted, cost) ==
    LET next == [state EXCEPT !.attempts = p, !.log = log,
                     !.cands = Append(@, [attempts |-> p, cost |-> cost, row |-> Len(rows)])]
    IN  [next EXCEPT !.status = Stopped(next, exhausted, cost)]

Logs(state) == IF state.log = "other" THEN {"other"} ELSE {"fixed", "other"}
TrainEnds ==
    LET state == train[Learner]
    IN  /\ ctl.pc = "train"
        /\ \E p \in Reached(state), log \in Logs(state), over \in BOOLEAN,
              exhausted \in IF ArmOf(Learner) \in Guarded THEN BOOLEAN ELSE {FALSE} :
              /\ Completes(Costs, over \/ (log # "fixed" /\ state.log # "other"))
              /\ TrainDone(Advanced(state, p, log, exhausted, Charged(rows', Learner, Len(rows))), over)

\* eligible: the latest checkpoint that was paid for; the frozen one always is
WithinBudget(c) == c.cost <= Budget
\* Mutant: a checkpoint that was not paid for is eligible.
Any(cands) == DOMAIN cands
Paid(cands) == {k \in DOMAIN cands : WithinBudget(cands[k])}
Eligible(cands) == cands[CHOOSE k \in Paid(cands) : \A l \in Paid(cands) :
                            cands[l].attempts <= cands[k].attempts]

Selected(state) ==
    [state EXCEPT !.status = IF @ = "training" THEN "failed" ELSE @,
                  !.selected = Eligible(state.cands)]

\* The replaying arms of a seed saw the same samples, as far as they got.
Paired(states, s) ==
    Cardinality({states[n].log : n \in {m \in OfSeed(s) : ArmOf(m) \in Replays
                                            /\ states[m].log \in {"fixed", "other"}}}) <= 1

SeedCloses ==
    /\ ctl.pc = "train" /\ ~Busy /\ NextTurn(train, ctl.j) > Turns
    /\ LET closed == [n \in DOMAIN train |-> IF n \in OfSeed(ctl.i) THEN Selected(train[n]) ELSE train[n]]
       IN  IF ~Paired(closed, ctl.i)
           THEN ctl' = Raised /\ train' = closed
           ELSE IF ctl.i < Seeds
           THEN /\ ctl' = At("train", ctl.i + 1, 1)
                /\ train' = OpensSeed(closed, ctl.i + 1)
           ELSE ctl' = At("seal", 1, 1) /\ train' = closed
    /\ UNCHANGED <<inputs, rows, seal, ends, result, verdict, hurt, mishaps>>

SealedChoices(states) == [n \in DOMAIN states |-> [status |-> states[n].status, selected |-> states[n].selected]]

Seals ==
    /\ ctl.pc = "seal"
    /\ seal' = [ver |-> 0, training |-> train, choices |-> SealedChoices(train), before |-> Len(rows)]
    /\ ctl' = At("evaluate", 1, 1)
    /\ UNCHANGED <<inputs, rows, train, ends, result, verdict, hurt, mishaps>>

--------------------------------------------------------------------------------
(* evaluate: five processes for each model, under the one seal.             *)

EvaluateStarts == ctl.pc = "evaluate" /\ Starts(ctl.i, Family[ctl.j])

NextOwner == IF ctl.i < Seeds * A THEN At("evaluate", ctl.i + 1, 1) ELSE At("gold", 1, 1)

EvaluateBreaks ==
    /\ ctl.pc = "evaluate" /\ Breaks({0})
    /\ ctl' = Erred(NextOwner)
    /\ UNCHANGED <<inputs, trial, verdict, hurt>>

\* The selection is hashed before the first process and after the last.
SealUnchanged == rows[Len(rows) - 4].seal = seal.ver
\* whole: every case has its row; own: the rows hold what the evaluators found
EndpointOf(n) ==
    [seal |-> seal.ver, model |-> train[n].selected, whole |-> Cased, own |-> Cased]

EvaluateEnds ==
    /\ ctl.pc = "evaluate"
    /\ \E over \in BOOLEAN :
          /\ Completes({0}, over)
          /\ IF ctl.j < Len(Family)
             THEN ctl' = Overs([ctl EXCEPT !.j = @ + 1], over) /\ UNCHANGED ends
             ELSE IF SealUnchanged
             THEN ctl' = Overs(NextOwner, over) /\ ends' = [ends EXCEPT ![ctl.i] = EndpointOf(ctl.i)]
             ELSE ctl' = Erred(Overs(NextOwner, over)) /\ UNCHANGED ends
    /\ UNCHANGED <<inputs, train, seal, result, verdict, hurt>>

GoldStarts == ctl.pc = "gold" /\ Starts(0, "exact-parser")
GoldEnds ==
    /\ ctl.pc = "gold"
    /\ \/ Breaks({0}) /\ ctl' = Erred(At("result", 1, 1))
       \/ Completes({0}, FALSE) /\ ctl' = At("result", 1, 1)
    /\ UNCHANGED <<inputs, trial, verdict, hurt>>

\* The finally of run_study; only a study that raised nothing goes on to the check.
Saves ==
    /\ ctl.pc \in {"result", "raise"}
    /\ result' = [count |-> Len(rows),
                  status |-> IF ctl.erred \/ \E n \in DOMAIN train : train[n].status = "failed"
                             THEN "failed" ELSE "complete"]
    /\ ctl' = IF ctl.pc = "result" THEN At("check", 1, 1) ELSE At("done", 1, 1)
    /\ UNCHANGED <<inputs, rows, train, seal, ends, verdict, hurt, mishaps>>

\* No handler is installed: a TERM or a KILL leaves what was saved so far.
Dies ==
    /\ ~Ended /\ Mishap
    /\ ctl' = At("dead", 1, 1)
    /\ UNCHANGED <<inputs, rows, trial, verdict, hurt>>
================================================================================
