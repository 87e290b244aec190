------------------------------- MODULE Zero4Check ------------------------------
(***************************************************************************)
(* src/scripts/check_zero4_study.py replays what a study has left: the     *)
(* seal, every process under it, the fixed rule of selection, the rows of  *)
(* every endpoint.  run_study calls it at its end, and anybody may call it *)
(* later.  Between the two a record may be altered, as row_attacks does to *)
(* the finished study.  The replay compares records with one another: it   *)
(* finds one that no longer agrees with the rest, and not a figure that no *)
(* second record repeats, or that was changed wherever it is repeated.     *)
(***************************************************************************)
EXTENDS Zero4Study

Intact == inputs = "whole"
EndStages == {Family[j] : j \in DOMAIN Family}

\* The records the replay is about: a dead study has no RESULT.json.
Present == result # None /\ seal # None

SealFits ==
    /\ seal.training = train /\ Len(train) = Seeds * A
    /\ seal.choices = SealedChoices(train)

SetupFirst ==
    /\ Len(rows) >= Len(Binaries)
    /\ \A k \in DOMAIN rows : (rows[k].stage = "compile") = (k <= Len(Binaries))

ReceiptFits(row) == row.file # None /\ row.sha = row.file /\ row.status = row.file.status

\* Mutant: the order of processes and seal is not replayed.
StageOnly(k) == rows[k].stage \in EndStages \cup {"compile", "training", "exact-parser"}
\* Nothing but training before the seal, nothing but endpoints under it.
UnderSeal(k) ==
    IF k <= seal.before THEN rows[k].seal = None /\ rows[k].stage \in {"compile", "training"}
    ELSE rows[k].seal = seal.ver /\ rows[k].stage \in EndStages \cup {"exact-parser"}

\* Every chunk that completed has left exactly one checkpoint.
Checkpointed(n) ==
    \A k \in TrainingRows(rows, n) :
        rows[k].status = "complete" => \E c \in DOMAIN train[n].cands : train[n].cands[c].row = k

CandidatesFit(n) ==
    LET cands == train[n].cands
    IN  /\ cands[1] = Initial
        /\ \A c \in DOMAIN cands \ {1} :
              /\ cands[c].attempts > cands[c - 1].attempts
              /\ cands[c].attempts <= cands[c - 1].attempts + Chunk
              /\ cands[c].cost = Charged(rows, n, cands[c].row)

SelectedByRule(n) == train[n].selected = Eligible(train[n].cands)

SamplesFit(n) == train[n].attempts > 0 => train[n].log # "refused"

EndRows(n) == {k \in DOMAIN rows : rows[k].owner = n /\ rows[k].stage # "training"}
Evaluated(n) ==
    /\ Cardinality(EndRows(n)) = Len(Family)
    /\ \A k \in EndRows(n) : rows[k].status = "complete"

\* The record of the endpoint, and the rows of every case it names.
EndpointFits(n) ==
    /\ {rows[k].stage : k \in EndRows(n)} = EndStages
    /\ ends[n] # None
    /\ ends[n].seal = seal.ver /\ ends[n].model = train[n].selected

RetentionWhole(n) == "retention" \in ends[n].whole
TaskWhole(n) == "task" \in ends[n].whole
LanguageWhole(n) == {"blimp", "tinystories"} \subseteq ends[n].whole
WorkersFit(n) == TaskWhole(n) /\ LanguageWhole(n)

GoldRows == {k \in DOMAIN rows : rows[k].stage = "exact-parser"}
GoldDone == Cardinality(GoldRows) = 1 /\ \A k \in GoldRows : rows[k].status = "complete"

OwnerFits(n) ==
    /\ Checkpointed(n) /\ CandidatesFit(n) /\ SelectedByRule(n) /\ SamplesFit(n)
    /\ Evaluated(n) => EndpointFits(n) /\ WorkersFit(n) /\ RetentionWhole(n)

Sound ==
    /\ Intact /\ Present /\ SealFits /\ SetupFirst
    /\ \A k \in DOMAIN rows : ReceiptFits(rows[k]) /\ UnderSeal(k)
    /\ \A n \in Owners : OwnerFits(n)
    /\ \A s \in 1 .. Seeds : Paired(train, s)
    /\ ~ctl.over

\* Mutant: an honest early stop counts as incomplete.
IncompleteUnlessAll ==
    \/ result.status # "complete" \/ ~GoldDone
    \/ \E n \in Owners : train[n].status # "complete" \/ ~Evaluated(n)
Incomplete ==
    \/ result.status # "complete" \/ ~GoldDone
    \/ \E n \in Owners : \/ train[n].status = "failed" \/ ~Evaluated(n)
                         \/ \E k \in TrainingRows(rows, n) : rows[k].status # "complete"

\* The status is written before the last two requirements: a check that ends in
\* an error may have left a status that says complete.
Replay ==
    IF ~Sound THEN [status |-> "failed", error |-> TRUE]
    ELSE [status |-> IF Incomplete THEN "incomplete" ELSE "complete",
          error |-> result.count # Len(rows) \/ (result.status = "complete" /\ Incomplete)]

Checks ==
    /\ ctl.pc = "check" \/ (Ended /\ verdict # Replay)
    /\ verdict' = Replay
    /\ ctl' = IF ctl.pc = "check" THEN At("done", 1, 1) ELSE ctl
    /\ UNCHANGED <<inputs, rows, trial, hurt, mishaps>>

--------------------------------------------------------------------------------
(* Alterations of what was done: of an input, of the order and the seal, of *)
(* a training's cost, of the choice, the cases, the roster or the result.   *)
(* The digests that name the altered record are made to fit, and another    *)
(* record still has what it was.  What is changed wherever it is repeated,  *)
(* such as a training's cost with its candidates and the seal, is not       *)
(* modelled: comparing records with one another could not find it.          *)

\* One at most: two of them could undo each other.
Hurts == ~hurt /\ Mishap /\ hurt' = TRUE
Alters == Hurts /\ UNCHANGED <<ctl, result, verdict>>

AltersInputs ==
    /\ inputs = "whole" /\ ctl.pc # "prepare" /\ Alters
    /\ inputs' = "altered"
    /\ UNCHANGED <<rows, train, seal, ends>>

\* The seal may be written over while models are evaluated under it.
AltersSeal ==
    /\ seal # None /\ Alters
    /\ \/ \E b \in {seal.before - 1, seal.before + 1} : seal' = [seal EXCEPT !.ver = @ + 1, !.before = b]
       \/ \E n \in Owners : seal' = [seal EXCEPT !.ver = @ + 1, !.choices[n].selected = Initial]
                           /\ seal.choices[n].selected # Initial
    /\ UNCHANGED <<inputs, rows, train, ends>>

Finished == Ended /\ seal # None

AltersStage ==
    /\ Finished /\ Alters
    /\ \E k \in DOMAIN rows : rows[k].stage = "training" /\ rows' = [rows EXCEPT ![k].stage = "retention"]
    /\ UNCHANGED <<inputs, train, seal, ends>>

AltersStatus ==
    /\ Finished /\ Alters
    /\ \E k \in DOMAIN rows : rows[k].status # "complete" /\ rows' = [rows EXCEPT ![k].status = "complete"]
    /\ UNCHANGED <<inputs, train, seal, ends>>

\* A training's receipt claims another cost, and its row is bound to it again: the
\* candidates still have the sum of what it was.
AltersCost ==
    /\ Finished /\ Alters
    /\ \E k \in DOMAIN rows, c \in Costs :
          /\ rows[k].stage = "training" /\ rows[k].file # None /\ rows[k].file.cost # c
          /\ rows' = [rows EXCEPT ![k].file.cost = c,
                                  ![k].sha = IF @ = None THEN None ELSE [@ EXCEPT !.cost = c]]
    /\ UNCHANGED <<inputs, train, seal, ends>>

\* Another checkpoint is said to be selected, and everything is sealed again.
AltersChoice ==
    /\ Finished /\ Alters
    /\ \E n \in DOMAIN train, c \in DOMAIN train[1].cands :
          /\ c \in DOMAIN train[n].cands /\ train[n].cands[c] # train[n].selected
          /\ train' = [train EXCEPT ![n].selected = train[n].cands[c]]
    /\ seal' = [seal EXCEPT !.ver = @ + 1, !.training = train', !.choices = SealedChoices(train')]
    /\ rows' = [k \in DOMAIN rows |-> [rows[k] EXCEPT !.seal = IF @ = None THEN None ELSE seal.ver + 1]]
    /\ ends' = [n \in Owners |-> IF ends[n] = None THEN None
                                 ELSE [ends[n] EXCEPT !.seal = seal.ver + 1, !.model = train'[n].selected]]
    /\ UNCHANGED inputs

\* A case is dropped from its family, or takes the place of another.
AltersCases ==
    /\ Finished /\ Alters
    /\ \E n \in Owners, f \in Cased :
          ends[n] # None /\ f \in ends[n].whole /\ ends' = [ends EXCEPT ![n].whole = @ \ {f}]
    /\ UNCHANGED <<inputs, rows, train, seal>>

\* One process more than the study had, in order and bound to its receipt.
AltersRoster ==
    /\ Finished /\ Alters
    /\ rows' = Append(rows, [owner |-> 0, stage |-> "task", status |-> "complete", seal |-> seal.ver,
                             file |-> Receipt("complete", 0), sha |-> Receipt("complete", 0)])
    /\ UNCHANGED <<inputs, train, seal, ends>>

AltersResult ==
    /\ Finished /\ result # None /\ result.status = "failed"
    /\ Hurts
    /\ result' = [result EXCEPT !.status = "complete"]
    /\ UNCHANGED <<inputs, ctl, rows, train, seal, ends, verdict>>

--------------------------------------------------------------------------------
(* Figures that are made to fit.  A replay does not find them.              *)

Refits == ~hurt /\ Finished /\ Mishap /\ UNCHANGED <<inputs, ctl, train, seal, result, verdict, hurt>>

\* The values of a family's cases are changed in every file that repeats them: the
\* workers', the merged and the copied rows with the rows_sha256 of WORKERS.json,
\* which no receipt binds, or the windows of retention and their means.
RefitsCases ==
    /\ Refits
    /\ \E n \in Owners, f \in Cased :
          ends[n] # None /\ f \in ends[n].own /\ ends' = [ends EXCEPT ![n].own = @ \ {f}]
    /\ UNCHANGED rows

\* The receipt of a process that trained nothing claims another cost, which still
\* covers its workers', and its row is bound to it again.
RefitsCost ==
    /\ Refits
    /\ \E k \in DOMAIN rows, c \in Costs :
          /\ rows[k].stage # "training" /\ rows[k].file # None /\ rows[k].sha = rows[k].file
          /\ rows[k].file.cost # c
          /\ rows' = [rows EXCEPT ![k].file.cost = c, ![k].sha.cost = c]
    /\ UNCHANGED ends

--------------------------------------------------------------------------------
Setting == Prepares \/ Validates \/ CompileStarts \/ CompileEnds
Training == TrainStarts \/ TrainBreaks \/ CheckpointRefused \/ SamplesRefused \/ TrainEnds \/ SeedCloses
Evaluating == Seals \/ EvaluateStarts \/ EvaluateBreaks \/ EvaluateEnds \/ GoldStarts \/ GoldEnds
Altering == AltersInputs \/ AltersSeal \/ AltersStage \/ AltersStatus \/ AltersCost \/ AltersChoice
            \/ AltersCases \/ AltersRoster \/ AltersResult
Refitting == RefitsCases \/ RefitsCost

StudyNext == Setting \/ Training \/ Evaluating \/ Saves \/ Checks \/ Lates \/ Dies
             \/ Altering \/ Refitting
StudySpec == StudyInit /\ [][StudyNext]_studyVars

--------------------------------------------------------------------------------
StudyTypeOK ==
    /\ inputs \in {"absent", "whole", "altered"}
    /\ \A k \in DOMAIN rows : rows[k].owner \in Owners \cup {0}
                              /\ rows[k].status \in {"running", "complete", "failed", "skipped"}
    /\ \A n \in DOMAIN train : train[n].status \in StateStatuses
                               /\ \A c \in DOMAIN train[n].cands : train[n].cands[c] \in Candidates
    /\ verdict = None \/ verdict.status \in {"failed", "incomplete", "complete"}

\* What is sealed is, for every seed and arm, the furthest checkpoint the allowance
\* paid for, out of a process that completed; whatever ran before the seal had
\* ended and was no endpoint, and no training follows it.
SealedByRule ==
    (seal # None /\ ~hurt) =>
        /\ \A n \in Owners :
              LET c == seal.choices[n].selected
              IN  /\ c.cost <= Budget /\ c.cost = Charged(rows, n, c.row)
                  /\ c.row > 0 => rows[c.row].status = "complete" /\ rows[c.row].owner = n
                  /\ \A d \in DOMAIN train[n].cands :
                        train[n].cands[d].attempts > c.attempts => train[n].cands[d].cost > Budget
        /\ \A k \in DOMAIN rows :
              IF k <= seal.before THEN rows[k].status # "running" /\ rows[k].stage \in {"compile", "training"}
              ELSE rows[k].stage # "training" /\ rows[k].seal = seal.ver

\* A check that says complete and ends without an error has replayed a study in
\* which everything ran to its end and whose every case has its row, and to which
\* none of the alterations of Altering was done.  It does not say that the figures
\* in those rows, or the costs of the endpoints, are what was measured: Refitting.
CheckMeansWhole ==
    [][ (verdict' # verdict /\ verdict' = [status |-> "complete", error |-> FALSE])
        => /\ ~hurt
           /\ \A n \in Owners : train[n].status # "failed" /\ Evaluated(n) /\ ends[n].whole = Cased
           /\ GoldDone ]_studyVars

\* The replay agrees with a study that says it is complete: budgets reached, guards
\* exhausted and fallbacks to the frozen model included, and figures that were made
\* to fit.  Only the size of the output can be found wanting after the last process;
\* an evaluator that exits 0 is taken to have left a row for every case.
CompletePasses ==
    (verdict # None /\ result # None /\ ~hurt /\ ~ctl.over /\ result.status = "complete")
        => verdict = [status |-> "complete", error |-> FALSE]
================================================================================
