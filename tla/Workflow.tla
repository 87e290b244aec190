------------------------------ MODULE Workflow ------------------------------
(***************************************************************************)
(* The promoted lane of ilXyr (crates/ilxyr-core/src/workflow.rs, with the *)
(* seals and intents of lifecycle.rs and the external registrations of     *)
(* registration.rs): contributions are compiled into a frozen experiment,  *)
(* forecasts and funding are collected, admission closes them, a local run *)
(* is executed, and its evidence, forecast settlements and calibrations    *)
(* are appended one ledger event at a time.                                *)
(*                                                                         *)
(* A variable is a projection of the append-only ledger: what the latest   *)
(* (or the only) event of a kind says of an aggregate.  A handler that     *)
(* appends one event is one action.  run_experiment appends several, so it *)
(* is one action per append, and the process may die between any two of    *)
(* them.  An append together with the reads it rests on is atomic, which   *)
(* is weaker than the single-writer rule of docs/ARCHITECTURE.md: here     *)
(* every other handler may run while an experiment executes or finalizes.  *)
(***************************************************************************)
EXTENDS Ledger, Naturals, FiniteSets, FiniteSetsExt

CONSTANTS
    Contribution,     \* research contribution ids
    Forecast,         \* forecast ids
    Commitment,       \* funding commitment ids
    Identity,         \* actor identities (a model actor is its model_ref)
    Outcome,          \* outcome ids of the frozen outcome contracts
    Registration,     \* registrations of the external providers
    Intent,           \* the intents operators declare
    Design,           \* the frozen content of each experiment
    ContributionOf,   \* the content of each contribution
    ForecastOf,       \* the content of each forecast
    FundingOf,        \* the content of each commitment
    CreditLimit,      \* the largest credit total (u64::MAX in the code)
    MaxAttempts,      \* bound: executions of one experiment
    MaxAborts         \* bound: deaths of a run process

Stage == {"hypothesis", "mathematical_foundation",
          "engineering_review", "experiment_design"}

DesignType ==
    [proposer: Identity, lineage: [Stage -> Contribution],
     minForecasters: Nat \ {0}, minStake: Nat \ {0}, credits: Nat \ {0},
     preregistered: BOOLEAN]

ASSUME ContentAssumption ==
    /\ Design \in [Experiment -> DesignType]
    /\ ContributionOf \in [Contribution -> [stage: Stage, author: Identity]]
    /\ ForecastOf \in [Forecast -> [experiment: Experiment, identity: Identity,
                                    service: BOOLEAN, stake: Nat \ {0}]]
    /\ FundingOf \in [Commitment -> [experiment: Experiment, credits: Nat \ {0}]]

(* A run record keeps which attempt produced it and the outcomes its       *)
(* metrics match; it resolves when exactly one outcome matches.            *)
RunType == [attempt: 1..MaxAttempts, matches: SUBSET Outcome]
EvidenceType == [attempt: 1..MaxAttempts, outcome: Outcome]

ASSUME NoneAssumption ==
    None \notin Registration \cup Intent \cup Outcome \cup RunType \cup EvidenceType

ASSUME BoundAssumption == CreditLimit \in Nat /\ MaxAttempts \in Nat /\ MaxAborts \in Nat

VARIABLES
    contributed,      \* ContributionSubmitted: the contributions recorded
    compiled,         \* ExperimentCompiled: the experiments frozen
    forecasts,        \* ForecastSubmitted
    commitments,      \* FundingCommitted
    packaged,         \* RegistrationPackaged: experiments with a package
    receipt,          \* ExternalRegistrationRecorded, per experiment
    intent,           \* IntentDeclared, per experiment
    seal,             \* TestDigestSealed / TestDigestReleased, per experiment
    decision,         \* the latest AdmissionDecided, per experiment
    attempts,         \* how many ExecutionStarted, per experiment
    run,              \* the latest ExperimentCompleted, per experiment
    evidence,         \* EvidenceRecorded, per experiment
    settlement,       \* ForecastSettled, per forecast: the outcome scored
    calibration,      \* the latest CalibrationUpdated, per identity: its forecast_ids
    phase,            \* where the run process of an experiment is
    aborts            \* how many run processes have died

inputVars == <<contributed, compiled, forecasts, commitments, packaged, receipt>>
gateVars  == <<intent, seal, decision>>
runVars   == <<attempts, run, evidence, settlement, calibration, phase, aborts>>
vars      == <<inputVars, gateVars, runVars>>

-----------------------------------------------------------------------------
(* What the handlers read from the ledger.                                 *)

ForecastsOn(e)   == {f \in forecasts : ForecastOf[f].experiment = e}
CommitmentsOn(e) == {k \in commitments : FundingOf[k].experiment = e}

\* The sums of workflow.rs::checked_total over a set of forecasts or commitments.
StakeOf(F)  == MapThenSumSet(LAMBDA f : ForecastOf[f].stake, F)
CreditsOf(K) == MapThenSumSet(LAMBDA k : FundingOf[k].credits, K)

\* checked_total refuses a total beyond u64: admission and status then fail.
TotalsFit(e) == /\ StakeOf(ForecastsOn(e)) <= CreditLimit
                /\ CreditsOf(CommitmentsOn(e)) <= CreditLimit

Started(e)  == attempts[e] > 0
Admitted(e) == decision[e] = "accepted"

\* Mutant: inputs stay open until the run, not until the decision.
NotStarted(e) == ~Started(e)
InputsOpen(e) == ~Started(e) /\ ~Admitted(e)

\* Mutant: any registration will do, also one that another experiment rests on.
Unrestricted(e, r) == TRUE
\* A registration of a provider may serve one experiment only.
Unclaimed(e, r) == \A other \in Experiment \ {e} : receipt[other] # r

TestAccessAllowed(e) == seal[e] # "sealed"

(* The admission gates.  The methodology, outcome-contract, executor and   *)
(* policy gates are functions of the frozen specification alone: the       *)
(* experiments of this model are local, public-weight ones that pass them. *)
ReviewerSeparated(e) ==
    ContributionOf[Design[e].lineage["engineering_review"]].author # Design[e].proposer

ForecasterSeparated(e) ==
    \A f \in ForecastsOn(e) : ForecastOf[f].identity # Design[e].proposer

Participation(e) ==
    Cardinality({ForecastOf[f].identity : f \in ForecastsOn(e)}) >= Design[e].minForecasters

RegistrationGate(e) == Design[e].preregistered => receipt[e] # None

InputGates(e) ==
    /\ Participation(e)
    /\ StakeOf(ForecastsOn(e)) >= Design[e].minStake
    /\ CreditsOf(CommitmentsOn(e)) >= Design[e].credits
    /\ ReviewerSeparated(e)
    /\ ForecasterSeparated(e)
    /\ RegistrationGate(e)

GatesPass(e) == InputGates(e) /\ TestAccessAllowed(e)

-----------------------------------------------------------------------------
\* Completed runs and what a finalization derives from them.
NoRun(e) == run[e] = None

\* Only an execution whose start is on the ledger completes.
Executing(e) == phase[e] = "executing"

Resolves(e) == ~NoRun(e) /\ Cardinality(run[e].matches) = 1

ResolvedOutcome(e) == CHOOSE o \in run[e].matches : TRUE

ExpectedEvidence(e) == [attempt |-> run[e].attempt, outcome |-> ResolvedOutcome(e)]

\* validate_existing_evidence: anything else than the evidence of the run is a conflict.
EvidenceMatches(e) == evidence[e] = ExpectedEvidence(e)

\* A completed run is terminal: the only way to execute is to have none.
Executable(e) == NoRun(e) /\ Admitted(e)

\* Mutant: a retry finds only runs without evidence.
Unrecorded(e) == Resolves(e) /\ evidence[e] = None
\* A later call finalizes a completed run whatever has been appended since.
Resumable(e) == Resolves(e)

\* Mutant: a calibration counts forecasts that are not settled yet.
SubmittedBy(h) == {f \in forecasts : ForecastOf[f].identity = h}
SettledBy(h) == {f \in forecasts : settlement[f] # None /\ ForecastOf[f].identity = h}

\* The handles finalization refreshes: the forecasters that are not services.
Handles(e) == {ForecastOf[f].identity : f \in {g \in ForecastsOn(e) : ~ForecastOf[g].service}}

AllSettled(e) == \A f \in ForecastsOn(e) : settlement[f] = ResolvedOutcome(e)

-----------------------------------------------------------------------------
Init ==
    /\ contributed = {}
    /\ compiled = {}
    /\ forecasts = {}
    /\ commitments = {}
    /\ packaged = {}
    /\ receipt = [e \in Experiment |-> None]
    /\ intent = [e \in Experiment |-> None]
    /\ seal = [e \in Experiment |-> "unsealed"]
    /\ decision = [e \in Experiment |-> "none"]
    /\ attempts = [e \in Experiment |-> 0]
    /\ run = [e \in Experiment |-> None]
    /\ evidence = [e \in Experiment |-> None]
    /\ settlement = [f \in Forecast |-> None]
    /\ calibration = [h \in Identity |-> {}]
    /\ phase = [e \in Experiment |-> "idle"]
    /\ aborts = 0

SubmitContribution(c) ==
    /\ c \notin contributed
    /\ contributed' = contributed \cup {c}
    /\ UNCHANGED <<compiled, forecasts, commitments, packaged, receipt, gateVars, runVars>>

CompileExperiment(e) ==
    /\ e \notin compiled
    /\ \A s \in Stage : LET c == Design[e].lineage[s]
                        IN  c \in contributed /\ ContributionOf[c].stage = s
    /\ compiled' = compiled \cup {e}
    /\ UNCHANGED <<contributed, forecasts, commitments, packaged, receipt, gateVars, runVars>>

SubmitForecast(f) ==
    LET e == ForecastOf[f].experiment
    IN  /\ f \notin forecasts
        /\ e \in compiled
        /\ InputsOpen(e)
        /\ \A g \in ForecastsOn(e) : ForecastOf[g].identity # ForecastOf[f].identity
        /\ forecasts' = forecasts \cup {f}
        /\ UNCHANGED <<contributed, compiled, commitments, packaged, receipt, gateVars, runVars>>

CommitFunding(k) ==
    LET e == FundingOf[k].experiment
    IN  /\ k \notin commitments
        /\ e \in compiled
        /\ InputsOpen(e)
        /\ commitments' = commitments \cup {k}
        /\ UNCHANGED <<contributed, compiled, forecasts, packaged, receipt, gateVars, runVars>>

PrepareRegistration(e) ==
    /\ e \in compiled
    /\ Design[e].preregistered
    /\ e \notin packaged
    /\ ~Started(e)
    /\ packaged' = packaged \cup {e}
    /\ UNCHANGED <<contributed, compiled, forecasts, commitments, receipt, gateVars, runVars>>

RecordExternalRegistration(e, r) ==
    /\ receipt[e] = None
    /\ ~Started(e)
    /\ Unclaimed(e, r)
    /\ e \in compiled
    /\ Design[e].preregistered
    /\ e \in packaged
    /\ receipt' = [receipt EXCEPT ![e] = r]
    /\ UNCHANGED <<contributed, compiled, forecasts, commitments, packaged, gateVars, runVars>>

-----------------------------------------------------------------------------
\* The boundary before which an intent is prospective.
BeforeBoundary(e) == decision[e] = "none" /\ ~Started(e) /\ NoRun(e)

DeclareIntent(e, i) ==
    /\ e \in compiled
    /\ TotalsFit(e)
    /\ intent[e] = None
    /\ BeforeBoundary(e)
    /\ intent' = [intent EXCEPT ![e] = i]
    /\ UNCHANGED <<inputVars, seal, decision, runVars>>

SealTestDigest(e) ==
    /\ e \in compiled
    /\ TotalsFit(e)
    /\ ~Started(e) /\ NoRun(e)
    /\ seal[e] = "unsealed"
    /\ seal' = [seal EXCEPT ![e] = "sealed"]
    /\ UNCHANGED <<inputVars, intent, decision, runVars>>

ReleaseTestDigest(e) ==
    /\ ~Started(e) /\ NoRun(e)
    /\ seal[e] = "sealed"
    /\ seal' = [seal EXCEPT ![e] = "released"]
    /\ UNCHANGED <<inputVars, intent, decision, runVars>>

\* An accepted decision is returned as it is; a rejected one is reevaluated.
DecideAdmission(e) ==
    /\ ~Started(e)
    /\ ~Admitted(e)
    /\ e \in compiled
    /\ TotalsFit(e)
    /\ decision' = [decision EXCEPT ![e] = IF GatesPass(e) THEN "accepted" ELSE "rejected"]
    /\ UNCHANGED <<inputVars, intent, seal, runVars>>

-----------------------------------------------------------------------------
(* run_experiment.  The process of experiment e is "executing" once        *)
(* ExecutionStarted is appended, "finalizing" while it appends what a      *)
(* resolved run still misses, and "idle" when there is none.               *)

StartRun(e) ==
    /\ phase[e] = "idle"
    /\ e \in compiled
    /\ Executable(e)
    /\ TotalsFit(e)
    /\ GatesPass(e)
    /\ attempts[e] < MaxAttempts
    /\ attempts' = [attempts EXCEPT ![e] = @ + 1]
    /\ phase' = [phase EXCEPT ![e] = "executing"]
    /\ UNCHANGED <<inputVars, gateVars, run, evidence, settlement, calibration, aborts>>

\* The terminal run is recorded whatever its outcomes; only a resolved one goes on.
CompleteRun(e) ==
    /\ Executing(e)
    /\ \E matches \in SUBSET Outcome :
         /\ run' = [run EXCEPT ![e] = [attempt |-> attempts[e], matches |-> matches]]
         /\ phase' = [phase EXCEPT ![e] =
                        IF Cardinality(matches) = 1 THEN "finalizing" ELSE "idle"]
    /\ UNCHANGED <<inputVars, gateVars, attempts, evidence, settlement, calibration, aborts>>

\* A later call finds ExperimentCompleted and finalizes without executing again.
ResumeRun(e) ==
    /\ phase[e] = "idle"
    /\ Resumable(e)
    /\ phase' = [phase EXCEPT ![e] = "finalizing"]
    /\ UNCHANGED <<inputVars, gateVars, attempts, run, evidence, settlement, calibration, aborts>>

RecordEvidence(e) ==
    /\ phase[e] = "finalizing"
    /\ evidence[e] = None
    /\ evidence' = [evidence EXCEPT ![e] = ExpectedEvidence(e)]
    /\ UNCHANGED <<inputVars, gateVars, attempts, run, settlement, calibration, phase, aborts>>

\* The code settles in ledger order; any order of the same appends is allowed here.
SettleForecast(f) ==
    LET e == ForecastOf[f].experiment
    IN  /\ phase[e] = "finalizing"
        /\ EvidenceMatches(e)
        /\ f \in forecasts
        /\ settlement[f] = None
        /\ settlement' = [settlement EXCEPT ![f] = ResolvedOutcome(e)]
        /\ UNCHANGED <<inputVars, gateVars, attempts, run, evidence, calibration, phase, aborts>>

\* A record is appended only when the set of settled forecasts has changed.
RefreshCalibration(e, h) ==
    /\ phase[e] = "finalizing"
    /\ EvidenceMatches(e)
    /\ AllSettled(e)
    /\ h \in Handles(e)
    /\ calibration[h] # SettledBy(h)
    /\ calibration' = [calibration EXCEPT ![h] = SettledBy(h)]
    /\ UNCHANGED <<inputVars, gateVars, attempts, run, evidence, settlement, phase, aborts>>

FinishRun(e) ==
    /\ phase[e] = "finalizing"
    /\ EvidenceMatches(e)
    /\ AllSettled(e)
    /\ \A h \in Handles(e) : calibration[h] = SettledBy(h)
    /\ phase' = [phase EXCEPT ![e] = "idle"]
    /\ UNCHANGED <<inputVars, gateVars, attempts, run, evidence, settlement, calibration, aborts>>

\* The process dies, the executor fails to start, or an append fails.
AbortRun(e) ==
    /\ phase[e] # "idle"
    /\ aborts < MaxAborts
    /\ aborts' = aborts + 1
    /\ phase' = [phase EXCEPT ![e] = "idle"]
    /\ UNCHANGED <<inputVars, gateVars, attempts, run, evidence, settlement, calibration>>

-----------------------------------------------------------------------------
CollectInputs ==
    \/ \E c \in Contribution : SubmitContribution(c)
    \/ \E e \in Experiment : CompileExperiment(e)
    \/ \E f \in Forecast : SubmitForecast(f)
    \/ \E k \in Commitment : CommitFunding(k)
    \/ \E e \in Experiment : PrepareRegistration(e)
    \/ \E e \in Experiment, r \in Registration : RecordExternalRegistration(e, r)

Gate ==
    \/ \E e \in Experiment, i \in Intent : DeclareIntent(e, i)
    \/ \E e \in Experiment : SealTestDigest(e)
    \/ \E e \in Experiment : ReleaseTestDigest(e)
    \/ \E e \in Experiment : DecideAdmission(e)

Finalize(e) ==
    \/ RecordEvidence(e)
    \/ \E f \in {g \in Forecast : ForecastOf[g].experiment = e} : SettleForecast(f)
    \/ \E h \in Identity : RefreshCalibration(e, h)
    \/ FinishRun(e)

RunExperiment(e) ==
    \/ StartRun(e)
    \/ CompleteRun(e)
    \/ ResumeRun(e)
    \/ Finalize(e)
    \/ AbortRun(e)

Next == CollectInputs \/ Gate \/ \E e \in Experiment : RunExperiment(e)

Spec == Init /\ [][Next]_vars

(* The operator calls `ilxyr run` again after a failure, as the retry      *)
(* contract of docs/PROTOCOL.md asks, and a live process goes on.  Nobody  *)
(* is obliged to submit, fund, admit or start anything.                    *)
Retry == \A e \in Experiment : WF_vars(ResumeRun(e)) /\ WF_vars(Finalize(e))

FairSpec == Spec /\ Retry

-----------------------------------------------------------------------------
TypeOK ==
    /\ contributed \subseteq Contribution
    /\ compiled \subseteq Experiment
    /\ forecasts \subseteq Forecast
    /\ commitments \subseteq Commitment
    /\ packaged \subseteq Experiment
    /\ receipt \in [Experiment -> Registration \cup {None}]
    /\ intent \in [Experiment -> Intent \cup {None}]
    /\ seal \in [Experiment -> {"unsealed", "sealed", "released"}]
    /\ decision \in [Experiment -> {"none", "rejected", "accepted"}]
    /\ attempts \in [Experiment -> 0..MaxAttempts]
    /\ run \in [Experiment -> RunType \cup {None}]
    /\ evidence \in [Experiment -> EvidenceType \cup {None}]
    /\ settlement \in [Forecast -> Outcome \cup {None}]
    /\ calibration \in [Identity -> SUBSET Forecast]
    /\ phase \in [Experiment -> {"idle", "executing", "finalizing"}]
    /\ aborts \in 0..MaxAborts

(* An accepted decision keeps its reasons: whatever is submitted, funded,  *)
(* registered, crashed or retried later, the forecasts, stakes, funding,   *)
(* separation of roles and registration it accepted still pass its gates.  *)
AdmissionStands == \A e \in Experiment : Admitted(e) => e \in compiled /\ InputGates(e)

(* No program runs on a test split that is still sealed, or without an     *)
(* accepted decision, in any order of sealing, release, crash and retry;   *)
(* an interrupted execution can therefore always be repeated by hand.      *)
NoUngatedRun ==
    \A e \in Experiment : Started(e) =>
        Admitted(e) /\ InputGates(e) /\ TestAccessAllowed(e) /\ TotalsFit(e)

(* An external registration backs one experiment only, in whatever order   *)
(* two of them claim it, and is bound to the package of that experiment.   *)
RegistrationBound ==
    \A e \in Experiment : receipt[e] # None =>
        e \in packaged /\ \A d \in Experiment \ {e} : receipt[d] # receipt[e]

(* What is admitted or executed has passed every gate and still passes     *)
(* them, on a registration that is its own.                                *)
AdmissionSound == AdmissionStands /\ NoUngatedRun /\ RegistrationBound

(* Evidence is always that of the latest completed run, and that run       *)
(* matches exactly one outcome: no crash, retry or repeated execution      *)
(* leaves evidence that a later finalization would refuse as a conflict.   *)
EvidenceTracesToRun ==
    \A e \in Experiment : evidence[e] # None => Resolves(e) /\ EvidenceMatches(e)

(* A settlement scores a forecast against the outcome of the evidence of   *)
(* its experiment, and never exists before that evidence.                  *)
SettlementsAgree ==
    \A f \in Forecast : settlement[f] # None =>
        LET e == ForecastOf[f].experiment
        IN  f \in forecasts /\ evidence[e] # None /\ settlement[f] = evidence[e].outcome

(* A calibration record counts settled forecasts of its own handle only,   *)
(* although experiments sharing a forecaster finalize concurrently.        *)
CalibrationGrounded ==
    \A h \in Identity : \A f \in calibration[h] :
        ForecastOf[f].identity = h /\ settlement[f] # None

(* Run, evidence, settlements and calibrations agree after every append,   *)
(* wherever a crash has cut the finalizations off.                         *)
RecordsAgree == EvidenceTracesToRun /\ SettlementsAgree /\ CalibrationGrounded

(* Acceptance freezes what the experiment is judged on: its forecasts, its *)
(* funding, its intent and its registration never change afterwards.       *)
FrozenOnceAdmitted ==
    [][\A e \in Experiment : Admitted(e) =>
         /\ Admitted(e)'
         /\ ForecastsOn(e)' = ForecastsOn(e)
         /\ CommitmentsOn(e)' = CommitmentsOn(e)
         /\ intent'[e] = intent[e]
         /\ receipt'[e] = receipt[e]]_vars

(* A completed run is terminal for its experiment id and cannot execute    *)
(* twice (docs/PROTOCOL.md, failure behavior).                             *)
RunIsTerminal ==
    [][\A e \in Experiment : run[e] # None =>
         run'[e] = run[e] /\ attempts'[e] = attempts[e]]_vars

(* Neither an acceptance nor a completed run is ever taken back.           *)
DecisionsFinal == FrozenOnceAdmitted /\ RunIsTerminal

(* Every forecast of a resolved run is in the end settled and counted in   *)
(* the calibration of its forecaster, whichever append a crash cut off.    *)
FinalizationCompletes ==
    <>[](\A f \in forecasts :
           Resolves(ForecastOf[f].experiment) =>
             /\ settlement[f] # None
             /\ ForecastOf[f].service \/ f \in calibration[ForecastOf[f].identity])
=============================================================================
