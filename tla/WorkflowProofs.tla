--------------------------- MODULE WorkflowProofs ---------------------------
(***************************************************************************)
(* Theorems about the promoted lane and the branches that wait for its     *)
(* evidence, for every set of experiments, forecasts, actors and plans.    *)
(* The handlers of the lane fall into two halves that write disjoint parts *)
(* of the ledger: those that collect and gate the inputs, and the appends  *)
(* of run_experiment.  An invariant of one half meets the other half in    *)
(* one step of its proof.  What a condition tree evaluates to is proved    *)
(* from its leaves up, counting the nodes that are left: a set of numbers  *)
(* that is not empty has a least element.                                  *)
(***************************************************************************)
EXTENDS WorkflowLifecycle, ContingentBranches, FiniteSetTheorems, WellFoundedInduction, TLAPS

(* The run process: it executes only what has no run yet, after having     *)
(* recorded a start, and finalizes only a run that resolves.               *)
ProcessInv ==
    \A e \in Experiment :
        /\ phase[e] = "executing" => Started(e) /\ NoRun(e)
        /\ phase[e] = "finalizing" => Resolves(e)

\* run_experiment leaves alone everything its admission rests on.
LEMMA RunKeepsInputs == (\E e \in Experiment : RunExperiment(e)) => UNCHANGED <<inputVars, gateVars>>
  <1> SUFFICES ASSUME NEW e \in Experiment, RunExperiment(e)
               PROVE  UNCHANGED <<inputVars, gateVars>>
    OBVIOUS
  <1>1. CASE StartRun(e)
    BY <1>1 DEF StartRun
  <1>2. CASE CompleteRun(e)
    BY <1>2 DEF CompleteRun
  <1>3. CASE ResumeRun(e)
    BY <1>3 DEF ResumeRun
  <1>4. CASE Finalize(e)
    BY <1>4 DEF Finalize, RecordEvidence, SettleForecast, RefreshCalibration, FinishRun
  <1>5. CASE AbortRun(e)
    BY <1>5 DEF AbortRun
  <1> QED
    BY <1>1, <1>2, <1>3, <1>4, <1>5 DEF RunExperiment

\* Collecting and gating inputs never touches what a run has recorded.
LEMMA InputsKeepRun == CollectInputs \/ Gate => UNCHANGED runVars
  <1>1. CollectInputs => UNCHANGED runVars
    BY DEF CollectInputs, SubmitContribution, CompileExperiment, SubmitForecast,
           CommitFunding, PrepareRegistration, RecordExternalRegistration
  <1>2. Gate => UNCHANGED runVars
    BY DEF Gate, DeclareIntent, SealTestDigest, ReleaseTestDigest, DecideAdmission
  <1> QED
    BY <1>1, <1>2

\* The outcome a resolved run is scored on is one of the frozen outcomes.
LEMMA ResolvedOutcomeType ==
    ASSUME TypeOK, NEW e \in Experiment, Resolves(e)
    PROVE  /\ run[e] \in RunType
           /\ ResolvedOutcome(e) \in Outcome
  <1>1. run[e] \in RunType /\ Cardinality(run[e].matches) = 1
    BY DEF TypeOK, Resolves, NoRun
  <1>2. run[e].matches # {}
    BY <1>1, FS_EmptySet
  <1>3. ResolvedOutcome(e) \in run[e].matches
    BY <1>2 DEF ResolvedOutcome
  <1> QED
    BY <1>1, <1>3 DEF RunType
-----------------------------------------------------------------------------
(* Type correctness and the run process.                                   *)

LEMMA InitTyped == Init => TypeOK /\ ProcessInv
  BY ContentAssumption, BoundAssumption DEF Init, TypeOK, ProcessInv

LEMMA InputsTyped ==
    ASSUME TypeOK, CollectInputs \/ Gate
    PROVE  TypeOK'
  <1> USE ContentAssumption DEF TypeOK
  <1>1. UNCHANGED runVars
    BY InputsKeepRun
  <1>2. CASE CollectInputs
    <2>1. CASE \E c \in Contribution : SubmitContribution(c)
      BY <1>1, <2>1 DEF SubmitContribution, gateVars, runVars
    <2>2. CASE \E e \in Experiment : CompileExperiment(e)
      BY <1>1, <2>2 DEF CompileExperiment, gateVars, runVars
    <2>3. CASE \E f \in Forecast : SubmitForecast(f)
      BY <1>1, <2>3 DEF SubmitForecast, gateVars, runVars
    <2>4. CASE \E k \in Commitment : CommitFunding(k)
      BY <1>1, <2>4 DEF CommitFunding, gateVars, runVars
    <2>5. CASE \E e \in Experiment : PrepareRegistration(e)
      BY <1>1, <2>5 DEF PrepareRegistration, gateVars, runVars
    <2>6. CASE \E e \in Experiment, r \in Registration : RecordExternalRegistration(e, r)
      BY <1>1, <2>6 DEF RecordExternalRegistration, gateVars, runVars
    <2> QED
      BY <1>2, <2>1, <2>2, <2>3, <2>4, <2>5, <2>6 DEF CollectInputs
  <1>3. CASE Gate
    <2>1. CASE \E e \in Experiment, i \in Intent : DeclareIntent(e, i)
      BY <1>1, <2>1 DEF DeclareIntent, inputVars, runVars
    <2>2. CASE \E e \in Experiment : SealTestDigest(e)
      BY <1>1, <2>2 DEF SealTestDigest, inputVars, runVars
    <2>3. CASE \E e \in Experiment : ReleaseTestDigest(e)
      BY <1>1, <2>3 DEF ReleaseTestDigest, inputVars, runVars
    <2>4. CASE \E e \in Experiment : DecideAdmission(e)
      BY <1>1, <2>4 DEF DecideAdmission, inputVars, runVars
    <2> QED
      BY <1>3, <2>1, <2>2, <2>3, <2>4 DEF Gate
  <1> QED
    BY <1>2, <1>3

LEMMA RunTyped ==
    ASSUME TypeOK, ProcessInv, NEW e \in Experiment, RunExperiment(e)
    PROVE  TypeOK'
  <1> USE BoundAssumption DEF TypeOK
  <1>1. UNCHANGED <<inputVars, gateVars>>
    BY RunKeepsInputs
  <1>2. CASE StartRun(e)
    BY <1>1, <1>2 DEF StartRun, inputVars, gateVars
  <1>3. CASE CompleteRun(e)
    <2>1. attempts[e] \in 1..MaxAttempts
      BY <1>3 DEF CompleteRun, Executing, ProcessInv, Started
    <2> QED
      BY <1>1, <1>3, <2>1 DEF CompleteRun, RunType, inputVars, gateVars
  <1>4. CASE ResumeRun(e)
    BY <1>1, <1>4 DEF ResumeRun, inputVars, gateVars
  <1>5. CASE RecordEvidence(e)
    <2>1. ExpectedEvidence(e) \in EvidenceType
      BY <1>5, ResolvedOutcomeType
      DEF RecordEvidence, ProcessInv, ExpectedEvidence, RunType, EvidenceType
    <2> QED
      BY <1>1, <1>5, <2>1 DEF RecordEvidence, inputVars, gateVars
  <1>6. CASE \E f \in {g \in Forecast : ForecastOf[g].experiment = e} : SettleForecast(f)
    <2>1. phase[e] = "finalizing"
      BY <1>6 DEF SettleForecast
    <2>2. ResolvedOutcome(e) \in Outcome
      BY <2>1, ResolvedOutcomeType DEF ProcessInv
    <2> QED
      BY <1>1, <1>6, <2>2 DEF SettleForecast, inputVars, gateVars
  <1>7. CASE \E h \in Identity : RefreshCalibration(e, h)
    <2>1. \A h \in Identity : SettledBy(h) \in SUBSET Forecast
      BY DEF SettledBy
    <2> QED
      BY <1>1, <1>7, <2>1 DEF RefreshCalibration, inputVars, gateVars
  <1>8. CASE FinishRun(e)
    BY <1>1, <1>8 DEF FinishRun, inputVars, gateVars
  <1>9. CASE AbortRun(e)
    BY <1>1, <1>9 DEF AbortRun, inputVars, gateVars
  <1> QED
    BY <1>2, <1>3, <1>4, <1>5, <1>6, <1>7, <1>8, <1>9 DEF RunExperiment, Finalize

LEMMA RunKeepsProcess ==
    ASSUME TypeOK, ProcessInv, NEW e \in Experiment, RunExperiment(e)
    PROVE  ProcessInv'
  <1> USE BoundAssumption DEF TypeOK, ProcessInv, Started, NoRun, Resolves
  <1>1. CASE StartRun(e)
    BY <1>1 DEF StartRun, Executable
  <1>2. CASE CompleteRun(e)
    <2>1. \A matches \in SUBSET Outcome : [attempt |-> attempts[e], matches |-> matches] \in RunType
      BY <1>2 DEF CompleteRun, Executing, RunType
    <2>2. None \notin RunType
      BY NoneAssumption
    <2> QED
      BY <1>2, <2>1, <2>2 DEF CompleteRun
  <1>3. CASE ResumeRun(e)
    BY <1>3 DEF ResumeRun, Resumable
  <1>4. CASE Finalize(e)
    BY <1>4 DEF Finalize, RecordEvidence, SettleForecast, RefreshCalibration, FinishRun
  <1>5. CASE AbortRun(e)
    BY <1>5 DEF AbortRun
  <1> QED
    BY <1>1, <1>2, <1>3, <1>4, <1>5 DEF RunExperiment

LEMMA TypedStep == TypeOK /\ ProcessInv /\ [Next]_vars => (TypeOK /\ ProcessInv)'
  <1> SUFFICES ASSUME TypeOK, ProcessInv, [Next]_vars
               PROVE  (TypeOK /\ ProcessInv)'
    OBVIOUS
  <1>1. CASE CollectInputs \/ Gate
    <2>1. ProcessInv'
      BY <1>1, InputsKeepRun DEF ProcessInv, Started, NoRun, Resolves, runVars
    <2> QED
      BY <1>1, <2>1, InputsTyped
  <1>2. CASE \E e \in Experiment : RunExperiment(e)
    BY <1>2, RunTyped, RunKeepsProcess
  <1>3. CASE UNCHANGED vars
    BY <1>3 DEF TypeOK, ProcessInv, Started, NoRun, Resolves, vars, inputVars, gateVars, runVars
  <1> QED
    BY <1>1, <1>2, <1>3 DEF Next

LEMMA ProcessCorrect == Spec => [](TypeOK /\ ProcessInv)
  BY InitTyped, TypedStep, PTL DEF Spec

(* Every variable of the ledger projection keeps its type; in particular   *)
(* the completed run of every experiment stems from a recorded start.      *)
THEOREM TypeCorrect == Spec => []TypeOK
  BY ProcessCorrect, PTL
-----------------------------------------------------------------------------
(* Admission: what an accepted decision rests on is frozen.                *)

FrozenInputs(e) ==
    /\ ForecastsOn(e)' = ForecastsOn(e)
    /\ CommitmentsOn(e)' = CommitmentsOn(e)
    /\ intent'[e] = intent[e]
    /\ receipt'[e] = receipt[e]

\* The gates read nothing but the inputs that acceptance freezes.
LEMMA GatesFrozen ==
    ASSUME NEW e \in Experiment, FrozenInputs(e)
    PROVE  /\ InputGates(e)' <=> InputGates(e)
           /\ TotalsFit(e)' <=> TotalsFit(e)
  BY DEF FrozenInputs, InputGates, TotalsFit, Participation, ReviewerSeparated,
         ForecasterSeparated, RegistrationGate

LEMMA AdmittedFrozen ==
    ASSUME TypeOK, AdmissionStands, [Next]_vars, NEW e \in Experiment, Admitted(e)
    PROVE  Admitted(e)' /\ e \in compiled' /\ FrozenInputs(e)
  <1> USE DEF Admitted, FrozenInputs, ForecastsOn, CommitmentsOn
  <1>1. e \in compiled /\ RegistrationGate(e)
    BY DEF AdmissionStands, InputGates
  <1>2. CASE CollectInputs
    <2>1. UNCHANGED gateVars
      BY <1>2 DEF CollectInputs, SubmitContribution, CompileExperiment, SubmitForecast,
                  CommitFunding, PrepareRegistration, RecordExternalRegistration
    <2>2. CASE \E c \in Contribution : SubmitContribution(c)
      BY <1>1, <2>1, <2>2 DEF SubmitContribution, gateVars
    <2>3. CASE \E d \in Experiment : CompileExperiment(d)
      BY <1>1, <2>1, <2>3 DEF CompileExperiment, gateVars
    <2>4. CASE \E f \in Forecast : SubmitForecast(f)
      <3>1. PICK f \in Forecast : SubmitForecast(f)
        BY <2>4
      <3>2. ForecastOf[f].experiment # e
        BY <3>1 DEF SubmitForecast, InputsOpen
      <3> QED
        BY <1>1, <2>1, <3>1, <3>2 DEF SubmitForecast, gateVars
    <2>5. CASE \E k \in Commitment : CommitFunding(k)
      <3>1. PICK k \in Commitment : CommitFunding(k)
        BY <2>5
      <3>2. FundingOf[k].experiment # e
        BY <3>1 DEF CommitFunding, InputsOpen
      <3> QED
        BY <1>1, <2>1, <3>1, <3>2 DEF CommitFunding, gateVars
    <2>6. CASE \E d \in Experiment : PrepareRegistration(d)
      BY <1>1, <2>1, <2>6 DEF PrepareRegistration, gateVars
    <2>7. CASE \E d \in Experiment, r \in Registration : RecordExternalRegistration(d, r)
      <3>1. PICK d \in Experiment, r \in Registration : RecordExternalRegistration(d, r)
        BY <2>7
      <3>2. d # e
        BY <1>1, <3>1 DEF RecordExternalRegistration, RegistrationGate
      <3> QED
        BY <1>1, <2>1, <3>1, <3>2 DEF RecordExternalRegistration, gateVars, TypeOK
    <2> QED
      BY <1>2, <2>2, <2>3, <2>4, <2>5, <2>6, <2>7 DEF CollectInputs
  <1>3. CASE Gate
    BY <1>1, <1>3 DEF Gate, DeclareIntent, BeforeBoundary, SealTestDigest, ReleaseTestDigest,
                      DecideAdmission, TypeOK, inputVars
  <1>4. CASE \E d \in Experiment : RunExperiment(d)
    BY <1>1, <1>4, RunKeepsInputs DEF inputVars, gateVars
  <1>5. CASE UNCHANGED vars
    BY <1>1, <1>5 DEF vars, inputVars, gateVars
  <1> QED
    BY <1>2, <1>3, <1>4, <1>5 DEF Next

\* The decision on an experiment changes only by deciding it.
LEMMA OnlyDecisionAdmits ==
    ASSUME TypeOK, [Next]_vars, NEW e \in Experiment, ~Admitted(e), Admitted(e)'
    PROVE  DecideAdmission(e) /\ GatesPass(e)
  <1> USE DEF Admitted
  <1>1. ~ UNCHANGED decision
    OBVIOUS
  <1>2. Gate
    BY <1>1, RunKeepsInputs
    DEF Next, CollectInputs, SubmitContribution, CompileExperiment, SubmitForecast, CommitFunding,
        PrepareRegistration, RecordExternalRegistration, vars, gateVars
  <1>3. PICK d \in Experiment : DecideAdmission(d)
    BY <1>1, <1>2 DEF Gate, DeclareIntent, SealTestDigest, ReleaseTestDigest
  <1> QED
    BY <1>3 DEF DecideAdmission, TypeOK

LEMMA AdmissionStep ==
    ASSUME TypeOK, AdmissionStands, [Next]_vars
    PROVE  AdmissionStands'
  <1> SUFFICES ASSUME NEW e \in Experiment, Admitted(e)'
               PROVE  e \in compiled' /\ InputGates(e)'
    BY DEF AdmissionStands
  <1>1. CASE Admitted(e)
    <2>1. e \in compiled' /\ FrozenInputs(e)
      BY <1>1, AdmittedFrozen
    <2>2. InputGates(e)
      BY <1>1 DEF AdmissionStands
    <2> QED
      BY <2>1, <2>2, GatesFrozen
  <1>2. CASE ~Admitted(e)
    <2>1. DecideAdmission(e) /\ InputGates(e)
      BY <1>2, OnlyDecisionAdmits DEF GatesPass
    <2>2. e \in compiled' /\ FrozenInputs(e)
      BY <2>1 DEF DecideAdmission, inputVars, FrozenInputs, ForecastsOn, CommitmentsOn
    <2> QED
      BY <2>1, <2>2, GatesFrozen
  <1> QED
    BY <1>1, <1>2

(* Every accepted decision keeps passing the gates it was accepted on: no  *)
(* later forecast, commitment, registration, crash or retry undoes it.     *)
THEOREM AdmissionCorrect == Spec => []AdmissionStands
  <1>1. Init => AdmissionStands
    BY DEF Init, AdmissionStands, Admitted
  <1>2. TypeOK /\ AdmissionStands /\ [Next]_vars => AdmissionStands'
    BY AdmissionStep
  <1> QED
    BY <1>1, <1>2, TypeCorrect, PTL DEF Spec

(* Acceptance freezes the forecasts, the funding, the intent and the       *)
(* registration of the experiment.                                         *)
THEOREM AdmissionFreezes == Spec => FrozenOnceAdmitted
  <1>1. TypeOK /\ AdmissionStands /\ [Next]_vars
          => [\A e \in Experiment : Admitted(e) =>
                /\ Admitted(e)'
                /\ ForecastsOn(e)' = ForecastsOn(e)
                /\ CommitmentsOn(e)' = CommitmentsOn(e)
                /\ intent'[e] = intent[e]
                /\ receipt'[e] = receipt[e]]_vars
    BY AdmittedFrozen DEF FrozenInputs
  <1> QED
    BY <1>1, TypeCorrect, AdmissionCorrect, PTL DEF Spec, FrozenOnceAdmitted

(* A registration is claimed once: two experiments never record the same   *)
(* one, and each records it for its own package.                           *)
LEMMA RegistrationStep == TypeOK /\ RegistrationBound /\ [Next]_vars => RegistrationBound'
  <1> SUFFICES ASSUME TypeOK, RegistrationBound, [Next]_vars
               PROVE  RegistrationBound'
    OBVIOUS
  <1>1. CASE UNCHANGED <<packaged, receipt>>
    BY <1>1 DEF RegistrationBound
  <1>2. CASE \E d \in Experiment : PrepareRegistration(d)
    BY <1>2 DEF PrepareRegistration, RegistrationBound
  <1>3. ASSUME NEW d \in Experiment, NEW r \in Registration, RecordExternalRegistration(d, r)
        PROVE  RegistrationBound'
    <2>1. /\ receipt' = [receipt EXCEPT ![d] = r] /\ d \in packaged /\ packaged' = packaged
          /\ \A other \in Experiment \ {d} : receipt[other] # r
      BY <1>3 DEF RecordExternalRegistration, Unclaimed
    <2>2. \A e \in Experiment : receipt'[e] = IF e = d THEN r ELSE receipt[e]
      BY <2>1 DEF TypeOK
    <2> QED
      BY <2>1, <2>2 DEF RegistrationBound
  <1>4. CASE Gate \/ \E e \in Experiment : RunExperiment(e)
    BY <1>1, <1>4, RunKeepsInputs
    DEF Gate, DeclareIntent, SealTestDigest, ReleaseTestDigest, DecideAdmission, inputVars
  <1>5. CASE UNCHANGED vars
    BY <1>1, <1>5 DEF vars, inputVars
  <1> QED
    BY <1>1, <1>2, <1>3, <1>4, <1>5
    DEF Next, CollectInputs, SubmitContribution, CompileExperiment, SubmitForecast, CommitFunding

LEMMA RegistrationCorrect == Spec => []RegistrationBound
  <1>1. Init => RegistrationBound
    BY DEF Init, RegistrationBound
  <1> QED
    BY <1>1, RegistrationStep, TypeCorrect, PTL DEF Spec
-----------------------------------------------------------------------------
(* Execution: gated, terminal, and the source of everything finalized.     *)

\* An experiment starts only by StartRun, which leaves its process executing.
LEMMA OnlyStartRunStarts ==
    ASSUME TypeOK, [Next]_vars, NEW e \in Experiment, ~Started(e), Started(e)'
    PROVE  StartRun(e)
  <1>1. ~ UNCHANGED attempts
    BY DEF Started
  <1>2. PICK d \in Experiment : RunExperiment(d)
    BY <1>1, InputsKeepRun DEF Next, vars, runVars
  <1>3. StartRun(d)
    BY <1>1, <1>2 DEF RunExperiment, Finalize, CompleteRun, ResumeRun, RecordEvidence,
                      SettleForecast, RefreshCalibration, FinishRun, AbortRun
  <1> QED
    BY <1>3 DEF StartRun, Started, TypeOK

\* A split is sealed only while its experiment has not started.
LEMMA SealedBeforeStart ==
    ASSUME TypeOK, [Next]_vars, NEW e \in Experiment, Started(e), TestAccessAllowed(e)
    PROVE  TestAccessAllowed(e)'
  <1> USE DEF TestAccessAllowed
  <1>1. CASE CollectInputs
    BY <1>1 DEF CollectInputs, SubmitContribution, CompileExperiment, SubmitForecast,
                CommitFunding, PrepareRegistration, RecordExternalRegistration, gateVars
  <1>2. CASE Gate
    BY <1>2 DEF Gate, DeclareIntent, SealTestDigest, ReleaseTestDigest, DecideAdmission, TypeOK
  <1>3. CASE \E d \in Experiment : RunExperiment(d)
    BY <1>3, RunKeepsInputs DEF gateVars
  <1>4. CASE UNCHANGED vars
    BY <1>4 DEF vars, gateVars
  <1> QED
    BY <1>1, <1>2, <1>3, <1>4 DEF Next

LEMMA GatedStep ==
    ASSUME TypeOK, AdmissionStands, NoUngatedRun, [Next]_vars
    PROVE  NoUngatedRun'
  <1> SUFFICES ASSUME NEW e \in Experiment, Started(e)'
               PROVE  Admitted(e)' /\ InputGates(e)' /\ TestAccessAllowed(e)' /\ TotalsFit(e)'
    BY DEF NoUngatedRun
  <1>1. Admitted(e) /\ InputGates(e) /\ TestAccessAllowed(e) /\ TotalsFit(e)
    BY OnlyStartRunStarts DEF NoUngatedRun, StartRun, Executable, GatesPass
  <1>2. Admitted(e)' /\ FrozenInputs(e)
    BY <1>1, AdmittedFrozen
  <1>3. TestAccessAllowed(e)'
    <2>1. CASE Started(e)
      BY <1>1, <2>1, SealedBeforeStart
    <2>2. CASE ~Started(e)
      BY <1>1, <2>2, OnlyStartRunStarts DEF StartRun, gateVars, TestAccessAllowed
    <2> QED
      BY <2>1, <2>2
  <1> QED
    BY <1>1, <1>2, <1>3, GatesFrozen

(* No execution has started that is not admitted, or that could read a     *)
(* test split still sealed; the gates still pass for every retry.          *)
THEOREM RunsAreGated == Spec => []NoUngatedRun
  <1>1. Init => NoUngatedRun
    BY DEF Init, NoUngatedRun, Started
  <1> QED
    BY <1>1, GatedStep, TypeCorrect, AdmissionCorrect, PTL DEF Spec

(* Whatever is admitted or executed stands on gates that still pass and on *)
(* a registration of its own, for every order of claims, decisions, seals  *)
(* and retries.                                                            *)
THEOREM AdmissionIsSound == Spec => []AdmissionSound
  BY AdmissionCorrect, RunsAreGated, RegistrationCorrect, PTL DEF AdmissionSound

\* What a completed run is never changes, and it never executes again.
LEMMA TerminalStep ==
    ASSUME TypeOK, ProcessInv, [Next]_vars, NEW e \in Experiment, run[e] # None
    PROVE  run'[e] = run[e] /\ attempts'[e] = attempts[e]
  <1>1. CASE CollectInputs \/ Gate
    BY <1>1, InputsKeepRun DEF runVars
  <1>2. ASSUME NEW d \in Experiment, RunExperiment(d)
        PROVE  run'[e] = run[e] /\ attempts'[e] = attempts[e]
    <2>1. CASE StartRun(d)
      BY <2>1 DEF StartRun, Executable, NoRun, TypeOK
    <2>2. CASE CompleteRun(d)
      BY <2>2 DEF CompleteRun, Executing, ProcessInv, NoRun, TypeOK
    <2>3. CASE ResumeRun(d) \/ Finalize(d) \/ AbortRun(d)
      BY <2>3 DEF ResumeRun, Finalize, RecordEvidence, SettleForecast, RefreshCalibration,
                  FinishRun, AbortRun
    <2> QED
      BY <1>2, <2>1, <2>2, <2>3 DEF RunExperiment
  <1>3. CASE UNCHANGED vars
    BY <1>3 DEF vars, runVars
  <1> QED
    BY <1>1, <1>2, <1>3 DEF Next

(* A completed run is terminal for its experiment: it neither changes nor  *)
(* executes a second time.                                                 *)
THEOREM CompletedIsTerminal == Spec => RunIsTerminal
  <1>1. TypeOK /\ ProcessInv /\ [Next]_vars
          => [\A e \in Experiment : run[e] # None =>
                run'[e] = run[e] /\ attempts'[e] = attempts[e]]_vars
    BY TerminalStep
  <1> QED
    BY <1>1, ProcessCorrect, PTL DEF Spec, RunIsTerminal

(* Neither an acceptance nor a completed run is ever taken back.           *)
THEOREM DecisionsAreFinal == Spec => DecisionsFinal
  BY AdmissionFreezes, CompletedIsTerminal DEF DecisionsFinal

LEMMA EvidenceStep ==
    ASSUME TypeOK, ProcessInv, EvidenceTracesToRun, [Next]_vars
    PROVE  EvidenceTracesToRun'
  <1> USE DEF EvidenceMatches, ExpectedEvidence, ResolvedOutcome, Resolves, NoRun
  <1> SUFFICES ASSUME NEW e \in Experiment, evidence'[e] # None
               PROVE  (Resolves(e) /\ EvidenceMatches(e))'
    BY DEF EvidenceTracesToRun
  <1>1. CASE evidence[e] # None
    <2>1. evidence'[e] = evidence[e]
      <3>1. CASE CollectInputs \/ Gate
        BY <3>1, InputsKeepRun DEF runVars
      <3>2. CASE \E d \in Experiment : RunExperiment(d)
        BY <1>1, <3>2 DEF RunExperiment, StartRun, CompleteRun, ResumeRun, Finalize, RecordEvidence,
                          SettleForecast, RefreshCalibration, FinishRun, AbortRun, TypeOK
      <3>3. CASE UNCHANGED vars
        BY <3>3 DEF vars, runVars
      <3> QED
        BY <3>1, <3>2, <3>3 DEF Next
    <2>2. Resolves(e) /\ EvidenceMatches(e)
      BY <1>1 DEF EvidenceTracesToRun
    <2>3. run'[e] = run[e]
      BY <2>2, TerminalStep
    <2> QED
      BY <2>1, <2>2, <2>3
  <1>2. CASE evidence[e] = None
    <2>1. PICK d \in Experiment : RunExperiment(d)
      BY <1>2, InputsKeepRun DEF Next, vars, runVars
    <2>2. RecordEvidence(d)
      BY <1>2, <2>1 DEF RunExperiment, StartRun, CompleteRun, ResumeRun, Finalize, SettleForecast,
                        RefreshCalibration, FinishRun, AbortRun
    <2>3. d = e
      BY <1>2, <2>2 DEF RecordEvidence, TypeOK
    <2>4. Resolves(e)
      BY <2>2, <2>3 DEF RecordEvidence, ProcessInv
    <2> QED
      BY <2>2, <2>3, <2>4 DEF RecordEvidence, TypeOK
  <1> QED
    BY <1>1, <1>2

(* Whatever crashed and was retried, recorded evidence is the evidence of  *)
(* the one completed run, so that no finalization meets a conflict.        *)
THEOREM EvidenceCorrect == Spec => []EvidenceTracesToRun
  <1>1. Init => EvidenceTracesToRun
    BY DEF Init, EvidenceTracesToRun
  <1> QED
    BY <1>1, EvidenceStep, ProcessCorrect, PTL DEF Spec

\* Evidence that was recorded is neither changed nor removed.
LEMMA EvidenceKept ==
    ASSUME TypeOK, EvidenceTracesToRun, [Next]_vars, NEW e \in Experiment, evidence[e] # None
    PROVE  evidence'[e] = evidence[e]
  <1>1. CASE CollectInputs \/ Gate
    BY <1>1, InputsKeepRun DEF runVars
  <1>2. CASE \E d \in Experiment : RunExperiment(d)
    BY <1>2 DEF RunExperiment, StartRun, CompleteRun, ResumeRun, Finalize, RecordEvidence,
                SettleForecast, RefreshCalibration, FinishRun, AbortRun, TypeOK
  <1>3. CASE UNCHANGED vars
    BY <1>3 DEF vars, runVars
  <1> QED
    BY <1>1, <1>2, <1>3 DEF Next

\* A settlement is recorded once, on the evidence of its experiment.
LEMMA SettlementSource ==
    ASSUME TypeOK, ProcessInv, [Next]_vars, NEW f \in Forecast, settlement'[f] # settlement[f]
    PROVE  LET e == ForecastOf[f].experiment
           IN  /\ settlement[f] = None /\ f \in forecasts
               /\ evidence[e] # None /\ evidence' = evidence
               /\ settlement'[f] = evidence[e].outcome
  <1> DEFINE e == ForecastOf[f].experiment
  <1>1. PICK d \in Experiment : RunExperiment(d)
    BY InputsKeepRun DEF Next, vars, runVars
  <1>2. PICK g \in Forecast : SettleForecast(g)
    BY <1>1 DEF RunExperiment, StartRun, CompleteRun, ResumeRun, Finalize, RecordEvidence,
                RefreshCalibration, FinishRun, AbortRun
  <1>3. g = f
    BY <1>2 DEF SettleForecast, TypeOK
  <1>4. e \in Experiment
    BY ContentAssumption
  <1>5. Resolves(e) /\ evidence[e] = ExpectedEvidence(e)
    BY <1>2, <1>3, <1>4 DEF SettleForecast, EvidenceMatches, ProcessInv
  <1>6. ExpectedEvidence(e) \in EvidenceType /\ ExpectedEvidence(e).outcome = ResolvedOutcome(e)
    BY <1>4, <1>5, ResolvedOutcomeType DEF ExpectedEvidence, EvidenceType, RunType
  <1>7. evidence[e] # None /\ evidence[e].outcome = ResolvedOutcome(e)
    BY <1>5, <1>6, NoneAssumption
  <1>8. /\ settlement[f] = None /\ f \in forecasts /\ evidence' = evidence
        /\ settlement'[f] = ResolvedOutcome(e)
    BY <1>2, <1>3 DEF SettleForecast, TypeOK
  <1> QED
    BY <1>7, <1>8

\* Nothing that was forecast is withdrawn.
LEMMA ForecastsGrow == [Next]_vars => forecasts \subseteq forecasts'
  BY RunKeepsInputs
  DEF Next, CollectInputs, SubmitContribution, CompileExperiment, SubmitForecast, CommitFunding,
      PrepareRegistration, RecordExternalRegistration, Gate, DeclareIntent, SealTestDigest,
      ReleaseTestDigest, DecideAdmission, vars, inputVars

LEMMA SettlementStep ==
    ASSUME TypeOK, ProcessInv, EvidenceTracesToRun, SettlementsAgree, [Next]_vars
    PROVE  SettlementsAgree'
  <1> SUFFICES ASSUME NEW f \in Forecast, settlement'[f] # None
               PROVE  LET e == ForecastOf[f].experiment
                      IN  f \in forecasts' /\ evidence'[e] # None
                          /\ settlement'[f] = evidence'[e].outcome
    BY DEF SettlementsAgree
  <1>1. CASE settlement'[f] = settlement[f]
    BY <1>1, ForecastsGrow, EvidenceKept, ContentAssumption DEF SettlementsAgree
  <1>2. CASE settlement'[f] # settlement[f]
    BY <1>2, ForecastsGrow, SettlementSource
  <1> QED
    BY <1>1, <1>2

LEMMA CalibrationStep ==
    ASSUME TypeOK, ProcessInv, CalibrationGrounded, [Next]_vars
    PROVE  CalibrationGrounded'
  <1> SUFFICES ASSUME NEW h \in Identity, NEW f \in calibration'[h]
               PROVE  ForecastOf[f].identity = h /\ settlement'[f] # None
    BY DEF CalibrationGrounded
  <1>1. CASE f \in calibration[h]
    <2>1. f \in Forecast /\ ForecastOf[f].identity = h /\ settlement[f] # None
      BY <1>1 DEF CalibrationGrounded, TypeOK
    <2> QED
      BY <2>1, SettlementSource
  <1>2. CASE f \notin calibration[h]
    <2>1. PICK d \in Experiment : RunExperiment(d)
      BY <1>2, InputsKeepRun DEF Next, vars, runVars
    <2>2. PICK i \in Identity : RefreshCalibration(d, i)
      BY <1>2, <2>1 DEF RunExperiment, StartRun, CompleteRun, ResumeRun, Finalize, RecordEvidence,
                        SettleForecast, FinishRun, AbortRun
    <2>3. i = h /\ calibration'[h] = SettledBy(h) /\ settlement' = settlement
      BY <1>2, <2>2 DEF RefreshCalibration, TypeOK
    <2> QED
      BY <2>3 DEF SettledBy
  <1> QED
    BY <1>1, <1>2

(* After every append, wherever a crash has cut finalizations off, what is *)
(* derived from a run agrees with it: its evidence, the settlements scored *)
(* on it and the calibrations that count them.                             *)
THEOREM RecordsCorrect == Spec => []RecordsAgree
  <1>1. Init => SettlementsAgree /\ CalibrationGrounded
    BY DEF Init, SettlementsAgree, CalibrationGrounded
  <1>2. TypeOK /\ ProcessInv /\ EvidenceTracesToRun /\ SettlementsAgree /\ [Next]_vars => SettlementsAgree'
    BY SettlementStep
  <1>3. TypeOK /\ ProcessInv /\ CalibrationGrounded /\ [Next]_vars => CalibrationGrounded'
    BY CalibrationStep
  <1> QED
    BY <1>1, <1>2, <1>3, ProcessCorrect, EvidenceCorrect, PTL DEF Spec, RecordsAgree
-----------------------------------------------------------------------------
(* The lifecycle: each experiment moves forward, one stage at a time.      *)

LEMMA CompiledGrows == [Next]_vars => compiled \subseteq compiled'
  BY RunKeepsInputs
  DEF Next, CollectInputs, SubmitContribution, CompileExperiment, SubmitForecast, CommitFunding,
      PrepareRegistration, RecordExternalRegistration, Gate, DeclareIntent, SealTestDigest,
      ReleaseTestDigest, DecideAdmission, vars, inputVars

LEMMA StartedStays ==
    ASSUME TypeOK, [Next]_vars, NEW e \in Experiment, Started(e)
    PROVE  Started(e)'
  <1>1. CASE UNCHANGED attempts
    BY <1>1 DEF Started
  <1>2. ASSUME NEW d \in Experiment, StartRun(d)
        PROVE  Started(e)'
    BY <1>2, BoundAssumption DEF StartRun, Started, TypeOK
  <1>3. CASE \E d \in Experiment : RunExperiment(d)
    BY <1>1, <1>2, <1>3
    DEF RunExperiment, CompleteRun, ResumeRun, Finalize, RecordEvidence, SettleForecast,
        RefreshCalibration, FinishRun, AbortRun
  <1> QED
    BY <1>1, <1>3, InputsKeepRun DEF Next, vars, runVars

\* A run is recorded only by its own process, before any evidence.
LEMMA CompletionSource ==
    ASSUME TypeOK, ProcessInv, EvidenceTracesToRun, [Next]_vars, NEW e \in Experiment,
           NoRun(e), ~NoRun(e)'
    PROVE  evidence[e] = None /\ evidence' = evidence
  <1>1. PICK d \in Experiment : RunExperiment(d)
    BY InputsKeepRun DEF Next, vars, runVars, NoRun
  <1>2. CompleteRun(d)
    BY <1>1 DEF RunExperiment, StartRun, ResumeRun, Finalize, RecordEvidence, SettleForecast,
                RefreshCalibration, FinishRun, AbortRun, NoRun
  <1> QED
    BY <1>2 DEF CompleteRun, EvidenceTracesToRun, Resolves

\* What is settled and counted stays so: a calibration is refreshed to a larger set.
LEMMA CountedStays ==
    ASSUME TypeOK, ProcessInv, SettlementsAgree, CalibrationGrounded, [Next]_vars,
           NEW f \in Forecast, Counted(f)
    PROVE  Counted(f)'
  <1> DEFINE h == ForecastOf[f].identity
  <1>1. settlement'[f] = settlement[f]
    BY SettlementSource DEF Counted
  <1>2. h \in Identity
    BY ContentAssumption
  <1>3. ASSUME f \in calibration[h]
        PROVE  f \in calibration'[h]
    <2>1. CASE calibration' = calibration
      BY <1>3, <2>1
    <2>2. CASE calibration' # calibration
      <3>1. PICK d \in Experiment : RunExperiment(d)
        BY <2>2, InputsKeepRun DEF Next, vars, runVars
      <3>2. PICK i \in Identity : RefreshCalibration(d, i)
        BY <2>2, <3>1 DEF RunExperiment, StartRun, CompleteRun, ResumeRun, Finalize,
                          RecordEvidence, SettleForecast, FinishRun, AbortRun
      <3>3. f \in SettledBy(h)
        BY DEF Counted, SettlementsAgree, SettledBy
      <3> QED
        BY <1>2, <1>3, <3>2, <3>3 DEF RefreshCalibration, TypeOK
    <2> QED
      BY <2>1, <2>2
  <1> QED
    BY <1>1, <1>3 DEF Counted

\* An admitted experiment has a forecast to settle.
LEMMA Participated ==
    ASSUME NEW e \in Experiment, InputGates(e)
    PROVE  ForecastsOn(e) # {}
  <1>1. Design[e].minForecasters \in Nat \ {0}
    BY ContentAssumption DEF DesignType
  <1>2. ASSUME ForecastsOn(e) = {}
        PROVE  FALSE
    <2>1. {ForecastOf[f].identity : f \in ForecastsOn(e)} = {}
      BY <1>2
    <2>2. Cardinality({ForecastOf[f].identity : f \in ForecastsOn(e)}) = 0
      BY <2>1, FS_EmptySet
    <2> QED
      BY <1>1, <2>2 DEF InputGates, Participation
  <1> QED
    BY <1>2

LifecycleInv ==
    TypeOK /\ ProcessInv /\ AdmissionStands /\ NoUngatedRun /\ RecordsAgree

LEMMA StageStep ==
    ASSUME LifecycleInv, [Next]_vars, NEW e \in Experiment
    PROVE  StageOf(e)' \in {StageOf(e), Lifecycle!Following[StageOf(e)]}
  <1> USE DEF LifecycleInv, RecordsAgree
  <1>1. CASE e \notin compiled
    <2>1. ~Admitted(e)'
      BY <1>1, OnlyDecisionAdmits DEF AdmissionStands, DecideAdmission
    <2> QED
      BY <1>1, <2>1 DEF StageOf, Lifecycle!Following
  <1>2. e \in compiled => e \in compiled'
    BY CompiledGrows
  <1>3. CASE e \in compiled /\ ~Admitted(e)
    <2>1. ~Started(e)
      BY <1>3 DEF NoUngatedRun
    <2>2. ~Started(e)'
      BY <1>3, <2>1, OnlyStartRunStarts DEF StartRun, Executable
    <2> QED
      BY <1>2, <1>3, <2>2 DEF StageOf, Lifecycle!Following
  <1>4. CASE e \in compiled /\ Admitted(e)
    <2>1. Admitted(e)' /\ ForecastsOn(e)' = ForecastsOn(e) /\ e \in compiled'
      BY <1>4, AdmittedFrozen DEF FrozenInputs
    <2>2. CASE ~Started(e)
      <3>1. Started(e)' => NoRun(e)'
        BY <2>2, OnlyStartRunStarts DEF StartRun, Executable, NoRun
      <3> QED
        BY <1>4, <2>1, <2>2, <3>1 DEF StageOf, Lifecycle!Following
    <2>3. CASE Started(e) /\ NoRun(e)
      <3>1. Started(e)'
        BY <2>3, StartedStays
      <3>2. ~NoRun(e)' => evidence'[e] = None
        BY <2>3, CompletionSource
      <3> QED
        BY <1>4, <2>1, <2>3, <3>1, <3>2 DEF StageOf, Lifecycle!Following
    <2>4. CASE Started(e) /\ ~NoRun(e)
      <3>1. Started(e)' /\ ~NoRun(e)'
        BY <2>4, StartedStays, TerminalStep DEF NoRun
      <3>2. CASE evidence[e] = None
        <4>1. PICK f \in ForecastsOn(e) : TRUE
          BY <1>4, Participated DEF AdmissionStands
        <4>2. f \in Forecast /\ ForecastOf[f].experiment = e
          BY <4>1 DEF ForecastsOn, TypeOK
        <4>3. settlement[f] = None
          BY <3>2, <4>2 DEF SettlementsAgree
        <4>4. evidence'[e] # None => settlement'[f] = None
          BY <3>2, <4>2, <4>3, SettlementSource
        <4>5. evidence'[e] # None => ~(\A g \in ForecastsOn(e)' : Counted(g)')
          BY <2>1, <4>1, <4>4 DEF Counted
        <4> QED
          BY <1>4, <2>1, <2>4, <3>1, <3>2, <4>5 DEF StageOf, Lifecycle!Following
      <3>3. CASE evidence[e] # None
        <4>1. evidence'[e] # None
          BY <3>3, EvidenceKept
        <4>2. ForecastsOn(e) \subseteq Forecast
          BY DEF ForecastsOn, TypeOK
        <4>3. (\A f \in ForecastsOn(e) : Counted(f)) => \A f \in ForecastsOn(e)' : Counted(f)'
          BY <2>1, <4>2, CountedStays
        <4> QED
          BY <1>4, <2>1, <2>4, <3>1, <3>3, <4>1, <4>3 DEF StageOf, Lifecycle!Following
      <3> QED
        BY <3>2, <3>3
    <2> QED
      BY <2>2, <2>3, <2>4
  <1> QED
    BY <1>1, <1>3, <1>4

LEMMA InitDrafts == Init => Lifecycle!Init
  BY DEF Init, StageOf, Lifecycle!Init

LEMMA LifecycleStep ==
    ASSUME LifecycleInv, [Next]_vars
    PROVE  Lifecycle!Next
  <1> DEFINE E == {e \in Experiment : StageOf(e)' # StageOf(e)}
  <1>1. \A e \in Experiment :
           StageOf(e)' = IF e \in E THEN Lifecycle!Following[StageOf(e)] ELSE StageOf(e)
    BY StageStep
  <1>2. E \in SUBSET Experiment
    OBVIOUS
  <1> HIDE DEF E
  <1>3. Lifecycle!Advance(E)
    BY <1>1 DEF Lifecycle!Advance
  <1> QED
    BY <1>2, <1>3 DEF Lifecycle!Next

(* For any number of experiments, forecasters and crashes, an experiment   *)
(* goes through the stages of the lifecycle in order and never back.       *)
THEOREM WorkflowRefinesLifecycle == Spec => ImplementsLifecycle
  <1>1. LifecycleInv /\ [Next]_vars
          => [Lifecycle!Next]_([e \in Experiment |-> StageOf(e)])
    BY LifecycleStep
  <1>2. Spec => []LifecycleInv
    BY ProcessCorrect, AdmissionCorrect, RunsAreGated, RecordsCorrect, PTL DEF LifecycleInv
  <1> QED
    BY <1>1, <1>2, InitDrafts, PTL DEF Spec, ImplementsLifecycle, Lifecycle!Spec

-----------------------------------------------------------------------------
(* Condition trees and contingent branches.                                *)

\* Every set of natural numbers that is not empty has a least element.
LEMMA LeastOf ==
    ASSUME NEW T, T \subseteq Nat, T # {}
    PROVE  \E x \in T : \A y \in T : x <= y
  <1>1. PICK R : IsWellFoundedOn(R, Nat) /\ \A x, y \in Nat : y < x => <<y, x>> \in R
    <2>1. \A x, y \in Nat : y < x => <<y, x>> \in OpToRel(<, Nat)
      BY DEF OpToRel
    <2> QED
      BY <2>1, NatLessThanWellFounded
  <1>2. PICK x \in T : \A y \in T : ~(<<y, x>> \in R)
    BY <1>1, WFMin
  <1>3. \A y \in T : ~(y < x)
    BY <1>1, <1>2
  <1>4. \A y \in T : x <= y
    BY <1>3
  <1> QED
    BY <1>4

\* A conjunction is decided by its first arm that is not satisfied, if there is one.
LEMMA AllDecides ==
    ASSUME NEW vs, DOMAIN vs \subseteq Nat
    PROVE  \/ /\ AllVerdict(vs) = "satisfied"
              /\ \A i \in DOMAIN vs : vs[i] = "satisfied"
           \/ \E i \in DOMAIN vs : /\ AllVerdict(vs) = vs[i] /\ vs[i] # "satisfied"
                                   /\ \A j \in DOMAIN vs : j < i => vs[j] = "satisfied"
  <1> DEFINE failing == {i \in DOMAIN vs : vs[i] # "satisfied"}
             first == CHOOSE i \in failing : \A j \in failing : i <= j
  <1>1. CASE failing = {}
    BY <1>1 DEF AllVerdict
  <1>2. CASE failing # {}
    <2>1. \E i \in failing : \A j \in failing : i <= j
      BY <1>2, LeastOf
    <2>2. first \in failing /\ \A j \in failing : first <= j
      BY <2>1
    <2>3. AllVerdict(vs) = vs[first]
      BY <1>2 DEF AllVerdict
    <2> HIDE DEF first
    <2>4. \A j \in DOMAIN vs : j < first => vs[j] = "satisfied"
      BY <2>2
    <2> QED
      BY <2>2, <2>3, <2>4
  <1> QED
    BY <1>1, <1>2

\* The arms of a node come after it.
LEMMA ArmsBehind ==
    ASSUME NEW c, IsTree(c)
    PROVE  /\ Len(c) \in Nat /\ DOMAIN c = 1..Len(c) /\ 1 \in DOMAIN c
           /\ \A i \in DOMAIN c :
                 /\ c[i].kind \in {"metric"} \cup Composite
                 /\ DOMAIN c[i].arms \subseteq Nat
                 /\ c[i].kind = "metric" => c[i].experiment \in Experiment
                 /\ c[i].kind = "not" => DOMAIN c[i].arms = {1}
                 /\ c[i].arms # <<>> => 1 \in DOMAIN c[i].arms
                 /\ \A k \in DOMAIN c[i].arms : c[i].arms[k] \in DOMAIN c /\ c[i].arms[k] > i
  <1>1. c \in Seq(NodeType) /\ c # <<>>
    BY DEF IsTree
  <1>2. Len(c) \in Nat /\ DOMAIN c = 1..Len(c) /\ 1 \in DOMAIN c
    BY <1>1
  <1>3. ASSUME NEW i \in DOMAIN c
        PROVE  /\ c[i].kind \in {"metric"} \cup Composite
               /\ c[i].arms \in Seq(Nat)
               /\ c[i].kind = "metric" => c[i].experiment \in Experiment
               /\ c[i].kind = "not" => Len(c[i].arms) = 1
               /\ \A k \in DOMAIN c[i].arms : c[i].arms[k] \in (i + 1)..Len(c)
    <2>1. c[i] \in NodeType
      BY <1>1
    <2> QED
      BY <2>1 DEF IsTree, NodeType
  <1>4. ASSUME NEW i \in DOMAIN c
        PROVE  /\ DOMAIN c[i].arms \subseteq Nat
               /\ c[i].kind = "not" => DOMAIN c[i].arms = {1}
               /\ c[i].arms # <<>> => 1 \in DOMAIN c[i].arms
    BY <1>3
  <1>5. ASSUME NEW i \in DOMAIN c, NEW k \in DOMAIN c[i].arms
        PROVE  c[i].arms[k] \in DOMAIN c /\ c[i].arms[k] > i
    BY <1>2, <1>3
  <1> QED
    BY <1>2, <1>3, <1>4, <1>5

\* A node's verdict rests on the verdicts of its own arms.
LEMMA NodeLocal ==
    ASSUME NEW node, NEW g, NEW h, NEW facts,
           \A k \in DOMAIN node.arms : g[node.arms[k]] = h[node.arms[k]]
    PROVE  NodeVerdict(node, g, facts) = NodeVerdict(node, h, facts)
  <1>1. [k \in DOMAIN node.arms |-> g[node.arms[k]]] = [k \in DOMAIN node.arms |-> h[node.arms[k]]]
    OBVIOUS
  <1> QED
    BY <1>1 DEF NodeVerdict

\* What holds of a node as soon as it holds of all the nodes behind it holds of the
\* whole tree: the nodes are counted down to the root.
LEMMA FromTheLeaves ==
    ASSUME NEW c, IsTree(c), NEW S,
           \A i \in DOMAIN c : (\A j \in DOMAIN c : j > i => j \in S) => i \in S
    PROVE  DOMAIN c \subseteq S
  <1> DEFINE T == {k \in 0..Len(c) : \A j \in DOMAIN c : j > k => j \in S}
  <1>1. Len(c) \in Nat /\ DOMAIN c = 1..Len(c)
    BY ArmsBehind
  <1>2. Len(c) \in T /\ T \subseteq Nat
    BY <1>1
  <1>3. PICK k \in T : \A l \in T : k <= l
    BY <1>2, LeastOf
  <1>4. k = 0
    <2>1. SUFFICES ASSUME k # 0 PROVE FALSE
      OBVIOUS
    <2>2. k \in DOMAIN c /\ k - 1 \in 0..Len(c)
      BY <1>1, <2>1
    <2>3. k \in S
      BY <2>2
    <2>4. \A j \in DOMAIN c : j > k - 1 => j = k \/ j > k
      BY <1>1, <2>2
    <2>5. k - 1 \in T
      BY <2>2, <2>3, <2>4
    <2> QED
      BY <1>1, <1>3, <2>2, <2>5
  <1> QED
    BY <1>1, <1>4

\* Evaluation is total: every node has a verdict that its arms' verdicts decide.
LEMMA VerdictsExist ==
    ASSUME NEW c, NEW facts, IsTree(c)
    PROVE  \E g : g = [i \in DOMAIN c |-> NodeVerdict(c[i], g, facts)]
  <1> DEFINE Fits(g, k) == \A i \in DOMAIN c : i > k => g[i] = NodeVerdict(c[i], g, facts)
             T == {k \in 0..Len(c) : \E g : DOMAIN g = DOMAIN c /\ g = [i \in DOMAIN c |-> g[i]] /\ Fits(g, k)}
  <1>1. Len(c) \in Nat /\ DOMAIN c = 1..Len(c)
    BY ArmsBehind
  <1>2. Len(c) \in T
    <2> DEFINE g == [i \in DOMAIN c |-> "unresolvable"]
    <2>1. DOMAIN g = DOMAIN c /\ g = [i \in DOMAIN c |-> g[i]] /\ Fits(g, Len(c))
      BY <1>1
    <2> QED
      BY <1>1, <2>1
  <1>3. T \subseteq Nat
    BY <1>1
  <1>4. PICK k \in T : \A l \in T : k <= l
    BY <1>2, <1>3, LeastOf
  <1>5. PICK g : DOMAIN g = DOMAIN c /\ g = [i \in DOMAIN c |-> g[i]] /\ Fits(g, k)
    OBVIOUS
  <1>6. k \in 0..Len(c)
    OBVIOUS
  <1>7. k = 0
    <2>1. SUFFICES ASSUME k # 0 PROVE FALSE
      OBVIOUS
    <2>2. k \in DOMAIN c /\ k - 1 \in 0..Len(c) /\ k \in Nat
      BY <1>1, <1>6, <2>1
    <2> DEFINE h == [i \in DOMAIN c |-> IF i = k THEN NodeVerdict(c[k], g, facts) ELSE g[i]]
    <2>3. DOMAIN h = DOMAIN c /\ h = [i \in DOMAIN c |-> h[i]]
      OBVIOUS
    <2>4. ASSUME NEW i \in DOMAIN c, i >= k
          PROVE  NodeVerdict(c[i], h, facts) = NodeVerdict(c[i], g, facts)
      <3>1. \A a \in DOMAIN c[i].arms : c[i].arms[a] \in DOMAIN c /\ c[i].arms[a] > i
        BY ArmsBehind
      <3>2. \A a \in DOMAIN c[i].arms : h[c[i].arms[a]] = g[c[i].arms[a]]
        BY <1>1, <2>2, <2>4, <3>1
      <3> HIDE DEF h
      <3> QED
        BY <3>2, NodeLocal
    <2>5. ASSUME NEW i \in DOMAIN c, i > k - 1
          PROVE  h[i] = NodeVerdict(c[i], h, facts)
      <3>1. i >= k
        BY <1>1, <2>2, <2>5
      <3>2. NodeVerdict(c[i], h, facts) = NodeVerdict(c[i], g, facts)
        BY <2>4, <3>1
      <3>3. CASE i = k
        BY <3>2, <3>3
      <3>4. CASE i # k
        <4>1. i > k
          BY <1>1, <2>2, <3>1, <3>4
        <4>2. g[i] = NodeVerdict(c[i], g, facts)
          BY <1>5, <4>1
        <4> QED
          BY <3>2, <3>4, <4>2
      <3> QED
        BY <3>3, <3>4
    <2> HIDE DEF h
    <2>6. k - 1 \in T
      BY <2>2, <2>3, <2>5
    <2> HIDE DEF T
    <2> QED
      BY <1>4, <2>2, <2>6
  <1>8. \A i \in DOMAIN c : g[i] = NodeVerdict(c[i], g, facts)
    BY <1>1, <1>5, <1>7
  <1>9. g = [i \in DOMAIN c |-> NodeVerdict(c[i], g, facts)]
    BY <1>5, <1>8
  <1> QED
    BY <1>9

\* What evaluate_at returns for a node is decided by what it returns for its arms.
LEMMA VerdictsAre ==
    ASSUME NEW c, NEW facts, IsTree(c)
    PROVE  \A i \in DOMAIN c :
              VerdictOf(c, facts)[i] = NodeVerdict(c[i], VerdictOf(c, facts), facts)
  <1>1. VerdictOf(c, facts) = [i \in DOMAIN c |-> NodeVerdict(c[i], VerdictOf(c, facts), facts)]
    BY VerdictsExist DEF VerdictOf
  <1> QED
    BY <1>1

\* Where nothing is hollow, a verdict that no evidence supports stays unresolvable.
LEMMA NothingFromNothing ==
    ASSUME NEW c, NEW facts, IsTree(c), ~RestsOnNothing(c),
           \A x \in Reads(c) : facts[x] = None
    PROVE  Evaluate(c, facts) = "unresolvable"
  <1> DEFINE v == VerdictOf(c, facts)
             S == {i \in DOMAIN c : v[i] = "unresolvable"}
  <1>1. ASSUME NEW i \in DOMAIN c, \A j \in DOMAIN c : j > i => j \in S
        PROVE  i \in S
    <2>1. v[i] = NodeVerdict(c[i], v, facts)
      BY VerdictsAre
    <2> HIDE DEF v
    <2> DEFINE vs == [k \in DOMAIN c[i].arms |-> v[c[i].arms[k]]]
    <2>2. \A k \in DOMAIN vs : vs[k] = "unresolvable"
      BY <1>1, ArmsBehind
    <2>3. DOMAIN vs = DOMAIN c[i].arms /\ DOMAIN vs \subseteq Nat
      BY ArmsBehind
    <2>4. CASE c[i].kind = "metric"
      <3>1. facts[c[i].experiment] = None
        BY <2>4 DEF Reads
      <3> QED
        BY <2>1, <2>4, <3>1 DEF NodeVerdict, Compare
    <2>5. CASE c[i].kind = "not"
      <3>1. v[i] = NotVerdict(vs[1])
        BY <2>1, <2>5 DEF NodeVerdict
      <3>2. 1 \in DOMAIN vs
        BY <2>3, <2>5, ArmsBehind
      <3> QED
        BY <2>2, <3>1, <3>2 DEF NotVerdict
    <2>6. c[i].kind \in {"all_of", "any_of"} => 1 \in DOMAIN vs
      BY <2>3, ArmsBehind DEF RestsOnNothing, Hollow
    <2>7. CASE c[i].kind = "all_of"
      <3>1. v[i] = AllVerdict(vs)
        BY <2>1, <2>7 DEF NodeVerdict
      <3> HIDE DEF vs
      <3>2. AllVerdict(vs) = "unresolvable"
        BY <2>2, <2>3, <2>6, <2>7, AllDecides
      <3> QED
        BY <3>1, <3>2
    <2>8. CASE c[i].kind = "any_of"
      <3>1. v[i] = AnyVerdict(vs)
        BY <2>1, <2>8 DEF NodeVerdict
      <3> HIDE DEF vs
      <3> QED
        BY <2>2, <2>6, <2>8, <3>1 DEF AnyVerdict
    <2> QED
      BY <2>4, <2>5, <2>7, <2>8, ArmsBehind DEF Composite
  <1>2. DOMAIN c \subseteq S
    <2> HIDE DEF S
    <2> QED
      BY <1>1, FromTheLeaves
  <1> QED
    BY <1>2, ArmsBehind DEF Evaluate

\* More facts about other experiments turn no verdict that is resolved.
LEMMA ResolvedStays ==
    ASSUME NEW c, IsTree(c), NEW before, NEW after,
           \A x \in Experiment : before[x] # None => after[x] = before[x],
           Evaluate(c, before) # "unresolvable"
    PROVE  Evaluate(c, after) = Evaluate(c, before)
  <1> DEFINE v == VerdictOf(c, before)
             w == VerdictOf(c, after)
             S == {i \in DOMAIN c : v[i] # "unresolvable" => w[i] = v[i]}
  <1>1. ASSUME NEW i \in DOMAIN c, \A j \in DOMAIN c : j > i => j \in S
        PROVE  i \in S
    <2>1. v[i] = NodeVerdict(c[i], v, before) /\ w[i] = NodeVerdict(c[i], w, after)
      BY VerdictsAre
    <2> HIDE DEF v, w
    <2> DEFINE vs == [k \in DOMAIN c[i].arms |-> v[c[i].arms[k]]]
               ws == [k \in DOMAIN c[i].arms |-> w[c[i].arms[k]]]
    <2>2. \A k \in DOMAIN vs : vs[k] # "unresolvable" => ws[k] = vs[k]
      BY <1>1, ArmsBehind
    <2>3. DOMAIN vs = DOMAIN c[i].arms /\ DOMAIN ws = DOMAIN vs /\ DOMAIN vs \subseteq Nat
      BY ArmsBehind
    <2>4. CASE c[i].kind = "metric"
      <3>1. c[i].experiment \in Experiment
        BY <2>4, ArmsBehind
      <3> QED
        BY <2>1, <2>4, <3>1 DEF NodeVerdict, Compare
    <2>5. CASE c[i].kind = "not"
      <3>1. v[i] = NotVerdict(vs[1]) /\ w[i] = NotVerdict(ws[1])
        BY <2>1, <2>5 DEF NodeVerdict
      <3>2. 1 \in DOMAIN vs
        BY <2>3, <2>5, ArmsBehind
      <3> HIDE DEF vs, ws
      <3> QED
        BY <2>2, <3>1, <3>2 DEF NotVerdict
    <2>6. CASE c[i].kind = "all_of"
      <3>1. v[i] = AllVerdict(vs) /\ w[i] = AllVerdict(ws)
        BY <2>1, <2>6 DEF NodeVerdict
      <3> HIDE DEF vs, ws
      <3>2. CASE AllVerdict(vs) = "satisfied" /\ \A k \in DOMAIN vs : vs[k] = "satisfied"
        <4>1. \A k \in DOMAIN ws : ws[k] = "satisfied"
          BY <2>2, <2>3, <3>2
        <4> QED
          BY <2>3, <3>1, <3>2, <4>1, AllDecides
      <3>3. ASSUME NEW k \in DOMAIN vs, AllVerdict(vs) = vs[k], vs[k] # "satisfied",
                   \A j \in DOMAIN vs : j < k => vs[j] = "satisfied"
            PROVE  i \in S
        <4>1. SUFFICES ASSUME vs[k] # "unresolvable" PROVE AllVerdict(ws) = vs[k]
          BY <3>1, <3>3
        <4>2. ws[k] = vs[k] /\ \A j \in DOMAIN ws : j < k => ws[j] = "satisfied"
          BY <2>2, <2>3, <3>3, <4>1
        <4>3. PICK l \in DOMAIN ws : /\ AllVerdict(ws) = ws[l] /\ ws[l] # "satisfied"
                                     /\ \A j \in DOMAIN ws : j < l => ws[j] = "satisfied"
          BY <2>3, <3>3, <4>2, AllDecides
        <4>4. l = k
          BY <2>3, <3>3, <4>2, <4>3
        <4> QED
          BY <4>2, <4>3, <4>4
      <3> QED
        BY <2>3, <3>2, <3>3, AllDecides
    <2>7. CASE c[i].kind = "any_of"
      <3>1. v[i] = AnyVerdict(vs) /\ w[i] = AnyVerdict(ws)
        BY <2>1, <2>7 DEF NodeVerdict
      <3> HIDE DEF vs, ws
      <3> QED
        BY <2>2, <2>3, <3>1 DEF AnyVerdict
    <2> QED
      BY <2>4, <2>5, <2>6, <2>7, ArmsBehind DEF Composite
  <1>2. DOMAIN c \subseteq S
    <2> HIDE DEF S
    <2> QED
      BY <1>1, FromTheLeaves
  <1> QED
    BY <1>2, ArmsBehind DEF Evaluate

-----------------------------------------------------------------------------
\* What the ledger and a running call look like.
MeasuredType == [experiment: Experiment, lane: Lane, value: Value]
CallType == [parent: Experiment, plan: Plan, known: SUBSET Branch,
             facts: [Experiment -> Value \cup {None}], next: Nat \ {0},
             outcomes: [Branch -> Verdict]]

LedgerInv ==
    /\ measured \in Seq(MeasuredType)
    /\ plan \in [Experiment -> Plan \cup {None}]
    /\ records \in [Experiment -> Seq(RecordType)]
    /\ reported \in [Experiment -> [Branch -> Verdict]]
    /\ call # None => call \in CallType

\* A call has evaluated, itself or an earlier one, what it is about to return; it
\* has left alone the branches that are still before it; its facts are still facts.
CallInv ==
    call # None =>
        /\ \A b \in Branch : call.outcomes[b] # "none" => b \in Evaluated(call.parent)
        /\ \A i \in DOMAIN records[call.parent] :
              \/ records[call.parent][i].branch \in call.known
              \/ \E k \in DOMAIN BranchesOf(call.plan) :
                    k < call.next /\ BranchesOf(call.plan)[k].id = records[call.parent][i].branch
        /\ call.known \subseteq Evaluated(call.parent)
        /\ \A x \in Experiment : call.facts[x] # None => FactOf(x) # None

BranchInv == LedgerInv /\ CallInv /\ ActivationSound

\* The last record of an experiment is found where there is one.
LEMMA LastRecord ==
    ASSUME NEW m \in Seq(MeasuredType), NEW e,
           NEW about, about = {i \in DOMAIN m : m[i].experiment = e}, about # {}
    PROVE  m[CHOOSE i \in about : \A j \in about : j <= i].value \in Value
  <1> DEFINE T == {Len(m) - i : i \in about}
             last == CHOOSE i \in about : \A j \in about : j <= i
  <1>1. T \subseteq Nat /\ T # {} /\ Len(m) \in Nat /\ about \subseteq Int
    OBVIOUS
  <1>2. PICK t \in T : \A u \in T : t <= u
    BY <1>1, LeastOf
  <1>3. PICK i \in about : t = Len(m) - i
    BY <1>2
  <1>4. \A j \in about : j <= i
    <2>1. SUFFICES ASSUME NEW j \in about PROVE j <= i
      OBVIOUS
    <2>2. Len(m) - j \in T
      OBVIOUS
    <2>3. t <= Len(m) - j
      BY <1>2, <2>2
    <2>4. i \in Int /\ j \in Int
      BY <1>1
    <2> HIDE DEF T
    <2> QED
      BY <1>1, <1>3, <2>3, <2>4
  <1>5. last \in about
    BY <1>4
  <1> HIDE DEF last
  <1>6. m[last] \in MeasuredType
    BY <1>5
  <1>7. m[last].value \in Value
    BY <1>6 DEF MeasuredType
  <1> QED
    BY <1>7 DEF last

\* An experiment has a fact as soon as evidence of it is recorded.
LEMMA FactIs ==
    ASSUME measured \in Seq(MeasuredType), NEW e \in Experiment
    PROVE  /\ FactOf(e) \in Value \cup {None}
           /\ (FactOf(e) # None) <=> (\E i \in DOMAIN measured : measured[i].experiment = e)
  <1> DEFINE about == {i \in DOMAIN measured : measured[i].experiment = e}
  <1>1. CASE about = {}
    BY <1>1 DEF FactOf
  <1>2. CASE about # {}
    <2>1. FactOf(e) \in Value
      BY <1>2, LastRecord DEF FactOf
    <2>2. FactOf(e) # None
      BY <2>1, PlanAssumption
    <2> QED
      BY <1>2, <2>1, <2>2
  <1> QED
    BY <1>1, <1>2

\* A record of the ledger, and what depends on the records alone.
LEMMA RecordIs ==
    ASSUME LedgerInv, NEW e \in Experiment, NEW i \in DOMAIN records[e]
    PROVE  records[e][i].plan \in Plan /\ records[e][i].branch \in Branch
  <1>1. records[e] \in Seq(RecordType)
    BY DEF LedgerInv
  <1>2. records[e][i] \in RecordType
    BY <1>1
  <1> QED
    BY <1>2 DEF RecordType

LEMMA SameRecords ==
    ASSUME measured' = measured, records' = records
    PROVE  \A x : FactOf(x)' = FactOf(x) /\ Evaluated(x)' = Evaluated(x)
  BY DEF FactOf, Evaluated

LEMMA ElementOf ==
    ASSUME NEW S, NEW q \in Seq(S), NEW i \in DOMAIN q
    PROVE  q[i] \in S
  OBVIOUS

\* The branches of a plan.
LEMMA BranchesAre ==
    ASSUME NEW p \in Plan
    PROVE  /\ PlanOf[p].parent \in Experiment
           /\ Len(BranchesOf(p)) \in Nat /\ DOMAIN BranchesOf(p) = 1..Len(BranchesOf(p))
           /\ \A i \in DOMAIN BranchesOf(p) : /\ BranchesOf(p)[i].id \in Branch
                                              /\ IsTree(BranchesOf(p)[i].condition)
           /\ \A i, j \in DOMAIN BranchesOf(p) : BranchesOf(p)[i].id = BranchesOf(p)[j].id => i = j
  <1>1. BranchesOf(p) \in Seq([id: Branch, condition: Seq(NodeType)])
    BY PlanAssumption DEF BranchesOf
  <1>2. \A i \in DOMAIN BranchesOf(p) :
           BranchesOf(p)[i] \in [id: Branch, condition: Seq(NodeType)]
    BY <1>1, ElementOf
  <1>3. \A i \in DOMAIN BranchesOf(p) : BranchesOf(p)[i].id \in Branch
    BY <1>2
  <1> QED
    BY <1>1, <1>3, PlanAssumption DEF BranchesOf

LEMMA BranchInitInv == BranchInit => BranchInv
  <1> SUFFICES ASSUME BranchInit PROVE BranchInv
    OBVIOUS
  <1>1. call = None /\ reported = [e \in Experiment |-> [b \in Branch |-> "none"]]
        /\ records = [e \in Experiment |-> <<>>]
    BY DEF BranchInit
  <1>2. LedgerInv /\ CallInv
    BY <1>1 DEF BranchInit, LedgerInv, CallInv, Verdict
  <1>3. ActivationSound
    BY <1>1 DEF ActivationSound, EvaluatedOnce, ActivationHasEvidence, ReportsRecorded
  <1> QED
    BY <1>2, <1>3 DEF BranchInv

\* Evidence only adds facts.
LEMMA RecordMetricStep ==
    ASSUME BranchInv, NEW e \in Experiment, NEW lane \in Lane, NEW value \in Value,
           RecordMetric(e, lane, value)
    PROVE  BranchInv'
  <1>1. /\ measured' = Append(measured, [experiment |-> e, lane |-> lane, value |-> value])
        /\ plan' = plan /\ records' = records /\ call' = call /\ reported' = reported
    BY DEF RecordMetric
  <1>2. LedgerInv /\ CallInv /\ ActivationSound
    BY DEF BranchInv
  <1>3. LedgerInv'
    <2>1. measured' \in Seq(MeasuredType)
      BY <1>1, <1>2 DEF LedgerInv, MeasuredType
    <2> QED
      BY <1>1, <1>2, <2>1 DEF LedgerInv
  <1>4. ASSUME NEW x \in Experiment, FactOf(x) # None
        PROVE  FactOf(x)' # None
    <2>1. PICK i \in DOMAIN measured : measured[i].experiment = x
      BY <1>2, <1>4, FactIs DEF LedgerInv
    <2>2. i \in DOMAIN measured' /\ measured'[i] = measured[i]
      BY <1>1, <1>2 DEF LedgerInv
    <2>3. measured' \in Seq(MeasuredType)
      BY <1>3 DEF LedgerInv
    <2> DEFINE about == {j \in DOMAIN measured' : measured'[j].experiment = x}
    <2>4. about # {}
      BY <2>1, <2>2
    <2>5. FactOf(x)' \in Value
      BY <2>3, <2>4, LastRecord DEF FactOf
    <2> QED
      BY <2>5, PlanAssumption
  <1>5. \A x : Evaluated(x)' = Evaluated(x)
    BY <1>1 DEF Evaluated
  <1>6. CallInv'
    BY <1>1, <1>2, <1>4, <1>5 DEF CallInv, LedgerInv, CallType
  <1>7. EvaluatedOnce' /\ ReportsRecorded'
    BY <1>1, <1>2, <1>5 DEF ActivationSound, EvaluatedOnce, ReportsRecorded
  <1>8. ActivationHasEvidence'
    <2> SUFFICES ASSUME NEW p \in Experiment, NEW i \in DOMAIN records[p], records[p][i].activated
                 PROVE  \E k \in DOMAIN BranchesOf(records[p][i].plan) :
                           /\ BranchesOf(records[p][i].plan)[k].id = records[p][i].branch
                           /\ \/ \E x \in Reads(BranchesOf(records[p][i].plan)[k].condition) : FactOf(x)' # None
                              \/ RestsOnNothing(BranchesOf(records[p][i].plan)[k].condition)
      BY <1>1 DEF ActivationHasEvidence
    <2>1. PICK k \in DOMAIN BranchesOf(records[p][i].plan) :
             /\ BranchesOf(records[p][i].plan)[k].id = records[p][i].branch
             /\ \/ \E x \in Reads(BranchesOf(records[p][i].plan)[k].condition) : FactOf(x) # None
                \/ RestsOnNothing(BranchesOf(records[p][i].plan)[k].condition)
      BY <1>2 DEF ActivationSound, ActivationHasEvidence
    <2>2. records[p][i].plan \in Plan
      BY <1>2, RecordIs
    <2>3. Reads(BranchesOf(records[p][i].plan)[k].condition) \subseteq Experiment
      BY <2>2, BranchesAre, ArmsBehind DEF Reads
    <2> QED
      BY <1>4, <2>1, <2>3
  <1> QED
    BY <1>3, <1>6, <1>7, <1>8 DEF BranchInv, ActivationSound

\* Everything but an append leaves what has been evaluated alone.
LEMMA NoAppendStep ==
    ASSUME BranchInv, UNCHANGED <<measured, records>>, LedgerInv', CallInv', ReportsRecorded'
    PROVE  BranchInv'
  <1>1. EvaluatedOnce' /\ ActivationHasEvidence'
    BY SameRecords DEF BranchInv, ActivationSound, EvaluatedOnce, ActivationHasEvidence
  <1> QED
    BY <1>1 DEF BranchInv, ActivationSound

LEMMA PlanStep ==
    ASSUME BranchInv, NEW p \in Plan, RegisterBranchPlan(p)
    PROVE  BranchInv'
  <1>1. /\ plan' = [plan EXCEPT ![PlanOf[p].parent] = p] /\ measured' = measured
        /\ records' = records /\ call' = call /\ reported' = reported
    BY DEF RegisterBranchPlan
  <1>2. LedgerInv /\ CallInv /\ ReportsRecorded
    BY DEF BranchInv, ActivationSound
  <1>3. LedgerInv'
    BY <1>1, <1>2, BranchesAre DEF LedgerInv
  <1>4. CallInv' /\ ReportsRecorded'
    BY <1>1, <1>2, SameRecords DEF CallInv, ReportsRecorded
  <1> QED
    BY <1>1, <1>3, <1>4, NoAppendStep

LEMMA BeginStep ==
    ASSUME BranchInv, NEW e \in Experiment, BeginActivation(e)
    PROVE  BranchInv'
  <1>1. /\ plan[e] # None /\ measured' = measured
        /\ call' = [parent |-> e, plan |-> plan[e], known |-> Evaluated(e),
                    facts |-> Facts, next |-> 1, outcomes |-> [b \in Branch |-> "none"]]
        /\ plan' = plan /\ records' = records /\ reported' = reported
    BY DEF BeginActivation
  <1>2. LedgerInv /\ ReportsRecorded
    BY DEF BranchInv, ActivationSound
  <1>3. Facts \in [Experiment -> Value \cup {None}]
    BY <1>2, FactIs DEF Facts, LedgerInv
  <1>4. Evaluated(e) \subseteq Branch
    BY <1>2, RecordIs DEF Evaluated
  <1>5. LedgerInv'
    <2>1. call' \in CallType
      BY <1>1, <1>2, <1>3, <1>4 DEF CallType, LedgerInv, Verdict
    <2> QED
      BY <1>1, <1>2, <2>1 DEF LedgerInv
  <1>6. CallInv'
    <2>1. \A i \in DOMAIN records[e] : records[e][i].branch \in Evaluated(e)
      BY DEF Evaluated
    <2>2. \A x \in Experiment : Facts[x] = FactOf(x)
      BY DEF Facts
    <2> QED
      BY <1>1, <2>1, <2>2, SameRecords DEF CallInv
  <1>7. ReportsRecorded'
    BY <1>1, <1>2, SameRecords DEF ReportsRecorded
  <1> QED
    BY <1>1, <1>5, <1>6, <1>7, NoAppendStep

LEMMA SkipStep ==
    ASSUME BranchInv, SkipBranch
    PROVE  BranchInv'
  <1>1. /\ call # None /\ call.next <= Len(BranchesOf(call.plan)) /\ NextBranch.id \in call.known
        /\ call' = [call EXCEPT !.outcomes = Replayed(@, NextBranch.id), !.next = @ + 1]
        /\ measured' = measured /\ plan' = plan /\ records' = records /\ reported' = reported
    BY DEF SkipBranch
  <1>2. LedgerInv /\ CallInv /\ ReportsRecorded
    BY DEF BranchInv, ActivationSound
  <1>3. call \in CallType
    BY <1>1, <1>2 DEF LedgerInv
  <1>4. /\ call.outcomes \in [Branch -> Verdict] /\ call.next \in Nat \ {0}
        /\ call.known \subseteq Branch /\ call.plan \in Plan /\ call.parent \in Experiment
    BY <1>3 DEF CallType
  <1> DEFINE out == Replayed(call.outcomes, NextBranch.id)
  <1>5. out \in [Branch -> Verdict]
        /\ \A b \in Branch : out[b] # "none" => b = NextBranch.id \/ call.outcomes[b] # "none"
    BY <1>4 DEF Replayed, Verdict
  <1>6. /\ call'.outcomes = out /\ call'.next = call.next + 1 /\ call'.known = call.known
        /\ call'.parent = call.parent /\ call'.plan = call.plan /\ call'.facts = call.facts
        /\ call' \in CallType
    <2> HIDE DEF out
    <2>1. call' = [call EXCEPT !.outcomes = out, !.next = call.next + 1]
      BY <1>1 DEF out
    <2>2. DOMAIN call = {"parent", "plan", "known", "facts", "next", "outcomes"}
      BY <1>3 DEF CallType
    <2>3. /\ call'.outcomes = out /\ call'.next = call.next + 1 /\ call'.known = call.known
          /\ call'.parent = call.parent /\ call'.plan = call.plan /\ call'.facts = call.facts
      BY <2>1, <2>2
    <2>4. call.next + 1 \in Nat \ {0} /\ call.facts \in [Experiment -> Value \cup {None}]
      BY <1>3, <1>4 DEF CallType
    <2>5. call' = [parent |-> call.parent, plan |-> call.plan, known |-> call.known,
                   facts |-> call.facts, next |-> call.next + 1, outcomes |-> out]
      BY <1>3, <2>1 DEF CallType
    <2>6. call' \in CallType
      BY <1>4, <1>5, <2>4, <2>5 DEF CallType
    <2> QED
      BY <2>3, <2>6
  <1> HIDE DEF out
  <1>7. LedgerInv'
    BY <1>1, <1>2, <1>6 DEF LedgerInv
  <1>8. CallInv'
    <2>1. \A b \in Branch : out[b] # "none" => b \in Evaluated(call.parent)
      BY <1>1, <1>2, <1>5 DEF CallInv
    <2>2. \A x : FactOf(x)' = FactOf(x) /\ Evaluated(x)' = Evaluated(x)
      BY <1>1, SameRecords
    <2>3. \A k : k < call.next /\ k \in Int => k < call.next + 1
      BY <1>4
    <2>4. DOMAIN BranchesOf(call.plan) \subseteq Int
      BY <1>4, BranchesAre
    <2> QED
      BY <1>1, <1>2, <1>6, <2>1, <2>2, <2>3, <2>4 DEF CallInv
  <1>9. ReportsRecorded'
    BY <1>1, <1>2, SameRecords DEF ReportsRecorded
  <1> QED
    BY <1>1, <1>7, <1>8, <1>9, NoAppendStep

\* The branch that is evaluated is one that nothing on the ledger is about yet.
LEMMA EvaluateStep ==
    ASSUME BranchInv, EvaluateBranch
    PROVE  BranchInv'
  <1>1. /\ call # None /\ call.next <= Len(BranchesOf(call.plan)) /\ NextBranch.id \notin call.known
        /\ measured' = measured /\ plan' = plan /\ reported' = reported
    BY DEF EvaluateBranch
  <1>2. LedgerInv /\ CallInv /\ ActivationSound
    BY DEF BranchInv
  <1>3. call \in CallType /\ records \in [Experiment -> Seq(RecordType)]
    BY <1>1, <1>2 DEF LedgerInv
  <1>4. /\ call.outcomes \in [Branch -> Verdict] /\ call.next \in Nat \ {0}
        /\ call.known \subseteq Branch /\ call.plan \in Plan /\ call.parent \in Experiment
        /\ call.facts \in [Experiment -> Value \cup {None}]
    BY <1>3 DEF CallType
  <1>5. /\ call.next \in DOMAIN BranchesOf(call.plan) /\ NextBranch.id \in Branch
        /\ IsTree(NextBranch.condition)
    BY <1>1, <1>4, BranchesAre DEF NextBranch
  <1>0. PICK p \in Experiment, b \in Branch : p = call.parent /\ b = NextBranch.id
    BY <1>4, <1>5
  <1>6. PICK activated \in BOOLEAN :
           /\ activated <=> Evaluate(NextBranch.condition, call.facts) = "satisfied"
           /\ records' = [records EXCEPT ![p] =
                             Append(@, [plan |-> call.plan, branch |-> b, activated |-> activated])]
           /\ call' = [call EXCEPT !.outcomes[b] = IF activated THEN "activated" ELSE "dormant",
                                   !.next = @ + 1]
    <2> DEFINE sat == Evaluate(NextBranch.condition, call.facts) = "satisfied"
    <2>1. /\ records' = [records EXCEPT ![p] =
                             Append(@, [plan |-> call.plan, branch |-> b, activated |-> sat])]
          /\ call' = [call EXCEPT !.outcomes[b] = IF sat THEN "activated" ELSE "dormant",
                                  !.next = @ + 1]
      BY <1>0 DEF EvaluateBranch, Logged
    <2>2. sat \in BOOLEAN
      OBVIOUS
    <2> HIDE DEF sat
    <2>3. WITNESS sat \in BOOLEAN
    <2> QED
      BY <2>1, <2>2 DEF sat
  <1> DEFINE record == [plan |-> call.plan, branch |-> b, activated |-> activated]
             n == Len(records[p]) + 1
             out == [call.outcomes EXCEPT ![b] = IF activated THEN "activated" ELSE "dormant"]
  <1>7. record \in RecordType /\ p \in Experiment /\ b \in Branch
    BY <1>4, <1>5, <1>0 DEF RecordType
  <1>8. /\ records' \in [Experiment -> Seq(RecordType)]
        /\ \A e \in Experiment : e # p => records'[e] = records[e]
        /\ n \in Nat \ {0} /\ DOMAIN records'[p] = 1..n /\ DOMAIN records[p] = 1..(n - 1)
        /\ records'[p][n] = record
        /\ \A i \in DOMAIN records[p] : records'[p][i] = records[p][i]
    <2> HIDE DEF record
    <2>1. records' = [records EXCEPT ![p] = Append(records[p], record)]
      BY <1>6 DEF record
    <2> QED
      BY <1>3, <1>7, <2>1
  <1>9. out \in [Branch -> Verdict]
        /\ \A x \in Branch : out[x] # "none" => x = b \/ call.outcomes[x] # "none"
    BY <1>4, <1>7 DEF Verdict
  <1>10. /\ call'.outcomes = out /\ call'.next = call.next + 1 /\ call'.known = call.known
         /\ call'.parent = p /\ call'.plan = call.plan /\ call'.facts = call.facts
         /\ call' \in CallType
    <2>1. call' = [call EXCEPT !.outcomes = out, !.next = call.next + 1]
      BY <1>3, <1>4, <1>6 DEF CallType
    <2> HIDE DEF out
    <2>2. call' = [parent |-> p, plan |-> call.plan, known |-> call.known,
                   facts |-> call.facts, next |-> call.next + 1, outcomes |-> out]
      BY <1>3, <1>0, <2>1 DEF CallType
    <2>3. call.next + 1 \in Nat \ {0}
      BY <1>4
    <2>4. call' \in CallType
      BY <1>4, <1>9, <2>2, <2>3 DEF CallType
    <2> QED
      BY <2>2, <2>4
  <1> HIDE DEF record, n, out
  <1>11. record.plan = call.plan /\ record.branch = b /\ record.activated = activated
    BY DEF record
  <1>12. b \notin Evaluated(p)
    <2>1. SUFFICES ASSUME NEW i \in DOMAIN records[p], records[p][i].branch = b PROVE FALSE
      BY DEF Evaluated
    <2>2. PICK k \in DOMAIN BranchesOf(call.plan) :
             k < call.next /\ BranchesOf(call.plan)[k].id = b
      BY <1>1, <1>2, <1>0, <2>1 DEF CallInv
    <2>3. k = call.next
      BY <1>4, <1>5, <1>0, <2>2, BranchesAre DEF NextBranch
    <2> QED
      BY <1>4, <2>2, <2>3
  <1>13. /\ \A e \in Experiment : Evaluated(e) \subseteq Evaluated(e)'
         /\ b \in Evaluated(p)'
    <2>1. \A e \in Experiment : Evaluated(e) \subseteq Evaluated(e)'
      <3>1. \A e \in Experiment : \A i \in DOMAIN records[e] :
               i \in DOMAIN records'[e] /\ records'[e][i] = records[e][i]
        BY <1>8
      <3> QED
        BY <3>1 DEF Evaluated
    <2>2. n \in DOMAIN records'[p] /\ records'[p][n].branch = b
      BY <1>8, <1>11
    <2> QED
      BY <2>1, <2>2 DEF Evaluated
  <1>14. \A x : FactOf(x)' = FactOf(x)
    BY <1>1 DEF FactOf
  <1>15. LedgerInv'
    BY <1>1, <1>2, <1>8, <1>10 DEF LedgerInv
  <1>16. CallInv'
    <2>1. \A x \in Branch : out[x] # "none" => x \in Evaluated(p)'
      BY <1>1, <1>2, <1>7, <1>9, <1>13, <1>0 DEF CallInv
    <2>2. ASSUME NEW i \in DOMAIN records'[p]
          PROVE  \/ records'[p][i].branch \in call.known
                 \/ \E k \in DOMAIN BranchesOf(call.plan) :
                       k < call.next + 1 /\ BranchesOf(call.plan)[k].id = records'[p][i].branch
      <3>1. CASE i = n
        BY <1>4, <1>5, <1>8, <1>11, <1>0, <3>1 DEF NextBranch
      <3>2. CASE i # n
        <4>1. i \in DOMAIN records[p] /\ records'[p][i] = records[p][i]
          BY <1>8, <3>2
        <4>2. \A k \in DOMAIN BranchesOf(call.plan) : k < call.next => k < call.next + 1
          BY <1>4, BranchesAre
        <4> QED
          BY <1>1, <1>2, <1>0, <4>1, <4>2 DEF CallInv
      <3> QED
        BY <3>1, <3>2
    <2>3. call.known \subseteq Evaluated(p)'
      BY <1>1, <1>2, <1>7, <1>13, <1>0 DEF CallInv
    <2>4. \A x \in Experiment : call.facts[x] # None => FactOf(x)' # None
      BY <1>1, <1>2, <1>14 DEF CallInv
    <2> QED
      BY <1>10, <2>1, <2>2, <2>3, <2>4 DEF CallInv
  <1>17. EvaluatedOnce'
    <2>1. SUFFICES ASSUME NEW e \in Experiment, NEW i \in DOMAIN records'[e], NEW j \in DOMAIN records'[e],
                          records'[e][i].branch = records'[e][j].branch
                   PROVE  i = j
      BY DEF EvaluatedOnce
    <2>2. \A f \in Experiment : \A k, l \in DOMAIN records[f] :
             records[f][k].branch = records[f][l].branch => k = l
      BY <1>2 DEF ActivationSound, EvaluatedOnce
    <2>3. \A k \in DOMAIN records[p] : records[p][k].branch # b
      BY <1>12 DEF Evaluated
    <2>4. CASE e # p
      BY <1>8, <2>1, <2>2, <2>4
    <2>5. CASE e = p
      <3>1. i \in DOMAIN records[p] \/ i = n
        BY <1>8, <2>5
      <3>2. j \in DOMAIN records[p] \/ j = n
        BY <1>8, <2>5
      <3> QED
        BY <1>7, <1>8, <1>11, <2>1, <2>2, <2>3, <2>5, <3>1, <3>2
    <2> QED
      BY <2>4, <2>5
  <1>18. ReportsRecorded'
    BY <1>1, <1>2, <1>13 DEF ActivationSound, ReportsRecorded
  <1>19. ActivationHasEvidence'
    <2>1. SUFFICES ASSUME NEW e \in Experiment, NEW i \in DOMAIN records'[e], records'[e][i].activated
                   PROVE  \E k \in DOMAIN BranchesOf(records'[e][i].plan) :
                             /\ BranchesOf(records'[e][i].plan)[k].id = records'[e][i].branch
                             /\ \/ \E x \in Reads(BranchesOf(records'[e][i].plan)[k].condition) : FactOf(x) # None
                                \/ RestsOnNothing(BranchesOf(records'[e][i].plan)[k].condition)
      BY <1>14 DEF ActivationHasEvidence
    <2>2. CASE i \in DOMAIN records[e] /\ records'[e][i] = records[e][i]
      BY <1>2, <2>1, <2>2 DEF ActivationSound, ActivationHasEvidence
    <2>3. CASE e = p /\ i = n
      <3>1. Evaluate(NextBranch.condition, call.facts) = "satisfied"
        BY <1>6, <1>8, <1>11, <2>1, <2>3
      <3>2. ~RestsOnNothing(NextBranch.condition)
               => \E x \in Reads(NextBranch.condition) : call.facts[x] # None
        BY <1>5, <3>1, NothingFromNothing
      <3>3. Reads(NextBranch.condition) \subseteq Experiment
        BY <1>5, ArmsBehind DEF Reads
      <3>4. \/ \E x \in Reads(NextBranch.condition) : FactOf(x) # None
            \/ RestsOnNothing(NextBranch.condition)
        BY <1>1, <1>2, <3>2, <3>3 DEF CallInv
      <3> QED
        BY <1>5, <1>8, <1>11, <1>0, <2>3, <3>4 DEF NextBranch
    <2> QED
      BY <1>8, <2>2, <2>3
  <1> QED
    BY <1>15, <1>16, <1>17, <1>18, <1>19 DEF BranchInv, ActivationSound

LEMMA CallEndsStep ==
    ASSUME BranchInv, ReturnOutcomes \/ AbortActivation
    PROVE  BranchInv'
  <1>1. /\ call # None /\ call' = None /\ measured' = measured /\ plan' = plan /\ records' = records
        /\ \/ reported' = reported
           \/ reported' = [reported EXCEPT ![call.parent] = call.outcomes]
    BY DEF ReturnOutcomes, AbortActivation
  <1>2. LedgerInv /\ CallInv /\ ReportsRecorded
    BY DEF BranchInv, ActivationSound
  <1>3. call.outcomes \in [Branch -> Verdict] /\ call.parent \in Experiment
    BY <1>1, <1>2 DEF LedgerInv, CallType
  <1>4. LedgerInv' /\ CallInv'
    BY <1>1, <1>2, <1>3 DEF LedgerInv, CallInv
  <1>5. ReportsRecorded'
    <2>1. \A b \in Branch : call.outcomes[b] # "none" => b \in Evaluated(call.parent)
      BY <1>1, <1>2 DEF CallInv
    <2>2. ASSUME NEW e \in Experiment
          PROVE  reported'[e] = reported[e] \/ (e = call.parent /\ reported'[e] = call.outcomes)
      <3>1. CASE reported' = reported
        BY <3>1
      <3>2. CASE reported' = [reported EXCEPT ![call.parent] = call.outcomes]
        <4>1. DOMAIN reported = Experiment
          BY <1>2 DEF LedgerInv
        <4> QED
          BY <3>2, <4>1
      <3> QED
        BY <1>1, <3>1, <3>2
    <2> QED
      BY <1>1, <1>2, <2>1, <2>2, SameRecords DEF ReportsRecorded
  <1> QED
    BY <1>1, <1>4, <1>5, NoAppendStep

LEMMA BranchNextInv == BranchInv /\ [BranchNext]_branchVars => BranchInv'
  <1> SUFFICES ASSUME BranchInv, [BranchNext]_branchVars PROVE BranchInv'
    OBVIOUS
  <1>1. CASE UNCHANGED branchVars
    <2>1. LedgerInv' /\ CallInv' /\ ReportsRecorded'
      BY <1>1, SameRecords DEF branchVars, BranchInv, ActivationSound, LedgerInv, CallInv,
           ReportsRecorded
    <2> QED
      BY <1>1, <2>1, NoAppendStep DEF branchVars
  <1>2. CASE BranchNext
    BY <1>2, RecordMetricStep, PlanStep, BeginStep, SkipStep, EvaluateStep, CallEndsStep DEF BranchNext
  <1> QED
    BY <1>1, <1>2

(* For any plans, conditions, evidence and crashes: one evaluation of each *)
(* branch, grounded in evidence, and nothing else is reported.             *)
THEOREM ActivationCorrect == BranchSpec => []ActivationSound
  <1>1. BranchInv => ActivationSound
    BY DEF BranchInv
  <1> QED
    BY <1>1, BranchInitInv, BranchNextInv, PTL DEF BranchSpec

(* For any tree and any evidence: a verdict once resolved is turned by     *)
(* new evidence about a known experiment only.                             *)
THEOREM VerdictsCorrect == BranchSpec => VerdictsStable
  <1>1. ASSUME NEW before, NEW after, \A e \in Experiment : before[e] # None => after[e] = before[e],
               NEW p \in Plan, NEW i \in DOMAIN BranchesOf(p),
               Evaluate(BranchesOf(p)[i].condition, before) # "unresolvable"
        PROVE  Evaluate(BranchesOf(p)[i].condition, after) = Evaluate(BranchesOf(p)[i].condition, before)
    BY <1>1, ResolvedStays, BranchesAre
  <1>2. LET before == Facts
            after == Facts'
            grown == \A e \in Experiment : before[e] # None => after[e] = before[e]
        IN  \A p \in Plan : \A i \in DOMAIN BranchesOf(p) :
              LET c == BranchesOf(p)[i].condition
              IN  grown /\ Evaluate(c, before) # "unresolvable"
                    => Evaluate(c, after) = Evaluate(c, before)
    BY <1>1
  <1> QED
    BY <1>2, PTL DEF VerdictsStable
=============================================================================
