------------------------------ MODULE Allocator ------------------------------
(***************************************************************************)
(* How ilXyr spends an epoch budget without a human in the loop            *)
(* (crates/ilxyr-core/src/autonomy.rs; the loop cycle of onboarding.rs):   *)
(* allocate_epoch and allocate_replication fund, admit and charge          *)
(* experiments, run_experiment_unattended starts what was charged, and     *)
(* run_sandbox charges, executes and records a probe in one call.          *)
(*                                                                         *)
(* EpochBudget supplies the budgets, the clock and check_capacity.  Here a *)
(* call is a process with one action per append: it may die between any    *)
(* two of them (AbortCall) while people fund, admit and run the same       *)
(* experiments by hand.  Of the promoted lane only what these calls read   *)
(* or write is kept; Workflow models it in full.                           *)
(***************************************************************************)
EXTENDS EpochBudget

CONSTANTS
    Experiment,   \* ids of compiled experiments
    Sandbox,      \* ids of sandbox plans; nothing keeps the two sets apart
    SubjectOf,    \* the experiment or sandbox that a request is made for
    TestOf,       \* the experiment whose test data a sandbox reads
    Divided,      \* the experiments whose forecasters disagree
    Sealable,     \* those that are evaluated on a test artifact
    RankOf,       \* the order of experiments by priority, highest first
    MaxStarts,    \* bound: executions of one experiment
    MaxAborts     \* bound: calls that die

Id == Experiment \cup Sandbox

Promoted == {r \in Request : RequestOf[r].lane = "promoted"}
Replication == {r \in Request : RequestOf[r].lane = "replication"}
Probe == {r \in Request : RequestOf[r].lane = "sandbox"}

\* What a sandbox program reports: a metric that beats the budget's baseline at
\* sufficient authority, one that does not, or output that breaks the contract.
Result == {"beats", "falls short", "invalid"}
ProbeRun == [budget : Budget, result : Result]

\* A person's commitment and those that the two allocators make under a budget.
ByHand == <<None, "by hand">>
Funding == {ByHand} \cup (Budget \X {"promoted", "replication"})

ASSUME SubjectAssumption ==
    /\ SubjectOf \in [Request -> Id]
    /\ \A r \in Promoted \cup Replication : SubjectOf[r] \in Experiment
    /\ \A r \in Probe : SubjectOf[r] \in Sandbox
    /\ TestOf \in [Sandbox -> Experiment]
    /\ Divided \subseteq Experiment /\ Sealable \subseteq Experiment
    /\ RankOf \in [Experiment -> Nat]
    /\ \A d, e \in Experiment : RankOf[d] = RankOf[e] => d = e
    /\ None \notin Request \cup Id
    /\ None \notin ProbeRun /\ None \notin {"promoted", "sandbox"}
    /\ MaxStarts \in Nat /\ MaxAborts \in Nat

VARIABLES
    step,         \* what the running call does next
    todo,         \* the candidates it has not considered, as read at its start
    at,           \* the request it is working on
    funding,      \* FundingCommitted: the ids of the commitments
    accepted,     \* the experiments whose latest AdmissionDecided accepts
    seal,         \* TestDigestSealed, TestDigestReleased
    starts,       \* ExecutionStarted, counted
    unattended,   \* those of them that a budget authorized, per budget
    completed,    \* ExperimentCompleted, with an outcome that resolves
    planned,      \* SandboxPlanned
    probed,       \* SandboxRunCompleted: its budget and result
    evidence,     \* EvidenceRecorded: its lane, under the id it is filed
    promotion,    \* PromotionEvaluated
    aborts

callVars == <<step, todo, at>>
experimentVars == <<funding, accepted, seal>>
runVars == <<starts, unattended, completed>>
probeVars == <<planned, probed, promotion>>
ledgerVars == <<experimentVars, runVars, probeVars, evidence>>
allocatorVars == <<vars, callVars, ledgerVars, aborts>>

-----------------------------------------------------------------------------
(* What the promoted lane decides.                                         *)
InputsOpen(e) == starts[e] = 0 /\ e \notin accepted

\* The gates of admission that change here; forecasts suffice throughout.
Sealed(e) == seal[e] = "sealed"
Gates(e) == funding[e] # {} /\ ~Sealed(e)

\* decide_admission keeps an acceptance; a rejection may be decided anew.
AfterDecision(e) == IF Gates(e) THEN accepted \cup {e} ELSE accepted

\* ensure_admitted goes on when the decision accepts, not after any decision.
Admitted(e) == e \in AfterDecision(e)

\* allocation_candidate: an error for one candidate leaves the others alone.
Candidate(b, r) ==
    /\ starts[SubjectOf[r]] = 0
    /\ RunCapAllows(b, r)

\* The commitment id that a call under budget b uses for a request.
Commitment(b, r) == <<b, RequestOf[r].lane>>

\* A retry finds its own commitment; a new one needs open inputs.
MayCommit(b, r) == InputsOpen(SubjectOf[r])
Fundable(b, r) == Commitment(b, r) \in funding[SubjectOf[r]] \/ MayCommit(b, r)

Topmost(r) == \A q \in todo : RankOf[SubjectOf[q]] >= RankOf[SubjectOf[r]]

\* authorize_unattended_run: a charge to the budget, no earlier start that is
\* still open, and a budget below its acknowledgement line.
Charged(b, e) == \E r \in allocated[b] \ Probe : SubjectOf[r] = e
\* Mutant: an earlier start is not looked for.
Whenever(e) == TRUE
NeverStarted(e) == starts[e] = 0
Authorized(b, e) ==
    /\ Active(b)
    /\ Charged(b, e)
    /\ NeverStarted(e)
    /\ ~Crosses(b, TotalSpent(b))

\* Mutant: a repetition does not see the recorded run.
NoRun(s) == FALSE
\* What a repeated run_sandbox finds: a recorded run, whose budget must be its
\* own and whose output valid, and evidence that must not be another lane's.
Recorded(s) == probed[s] # None
Valid(s) == probed[s].result # "invalid"
Finalizable(s) == Valid(s) /\ probed[s].budget = call
Unfiled(s) == evidence[s] = None
Fileable(s) == Unfiled(s) \/ evidence[s] = "sandbox"

-----------------------------------------------------------------------------
AllocatorInit ==
    /\ Init
    /\ step = "idle" /\ todo = {} /\ at = None
    /\ funding = [e \in Experiment |-> {}]
    /\ accepted = {}
    /\ seal = [e \in Experiment |-> "open"]
    /\ starts = [e \in Experiment |-> 0]
    /\ unattended = [b \in Budget |-> [e \in Experiment |-> 0]]
    /\ completed = {}
    /\ planned = {}
    /\ probed = [s \in Sandbox |-> None]
    /\ evidence = [i \in Id |-> None]
    /\ promotion = [s \in Sandbox |-> None]
    /\ aborts = 0

Return == EndCall /\ step' = "idle" /\ todo' = {} /\ at' = None
NextCandidate == step' = "pick" /\ at' = None
Charge(r) == ReserveAllocation(r) /\ UNCHANGED <<ledgerVars, aborts>>

(* allocate_epoch reads every candidate, sorts them by priority and walks   *)
(* down; allocate_replication does the same for its one experiment.        *)
AllocateEpoch(b, batch) ==
    /\ step = "idle"
    /\ BeginCall(b)
    /\ todo' = {r \in batch : Candidate(b, r) /\ SubjectOf[r] \in Divided}
    /\ NextCandidate
    /\ UNCHANGED <<ledgerVars, aborts>>

AllocateReplication(b, r) ==
    /\ step = "idle"
    /\ BeginCall(b)
    /\ Candidate(b, r)
    /\ todo' = {r}
    /\ NextCandidate
    /\ UNCHANGED <<ledgerVars, aborts>>

\* The next candidate in line, which the epoch has credits for or has charged.
Pick(r) ==
    /\ step = "pick"
    /\ r \in todo
    /\ Topmost(r)

Affordable(r) == r \in allocated[call] \/ HasCapacity(call, r)

NoCapacity(r) ==
    /\ Pick(r)
    /\ ~Affordable(r)
    /\ todo' = todo \ {r}
    /\ NextCandidate
    /\ UNCHANGED <<vars, ledgerVars, aborts>>

FundCandidate(r) ==
    LET e == SubjectOf[r]
    IN  /\ Pick(r)
        /\ Affordable(r)
        /\ Fundable(call, r)
        /\ funding' = [funding EXCEPT ![e] = @ \cup {Commitment(call, r)}]
        /\ step' = "admit"
        /\ at' = r
        /\ todo' = todo \ {r}
        /\ UNCHANGED <<vars, accepted, seal, runVars, probeVars,
                       evidence, aborts>>

\* Closed inputs fail the whole call, with the candidates behind this one.
FundingRefused(r) ==
    /\ Pick(r)
    /\ Affordable(r)
    /\ ~Fundable(call, r)
    /\ Return
    /\ UNCHANGED <<ledgerVars, aborts>>

-----------------------------------------------------------------------------
(* ensure_admitted keeps an earlier acceptance, or decides; a rejection is *)
(* recorded and fails the call before anything is charged.                 *)
EnsureAdmitted ==
    LET e == SubjectOf[at]
    IN  /\ step = "admit"
        /\ Admitted(e)
        /\ accepted' = AfterDecision(e)
        /\ step' = "reserve"
        /\ UNCHANGED <<vars, todo, at, funding, seal, runVars, probeVars,
                       evidence, aborts>>

AdmissionRejected ==
    /\ step = "admit"
    /\ ~Admitted(SubjectOf[at])
    /\ Return
    /\ UNCHANGED <<ledgerVars, aborts>>

ReserveCandidate ==
    /\ step = "reserve"
    /\ \/ at \in allocated[call] /\ UNCHANGED <<vars, ledgerVars, aborts>>
       \/ Charge(at)
    /\ NextCandidate
    /\ todo' = todo

ReturnReport ==
    /\ step = "pick"
    /\ todo = {}
    /\ Return
    /\ UNCHANGED <<ledgerVars, aborts>>

-----------------------------------------------------------------------------
(* run_sandbox freezes the plan, charges it, executes and records, and is  *)
(* repeated after a death: with a recorded run it only finalizes.          *)
RunSandbox(b, r) ==
    LET s == SubjectOf[r]
    IN  /\ step = "idle"
        /\ BeginCall(b)
        /\ ~Sealed(TestOf[s])
        /\ planned' = planned \cup {s}
        /\ step' = IF Recorded(s) THEN "finish" ELSE "charge"
        /\ at' = r
        /\ todo' = {}
        /\ UNCHANGED <<experimentVars, runVars, probed, promotion, evidence, aborts>>

ChargeProbe ==
    /\ step = "charge"
    /\ \/ at \in allocated[call] /\ UNCHANGED <<vars, ledgerVars, aborts>>
       \/ Charge(at)
    /\ step' = "execute"
    /\ UNCHANGED <<todo, at>>

ProbeRefused ==
    /\ step = "charge"
    /\ at \notin allocated[call]
    /\ ~(HasCapacity(call, at) /\ ProbeAuthorized(call, at))
    /\ Return
    /\ UNCHANGED <<ledgerVars, aborts>>

ExecuteProbe(result) ==
    /\ step = "execute"
    /\ probed' = [probed EXCEPT ![SubjectOf[at]] = [budget |-> call, result |-> result]]
    /\ step' = "finish"
    /\ UNCHANGED <<vars, todo, at, experimentVars, runVars, planned, promotion, evidence, aborts>>

\* finalize_sandbox.
RecordProbe ==
    LET s == SubjectOf[at]
    IN  /\ step = "finish"
        /\ Finalizable(s)
        /\ Fileable(s)
        /\ evidence' = [evidence EXCEPT ![s] = "sandbox"]
        /\ step' = "promote"
        /\ UNCHANGED <<vars, todo, at, experimentVars, runVars, probeVars, aborts>>

\* An invalid run ends here; a foreign budget or foreign evidence is a conflict.
ProbeNotRecorded ==
    LET s == SubjectOf[at]
    IN  /\ step = "finish"
        /\ ~(Finalizable(s) /\ Fileable(s))
        /\ Return
        /\ UNCHANGED <<ledgerVars, aborts>>

\* promotion_for: eligible is computed from the evidence, once.
EvaluatePromotion ==
    LET s == SubjectOf[at]
    IN  /\ step = "promote"
        /\ IF promotion[s] = None
             THEN promotion' = [promotion EXCEPT ![s] =
                    [budget |-> call, eligible |-> probed[s].result = "beats"]]
             ELSE UNCHANGED promotion
        /\ Return
        /\ UNCHANGED <<experimentVars, runVars, planned, probed, evidence, aborts>>

\* The process of the call dies, an append fails or a program does not start.
AbortCall ==
    /\ call # None
    /\ aborts < MaxAborts
    /\ aborts' = aborts + 1
    /\ Return
    /\ UNCHANGED ledgerVars

-----------------------------------------------------------------------------
(* What people do meanwhile, and the executions.                           *)
CommitFunding(e) ==
    /\ InputsOpen(e)
    /\ ByHand \notin funding[e]
    /\ funding' = [funding EXCEPT ![e] = @ \cup {ByHand}]
    /\ UNCHANGED <<vars, callVars, accepted, seal, runVars, probeVars,
                   evidence, aborts>>

DecideAdmission(e) ==
    /\ starts[e] = 0
    /\ accepted' = AfterDecision(e)
    /\ UNCHANGED <<vars, callVars, funding, seal, runVars, probeVars,
                   evidence, aborts>>

SealTestDigest(e) ==
    /\ e \in Sealable
    /\ starts[e] = 0
    /\ seal[e] = "open"
    /\ seal' = [seal EXCEPT ![e] = "sealed"]
    /\ UNCHANGED <<vars, callVars, funding, accepted, runVars, probeVars, evidence, aborts>>

ReleaseTestDigest(e) ==
    /\ starts[e] = 0
    /\ Sealed(e)
    /\ seal' = [seal EXCEPT ![e] = "released"]
    /\ UNCHANGED <<vars, callVars, funding, accepted, runVars, probeVars, evidence, aborts>>

\* run_experiment: admission stands and its gates are evaluated once more.
Start(e) ==
    /\ e \in accepted
    /\ Gates(e)
    /\ e \notin completed
    /\ starts[e] < MaxStarts
    /\ starts' = [starts EXCEPT ![e] = @ + 1]
    /\ UNCHANGED <<vars, callVars, experimentVars, completed, probeVars, evidence, aborts>>

RunUnattended(b, e) ==
    /\ Authorized(b, e)
    /\ Start(e)
    /\ unattended' = [unattended EXCEPT ![b][e] = @ + 1]

RunByHand(e) == Start(e) /\ UNCHANGED unattended

CompleteRun(e) ==
    /\ starts[e] > 0
    /\ e \notin completed
    /\ completed' = completed \cup {e}
    /\ UNCHANGED <<vars, callVars, experimentVars, starts, unattended, probeVars, evidence,
                   aborts>>

\* finalize_completed_run, by the run itself or by any repetition of it.
RecordEvidence(e) ==
    /\ e \in completed
    /\ evidence[e] = None
    /\ evidence' = [evidence EXCEPT ![e] = "promoted"]
    /\ UNCHANGED <<vars, callVars, experimentVars, runVars, probeVars, aborts>>

-----------------------------------------------------------------------------
CallStep ==
    \/ \E r \in Promoted \cup Replication :
         NoCapacity(r) \/ FundCandidate(r) \/ FundingRefused(r)
    \/ EnsureAdmitted \/ AdmissionRejected \/ ReserveCandidate \/ ReturnReport
    \/ ChargeProbe \/ ProbeRefused
    \/ \E result \in Result : ExecuteProbe(result)
    \/ RecordProbe \/ ProbeNotRecorded \/ EvaluatePromotion

AllocatorNext ==
    \/ /\ \/ \E k \in Key : TrustPolicyKey(k)
          \/ \E b \in Budget : RegisterEpochBudget(b)
          \/ Tick
       /\ UNCHANGED <<callVars, ledgerVars, aborts>>
    \/ \E b \in Budget :
         \/ \E batch \in SUBSET Promoted : AllocateEpoch(b, batch)
         \/ \E r \in Replication : AllocateReplication(b, r)
         \/ \E r \in Probe : RunSandbox(b, r)
         \/ \E e \in Experiment : RunUnattended(b, e)
    \/ CallStep
    \/ AbortCall
    \/ \E e \in Experiment :
         \/ CommitFunding(e) \/ DecideAdmission(e)
         \/ SealTestDigest(e) \/ ReleaseTestDigest(e)
         \/ RunByHand(e)
         \/ CompleteRun(e) \/ RecordEvidence(e)

AllocatorSpec == AllocatorInit /\ [][AllocatorNext]_allocatorVars

(* A running call goes on, and a command is repeated for as long as it can *)
(* be: a loop cycle for its one experiment, a sandbox run, a finalization. *)
Fairness ==
    /\ WF_allocatorVars(CallStep)
    /\ \A b \in Budget :
         /\ \A r \in Promoted : SF_allocatorVars(AllocateEpoch(b, {r}))
         /\ \A r \in Probe : SF_allocatorVars(RunSandbox(b, r))
    /\ \A e \in Experiment : WF_allocatorVars(RecordEvidence(e))

FairAllocatorSpec == AllocatorSpec /\ Fairness

-----------------------------------------------------------------------------
Step == {"idle", "pick", "admit", "reserve", "charge", "execute", "finish", "promote"}

AllocatorTypeOK ==
    /\ TypeOK
    /\ step \in Step
    /\ todo \subseteq Promoted \cup Replication
    /\ step \in {"admit", "reserve"} => at \in Promoted \cup Replication
    /\ step \in {"charge", "execute", "finish", "promote"} => at \in Probe
    /\ step \in {"idle", "pick"} => at = None
    /\ step = "idle" <=> call = None
    /\ funding \in [Experiment -> SUBSET Funding]
    /\ accepted \subseteq Experiment
    /\ seal \in [Experiment -> {"open", "sealed", "released"}]
    /\ starts \in [Experiment -> 0..MaxStarts]
    /\ unattended \in [Budget -> [Experiment -> Nat]]
    /\ completed \subseteq Experiment
    /\ planned \subseteq Sandbox
    /\ probed \in [Sandbox -> ProbeRun \cup {None}]
    /\ evidence \in [Id -> {"promoted", "sandbox", None}]
    /\ promotion \in [Sandbox -> [budget : Budget, eligible : BOOLEAN] \cup {None}]
    /\ aborts \in 0..MaxAborts

(* "rejected work must not reserve capacity" (tests/autonomy.rs): whatever *)
(* dies, is retried, or is decided by hand between its three appends, an   *)
(* allocation charges only an accepted experiment that its own allocator   *)
(* has funded under the same budget.                                       *)
ChargedIsAdmitted ==
    \A b \in Budget : \A r \in allocated[b] \ Probe :
        SubjectOf[r] \in accepted /\ Commitment(b, r) \in funding[SubjectOf[r]]

(* The executions that budgets authorized cost no more than was charged    *)
(* for them: dead runs, manual retries and a second lane buy no second     *)
(* unattended execution.                                                   *)
UnattendedIsPaid ==
    \A e \in Experiment :
        /\ \A b \in Budget : unattended[b][e] > 0 => unattended[b][e] = 1 /\ Charged(b, e)
        /\ \A b, c \in Budget : unattended[b][e] > 0 /\ unattended[c][e] > 0 => b = c

(* Whatever is charged was admitted, and whatever starts unattended paid.  *)
ChargesSound == ChargedIsAdmitted /\ UnattendedIsPaid

(* A promotion speaks about the evidence of a probe that ran under the     *)
(* promotion's own budget, which was charged for it, and beats its baseline. *)
PromotionGrounded ==
    \A s \in Sandbox : promotion[s] # None =>
        /\ evidence[s] = "sandbox"
        /\ probed[s] # None
        /\ probed[s].budget = promotion[s].budget
        /\ promotion[s].eligible => probed[s].result = "beats"
        /\ \E r \in Probe : SubjectOf[r] = s /\ r \in allocated[promotion[s].budget]

(* Runs, evidence and promotions are filed once, in whichever lane and     *)
(* under whichever budget a call is repeated.                              *)
FiledOnce ==
    [][/\ \A s \in Sandbox : /\ probed[s] # None => probed'[s] = probed[s]
                             /\ promotion[s] # None => promotion'[s] = promotion[s]
       /\ \A i \in Id : evidence[i] # None => evidence'[i] = evidence[i]]_allocatorVars

(* Work that an allocation call has funded is not yet charged, although    *)
(* its epoch has room for it and nothing has started or sealed it.         *)
Uncharged(b, r) ==
    /\ Commitment(b, r) \in funding[SubjectOf[r]] /\ r \notin allocated[b]
    /\ Active(b) /\ HasCapacity(b, r)
    /\ starts[SubjectOf[r]] = 0 /\ ~Sealed(SubjectOf[r])

(* A probe that ran well in a live epoch is not yet recorded or evaluated. *)
Unsettled(s) ==
    /\ Recorded(s) /\ Valid(s) /\ Active(probed[s].budget) /\ ~Sealed(TestOf[s])
    /\ evidence[s] # "sandbox" \/ promotion[s] = None

(* "It is safe to call repeatedly with the same cycle" (docs/PROTOCOL.md): *)
(* repeating the calls that died charges the work they have funded and     *)
(* records and evaluates the probes they have run.                         *)
RepetitionCompletes ==
    []<>(/\ \A b \in Budget, r \in Promoted : ~Uncharged(b, r)
         /\ \A s \in Sandbox : ~Unsettled(s))
=============================================================================
