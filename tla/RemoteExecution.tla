--------------------------- MODULE RemoteExecution ---------------------------
(***************************************************************************)
(* Remote execution (crates/ilxyr-core/src/remote_execution.rs) and report *)
(* intake (report_intake.rs, served by crates/ilxyr-intake): an experiment *)
(* is authorized once, a machine is reserved, launched and recorded, and   *)
(* the one report of that launch is accepted from an operator or from the  *)
(* holder of a bearer token.                                               *)
(*                                                                         *)
(* Three actors write to one ledger: the operator's launch command, which  *)
(* calls the provider between two appends and may lose the answer; the     *)
(* intake service, which serves one request at a time and appends twice to *)
(* accept one; and the operator's other commands, one append each.  The    *)
(* clock and the epoch budgets move on between any two steps.  Time is     *)
(* counted in coarse units, and experiments are compiled remote-v1 ones.   *)
(***************************************************************************)
EXTENDS Naturals, FiniteSets

CONSTANTS
    Experiment,       \* remote-v1 experiments
    Authorization,    \* authorization ids
    Budget,           \* epoch budgets
    Config,           \* launcher configurations (account, region, buckets)
    Report,           \* the report documents that can be presented
    None,             \* no event of the kind has been appended yet
    RequestOf,        \* what each authorization id is requested for
    ReportOf,         \* what each report binds, and whether it verifies
    BudgetExpiry,     \* the end of each epoch
    CredentialExpiry, \* when a report credential issued for a launch ends
    MaxRejected,      \* max_rejected_attempts of a credential
    MaxTime,          \* bound: the last instant
    MaxFailures       \* bound: process deaths, lost answers, lost secrets

Time == 0..MaxTime

ASSUME ContentAssumption ==
    /\ RequestOf \in [Authorization ->
                        [experiment: Experiment, budget: Budget, expiry: Time]]
    /\ ReportOf \in [Report -> [authorization: Authorization, verifies: BOOLEAN]]
    /\ BudgetExpiry \in [Budget -> Time]
    /\ CredentialExpiry \in [Authorization -> Time]

ASSUME BoundAssumption == MaxTime \in Nat /\ MaxFailures \in Nat /\ MaxRejected \in Nat \ {0}

MachineType == [authorization: Authorization, key: Authorization, config: Config, at: Time]
ReservationType == [config: Config, at: Time]
RequestType == [authorization: Authorization, report: Report, step: {"verifying", "accepted"}]

LauncherType == [step: {"reserved", "answered"}, config: Config]

ASSUME NoneAssumption ==
    None \notin Time \cup Report \cup MachineType \cup ReservationType
                    \cup RequestType \cup LauncherType

VARIABLES
    now,            \* the wall clock
    allocated,      \* AllocationCommitted: pairs of a budget and an experiment
    closed,         \* budgets superseded or spent past their acknowledgement line
    seal,           \* TestDigestSealed / TestDigestReleased, per experiment
    authorizedAt,   \* RemoteExecutionAuthorized, per authorization
    reservation,    \* RemoteLaunchReserved, per authorization
    receipt,        \* RemoteLaunchRecorded, per authorization: its machine
    accepted,       \* RemoteReportAccepted, per authorization: its report
    credential,     \* authorizations with a ReportIntakeCredentialIssued
    used,           \* ReportIntakeCredentialUsed, per authorization: its report
    rejected,       \* how many ReportIntakeRejected, per authorization
    launcher,       \* the running launch command of an authorization, if any
    machines,       \* the machines the provider has started
    published,      \* launch receipts a machine can read
    signed,         \* reports the workers have signed
    holders,        \* authorizations whose bearer token somebody has
    request,        \* the request the intake service is serving
    failures        \* how many failures have happened

policyVars   == <<now, allocated, closed, seal>>
launchVars   == <<authorizedAt, reservation, receipt, launcher>>
providerVars == <<machines, published, signed>>
intakeVars   == <<accepted, credential, used, rejected, holders, request>>
vars == <<policyVars, launchVars, providerVars, intakeVars, failures>>

-----------------------------------------------------------------------------
ExperimentOf(a) == RequestOf[a].experiment
BudgetOf(a)     == RequestOf[a].budget

\* active_epoch_budget_at and the reasons of authorize_unattended_run.
BudgetOpen(b) == now < BudgetExpiry[b] /\ b \notin closed
PolicyAllows(a) ==
    /\ BudgetOpen(BudgetOf(a))
    /\ <<BudgetOf(a), ExperimentOf(a)>> \in allocated

TestAccessAllowed(e) == seal[e] # "sealed"

Authorized(a) == authorizedAt[a] # None
Unexpired(a)  == now < RequestOf[a].expiry

\* Mutant: each request is authorized once, not each experiment.
Requestable(e) == \E a \in Authorization : ExperimentOf(a) = e /\ ~Authorized(a)
\* One experiment is authorized once, whatever became of the authorization.
NeverAuthorized(e) == \A a \in Authorization : ExperimentOf(a) = e => ~Authorized(a)

Launched(a) == receipt[a] # None
Calling(a, step) == launcher[a] # None /\ launcher[a].step = step

\* Mutant: a retry may name another configuration.
ReservedAtAll(a, c) == reservation[a] # None
\* Mutant: a retry must be made in the instant of its reservation.
ReservedNow(a, c) == reservation[a] = [config |-> c, at |-> now]
\* A retry must use the adapter configuration it was reserved for.
Reserved(a, c) == reservation[a] # None /\ reservation[a].config = c

(* The provider (external) deduplicates by client token within one account *)
(* and region, which the configuration names: asked again for a machine it *)
(* has started, it returns that one.                                       *)
IdempotencyKey(a) == a
Answer(a) == {m \in machines : m.key = IdempotencyKey(a) /\ m.config = launcher[a].config}
NewMachine(a) == [authorization |-> a, key |-> IdempotencyKey(a),
                  config |-> launcher[a].config, at |-> now]

\* The receipt of a machine started outside the life of its approval is refused.
InWindow(a, m) == authorizedAt[a] <= m.at /\ m.at < RequestOf[a].expiry

-----------------------------------------------------------------------------
\* Mutant: a later report replaces the accepted one.
Replaceable(r) ==
    LET a == ReportOf[r].authorization
    IN  Launched(a) /\ PolicyAllows(a) /\ ReportOf[r].verifies
\* accept_remote_execution_report: a fresh acceptance, and an exact retry.
Fresh(r) ==
    LET a == ReportOf[r].authorization
    IN  /\ Launched(a)
        /\ accepted[a] = None
        /\ PolicyAllows(a)
        /\ ReportOf[r].verifies

\* Mutant: any accepted report confirms a later one of its launch.
Concluded(r) == accepted[ReportOf[r].authorization] # None
Confirmed(r) == accepted[ReportOf[r].authorization] = r

\* Who can present a report: a signed one, or any other bytes.
Presentable(r) == r \in signed \/ ~ReportOf[r].verifies

\* authenticate_report_intake_credential, for the holder of the token of a.
Authenticated(a) == a \in holders /\ now < CredentialExpiry[a]
LimitAvailable(a) == rejected[a] < MaxRejected
Idle == request = None

\* The credential is bound to one launch: another launch's report is not for it.
BoundToCredential == ReportOf[request.report].authorization = request.authorization

Init ==
    /\ now = 0
    /\ allocated = {}
    /\ closed = {}
    /\ seal = [e \in Experiment |-> "unsealed"]
    /\ authorizedAt = [a \in Authorization |-> None]
    /\ reservation = [a \in Authorization |-> None]
    /\ receipt = [a \in Authorization |-> None]
    /\ accepted = [a \in Authorization |-> None]
    /\ credential = {}
    /\ used = [a \in Authorization |-> None]
    /\ rejected = [a \in Authorization |-> 0]
    /\ launcher = [a \in Authorization |-> None]
    /\ machines = {}
    /\ published = {}
    /\ signed = {}
    /\ holders = {}
    /\ request = None
    /\ failures = 0

-----------------------------------------------------------------------------
(* The clock, the epoch budgets (EpochBudget) and the seals (Workflow).    *)

Tick ==
    /\ now < MaxTime
    /\ now' = now + 1
    /\ UNCHANGED <<allocated, closed, seal, launchVars, providerVars, intakeVars, failures>>

Allocate(b, e) ==
    /\ BudgetOpen(b)
    /\ <<b, e>> \notin allocated
    /\ allocated' = allocated \cup {<<b, e>>}
    /\ UNCHANGED <<now, closed, seal, launchVars, providerVars, intakeVars, failures>>

\* A successor is registered, or other allocations reach the acknowledgement line.
CloseBudget(b) ==
    /\ BudgetOpen(b)
    /\ closed' = closed \cup {b}
    /\ UNCHANGED <<now, allocated, seal, launchVars, providerVars, intakeVars, failures>>

\* Sealing looks for a local execution only, which a remote-v1 experiment never has.
SealTestDigest(e) ==
    /\ seal[e] = "unsealed"
    /\ seal' = [seal EXCEPT ![e] = "sealed"]
    /\ UNCHANGED <<now, allocated, closed, launchVars, providerVars, intakeVars, failures>>

ReleaseTestDigest(e) ==
    /\ seal[e] = "sealed"
    /\ seal' = [seal EXCEPT ![e] = "released"]
    /\ UNCHANGED <<now, allocated, closed, launchVars, providerVars, intakeVars, failures>>

AuthorizeRemoteExecution(a) ==
    /\ TestAccessAllowed(ExperimentOf(a))
    /\ Unexpired(a)
    /\ RequestOf[a].expiry <= BudgetExpiry[BudgetOf(a)]
    /\ NeverAuthorized(ExperimentOf(a))
    /\ PolicyAllows(a)
    /\ authorizedAt' = [authorizedAt EXCEPT ![a] = now]
    /\ UNCHANGED <<policyVars, reservation, receipt, launcher, providerVars, intakeVars, failures>>

-----------------------------------------------------------------------------
(* launch_remote_execution: check and reserve, call the provider, record   *)
(* its receipt; then the command line publishes the receipt to the worker. *)

MayLaunch(a) ==
    /\ launcher[a] = None
    /\ ~Launched(a)
    /\ Authorized(a)
    /\ Unexpired(a)
    /\ PolicyAllows(a)
    /\ TestAccessAllowed(ExperimentOf(a))

ReserveLaunch(a, c) ==
    /\ MayLaunch(a)
    /\ reservation[a] = None
    /\ reservation' = [reservation EXCEPT ![a] = [config |-> c, at |-> now]]
    /\ launcher' = [launcher EXCEPT ![a] = [step |-> "reserved", config |-> c]]
    /\ UNCHANGED <<policyVars, authorizedAt, receipt, providerVars, intakeVars, failures>>

\* The request goes to the account and region the operator runs the retry with.
RetryLaunch(a, c) ==
    /\ MayLaunch(a)
    /\ Reserved(a, c)
    /\ launcher' = [launcher EXCEPT ![a] = [step |-> "reserved", config |-> c]]
    /\ UNCHANGED <<policyVars, authorizedAt, reservation, receipt, providerVars, intakeVars,
                   failures>>

CallProvider(a) ==
    /\ Calling(a, "reserved")
    /\ machines' = IF Answer(a) = {} THEN machines \cup {NewMachine(a)} ELSE machines
    /\ launcher' = [launcher EXCEPT ![a].step = "answered"]
    /\ UNCHANGED <<policyVars, authorizedAt, reservation, receipt, published, signed,
                   intakeVars, failures>>

RecordLaunch(a) ==
    /\ Calling(a, "answered")
    /\ \E m \in Answer(a) :
         /\ InWindow(a, m)
         /\ receipt' = [receipt EXCEPT ![a] = m]
    /\ launcher' = [launcher EXCEPT ![a] = None]
    /\ UNCHANGED <<policyVars, authorizedAt, reservation, providerVars, intakeVars, failures>>

RefuseReceipt(a) ==
    /\ Calling(a, "answered")
    /\ \A m \in Answer(a) : ~InWindow(a, m)
    /\ launcher' = [launcher EXCEPT ![a] = None]
    /\ UNCHANGED <<policyVars, authorizedAt, reservation, receipt, providerVars, intakeVars, failures>>

\* The command dies, its preflight or its call fails, or the answer is lost.
AbortLaunch(a) ==
    /\ launcher[a] # None
    /\ failures < MaxFailures
    /\ failures' = failures + 1
    /\ launcher' = [launcher EXCEPT ![a] = None]
    /\ UNCHANGED <<policyVars, authorizedAt, reservation, receipt, providerVars, intakeVars>>

\* The same command again, until the upload of a recorded receipt succeeds.
PublishReceipt(a) ==
    /\ Launched(a)
    /\ a \notin published
    /\ published' = published \cup {a}
    /\ UNCHANGED <<policyVars, launchVars, machines, signed, intakeVars, failures>>

\* The worker (external) waits for its receipt, runs, and signs what it has.
SignReport(r) ==
    /\ ReportOf[r].authorization \in published
    /\ ReportOf[r].verifies
    /\ r \notin signed
    /\ signed' = signed \cup {r}
    /\ UNCHANGED <<policyVars, launchVars, machines, published, intakeVars, failures>>

-----------------------------------------------------------------------------
(* Reports reach the ledger through remote-report-accept or the intake.    *)

AcceptRemoteReport(r) ==
    /\ Presentable(r)
    /\ Fresh(r)
    /\ accepted' = [accepted EXCEPT ![ReportOf[r].authorization] = r]
    /\ UNCHANGED <<policyVars, launchVars, providerVars, credential, used, rejected,
                   holders, request, failures>>

\* The secret is printed once: if the process dies after the append it is gone.
IssueCredential(a, delivered) ==
    /\ Launched(a)
    /\ now < CredentialExpiry[a] /\ CredentialExpiry[a] <= RequestOf[a].expiry
    /\ a \notin credential
    /\ credential' = credential \cup {a}
    /\ IF delivered
       THEN holders' = holders \cup {a} /\ UNCHANGED failures
       ELSE failures < MaxFailures /\ failures' = failures + 1 /\ UNCHANGED holders
    /\ UNCHANGED <<policyVars, launchVars, providerVars, accepted, used, rejected, request>>

\* A used credential answers without a write: its report again, others a conflict.
ReceiveReport(a, r) ==
    /\ Idle
    /\ Authenticated(a)
    /\ Presentable(r)
    /\ used[a] = None
    /\ LimitAvailable(a)
    /\ request' = [authorization |-> a, report |-> r, step |-> "verifying"]
    /\ UNCHANGED <<policyVars, launchVars, providerVars, accepted, credential, used, rejected,
                   holders, failures>>

\* Mutant: the request ends with the acceptance, its credential not marked as used.
AcceptUnbound ==
    /\ request # None /\ request.step = "verifying"
    /\ BoundToCredential
    /\ Fresh(request.report) \/ Confirmed(request.report)
    /\ accepted' = [accepted EXCEPT ![ReportOf[request.report].authorization] = request.report]
    /\ request' = None
    /\ UNCHANGED <<policyVars, launchVars, providerVars, credential, used, rejected,
                   holders, failures>>

IntakeAccepts ==
    /\ request # None /\ request.step = "verifying"
    /\ BoundToCredential
    /\ Fresh(request.report) \/ Confirmed(request.report)
    /\ accepted' = [accepted EXCEPT ![ReportOf[request.report].authorization] = request.report]
    /\ request' = [request EXCEPT !.step = "accepted"]
    /\ UNCHANGED <<policyVars, launchVars, providerVars, credential, used, rejected,
                   holders, failures>>

UseCredential ==
    /\ request # None /\ request.step = "accepted"
    /\ used' = [used EXCEPT ![request.authorization] = request.report]
    /\ request' = None
    /\ UNCHANGED <<policyVars, launchVars, providerVars, accepted, credential, rejected,
                   holders, failures>>

IntakeRejects ==
    /\ request # None /\ request.step = "verifying"
    /\ ~(BoundToCredential /\ (Fresh(request.report) \/ Confirmed(request.report)))
    /\ rejected' = [rejected EXCEPT ![request.authorization] = @ + 1]
    /\ request' = None
    /\ UNCHANGED <<policyVars, launchVars, providerVars, accepted, credential, used,
                   holders, failures>>

\* A body that is no report counts as well, even after the credential was used.
RejectBody(a) ==
    /\ Idle
    /\ Authenticated(a)
    /\ LimitAvailable(a)
    /\ rejected' = [rejected EXCEPT ![a] = @ + 1]
    /\ UNCHANGED <<policyVars, launchVars, providerVars, accepted, credential, used,
                   holders, request, failures>>

AbortIntake ==
    /\ request # None
    /\ failures < MaxFailures
    /\ failures' = failures + 1
    /\ request' = None
    /\ UNCHANGED <<policyVars, launchVars, providerVars, accepted, credential, used, rejected, holders>>

-----------------------------------------------------------------------------
Environment ==
    \/ Tick
    \/ \E b \in Budget, e \in Experiment : Allocate(b, e)
    \/ \E b \in Budget : CloseBudget(b)
    \/ \E e \in Experiment : SealTestDigest(e) \/ ReleaseTestDigest(e)

Launch(a) ==
    \/ AuthorizeRemoteExecution(a)
    \/ \E c \in Config : ReserveLaunch(a, c) \/ RetryLaunch(a, c)
    \/ CallProvider(a)
    \/ RecordLaunch(a)
    \/ RefuseReceipt(a)
    \/ AbortLaunch(a)
    \/ PublishReceipt(a)

Deliver ==
    \/ \E r \in Report : SignReport(r) \/ AcceptRemoteReport(r)
    \/ \E a \in Authorization :
         \/ \E delivered \in BOOLEAN : IssueCredential(a, delivered)
         \/ \E r \in Report : ReceiveReport(a, r)
         \/ RejectBody(a)

Serve ==
    \/ IntakeAccepts
    \/ UseCredential
    \/ IntakeRejects
    \/ AbortIntake

Next == Environment \/ (\E a \in Authorization : Launch(a)) \/ Deliver \/ Serve

Spec == Init /\ [][Next]_vars

(* The operator repeats a launch until it is recorded or refused, as       *)
(* docs/REMOTE_EXECUTION.md tells him to, with the configuration it was    *)
(* reserved for.  The intake finishes what it serves, and a reporter sends *)
(* a signed report again until it is answered (crates/ilxyr-intake); it    *)
(* competes with other senders for the one request served at a time.       *)
Retry(a) == (\E c \in Config : RetryLaunch(a, c)) \/ CallProvider(a) \/ RecordLaunch(a)
                \/ RefuseReceipt(a)

Fairness ==
    /\ \A a \in Authorization : WF_vars(Retry(a))
    /\ WF_vars(IntakeAccepts \/ UseCredential \/ IntakeRejects)
    /\ \A r \in {x \in Report : ReportOf[x].verifies} :
         SF_vars(ReceiveReport(ReportOf[r].authorization, r))

FairSpec == Spec /\ Fairness

-----------------------------------------------------------------------------
TypeOK ==
    /\ now \in Time
    /\ allocated \subseteq Budget \X Experiment
    /\ closed \subseteq Budget
    /\ seal \in [Experiment -> {"unsealed", "sealed", "released"}]
    /\ authorizedAt \in [Authorization -> Time \cup {None}]
    /\ reservation \in [Authorization -> ReservationType \cup {None}]
    /\ receipt \in [Authorization -> MachineType \cup {None}]
    /\ accepted \in [Authorization -> Report \cup {None}]
    /\ credential \subseteq Authorization
    /\ used \in [Authorization -> Report \cup {None}]
    /\ rejected \in [Authorization -> Nat]
    /\ launcher \in [Authorization -> LauncherType \cup {None}]
    /\ machines \subseteq MachineType
    /\ published \subseteq Authorization
    /\ signed \subseteq Report
    /\ holders \subseteq credential
    /\ request \in RequestType \cup {None}
    /\ failures \in 0..MaxFailures

(* However often a launch is repeated after lost answers, by whichever     *)
(* authorization and configuration, an experiment gets at most one machine *)
(* (no duplicate launch after a lost response, docs/ROADMAP.md).           *)
OneMachine ==
    \A m, n \in machines :
        ExperimentOf(m.authorization) = ExperimentOf(n.authorization) => m = n

(* A machine never runs without a durable reservation that names where to  *)
(* find it, made after its approval: a crash at any point of a launch      *)
(* leaves nothing the ledger does not know of.                             *)
MachinesReserved ==
    \A m \in machines :
        LET a == m.authorization
        IN  /\ Authorized(a)
            /\ reservation[a] # None
            /\ reservation[a].config = m.config
            /\ authorizedAt[a] <= reservation[a].at /\ reservation[a].at <= m.at

(* A recorded launch is that of a machine the provider runs, which started *)
(* within the life of its approval and of the epoch it is paid from.       *)
ReceiptsGrounded ==
    \A a \in Authorization : Launched(a) =>
        /\ receipt[a] \in machines
        /\ receipt[a].authorization = a
        /\ receipt[a].at < BudgetExpiry[BudgetOf(a)]

(* Every launch is one machine at most, reserved and recorded as it is.    *)
LaunchesSound == OneMachine /\ MachinesReserved /\ ReceiptsGrounded

(* The accepted report of a launch is a verified one, signed by a worker   *)
(* that could read the recorded receipt, and a used credential names the   *)
(* report that was accepted, whatever the operator accepted meanwhile.     *)
ReportsGrounded ==
    \A a \in Authorization :
        /\ accepted[a] # None => /\ accepted[a] \in signed
                                 /\ ReportOf[accepted[a]].authorization = a
                                 /\ a \in published
        /\ used[a] # None => used[a] = accepted[a]

(* Nobody gets more refusals out of a credential than it was issued with.  *)
RejectionsBounded == \A a \in Authorization : rejected[a] <= MaxRejected

(* What is accepted, used and refused of the reports of a launch agrees.   *)
ReportsSound == ReportsGrounded /\ RejectionsBounded

(* A recorded launch, its accepted report and the use of its credential    *)
(* are written once: retries, failures and rival reports change nothing.   *)
WrittenOnce ==
    [][\A a \in Authorization :
         /\ Launched(a) => receipt'[a] = receipt[a]
         /\ accepted[a] # None => accepted'[a] = accepted[a]
         /\ used[a] # None => used'[a] = used[a]]_vars

(* What lets an operator still record the launch of a: its approval lives, *)
(* its epoch pays for it, and no seal was put on the experiment meanwhile. *)
Recoverable(a) == Unexpired(a) /\ PolicyAllows(a) /\ TestAccessAllowed(ExperimentOf(a))

(* A machine whose answer was lost is found again: repeating the launch    *)
(* records it, unless the approval, the epoch or the seal ends first.      *)
LaunchesRecorded ==
    \A a \in Authorization :
        (\E m \in machines : m.authorization = a) ~> (Launched(a) \/ ~Recoverable(a))

(* A signed report whose reporter holds the token ends up accepted and     *)
(* bound to the credential, or a rival report does, unless the credential, *)
(* its attempts or the epoch run out first.                                *)
ReportsDelivered ==
    \A r \in Report :
        LET a == ReportOf[r].authorization
        IN  (r \in signed /\ a \in holders)
              ~> (\/ used[a] # None
                  \/ ~Authenticated(a)
                  \/ ~LimitAvailable(a)
                  \/ ~PolicyAllows(a))
=============================================================================
