----------------------- MODULE RemoteExecutionProofs -----------------------
(***************************************************************************)
(* Theorems about RemoteExecution for every set of experiments,            *)
(* authorizations, configurations and reports, every budget and every      *)
(* number of failures: at most one machine runs an experiment, its launch, *)
(* its report and the use of its credential are written once, and it       *)
(* implements OneShot.                                                     *)
(*                                                                         *)
(* The strengthening IInv follows a launch along the ledger: approval,     *)
(* reservation, running command, machine, receipt (LaunchInv), and a       *)
(* report along its way from the worker to the ledger (ReportInv).         *)
(***************************************************************************)
EXTENDS RemoteOneShot, TLAPS

(* An experiment has one approval; its reservation, its running command    *)
(* and its machine share one configuration.                                *)
OneApproval ==
    \A a, b \in Authorization :
        Authorized(a) /\ Authorized(b) /\ ExperimentOf(a) = ExperimentOf(b) => a = b

Approved(a) ==
    Authorized(a) => /\ RequestOf[a].expiry <= BudgetExpiry[BudgetOf(a)]
                     /\ authorizedAt[a] <= now

ReservedAfterApproval(a) ==
    reservation[a] # None => /\ Authorized(a)
                             /\ authorizedAt[a] <= reservation[a].at
                             /\ reservation[a].at <= now

LauncherReserved(a) ==
    launcher[a] # None => /\ ~Launched(a)
                          /\ reservation[a] # None
                          /\ reservation[a].config = launcher[a].config

OnePerKey ==
    /\ \A m \in machines : m.key = m.authorization /\ m.at <= now
    /\ \A m, n \in machines : m.authorization = n.authorization => m = n

LaunchInv ==
    /\ OneApproval
    /\ \A a \in Authorization : Approved(a) /\ ReservedAfterApproval(a) /\ LauncherReserved(a)
    /\ OnePerKey
    /\ MachinesReserved
    /\ ReceiptsGrounded

(* What is signed was published, what is accepted was signed, and the one  *)
(* request being served has attempts left and has not used its credential. *)
SignedGrounded ==
    /\ \A a \in published : Launched(a)
    /\ \A r \in signed : ReportOf[r].verifies /\ ReportOf[r].authorization \in published

RequestGrounded ==
    request # None =>
        /\ Presentable(request.report)
        /\ LimitAvailable(request.authorization)
        /\ used[request.authorization] = None
        /\ request.step = "accepted" => accepted[request.authorization] = request.report

ReportInv ==
    /\ SignedGrounded
    /\ RequestGrounded
    /\ ReportsGrounded
    /\ RejectionsBounded

IInv == TypeOK /\ LaunchInv /\ ReportInv

-----------------------------------------------------------------------------
(* Types.                                                                  *)

LEMMA InitType == Init => TypeOK
  BY ContentAssumption, BoundAssumption DEF Init, TypeOK, Time

LEMMA EnvironmentType == ASSUME TypeOK, Environment PROVE TypeOK'
  <1> USE DEF TypeOK, launchVars, providerVars, intakeVars
  <1>1. CASE Tick
    BY <1>1, BoundAssumption DEF Tick, Time
  <1>2. ASSUME NEW b \in Budget, NEW e \in Experiment, Allocate(b, e) PROVE TypeOK'
    BY <1>2 DEF Allocate
  <1>3. ASSUME NEW b \in Budget, CloseBudget(b) PROVE TypeOK'
    BY <1>3 DEF CloseBudget
  <1>4. ASSUME NEW e \in Experiment, SealTestDigest(e) PROVE TypeOK'
    BY <1>4 DEF SealTestDigest
  <1>5. ASSUME NEW e \in Experiment, ReleaseTestDigest(e) PROVE TypeOK'
    BY <1>5 DEF ReleaseTestDigest
  <1> QED
    BY <1>1, <1>2, <1>3, <1>4, <1>5 DEF Environment

LEMMA LaunchType == ASSUME TypeOK, NEW a \in Authorization, Launch(a) PROVE TypeOK'
  <1> USE DEF TypeOK, policyVars, providerVars, intakeVars
  <1>1. CASE AuthorizeRemoteExecution(a)
    BY <1>1 DEF AuthorizeRemoteExecution
  <1>2. ASSUME NEW c \in Config, ReserveLaunch(a, c) PROVE TypeOK'
    BY <1>2 DEF ReserveLaunch, ReservationType, LauncherType
  <1>3. ASSUME NEW c \in Config, RetryLaunch(a, c) PROVE TypeOK'
    BY <1>3 DEF RetryLaunch, LauncherType
  <1>4. CASE CallProvider(a)
    <2>1. launcher[a] \in LauncherType
      BY <1>4 DEF CallProvider, Calling
    <2>2. NewMachine(a) \in MachineType
      BY <2>1 DEF NewMachine, IdempotencyKey, MachineType, LauncherType
    <2>3. [launcher[a] EXCEPT !.step = "answered"] \in LauncherType
      BY <2>1 DEF LauncherType
    <2> QED
      BY <1>4, <2>2, <2>3 DEF CallProvider
  <1>5. CASE RecordLaunch(a)
    BY <1>5 DEF RecordLaunch, Answer
  <1>6. CASE RefuseReceipt(a)
    BY <1>6 DEF RefuseReceipt
  <1>7. CASE AbortLaunch(a)
    BY <1>7, BoundAssumption DEF AbortLaunch
  <1>8. CASE PublishReceipt(a)
    BY <1>8 DEF PublishReceipt, launchVars
  <1> QED
    BY <1>1, <1>2, <1>3, <1>4, <1>5, <1>6, <1>7, <1>8 DEF Launch

LEMMA DeliverType == ASSUME TypeOK, Deliver PROVE TypeOK'
  <1> USE ContentAssumption DEF TypeOK, policyVars, launchVars, providerVars, intakeVars
  <1>1. ASSUME NEW r \in Report, SignReport(r) PROVE TypeOK'
    BY <1>1 DEF SignReport
  <1>2. ASSUME NEW r \in Report, AcceptRemoteReport(r) PROVE TypeOK'
    BY <1>2 DEF AcceptRemoteReport
  <1>3. ASSUME NEW a \in Authorization, NEW delivered \in BOOLEAN, IssueCredential(a, delivered)
        PROVE  TypeOK'
    BY <1>3, BoundAssumption DEF IssueCredential
  <1>4. ASSUME NEW a \in Authorization, NEW r \in Report, ReceiveReport(a, r) PROVE TypeOK'
    BY <1>4 DEF ReceiveReport, RequestType
  <1>5. ASSUME NEW a \in Authorization, RejectBody(a) PROVE TypeOK'
    BY <1>5 DEF RejectBody
  <1> QED
    BY <1>1, <1>2, <1>3, <1>4, <1>5 DEF Deliver

LEMMA ServeType == ASSUME TypeOK, Serve PROVE TypeOK'
  <1> USE ContentAssumption DEF TypeOK, policyVars, launchVars, providerVars, RequestType
  <1>1. CASE IntakeAccepts
    <2>1. request \in RequestType
      BY <1>1 DEF IntakeAccepts
    <2>2. [request EXCEPT !.step = "accepted"] \in RequestType
      BY <2>1
    <2> QED
      BY <1>1, <2>1, <2>2 DEF IntakeAccepts
  <1>2. CASE UseCredential
    BY <1>2 DEF UseCredential
  <1>3. CASE IntakeRejects
    BY <1>3 DEF IntakeRejects
  <1>4. CASE AbortIntake
    BY <1>4, BoundAssumption DEF AbortIntake
  <1> QED
    BY <1>1, <1>2, <1>3, <1>4 DEF Serve

LEMMA TypeStep == ASSUME TypeOK, [Next]_vars PROVE TypeOK'
  <1>1. CASE UNCHANGED vars
    BY <1>1 DEF vars, policyVars, launchVars, providerVars, intakeVars, TypeOK
  <1> QED
    BY <1>1, EnvironmentType, LaunchType, DeliverType, ServeType DEF Next

-----------------------------------------------------------------------------
(* The launch.                                                             *)

LEMMA InitLaunch == Init => LaunchInv
  BY DEF Init, LaunchInv, OneApproval, Approved, ReservedAfterApproval, LauncherReserved,
         OnePerKey, MachinesReserved, ReceiptsGrounded, Authorized, Launched

LEMMA LaunchFrame ==
  ASSUME TypeOK, LaunchInv, UNCHANGED <<launchVars, machines>>, now' \in Time, now <= now'
  PROVE  LaunchInv'
  <1> USE DEF TypeOK, Time, launchVars
  <1>1. UNCHANGED <<authorizedAt, reservation, receipt, launcher, machines>>
    OBVIOUS
  <1>2. OneApproval' /\ MachinesReserved' /\ ReceiptsGrounded'
    BY <1>1 DEF LaunchInv, OneApproval, MachinesReserved, ReceiptsGrounded, Authorized, Launched
  <1>3. OnePerKey'
    BY <1>1, BoundAssumption DEF LaunchInv, OnePerKey, MachineType
  <1>4. ASSUME NEW a \in Authorization
        PROVE  Approved(a)' /\ ReservedAfterApproval(a)' /\ LauncherReserved(a)'
    <2>1. Approved(a) /\ ReservedAfterApproval(a) /\ LauncherReserved(a)
      BY DEF LaunchInv
    <2>2. Approved(a)'
      BY <1>1, <2>1, BoundAssumption DEF Approved, Authorized
    <2>3. ReservedAfterApproval(a)'
      BY <1>1, <2>1, BoundAssumption DEF ReservedAfterApproval, Authorized, ReservationType
    <2>4. LauncherReserved(a)'
      BY <1>1, <2>1 DEF LauncherReserved, Launched
    <2> QED
      BY <2>2, <2>3, <2>4
  <1> QED
    BY <1>2, <1>3, <1>4 DEF LaunchInv

\* The steps that change neither the ledger's launch events nor a machine.
LEMMA LaunchUnrelated ==
  ASSUME TypeOK, Environment \/ Deliver \/ Serve
  PROVE  /\ UNCHANGED <<launchVars, machines>>
         /\ now' \in Time
         /\ now <= now'
  <1> USE DEF TypeOK, Time, policyVars, providerVars
  <1>1. CASE Tick
    <2>1. now \in 0..MaxTime /\ now < MaxTime /\ now' = now + 1
      BY <1>1 DEF Tick
    <2>2. now' \in Time /\ now <= now'
      BY <2>1, BoundAssumption
    <2>3. UNCHANGED <<launchVars, machines>>
      BY <1>1 DEF Tick
    <2> QED
      BY <2>2, <2>3
  <1>2. CASE Environment /\ ~Tick
    <2>1. UNCHANGED <<now, launchVars, machines>>
      BY <1>2 DEF Environment, Allocate, CloseBudget, SealTestDigest, ReleaseTestDigest
    <2> QED
      BY <2>1, BoundAssumption
  <1>3. CASE Deliver
    BY <1>3, BoundAssumption
    DEF Deliver, SignReport, AcceptRemoteReport, IssueCredential, ReceiveReport, RejectBody
  <1>4. CASE Serve
    BY <1>4, BoundAssumption
    DEF Serve, IntakeAccepts, UseCredential, IntakeRejects, AbortIntake
  <1> QED
    BY <1>1, <1>2, <1>3, <1>4

LEMMA AuthorizeKeeps ==
  ASSUME TypeOK, LaunchInv, NEW a \in Authorization, AuthorizeRemoteExecution(a)
  PROVE  LaunchInv'
  <1> USE NoneAssumption DEF TypeOK, Time
  <1>1. /\ UNCHANGED <<now, reservation, receipt, launcher, machines>>
        /\ authorizedAt' = [authorizedAt EXCEPT ![a] = now]
        /\ NeverAuthorized(ExperimentOf(a))
        /\ RequestOf[a].expiry <= BudgetExpiry[BudgetOf(a)]
    BY DEF AuthorizeRemoteExecution, policyVars, providerVars
  <1>2. ~Authorized(a)
    BY <1>1 DEF NeverAuthorized
  <1>3. ASSUME NEW x \in Authorization, x # a
        PROVE  authorizedAt'[x] = authorizedAt[x]
    BY <1>1, <1>3
  <1>4. authorizedAt'[a] = now
    BY <1>1
  <1>5. OneApproval'
    BY <1>1, <1>2, <1>3, <1>4 DEF LaunchInv, OneApproval, NeverAuthorized, Authorized, ExperimentOf
  <1>6. ASSUME NEW x \in Authorization
        PROVE  Approved(x)' /\ ReservedAfterApproval(x)' /\ LauncherReserved(x)'
    <2>1. Approved(x) /\ ReservedAfterApproval(x) /\ LauncherReserved(x)
      BY DEF LaunchInv
    <2>2. Approved(x)'
      BY <1>1, <1>3, <1>4, <2>1, BoundAssumption DEF Approved, Authorized, BudgetOf
    <2>3. ReservedAfterApproval(x)'
      BY <1>1, <1>2, <1>3, <2>1 DEF ReservedAfterApproval, Authorized
    <2>4. LauncherReserved(x)'
      BY <1>1, <2>1 DEF LauncherReserved, Launched
    <2> QED
      BY <2>2, <2>3, <2>4
  <1>7. OnePerKey' /\ ReceiptsGrounded'
    BY <1>1 DEF LaunchInv, OnePerKey, ReceiptsGrounded, Launched, BudgetOf
  <1>8. MachinesReserved'
    BY <1>1, <1>2, <1>3 DEF LaunchInv, MachinesReserved, Authorized, MachineType
  <1> QED
    BY <1>5, <1>6, <1>7, <1>8 DEF LaunchInv

LEMMA ReserveKeeps ==
  ASSUME TypeOK, LaunchInv, NEW a \in Authorization, NEW c \in Config, ReserveLaunch(a, c)
  PROVE  LaunchInv'
  <1> USE NoneAssumption DEF TypeOK, Time
  <1>1. /\ UNCHANGED <<now, authorizedAt, receipt, machines>>
        /\ reservation' = [reservation EXCEPT ![a] = [config |-> c, at |-> now]]
        /\ launcher' = [launcher EXCEPT ![a] = [step |-> "reserved", config |-> c]]
        /\ reservation[a] = None /\ ~Launched(a) /\ Authorized(a)
    BY DEF ReserveLaunch, MayLaunch, policyVars, providerVars
  <1>2. ASSUME NEW x \in Authorization, x # a
        PROVE  reservation'[x] = reservation[x] /\ launcher'[x] = launcher[x]
    BY <1>1, <1>2
  <1>3. /\ reservation'[a] = [config |-> c, at |-> now]
        /\ launcher'[a] = [step |-> "reserved", config |-> c]
    BY <1>1
  <1>4. reservation'[a] # None
    BY <1>3 DEF ReservationType
  <1>5. OneApproval' /\ OnePerKey' /\ ReceiptsGrounded'
    BY <1>1 DEF LaunchInv, OneApproval, OnePerKey, ReceiptsGrounded, Authorized, Launched,
                BudgetOf, ExperimentOf
  <1>6. ASSUME NEW x \in Authorization
        PROVE  Approved(x)' /\ ReservedAfterApproval(x)' /\ LauncherReserved(x)'
    <2>1. Approved(x) /\ ReservedAfterApproval(x) /\ LauncherReserved(x)
      BY DEF LaunchInv
    <2>2. Approved(x)'
      BY <1>1, <2>1 DEF Approved, Authorized, BudgetOf
    <2>3. ReservedAfterApproval(x)'
      BY <1>1, <1>2, <1>3, <2>1, BoundAssumption DEF ReservedAfterApproval, Approved, Authorized
    <2>4. LauncherReserved(x)'
      BY <1>1, <1>2, <1>3, <1>4, <2>1 DEF LauncherReserved, Launched
    <2> QED
      BY <2>2, <2>3, <2>4
  <1>7. MachinesReserved'
    BY <1>1, <1>2 DEF LaunchInv, MachinesReserved, Authorized, MachineType
  <1> QED
    BY <1>5, <1>6, <1>7 DEF LaunchInv

\* A command that starts again, gives up or dies writes nothing to the ledger.
LEMMA LauncherKeeps ==
  ASSUME TypeOK, LaunchInv, NEW a \in Authorization,
         UNCHANGED <<now, authorizedAt, reservation, receipt, machines>>,
         NEW l, launcher' = [launcher EXCEPT ![a] = l],
         l # None => /\ ~Launched(a)
                     /\ reservation[a] # None
                     /\ reservation[a].config = l.config
  PROVE  LaunchInv'
  <1> USE DEF TypeOK
  <1>1. OneApproval' /\ OnePerKey' /\ MachinesReserved' /\ ReceiptsGrounded'
    BY DEF LaunchInv, OneApproval, OnePerKey, MachinesReserved, ReceiptsGrounded, Authorized,
           Launched, BudgetOf, ExperimentOf
  <1>2. ASSUME NEW x \in Authorization
        PROVE  Approved(x)' /\ ReservedAfterApproval(x)' /\ LauncherReserved(x)'
    <2>1. Approved(x) /\ ReservedAfterApproval(x) /\ LauncherReserved(x)
      BY DEF LaunchInv
    <2>2. Approved(x)' /\ ReservedAfterApproval(x)'
      BY <2>1 DEF Approved, ReservedAfterApproval, Authorized, BudgetOf
    <2>3. LauncherReserved(x)'
      BY <2>1 DEF LauncherReserved, Launched
    <2> QED
      BY <2>2, <2>3
  <1> QED
    BY <1>1, <1>2 DEF LaunchInv

LEMMA CallKeeps ==
  ASSUME TypeOK, LaunchInv, NEW a \in Authorization, CallProvider(a)
  PROVE  LaunchInv'
  <1> USE NoneAssumption DEF TypeOK
  <1> DEFINE c == launcher[a].config
             l == [launcher[a] EXCEPT !.step = "answered"]
             m == NewMachine(a)
  <1>1. /\ UNCHANGED <<now, authorizedAt, reservation, receipt>>
        /\ launcher' = [launcher EXCEPT ![a] = l]
        /\ launcher[a] \in LauncherType /\ launcher[a] # None
    BY DEF CallProvider, policyVars, Calling
  <1>2. l.config = c
    BY <1>1 DEF LauncherType
  <1>3. ~Launched(a) /\ reservation[a] # None /\ reservation[a].config = c
    BY <1>1 DEF LaunchInv, LauncherReserved
  <1>4. CASE Answer(a) # {}
    <2>1. machines' = machines
      BY <1>4 DEF CallProvider
    <2> QED
      BY <1>1, <1>2, <1>3, <2>1, LauncherKeeps
  <1>5. CASE Answer(a) = {}
    <2>1. machines' = machines \cup {m}
      BY <1>5 DEF CallProvider
    <2>2. m.authorization = a /\ m.key = a /\ m.config = c /\ m.at = now
      BY DEF NewMachine, IdempotencyKey
    <2>3. ASSUME NEW n \in machines PROVE n.authorization # a
      <3>1. SUFFICES ASSUME n.authorization = a PROVE FALSE
        OBVIOUS
      <3>2. n.key = a /\ n.config = c
        BY <1>3, <3>1 DEF LaunchInv, OnePerKey, MachinesReserved
      <3> QED
        BY <1>5, <3>2 DEF Answer, IdempotencyKey
    <2>4. OneApproval'
      BY <1>1 DEF LaunchInv, OneApproval, Authorized, ExperimentOf
    <2>5. OnePerKey'
      BY <1>1, <2>1, <2>2, <2>3, BoundAssumption DEF LaunchInv, OnePerKey, Time
    <2>6. MachinesReserved'
      <3>1. Authorized(a) /\ authorizedAt[a] <= reservation[a].at /\ reservation[a].at <= now
        BY <1>3 DEF LaunchInv, ReservedAfterApproval
      <3> QED
        BY <1>1, <1>3, <2>1, <2>2, <3>1 DEF LaunchInv, MachinesReserved, Authorized
    <2>7. ReceiptsGrounded'
      BY <1>1, <2>1 DEF LaunchInv, ReceiptsGrounded, Launched, BudgetOf
    <2>8. ASSUME NEW x \in Authorization
          PROVE  Approved(x)' /\ ReservedAfterApproval(x)' /\ LauncherReserved(x)'
      <3>1. Approved(x) /\ ReservedAfterApproval(x) /\ LauncherReserved(x)
        BY DEF LaunchInv
      <3>2. Approved(x)' /\ ReservedAfterApproval(x)'
        BY <1>1, <3>1 DEF Approved, ReservedAfterApproval, Authorized, BudgetOf
      <3>3. LauncherReserved(x)'
        BY <1>1, <1>2, <1>3, <3>1 DEF LauncherReserved, Launched
      <3> QED
        BY <3>2, <3>3
    <2> QED
      BY <2>4, <2>5, <2>6, <2>7, <2>8 DEF LaunchInv
  <1> QED
    BY <1>4, <1>5

LEMMA RecordKeeps ==
  ASSUME TypeOK, LaunchInv, NEW a \in Authorization, RecordLaunch(a)
  PROVE  LaunchInv'
  <1> USE NoneAssumption DEF TypeOK
  <1>1. /\ UNCHANGED <<now, authorizedAt, reservation, machines>>
        /\ launcher' = [launcher EXCEPT ![a] = None]
        /\ launcher[a] # None
    BY DEF RecordLaunch, policyVars, providerVars, Calling
  <1>2. PICK m \in Answer(a) : InWindow(a, m) /\ receipt' = [receipt EXCEPT ![a] = m]
    BY DEF RecordLaunch
  <1>3. m \in machines /\ m.key = a
    BY <1>2 DEF Answer, IdempotencyKey
  <1>4. m.authorization = a
    BY <1>3 DEF LaunchInv, OnePerKey
  <1>5. Authorized(a)
    BY <1>1 DEF LaunchInv, LauncherReserved, ReservedAfterApproval
  <1>6. m.at < BudgetExpiry[BudgetOf(a)]
    <2>1. RequestOf[a].expiry <= BudgetExpiry[BudgetOf(a)] /\ m.at < RequestOf[a].expiry
      BY <1>2, <1>5 DEF LaunchInv, Approved, InWindow
    <2>2. /\ RequestOf[a].expiry \in Nat
          /\ m.at \in Nat
          /\ BudgetExpiry[BudgetOf(a)] \in Nat
      BY <1>3, ContentAssumption, BoundAssumption DEF MachineType, Time, BudgetOf
    <2> QED
      BY <2>1, <2>2
  <1>7. OneApproval' /\ OnePerKey' /\ MachinesReserved'
    BY <1>1 DEF LaunchInv, OneApproval, OnePerKey, MachinesReserved, Authorized, ExperimentOf
  <1>8. ReceiptsGrounded'
    BY <1>1, <1>2, <1>3, <1>4, <1>6 DEF LaunchInv, ReceiptsGrounded, Launched, BudgetOf
  <1>9. ASSUME NEW x \in Authorization
        PROVE  Approved(x)' /\ ReservedAfterApproval(x)' /\ LauncherReserved(x)'
    <2>1. Approved(x) /\ ReservedAfterApproval(x) /\ LauncherReserved(x)
      BY DEF LaunchInv
    <2>2. Approved(x)' /\ ReservedAfterApproval(x)'
      BY <1>1, <2>1 DEF Approved, ReservedAfterApproval, Authorized, BudgetOf
    <2>3. LauncherReserved(x)'
      BY <1>1, <1>2, <2>1 DEF LauncherReserved, Launched
    <2> QED
      BY <2>2, <2>3
  <1> QED
    BY <1>7, <1>8, <1>9 DEF LaunchInv

LEMMA LaunchStep == ASSUME TypeOK, LaunchInv, [Next]_vars PROVE LaunchInv'
  <1>1. CASE UNCHANGED vars
    <2>1. UNCHANGED <<launchVars, machines, now>>
      BY <1>1 DEF vars, policyVars, providerVars
    <2>2. now' \in Time /\ now <= now'
      BY <2>1, BoundAssumption DEF TypeOK, Time
    <2> QED
      BY <2>1, <2>2, LaunchFrame
  <1>2. CASE Environment \/ Deliver \/ Serve
    BY <1>2, LaunchUnrelated, LaunchFrame
  <1>3. ASSUME NEW a \in Authorization, Launch(a) PROVE LaunchInv'
    <2>1. CASE AuthorizeRemoteExecution(a)
      BY <2>1, AuthorizeKeeps
    <2>2. ASSUME NEW c \in Config, ReserveLaunch(a, c) PROVE LaunchInv'
      BY <2>2, ReserveKeeps
    <2>3. ASSUME NEW c \in Config, RetryLaunch(a, c) PROVE LaunchInv'
      <3> DEFINE l == [step |-> "reserved", config |-> c]
      <3>1. /\ UNCHANGED <<now, authorizedAt, reservation, receipt, machines>>
            /\ launcher' = [launcher EXCEPT ![a] = l]
            /\ ~Launched(a) /\ reservation[a] # None /\ reservation[a].config = l.config
        BY <2>3 DEF RetryLaunch, MayLaunch, Reserved, policyVars, providerVars
      <3> QED
        BY <3>1, LauncherKeeps
    <2>4. CASE CallProvider(a)
      BY <2>4, CallKeeps
    <2>5. CASE RecordLaunch(a)
      BY <2>5, RecordKeeps
    <2>6. CASE RefuseReceipt(a) \/ AbortLaunch(a)
      <3>1. /\ UNCHANGED <<now, authorizedAt, reservation, receipt, machines>>
            /\ launcher' = [launcher EXCEPT ![a] = None]
        BY <2>6 DEF RefuseReceipt, AbortLaunch, policyVars, providerVars
      <3> QED
        BY <3>1, LauncherKeeps
    <2>7. CASE PublishReceipt(a)
      <3>1. UNCHANGED <<launchVars, machines, now>>
        BY <2>7 DEF PublishReceipt, policyVars
      <3>2. now' \in Time /\ now <= now'
        BY <3>1, BoundAssumption DEF TypeOK, Time
      <3> QED
        BY <3>1, <3>2, LaunchFrame
    <2> QED
      BY <1>3, <2>1, <2>2, <2>3, <2>4, <2>5, <2>6, <2>7 DEF Launch
  <1> QED
    BY <1>1, <1>2, <1>3 DEF Next

-----------------------------------------------------------------------------
(* The report.                                                             *)

LEMMA InitReport == Init => ReportInv
  BY BoundAssumption
  DEF Init, ReportInv, SignedGrounded, RequestGrounded, ReportsGrounded, RejectionsBounded

\* A recorded launch stays recorded.
LEMMA StaysLaunched ==
  ASSUME TypeOK, LaunchInv, [Next]_vars
  PROVE  \A a \in Authorization : Launched(a) => receipt'[a] = receipt[a]
  <1> SUFFICES ASSUME NEW a \in Authorization, Launched(a)
               PROVE  receipt'[a] = receipt[a]
    OBVIOUS
  <1>1. CASE UNCHANGED vars
    BY <1>1 DEF vars, launchVars
  <1>2. CASE Environment \/ Deliver \/ Serve
    BY <1>2, LaunchUnrelated DEF launchVars
  <1>3. ASSUME NEW b \in Authorization, Launch(b) PROVE receipt'[a] = receipt[a]
    <2>1. CASE RecordLaunch(b)
      <3>1. launcher[b] # None /\ receipt' = [receipt EXCEPT ![b] = receipt'[b]]
        BY <2>1 DEF RecordLaunch, Calling, TypeOK
      <3>2. b # a
        BY <3>1 DEF LaunchInv, LauncherReserved
      <3> QED
        BY <3>1, <3>2 DEF TypeOK
    <2>2. CASE Launch(b) /\ ~RecordLaunch(b)
      BY <2>2 DEF Launch, AuthorizeRemoteExecution, ReserveLaunch, RetryLaunch, CallProvider,
                  RefuseReceipt, AbortLaunch, PublishReceipt, launchVars
    <2> QED
      BY <1>3, <2>1, <2>2
  <1> QED
    BY <1>1, <1>2, <1>3 DEF Next

LEMMA ReportFrame ==
  ASSUME ReportInv, UNCHANGED <<published, signed, intakeVars>>,
         \A a \in published : Launched(a) => Launched(a)'
  PROVE  ReportInv'
  <1> USE DEF ReportInv, intakeVars
  <1>1. SignedGrounded'
    BY DEF SignedGrounded
  <1>2. RequestGrounded'
    BY DEF RequestGrounded, Presentable, LimitAvailable
  <1>3. ReportsGrounded' /\ RejectionsBounded'
    BY DEF ReportsGrounded, RejectionsBounded
  <1> QED
    BY <1>1, <1>2, <1>3

LEMMA LaunchKeepsReports ==
  ASSUME TypeOK, LaunchInv, ReportInv, NEW a \in Authorization, Launch(a)
  PROVE  ReportInv'
  <1>1. \A x \in Authorization : Launched(x) => Launched(x)'
    BY StaysLaunched DEF Next, Launched
  <1>2. CASE PublishReceipt(a)
    <2> USE DEF ReportInv
    <2>1. /\ published' = published \cup {a}
          /\ UNCHANGED <<signed, intakeVars>>
          /\ Launched(a)
      BY <1>2 DEF PublishReceipt
    <2>2. SignedGrounded'
      BY <1>1, <2>1 DEF SignedGrounded, TypeOK
    <2>3. RequestGrounded'
      BY <2>1 DEF RequestGrounded, Presentable, LimitAvailable, intakeVars
    <2>4. ReportsGrounded' /\ RejectionsBounded'
      BY <2>1 DEF ReportsGrounded, RejectionsBounded, intakeVars
    <2> QED
      BY <2>2, <2>3, <2>4
  <1>3. CASE ~PublishReceipt(a)
    <2>1. UNCHANGED <<published, signed, intakeVars>>
      BY <1>3 DEF Launch, AuthorizeRemoteExecution, ReserveLaunch, RetryLaunch, CallProvider,
                  RecordLaunch, RefuseReceipt, AbortLaunch, providerVars
    <2> QED
      BY <1>1, <2>1, ReportFrame DEF TypeOK
  <1> QED
    BY <1>2, <1>3

LEMMA DeliverKeepsReports ==
  ASSUME TypeOK, ReportInv, Deliver
  PROVE  ReportInv'
  <1> USE NoneAssumption DEF TypeOK, ReportInv, launchVars, providerVars
  <1>1. ASSUME NEW r \in Report, SignReport(r) PROVE ReportInv'
    <2>1. /\ signed' = signed \cup {r}
          /\ UNCHANGED <<receipt, published, intakeVars>>
          /\ ReportOf[r].authorization \in published /\ ReportOf[r].verifies
      BY <1>1 DEF SignReport
    <2>2. SignedGrounded'
      BY <2>1 DEF SignedGrounded, Launched
    <2>3. RequestGrounded'
      BY <2>1 DEF RequestGrounded, Presentable, LimitAvailable, intakeVars
    <2>4. ReportsGrounded' /\ RejectionsBounded'
      BY <2>1 DEF ReportsGrounded, RejectionsBounded, intakeVars
    <2> QED
      BY <2>2, <2>3, <2>4
  <1>2. ASSUME NEW r \in Report, AcceptRemoteReport(r) PROVE ReportInv'
    <2> DEFINE a == ReportOf[r].authorization
    <2>1. /\ accepted' = [accepted EXCEPT ![a] = r]
          /\ UNCHANGED <<receipt, published, signed, used, rejected, request>>
          /\ accepted[a] = None /\ r \in signed /\ ReportOf[r].verifies
      BY <1>2 DEF AcceptRemoteReport, Fresh, Presentable
    <2>2. a \in Authorization
      BY ContentAssumption
    <2>3. a \in published
      BY <2>1 DEF SignedGrounded
    <2>4. SignedGrounded'
      BY <2>1 DEF SignedGrounded, Launched
    <2>5. RequestGrounded'
      BY <2>1, <2>2 DEF RequestGrounded, RequestType, Presentable, LimitAvailable
    <2>6. ReportsGrounded'
      BY <2>1, <2>2, <2>3 DEF ReportsGrounded
    <2>7. RejectionsBounded'
      BY <2>1 DEF RejectionsBounded
    <2> QED
      BY <2>4, <2>5, <2>6, <2>7
  <1>3. ASSUME NEW a \in Authorization, NEW delivered \in BOOLEAN, IssueCredential(a, delivered)
        PROVE  ReportInv'
    <2>1. UNCHANGED <<receipt, published, signed, accepted, used, rejected, request>>
      BY <1>3 DEF IssueCredential
    <2> QED
      BY <2>1 DEF SignedGrounded, RequestGrounded, ReportsGrounded, RejectionsBounded, Launched,
                  Presentable, LimitAvailable
  <1>4. ASSUME NEW a \in Authorization, NEW r \in Report, ReceiveReport(a, r) PROVE ReportInv'
    <2>1. /\ request' = [authorization |-> a, report |-> r, step |-> "verifying"]
          /\ UNCHANGED <<receipt, published, signed, accepted, used, rejected>>
          /\ Presentable(r) /\ used[a] = None /\ LimitAvailable(a)
      BY <1>4 DEF ReceiveReport
    <2>2. RequestGrounded'
      BY <2>1 DEF RequestGrounded, Presentable, LimitAvailable
    <2> QED
      BY <2>1, <2>2 DEF SignedGrounded, ReportsGrounded, RejectionsBounded, Launched
  <1>5. ASSUME NEW a \in Authorization, RejectBody(a) PROVE ReportInv'
    <2>1. /\ rejected' = [rejected EXCEPT ![a] = @ + 1]
          /\ UNCHANGED <<receipt, published, signed, accepted, used, request>>
          /\ request = None /\ LimitAvailable(a)
      BY <1>5 DEF RejectBody, Idle
    <2>2. RejectionsBounded'
      BY <2>1, BoundAssumption DEF RejectionsBounded, LimitAvailable
    <2> QED
      BY <2>1, <2>2 DEF SignedGrounded, RequestGrounded, ReportsGrounded, Launched
  <1> QED
    BY <1>1, <1>2, <1>3, <1>4, <1>5 DEF Deliver

LEMMA ServeKeepsReports ==
  ASSUME TypeOK, ReportInv, Serve
  PROVE  ReportInv'
  <1> USE NoneAssumption DEF TypeOK, ReportInv, launchVars, providerVars
  <1> DEFINE a == request.authorization
             r == request.report
  <1>1. request \in RequestType /\ request # None
    BY DEF Serve, IntakeAccepts, UseCredential, IntakeRejects, AbortIntake
  <1>2. /\ a \in Authorization /\ r \in Report
        /\ Presentable(r) /\ LimitAvailable(a) /\ used[a] = None
    BY <1>1 DEF RequestType, RequestGrounded
  <1>3. CASE IntakeAccepts
    <2>1. /\ accepted' = [accepted EXCEPT ![a] = r]
          /\ request' = [request EXCEPT !.step = "accepted"]
          /\ UNCHANGED <<receipt, published, signed, used, rejected>>
          /\ ReportOf[r].authorization = a
          /\ Fresh(r) \/ Confirmed(r)
      BY <1>3 DEF IntakeAccepts, BoundToCredential
    <2>2. r \in signed /\ a \in published
      <3>1. CASE Fresh(r)
        BY <1>2, <2>1, <3>1 DEF Fresh, Presentable, SignedGrounded
      <3>2. CASE Confirmed(r)
        BY <1>2, <2>1, <3>2 DEF Confirmed, ReportsGrounded
      <3> QED
        BY <2>1, <3>1, <3>2
    <2>3. /\ request'.report = r /\ request'.authorization = a
          /\ request'.step = "accepted"
      BY <1>1, <2>1 DEF RequestType
    <2>4. RequestGrounded'
      BY <1>2, <2>1, <2>3 DEF RequestGrounded, Presentable, LimitAvailable
    <2>5. ReportsGrounded'
      BY <1>2, <2>1, <2>2 DEF ReportsGrounded
    <2> QED
      BY <2>1, <2>4, <2>5 DEF SignedGrounded, RejectionsBounded, Launched
  <1>4. CASE UseCredential
    <2>1. /\ used' = [used EXCEPT ![a] = r]
          /\ request' = None
          /\ UNCHANGED <<receipt, published, signed, accepted, rejected>>
          /\ request.step = "accepted"
      BY <1>4 DEF UseCredential
    <2>2. accepted[a] = r
      BY <1>1, <2>1 DEF RequestGrounded
    <2>3. ReportsGrounded'
      BY <1>2, <2>1, <2>2 DEF ReportsGrounded
    <2> QED
      BY <2>1, <2>3 DEF SignedGrounded, RequestGrounded, RejectionsBounded, Launched
  <1>5. CASE IntakeRejects
    <2>1. /\ rejected' = [rejected EXCEPT ![a] = @ + 1]
          /\ request' = None
          /\ UNCHANGED <<receipt, published, signed, accepted, used>>
      BY <1>5 DEF IntakeRejects
    <2>2. RejectionsBounded'
      BY <1>2, <2>1, BoundAssumption DEF RejectionsBounded, LimitAvailable
    <2> QED
      BY <2>1, <2>2 DEF SignedGrounded, RequestGrounded, ReportsGrounded, Launched
  <1>6. CASE AbortIntake
    <2>1. /\ request' = None
          /\ UNCHANGED <<receipt, published, signed, accepted, used, rejected>>
      BY <1>6 DEF AbortIntake
    <2> QED
      BY <2>1 DEF SignedGrounded, RequestGrounded, ReportsGrounded, RejectionsBounded, Launched
  <1> QED
    BY <1>3, <1>4, <1>5, <1>6 DEF Serve

LEMMA ReportStep == ASSUME TypeOK, LaunchInv, ReportInv, [Next]_vars PROVE ReportInv'
  <1>1. CASE UNCHANGED vars \/ Environment
    <2>1. UNCHANGED <<published, signed, intakeVars, receipt>>
      BY <1>1 DEF vars, launchVars, providerVars, Environment, Tick, Allocate, CloseBudget,
                  SealTestDigest, ReleaseTestDigest
    <2> QED
      BY <2>1, ReportFrame DEF Launched
  <1> QED
    BY <1>1, LaunchKeepsReports, DeliverKeepsReports, ServeKeepsReports DEF Next

-----------------------------------------------------------------------------
(* The strengthening holds in every reachable state: along a launch the    *)
(* ledger, the running command and the provider agree, and so do the       *)
(* worker, the served request and the ledger along a report.               *)
THEOREM Inductive == Spec => []IInv
  <1>1. Init => IInv
    BY InitType, InitLaunch, InitReport DEF IInv
  <1>2. IInv /\ [Next]_vars => IInv'
    BY TypeStep, LaunchStep, ReportStep DEF IInv
  <1> QED
    BY <1>1, <1>2, PTL DEF Spec

(* Every reachable state is well typed.                                    *)
THEOREM TypeCorrect == Spec => []TypeOK
  BY Inductive, PTL DEF IInv

\* Two machines of one experiment would need two approvals of it.
LEMMA OneMachineHolds == ASSUME TypeOK, LaunchInv PROVE OneMachine
  <1> SUFFICES ASSUME NEW m \in machines, NEW n \in machines,
                      ExperimentOf(m.authorization) = ExperimentOf(n.authorization)
               PROVE  m = n
    BY DEF OneMachine
  <1>1. Authorized(m.authorization) /\ Authorized(n.authorization)
    BY DEF LaunchInv, MachinesReserved
  <1>2. m.authorization \in Authorization /\ n.authorization \in Authorization
    BY DEF TypeOK, MachineType
  <1>3. m.authorization = n.authorization
    BY <1>1, <1>2 DEF LaunchInv, OneApproval
  <1> QED
    BY <1>3 DEF LaunchInv, OnePerKey

(* At most one machine ever runs an experiment, through every crash, lost  *)
(* answer, retry and competing authorization.                              *)
THEOREM OneMachineCorrect == Spec => []OneMachine
  <1>1. IInv => OneMachine
    BY OneMachineHolds DEF IInv
  <1> QED
    BY <1>1, Inductive, PTL

(* The ledger knows of every machine, and every recorded launch is that of *)
(* the one machine of its experiment, which its approval and its epoch     *)
(* covered.                                                                *)
THEOREM LaunchesCorrect == Spec => []LaunchesSound
  <1>1. IInv => MachinesReserved /\ ReceiptsGrounded
    BY DEF IInv, LaunchInv
  <1> QED
    BY <1>1, Inductive, OneMachineCorrect, PTL DEF LaunchesSound

(* Every accepted report was signed by a worker that read the receipt of   *)
(* its launch, a used credential names the accepted report, and no         *)
(* credential is refused more often than it was issued for.                *)
THEOREM ReportsCorrect == Spec => []ReportsSound
  <1>1. IInv => ReportsSound
    BY DEF IInv, ReportInv, ReportsSound
  <1> QED
    BY <1>1, Inductive, PTL

LEMMA AcceptedStays ==
  ASSUME IInv, [Next]_vars, NEW a \in Authorization
  PROVE  /\ accepted[a] # None => accepted'[a] = accepted[a]
         /\ used[a] # None => used'[a] = used[a]
  <1> USE DEF IInv, TypeOK
  <1>1. CASE UNCHANGED vars \/ Environment \/ \E b \in Authorization : Launch(b)
    BY <1>1 DEF vars, intakeVars, Environment, Tick, Allocate, CloseBudget, SealTestDigest,
                ReleaseTestDigest, Launch, AuthorizeRemoteExecution, ReserveLaunch, RetryLaunch,
                CallProvider, RecordLaunch, RefuseReceipt, AbortLaunch, PublishReceipt
  <1>2. CASE Deliver
    BY <1>2, ContentAssumption
    DEF Deliver, intakeVars, SignReport, AcceptRemoteReport, Fresh, IssueCredential, ReceiveReport,
        RejectBody
  <1>3. CASE Serve
    <2>1. CASE IntakeAccepts
      BY <2>1, ContentAssumption DEF IntakeAccepts, Fresh, Confirmed, RequestType
    <2>2. CASE UseCredential
      BY <2>2 DEF UseCredential, ReportInv, RequestGrounded
    <2>3. CASE IntakeRejects \/ AbortIntake
      BY <2>3 DEF IntakeRejects, AbortIntake
    <2> QED
      BY <1>3, <2>1, <2>2, <2>3 DEF Serve
  <1> QED
    BY <1>1, <1>2, <1>3 DEF Next

(* Retries, failures and rival reports never rewrite a recorded launch, an *)
(* accepted report or the use of a credential.                             *)
THEOREM WrittenOnceCorrect == Spec => WrittenOnce
  <1>1. IInv /\ [Next]_vars =>
          [\A a \in Authorization :
             /\ Launched(a) => receipt'[a] = receipt[a]
             /\ accepted[a] # None => accepted'[a] = accepted[a]
             /\ used[a] # None => used'[a] = used[a]]_vars
    BY StaysLaunched, AcceptedStays DEF IInv
  <1> QED
    BY <1>1, Inductive, PTL DEF Spec, WrittenOnce

-----------------------------------------------------------------------------
(* RemoteExecution implements OneShot: the provider's new machine is the   *)
(* one run, a fresh acceptance the one result, everything else a stutter.  *)

LEMMA InitRefines == Init => Abstract!Init
  <1> SUFFICES ASSUME Init PROVE Abstract!Init
    OBVIOUS
  <1>1. \A e \in Experiment : MachinesOf(e) = {} /\ ResultsOf(e) = {}
    BY DEF Init, MachinesOf, ResultsOf, Concluding
  <1> QED
    BY <1>1 DEF Abstract!Init

LEMMA SameRuns == ASSUME machines' = machines PROVE \A e : MachinesOf(e)' = MachinesOf(e)
  BY DEF MachinesOf

LEMMA SameResults == ASSUME accepted' = accepted PROVE \A e : ResultsOf(e)' = ResultsOf(e)
  BY DEF ResultsOf, Concluding

LEMMA Stutters ==
  ASSUME machines' = machines, accepted' = accepted
  PROVE  UNCHANGED Abstract!vars
  BY SameRuns, SameResults DEF Abstract!vars

LEMMA CallRefines ==
  ASSUME IInv, NEW a \in Authorization, CallProvider(a)
  PROVE  [Abstract!Next]_Abstract!vars
  <1> USE NoneAssumption DEF IInv, TypeOK
  <1> DEFINE e == ExperimentOf(a)
             m == NewMachine(a)
  <1>1. accepted' = accepted
    BY DEF CallProvider, intakeVars
  <1>2. launcher[a] \in LauncherType /\ launcher[a] # None
    BY DEF CallProvider, Calling
  <1>3. Authorized(a) /\ reservation[a].config = launcher[a].config
    BY <1>2 DEF LaunchInv, LauncherReserved, ReservedAfterApproval
  <1>4. CASE Answer(a) # {}
    BY <1>1, <1>4, Stutters DEF CallProvider
  <1>5. CASE Answer(a) = {}
    <2>1. machines' = machines \cup {m}
      BY <1>5 DEF CallProvider
    <2>2. m.authorization = a /\ m \in MachineType
      BY <1>2 DEF NewMachine, IdempotencyKey, MachineType, LauncherType
    <2>3. e \in Experiment
      BY ContentAssumption DEF ExperimentOf
    <2>4. ASSUME NEW n \in machines, ExperimentOf(n.authorization) = e PROVE FALSE
      <3>1. n.authorization \in Authorization /\ Authorized(n.authorization)
        BY DEF MachineType, LaunchInv, MachinesReserved
      <3>2. n.authorization = a
        BY <1>3, <2>4, <3>1 DEF LaunchInv, OneApproval
      <3>3. n.key = a /\ n.config = launcher[a].config
        BY <1>3, <3>2 DEF LaunchInv, OnePerKey, MachinesReserved
      <3> QED
        BY <1>5, <3>3 DEF Answer, IdempotencyKey
    <2>5. MachinesOf(e) = {}
      BY <2>4 DEF MachinesOf
    <2>6. MachinesOf(e)' = {m}
      BY <2>1, <2>2, <2>4 DEF MachinesOf
    <2>7. \A x \in Experiment : x # e => MachinesOf(x)' = MachinesOf(x)
      BY <2>1, <2>2 DEF MachinesOf
    <2>8. [x \in Experiment |-> MachinesOf(x)]'
            = [[x \in Experiment |-> MachinesOf(x)] EXCEPT ![e] = {m}]
      BY <2>3, <2>6, <2>7
    <2>9. Abstract!Run(e)
      BY <1>1, <2>2, <2>3, <2>5, <2>8, SameResults DEF Abstract!Run
    <2> QED
      BY <2>3, <2>9 DEF Abstract!Next
  <1> QED
    BY <1>4, <1>5

\* The first acceptance of a report for a launch.
LEMMA AcceptRefines ==
  ASSUME IInv, NEW r \in Report, Fresh(r), machines' = machines,
         accepted' = [accepted EXCEPT ![ReportOf[r].authorization] = r]
  PROVE  [Abstract!Next]_Abstract!vars
  <1> USE NoneAssumption DEF IInv, TypeOK
  <1> DEFINE a == ReportOf[r].authorization
             e == ExperimentOf(a)
  <1>1. a \in Authorization /\ e \in Experiment
    BY ContentAssumption DEF ExperimentOf
  <1>2. Launched(a) /\ accepted[a] = None
    BY DEF Fresh
  <1>3. ASSUME NEW x \in Authorization, Launched(x)
        PROVE  receipt[x] \in machines /\ receipt[x].authorization = x /\ Authorized(x)
    BY <1>3 DEF LaunchInv, ReceiptsGrounded, MachinesReserved
  <1>4. receipt[a] \in MachinesOf(e)
    BY <1>1, <1>2, <1>3 DEF MachinesOf
  <1>5. Concluding(e) = {}
    <2>1. SUFFICES ASSUME NEW x \in Concluding(e) PROVE FALSE
      OBVIOUS
    <2>2. x \in Authorization /\ ExperimentOf(x) = e /\ accepted[x] # None
      BY DEF Concluding
    <2>3. Launched(x)
      BY <2>2 DEF ReportInv, ReportsGrounded, SignedGrounded
    <2>4. x = a
      BY <1>1, <1>2, <1>3, <2>2, <2>3 DEF LaunchInv, OneApproval
    <2> QED
      BY <1>2, <2>2, <2>4
  <1>6. ResultsOf(e) = {}
    BY <1>5 DEF ResultsOf
  <1>7. Concluding(e)' = {a}
    BY <1>1, <1>5 DEF Concluding
  <1>8. accepted'[a] = r
    BY <1>1
  <1>9. ResultsOf(e)' = {r}
    BY <1>7, <1>8 DEF ResultsOf
  <1>10. ASSUME NEW x \in Experiment, x # e PROVE ResultsOf(x)' = ResultsOf(x)
    <2>1. \A y \in Authorization : ExperimentOf(y) = x => accepted'[y] = accepted[y]
      BY <1>1, <1>10
    <2>2. Concluding(x)' = Concluding(x)
      BY <2>1 DEF Concluding
    <2> QED
      BY <2>1, <2>2 DEF ResultsOf, Concluding
  <1>11. [x \in Experiment |-> ResultsOf(x)]'
           = [[x \in Experiment |-> ResultsOf(x)] EXCEPT ![e] = {r}]
    BY <1>1, <1>9, <1>10
  <1>12. Abstract!Conclude(e)
    <2>1. MachinesOf(e) # {}
      BY <1>4
    <2>2. [x \in Experiment |-> MachinesOf(x)]' = [x \in Experiment |-> MachinesOf(x)]
      BY SameRuns
    <2>3. \E q \in Report : [x \in Experiment |-> ResultsOf(x)]'
                               = [[x \in Experiment |-> ResultsOf(x)] EXCEPT ![e] = {q}]
      BY <1>11
    <2> HIDE DEF a, e
    <2> QED
      BY <1>1, <1>6, <2>1, <2>2, <2>3 DEF Abstract!Conclude
  <1> QED
    BY <1>1, <1>12 DEF Abstract!Next

LEMMA StepRefines == ASSUME IInv, [Next]_vars PROVE [Abstract!Next]_Abstract!vars
  <1> USE DEF launchVars, providerVars, intakeVars
  <1>1. CASE UNCHANGED vars \/ Environment
    BY <1>1, Stutters DEF vars, Environment, Tick, Allocate, CloseBudget, SealTestDigest,
                          ReleaseTestDigest
  <1>2. ASSUME NEW a \in Authorization, Launch(a) PROVE [Abstract!Next]_Abstract!vars
    <2>1. CASE ~CallProvider(a)
      BY <1>2, <2>1, Stutters DEF Launch, AuthorizeRemoteExecution, ReserveLaunch, RetryLaunch,
                                  RecordLaunch, RefuseReceipt, AbortLaunch, PublishReceipt
    <2> QED
      BY <2>1, CallRefines
  <1>3. ASSUME NEW r \in Report, AcceptRemoteReport(r) PROVE [Abstract!Next]_Abstract!vars
    BY <1>3, AcceptRefines DEF AcceptRemoteReport
  <1>4. CASE Deliver /\ ~\E r \in Report : AcceptRemoteReport(r)
    BY <1>4, Stutters DEF Deliver, SignReport, IssueCredential, ReceiveReport, RejectBody
  <1>5. CASE IntakeAccepts
    <2>1. /\ machines' = machines
          /\ accepted' = [accepted EXCEPT ![ReportOf[request.report].authorization]
                                            = request.report]
          /\ Fresh(request.report) \/ Confirmed(request.report)
          /\ request.report \in Report
      BY <1>5 DEF IntakeAccepts, IInv, TypeOK, RequestType
    <2>2. CASE Confirmed(request.report)
      <3>1. accepted' = accepted
        BY <2>1, <2>2 DEF Confirmed, IInv, TypeOK
      <3> QED
        BY <2>1, <3>1, Stutters
    <2> QED
      BY <2>1, <2>2, AcceptRefines
  <1>6. CASE UseCredential \/ IntakeRejects \/ AbortIntake
    BY <1>6, Stutters DEF UseCredential, IntakeRejects, AbortIntake
  <1> QED
    BY <1>1, <1>2, <1>3, <1>4, <1>5, <1>6 DEF Next, Serve

(* Whatever is lost, repeated or restarted, an experiment runs at most     *)
(* once and has at most one result, of that run and final.                 *)
THEOREM RemoteRefinesOneShot == Spec => ImplementsOneShot
  <1>1. Init => Abstract!Init
    BY InitRefines
  <1>2. IInv /\ [Next]_vars => [Abstract!Next]_Abstract!vars
    BY StepRefines
  <1> QED
    BY <1>1, <1>2, Inductive, PTL DEF Spec, ImplementsOneShot, Abstract!Spec
=============================================================================
