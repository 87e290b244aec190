--------------------------- MODULE AllocatorProofs ---------------------------
(***************************************************************************)
(* Theorems about epoch budgets and about the allocator, the unattended    *)
(* runs and the sandbox lane that draw on them, for every policy, request, *)
(* experiment and clock: the lanes stay inside their shares, the reserves  *)
(* stay reachable, one budget is active at a time and a superseded one is  *)
(* never drawn on again, and no step of the allocator escapes any of it.   *)
(***************************************************************************)
EXTENDS Allocator, TLAPS

-----------------------------------------------------------------------------
(* The budgets.                                                            *)


(* What registration guarantees, and what has not been registered has not  *)
(* been charged either.                                                    *)
RegistryInv ==
    /\ \A b \in registered : WellFormed(b)
    /\ \A a, b \in registered : PolicyOf[a].epoch = PolicyOf[b].epoch => a = b
    /\ \A b \in Budget \ registered : \A l \in Lane : laneSpent[b][l] = 0

\* A share of a total, rounded up, is a number of whole credits.
LEMMA ReserveType ==
    ASSUME NEW total \in Nat, NEW share \in Nat
    PROVE  Reserve(total, share) \in Nat
  <1> DEFINE product == total * share
  <1>1. product \in Nat
    OBVIOUS
  <1> HIDE DEF product
  <1>2. (product + (10000 - 1)) \div 10000 \in Nat
    BY <1>1, SMT
  <1> QED
    BY <1>2 DEF Reserve, Whole, product

LEMMA PolicyTyped ==
    ASSUME NEW b \in Budget
    PROVE  /\ PolicyOf[b].epoch \in Nat
           /\ PolicyOf[b].total \in Nat
           /\ PolicyOf[b].from \in Nat
           /\ \A x \in Executable : PolicyOf[b].perEpoch[x] \in Nat
           /\ ReplicationReserve(b) \in Nat
           /\ ProbeReserve(b) \in Nat
  <1>1. PolicyOf[b] \in PolicyType
    BY PolicyAssumption
  <1>2. /\ PolicyOf[b].epoch \in Nat
        /\ PolicyOf[b].total \in Nat
        /\ PolicyOf[b].from \in Nat
    BY <1>1 DEF PolicyType
  <1>3. PolicyOf[b].perEpoch \in [Executable -> Nat \ {0}]
    BY <1>1 DEF PolicyType
  <1>4. PolicyOf[b].replication \in 0..Whole /\ PolicyOf[b].probe \in 0..Whole
    BY <1>1 DEF PolicyType
  <1>5. \A share \in 0..Whole : share \in Nat
    OBVIOUS
  <1> QED
    BY <1>2, <1>3, <1>4, <1>5, ReserveType DEF ReplicationReserve, ProbeReserve

LEMMA RequestTyped ==
    ASSUME NEW r \in Request
    PROVE  /\ RequestOf[r].lane \in Lane
           /\ RequestOf[r].executable \in Executable
           /\ RequestOf[r].credits \in Nat
  BY PolicyAssumption DEF RequestType

-----------------------------------------------------------------------------
LEMMA InitInv == Init => TypeOK /\ RegistryInv /\ LanesBounded
  <1> SUFFICES ASSUME Init PROVE TypeOK /\ RegistryInv /\ LanesBounded
    OBVIOUS
  <1>1. TypeOK /\ RegistryInv
    BY PolicyAssumption DEF Init, TypeOK, RegistryInv
  <1>2. LanesBounded
    BY PolicyTyped DEF Init, LanesBounded, Lane
  <1> QED
    BY <1>1, <1>2

\* A reservation is charged to the budget of the running call, which is registered.
LEMMA ReservationCharge ==
    ASSUME TypeOK, NEW r \in Request, ReserveAllocation(r)
    PROVE  /\ call \in registered
           /\ \A b \in Budget : b # call => laneSpent'[b] = laneSpent[b] /\ exeSpent'[b] = exeSpent[b]
           /\ laneSpent'[call] = [laneSpent[call] EXCEPT ![RequestOf[r].lane] = @ + RequestOf[r].credits]
           /\ exeSpent'[call] = [exeSpent[call] EXCEPT ![RequestOf[r].executable] = @ + RequestOf[r].credits]
  BY RequestTyped DEF TypeOK, ReserveAllocation

LEMMA TypeStep == TypeOK /\ [Next]_vars => TypeOK'
  <1> SUFFICES ASSUME TypeOK, [Next]_vars PROVE TypeOK'
    OBVIOUS
  <1> USE PolicyAssumption DEF TypeOK
  <1>1. ASSUME NEW k \in Key, TrustPolicyKey(k) PROVE TypeOK'
    BY <1>1 DEF TrustPolicyKey
  <1>2. ASSUME NEW b \in Budget, RegisterEpochBudget(b) PROVE TypeOK'
    BY <1>2 DEF RegisterEpochBudget
  <1>3. CASE Tick
    BY <1>3 DEF Tick
  <1>4. ASSUME NEW b \in Budget, BeginCall(b) PROVE TypeOK'
    BY <1>4 DEF BeginCall, Active
  <1>5. ASSUME NEW r \in Request, ReserveAllocation(r) PROVE TypeOK'
    BY <1>5, RequestTyped DEF ReserveAllocation
  <1>6. CASE EndCall
    BY <1>6 DEF EndCall
  <1>7. CASE UNCHANGED vars
    BY <1>7 DEF vars
  <1> QED
    BY <1>1, <1>2, <1>3, <1>4, <1>5, <1>6, <1>7 DEF Next

LEMMA RegistryStep ==
    ASSUME TypeOK, RegistryInv, [Next]_vars
    PROVE  RegistryInv'
  <1> USE DEF RegistryInv
  <1>1. ASSUME NEW b \in Budget, RegisterEpochBudget(b) PROVE RegistryInv'
    <2>1. \A a \in registered : PolicyOf[a].epoch # PolicyOf[b].epoch
      BY <1>1, PolicyTyped DEF RegisterEpochBudget, Follows, TypeOK
    <2> QED
      BY <1>1, <2>1 DEF RegisterEpochBudget
  <1>2. ASSUME NEW r \in Request, ReserveAllocation(r) PROVE RegistryInv'
    <2>1. call \in registered /\ registered' = registered
      BY <1>2, ReservationCharge DEF ReserveAllocation
    <2>2. \A b \in Budget \ registered : laneSpent'[b] = laneSpent[b]
      BY <1>2, <2>1, ReservationCharge
    <2> QED
      BY <2>1, <2>2
  <1>3. CASE \/ \E k \in Key : TrustPolicyKey(k)
             \/ Tick
             \/ \E b \in Budget : BeginCall(b)
             \/ EndCall
             \/ UNCHANGED vars
    BY <1>3 DEF TrustPolicyKey, Tick, BeginCall, EndCall, vars
  <1> QED
    BY <1>1, <1>2, <1>3 DEF Next

LEMMA LanesStep ==
    ASSUME TypeOK, RegistryInv, LanesBounded, [Next]_vars
    PROVE  LanesBounded'
  <1>1. ASSUME NEW b \in Budget, RegisterEpochBudget(b) PROVE LanesBounded'
    <2>1. GeneralSpent(b) = 0 /\ 0 <= GeneralLimit(b)
      BY <1>1, PolicyTyped
      DEF RegisterEpochBudget, Follows, Unregistered, RegistryInv, GeneralSpent, GeneralLimit,
          WellFormed, Lane
    <2> QED
      BY <1>1, <2>1 DEF RegisterEpochBudget, LanesBounded, GeneralSpent
  <1>2. ASSUME NEW r \in Request, ReserveAllocation(r) PROVE LanesBounded'
    <2> DEFINE c == RequestOf[r].credits
               l == RequestOf[r].lane
               x == RequestOf[r].executable
    <2>1. /\ call \in registered /\ call \in Budget
          /\ \A b \in Budget : b # call => laneSpent'[b] = laneSpent[b] /\ exeSpent'[b] = exeSpent[b]
          /\ registered' = registered /\ call' = call
      BY <1>2, ReservationCharge DEF TypeOK, ReserveAllocation
    <2>2. /\ l \in Lane /\ x \in Executable /\ c \in Nat
          /\ laneSpent[call] \in [Lane -> Nat] /\ exeSpent[call] \in [Executable -> Nat]
          /\ laneSpent'[call] = [laneSpent[call] EXCEPT ![l] = @ + c]
          /\ exeSpent'[call] = [exeSpent[call] EXCEPT ![x] = @ + c]
      BY <1>2, <2>1, RequestTyped, ReservationCharge DEF TypeOK
    <2>3. CapsAllow(call, r) /\ LaneAllows(call, r)
      BY <1>2 DEF ReserveAllocation, HasCapacity
    <2>4. \A y \in Executable : exeSpent'[call][y] <= PolicyOf[call].perEpoch[y]
      BY <2>1, <2>2, <2>3 DEF CapsAllow, RunCapAllows, LanesBounded
    <2>5. /\ laneSpent[call]["replication"] <= ReplicationReserve(call)
          /\ ProbeReserve(call) > 0 => laneSpent[call]["sandbox"] <= ProbeReserve(call)
          /\ GeneralSpent(call) <= GeneralLimit(call)
      BY <2>1 DEF LanesBounded
    <2>6. /\ laneSpent'[call]["replication"] <= ReplicationReserve(call)
          /\ ProbeReserve(call) > 0 => laneSpent'[call]["sandbox"] <= ProbeReserve(call)
          /\ GeneralSpent(call)' <= GeneralLimit(call)
      <3>1. CASE l = "replication"
        BY <2>1, <2>2, <2>3, <2>5, <3>1 DEF LaneAllows, PooledLanes, GeneralSpent, Lane
      <3>2. CASE l = "sandbox" /\ ProbeReserve(call) > 0
        BY <2>1, <2>2, <2>3, <2>5, <3>2 DEF LaneAllows, PooledLanes, GeneralSpent, Lane
      <3>3. CASE l = "sandbox" /\ ProbeReserve(call) = 0
        BY <2>1, <2>2, <2>3, <2>5, <3>3 DEF LaneAllows, PooledLanes, GeneralSpent, Lane
      <3>4. CASE l = "promoted"
        BY <2>1, <2>2, <2>3, <2>5, <3>4 DEF LaneAllows, PooledLanes, GeneralSpent, Lane
      <3> QED
        BY <2>1, <2>2, <3>1, <3>2, <3>3, <3>4, PolicyTyped DEF Lane
    <2> QED
      BY <2>1, <2>4, <2>6 DEF LanesBounded, GeneralSpent
  <1>3. CASE \/ \E k \in Key : TrustPolicyKey(k)
             \/ Tick
             \/ \E b \in Budget : BeginCall(b)
             \/ EndCall
             \/ UNCHANGED vars
    BY <1>3 DEF TrustPolicyKey, Tick, BeginCall, EndCall, vars, LanesBounded, GeneralSpent
  <1> QED
    BY <1>1, <1>2, <1>3 DEF Next

LEMMA BudgetInv == Spec => [](TypeOK /\ RegistryInv /\ LanesBounded)
  <1>1. TypeOK /\ RegistryInv /\ LanesBounded /\ [Next]_vars
          => (TypeOK /\ RegistryInv /\ LanesBounded)'
    BY TypeStep, RegistryStep, LanesStep
  <1> QED
    BY <1>1, InitInv, PTL DEF Spec

-----------------------------------------------------------------------------
(* Registered budgets, running calls and the credits charged keep their    *)
(* types; a call is always about a registered budget.                      *)
THEOREM TypeCorrect == Spec => []TypeOK
  BY BudgetInv, PTL

(* No lane exceeds its share of the epoch and no executable its cap, for   *)
(* every percentage and every rounding.                                    *)
THEOREM LanesCorrect == Spec => []LanesBounded
  BY BudgetInv, PTL

(* The unspent reserves of replication and of probes are covered by the    *)
(* credits that remain: the three lanes cannot take from one another.      *)
THEOREM ReservesCorrect == Spec => []ReservesKept
  <1>1. TypeOK /\ RegistryInv /\ LanesBounded => ReservesKept
    <2> SUFFICES ASSUME TypeOK, RegistryInv, LanesBounded, NEW b \in registered
                 PROVE  TotalSpent(b) + (ReplicationReserve(b) - laneSpent[b]["replication"])
                          + (IF ProbeReserve(b) = 0 THEN 0
                             ELSE ProbeReserve(b) - laneSpent[b]["sandbox"])
                          <= PolicyOf[b].total
      BY DEF ReservesKept
    <2>1. b \in Budget /\ GeneralSpent(b) <= GeneralLimit(b)
      BY DEF TypeOK, LanesBounded
    <2>2. /\ laneSpent[b]["promoted"] \in Nat
          /\ laneSpent[b]["sandbox"] \in Nat
          /\ laneSpent[b]["replication"] \in Nat
      BY <2>1 DEF TypeOK, Lane
    <2> QED
      BY <2>1, <2>2, PolicyTyped DEF GeneralSpent, GeneralLimit, TotalSpent
  <1> QED
    BY <1>1, BudgetInv, PTL

(* No lane overruns its share, and none can take what another has left.    *)
THEOREM SharesCorrect == Spec => []SharesKept
  BY LanesCorrect, ReservesCorrect, PTL DEF SharesKept

(* Budgets of different epochs may be valid at the same time, and yet only *)
(* the one of the latest epoch is active.                                  *)
THEOREM OneActiveCorrect == Spec => []OneActiveBudget
  <1>1. TypeOK /\ RegistryInv => OneActiveBudget
    <2> SUFFICES ASSUME TypeOK, RegistryInv, NEW a \in Budget, NEW b \in Budget,
                        Active(a), Active(b), a # b
                 PROVE  FALSE
      BY DEF OneActiveBudget
    <2>1. PolicyOf[a].epoch > PolicyOf[b].epoch \/ PolicyOf[b].epoch > PolicyOf[a].epoch
      BY PolicyTyped DEF Active, RegistryInv
    <2> QED
      BY <2>1 DEF Active, InLifetime, Superseded
  <1> QED
    BY <1>1, BudgetInv, PTL

(* A superseded budget is never drawn on again, except by the call that    *)
(* had found it active.                                                    *)
THEOREM SupersessionCorrect == Spec => SupersededFrozen
  <1>1. TypeOK /\ [Next]_vars
          => [\A b \in registered : Superseded(b) /\ call # b =>
                allocated'[b] = allocated[b] /\ call' # b]_vars
    <2> SUFFICES ASSUME TypeOK, Next, NEW b \in registered, Superseded(b), call # b
                 PROVE  allocated'[b] = allocated[b] /\ call' # b
      OBVIOUS
    <2>1. CASE \E d \in Budget : BeginCall(d)
      BY <2>1 DEF BeginCall, Active
    <2>2. CASE \E r \in Request : ReserveAllocation(r)
      BY <2>2 DEF ReserveAllocation, TypeOK
    <2>3. CASE EndCall
      BY <2>3, PolicyAssumption DEF EndCall, TypeOK
    <2>4. CASE \/ \E k \in Key : TrustPolicyKey(k)
               \/ \E d \in Budget : RegisterEpochBudget(d)
               \/ Tick
      BY <2>4 DEF TrustPolicyKey, RegisterEpochBudget, Tick
    <2> QED
      BY <2>1, <2>2, <2>3, <2>4 DEF Next
  <1> QED
    BY <1>1, TypeCorrect, PTL DEF Spec, SupersededFrozen

-----------------------------------------------------------------------------
(* The allocator.                                                          *)


\* What a running call has done before the step it is about to take.
CallInv ==
    /\ step \in {"admit", "reserve"} => Commitment(call, at) \in funding[SubjectOf[at]]
    /\ step = "reserve" => SubjectOf[at] \in accepted
    /\ step \in {"charge", "execute"} => probed[SubjectOf[at]] = None
    /\ step = "execute" => at \in allocated[call]
    /\ step \in {"finish", "promote"} => probed[SubjectOf[at]] # None
    /\ step = "promote" => Finalizable(SubjectOf[at]) /\ evidence[SubjectOf[at]] = "sandbox"

\* A recorded probe was charged to the budget that it names.
ProbesCharged ==
    \A s \in Sandbox : probed[s] # None =>
        \E r \in Probe : SubjectOf[r] = s /\ r \in allocated[probed[s].budget]

StartsCounted ==
    \A e \in Experiment, b \in Budget : unattended[b][e] > 0 => starts[e] > 0

LaneInv ==
    /\ AllocatorTypeOK
    /\ CallInv
    /\ ProbesCharged
    /\ StartsCounted
    /\ ChargedIsAdmitted
    /\ UnattendedIsPaid
    /\ PromotionGrounded

-----------------------------------------------------------------------------
(* Every step of the allocator is a step of the epoch budgets or leaves    *)
(* them alone.                                                             *)
LEMMA BudgetStep ==
    ASSUME AllocatorTypeOK, [AllocatorNext]_allocatorVars
    PROVE  [Next]_vars
  <1>1. CASE \/ \E k \in Key : TrustPolicyKey(k)
             \/ \E b \in Budget : RegisterEpochBudget(b)
             \/ Tick
    BY <1>1 DEF Next
  <1>2. ASSUME NEW b \in Budget,
               \/ \E batch \in SUBSET Promoted : AllocateEpoch(b, batch)
               \/ \E r \in Replication : AllocateReplication(b, r)
               \/ \E r \in Probe : RunSandbox(b, r)
        PROVE  Next
    BY <1>2 DEF AllocateEpoch, AllocateReplication, RunSandbox, Next
  <1>3. ASSUME NEW b \in Budget, NEW e \in Experiment, RunUnattended(b, e)
        PROVE  UNCHANGED vars
    BY <1>3 DEF RunUnattended, Start
  <1>4. CASE CallStep
    <2>1. ASSUME NEW r \in Promoted \cup Replication,
                 NoCapacity(r) \/ FundCandidate(r) \/ FundingRefused(r)
          PROVE  UNCHANGED vars \/ EndCall
      BY <2>1 DEF NoCapacity, FundCandidate, FundingRefused, Return
    <2>2. CASE EnsureAdmitted \/ AdmissionRejected \/ ReturnReport
               \/ ProbeRefused \/ RecordProbe \/ ProbeNotRecorded \/ EvaluatePromotion
               \/ \E result \in Result : ExecuteProbe(result)
      BY <2>2 DEF EnsureAdmitted, AdmissionRejected, ReturnReport, ProbeRefused, RecordProbe,
                  ProbeNotRecorded, EvaluatePromotion, ExecuteProbe, Return, Next
    <2>3. ASSUME at \in Request, Charge(at) PROVE Next
      BY <2>3 DEF Charge, Next
    <2>4. CASE ReserveCandidate \/ ChargeProbe
      BY <2>3, <2>4
      DEF ReserveCandidate, ChargeProbe, AllocatorTypeOK, Promoted, Replication, Probe
    <2> QED
      BY <1>4, <2>1, <2>2, <2>4 DEF CallStep, Next
  <1>5. CASE AbortCall
    BY <1>5 DEF AbortCall, Return, Next
  <1>6. ASSUME NEW e \in Experiment,
               \/ CommitFunding(e) \/ DecideAdmission(e)
               \/ SealTestDigest(e) \/ ReleaseTestDigest(e)
               \/ RunByHand(e)
               \/ CompleteRun(e) \/ RecordEvidence(e)
        PROVE  UNCHANGED vars
    BY <1>6 DEF CommitFunding, DecideAdmission, SealTestDigest, ReleaseTestDigest, RunByHand,
                Start, CompleteRun, RecordEvidence
  <1>7. CASE UNCHANGED allocatorVars
    BY <1>7 DEF allocatorVars
  <1> QED
    BY <1>1, <1>2, <1>3, <1>4, <1>5, <1>6, <1>7 DEF AllocatorNext

-----------------------------------------------------------------------------
LEMMA SubjectTyped ==
    /\ \A r \in Promoted \cup Replication : SubjectOf[r] \in Experiment /\ r \in Request
    /\ \A r \in Probe : SubjectOf[r] \in Sandbox /\ r \in Request
    /\ Sandbox \subseteq Id /\ Experiment \subseteq Id
  BY SubjectAssumption DEF Promoted, Replication, Probe, Id

LEMMA AllocatorTypeStep ==
    ASSUME AllocatorTypeOK, [AllocatorNext]_allocatorVars
    PROVE  AllocatorTypeOK'
  <1>1. TypeOK'
    BY BudgetStep, TypeStep DEF AllocatorTypeOK
  <1> USE SubjectAssumption DEF AllocatorTypeOK
  <1>2. CASE /\ \/ \E k \in Key : TrustPolicyKey(k)
                \/ \E b \in Budget : RegisterEpochBudget(b)
                \/ Tick
             /\ UNCHANGED <<callVars, ledgerVars, aborts>>
    BY <1>1, <1>2
    DEF TrustPolicyKey, RegisterEpochBudget, Tick, callVars, ledgerVars, experimentVars, runVars,
        probeVars
  <1>3. ASSUME NEW b \in Budget, NEW batch \in SUBSET Promoted, AllocateEpoch(b, batch)
        PROVE  AllocatorTypeOK'
    BY <1>1, <1>3, PolicyAssumption
    DEF AllocateEpoch, BeginCall, NextCandidate, Step, ledgerVars, experimentVars, runVars,
        probeVars
  <1>4. ASSUME NEW b \in Budget, NEW r \in Replication, AllocateReplication(b, r)
        PROVE  AllocatorTypeOK'
    BY <1>1, <1>4, PolicyAssumption
    DEF AllocateReplication, BeginCall, NextCandidate, Step, ledgerVars, experimentVars, runVars,
        probeVars
  <1>5. ASSUME NEW b \in Budget, NEW r \in Probe, RunSandbox(b, r)
        PROVE  AllocatorTypeOK'
    BY <1>1, <1>5, PolicyAssumption, SubjectTyped
    DEF RunSandbox, BeginCall, Step, experimentVars, runVars
  <1>6. ASSUME NEW e \in Experiment, Start(e), unattended' \in [Budget -> [Experiment -> Nat]]
        PROVE  AllocatorTypeOK'
    BY <1>1, <1>6 DEF Start, vars, callVars, experimentVars, probeVars
  <1>7. ASSUME NEW b \in Budget, NEW e \in Experiment, RunUnattended(b, e)
        PROVE  AllocatorTypeOK'
    BY <1>6, <1>7 DEF RunUnattended
  <1>8. CASE CallStep
    <2> USE <1>1, SubjectTyped DEF Step
    <2>1. ASSUME NEW r \in Promoted \cup Replication,
                 NoCapacity(r) \/ FundCandidate(r) \/ FundingRefused(r)
          PROVE  AllocatorTypeOK'
      <3>1. CASE NoCapacity(r)
        BY <3>1 DEF NoCapacity, Pick, NextCandidate, vars, ledgerVars, experimentVars, runVars, probeVars
      <3>2. CASE FundCandidate(r)
        <4>1. call \in Budget /\ RequestOf[r].lane \in {"promoted", "replication"}
          BY <3>2, PolicyAssumption DEF FundCandidate, Pick, TypeOK, Promoted, Replication
        <4>2. Commitment(call, r) \in Funding
          BY <4>1 DEF Commitment, Funding
        <4>3. funding' \in [Experiment -> SUBSET Funding]
          BY <3>2, <4>2 DEF FundCandidate
        <4>4. call' = call /\ step' = "admit" /\ at' = r /\ todo' \subseteq todo
          BY <3>2 DEF FundCandidate, vars
        <4> QED
          BY <3>2, <4>1, <4>3, <4>4, PolicyAssumption DEF FundCandidate, runVars, probeVars
      <3>3. CASE FundingRefused(r)
        BY <3>3 DEF FundingRefused, Return, EndCall, ledgerVars, experimentVars, runVars, probeVars
      <3> QED
        BY <2>1, <3>1, <3>2, <3>3
    <2>2. CASE EnsureAdmitted
      BY <2>2 DEF EnsureAdmitted, AfterDecision, vars, runVars, probeVars
    <2>3. CASE AdmissionRejected \/ ReturnReport \/ ProbeRefused \/ ProbeNotRecorded
      BY <2>3 DEF AdmissionRejected, ReturnReport, ProbeRefused, ProbeNotRecorded, Return, EndCall,
                  ledgerVars, experimentVars, runVars, probeVars
    <2>4. CASE ReserveCandidate
      BY <2>4 DEF ReserveCandidate, Charge, ReserveAllocation, NextCandidate,
                  vars, ledgerVars, experimentVars, runVars, probeVars
    <2>5. CASE ChargeProbe
      BY <2>5 DEF ChargeProbe, Charge, ReserveAllocation,
                  vars, ledgerVars, experimentVars, runVars, probeVars
    <2>6. ASSUME NEW result \in Result, ExecuteProbe(result) PROVE AllocatorTypeOK'
      <3>1. [budget |-> call, result |-> result] \in ProbeRun
        BY <2>6 DEF ExecuteProbe, TypeOK, ProbeRun
      <3> QED
        BY <2>6, <3>1 DEF ExecuteProbe, vars, experimentVars, runVars
    <2>7. CASE RecordProbe
      BY <2>7 DEF RecordProbe, vars, experimentVars, runVars, probeVars
    <2>8. CASE EvaluatePromotion
      <3>1. call \in Budget
        BY <2>8 DEF EvaluatePromotion, TypeOK
      <3>2. promotion' \in [Sandbox -> [budget : Budget, eligible : BOOLEAN] \cup {None}]
        <4> DEFINE verdict == [budget |-> call, eligible |-> probed[SubjectOf[at]].result = "beats"]
        <4>1. verdict \in [budget : Budget, eligible : BOOLEAN]
          BY <3>1
        <4> HIDE DEF verdict
        <4>2. \/ promotion' = [promotion EXCEPT ![SubjectOf[at]] = verdict]
              \/ promotion' = promotion
          BY <2>8 DEF EvaluatePromotion, verdict
        <4> QED
          BY <4>1, <4>2
      <3> QED
        BY <2>8, <3>2 DEF EvaluatePromotion, Return, EndCall, experimentVars, runVars
    <2> QED
      BY <1>8, <2>1, <2>2, <2>3, <2>4, <2>5, <2>6, <2>7, <2>8 DEF CallStep
  <1>9. CASE AbortCall
    BY <1>1, <1>9 DEF AbortCall, Return, EndCall, Step, ledgerVars, experimentVars, runVars, probeVars
  <1>10. ASSUME NEW e \in Experiment,
                \/ CommitFunding(e) \/ DecideAdmission(e)
                \/ SealTestDigest(e) \/ ReleaseTestDigest(e)
                \/ CompleteRun(e) \/ RecordEvidence(e)
         PROVE  AllocatorTypeOK'
    <2> USE <1>1 DEF vars, callVars, runVars, probeVars, experimentVars
    <2>1. CASE CommitFunding(e)
      BY <2>1 DEF CommitFunding, Funding
    <2>2. CASE DecideAdmission(e)
      BY <2>2 DEF DecideAdmission, AfterDecision
    <2>3. CASE SealTestDigest(e) \/ ReleaseTestDigest(e)
      BY <2>3 DEF SealTestDigest, ReleaseTestDigest
    <2>4. CASE CompleteRun(e) \/ RecordEvidence(e)
      BY <2>4, SubjectTyped DEF CompleteRun, RecordEvidence
    <2> QED
      BY <1>10, <2>1, <2>2, <2>3, <2>4
  <1>11. ASSUME NEW e \in Experiment, RunByHand(e) PROVE AllocatorTypeOK'
    BY <1>6, <1>11 DEF RunByHand
  <1>12. CASE UNCHANGED allocatorVars
    BY <1>1, <1>12
    DEF allocatorVars, vars, callVars, ledgerVars, experimentVars, runVars, probeVars
  <1> QED
    BY <1>2, <1>3, <1>4, <1>5, <1>7, <1>8, <1>9, <1>10, <1>11, <1>12 DEF AllocatorNext

-----------------------------------------------------------------------------
(* Charges, fundings and acceptances are never taken back, and a recorded  *)
(* probe never changes.                                                    *)
LEMMA LedgerGrows ==
    ASSUME AllocatorTypeOK, CallInv, [AllocatorNext]_allocatorVars
    PROVE  /\ \A b \in Budget : allocated[b] \subseteq allocated'[b]
           /\ \A e \in Experiment : funding[e] \subseteq funding'[e]
           /\ accepted \subseteq accepted'
           /\ \A e \in Experiment : starts[e] <= starts'[e]
           /\ \A s \in Sandbox : probed[s] # None => probed'[s] = probed[s]
           /\ \A i \in Id : evidence[i] # None => evidence'[i] = evidence[i]
  <1>1. \A b \in Budget : allocated[b] \subseteq allocated'[b]
    <2>1. [Next]_vars /\ TypeOK
      BY BudgetStep DEF AllocatorTypeOK
    <2>2. ASSUME NEW r \in Request, ReserveAllocation(r)
          PROVE  \A b \in Budget : allocated[b] \subseteq allocated'[b]
      BY <2>1, <2>2 DEF ReserveAllocation, TypeOK
    <2> QED
      BY <2>1, <2>2
      DEF Next, TrustPolicyKey, RegisterEpochBudget, Tick, BeginCall, EndCall, vars
  <1>2. \/ UNCHANGED funding
        \/ \E r \in Promoted \cup Replication : FundCandidate(r)
        \/ \E e \in Experiment : CommitFunding(e)
    BY DEF AllocatorNext, AllocateEpoch, AllocateReplication, RunSandbox, RunUnattended, Start,
           CallStep, NoCapacity, FundingRefused, AdmissionRejected, ReserveCandidate, Charge,
           ReturnReport, ChargeProbe, ProbeRefused, ExecuteProbe, RecordProbe, ProbeNotRecorded,
           EvaluatePromotion, AbortCall, SealTestDigest, ReleaseTestDigest, RunByHand, CompleteRun,
           RecordEvidence, allocatorVars, ledgerVars, experimentVars, EnsureAdmitted, DecideAdmission
  <1>3. \A e \in Experiment : funding[e] \subseteq funding'[e]
    <2>1. ASSUME NEW r \in Promoted \cup Replication, FundCandidate(r)
          PROVE  \A e \in Experiment : funding[e] \subseteq funding'[e]
      BY <2>1, SubjectTyped DEF FundCandidate, AllocatorTypeOK
    <2> QED
      BY <1>2, <2>1 DEF CommitFunding, AllocatorTypeOK
  <1>4. UNCHANGED accepted \/ EnsureAdmitted \/ \E e \in Experiment : DecideAdmission(e)
    BY DEF AllocatorNext, AllocateEpoch, AllocateReplication, RunSandbox, RunUnattended, Start,
           CallStep, NoCapacity, FundingRefused, AdmissionRejected, ReserveCandidate, Charge,
           ReturnReport, ChargeProbe, ProbeRefused, ExecuteProbe, RecordProbe, ProbeNotRecorded,
           EvaluatePromotion, AbortCall, SealTestDigest, ReleaseTestDigest, RunByHand, CompleteRun,
           RecordEvidence, allocatorVars, ledgerVars, experimentVars, FundCandidate, CommitFunding
  <1>5. accepted \subseteq accepted'
    BY <1>4 DEF EnsureAdmitted, DecideAdmission, AfterDecision
  <1>6. UNCHANGED starts \/ \E e \in Experiment : Start(e)
    BY DEF AllocatorNext, AllocateEpoch, AllocateReplication, RunSandbox, RunUnattended,
           CallStep, NoCapacity, FundCandidate, FundingRefused, EnsureAdmitted, AdmissionRejected,
           ReserveCandidate, Charge, ReturnReport, ChargeProbe, ProbeRefused, ExecuteProbe,
           RecordProbe, ProbeNotRecorded, EvaluatePromotion, AbortCall, CommitFunding,
           DecideAdmission, SealTestDigest, ReleaseTestDigest, RunByHand, CompleteRun,
           RecordEvidence, allocatorVars, ledgerVars, runVars
  <1>7. \A e \in Experiment : starts[e] <= starts'[e]
    <2>1. \A e \in Experiment : starts[e] \in Nat
      BY SubjectAssumption DEF AllocatorTypeOK
    <2> QED
      BY <1>6, <2>1 DEF Start, AllocatorTypeOK
  <1>8. UNCHANGED probed \/ \E result \in Result : ExecuteProbe(result)
    BY DEF AllocatorNext, AllocateEpoch, AllocateReplication, RunSandbox, RunUnattended, Start,
           CallStep, NoCapacity, FundCandidate, FundingRefused, EnsureAdmitted, AdmissionRejected,
           ReserveCandidate, Charge, ReturnReport, ChargeProbe, ProbeRefused, RecordProbe,
           ProbeNotRecorded, EvaluatePromotion, AbortCall, CommitFunding, DecideAdmission,
           SealTestDigest, ReleaseTestDigest, RunByHand, CompleteRun, RecordEvidence,
           allocatorVars, ledgerVars, probeVars
  <1>9. \A s \in Sandbox : probed[s] # None => probed'[s] = probed[s]
    BY <1>8 DEF ExecuteProbe, CallInv, AllocatorTypeOK
  <1>10. UNCHANGED evidence \/ RecordProbe \/ \E e \in Experiment : RecordEvidence(e)
    BY DEF AllocatorNext, AllocateEpoch, AllocateReplication, RunSandbox, RunUnattended, Start,
           CallStep, NoCapacity, FundCandidate, FundingRefused, EnsureAdmitted, AdmissionRejected,
           ReserveCandidate, Charge, ReturnReport, ChargeProbe, ProbeRefused, ExecuteProbe,
           ProbeNotRecorded, EvaluatePromotion, AbortCall, CommitFunding, DecideAdmission,
           SealTestDigest, ReleaseTestDigest, RunByHand, CompleteRun, RunByHand,
           allocatorVars, ledgerVars
  <1>11. \A i \in Id : evidence[i] # None => evidence'[i] = evidence[i]
    BY <1>10 DEF RecordProbe, RecordEvidence, Fileable, Unfiled, AllocatorTypeOK
  <1> QED
    BY <1>1, <1>3, <1>5, <1>7, <1>9, <1>11

-----------------------------------------------------------------------------
LEMMA CallStepInv ==
    ASSUME AllocatorTypeOK, CallInv, [AllocatorNext]_allocatorVars
    PROVE  CallInv'
  <1>1. ASSUME UNCHANGED <<step, at, call, probed>> PROVE CallInv'
    <2>1. step \in {"admit", "reserve"} => SubjectOf[at] \in Experiment
      BY SubjectTyped DEF AllocatorTypeOK
    <2>2. step \in {"charge", "execute", "finish", "promote"}
            => SubjectOf[at] \in Id /\ call \in Budget
      BY SubjectTyped, PolicyAssumption DEF AllocatorTypeOK, TypeOK
    <2>3. "sandbox" # None
      BY SubjectAssumption
    <2> QED
      BY <1>1, <2>1, <2>2, <2>3, LedgerGrows DEF CallInv, Commitment, Finalizable, Valid
  <1>2. ASSUME \/ \E k \in Key : TrustPolicyKey(k)
               \/ \E b \in Budget : RegisterEpochBudget(b)
               \/ Tick,
               UNCHANGED <<callVars, ledgerVars, aborts>>
        PROVE  CallInv'
    BY <1>1, <1>2
    DEF TrustPolicyKey, RegisterEpochBudget, Tick, callVars, ledgerVars, probeVars
  <1>3. ASSUME NEW e \in Experiment,
               \/ \E b \in Budget : RunUnattended(b, e)
               \/ CommitFunding(e) \/ DecideAdmission(e)
               \/ SealTestDigest(e) \/ ReleaseTestDigest(e)
               \/ RunByHand(e)
               \/ CompleteRun(e) \/ RecordEvidence(e)
        PROVE  CallInv'
    BY <1>1, <1>3
    DEF RunUnattended, RunByHand, Start, CommitFunding, DecideAdmission, SealTestDigest,
        ReleaseTestDigest, CompleteRun, RecordEvidence, vars, callVars, probeVars
  <1>4. ASSUME step' \in {"idle", "pick"} PROVE CallInv'
    BY <1>4 DEF CallInv
  <1>5. ASSUME NEW b \in Budget,
               \/ \E batch \in SUBSET Promoted : AllocateEpoch(b, batch)
               \/ \E r \in Replication : AllocateReplication(b, r)
        PROVE  CallInv'
    BY <1>4, <1>5 DEF AllocateEpoch, AllocateReplication, NextCandidate
  <1>6. ASSUME NEW b \in Budget, NEW r \in Probe, RunSandbox(b, r) PROVE CallInv'
    BY <1>6 DEF RunSandbox, Recorded, CallInv
  <1>7. CASE CallStep
    <2>1. ASSUME NEW r \in Promoted \cup Replication, FundCandidate(r) PROVE CallInv'
      <3>1. SubjectOf[r] \in Experiment
        BY SubjectTyped
      <3>2. Commitment(call, r) \in funding'[SubjectOf[r]]
        BY <2>1, <3>1 DEF FundCandidate, AllocatorTypeOK
      <3> QED
        BY <2>1, <3>2 DEF FundCandidate, CallInv, Commitment, vars
    <2>2. CASE EnsureAdmitted
      BY <2>2 DEF EnsureAdmitted, Admitted, CallInv, Commitment, vars
    <2>3. CASE ChargeProbe
      <3>1. call' = call /\ at \in allocated'[call]
        BY <2>3, PolicyAssumption
        DEF ChargeProbe, Charge, ReserveAllocation, vars, AllocatorTypeOK, TypeOK
      <3>2. UNCHANGED probed
        BY <2>3 DEF ChargeProbe, Charge, ledgerVars, probeVars
      <3> QED
        BY <2>3, <3>1, <3>2 DEF ChargeProbe, CallInv
    <2>4. ASSUME NEW result \in Result, ExecuteProbe(result) PROVE CallInv'
      <3>1. [budget |-> call, result |-> result] \in ProbeRun
        BY <2>4, PolicyAssumption DEF ExecuteProbe, ProbeRun, AllocatorTypeOK, TypeOK
      <3>2. SubjectOf[at] \in Sandbox
        BY <2>4, SubjectTyped DEF ExecuteProbe, AllocatorTypeOK
      <3> QED
        BY <2>4, <3>1, <3>2, SubjectAssumption DEF ExecuteProbe, CallInv, AllocatorTypeOK
    <2>5. CASE RecordProbe
      BY <2>5, SubjectTyped
      DEF RecordProbe, CallInv, Finalizable, Valid, AllocatorTypeOK, vars, probeVars
    <2>6. CASE \/ \E r \in Promoted \cup Replication : NoCapacity(r) \/ FundingRefused(r)
               \/ AdmissionRejected \/ ReserveCandidate \/ ReturnReport
               \/ ProbeRefused \/ ProbeNotRecorded \/ EvaluatePromotion
      BY <1>4, <2>6
      DEF NoCapacity, FundingRefused, AdmissionRejected, ReserveCandidate, ReturnReport,
          ProbeRefused, ProbeNotRecorded, EvaluatePromotion, Return, NextCandidate
    <2> QED
      BY <1>7, <2>1, <2>2, <2>3, <2>4, <2>5, <2>6 DEF CallStep
  <1>8. CASE AbortCall
    BY <1>4, <1>8 DEF AbortCall, Return
  <1>9. CASE UNCHANGED allocatorVars
    BY <1>1, <1>9 DEF allocatorVars, vars, callVars, ledgerVars, probeVars
  <1> QED
    BY <1>2, <1>3, <1>5, <1>6, <1>7, <1>8, <1>9 DEF AllocatorNext

-----------------------------------------------------------------------------
(* Only ReserveCandidate and ChargeProbe charge a budget, and they charge  *)
(* the budget of the running call.                                         *)
LEMMA ChargeCase ==
    ASSUME AllocatorTypeOK, [AllocatorNext]_allocatorVars,
           NEW b \in Budget, NEW r \in allocated'[b], r \notin allocated[b]
    PROVE  /\ b = call /\ r = at
           /\ \/ step = "reserve" /\ r \notin Probe
              \/ step = "charge" /\ r \in Probe
  <1>1. CASE ReserveCandidate
    <2>1. at \notin Probe
      BY <1>1 DEF ReserveCandidate, AllocatorTypeOK, Promoted, Replication, Probe
    <2>2. Charge(at)
      BY <1>1 DEF ReserveCandidate, vars
    <2>3. allocated' = [allocated EXCEPT ![call] = @ \cup {at}]
      BY <2>2 DEF Charge, ReserveAllocation
    <2>4. b = call /\ r = at
      BY <2>3 DEF AllocatorTypeOK, TypeOK
    <2> QED
      BY <1>1, <2>1, <2>4 DEF ReserveCandidate
  <1>2. CASE ChargeProbe
    BY <1>2, PolicyAssumption
    DEF ChargeProbe, Charge, ReserveAllocation, vars, AllocatorTypeOK, TypeOK
  <1>3. UNCHANGED allocated \/ ReserveCandidate \/ ChargeProbe
    BY DEF AllocatorNext, TrustPolicyKey, RegisterEpochBudget, Tick, AllocateEpoch,
           AllocateReplication, RunSandbox, BeginCall, RunUnattended, Start, CallStep, NoCapacity,
           FundCandidate, FundingRefused, EnsureAdmitted, AdmissionRejected, ReturnReport,
           ProbeRefused, ExecuteProbe, RecordProbe, ProbeNotRecorded, EvaluatePromotion, AbortCall,
           Return, EndCall, CommitFunding, DecideAdmission, SealTestDigest, ReleaseTestDigest,
           RunByHand, CompleteRun, RecordEvidence, allocatorVars, vars
  <1> QED
    BY <1>1, <1>2, <1>3

LEMMA ChargesStep ==
    ASSUME AllocatorTypeOK, CallInv, ChargedIsAdmitted, [AllocatorNext]_allocatorVars
    PROVE  ChargedIsAdmitted'
  <1> SUFFICES ASSUME NEW b \in Budget, NEW r \in allocated'[b] \ Probe
               PROVE  SubjectOf[r] \in accepted' /\ Commitment(b, r) \in funding'[SubjectOf[r]]
    BY DEF ChargedIsAdmitted, Commitment
  <1>1. TypeOK'
    BY AllocatorTypeStep DEF AllocatorTypeOK
  <1>2. r \in Promoted \cup Replication
    BY <1>1, PolicyAssumption DEF TypeOK, Promoted, Replication, Probe, RequestType, Lane
  <1>3. SubjectOf[r] \in accepted /\ Commitment(b, r) \in funding[SubjectOf[r]]
    BY ChargeCase DEF ChargedIsAdmitted, CallInv
  <1> QED
    BY <1>2, <1>3, SubjectTyped, LedgerGrows

(* A probe is recorded by the call that has charged it, and the record     *)
(* names the budget of that call.                                          *)
LEMMA ProbesStep ==
    ASSUME AllocatorTypeOK, CallInv, ProbesCharged, [AllocatorNext]_allocatorVars
    PROVE  ProbesCharged'
  <1> SUFFICES ASSUME NEW s \in Sandbox, probed'[s] # None
               PROVE  \E r \in Probe : SubjectOf[r] = s /\ r \in allocated'[probed'[s].budget]
    BY DEF ProbesCharged
  <1>1. CASE probed[s] # None
    <2>1. probed'[s] = probed[s] /\ probed[s].budget \in Budget
      BY <1>1, LedgerGrows DEF AllocatorTypeOK, ProbeRun
    <2>2. PICK r \in Probe : SubjectOf[r] = s /\ r \in allocated[probed[s].budget]
      BY <1>1 DEF ProbesCharged
    <2> QED
      BY <2>1, <2>2, LedgerGrows
  <1>2. CASE probed[s] = None
    <2>1. PICK result \in Result : ExecuteProbe(result)
      BY <1>2
      DEF AllocatorNext, AllocateEpoch, AllocateReplication, RunSandbox, RunUnattended, Start,
          CallStep, NoCapacity, FundCandidate, FundingRefused, EnsureAdmitted, AdmissionRejected,
          ReserveCandidate, Charge, ReturnReport, ChargeProbe, ProbeRefused, RecordProbe,
          ProbeNotRecorded, EvaluatePromotion, AbortCall, CommitFunding, DecideAdmission,
          SealTestDigest, ReleaseTestDigest, RunByHand, CompleteRun, RecordEvidence,
          allocatorVars, ledgerVars, probeVars
    <2>2. s = SubjectOf[at] /\ probed'[s].budget = call /\ at \in Probe /\ call \in Budget
      BY <1>2, <2>1, PolicyAssumption DEF ExecuteProbe, AllocatorTypeOK, TypeOK
    <2>3. at \in allocated[call]
      BY <2>1 DEF ExecuteProbe, CallInv
    <2> QED
      BY <2>2, <2>3, LedgerGrows
  <1> QED
    BY <1>1, <1>2

(* An unattended start finds no start before it, of either lane and under  *)
(* any budget.                                                             *)
LEMMA StartsStep ==
    ASSUME AllocatorTypeOK, CallInv, StartsCounted, UnattendedIsPaid,
           [AllocatorNext]_allocatorVars
    PROVE  StartsCounted' /\ UnattendedIsPaid'
  <1>1. \A b \in Budget, e \in Experiment : Charged(b, e) => Charged(b, e)'
    BY LedgerGrows DEF Charged
  <1>2. \A e \in Experiment : starts[e] \in Nat /\ starts'[e] \in Nat /\ starts[e] <= starts'[e]
    BY AllocatorTypeStep, LedgerGrows, SubjectAssumption DEF AllocatorTypeOK
  <1>3. ASSUME NEW b \in Budget, NEW e \in Experiment, RunUnattended(b, e)
        PROVE  StartsCounted' /\ UnattendedIsPaid'
    <2>1. starts[e] = 0 /\ starts'[e] = 1 /\ Charged(b, e)
      BY <1>3 DEF RunUnattended, Authorized, NeverStarted, Start, AllocatorTypeOK
    <2>2. \A c \in Budget : unattended[c][e] = 0
      BY <2>1 DEF StartsCounted, AllocatorTypeOK
    <2>3. \A c \in Budget, d \in Experiment :
            unattended'[c][d] = IF c = b /\ d = e THEN 1 ELSE unattended[c][d]
      BY <1>3, <2>2 DEF RunUnattended, AllocatorTypeOK
    <2>4. StartsCounted'
      BY <1>2, <2>1, <2>3 DEF StartsCounted
    <2>5. UnattendedIsPaid'
      BY <1>1, <2>1, <2>2, <2>3 DEF UnattendedIsPaid
    <2> QED
      BY <2>4, <2>5
  <1>4. ASSUME UNCHANGED unattended PROVE StartsCounted' /\ UnattendedIsPaid'
    BY <1>1, <1>2, <1>4 DEF StartsCounted, UnattendedIsPaid
  <1>5. UNCHANGED unattended \/ \E b \in Budget, e \in Experiment : RunUnattended(b, e)
    BY DEF AllocatorNext, AllocateEpoch, AllocateReplication, RunSandbox, CallStep, NoCapacity,
           FundCandidate, FundingRefused, EnsureAdmitted, AdmissionRejected, ReserveCandidate,
           Charge, ReturnReport, ChargeProbe, ProbeRefused, ExecuteProbe, RecordProbe,
           ProbeNotRecorded, EvaluatePromotion, AbortCall, CommitFunding, DecideAdmission,
           SealTestDigest, ReleaseTestDigest, RunByHand, CompleteRun, RecordEvidence,
           allocatorVars, ledgerVars, runVars
  <1> QED
    BY <1>3, <1>4, <1>5

LEMMA PromotionStep ==
    ASSUME AllocatorTypeOK, CallInv, ProbesCharged, PromotionGrounded,
           [AllocatorNext]_allocatorVars
    PROVE  PromotionGrounded'
  <1> SUFFICES ASSUME NEW s \in Sandbox, promotion'[s] # None
               PROVE  /\ evidence'[s] = "sandbox"
                      /\ probed'[s] # None
                      /\ probed'[s].budget = promotion'[s].budget
                      /\ promotion'[s].eligible => probed'[s].result = "beats"
                      /\ \E r \in Probe :
                           SubjectOf[r] = s /\ r \in allocated'[promotion'[s].budget]
    BY DEF PromotionGrounded
  <1>1. s \in Id /\ "sandbox" # None
    BY SubjectAssumption DEF Id
  <1>2. CASE promotion'[s] = promotion[s]
    <2>1. evidence[s] = "sandbox" /\ probed[s] # None /\ promotion[s].budget \in Budget
      BY <1>2 DEF PromotionGrounded, AllocatorTypeOK
    <2>2. evidence'[s] = "sandbox" /\ probed'[s] = probed[s]
      BY <1>1, <2>1, LedgerGrows
    <2>3. PICK r \in Probe : SubjectOf[r] = s /\ r \in allocated[promotion[s].budget]
      BY <1>2 DEF PromotionGrounded
    <2> QED
      BY <1>2, <2>1, <2>2, <2>3, LedgerGrows DEF PromotionGrounded
  <1>3. CASE promotion'[s] # promotion[s]
    <2>1. EvaluatePromotion
      BY <1>3
      DEF AllocatorNext, AllocateEpoch, AllocateReplication, RunSandbox, RunUnattended, Start,
          CallStep, NoCapacity, FundCandidate, FundingRefused, EnsureAdmitted, AdmissionRejected,
          ReserveCandidate, Charge, ReturnReport, ChargeProbe, ProbeRefused, ExecuteProbe,
          RecordProbe, ProbeNotRecorded, AbortCall, CommitFunding, DecideAdmission,
          SealTestDigest, ReleaseTestDigest, RunByHand, CompleteRun, RecordEvidence,
          allocatorVars, ledgerVars, probeVars
    <2> DEFINE eligible == probed[s].result = "beats"
    <2>2. /\ s = SubjectOf[at]
          /\ promotion'[s] = [budget |-> call, eligible |-> eligible]
      BY <1>3, <2>1 DEF EvaluatePromotion, AllocatorTypeOK
    <2>3. eligible \in BOOLEAN
      OBVIOUS
    <2>4. /\ probed[s] # None /\ probed[s].budget = call /\ evidence[s] = "sandbox"
          /\ call \in Budget
      BY <2>1, <2>2, PolicyAssumption
      DEF EvaluatePromotion, CallInv, Finalizable, AllocatorTypeOK, TypeOK
    <2>5. PICK r \in Probe : SubjectOf[r] = s /\ r \in allocated[probed[s].budget]
      BY <2>4 DEF ProbesCharged
    <2>6. evidence'[s] = "sandbox" /\ probed'[s] = probed[s] /\ r \in allocated'[call]
      BY <1>1, <2>4, <2>5, LedgerGrows
    <2> HIDE DEF eligible
    <2>7. promotion'[s].budget = call
      BY <2>2
    <2>8. promotion'[s].eligible = eligible
      BY <2>2, <2>3
    <2> QED
      BY <2>3, <2>4, <2>5, <2>6, <2>7, <2>8 DEF eligible
  <1> QED
    BY <1>2, <1>3

-----------------------------------------------------------------------------
LEMMA LaneInitInv == AllocatorInit => LaneInv
  <1> SUFFICES ASSUME AllocatorInit PROVE LaneInv
    OBVIOUS
  <1>1. TypeOK
    BY InitInv DEF AllocatorInit
  <1>2. AllocatorTypeOK
    BY <1>1, SubjectAssumption DEF AllocatorInit, AllocatorTypeOK, Init, Step
  <1>3. CallInv /\ ProbesCharged /\ StartsCounted
    BY DEF AllocatorInit, CallInv, ProbesCharged, StartsCounted
  <1>4. ChargedIsAdmitted /\ UnattendedIsPaid /\ PromotionGrounded
    BY DEF AllocatorInit, Init, ChargedIsAdmitted, UnattendedIsPaid, PromotionGrounded
  <1> QED
    BY <1>2, <1>3, <1>4 DEF LaneInv

LEMMA LaneInvariant == AllocatorSpec => []LaneInv
  <1>1. LaneInv /\ [AllocatorNext]_allocatorVars => LaneInv'
    BY AllocatorTypeStep, CallStepInv, ProbesStep, StartsStep, ChargesStep, PromotionStep
    DEF LaneInv
  <1> QED
    BY <1>1, LaneInitInv, PTL DEF AllocatorSpec

(* Calls, candidates and every record of the three lanes keep their types. *)
THEOREM AllocatorTypeCorrect == AllocatorSpec => []AllocatorTypeOK
  BY LaneInvariant, PTL DEF LaneInv

(* Only accepted work that its own allocator funded is charged, whatever   *)
(* dies or is decided by hand between funding, admission and reservation.  *)
THEOREM ChargedCorrect == AllocatorSpec => []ChargedIsAdmitted
  BY LaneInvariant, PTL DEF LaneInv

(* A budget pays for every unattended execution, and no two budgets or     *)
(* lanes authorize one experiment twice.                                   *)
THEOREM UnattendedCorrect == AllocatorSpec => []UnattendedIsPaid
  BY LaneInvariant, PTL DEF LaneInv

(* Charges rest on admitted and funded work, unattended starts on charges. *)
THEOREM ChargesCorrect == AllocatorSpec => []ChargesSound
  BY ChargedCorrect, UnattendedCorrect, PTL DEF ChargesSound

(* A promotion rests on the evidence of a charged probe of its own budget. *)
THEOREM PromotionCorrect == AllocatorSpec => []PromotionGrounded
  BY LaneInvariant, PTL DEF LaneInv

(* Probes, promotions and evidence are filed once.                         *)
THEOREM FiledOnceCorrect == AllocatorSpec => FiledOnce
  <1>1. LaneInv /\ [AllocatorNext]_allocatorVars
          => [/\ \A s \in Sandbox : /\ probed[s] # None => probed'[s] = probed[s]
                                    /\ promotion[s] # None => promotion'[s] = promotion[s]
              /\ \A i \in Id : evidence[i] # None => evidence'[i] = evidence[i]]_allocatorVars
    <2> SUFFICES ASSUME LaneInv, AllocatorNext
                 PROVE  \A s \in Sandbox : promotion[s] # None => promotion'[s] = promotion[s]
      BY LedgerGrows DEF LaneInv
    <2>1. UNCHANGED promotion \/ EvaluatePromotion
      BY DEF AllocatorNext, AllocateEpoch, AllocateReplication, RunSandbox, RunUnattended, Start,
             CallStep, NoCapacity, FundCandidate, FundingRefused, EnsureAdmitted,
             AdmissionRejected, ReserveCandidate, Charge, ReturnReport, ChargeProbe, ProbeRefused,
             ExecuteProbe, RecordProbe, ProbeNotRecorded, AbortCall, CommitFunding,
             DecideAdmission, SealTestDigest, ReleaseTestDigest, RunByHand, CompleteRun,
             RecordEvidence, allocatorVars, ledgerVars, probeVars
    <2> QED
      BY <2>1 DEF EvaluatePromotion, LaneInv, AllocatorTypeOK
  <1> QED
    BY <1>1, LaneInvariant, PTL DEF AllocatorSpec, FiledOnce

(* Every behaviour of the allocator is one of the epoch budgets: the       *)
(* guarantees of the lanes, of the reserves and of supersession hold for   *)
(* calls that die, are retried and are refused half-way.                   *)
THEOREM AllocatorRefinesBudget == AllocatorSpec => Spec
  <1>1. AllocatorInit => Init
    BY DEF AllocatorInit
  <1>2. AllocatorTypeOK /\ [AllocatorNext]_allocatorVars => [Next]_vars
    BY BudgetStep
  <1> QED
    BY <1>1, <1>2, AllocatorTypeCorrect, PTL DEF AllocatorSpec, Spec

(* No lane is overrun and no probe is starved by the allocator.            *)
THEOREM AllocatorKeepsLanes == AllocatorSpec => [](LanesBounded /\ ReservesKept)
  BY AllocatorRefinesBudget, LanesCorrect, ReservesCorrect, PTL
=============================================================================
