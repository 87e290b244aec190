----------------------------- MODULE EpochBudget -----------------------------
(***************************************************************************)
(* The signed epoch budgets of ilXyr and the credits allocated from them   *)
(* (crates/ilxyr-core/src/autonomy.rs, validation.rs).  A budget is        *)
(* registered when a trusted key signed it and its epoch follows every     *)
(* registered one; it is active inside its lifetime until a successor      *)
(* starts.  Allocations are drawn from three lanes, replication, sandbox   *)
(* probes and promoted work, each with a ceiling.                          *)
(*                                                                         *)
(* The code sums the allocation records of a budget again on every check;  *)
(* here the sums are running totals, added to where a record is added and  *)
(* nowhere else.  allocate_epoch, allocate_replication and run_sandbox   *)
(* find the budget active once and may reserve later: a call is therefore  *)
(* an interval, during which the clock runs on.                            *)
(***************************************************************************)
EXTENDS Integers, FiniteSets

CONSTANTS
    Budget,       \* budget ids
    Key,          \* policy key ids
    Executable,   \* programs that budgets cap
    Request,      \* experiments and sandboxes that ask for credits
    None,         \* no call is running
    PolicyOf,     \* the signed content of each budget
    RequestOf,    \* the frozen cost, program and lane of each request
    MaxTime       \* bound: the last instant of the clock

Lane == {"promoted", "sandbox", "replication"}

Whole == 10000    \* basis points

PolicyType ==
    [epoch: Nat \ {0}, key: Key, authentic: BOOLEAN, from: Nat \ {0}, until: Nat,
     total: Nat \ {0}, replication: 0..Whole, probe: 0..Whole, threshold: 0..Whole,
     perRun: [Executable -> Nat \ {0}], perEpoch: [Executable -> Nat \ {0}]]

RequestType == [lane: Lane, executable: Executable, credits: Nat \ {0}]

ASSUME PolicyAssumption ==
    /\ PolicyOf \in [Budget -> PolicyType]
    /\ RequestOf \in [Request -> RequestType]
    /\ None \notin Budget
    /\ MaxTime \in Nat

VARIABLES
    trusted,      \* PolicyKeyTrusted
    registered,   \* EpochBudgetRegistered
    now,          \* the clock of the machine
    call,         \* the budget that the running allocation call found active
    allocated,    \* AllocationCommitted, per budget: the requests
    laneSpent,    \* credits allocated, per budget and lane
    exeSpent      \* credits allocated, per budget and executable

vars == <<trusted, registered, now, call, allocated, laneSpent, exeSpent>>

-----------------------------------------------------------------------------
(* reserve_credits rounds a share of the total up to whole credits.        *)
Reserve(total, share) == (total * share + (Whole - 1)) \div Whole

ReplicationReserve(b) == Reserve(PolicyOf[b].total, PolicyOf[b].replication)
ProbeReserve(b)       == Reserve(PolicyOf[b].total, PolicyOf[b].probe)

\* validation::epoch_budget, without and with the check of the rounded reserves.
SharesFit(b) ==
    /\ PolicyOf[b].from < PolicyOf[b].until
    /\ PolicyOf[b].replication + PolicyOf[b].probe <= Whole
    /\ \A x \in Executable : PolicyOf[b].perRun[x] <= PolicyOf[b].perEpoch[x]

WellFormed(b) ==
    /\ SharesFit(b)
    /\ ReplicationReserve(b) + ProbeReserve(b) <= PolicyOf[b].total

\* What promoted work may draw.
GeneralLimit(b) == PolicyOf[b].total - (ReplicationReserve(b) + ProbeReserve(b))

\* Sandbox work shares the general pool when no probe reserve is declared.
PooledLanes(b) == IF ProbeReserve(b) = 0 THEN {"promoted", "sandbox"} ELSE {"promoted"}

GeneralSpent(b) ==
    laneSpent[b]["promoted"] + (IF ProbeReserve(b) = 0 THEN laneSpent[b]["sandbox"] ELSE 0)

TotalSpent(b) ==
    laneSpent[b]["promoted"] + laneSpent[b]["sandbox"] + laneSpent[b]["replication"]

-----------------------------------------------------------------------------
(* A budget is active in its lifetime and until a registered budget of a   *)
(* later epoch has started, even one that has expired since.               *)
Superseded(b) ==
    \E s \in registered : PolicyOf[s].epoch > PolicyOf[b].epoch /\ PolicyOf[s].from <= now

InLifetime(b) == PolicyOf[b].from <= now /\ now < PolicyOf[b].until

Active(b) == b \in registered /\ InLifetime(b) /\ ~Superseded(b)

\* The order of epochs: anything unregistered, or only what follows all of them.
Unregistered(b) == b \notin registered
Follows(b) == /\ Unregistered(b)
              /\ \A r \in registered : PolicyOf[b].epoch > PolicyOf[r].epoch

-----------------------------------------------------------------------------
(* check_capacity, for a request r that is to be charged to b.             *)
RunCapAllows(b, r) == RequestOf[r].credits <= PolicyOf[b].perRun[RequestOf[r].executable]

CapsAllow(b, r) ==
    LET x == RequestOf[r].executable
    IN  /\ RunCapAllows(b, r)
        /\ exeSpent[b][x] + RequestOf[r].credits <= PolicyOf[b].perEpoch[x]

LaneAllows(b, r) ==
    LET c == RequestOf[r].credits
    IN  \/ /\ RequestOf[r].lane = "replication"
           /\ laneSpent[b]["replication"] + c <= ReplicationReserve(b)
        \/ /\ RequestOf[r].lane = "sandbox"
           /\ ProbeReserve(b) > 0
           /\ laneSpent[b]["sandbox"] + c <= ProbeReserve(b)
        \/ /\ RequestOf[r].lane \in PooledLanes(b)
           /\ GeneralSpent(b) + c <= GeneralLimit(b)

HasCapacity(b, r) ==
    /\ CapsAllow(b, r)
    /\ TotalSpent(b) + RequestOf[r].credits <= PolicyOf[b].total
    /\ LaneAllows(b, r)

\* percentage_threshold_crossed: reaching the line already crosses it.
Crosses(b, spent) == spent * Whole >= PolicyOf[b].total * PolicyOf[b].threshold

\* check_sandbox_authorization: a probe may not be the one that crosses the line.
ProbeAuthorized(b, r) ==
    RequestOf[r].lane = "sandbox" => ~Crosses(b, TotalSpent(b) + RequestOf[r].credits)

\* A retry finds its own record and reserves nothing.
Unallocated(b, r) == r \notin allocated[b]

-----------------------------------------------------------------------------
Init ==
    /\ trusted = {}
    /\ registered = {}
    /\ now = 0
    /\ call = None
    /\ allocated = [b \in Budget |-> {}]
    /\ laneSpent = [b \in Budget |-> [l \in Lane |-> 0]]
    /\ exeSpent = [b \in Budget |-> [x \in Executable |-> 0]]

TrustPolicyKey(k) ==
    /\ call = None
    /\ k \notin trusted
    /\ trusted' = trusted \cup {k}
    /\ UNCHANGED <<registered, now, call, allocated, laneSpent, exeSpent>>

RegisterEpochBudget(b) ==
    /\ call = None
    /\ WellFormed(b)
    /\ PolicyOf[b].key \in trusted
    /\ PolicyOf[b].authentic
    /\ Follows(b)
    /\ registered' = registered \cup {b}
    /\ UNCHANGED <<trusted, now, call, allocated, laneSpent, exeSpent>>

Tick ==
    /\ now < MaxTime
    /\ now' = now + 1
    /\ UNCHANGED <<trusted, registered, call, allocated, laneSpent, exeSpent>>

\* active_epoch_budget_at, at the head of every allocation call.
BeginCall(b) ==
    /\ call = None
    /\ Active(b)
    /\ call' = b
    /\ UNCHANGED <<trusted, registered, now, allocated, laneSpent, exeSpent>>

ReserveAllocation(r) ==
    LET x == RequestOf[r].executable
        l == RequestOf[r].lane
        c == RequestOf[r].credits
    IN  /\ call # None
        /\ Unallocated(call, r)
        /\ HasCapacity(call, r)
        /\ ProbeAuthorized(call, r)
        /\ allocated' = [allocated EXCEPT ![call] = @ \cup {r}]
        /\ laneSpent' = [laneSpent EXCEPT ![call][l] = @ + c]
        /\ exeSpent' = [exeSpent EXCEPT ![call][x] = @ + c]
        /\ UNCHANGED <<trusted, registered, now, call>>

\* The call returns, is refused, or dies; what it reserved stays reserved.
EndCall ==
    /\ call # None
    /\ call' = None
    /\ UNCHANGED <<trusted, registered, now, allocated, laneSpent, exeSpent>>

Next ==
    \/ \E k \in Key : TrustPolicyKey(k)
    \/ \E b \in Budget : RegisterEpochBudget(b)
    \/ Tick
    \/ \E b \in Budget : BeginCall(b)
    \/ \E r \in Request : ReserveAllocation(r)
    \/ EndCall

Spec == Init /\ [][Next]_vars

-----------------------------------------------------------------------------
TypeOK ==
    /\ trusted \subseteq Key
    /\ registered \subseteq Budget
    /\ now \in 0..MaxTime
    /\ call \in registered \cup {None}
    /\ allocated \in [Budget -> SUBSET Request]
    /\ laneSpent \in [Budget -> [Lane -> Nat]]
    /\ exeSpent \in [Budget -> [Executable -> Nat]]

(* No lane ever overruns its share, rounding included, and no executable   *)
(* its cap, whatever the order in which the lanes draw on the budget.      *)
LanesBounded ==
    \A b \in Budget :
        /\ laneSpent[b]["replication"] <= ReplicationReserve(b)
        /\ ProbeReserve(b) > 0 => laneSpent[b]["sandbox"] <= ProbeReserve(b)
        /\ b \in registered => GeneralSpent(b) <= GeneralLimit(b)
        /\ \A x \in Executable : exeSpent[b][x] <= PolicyOf[b].perEpoch[x]

(* What a reserve has not spent is still there: the credits of the budget  *)
(* cover every lane's spending and both unspent reserves at once, so the   *)
(* total of the epoch never refuses what a reserve would admit.            *)
ReservesKept ==
    \A b \in registered :
        LET replicationLeft == ReplicationReserve(b) - laneSpent[b]["replication"]
            probeLeft == IF ProbeReserve(b) = 0 THEN 0
                         ELSE ProbeReserve(b) - laneSpent[b]["sandbox"]
        IN  TotalSpent(b) + replicationLeft + probeLeft <= PolicyOf[b].total

(* No lane overruns its share, and none can take what another has left.    *)
SharesKept == LanesBounded /\ ReservesKept

(* At every instant at most one budget can be drawn on, in whatever order  *)
(* budgets with overlapping lifetimes were registered.                     *)
OneActiveBudget == \A a, b \in Budget : Active(a) /\ Active(b) => a = b

(* A superseded budget gains no allocation again, although it may still be *)
(* inside its lifetime and its successor may have expired; only the call   *)
(* that found it active may finish.                                        *)
SupersededFrozen ==
    [][\A b \in registered : Superseded(b) /\ call # b =>
         allocated'[b] = allocated[b] /\ call' # b]_vars
=============================================================================
