------------------------- MODULE ContingentBranches -------------------------
(***************************************************************************)
(* Contingent preregistration (crates/ilxyr-core/src/lifecycle.rs): a plan *)
(* of branches is registered for a parent experiment, and activate_branches*)
(* evaluates each branch once against the facts of the ledger, appending   *)
(* one event per evaluation.  The call may die between two appends and be  *)
(* made again.  Facts are what ConditionFacts::from_workspace reads: the   *)
(* latest evidence of every experiment, whatever its lane.                 *)
(***************************************************************************)
EXTENDS Conditions

CONSTANTS
    Value,          \* metric values
    Branch,         \* branch ids
    Plan,           \* branch plans
    PlanOf,         \* their frozen content: parent and branches, in order
    MaxEvidence     \* bound: evidence records on the ledger

ASSUME PlanAssumption ==
    /\ Value \subseteq Int
    /\ None \notin Experiment \cup Value \cup Plan
    /\ \A p \in Plan :
         /\ PlanOf[p].parent \in Experiment
         /\ PlanOf[p].branches \in Seq([id: Branch, condition: Seq(NodeType)])
         /\ \A i \in DOMAIN PlanOf[p].branches : IsTree(PlanOf[p].branches[i].condition)
         /\ \A i, j \in DOMAIN PlanOf[p].branches :
              PlanOf[p].branches[i].id = PlanOf[p].branches[j].id => i = j

VARIABLES
    measured,     \* EvidenceRecorded, in ledger order
    plan,         \* the latest BranchPlanRegistered, per parent
    records,      \* BranchActivated, per parent, in ledger order
    call,         \* the running activate_branches, or None
    reported      \* what the last call for a parent returned, per branch

branchVars == <<measured, plan, records, call, reported>>

Lane == {"promoted", "sandbox"}
Verdict == {"none", "activated", "dormant"}

\* ConditionFacts: later evidence wins.
FactOf(e) ==
    LET about == {i \in DOMAIN measured : measured[i].experiment = e}
    IN  IF about = {} THEN None ELSE measured[CHOOSE i \in about : \A j \in about : j <= i].value

Facts == [e \in Experiment |-> FactOf(e)]

\* The branch ids an earlier call has written a record for, activated or not.
Evaluated(parent) == {records[parent][i].branch : i \in DOMAIN records[parent]}

BranchesOf(p) == PlanOf[p].branches

\* Every evaluation is appended, not only the activations.
Logged(log, record) == Append(log, record)

-----------------------------------------------------------------------------
BranchInit ==
    /\ measured = <<>>
    /\ plan = [e \in Experiment |-> None]
    /\ records = [e \in Experiment |-> <<>>]
    /\ call = None
    /\ reported = [e \in Experiment |-> [b \in Branch |-> "none"]]

\* Promoted evidence is recorded once per experiment; probes of it may be many.
RecordMetric(e, lane, value) ==
    /\ Len(measured) < MaxEvidence
    /\ lane = "promoted" =>
         \A i \in DOMAIN measured : measured[i].experiment = e => measured[i].lane = "sandbox"
    /\ measured' = Append(measured, [experiment |-> e, lane |-> lane, value |-> value])
    /\ UNCHANGED <<plan, records, call, reported>>

RegisterBranchPlan(p) ==
    /\ \A i \in DOMAIN BranchesOf(p) : Valid(BranchesOf(p)[i].condition)
    /\ plan[PlanOf[p].parent] # p
    /\ plan' = [plan EXCEPT ![PlanOf[p].parent] = p]
    /\ UNCHANGED <<measured, records, call, reported>>

\* The plan, the earlier records and the facts are read once, at the start.
BeginActivation(parent) ==
    /\ call = None
    /\ plan[parent] # None
    /\ call' = [parent |-> parent, plan |-> plan[parent], known |-> Evaluated(parent),
                facts |-> Facts, next |-> 1, outcomes |-> [b \in Branch |-> "none"]]
    /\ UNCHANGED <<measured, plan, records, reported>>

NextBranch == BranchesOf(call.plan)[call.next]

\* A branch an earlier call has evaluated is reported as activated, and not looked at.
Replayed(outcomes, b) == [outcomes EXCEPT ![b] = "activated"]

SkipBranch ==
    /\ call # None
    /\ call.next <= Len(BranchesOf(call.plan))
    /\ NextBranch.id \in call.known
    /\ call' = [call EXCEPT !.outcomes = Replayed(@, NextBranch.id), !.next = @ + 1]
    /\ UNCHANGED <<measured, plan, records, reported>>

EvaluateBranch ==
    /\ call # None
    /\ call.next <= Len(BranchesOf(call.plan))
    /\ NextBranch.id \notin call.known
    /\ LET activated == Evaluate(NextBranch.condition, call.facts) = "satisfied"
       IN  /\ records' = [records EXCEPT ![call.parent] =
                            Logged(@, [plan |-> call.plan, branch |-> NextBranch.id,
                                       activated |-> activated])]
           /\ call' = [call EXCEPT
                         !.outcomes[NextBranch.id] = IF activated THEN "activated" ELSE "dormant",
                         !.next = @ + 1]
    /\ UNCHANGED <<measured, plan, reported>>

ReturnOutcomes ==
    /\ call # None
    /\ call.next > Len(BranchesOf(call.plan))
    /\ reported' = [reported EXCEPT ![call.parent] = call.outcomes]
    /\ call' = None
    /\ UNCHANGED <<measured, plan, records>>

\* The process dies; what it has appended stays.
AbortActivation ==
    /\ call # None
    /\ call' = None
    /\ UNCHANGED <<measured, plan, records, reported>>

BranchNext ==
    \/ \E e \in Experiment, lane \in Lane, value \in Value : RecordMetric(e, lane, value)
    \/ \E p \in Plan : RegisterBranchPlan(p)
    \/ \E e \in Experiment : BeginActivation(e)
    \/ SkipBranch
    \/ EvaluateBranch
    \/ ReturnOutcomes
    \/ AbortActivation

BranchSpec == BranchInit /\ [][BranchNext]_branchVars

-----------------------------------------------------------------------------
RecordType == [plan: Plan, branch: Branch, activated: BOOLEAN]

BranchTypeOK ==
    /\ \A i \in DOMAIN measured :
         measured[i] \in [experiment: Experiment, lane: Lane, value: Value]
    /\ plan \in [Experiment -> Plan \cup {None}]
    /\ \A e \in Experiment : \A i \in DOMAIN records[e] : records[e][i] \in RecordType
    /\ reported \in [Experiment -> [Branch -> Verdict]]
    /\ call # None =>
         /\ call.next \in 1..(Len(BranchesOf(call.plan)) + 1)
         /\ call.known \subseteq Evaluated(call.parent)
         /\ \A i \in 1..(call.next - 1) :
              call.outcomes[BranchesOf(call.plan)[i].id] \in Verdict \ {"none"}

(* "Idempotent": however often the activation is cut off and repeated, and *)
(* even when a later plan reuses a branch id, one id is evaluated once.    *)
EvaluatedOnce ==
    \A e \in Experiment : \A i, j \in DOMAIN records[e] :
        records[e][i].branch = records[e][j].branch => i = j

(* "Fails closed": a branch is activated only on evidence of an experiment *)
(* its condition reads, never on the absence of evidence, negated or not;  *)
(* but for the empty composites below a negation that validate lets pass.  *)
ActivationHasEvidence ==
    \A e \in Experiment : \A i \in DOMAIN records[e] :
        records[e][i].activated =>
            \E k \in DOMAIN BranchesOf(records[e][i].plan) :
                LET branch == BranchesOf(records[e][i].plan)[k]
                IN  /\ branch.id = records[e][i].branch
                    /\ \/ \E x \in Reads(branch.condition) : FactOf(x) # None
                       \/ RestsOnNothing(branch.condition)

(* Every report is auditable: what a call returned about a branch          *)
(* has been appended as an event, across crashes and replaced plans.       *)
ReportsRecorded ==
    \A e \in Experiment, b \in Branch : reported[e][b] # "none" => b \in Evaluated(e)

(* Calls that are cut off, repeated and replanned leave one evaluation of  *)
(* each branch, grounded in evidence, and report nothing else.             *)
ActivationSound == EvaluatedOnce /\ ActivationHasEvidence /\ ReportsRecorded

(* A verdict once resolved is not changed by evidence about experiments    *)
(* that had none: only new evidence about a known experiment can turn it.  *)
VerdictsStable ==
    [][LET before == Facts
           after == Facts'
           grown == \A e \in Experiment : before[e] # None => after[e] = before[e]
       IN  \A p \in Plan : \A i \in DOMAIN BranchesOf(p) :
             LET c == BranchesOf(p)[i].condition
             IN  grown /\ Evaluate(c, before) # "unresolvable"
                   => Evaluate(c, after) = Evaluate(c, before)]_branchVars

(* lifecycle.rs on activate_branches: "already-activated branch ids are    *)
(* skipped", and its test: "Idempotent replay: same results".  A branch is *)
(* reported as activated only when an activation of it is on the ledger.   *)
ReplayReportsTruth ==
    \A e \in Experiment, b \in Branch :
        reported[e][b] = "activated" =>
            \E i \in DOMAIN records[e] : records[e][i].branch = b /\ records[e][i].activated
=============================================================================
