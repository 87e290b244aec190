----------------------------- MODULE Conditions -----------------------------
(***************************************************************************)
(* The condition trees of crates/ilxyr-core/src/conditions.rs, which       *)
(* decide contingent branches, mechanism forecasts and paper nominations.  *)
(* A tree is evaluated to one of three verdicts over the metrics that      *)
(* evidence has recorded so far; a metric without evidence is              *)
(* unresolvable, and an unresolvable leaf is never taken for true.         *)
(* A tree is the sequence of its nodes, the root first; a node holds the   *)
(* places of its arms, which all come after its own.                       *)
(***************************************************************************)
EXTENDS Ledger, Integers, Sequences

\* A leaf compares the metric with a threshold: `meets' are the values that pass.
Metric(e, meets)   == [kind |-> "metric", experiment |-> e, meets |-> meets, arms |-> <<>>]
Node(kind, arms)   == [kind |-> kind, experiment |-> None, meets |-> {}, arms |-> arms]

Composite == {"all_of", "any_of", "not"}

NodeType == [kind: {"metric"} \cup Composite, experiment: Experiment \cup {None},
             meets: SUBSET Int, arms: Seq(Nat)]

IsTree(c) ==
    /\ c \in Seq(NodeType) /\ c # <<>>
    /\ \A i \in DOMAIN c :
          /\ c[i].kind = "metric" => c[i].experiment \in Experiment
          /\ c[i].kind = "not" => Len(c[i].arms) = 1
          /\ \A k \in DOMAIN c[i].arms : c[i].arms[k] \in (i + 1)..Len(c)

Verdicts == {"satisfied", "unsatisfied", "unresolvable"}

Compare(value, meets) ==
    CASE value = None -> "unresolvable"
      [] value # None /\ value \in meets -> "satisfied"
      [] OTHER -> "unsatisfied"

\* The first arm that is not satisfied decides.
AllVerdict(verdicts) ==
    LET failing == {i \in DOMAIN verdicts : verdicts[i] # "satisfied"}
    IN  IF failing = {} THEN "satisfied"
        ELSE verdicts[CHOOSE i \in failing : \A j \in failing : i <= j]

\* Mutant: an unsatisfied arm wins over an unresolvable one.
FirstUnsatisfied(verdicts) ==
    IF \E i \in DOMAIN verdicts : verdicts[i] = "satisfied" THEN "satisfied"
    ELSE IF \E i \in DOMAIN verdicts : verdicts[i] = "unsatisfied" THEN "unsatisfied"
    ELSE "unresolvable"
\* A satisfied arm wins; otherwise the first unsatisfied one, or an unresolvable one, does.
AnyVerdict(verdicts) ==
    IF \E i \in DOMAIN verdicts : verdicts[i] = "satisfied" THEN "satisfied"
    ELSE IF \E i \in DOMAIN verdicts : verdicts[i] = "unresolvable" THEN "unresolvable"
    ELSE "unsatisfied"

\* Mutant: the negation of an unresolvable arm is satisfied.
NotSatisfied(verdict) == IF verdict = "satisfied" THEN "unsatisfied" ELSE "satisfied"
\* Negation passes an unresolvable arm on: it is not silently true.
NotVerdict(verdict) ==
    CASE verdict = "satisfied" -> "unsatisfied"
      [] verdict = "unsatisfied" -> "satisfied"
      [] OTHER -> "unresolvable"

\* evaluate_at on one node, given the verdicts on the nodes behind it.
NodeVerdict(node, behind, facts) ==
    LET verdicts == [k \in DOMAIN node.arms |-> behind[node.arms[k]]]
    IN  CASE node.kind = "metric" -> Compare(facts[node.experiment], node.meets)
          [] node.kind = "all_of" -> AllVerdict(verdicts)
          [] node.kind = "any_of" -> AnyVerdict(verdicts)
          [] node.kind = "not"    -> NotVerdict(verdicts[1])

VerdictOf(c, facts) ==
    LET v[i \in DOMAIN c] == NodeVerdict(c[i], v, facts) IN v

Evaluate(c, facts) == VerdictOf(c, facts)[1]

\* An empty conjunction or disjunction
Hollow(node) == node.kind \in {"all_of", "any_of"} /\ node.arms = <<>>

\* Condition::validate follows conjunctions and disjunctions; it does not look below
\* a negation.
Valid(c) ==
    LET looked[i \in DOMAIN c] ==
            /\ ~Hollow(c[i])
            /\ c[i].kind \in {"all_of", "any_of"} =>
                   \A k \in DOMAIN c[i].arms : looked[c[i].arms[k]]
    IN  looked[1]

\* Where validate stops: a composite that holds nothing may stand below a negation,
\* and its verdict then rests on no evidence at all.
RestsOnNothing(c) == \E i \in DOMAIN c : Hollow(c[i])

\* The experiments whose evidence a condition reads.
Reads(c) == {c[i].experiment : i \in {j \in DOMAIN c : c[j].kind = "metric"}}
=============================================================================
