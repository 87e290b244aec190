------------------------ MODULE MCContingentBranches ------------------------
(***************************************************************************)
(* Instances of ContingentBranches: two plans for one parent that share a  *)
(* branch id, with conjunctions, disjunctions and negations over the       *)
(* metrics of the parent and of a second experiment.                       *)
(***************************************************************************)
EXTENDS ContingentBranches

CONSTANTS parent, control, first, second, replicate, scale, pivot, drop

Definition(b, c) == [id |-> b, condition |-> c]

\* Leaves over the parent's and the control's metric, of which only 1 passes.
Better  == Metric(parent, {1})
Control == Metric(control, {1})
Not(at) == Node("not", <<at>>)

\* not(any_of(better, control)); all_of(better, not(control)); not(all_of(better,
\* control)); and not(any_of()), which validate lets pass.
Neither == <<Not(2), Node("any_of", <<3, 4>>), Better, Control>>
OnlyBetter == <<Node("all_of", <<2, 3>>), Better, Not(4), Control>>
NotBoth == <<Not(2), Node("all_of", <<3, 4>>), Better, Control>>
Hollowed == <<Not(2), Node("any_of", <<>>)>>

Plans ==
    [p \in Plan |->
       IF p = first
       THEN [parent |-> parent,
             branches |-> <<Definition(replicate, <<Better>>), Definition(scale, Neither)>>]
       ELSE [parent |-> parent,
             branches |-> <<Definition(scale, OnlyBetter), Definition(pivot, NotBoth),
                            Definition(drop, Hollowed)>>]]

\* One plan whose only branch reads the parent.
SimplePlans ==
    [p \in Plan |-> [parent |-> parent, branches |-> <<Definition(replicate, <<Better>>)>>]]
=============================================================================
