----------------------------- MODULE MCWorkflow -----------------------------
(***************************************************************************)
(* The instance of Workflow and of its refinement for TLC.                 *)
(***************************************************************************)
EXTENDS WorkflowLifecycle

CONSTANTS e1, e2, hyp, math, review, plan, f1, f2, f3, f4, k1, k2, ada, bob, svc, osf, zenodo, go, confirmatory

Contributions ==
    [c \in Contribution |->
       CASE c = hyp -> [stage |-> "hypothesis", author |-> ada]
         [] c = math -> [stage |-> "mathematical_foundation", author |-> ada]
         [] c = plan -> [stage |-> "experiment_design", author |-> ada]
         [] OTHER -> [stage |-> "engineering_review", author |-> bob]]

(* Two preregistered experiments of ada share a lineage and a forecaster.  *)
MCDesign ==
    [e \in Experiment |->
       [proposer |-> ada,
        lineage |-> [hypothesis |-> hyp, mathematical_foundation |-> math,
                     engineering_review |-> review, experiment_design |-> plan],
        minForecasters |-> 1, minStake |-> 2, credits |-> 1, preregistered |-> TRUE]]

(* bob forecasts both; a service, never calibrated, forecasts e1; and a    *)
(* forecast of e2 by its own proposer spoils it and can overflow its total. *)
MCForecasts ==
    [f \in Forecast |->
       [experiment |-> IF f \in {f2, f4} THEN e2 ELSE e1, service |-> f = f3,
        identity |-> IF f = f4 THEN ada ELSE IF f = f3 THEN svc ELSE bob,
        stake |-> IF f = f4 THEN 5 ELSE 2]]

MCFunding == [k \in Commitment |-> [experiment |-> IF k = k1 THEN e1 ELSE e2, credits |-> 1]]
=============================================================================
