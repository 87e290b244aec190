------------------------ MODULE ExperimentLifecycle ------------------------
(***************************************************************************)
(* What the promoted lane promises about its experiments, whatever the     *)
(* interleaving of handlers and crashes: each moves forward through the    *)
(* stages of docs/PROTOCOL.md one at a time and never back.  Experiments   *)
(* may advance together: one calibration record counts the forecasts of    *)
(* every experiment its forecaster took part in.                           *)
(***************************************************************************)
CONSTANT Experiment

VARIABLE stage

Following == [draft |-> "open", open |-> "admitted", admitted |-> "started",
              started |-> "completed", completed |-> "resolved",
              resolved |-> "settled", settled |-> "settled"]

Init == stage = [e \in Experiment |-> "draft"]

Advance(E) == stage' = [e \in Experiment |-> IF e \in E THEN Following[stage[e]] ELSE stage[e]]

Next == \E E \in SUBSET Experiment : Advance(E)

Spec == Init /\ [][Next]_stage
=============================================================================
