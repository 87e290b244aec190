------------------------------- MODULE OneShot -------------------------------
(***************************************************************************)
(* What remote execution promises for an experiment, whatever is lost,     *)
(* repeated or restarted on the way: it runs at most once, and it gets at  *)
(* most one result, which is final and belongs to that one run             *)
(* (docs/decisions/0006-digest-bound-cloud-executor.md, 0007).             *)
(***************************************************************************)
CONSTANTS Experiment, Machine, Result

VARIABLES
    runs,      \* the machines that have run each experiment
    results    \* the results that were accepted for it

vars == <<runs, results>>

Init ==
    /\ runs = [e \in Experiment |-> {}]
    /\ results = [e \in Experiment |-> {}]

Run(e) ==
    /\ runs[e] = {}
    /\ \E m \in Machine : runs' = [runs EXCEPT ![e] = {m}]
    /\ UNCHANGED results

Conclude(e) ==
    /\ runs[e] # {}
    /\ results[e] = {}
    /\ \E r \in Result : results' = [results EXCEPT ![e] = {r}]
    /\ UNCHANGED runs

Next == \E e \in Experiment : Run(e) \/ Conclude(e)

Spec == Init /\ [][Next]_vars
=============================================================================
