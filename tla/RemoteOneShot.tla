---------------------------- MODULE RemoteOneShot ----------------------------
(***************************************************************************)
(* RemoteExecution seen as OneShot: the machines the provider has started  *)
(* for an experiment, and the reports the ledger has accepted for it.      *)
(***************************************************************************)
EXTENDS RemoteExecution

MachinesOf(e) == {m \in machines : ExperimentOf(m.authorization) = e}

Concluding(e) == {a \in Authorization : ExperimentOf(a) = e /\ accepted[a] # None}
ResultsOf(e) == {accepted[a] : a \in Concluding(e)}

Abstract == INSTANCE OneShot WITH
    Machine <- MachineType,
    Result <- Report,
    runs <- [e \in Experiment |-> MachinesOf(e)],
    results <- [e \in Experiment |-> ResultsOf(e)]

(* Through every failure and retry an experiment runs at most once and is  *)
(* concluded at most once, by a report of that one run.                    *)
ImplementsOneShot == Abstract!Spec
=============================================================================
