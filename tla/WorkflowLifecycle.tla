-------------------------- MODULE WorkflowLifecycle --------------------------
(***************************************************************************)
(* Workflow seen as ExperimentLifecycle: how far the ledger says that an   *)
(* experiment has come (workflow.rs::experiment_status reports the same    *)
(* events, but not whether every forecast is settled and counted).         *)
(***************************************************************************)
EXTENDS Workflow

\* A forecast is settled, and counted unless a service made it.
Counted(f) ==
    /\ settlement[f] # None
    /\ ForecastOf[f].service \/ f \in calibration[ForecastOf[f].identity]

StageOf(e) ==
    IF e \notin compiled THEN "draft"
    ELSE IF ~Admitted(e) THEN "open"
    ELSE IF ~Started(e) THEN "admitted"
    ELSE IF NoRun(e) THEN "started"
    ELSE IF evidence[e] = None THEN "completed"
    ELSE IF \A f \in ForecastsOn(e) : Counted(f) THEN "settled"
    ELSE "resolved"

Lifecycle == INSTANCE ExperimentLifecycle WITH stage <- [e \in Experiment |-> StageOf(e)]

(* Seen through its stages every experiment only moves forward, one stage  *)
(* at a time: the ledger of the promoted lane implements the lifecycle.    *)
ImplementsLifecycle == Lifecycle!Spec
=============================================================================
