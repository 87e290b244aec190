-------------------------------- MODULE Ledger --------------------------------
(***************************************************************************)
(* What the modules about the events of an experiment have in common.      *)
(***************************************************************************)
CONSTANTS
    Experiment,    \* experiment ids
    None           \* no event of the kind has been appended yet
================================================================================
