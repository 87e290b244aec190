------------------------------ MODULE MCZero4Study -----------------------------
(* Bounded instances of Zero4Check.                                         *)
EXTENDS Zero4Check

\* Enough arms for the fallback, the pairing of samples and the guard.
MCArms == <<"frozen", "replay", "replay_guard">>
================================================================================
