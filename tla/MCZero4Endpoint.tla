---------------------------- MODULE MCZero4Endpoint ----------------------------
(* Bounded instances of Zero4Endpoint.                                      *)
EXTENDS Zero4Endpoint
================================================================================
