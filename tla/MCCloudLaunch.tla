---------------------------- MODULE MCCloudLaunch ------------------------------
(* A bounded instance of CloudLaunch.                                      *)
EXTENDS CloudLaunch, TLC

CONSTANTS a1, a2, d1, d2, r1, r2, v1

\* On both sides of the two windows: 60 seconds after an epoch and one more,
\* an hour after a preflight and more.
MCInstants == {0, 60, 3661}

MCStudies == DOMAIN Settings

Symmetry == Permutations({a1, a2}) \cup Permutations({d1, d2}) \cup Permutations({r1, r2})
================================================================================
