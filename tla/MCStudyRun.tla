------------------------------- MODULE MCStudyRun ------------------------------
(* Bounded instances of StudyRun.                                           *)
EXTENDS StudyRun

In(s, m, p, e) == [study |-> s, mode |-> m, prepared |-> p, execution |-> e]

\* Each study as it is meant to be run, and with one input out of order.
MCInputs ==
    { In("solomon", "opened", TRUE, "none"), In("solomon", "cloud", TRUE, "none"),
      In("reasoner", "cloud", TRUE, "bound"), In("reasoner", "cloud", FALSE, "bound"),
      In("coverage", "cloud", TRUE, "bound"), In("coverage", "opened", TRUE, "bound") }
================================================================================
