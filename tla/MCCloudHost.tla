------------------------------ MODULE MCCloudHost ------------------------------
(* A bounded instance of CloudHost.                                        *)
EXTENDS CloudHost

\* A plan all the checks accept, at their edges: the study and its checker fill
\* the controller's time, the archive its parts, the disk its reserves.
Good ==
    [setup |-> 2, controller |-> 6, collection |-> 7, shutdown |-> 8, max |-> 9,
     study |-> 2, checker |-> 1, rate |-> 2, stated |-> 22, maximum |-> 22,
     archive |-> 3, billable |-> 4, chunk |-> 2, chunks |-> 2, objects |-> 5,
     output |-> 2, disk |-> 11, image |-> 1, setupReserve |-> 1, reserve |-> 1]

\* Each with one thing wrong: no time for the study, deadlines out of order, a
\* bill of more than was stated, a disk without its reserve.
MCPlans ==
    { Good, [Good EXCEPT !.study = 5], [Good EXCEPT !.collection = 3],
      [Good EXCEPT !.rate = 4], [Good EXCEPT !.disk = 10] }

MCDefects == {{}, {"controller"}, {"member"}, {"prepared"}}

\* The scripts with a runtime and the two that only pack.
MCStudies ==
    BudgetStudies \cup {"solomon", "weight", "weight_pilot", "feral", "reasoner"}
================================================================================
