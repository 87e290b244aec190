---------------------------- MODULE MCCloudCollect -----------------------------
(* A bounded instance of CloudCollect.                                     *)
EXTENDS CloudCollect, TLC

CONSTANTS r1, r2

File(size) == [size |-> size, regular |-> TRUE]

\* Nothing but a log; two files that fit in one part, exactly; three parts;
\* one byte over the ceiling; an empty file behind a full archive; a link; one
\* file more than the member ceiling.
MCOutputs ==
    { <<File(1)>>,
      <<File(1), File(2)>>,
      <<File(3), File(4)>>,
      <<File(1), File(8)>>,
      <<File(8), File(0), File(1)>>,
      <<File(1), [size |-> 1, regular |-> FALSE]>>,
      <<File(1), File(0), File(1), File(1)>> }

\* On both sides of every cut-off of the three kinds of script.
MCInstants == {130, 100, 70, 50, 35, 25, 15, 5, 0}

MCStudies == PartStudies \cup ObjectStudies \cup {"reasoner4"}

Symmetry == Permutations({r1, r2})
================================================================================
