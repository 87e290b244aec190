---------------------------- MODULE MCAllocator ----------------------------
(***************************************************************************)
(* Instances of Allocator for TLC.                                         *)
(***************************************************************************)
EXTENDS Allocator

CONSTANTS b1, b2, k1, x1, e1, p1, q1, z1, s1

\* Each lane of epoch 1 has room for one request and its executable for two, the
\* second of which reaches the acknowledgement line;
\* epoch 2 starts before epoch 1 expires and outlasts the clock.
Policies ==
    [b \in Budget |->
       [epoch |-> IF b = b1 THEN 1 ELSE 2, key |-> k1, authentic |-> TRUE,
        from |-> IF b = b1 THEN 1 ELSE 2, until |-> IF b = b1 THEN 3 ELSE 9,
        total |-> 3, replication |-> 3000, probe |-> 3000,
        threshold |-> IF b = b1 THEN 6000 ELSE 10000,
        perRun |-> [x \in Executable |-> 1], perEpoch |-> [x \in Executable |-> IF b = b1 THEN 2 ELSE 3]]]

Requests ==
    [r \in Request |->
       [lane |-> IF r = q1 THEN "replication" ELSE IF r = z1 THEN "sandbox" ELSE "promoted",
        executable |-> x1, credits |-> 1]]

Subjects ==
    [r \in Request |-> IF r = z1 THEN s1 ELSE e1]

Tests == [s \in Sandbox |-> e1]
Ranks == [e \in Experiment |-> 1]
=============================================================================
