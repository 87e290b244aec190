--------------------------- MODULE MCEpochBudget ---------------------------
(***************************************************************************)
(* Instances of EpochBudget: shares that round up, a successor that        *)
(* overlaps its predecessor and expires first, two budgets of one epoch,   *)
(* one whose rounded reserves do not fit, and one that is forged.          *)
(***************************************************************************)
EXTENDS EpochBudget

CONSTANTS b1, b2, b3, b4, b5, k1, k2, x1, x2, p1, p2, s1, s2, r1, r2

Policy(epoch, from, until, total, replication, probe, threshold) ==
    [epoch |-> epoch, key |-> k1, authentic |-> TRUE, from |-> from, until |-> until,
     total |-> total, replication |-> replication, probe |-> probe, threshold |-> threshold,
     perRun |-> [x \in Executable |-> 2],
     perEpoch |-> [x \in Executable |-> IF x = x1 THEN 5 ELSE 3]]

Policies ==
    [b \in Budget |->
       CASE b = b1 -> Policy(1, 1, 4, 7, 2000, 1500, Whole)
         [] b = b2 -> Policy(2, 2, 3, 6, 2500, 0, 9000)
         [] b = b3 -> Policy(2, 1, 3, 5, 0, 4000, Whole)
         [] b = b4 -> Policy(3, 1, 3, 1, 5000, 5000, Whole)
         [] OTHER -> [Policy(4, 1, 2, 1, 0, 0, 0) EXCEPT !.key = k2, !.authentic = FALSE]]

Ask(lane, executable, credits) == [lane |-> lane, executable |-> executable, credits |-> credits]

Requests ==
    [r \in Request |->
       CASE r = p1 -> Ask("promoted", x1, 2)
         [] r = p2 -> Ask("promoted", x1, 1)
         [] r = s1 -> Ask("sandbox", x2, 1)
         [] r = s2 -> Ask("sandbox", x1, 2)
         [] r = r1 -> Ask("replication", x1, 2)
         [] OTHER -> Ask("replication", x2, 1)]
=============================================================================
