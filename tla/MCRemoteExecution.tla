-------------------------- MODULE MCRemoteExecution --------------------------
(***************************************************************************)
(* Instances of RemoteExecution for TLC.                                   *)
(***************************************************************************)
EXTENDS RemoteOneShot

CONSTANTS e1, a1, a2, b1, r1, r2, forged

(* Two authorizations compete for one experiment, one of them for less     *)
(* time than the epoch lasts; either of two configurations is used.  The   *)
(* worker of the first may sign two rival reports; a forged one names the  *)
(* first as well, and the second one's reporter can present it, too.       *)
MCRequests ==
    [a \in Authorization |->
       [experiment |-> e1, budget |-> b1, expiry |-> IF a = a1 THEN 2 ELSE 3]]

MCReports ==
    [r \in Report |-> [authorization |-> a1, verifies |-> r # forged]]

EpochEnd == [b \in Budget |-> MaxTime]
CredentialEnd == [a \in Authorization |-> RequestOf[a].expiry]
=============================================================================
