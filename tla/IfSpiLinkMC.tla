----------------------------- MODULE IfSpiLinkMC -----------------------------
(* Instances of IfSpiLink for TLC. *)
EXTENDS IfSpiLink

\* The number of packets each end sends.
Sends_1_0 == [e \in Endpoint |-> IF e = "master" THEN 1 ELSE 0]
Sends_2_1 == [e \in Endpoint |-> IF e = "master" THEN 2 ELSE 1]
=============================================================================
