-------------------------- MODULE LwSpiIsrQueueMC --------------------------
(* Model values for checking LwSpiIsrQueue. *)
EXTENDS LwSpiIsrQueue

CONSTANTS i1, i2

TwoBuses == {i1, i2}
=============================================================================
