----------------------------- MODULE SpiClients -----------------------------
(* What the set-up modules have in common: the clients that call the SPI     *)
(* layer and the DMA service, and the searches through arrays of slots.      *)
EXTENDS Naturals, FiniteSets

CONSTANTS
  Client,  \* who calls
  None     \* NU_NULL

\* The slot a search from index 0 on comes to first.
First(S) == CHOOSE k \in S : \A j \in S : k <= j
=============================================================================
