------------------------------ MODULE SpiDmaMC ------------------------------
(* Constants for checking SpiDma. *)
EXTENDS SpiDma

CONSTANT ifspi

OneTask == {ifspi}
=============================================================================
