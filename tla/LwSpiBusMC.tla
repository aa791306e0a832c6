----------------------------- MODULE LwSpiBusMC -----------------------------
(* Model values and call sets for checking LwSpiBus. *)
EXTENDS LwSpiBus, TLC

CONSTANTS t1, t2

TwoTasks == {t1, t2}

C(ops, modes, lens) == [op : ops, io : modes, len : lens]

\* Everything but interrupt-mode NU_SPI_Write_Read.
Calls_concurrent ==
  C({"read", "write"}, {"interrupt"}, {2}) \cup C({"read", "write_read"}, {"polled"}, {1})

\* All operations in all modes, for a single task.
Calls_single == C({"read", "write", "write_read"}, IoType, 0 .. 3)

Calls_write_read == C({"write_read"}, IoType, {1})
=============================================================================
