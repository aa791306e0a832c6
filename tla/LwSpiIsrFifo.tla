---------------------------- MODULE LwSpiIsrFifo ----------------------------
(***************************************************************************)
(* What the interrupt dispatch of LWSPI promises to the target drivers: an  *)
(* interrupt a LISR reports is handed to the HISR once, in the order of     *)
(* the reports, and the HISR has one of them at a time.                     *)
(***************************************************************************)
EXTENDS Sequences

CONSTANTS Inst, NoInst

VARIABLES
  pending,  \* the instances whose interrupt waits for the HISR
  serving   \* the instance the HISR is working on

vars == <<pending, serving>>

Init == pending = <<>> /\ serving = NoInst

Report(i) ==
  /\ pending' = Append(pending, i)
  /\ UNCHANGED serving

Take ==
  /\ serving = NoInst /\ pending # <<>>
  /\ serving' = Head(pending)
  /\ pending' = Tail(pending)

Done ==
  /\ serving # NoInst
  /\ serving' = NoInst
  /\ UNCHANGED pending

Next == Take \/ Done \/ \E i \in Inst : Report(i)

Spec == Init /\ [][Next]_vars /\ WF_vars(Take) /\ WF_vars(Done)
=============================================================================
