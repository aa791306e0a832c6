--------------------------- MODULE LwSpiIsrQueue ---------------------------
(***************************************************************************)
(* The interrupt dispatch of the LWSPI drivers (lwspi_common.c): the LISRs  *)
(* of all controller instances put their instance on the ring               *)
(* LWSPI_ISR_Queue and activate the one HISR, which takes an instance per   *)
(* activation and serves it.  LwSpiBus has one instance and a counter in    *)
(* place of the ring; here a transaction is the number of words it still    *)
(* has to receive.                                                          *)
(*                                                                          *)
(* A LISR interrupts tasks and the HISR; tasks run only while the HISR has  *)
(* no activation left.                                                      *)
(***************************************************************************)
EXTENDS Naturals, Sequences, FiniteSets

CONSTANTS
  Inst,     \* the controller instances, LWSPI_NUM_BUSES of them
  NoInst,   \* NU_NULL
  MaxWords  \* bound on the words of a transaction

ASSUME InstAssumption ==
  /\ IsFiniteSet(Inst) /\ Inst # {}
  /\ NoInst \notin Inst
  /\ MaxWords \in Nat \ {0}

\* Mutant: one entry for all buses.
LWSPI_ISR_QUEUE_SIZE_One == 1

LWSPI_ISR_QUEUE_SIZE == Cardinality(Inst) * 2

FULL  == 1  \* LWSPI_ISR_QUEUE_FULL
EMPTY == 2  \* LWSPI_ISR_QUEUE_EMPTY
DATA  == 3  \* LWSPI_ISR_QUEUE_DATA

VARIABLES
  ring,                 \* LWSPI_ISR_Queue
  rd,                   \* LWSPI_ISR_Queue_Read
  wr,                   \* LWSPI_ISR_Queue_Write
  queue_status,         \* LWSPI_ISR_Queue_Status
  tc_activation_count,  \* of LWSPI_HISR_Cb
  hisr,                 \* where the HISR is in its loop
  serving,              \* the instance LWSPI_HISR_Entry has got
  rxneie,               \* the instances whose interrupts are enabled
  left                  \* words each transaction still has to receive

queueVars == <<ring, rd, wr, queue_status>>
vars == <<queueVars, tc_activation_count, hisr, serving, rxneie, left>>

Index == 0 .. LWSPI_ISR_QUEUE_SIZE - 1

\* Static data: the status has none of its three values before the first use.
Init ==
  /\ ring = [k \in Index |-> NoInst]
  /\ rd = 0 /\ wr = 0
  /\ queue_status = 0
  /\ tc_activation_count = 0
  /\ hisr = "idle"
  /\ serving = NoInst
  /\ rxneie = {}
  /\ left = [i \in Inst |-> 0]

-----------------------------------------------------------------------------
\* Mutant: a queue pointer leaves the ring.
Advance_NoWrap(k) == k + 1

\* A queue pointer wraps at the end of the ring.
Advance(k) == IF k + 1 = LWSPI_ISR_QUEUE_SIZE THEN 0 ELSE k + 1

\* A full queue refuses the entry.
LWSPI_ISR_Data_Set(i) ==
  LET full == queue_status = FULL
  IN  /\ ring' = IF full THEN ring ELSE [ring EXCEPT ![wr] = i]
      /\ wr' = IF full THEN wr ELSE Advance(wr)
      /\ queue_status' = IF full \/ Advance(wr) = rd THEN FULL ELSE DATA
      /\ UNCHANGED rd

\* Mutant: the pointer is advanced before the entry is read.
LWSPI_ISR_Data_Get_Behind ==
  LET empty == queue_status = EMPTY
  IN  /\ serving' = IF empty THEN NoInst ELSE ring[Advance(rd)]
      /\ rd' = IF empty THEN rd ELSE Advance(rd)
      /\ queue_status' = IF empty \/ Advance(rd) = wr THEN EMPTY ELSE DATA
      /\ UNCHANGED <<ring, wr>>

\* An empty queue leaves the caller's pointer at NU_NULL.
LWSPI_ISR_Data_Get ==
  LET empty == queue_status = EMPTY
  IN  /\ serving' = IF empty THEN NoInst ELSE ring[rd]
      /\ rd' = IF empty THEN rd ELSE Advance(rd)
      /\ queue_status' = IF empty \/ Advance(rd) = wr THEN EMPTY ELSE DATA
      /\ UNCHANGED <<ring, wr>>

\* Mutant: the HISR is activated only for the first entry of a queue.
NU_Activate_HISR_First ==
  tc_activation_count' =
    IF tc_activation_count = 0 THEN 1 ELSE tc_activation_count

NU_Activate_HISR == tc_activation_count' = tc_activation_count + 1

-----------------------------------------------------------------------------
\* A task initiates an interrupt-mode transaction (LwSpiBus!Start): interrupts
\* of the instance are enabled.
StartIo(i) ==
  /\ tc_activation_count = 0
  /\ left[i] = 0
  /\ \E n \in 1 .. MaxWords : left' = [left EXCEPT ![i] = n]
  /\ rxneie' = rxneie \cup {i}
  /\ UNCHANGED <<queueVars, tc_activation_count, hisr, serving>>

\* A word has come: mask the interrupts of the instance, queue it, and activate
\* the HISR, whether or not the queue had space.
LWSPI_TGT_LISR(i) ==
  /\ i \in rxneie /\ left[i] > 0
  /\ rxneie' = rxneie \ {i}
  /\ LWSPI_ISR_Data_Set(i)
  /\ NU_Activate_HISR
  /\ UNCHANGED <<hisr, serving, left>>

\* LWSPI_HISR_Entry is entered and gets an instance, or finds none.
HisrGet ==
  /\ tc_activation_count > 0 /\ hisr = "idle"
  /\ LWSPI_ISR_Data_Get
  /\ hisr' = IF queue_status = EMPTY THEN "return" ELSE "serve"
  /\ UNCHANGED <<tc_activation_count, rxneie, left>>

\* Mutant: the word is not counted.
HisrServe_Uncounted ==
  /\ hisr = "serve"
  /\ rxneie' = rxneie \cup {serving}
  /\ serving' = NoInst
  /\ hisr' = "return"
  /\ UNCHANGED <<queueVars, tc_activation_count, left>>

\* It takes the word; unless the transaction is complete it enables the
\* interrupts of the instance again.
HisrServe ==
  /\ hisr = "serve"
  /\ left' = [left EXCEPT ![serving] = @ - 1]
  /\ rxneie' = IF left[serving] = 1 THEN rxneie ELSE rxneie \cup {serving}
  /\ serving' = NoInst
  /\ hisr' = "return"
  /\ UNCHANGED <<queueVars, tc_activation_count>>

\* The kernel's loop over the activations: the one just served is over.
HisrReturn ==
  /\ hisr = "return"
  /\ tc_activation_count' = tc_activation_count - 1
  /\ hisr' = "idle"
  /\ UNCHANGED <<queueVars, serving, rxneie, left>>

Next ==
  \/ \E i \in Inst : StartIo(i) \/ LWSPI_TGT_LISR(i)
  \/ HisrGet \/ HisrServe \/ HisrReturn

\* Every word comes and interrupts, and the HISR runs while it is active.
Spec ==
  /\ Init /\ [][Next]_vars
  /\ \A i \in Inst : WF_vars(LWSPI_TGT_LISR(i))
  /\ WF_vars(HisrGet) /\ WF_vars(HisrServe) /\ WF_vars(HisrReturn)
-----------------------------------------------------------------------------
(* Properties *)

\* Types of all variables; what the HISR serves is an instance.
TypeOK ==
  /\ ring \in [Index -> Inst \cup {NoInst}]
  /\ rd \in Index /\ wr \in Index
  /\ queue_status \in {0, FULL, EMPTY, DATA}
  /\ tc_activation_count \in Nat
  /\ hisr \in {"idle", "serve", "return"}
  /\ serving \in Inst \cup {NoInst}
  /\ rxneie \subseteq Inst
  /\ left \in [Inst -> 0 .. MaxWords]

\* How many entries the pointers and the status stand for, and which.
Count ==
  IF queue_status = FULL THEN LWSPI_ISR_QUEUE_SIZE
  ELSE IF queue_status = DATA
       THEN (wr + LWSPI_ISR_QUEUE_SIZE - rd) % LWSPI_ISR_QUEUE_SIZE
       ELSE 0

Contents ==
  [k \in 1 .. Count |-> ring[(rd + k - 1) % LWSPI_ISR_QUEUE_SIZE]]

\* Every entry of the ring, and the instance under service, has its activation
\* of the HISR, so that no entry is left behind for a later interrupt and the
\* HISR, which takes a status that was never set for data, finds an entry
\* whenever it looks for one.
ActivationPerEntry ==
  tc_activation_count = Count + (IF hisr = "idle" THEN 0 ELSE 1)

\* A transaction in progress is in exactly one place: its interrupts are
\* enabled, or it is once in the ring, or under service.  The ring has room for
\* twice that, so that LWSPI_ISR_Data_Set, whose refusal nobody looks at, never
\* refuses.
InOnePlace ==
  \A i \in Inst :
    LET entries == Cardinality({k \in 1 .. Count : Contents[k] = i})
        places  == entries + (IF i \in rxneie THEN 1 ELSE 0)
                           + (IF serving = i THEN 1 ELSE 0)
    IN  places = IF left[i] > 0 THEN 1 ELSE 0

\* Every interrupt-mode transaction of every bus comes to its end, whatever
\* the other buses do (the HISR serves the buses in turn).
TransactionsEnd == \A i \in Inst : left[i] > 0 ~> left[i] = 0

\* The ring, its status and the HISR's loop are the queue of LwSpiIsrFifo.
Fifo == INSTANCE LwSpiIsrFifo WITH pending <- Contents

ImplementsFifo == Fifo!Spec
=============================================================================
