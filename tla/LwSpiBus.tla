------------------------------ MODULE LwSpiBus ------------------------------
(***************************************************************************)
(* Transactions on one registered device of the lightweight SPI layer:      *)
(* NU_SPI_Read, NU_SPI_Write, NU_SPI_Write_Read and NU_SPI_Check_Complete   *)
(* of lwspi.c called by several tasks, the target driver that moves the     *)
(* words in polled or in interrupt mode (lwspi_tgt.c), and the LISR and     *)
(* HISR that serve the interrupt mode (lwspi_common.c).                     *)
(*                                                                          *)
(* One bus and one device, as in this build (LWSPI_NUM_BUSES and            *)
(* LWSPI_NUM_DEVICES are 1).  Every kernel call of a task is one step, so   *)
(* tasks interleave between any two of them.  A word is abstracted to its   *)
(* position in the transaction.  The device is the master and powered on.   *)
(***************************************************************************)
EXTENDS Naturals, Sequences, FiniteSets

CONSTANTS
  Task,      \* the tasks that share the device
  NoTask,    \* sm_semaphore_owner = NU_NULL
  Calls      \* the calls the tasks make: operation, mode, length in words

IoType == {"polled", "interrupt"}  \* SPI_POLLED_IO, SPI_INTERRUPT_IO

Call == [op : {"read", "write", "write_read"}, io : IoType, len : Nat]

ASSUME TaskAssumption ==
  /\ IsFiniteSet(Task)
  /\ NoTask \notin Task
  /\ Calls \subseteq Call

VARIABLES
  pc,             \* where each task is in its call
  call,           \* arguments of its call
  bus_lock,       \* owner of the priority-inheritance semaphore bus_lock
  async_io_lock,  \* count of the semaphore async_io_lock
  waiting,        \* its suspension list (NU_FIFO)
  io,             \* io[t]: mode of the transaction t has in progress
  rx_irp,         \* spi_device->rx_irp
  tx_irp,         \* spi_device->tx_irp
  io_operation,   \* spi_inst_ptr->io_operation
  dr,             \* the data register: "empty", "shifting" or "full" (RXNE)
  rxneie,         \* interrupts enabled in CR2
  isr_queue,      \* entries of LWSPI_ISR_Queue
  local_pos,      \* buffer index of a polled loop's local pointers
  xfer            \* history: what t's last transaction moved

lockVars == <<bus_lock, async_io_lock, waiting>>
irpVars  == <<rx_irp, tx_irp, io_operation>>
hwVars   == <<dr, rxneie, isr_queue>>
vars == <<pc, call, lockVars, io, irpVars, hwVars, local_pos, xfer>>

-----------------------------------------------------------------------------
\* task is history: whose transaction the IRP serves (the source has the device).
Irp  == [task : Task \cup {NoTask}, length : Nat, actual_length : Nat,
         buffer : Nat]

\* in: the caller's receive buffer; out: indices of the words sent.
Xfer == [call : Call, in : Seq(Nat), out : Seq(Nat), complete : BOOLEAN]

\* Construct an IRP; its buffer pointer is the index of the next word.
NewIrp(t, len) ==
  [task |-> t, length |-> len, actual_length |-> 0, buffer |-> 1]

NoCall == [op |-> "read", io |-> "polled", len |-> 0]

Init ==
  /\ pc = [t \in Task |-> "idle"]
  /\ call = [t \in Task |-> NoCall]
  /\ bus_lock = NoTask
  /\ async_io_lock = 1
  /\ waiting = <<>>
  /\ io = [t \in Task |-> "none"]
  /\ rx_irp = NewIrp(NoTask, 0)
  /\ tx_irp = NewIrp(NoTask, 0)
  /\ io_operation = "none"
  /\ dr = "empty"
  /\ rxneie = FALSE
  /\ isr_queue = 0
  /\ local_pos = [t \in Task |-> 1]
  /\ xfer = [t \in Task |->
               [call |-> NoCall, in |-> <<>>, out |-> <<>>, complete |-> FALSE]]

-----------------------------------------------------------------------------
Goto(t, label) == pc' = [pc EXCEPT ![t] = label]

\* The call returns and its arguments go out of scope.
ReturnFrom(t) ==
  /\ Goto(t, "idle")
  /\ call' = [call EXCEPT ![t] = NoCall]

-----------------------------------------------------------------------------
(* The kernel's semaphores *)

\* Where a suspended task continues once it has the semaphore.
Granted(label) == IF label = "locking" THEN "end" ELSE "cc_relbus"

\* NU_Release_Semaphore(&async_io_lock), by a task or by the HISR, that leaves
\* the tasks at pcs: a suspended task gets the instance, otherwise the count
\* goes up.
Release_async(pcs) ==
  \/ /\ waiting = <<>>
     /\ async_io_lock' = async_io_lock + 1
     /\ pc' = pcs
     /\ UNCHANGED waiting
  \/ /\ waiting # <<>>
     /\ pc' = [pcs EXCEPT ![Head(waiting)] = Granted(pcs[Head(waiting)])]
     /\ waiting' = Tail(waiting)
     /\ UNCHANGED async_io_lock

\* NU_Obtain_Semaphore(&async_io_lock, ...) when an instance is available.
Obtain_async ==
  /\ async_io_lock > 0
  /\ async_io_lock' = async_io_lock - 1

\* Mutant: bus_lock is an ordinary semaphore, which anyone may release.
Release_bus_AnyTask(t) == bus_lock' = NoTask

\* NU_Release_Semaphore(&bus_lock): only its owner can release it, for any
\* other task the call fails with NU_SEMAPHORE_INVALID_OWNER.
Release_bus(t) == bus_lock' = IF bus_lock = t THEN NoTask ELSE bus_lock

-----------------------------------------------------------------------------
(* NU_SPI_Read, NU_SPI_Write, NU_SPI_Write_Read up to the target driver *)

\* A task calls one of the three.
CallIo(t) ==
  /\ pc[t] = "idle"
  /\ \E c \in Calls : call' = [call EXCEPT ![t] = c]
  /\ Goto(t, "check")
  /\ UNCHANGED <<lockVars, io, irpVars, hwVars, local_pos, xfer>>

\* Is a transaction in progress?  NU_SPI_BUSY if async_io_lock is taken.
CheckAsync(t) ==
  /\ pc[t] = "check"
  /\ \/ /\ Obtain_async
        /\ Goto(t, "relbus")
        /\ UNCHANGED call
     \/ /\ async_io_lock = 0
        /\ ReturnFrom(t)
        /\ UNCHANGED async_io_lock
  /\ UNCHANGED <<bus_lock, waiting, io, irpVars, hwVars, local_pos, xfer>>

\* It is not: drop what the task may still hold of its last transaction.
ReleaseBus(t) ==
  /\ pc[t] = "relbus"
  /\ Release_bus(t)
  /\ Goto(t, "relasync")
  /\ UNCHANGED <<call, async_io_lock, waiting, io, irpVars, hwVars, local_pos,
                 xfer>>

ReleaseAsync(t) ==
  /\ pc[t] = "relasync"
  /\ Release_async([pc EXCEPT ![t] = "claim"])
  /\ UNCHANGED <<call, bus_lock, io, irpVars, hwVars, local_pos, xfer>>

\* Claim the bus, or NU_SPI_BUSY.
ClaimBus(t) ==
  /\ pc[t] = "claim"
  /\ \/ /\ bus_lock = NoTask
        /\ bus_lock' = t
        /\ Goto(t, "start")
        /\ UNCHANGED call
     \/ /\ bus_lock # NoTask
        /\ ReturnFrom(t)
        /\ UNCHANGED bus_lock
  /\ UNCHANGED <<async_io_lock, waiting, io, irpVars, hwVars, local_pos,
                 xfer>>

\* The word at index i of the caller's transmit buffer goes out.
Sent(t, i) == [xfer EXCEPT ![t].out = Append(@, i)]

\* Fill the IRPs and enter the target driver.  In interrupt mode it saves the
\* IRPs, enables interrupts and writes the first word (a dummy for a read).
Start(t) ==
  /\ pc[t] = "start"
  /\ LET c == call[t]
         fresh == [call |-> c, in |-> [i \in 1 .. c.len |-> 0], out |-> <<>>,
                   complete |-> FALSE]
     IN
     /\ rx_irp' = IF c.op = "write" THEN rx_irp ELSE NewIrp(t, c.len)
     /\ tx_irp' = IF c.op = "read" THEN tx_irp ELSE NewIrp(t, c.len)
     /\ io' = [io EXCEPT ![t] = c.io]
     /\ \/ /\ c.io = "polled"
           /\ xfer' = [xfer EXCEPT ![t] = fresh]
           /\ Goto(t, "poll")
           /\ UNCHANGED <<io_operation, dr, rxneie>>
        \/ /\ c.io = "interrupt"
           /\ io_operation' = c.op
           /\ rxneie' = TRUE
           /\ dr' = "shifting"
           /\ xfer' = [xfer EXCEPT ![t] =
                         IF c.op = "read" THEN fresh
                                          ELSE [fresh EXCEPT !.out = <<1>>]]
           /\ Goto(t, "lock")
  /\ UNCHANGED <<call, lockVars, isr_queue, local_pos>>

-----------------------------------------------------------------------------
(* LWSPI_TGT_Read, _Write, _Write_Read in polled mode *)

\* The polled loop has moved all words.
PolledAll(op) ==
  CASE op = "read"       -> rx_irp.actual_length = rx_irp.length
    [] op = "write"      -> tx_irp.actual_length = tx_irp.length
    [] op = "write_read" -> \/ rx_irp.actual_length = rx_irp.length
                            \/ tx_irp.actual_length = tx_irp.length

\* Write the next word to the data register.
PollWrite(t) ==
  /\ pc[t] = "poll"
  /\ ~PolledAll(call[t].op)
  /\ dr = "empty"
  /\ dr' = "shifting"
  /\ \/ /\ call[t].op = "read"
        /\ UNCHANGED <<tx_irp, xfer>>
     \/ /\ call[t].op = "write"
        /\ xfer' = Sent(t, tx_irp.buffer)
        /\ UNCHANGED tx_irp
     \/ /\ call[t].op = "write_read"
        /\ xfer' = Sent(t, local_pos[t])
        /\ tx_irp' = [tx_irp EXCEPT !.actual_length = @ + 1]
  /\ Goto(t, "pollrx")
  /\ UNCHANGED <<call, lockVars, io, rx_irp, io_operation, rxneie, isr_queue,
                 local_pos>>

\* The word received is the n-th of the transaction; it is stored at index i
\* of the caller's buffer, or behind its end.
Stored(t, i, n) ==
  [xfer EXCEPT ![t].in =
     [j \in DOMAIN @ \cup {i} |-> IF j = i THEN n ELSE @[j]]]

\* Mutant: the local pointer is not advanced.
PollRead_Fixed(t) ==
  /\ pc[t] = "pollrx"
  /\ dr = "full"
  /\ dr' = "empty"
  /\ \/ /\ call[t].op = "write"
        /\ tx_irp' = [tx_irp EXCEPT !.actual_length = @ + 1, !.buffer = @ + 1]
        /\ UNCHANGED <<rx_irp, xfer>>
     \/ /\ call[t].op # "write"
        /\ xfer' = Stored(t, local_pos[t], rx_irp.actual_length + 1)
        /\ rx_irp' = [rx_irp EXCEPT !.actual_length = @ + 1]
        /\ UNCHANGED tx_irp
  /\ Goto(t, "poll")
  /\ UNCHANGED <<call, lockVars, io, io_operation, rxneie, isr_queue, local_pos>>

\* Wait for RXNE and read the data register.
PollRead(t) ==
  /\ pc[t] = "pollrx"
  /\ dr = "full"
  /\ dr' = "empty"
  /\ \/ /\ call[t].op = "write"
        /\ tx_irp' = [tx_irp EXCEPT !.actual_length = @ + 1, !.buffer = @ + 1]
        /\ UNCHANGED <<rx_irp, local_pos, xfer>>
     \/ /\ call[t].op # "write"
        /\ xfer' = Stored(t, local_pos[t], rx_irp.actual_length + 1)
        /\ rx_irp' = [rx_irp EXCEPT !.actual_length = @ + 1]
        /\ local_pos' = [local_pos EXCEPT ![t] = @ + 1]
        /\ UNCHANGED tx_irp
  /\ Goto(t, "poll")
  /\ UNCHANGED <<call, lockVars, io, io_operation, rxneie, isr_queue>>

PollEnd(t) ==
  /\ pc[t] = "poll"
  /\ PolledAll(call[t].op)
  /\ io' = [io EXCEPT ![t] = "none"]
  /\ xfer' = [xfer EXCEPT ![t].complete = TRUE]
  /\ local_pos' = [local_pos EXCEPT ![t] = 1]
  /\ Goto(t, "end")
  /\ UNCHANGED <<call, lockVars, irpVars, hwVars>>

-----------------------------------------------------------------------------
(* The end of the three calls, and NU_SPI_Check_Complete *)

\* In interrupt mode async_io_lock is locked after the transaction was
\* initiated; the HISR unlocks it.
LockAsync(t) ==
  /\ pc[t] = "lock"
  /\ \/ /\ Obtain_async
        /\ Goto(t, "end")
        /\ UNCHANGED waiting
     \/ /\ async_io_lock = 0
        /\ waiting' = Append(waiting, t)
        /\ Goto(t, "locking")
        /\ UNCHANGED async_io_lock
  /\ UNCHANGED <<call, bus_lock, io, irpVars, hwVars, local_pos, xfer>>

\* Return.  Only NU_SPI_Write_Read releases the bus here; NU_SPI_Read and
\* NU_SPI_Write leave it to the next call or to NU_SPI_Check_Complete.
Return(t) ==
  /\ pc[t] = "end"
  /\ \/ call[t].op = "write_read" /\ Release_bus(t)
     \/ call[t].op # "write_read" /\ UNCHANGED bus_lock
  /\ ReturnFrom(t)
  /\ UNCHANGED <<async_io_lock, waiting, io, irpVars, hwVars, local_pos, xfer>>

\* NU_SPI_Check_Complete obtains async_io_lock, at once or after a suspension,
\* or returns NU_SPI_BUSY, which changes nothing.
CheckComplete(t) ==
  /\ pc[t] = "idle"
  /\ \/ /\ Obtain_async
        /\ Goto(t, "cc_relbus")
        /\ UNCHANGED waiting
     \/ /\ async_io_lock = 0
        /\ \E sem_param \in {"NU_SUSPEND", "ticks"} :
             Goto(t, IF sem_param = "ticks" THEN "cc_ticks" ELSE "cc_wait")
        /\ waiting' = Append(waiting, t)
        /\ UNCHANGED async_io_lock
  /\ UNCHANGED <<call, bus_lock, io, irpVars, hwVars, local_pos, xfer>>

\* The tick count expires: the task leaves the suspension list.
CcTimeout(t) ==
  /\ pc[t] = "cc_ticks"
  /\ \E k \in 1 .. Len(waiting) :
       /\ waiting[k] = t
       /\ waiting' = [i \in 1 .. Len(waiting) - 1 |->
                        IF i < k THEN waiting[i] ELSE waiting[i + 1]]
  /\ Goto(t, "idle")
  /\ UNCHANGED <<call, bus_lock, async_io_lock, io, irpVars, hwVars, local_pos,
                 xfer>>

CcReleaseBus(t) ==
  /\ pc[t] = "cc_relbus"
  /\ Release_bus(t)
  /\ Goto(t, "cc_relasync")
  /\ UNCHANGED <<call, async_io_lock, waiting, io, irpVars, hwVars, local_pos,
                 xfer>>

\* Mutant: NU_SPI_Check_Complete keeps async_io_lock.
CcReleaseAsync_Kept(t) ==
  /\ pc[t] = "cc_relasync"
  /\ Goto(t, "idle")
  /\ UNCHANGED <<call, lockVars, io, irpVars, hwVars, local_pos, xfer>>

CcReleaseAsync(t) ==
  /\ pc[t] = "cc_relasync"
  /\ Release_async([pc EXCEPT ![t] = "idle"])
  /\ UNCHANGED <<call, bus_lock, io, irpVars, hwVars, local_pos, xfer>>

-----------------------------------------------------------------------------
(* The controller and its interrupts *)

\* The controller has clocked a word out and another one in.
Shift ==
  /\ dr = "shifting"
  /\ dr' = "full"
  /\ UNCHANGED <<pc, call, lockVars, io, irpVars, rxneie, isr_queue, local_pos,
                 xfer>>

\* Mutant: interrupts stay enabled.
LWSPI_TGT_LISR_NoDisable ==
  /\ rxneie /\ dr = "full"
  /\ isr_queue < 2
  /\ isr_queue' = isr_queue + 1
  /\ UNCHANGED <<pc, call, lockVars, io, irpVars, dr, rxneie, local_pos, xfer>>

\* A received word interrupts: mask the interrupts and queue the instance for
\* the HISR.
LWSPI_TGT_LISR ==
  /\ rxneie /\ dr = "full"
  /\ rxneie' = FALSE
  /\ isr_queue' = isr_queue + 1
  /\ UNCHANGED <<pc, call, lockVars, io, irpVars, dr, local_pos, xfer>>

\* The operation is complete: the caller's transaction is over and
\* async_io_lock is released.
IoComplete(t) ==
  /\ io' = [io EXCEPT ![t] = "none"]
  /\ Release_async(pc)
  /\ dr' = "empty"
  /\ UNCHANGED rxneie

\* It is not: the next word was written and interrupts are enabled again.
IoContinues ==
  /\ dr' = "shifting"
  /\ rxneie' = TRUE
  /\ UNCHANGED <<pc, async_io_lock, waiting, io>>

\* Mutant: the length is compared one too early.
More_OffByOne(irp) == irp.actual_length + 2 < irp.length

\* After the word just read there is another one.
More(irp) == irp.actual_length + 1 < irp.length

\* LWSPI_TGT_ISR_Read: the buffer pointer it advances is a local copy.
ISR_Read ==
  LET t == rx_irp.task
      n == rx_irp.actual_length + 1
      i == rx_irp.buffer
  IN  /\ io_operation = "read"
      /\ rx_irp' = [rx_irp EXCEPT !.actual_length = n]
      /\ \/ /\ More(rx_irp)
            /\ IoContinues
            /\ xfer' = Stored(t, i, n)
         \/ /\ ~More(rx_irp)
            /\ IoComplete(t)
            /\ xfer' = [Stored(t, i, n) EXCEPT ![t].complete = TRUE]
      /\ UNCHANGED tx_irp

\* LWSPI_TGT_ISR_Write advances the IRP's buffer pointer.
ISR_Write ==
  LET t == tx_irp.task
      i == tx_irp.buffer + 1
  IN  /\ io_operation = "write"
      /\ tx_irp' = [tx_irp EXCEPT !.actual_length = @ + 1, !.buffer = i]
      /\ \/ /\ More(tx_irp)
            /\ IoContinues
            /\ xfer' = Sent(t, i)
         \/ /\ ~More(tx_irp)
            /\ IoComplete(t)
            /\ xfer' = [xfer EXCEPT ![t].complete = TRUE]
      /\ UNCHANGED rx_irp

\* LWSPI_TGT_ISR_Write_Read: both pointers are local copies.
ISR_Write_Read ==
  LET t == rx_irp.task
      n == rx_irp.actual_length + 1
      stored == Stored(t, rx_irp.buffer, n)
  IN  /\ io_operation = "write_read"
      /\ rx_irp' = [rx_irp EXCEPT !.actual_length = n]
      /\ tx_irp' = [tx_irp EXCEPT !.actual_length = @ + 1]
      /\ \/ /\ More(rx_irp)
            /\ IoContinues
            /\ xfer' = [stored EXCEPT ![t].out = Append(@, tx_irp.buffer + 1)]
         \/ /\ ~More(rx_irp)
            /\ IoComplete(t)
            /\ xfer' = [stored EXCEPT ![t].complete = TRUE]

LWSPI_HISR_Entry ==
  /\ isr_queue > 0
  /\ isr_queue' = isr_queue - 1
  /\ ISR_Read \/ ISR_Write \/ ISR_Write_Read
  /\ UNCHANGED <<call, bus_lock, io_operation, local_pos>>

-----------------------------------------------------------------------------
\* The steps of a call once it was made.
TaskStep(t) ==
  \/ CheckAsync(t) \/ ReleaseBus(t) \/ ReleaseAsync(t) \/ ClaimBus(t)
  \/ Start(t) \/ PollWrite(t) \/ PollRead(t) \/ PollEnd(t)
  \/ LockAsync(t) \/ Return(t) \/ CcReleaseBus(t) \/ CcReleaseAsync(t)

Next ==
  \/ \E t \in Task :
       CallIo(t) \/ CheckComplete(t) \/ CcTimeout(t) \/ TaskStep(t)
  \/ Shift \/ LWSPI_TGT_LISR \/ LWSPI_HISR_Entry

Spec == Init /\ [][Next]_vars

\* A task in a call goes on unless it is suspended; the controller clocks
\* every word and its interrupt is served.  Nobody has to call.
Fairness ==
  /\ \A t \in Task : WF_vars(TaskStep(t))
  /\ WF_vars(Shift) /\ WF_vars(LWSPI_TGT_LISR) /\ WF_vars(LWSPI_HISR_Entry)

FairSpec == Spec /\ Fairness
-----------------------------------------------------------------------------
(* Properties *)

Labels ==
  {"idle", "check", "relbus", "relasync", "claim", "start", "poll", "pollrx",
   "lock", "locking", "end", "cc_wait", "cc_ticks", "cc_relbus", "cc_relasync"}

\* Types of all variables.
TypeOK ==
  /\ pc \in [Task -> Labels]
  /\ call \in [Task -> Call]
  /\ bus_lock \in Task \cup {NoTask}
  /\ async_io_lock \in Nat
  /\ waiting \in Seq(Task)
  /\ io \in [Task -> IoType \cup {"none"}]
  /\ rx_irp \in Irp /\ tx_irp \in Irp
  /\ io_operation \in {"none", "read", "write", "write_read"}
  /\ dr \in {"empty", "shifting", "full"}
  /\ rxneie \in BOOLEAN
  /\ isr_queue \in Nat
  /\ local_pos \in [Task -> Nat]
  /\ xfer \in [Task -> Xfer]

\* The tasks with a transaction in progress.
InProgress == {t \in Task : io[t] # "none"}

\* However polled and interrupt-mode calls, the HISR and the probing of other
\* tasks interleave: no two transactions overlap on the bus, and the one in
\* progress is the bus owner's.
BusExclusive ==
  \A t \in InProgress : bus_lock = t /\ InProgress = {t}

\* "Further operations on the interface will return NU_SPI_BUSY if the current
\* SPI operation isn't completed" (lwspi.c, NU_SPI_Write_Read): no transaction
\* begins while another is in progress.
NoOverlap == \A s, t \in InProgress : s = t

\* The tasks that hold an instance of async_io_lock between two kernel calls.
Holders ==
  {t \in Task : pc[t] \in {"relbus", "relasync", "cc_relbus", "cc_relasync"}}

\* The interrupt-mode transactions whose caller has locked async_io_lock, and
\* the ones that completed before their caller came to lock it.
Locked == {t \in Task : io[t] = "interrupt" /\ pc[t] \notin {"lock", "locking"}}
Early  == {t \in Task : io[t] = "none" /\ pc[t] \in {"lock", "locking"}}

\* Every instance of async_io_lock is accounted for, however the HISR, the
\* caller's late lock and the probing of other tasks interleave: none is lost,
\* so that the device can not stay busy, and none is made up, so that the
\* device is not taken for idle.
AsyncLockBalance ==
  async_io_lock + Cardinality(Holders) + Cardinality(Locked)
    = 1 + Cardinality(Early)

\* Interrupts are enabled, or one is queued for the HISR, only while an
\* interrupt-mode transaction is in progress, which the HISR will find in the
\* IRP it works on; a queued one has its word in the data register.
HisrHasTransaction ==
  /\ rxneie \/ isr_queue > 0 =>
       /\ io_operation # "none"
       /\ LET irp == IF io_operation = "write" THEN tx_irp ELSE rx_irp
          IN  irp.task # NoTask /\ io[irp.task] = "interrupt"
  /\ isr_queue > 0 => isr_queue = 1 /\ ~rxneie /\ dr = "full"

\* The first n words, in order.
InOrder(s, n) == s = [i \in 1 .. n |-> i]

\* A completed polled transaction has stored and sent every word at its place,
\* and so has a completed interrupt-mode write of at least one word, whoever
\* else called meanwhile.
TransferWhole ==
  \A t \in Task :
    LET x == xfer[t]
        c == x.call
    IN  x.complete /\ (c.io = "polled" \/ (c.op = "write" /\ c.len > 0)) =>
          /\ c.op # "write" => InOrder(x.in, c.len)
          /\ c.op # "read"  => InOrder(x.out, c.len)

\* Every call returns, a NU_SPI_Check_Complete that suspends without a timeout
\* too: an interrupt-mode transaction always completes and wakes its waiters.
CallsReturn == \A t \in Task : pc[t] # "idle" ~> pc[t] = "idle"
=============================================================================
