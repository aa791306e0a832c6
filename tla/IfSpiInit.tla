----------------------------- MODULE IfSpiInit -----------------------------
(***************************************************************************)
(* IF_SPI_Tgt_Controller_Init of ifspi_tgt.c, call by call: a device on the *)
(* SPI bus (LwSpiRegistry), NU_SPI_DMA_Setup with its two streams           *)
(* (DmaDevices), the memory of the task and the task.  Any of these calls   *)
(* may fail and nothing is undone; the stack may initialise the interface   *)
(* again.  Meanwhile buses come and go and other clients use both services. *)
(*                                                                          *)
(* DMA is enabled for the bus (dma_enable of its registry entry), and the   *)
(* configuration of the device is valid (IF_SPI_CONFIG).                    *)
(***************************************************************************)
EXTENDS LwSpiRegistry, DmaDevices

CONSTANTS
  Ifspi,        \* the IFSPI driver, a client
  spi_bus_name, \* the bus it is configured for
  DmaIntf,      \* dma_intf of the bus: device and peripheral for "tx" and "rx"
  MaxAttempts,  \* bound on the initialisations
  MaxCalls      \* bound on the steps of everybody else

ASSUME SetupAssumption ==
  /\ Ifspi \in Client /\ spi_bus_name \in Name
  /\ DmaIntf \in [{"tx", "rx"} -> [dev : DmaDev, peri : Peri]]
  /\ DmaIntf["tx"].dev # DmaIntf["rx"].dev
  /\ StreamMap \in [DmaDev -> SUBSET Peri]
  /\ MaxAttempts \in Nat /\ MaxCalls \in Nat

VARIABLES
  step,        \* where the initialisation is
  attempts,    \* how often it was begun
  spiHandle,   \* tgt_ptr->spiHandle
  spi_bus_id,  \* history: the bus it is for, 0 if there was none
  dma_handle,  \* dma_tx_handle and dma_rx_handle of the bus
  chan_handle, \* chan_tx_handle and chan_rx_handle of the bus
  calls        \* steps of everybody else

initVars == <<step, attempts, spiHandle, spi_bus_id, dma_handle, chan_handle>>
vars == <<regVars, dmaVars, initVars, calls>>

Other == Client \ {Ifspi}
Dir   == {"tx", "rx"}
NoHandle == [dir \in Dir |-> None]

Init ==
  /\ RegInit /\ DmaInit
  /\ step = "down"
  /\ attempts = 0
  /\ spiHandle = None /\ spi_bus_id = 0
  /\ dma_handle = NoHandle /\ chan_handle = NoHandle
  /\ calls = 0

-----------------------------------------------------------------------------
Goto(label) == step' = label

\* ETHERNET_CMD_CTRL_INIT, the first time or once more: register the device.
Register ==
  /\ step \in {"down", "failed"} /\ attempts < MaxAttempts
  /\ attempts' = attempts + 1
  /\ \/ \E h \in Handle :
          /\ NU_SPI_Register_Succeeds(Ifspi, spi_bus_name, h)
          /\ spiHandle' = h
          /\ spi_bus_id' = devices'[h[1]][h[2]].on
          /\ Goto("open_tx")
     \/ /\ NU_SPI_Register_Fails /\ Goto("failed")
        /\ UNCHANGED <<spiHandle, spi_bus_id>>
  /\ UNCHANGED <<dmaVars, dma_handle, chan_handle>>

\* A call of NU_SPI_DMA_Setup failed: it returns, and so does the caller.
SetupFails == Goto("failed") /\ UNCHANGED dma_handle

Open(dir, here, next) ==
  /\ step = here
  /\ \/ \E s \in CbIndex :
          /\ NU_DMA_Open_Succeeds(Ifspi, DmaIntf[dir].dev, s)
          /\ dma_handle' = [dma_handle EXCEPT ![dir] = s]
          /\ Goto(next)
     \/ NU_DMA_Open_Fails(DmaIntf[dir].dev) /\ SetupFails
  /\ UNCHANGED <<regVars, attempts, spiHandle, spi_bus_id, chan_handle>>

Acquire(dir, here, next) ==
  LET s == dma_handle[dir]
      p == DmaIntf[dir].peri
  IN  /\ step = here
      /\ \/ \E u \in User :
              /\ NU_DMA_Acquire_Channel_Succeeds(Ifspi, s, p, u)
              /\ Goto(next) /\ UNCHANGED dma_handle
         \/ NU_DMA_Acquire_Channel_Fails(Ifspi, s, p) /\ SetupFails
      /\ chan_handle' = [chan_handle EXCEPT ![dir] = HandleWritten(s, p, @)]
      /\ UNCHANGED <<regVars, attempts, spiHandle, spi_bus_id>>

NU_SPI_DMA_Setup ==
  \/ Open("tx", "open_tx", "open_rx")
  \/ Open("rx", "open_rx", "acquire_tx")
  \/ Acquire("tx", "acquire_tx", "acquire_rx")
  \/ Acquire("rx", "acquire_rx", "task")

\* Mutant: the task is created though the set-up failed.
CreateTask_Regardless ==
  /\ step \in {"task", "failed"}
  /\ Goto("running") \/ Goto("failed")
  /\ UNCHANGED <<regVars, dmaVars, attempts, spiHandle, spi_bus_id, dma_handle,
                 chan_handle>>

\* Memory for the stack and the session, and the task.
CreateTask ==
  /\ step = "task"
  /\ Goto("running") \/ Goto("failed")
  /\ UNCHANGED <<regVars, dmaVars, attempts, spiHandle, spi_bus_id, dma_handle,
                 chan_handle>>

IF_SPI_Tgt_Controller_Init ==
  (Register \/ NU_SPI_DMA_Setup \/ CreateTask) /\ UNCHANGED calls

Environment ==
  /\ calls < MaxCalls /\ calls' = calls + 1
  /\ \/ BusChange /\ UNCHANGED <<dmaVars, initVars>>
     \/ \E c \in Other :
          \/ RegCall(c) /\ UNCHANGED <<dmaVars, initVars>>
          \/ DmaCall(c) /\ UNCHANGED <<regVars, initVars>>

Next == IF_SPI_Tgt_Controller_Init \/ Environment

Spec == Init /\ [][Next]_vars
-----------------------------------------------------------------------------
(* Properties *)

Steps == {"down", "failed", "open_tx", "open_rx", "acquire_tx", "acquire_rx",
          "task", "running"}

\* Types of all variables.
TypeOK ==
  /\ RegTypeOK /\ DmaTypeOK
  /\ step \in Steps
  /\ attempts \in 0 .. MaxAttempts /\ calls \in 0 .. MaxCalls
  /\ spiHandle \in Handle \cup {None} /\ spi_bus_id \in 0 .. MaxBuses
  /\ dma_handle \in [Dir -> CbIndex \cup {None}]
  /\ chan_handle \in [Dir -> (CbIndex \X User) \cup {None}]

\* The IFSPI task has what IFSPI_Task_Entry uses without looking: two channels
\* of two open streams, for its peripherals, with their semaphores, and until its
\* handle goes stale one of its own device on the open bus it was registered on;
\* whatever failed before, and whatever other clients open, release, close and
\* unregister.  It uses the handle for good: that it does not outlive the
\* registration is up to the application.
TaskHasResources ==
  step = "running" =>
    /\ \A dir \in Dir :
         LET h == chan_handle[dir]
         IN  /\ h \in acquired[Ifspi]
             /\ cb[h[1]] = DmaIntf[dir].dev
             /\ chan[h[1]][h[2]] = DmaIntf[dir].peri
             /\ h[1] \in chan_semaphore
    /\ spiHandle \in held[Ifspi]
    /\ spiHandle \notin stale[Ifspi] =>
         LET b == bus[spiHandle[1]]
         IN  /\ devices[spiHandle[1]][spiHandle[2]].owner = Ifspi
             /\ spi_bus_id # 0 =>
                  /\ LWSPI_Get_Params_From_Handle(spiHandle)
                  /\ b.session /\ b.dev_id = spi_bus_id

\* A failed initialisation that had come as far as its first channel is final:
\* no later one succeeds before a restart, since nothing releases the channel.
FailureIsFinal ==
  [](step = "failed" /\ acquired[Ifspi] # {} => [](step # "running"))

\* A device that some client has had is lost with its last close: from then on
\* no client gets it, however often any of them tries.  So is a device whose
\* opening ran out of memory.
LostDevice ==
  \A d \in DmaDev :
    /\ [](HasCb(d) => [](~HasCb(d) => []~HasCb(d)))
    /\ [](d \in device_in_use /\ ~HasCb(d) => []~HasCb(d))
=============================================================================
