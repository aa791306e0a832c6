# Verification of the Ethernet–SPI bridge

TLA+ models, TLC runs and TLAPS proofs for the drivers of the Ethernet–SPI
bridge in this repository: an STM32F429 board that runs the Nucleus RTOS and
forwards IP packets between its Ethernet port and a network link carried over
SPI. `PROJECT.json` is the machine-readable index: which definition models which
lines, what every run checks, the mutant each property catches, the hazards of
the code and the findings.

Abbreviations of paths: `bsp/` is `src/iar_bsp/bsp/iar_stm32f429ii_sk/drivers/`,
`os/` is `src/iar_bsp/os/`.

## 1. The system

### Parts, state and operations

| Part | Source | State it keeps | Operations |
|---|---|---|---|
| Application | `src/eth_spi_bridge/src/eth_spi_bridge.c` | LED and web settings | start-up, main loop, web plugins that set an IP address and the LEDs |
| IFSPI driver | `bsp/ifspi/ifspi_tgt.c` | `tx_frame`, `rx_frame`, a pointer into the packet under transmission, the packet under reassembly and its size | `IFSPI_Task_Entry` (one pass: prepare, exchange, handle, sleep); initialisation; device hooks |
| Network stack (vendored) | `os/networking/` | `dev_transq`, `MEM_Buffer_Freelist`, `MEM_Buffer_List`, event group `Buffers_Available` | `ETH_Ether_Send`, `DEV_Recover_TX_Buffers`, `MEM_Buffer_Dequeue`, `NET_Demux` |
| LWSPI layer | `os/connectivity/lwspi/src/lwspi.c` | buses, devices and handles; per bus `bus_lock`, per device `async_io_lock`, two IRPs, two DMA requests | `NU_SPI_Register`/`Unregister`, `NU_SPI_Read`/`Write`/`Write_Read`/`Check_Complete`, `NU_SPI_DMA_Setup`/`Transfer` |
| LWSPI interrupt dispatch | `os/drivers/lwspi/lwspi_common.c` | ring `LWSPI_ISR_Queue`, one HISR | queue an instance in the LISR, serve it in `LWSPI_HISR_Entry` |
| SPI target driver | `bsp/lwspi/stm32/src/lwspi_tgt.c` | controller registers, `io_operation` | read, write, write-read in polled and interrupt mode, LISR, ISR functions, set-up |
| DMA service | `os/drivers/dma/dma.c`, `dma_common.c` | per channel a semaphore, two event bits, the current request; per stream a request list | `NU_DMA_Data_Transfer`, `DMA_Comp_Callback`, open/acquire/release/reset/close |
| DMA target driver | `bsp/dma/dma_tgt.c` | stream registers and flags | data transfer, LISR, HISR |
| Power management | `*_power.c` | device power states | power state call-backs |
| Nucleus kernel (vendored) | `os/kernel/` | semaphores, event groups, HISRs | as the drivers use them |

### How they interact

The stack queues a packet for the SPI interface on `dev_transq`; `dev_start` of
this driver does nothing. The IFSPI task polls: each pass it copies one buffer of
the head packet (or nothing) to a frame of fixed size and calls
`NU_SPI_DMA_Transfer`. That starts an asynchronous receive on one DMA channel,
then a synchronous send on another; the streams move the words through the SPI
data register, their LISRs and HISRs report completion to the service, which sets
an event (synchronous) or releases the channel's semaphore (asynchronous). The
frame received in exchange is appended to the packet under reassembly; when the
frame shows that this packet is over, it is put on `MEM_Buffer_List` and
`NET_Demux` is woken by an event. Other SPI devices would use the same LWSPI layer
through reads and writes, polled or interrupt driven. In this build there is one
bus and one device.

### What is hard here

* Packets cross in pieces, and the end of a packet is known only from the next
  frame, while both free lists are shared with everything else the stack does.
* A task's steps interleave with those of other tasks, with LISRs and with HISRs;
  semaphores are taken by a task and given back by a HISR, and some locks are taken
  after the operation they are to protect was initiated.
* `NU_SPI_DMA_Transfer` returns on the completion of the send only.
* Errors of the streams, requests that a driver refuses, counts of zero.

* The two ends of the link share no clock but the master's and come up at different
  times.
* Set-up takes nine calls of three services, each of which may fail, and undoes
  nothing; slots, handles, names and user counts outlive what they stand for.
* One ring and one HISR serve the interrupts of all buses.

The hazards are listed one by one, at their lines, in `PROJECT.json`.

### What makes the parts correct

* Link: packets are delivered in order, at most once and unmixed; complete and
  eventually if the buffers suffice; no buffer is leaked; no stale pointer is used;
  `NET_Demux` never sleeps over a packet.
* Bus: transactions exclude each other, `async_io_lock` is balanced, every
  interrupt belongs to a transaction, each transaction moves its words, calls
  return.
* DMA channel: one transfer at a time, a semaphore that somebody always gives back,
  events without left-overs, requests in order, calls return.
* SPI over DMA: no word is lost, all of them arrive at their places.
* Interrupt dispatch: an interrupt is served once and in its turn, no bus is
  forgotten with its interrupts masked.
* Registry and DMA devices: a handle is its holder's alone and refers to what it was
  given for; what is shared lives as long as its last user; what failed calls leave
  behind is known.
* Initialisation: a task that runs has everything it uses without looking.

## 2. The modules

| Module | Models | Composes |
|---|---|---|
| `IfSpiChannel` | abstract: what the link promises to the two stacks | |
| `IfSpiLink` | `IFSPI_Task_Entry` on both ends with the stacks' queues and buffers | implements `IfSpiChannel` |
| `IfSpiLink_proofs` | theorems about `IfSpiLink` | |
| `LwSpiBus` | reads and writes of one device by several tasks, target driver, LISR, HISR | |
| `LwSpiBus_proofs` | theorems about `LwSpiBus` | |
| `DmaChannel` | `NU_DMA_Data_Transfer` and the streams behind it | |
| `DmaChannel_proofs` | theorems about `DmaChannel` | |
| `SpiDma` | `NU_SPI_DMA_Transfer` word by word | `DmaChannel` |
| `SpiDma_proofs` | theorems about `SpiDma` | |
| `IfSpiFraming` | the frames of the two ends on the word stream, from power up on | |
| `IfSpiFraming_proofs` | theorems about `IfSpiFraming` | |
| `LwSpiIsrFifo` | abstract: what the interrupt dispatch promises to the drivers | |
| `LwSpiIsrQueue` | ring, LISRs of several buses, activations and loop of the HISR | implements `LwSpiIsrFifo` |
| `LwSpiIsrQueue_proofs` | theorems about `LwSpiIsrQueue` | |
| `SpiClients` | the clients of the two services and the search for a slot | |
| `LwSpiRegistry` | buses, devices and handles of the LWSPI layer | `SpiClients` |
| `DmaDevices` | opening, closing, acquiring and releasing of the DMA service | `SpiClients` |
| `IfSpiInit` | `IF_SPI_Tgt_Controller_Init` and `NU_SPI_DMA_Setup` | `LwSpiRegistry`, `DmaDevices` |
| `SpiServices_proofs` | what every call of `DmaDevices` and `LwSpiRegistry` preserves | |
| `IfSpiInit_proofs` | theorems about `IfSpiInit` with the two services | `SpiServices_proofs` |
| `...MC` | constants for TLC | |

### IfSpiLink

One step of the model is one stretch of the task that no other party can observe
in the middle. `pc` is the place in the loop of `IFSPI_Task_Entry`:

* `prep` – `TxBlank`, `TxFirst`, `TxNext`, `TxEmpty` are the branches that build
  the frame. `SendSegment` copies a buffer, writes the clamped length back,
  advances `buf_ptr` and calls `DEV_Recover_TX_Buffers` after the last buffer.
* `xfer` – `Exchange` is the transfer, both ends at once.
* `rx`, `notify` – `RxDispatch` and `RxNotify` hand a complete packet over;
  `RxFirst` and `RxNext` take up
  the received data, `RxIgnore` is a frame without use.
* `sleep` – the master's `NU_Sleep(1)`.

`ETH_Ether_Send`, `DemuxInput`, `DemuxEmpty` and `DemuxWake` are the stack.
A packet's bytes are abstracted to the buffer they come from; all lengths are
kept, and so is the difference between the data areas of a parent and of a child
buffer. `sent` and `received` are history variables.

`IfSpiChannel` has, for each direction, the sequence of packets sent and the
sequence received. It lets a receiver deliver only a packet that was sent after
those delivered before, in a form the loss of segments explains. Its lossless
variant delivers every packet whole. The refinement mapping reads the history
variables.

### LwSpiBus

Every kernel call of a task is a step, so that tasks interleave between any two of
them: test of `async_io_lock`, claim of `bus_lock`, initiation by the target
driver, late lock of `async_io_lock`, release; and the calls of
`NU_SPI_Check_Complete` likewise. `Shift` is the controller, `LWSPI_TGT_LISR` and
`LWSPI_HISR_Entry` the interrupt. Words are the positions they have in the
caller's buffer.

### DmaChannel

`Enter` (arguments, semaphore), `Timeout`, `Setup` (DMA_CHANNEL, request list,
ioctl), `Await` and `SyncReturn` are the steps of a call; `StreamDone` and
`StreamError` the hardware; `DMA_Tgt_LISR` and `DMA_Tgt_HISR` the interrupt, with
`DMA_Trans_Complete` and `DMA_Comp_Callback` inside the HISR's step as in the
code. Every stream is a device of its own in this driver, so the request list of a
stream has at most the one channel; a second insertion would link it to itself,
which the model keeps as the value `looped`. `cur_req_length` wraps as the
`UINT32` does, with a small number in the place of 0xFFFFFFFF.

### SpiDma

`Populate` fills the device's request structures, `CallRx` and `CallTx` are the two
calls of the service as `DmaChannel` has them, `Program` copies a request structure to the stream; `TxMove`,
`Clock` and `RxMove` are the words' way through the transmit register, the shift
register and the receive register. A word bears the transfer it belongs to and its
position.

### LwSpiIsrQueue

The ring with its two pointers and its status, written and read as in
`lwspi_common.c`, under the kernel's activation count: `LWSPI_TGT_LISR` masks the
interrupts of its instance, queues it and counts an activation; `HisrGet`,
`HisrServe` and `HisrReturn` are the parts of one turn of `TCCT_HISR_Shell`'s loop
between which a LISR of another bus may come. `LwSpiBus` has one bus, and a counter
in the place of this ring; here a transaction is the number of words it has left.
The status is static data and has none of its three values at first, so that the
code would take an empty ring for one with data; `ActivationPerEntry` shows that the
HISR never looks at that moment. `LwSpiIsrFifo` is a sequence and what the HISR
has in hand; the refinement mapping reads the sequence off the pointers and the
status.

### LwSpiRegistry, DmaDevices and IfSpiInit

`LwSpiRegistry` has `SPI_Bus_CB` slot by slot. `BusArrives` and `BusLeaves` are the
device manager's notifications with the whole of `LWSPI_Bus_Register` and
`LWSPI_Bus_Unregister`: a slot keeps the name and the id of a bus that is gone, and
a bus that can not be opened keeps its slot used. `NU_SPI_Register` succeeds, fails
before it has a slot, or is refused with the device in its slot.

`DmaDevices` has `DMA_Device_Handle`, the user counts, the users and the semaphore of
each device's channel, and the target driver's `device_in_use`. `NU_DMA_Open` shares a
device that is open, opens one, is refused, or runs out of memory after the target
driver has opened it; `NU_DMA_Acquire_Channel` also fails in its last call, with the
user enabled; `NU_DMA_Close` counts down or frees everything.

`IfSpiInit` puts the two together: `Register`, `Open`, `Acquire` and `CreateTask` are
the calls of `IF_SPI_Tgt_Controller_Init` and `NU_SPI_DMA_Setup` in their order, each
with its failure, and between any two of them buses come and go and other clients
register, open, acquire, release and close. The history variables `held`, `opens` and
`acquired` record what each client was given.

Nobody tells a client that its bus is gone: it keeps its handle, which is then in
`stale`. The next bus and device of the slot make the same number valid again, so that a
stale handle may pass `LWSPI_Get_Params_From_Handle` and reach another client's device on
another bus, and `NU_SPI_Unregister` with it removes that device, whose own handle goes
stale in turn. All of this is in the model. `IFSPI_Task_Entry` never stops using its
handle, so `TaskHasResources` says how long it is good and promises nothing afterwards:
that the bus outlives the task is up to whoever stops the SPI component
(`lwspi_tgt.c:203`, the only place from which a bus is removed).

Assumed of the clients: they use and give back only what they were given, stale or not;
nobody unregisters in the middle of a transaction. Assumed of the build: DMA is enabled for the bus, the IFSPI configuration
is valid, `LWSPI_IOCTL_GET_BUS_INFO` always answers, and the callers pass the device id
as the channel id, as the target driver requires, so that a device has one channel.

### IfSpiFraming

A word is its place in the frame of its sender. `PowerUp` and `SyncLink` bring an end
up to its loop; `Receive` and `Send` program its two streams for one frame, and `Process`
is the return of the call, which waits for the sending stream only: up to two words of the
frame are then still on their way (`spi_dma_early` is about the same code). `Clock` moves a
word each way. A word that comes while no stream of the slave is programmed stays in its
data register, where the next `Receive` finds it, or is lost if the register is full.
Nothing in the model makes the master wait for the slave: it sleeps for a tick between
frames, which may be shorter than a pass of the slave.

## 3. The runs

### Passing

| Run | Question | Instance |
|---|---|---|
| `link_lossy` | Does the link keep its promise when receivers run out of buffers in the middle of packets, also with empty buffers at chain ends, and is every queued packet transmitted? | 3 buffers per end, packets of 1 and of 3 buffers, 2 packets one way and 1 the other |
| `link_lossless` | Is every packet delivered complete, in order and eventually if the buffers suffice? | 6 buffers, packets of 1 and 2 buffers |
| `bus_concurrent` | Are transactions exclusive, the locks balanced and do all calls return, in all interleavings? | 2 tasks, no interrupt-mode write-read |
| `bus_single` | What does a single task get, all calls and modes included? | 1 task, lengths from 0 to 3 |
| `dma_channel` | Do semaphore, request list, event and stream of a channel agree, also after timeouts, refusals and errors, and do calls return unless the channel is lost? | 3 tasks, synchronous requests, batches, continuous and refused requests |
| `isr_queue` | Is every interrupt served once, in order, and does every transaction end, with several buses on one ring? | 2 buses, transactions of 1 to 3 words |
| `spi_setup` | Does a running task have what it uses, what do failures leave behind, and what is lost for good? | 2 streams, 1 other client, 2 attempts, 6 steps of everybody else, 2 buses in turn for 1 slot with 2 devices |
| `spi_dma_transfer` | Is a received word ever lost or misplaced, and does every transfer arrive completely, and all but its last words before the call returns? | the IFSPI task, 4 transfers of 5 words |

`link_lossy` shows that running out of buffers costs packets or segments and
nothing else: what arrives is made of the right buffers of one packet, in order. A
receiver that is out of buffers for one continuation still announces the packet,
with a hole in it: `IfSpiChannel` allows that, because the code does it
(`ifspi_tgt.c:1066-1084`). `QueueDrains` has one exception, an empty buffer inside a
chain, at which the task stops for ever. `CallsReturn` of `DmaChannel` has one too:
a channel whose request was refused, met an error or is continuous stays taken, and
so does one given a request count of zero, which the HISR decrements to the value
that means continuous.

`isr_queue` shows that the ring, which has two entries per bus, never holds more than
one per bus, so that the refusal of a full ring, which nobody looks at, can not happen.

`spi_setup` shows what initialisation can rely on and what it costs to fail. A refused
registration occupies its slot for good: not even the removal of the bus frees it
(`SlotsAccounted`). A handle is good for the bus it was given for until that bus leaves,
or another client unregisters an equal stale handle (`HandleIsOwn`); as long as no bus has
left none goes stale. The exception in `HandleIsOwn` is a registration on a bus that is
already gone, which `LWSPI_Find_Bus_Slot_By_Name` allows because it does not look at
`is_used` (`lwspi.c:472`). `FailureIsFinal` and `LostDevice` state limits of the code: once
the first channel is acquired, a failure of any later step can not be repaired by
initialising again, and a stream that was closed by its last user, or whose control block
could not be allocated, is lost to every client until the board restarts
(`dma_tgt.c:657`, `dma.c:153`). With a close that clears `device_in_use` the property is
violated.

The types of `IfSpiLink` and `LwSpiBus` are proved (section 4) and not checked again by
their runs.

### Violations: the code does not do what its own text says

| Run | Text | What happens |
|---|---|---|
| `link_oversized` | "This condition should NEVER happen" (`ifspi_tgt.c:961`) | every full child buffer is larger than a frame by the buffer header and is truncated |
| `bus_overlap` | "will return NU_SPI_BUSY if the current SPI operation isn't completed" (`lwspi.c:1331`) | an interrupt-mode `NU_SPI_Write_Read` releases the bus while it is in progress, and a task that had already passed the test of `async_io_lock` begins a second transaction over it |
| `spi_dma_early` | "block thread for transfer completion" (`lwspi.c:875`) | the call returns with up to three words still on their way (two in the registers of the transmitter, one in the data register) |
| `framing_powerup` | "The sync process will make sure framing lines up on asynchronous master/slave interface power up" (`ifspi_tgt.c:909`) | the block is empty; a slave that comes up while the master is sending reads shifted frames for ever |

In `framing_powerup` the slave's controller is enabled before its task programs a stream:
a word of the master's frame stays in its data register, the words behind it are lost,
and the slave's first frame begins with that word and goes on with the master's next frame.
The property asks only for behaviours in which the slave, once it has begun, is never late
again (`[]SlaveKeepsUp`): even then the shift stays. If the slave has both streams
programmed whenever the master begins a frame, the first included, the frames do line up;
`IfSpiFraming_proofs` proves it for frames of any length. The master's sleep of one tick
between frames is what the code has for that, and no guarantee of it.

The models show three more places where the code differs from its text, for which no
run is kept: `LWSPI_TGT_ISR_Read` advances a local copy of the buffer pointer, so that
every word of an interrupt-mode read goes to the first place of the buffer
(`lwspi_tgt.c:1017-1033`); `DMA_Comp_Callback` sets the event of a synchronous call
after each request of a batch, so that the call returns after the first
(`dma.c:901-922`); and `DMA_Tgt_HISR` only notes a transfer error, so that the error
event a synchronous caller waits for is never set (`dma_tgt.c:1465-1494`). The first is
why `TransferWhole` leaves interrupt-mode reads out; the third is among the exceptions of
`CallsReturn`.

### Bounds and why they are enough

* *Link.* The number of packets is bounded by `MaxSends`; the control of a pass
  depends only on the head of the queue, the packet under reassembly and whether
  the next frame begins another packet, so two packets in one direction against one
  in the other reach every combination: blank after packet, packet after packet,
  and both while the free list is empty. A frame holds 2 units and the buffer header
  is 1, which keeps the order of the real sizes (128 and the header) and lets chains
  of one, two and three buffers occur. The buffers are scarce or sufficient
  according to the question: with 3, an end that has queued a packet itself can not
  receive one of three buffers.
* *Bus.* Two tasks suffice for every conflict over two locks; a third would only
  queue behind the second. Lengths 0 to 3 in `bus_single`
  contain the empty, the single, the first and the last word and a middle one; the
  concurrent run uses 1 and 2. The theorems about this module have no bound.
* *DMA channel.* Channels share no state, so one is checked; three tasks give one
  user and a queue of two, where a timeout can hit either place. 5 stands for
  0xFFFFFFFF, above every batch.
* *SPI over DMA.* At most two words are in the pipe and one in the receive register,
  so five words let a transfer begin while the last words of the previous one are
  under way, fill the pipe and reach the steady state. The IFSPI task is the only
  user of this build. A second task on the same device would overwrite the request
  structures of the first (`lwspi.c:925`).

* *Interrupt dispatch.* Two buses make the ring wrap and LISRs come while the HISR is
  at each of its three places; each bus is in at most one place, so a third only adds
  entries. Three words contain a first, a middle and a last one.
* *Set-up.* Two attempts are the first and a repetition after each failure; two
  streams are what a set-up uses, with one control block each; one other client makes
  every sharing of a device, and the third peripheral the second user of a channel.
  Six steps of the others (`MaxCalls`) let a client open, acquire, be refused, release
  and close, or a bus leave and another one take its slot, before, between or after
  the steps of an attempt. The model is the same for two slots, which were checked with
  one device per bus and three arrivals.
* *Framing.* With four words per frame the call returns with two of them through and two
  on their way, and the slave can come up before each of them.

### Fairness

Weak fairness only. Tasks: the scheduler runs a ready task in the end (the drivers'
tasks block or sleep, and the IFSPI task sleeps every pass on the master and waits
for the master on the slave). `Exchange`: both ends loop for ever and the transfer
of the master clocks that of the slave. Interrupts: a pending LISR is served at
once, and an activated HISR has a higher priority than any task. Hardware: an enabled stream without an error
finishes, the SPI clock shifts a word. `IfSpiFraming` has both ends come up in the
end: a violation in which one stays off would say nothing. No fairness is assumed for
the start of a call, for the sending of a packet, for timeouts, or for errors.

## 4. The proofs

Every theorem is for all values of the constants that satisfy the assumptions named
in the component modules (`SizesAssumption`, `TaskAssumption`, `ChannelAssumption`,
`SpiDmaAssumption`, `InstAssumption`, `DmaAssumption`, `RegistryAssumption`,
`SetupAssumption`), which TLC evaluates on the runs' instances. They say that sizes are
positive, that sets of tasks, buses and slots are finite and that the "nothing" values
are no members of them. Some theorems need further hypotheses, named in the
theorem; each is discussed below with what happens without it. Except in
`IfSpiFraming`, `Spec` has no fairness in it.

### IfSpiLink_proofs

* `PointerIsLive`: `Spec => [](TypeOK /\ TxPointerLive)`. The two have to be proved
  together: a step that reads through the stale pointer would not even keep the
  types, and the pointer stays live because only `SendSegment` removes the head of
  the queue, which it does exactly when it clears the pointer. `ChainOfType` rests on
  arithmetic lemmas about division.
* `WireAlwaysFits`: no frame announces more than `IF_SPI_BUF_SIZE`, thanks to the
  clamp alone.
* `NeverSleepsOverPacket`: when `NET_Demux` waits with a packet on its list, the
  event is set or the task is just about to set it.
* `LinkIsChannel`: `Spec => ImplementsChannel`. The link implements the abstract
  channel in both directions, also with packets that are truncated, empty buffers and
  receivers that run out of buffers in the middle of a packet.

The invariant behind `LinkIsChannel` is `Link(e, r)`, for each direction. The abstract
channel asks, at the moment a packet is handed to the stack, for a packet that was sent
later than those delivered before and whose buffers explain every piece received. At
that moment the sender has long forgotten it, so the invariant follows the pieces all
the way: what is still queued is the end of what was sent (`QueueOK`), what is under
reassembly are pieces of one packet in ascending order (`HeadOK`), the frame received
and the frame to be sent are pieces that continue it or begin a later packet (`RxOK`,
`TxOK`), the pointer is at a buffer behind the last one on its way (`PtrOK`), and nothing
is on its way of packets not yet begun (`SeenOK`). A step of one end changes the sender's
part of one direction and the receiver's part of the other; each action has a lemma for
the direction it changes and `SameKeeps` is for the other one.

`NoBufferIsLost` and `TotalsAreSums` are about sums over sequences of any length. A sum
written as a fold would need an induction over data, which the provers can not do; `Sum`
is therefore the number of units in the buffers, the cardinality of a set of pairs, and
its laws (`SumEmpty`, `SumGrows`, `SumShrinks`, `SumBound`) follow from the library's
theorems about finite sets. `BuffersConserved` is inductive with the types, the live
pointer and the size of frames: a buffer comes back with the last frame of its packet,
which `SendSegment` knows by the pointer only, and a received frame takes a buffer only
into the chain because it is never too large for the one dequeued. `TotalLength` needs
`SizeOK` with it: `pktSize` is the sum over the packet under reassembly, also when a
segment was dropped.

`LosslessWhileBuffersLast` and `LosslessWithPool`: `Spec => ImplementsLosslessChannel`
under hypotheses without which it is false. The first theorem names what must not happen:
a frame with data to keep that finds the free list empty (`[]BuffersSuffice`, a condition
on the behaviour; with 3 buffers TLC finds behaviours that meet it and behaviours that do
not), and a queued buffer that is empty or larger than a frame (`ChainsFit`; see
`link_oversized` for the large ones, and `QueueDrains` for the empty ones). The second
replaces the behaviour's condition by one on the constants, two buffers in each pool for
every packet that the two stacks send; `link_lossless` is the instance of it with three
packets and 6 buffers. `Link` is too weak for either: it says that the next piece is a
later one, and here it has to be the next one. The invariant `Exact(e, r)` walks the way
from the receiver to the sender. `DueHead` is the piece that must follow what the receiver
has, `DueRx` the one that must follow the frame received, `DueTx` the one that must follow
the frame to be sent; each stage brings the piece the one before is due, or nothing
between packets, and what is due behind the last stage is what the sender's pointer, or
the head of its queue, will give. `CompleteHead` is the step where it pays: when a
first segment or a blank frame comes, nothing of the packet under reassembly is missing.
`PoolSuffices` gets the buffers from `NoBufferIsLost`: what an end has queued, what it
has given to its stack, and what it is assembling are too few packets, of two buffers
each, to fill the pool as long as a buffer is still due.

### LwSpiBus_proofs

For every finite set of tasks and any set of calls under the hypothesis
`NoAsyncWriteRead` (no `NU_SPI_Write_Read` in interrupt mode; `bus_overlap` shows
that `BusIsSafe` is false without it): `BusIsSafe`, `AsyncLockAccounted`,
`HisrServesTransaction`, `TransfersAreWhole` and `TypesHold`. All but the first also hold
for a single task with every call (`NobodyOverlaps` is the one or the other): such a task
gives back the bus over its interrupt-mode `NU_SPI_Write_Read`, but its next call finds
`async_io_lock` taken until the HISR is done, and there is nobody else to claim the bus.

The inductive invariant `IndInv` adds the types, for each
place in a call whether its task owns the bus, or is alone, and in which mode it is
(`TasksOK`),
and that the suspension list holds exactly the suspended tasks, each once
(`SuspendedAt`). `AsyncLockBalance` counts the tasks that hold, will hold or owe an
instance of the semaphore; `BalanceChange` computes how a step of one task changes
that sum and every action's proof uses it. `LockedExcludes` is the heart: while one
interrupt transaction is locked, nobody can have passed the test of `async_io_lock`
and claimed the bus.

`TransfersAreWhole` needs a second invariant on top, `DataOK`: for a task in a polled loop,
how far its IRPs and its local pointer are and which words are stored or sent by then; for
an interrupt-mode write that the HISR is exactly one word ahead of the IRP. Exclusion is
what makes it inductive, because the IRPs belong to the device and not to the task; a task
that is alone has it for nothing.

### DmaChannel_proofs

`SemaphoreAccounted`, `HisrFindsRequest`, `StreamAtRestBeforeSetup`, `EventIsAwaited`,
`AllRequestsExecuted` and `TypesHold`, for any number of tasks and channels and with
timeouts, refusals, errors, batches and continuous requests. The hypothesis `SyncIsSingle`
says that a synchronous call is for one request: with a batch the completion of its first
request already wakes the caller (`dma.c:901-922`), who then gives back a channel whose
stream goes on. The asynchronous batches are not restricted.

The invariant says for each channel: who has it (`OwnerOK`: its semaphore is free, one
task uses it, or a request that outlived its call does), what the user finds there at each
of its steps (`UserOK`), that a stream with anything active has its request on the list
and has executed the requests before the current one (`StreamOK`), and who is suspended on
it (`WaitOK`). A step changes one channel; the `Frame` lemma disposes of the others.

### SpiDma_proofs

`NoWordIsLost`, `BufferStaysInOrder`, `OnlyLastWordsAreMissing` and `TypesHold`, for any
length and number of transfers of one task (`Task = {t}`). The request structures belong to the device and are
filled before any semaphore is taken (`lwspi.c:925`), so a second task on the device would
redirect the transfer of the first; in this build only the IFSPI task uses DMA. The
invariant relates the caller's step to the two channels (`Control`) and to the words
(`Data`): a stream is programmed for the current transfer or still for the one before,
words are on their way only if both streams are in the same transfer, and these words
are exactly those sent and not yet received. That is why a transfer can begin while the
receive of the last one is still running: the second receive has to wait for the
semaphore, and the send for the receive.

`BufferStaysInOrder` says that the buffer holds words of one transfer or of two
consecutive ones, the later in front, and `OnlyLastWordsAreMissing` that when the call
returns only the words which the two registers of the transmitter and the data register
can hold are missing (`ReturnWhat` reads it off `Data`). `BlocksForCompletion`, which asks
for all words, is what `spi_dma_early` refutes.

### LwSpiIsrQueue_proofs

`EveryEntryHasActivation`, `TransactionInOnePlace`, `TypesHold`, `RingNeverFull` and
`RefinesFifo`, for any number of buses. `InOnePlace` counts; the
invariant states it without counting (`Places`: the entries of the ring are different
buses, and a bus is in one place). From that follows `RingNeverFull`: the ring has two
places per bus and needs one, so that the result `LWSPI_TGT_LISR` does not look at is
always good. The arithmetic of the two wrapping pointers is in `SetStep` and `GetStep`, which
say what the two queue functions do to the sequence of entries; `RefinesFifo` is then read
off these lemmas. It is `ImplementsFifo` without its fairness.

### IfSpiFraming_proofs

The run `framing_powerup` shows that nothing lines the frames up. The theorems say what
would be enough, for every frame length, under the one hypothesis `[]SlaveReady`: both
streams of the slave are programmed when the master begins a frame. The code does not see to
it; the master's sleep makes it likely from the second frame on.

* `FramesLineUp`: what either end has received of its frame lies at its place, though each
  task looks at the frame before its last words are there;
* `TransfersAreOneExchange`: while the master clocks, the slave is at the same word of its
  frame, and no word waits in the data register. It is what `IfSpiLink` takes for granted
  when it exchanges two frames in one step.

The inductive invariant says where the slave can be when the master is at a given word: with
both of its streams at the same word, in its transfer or past its return; or, when the
master's frame is over, anywhere up to waiting for the next one. The
hypothesis is used at the first `Clock` of a frame. `Spec` of this module has fairness; the
proofs do not use it.

### SpiServices_proofs, IfSpiInit_proofs

The first has a lemma for every call of the two services: whoever makes it, `DmaInv` and
`RegInv` stay true. `DmaInv` is `OpensCounted` and `HolderHasChannel` with the types, the finiteness
of the openings counted, and that a free control block has no channel user. `RegInv`
has what a handle refers to that has not gone stale (`HeldOK`), that every registered device
has such a handle with its owner (`RegisteredOK`), that a session is that of a bus that
arrived (`SessionOK`), that the slots left by refused registrations are as many as were
refused and not removed with a stale handle (`LeftOK`), and that it takes the removal of a
bus to make a handle stale (`StaleOK`, which needs that ids are not used twice).
`IfSpiInit_proofs` adds what the driver has in its hands at each of its steps (`SetupOK`)
and puts them together for any numbers of slots, clients, streams, users and attempts:

* `HandlesAreOwn`, `SlotsAreAccounted`, `OpeningsAreCounted`, `HoldersHaveChannels`,
  `TypesHold` and `TaskIsEquipped`, the last of which is about both services at once;
* `LostDevicesStayLost`, the temporal property `LostDevice`: a control block's device is
  taken for open (`CbIsOpen`), nothing ends that, and without a control block such a device
  gets none;
* `FailedForGood`, the temporal property `FailureIsFinal`: `Stuck` (the transmit channel is
  acquired and the set-up is not beyond acquiring it again) is never left.

### Only model-checked

* Liveness: `EventuallyReceived`, `QueueDrains`, both `CallsReturn`, `TransferReceived`,
  `TransactionsEnd` and the fairness part of `ImplementsFifo`. Fairness and `ENABLED` are
  out of the prover's reach.
* The runs that expect a violation.

Every safety property that a passing run checks is stated by a theorem, some of them under
a hypothesis that is discussed with the theorem.

## 5. Not modelled

What is left out, and why:

* register programming, clock set-up and baud rates of the target drivers, and the
  look-up of their settings in the registry: sequences of register writes and reads of
  configuration without a state of their own;
* power management: most call-backs are empty or commented out, and in this build none
  touches a transfer;
* the application: start-up, an LED loop, and two web plugins that format and parse
  text for the HTTP server;
* `NU_DMA_Reset_Channel`, which nothing calls, and `NU_SPI_Set_Slave_Select_Index`,
  which sets a field the STM32 driver does not read;
* the vendored rest of Nucleus (file system, USB, graphics, TCP/IP, shell, security),
  which is by far the largest part of the repository and not the bridge's own logic.

Simplifications of what is modelled: the link's exchange is atomic and never fails, and
its frame is complete when the task looks at it (see `spi_dma_early`); the
device of `LwSpiBus` is powered and meets no controller error; the receiving stream of
`SpiDma` fetches a word before the next one is complete; registrations are steps, not
interleaved inside, though `LWSPI_Find_Vacant_Device_Slot` tests, allocates and fills a slot
without a lock (`lwspi.c:409-422`): in this build the IFSPI driver is the only caller of
`NU_SPI_Register`, while it is initialised.
