----------------------------- MODULE IfSpiLink -----------------------------
(***************************************************************************)
(* The network-over-SPI link: the IFSPI task of ifspi_tgt.c running on the  *)
(* two ends of one SPI bus, with the parts of the network stack it shares   *)
(* state with.                                                              *)
(*                                                                          *)
(* Each pass of the task builds one frame from the head of the device's     *)
(* transmit queue (or a blank one), exchanges it with the peer by a full    *)
(* duplex DMA transfer, and feeds the received frame to the reassembly of   *)
(* packets for the stack.  The stack queues packets, and NET_Demux takes    *)
(* the reassembled ones off MEM_Buffer_List.                                *)
(*                                                                          *)
(* The bytes of a packet are abstracted to the pair (packet, buffer of its  *)
(* chain) they come from; lengths are kept.  The DMA exchange is atomic     *)
(* and both ends take part in it: word alignment of the two ends is not     *)
(* part of this module.                                                     *)
(***************************************************************************)
EXTENDS Naturals, Sequences, FiniteSets

CONSTANTS
  NET_PARENT_BUFFER_SIZE, \* CFG_NU_OS_NET_STACK_BUF_SIZE
  BUFHDR_SIZE,            \* sizeof(struct _me_bufhdr)
  MAX_BUFFERS,            \* buffers in each end's MEM_Buffer_Freelist
  PacketSizes,            \* sizes of the packets the stacks send
  EmptyTails,             \* may a chain end in an empty buffer?
  MaxSends                \* MaxSends[e]: packets sent by end e (a bound)

Endpoint == {"master", "slave"}  \* SPI_CFG_DEV_MASTER, SPI_CFG_DEV_SLAVE

Peer(e) == IF e = "master" THEN "slave" ELSE "master"

IF_SPI_BUF_SIZE == NET_PARENT_BUFFER_SIZE

NET_MAX_BUFFER_SIZE == NET_PARENT_BUFFER_SIZE + BUFHDR_SIZE

ASSUME SizesAssumption ==
  /\ NET_PARENT_BUFFER_SIZE \in Nat \ {0}
  /\ BUFHDR_SIZE \in Nat \ {0}
  /\ MAX_BUFFERS \in Nat
  /\ PacketSizes \subseteq Nat \ {0}
  /\ EmptyTails \in BOOLEAN
  /\ MaxSends \in [Endpoint -> Nat]

VARIABLES
  pc,               \* where each end's IFSPI_Task_Entry is in its loop
  transq,           \* device->dev_transq: packets [id, lens], head first
  buf_ptr,          \* the task's local pointer into the head packet's chain
  tx_frame,         \* tgt_ptr->tx_frame
  rx_frame,         \* tgt_ptr->rx_frame
  headP,            \* packet being reassembled (<<>> is NULL)
  pktSize,          \* its length so far
  MEM_Buffer_List,  \* reassembled packets [total, chain] for NET_Demux
  free,             \* length of MEM_Buffer_Freelist
  bufs_available,   \* bit 2 of the event group Buffers_Available
  demux,            \* where NET_Demux is in its loop
  sent,             \* history: the chain of every packet queued, by id
  received          \* history: what NET_Demux took off MEM_Buffer_List

taskVars  == <<pc, buf_ptr, tx_frame, rx_frame, headP, pktSize>>
stackVars == <<transq, MEM_Buffer_List, free, bufs_available>>
vars == <<taskVars, stackVars, demux, sent, received>>

-----------------------------------------------------------------------------
(* Frames and buffer chains *)

\* A reference to one buffer of a packet's chain; packet 0 is NU_NULL.
BufRef == [id : Nat, seg : Nat]
NU_NULL == [id |-> 0, seg |-> 0]

Frame == [FS : BOOLEAN, len : Nat, data : BufRef]
IFSPI_FRAME_BLANK == [FS |-> FALSE, len |-> 0, data |-> NU_NULL]

Packet  == [id : Nat \ {0}, lens : Seq(Nat) \ {<<>>}]
Segment == [data : BufRef, len : Nat]
Received == [total : Nat, chain : Seq(Segment)]

AtMost(n, bound) == IF n > bound THEN bound ELSE n

\* How many buffers MEM_Buffer_Chain_Dequeue links behind the parent.
ChildBuffers(nbytes) == (nbytes + BUFHDR_SIZE - 1) \div NET_MAX_BUFFER_SIZE

\* data_len of each buffer of the chain once MEM_Copy_Data has filled it:
\* a child buffer also uses the room of the parent's header.
ChainOf(nbytes) ==
  [i \in 1 .. ChildBuffers(nbytes) + 1 |->
     IF i = 1
       THEN AtMost(nbytes, NET_PARENT_BUFFER_SIZE)
       ELSE AtMost(nbytes - NET_PARENT_BUFFER_SIZE
                     - (i - 2) * NET_MAX_BUFFER_SIZE, NET_MAX_BUFFER_SIZE)]

\* The chains the stack may queue.
Chains ==
  LET full == {ChainOf(n) : n \in PacketSizes}
  IN  full \cup (IF EmptyTails THEN {Append(c, 0) : c \in full} ELSE {})

-----------------------------------------------------------------------------
Init ==
  /\ pc = [e \in Endpoint |-> "prep"]
  /\ transq = [e \in Endpoint |-> <<>>]
  /\ buf_ptr = [e \in Endpoint |-> NU_NULL]
  /\ tx_frame = [e \in Endpoint |-> IFSPI_FRAME_BLANK]
  /\ rx_frame = [e \in Endpoint |-> IFSPI_FRAME_BLANK]
  /\ headP = [e \in Endpoint |-> <<>>]
  /\ pktSize = [e \in Endpoint |-> 0]
  /\ MEM_Buffer_List = [e \in Endpoint |-> <<>>]
  /\ free = [e \in Endpoint |-> MAX_BUFFERS]
  /\ bufs_available = [e \in Endpoint |-> FALSE]
  /\ demux = [e \in Endpoint |-> "process"]
  /\ sent = [e \in Endpoint |-> <<>>]
  /\ received = [e \in Endpoint |-> <<>>]

-----------------------------------------------------------------------------
(* The stack *)

\* A task sends a packet: its buffers come off the free list, and
\* ETH_Ether_Send queues it with interrupts disabled.  dev_start of this
\* driver has nothing to do.  Without enough buffers nothing changes.
ETH_Ether_Send(e) ==
  /\ Len(sent[e]) < MaxSends[e]
  /\ \E lens \in Chains :
       /\ Len(lens) <= free[e]
       /\ free' = [free EXCEPT ![e] = @ - Len(lens)]
       /\ transq' = [transq EXCEPT ![e] =
                       Append(@, [id |-> Len(sent[e]) + 1, lens |-> lens])]
       /\ sent' = [sent EXCEPT ![e] = Append(@, lens)]
  /\ UNCHANGED <<taskVars, MEM_Buffer_List, bufs_available, demux, received>>

\* NET_Demux hands the first packet of the list to dev_input, which takes it
\* off the list; the protocols end by freeing its chain.
DemuxInput(e) ==
  /\ demux[e] = "process"
  /\ MEM_Buffer_List[e] # <<>>
  /\ LET pkt == Head(MEM_Buffer_List[e]) IN
       /\ received' = [received EXCEPT ![e] = Append(@, pkt)]
       /\ free' = [free EXCEPT ![e] = @ + Len(pkt.chain)]
  /\ MEM_Buffer_List' = [MEM_Buffer_List EXCEPT ![e] = Tail(@)]
  /\ UNCHANGED <<taskVars, transq, bufs_available, demux, sent>>

\* It found the list empty, and goes to wait for the event.
DemuxEmpty(e) ==
  /\ demux[e] = "process"
  /\ MEM_Buffer_List[e] = <<>>
  /\ demux' = [demux EXCEPT ![e] = "wait"]
  /\ UNCHANGED <<taskVars, stackVars, sent, received>>

\* NU_Retrieve_Events with NU_OR_CONSUME.
DemuxWake(e) ==
  /\ demux[e] = "wait"
  /\ bufs_available[e]
  /\ bufs_available' = [bufs_available EXCEPT ![e] = FALSE]
  /\ demux' = [demux EXCEPT ![e] = "process"]
  /\ UNCHANGED <<taskVars, transq, MEM_Buffer_List, free, sent, received>>

-----------------------------------------------------------------------------
(* IFSPI_Task_Entry: prepare the frame to transmit *)

\* Mutant: only the parent buffer of the chain is freed.
DEV_Recover_TX_Buffers_ParentOnly(e) ==
  /\ transq' = [transq EXCEPT ![e] = Tail(@)]
  /\ free' = [free EXCEPT ![e] = @ + 1]

\* Take the head packet off the transmit queue and free its chain.
DEV_Recover_TX_Buffers(e) ==
  /\ transq' = [transq EXCEPT ![e] = Tail(@)]
  /\ free' = [free EXCEPT ![e] = @ + Len(Head(transq[e]).lens)]

\* Mutant: no protection of the frame's boundary.
Clamp_None(data_len) == data_len

\* The buffer boundary is protected before the copy.
Clamp(data_len) == AtMost(data_len, IF_SPI_BUF_SIZE)

\* Mutant: the packet is given back after each buffer, not after the last.
SendSegment_EarlyRecover(e, k, fs) ==
  LET pkt == Head(transq[e]) IN
  /\ tx_frame' = [tx_frame EXCEPT ![e] =
       [FS |-> fs, len |-> Clamp(pkt.lens[k]),
        data |-> [id |-> pkt.id, seg |-> k]]]
  /\ buf_ptr' = [buf_ptr EXCEPT ![e] =
       IF k < Len(pkt.lens) THEN [id |-> pkt.id, seg |-> k + 1] ELSE NU_NULL]
  /\ DEV_Recover_TX_Buffers(e)

\* Mutant: the packet is never given back.
SendSegment_NoRecover(e, k, fs) ==
  LET pkt == Head(transq[e]) IN
  /\ tx_frame' = [tx_frame EXCEPT ![e] =
       [FS |-> fs, len |-> Clamp(pkt.lens[k]),
        data |-> [id |-> pkt.id, seg |-> k]]]
  /\ buf_ptr' = [buf_ptr EXCEPT ![e] =
       IF k < Len(pkt.lens) THEN [id |-> pkt.id, seg |-> k + 1] ELSE NU_NULL]
  /\ UNCHANGED <<transq, free>>

\* Copy buffer k of the head packet to the frame, step to the next buffer
\* and give the packet back after its last one.  The clamp is written back
\* to the buffer.
SendSegment(e, k, fs) ==
  LET pkt == Head(transq[e])
      len == Clamp(pkt.lens[k])
  IN  /\ tx_frame' = [tx_frame EXCEPT ![e] =
             [FS |-> fs, len |-> len, data |-> [id |-> pkt.id, seg |-> k]]]
      /\ \/ /\ k < Len(pkt.lens)
            /\ buf_ptr' = [buf_ptr EXCEPT ![e] = [id |-> pkt.id, seg |-> k + 1]]
            /\ transq' = [transq EXCEPT ![e] =
                            <<[id |-> pkt.id, lens |-> [pkt.lens EXCEPT ![k] = len]]>>
                              \o Tail(@)]
            /\ UNCHANGED free
         \/ /\ k = Len(pkt.lens)
            /\ buf_ptr' = [buf_ptr EXCEPT ![e] = NU_NULL]
            /\ DEV_Recover_TX_Buffers(e)

\* Nothing to send.
TxBlank(e) ==
  /\ pc[e] = "prep"
  /\ transq[e] = <<>>
  /\ buf_ptr[e] = NU_NULL
  /\ tx_frame' = [tx_frame EXCEPT ![e] = IFSPI_FRAME_BLANK]
  /\ pc' = [pc EXCEPT ![e] = "xfer"]
  /\ UNCHANGED <<buf_ptr, rx_frame, headP, pktSize, stackVars, demux, sent,
                 received>>

\* Mutant: the first frame of a packet is not marked.
TxFirst_Unmarked(e) ==
  /\ pc[e] = "prep"
  /\ transq[e] # <<>>
  /\ buf_ptr[e] = NU_NULL
  /\ SendSegment(e, 1, FALSE)
  /\ pc' = [pc EXCEPT ![e] = "xfer"]
  /\ UNCHANGED <<rx_frame, headP, pktSize, MEM_Buffer_List, bufs_available,
                 demux, sent, received>>

\* First buffer of a new packet: the frame carries IFSPI_FRAME_FS.
TxFirst(e) ==
  /\ pc[e] = "prep"
  /\ transq[e] # <<>>
  /\ buf_ptr[e] = NU_NULL
  /\ SendSegment(e, 1, TRUE)
  /\ pc' = [pc EXCEPT ![e] = "xfer"]
  /\ UNCHANGED <<rx_frame, headP, pktSize, MEM_Buffer_List, bufs_available,
                 demux, sent, received>>

\* data_len of the buffer the task's pointer refers to.
PtrLen(e) == Head(transq[e]).lens[buf_ptr[e].seg]

\* In the middle of a packet.
TxNext(e) ==
  /\ pc[e] = "prep"
  /\ buf_ptr[e] # NU_NULL
  /\ PtrLen(e) # 0
  /\ SendSegment(e, buf_ptr[e].seg, FALSE)
  /\ pc' = [pc EXCEPT ![e] = "xfer"]
  /\ UNCHANGED <<rx_frame, headP, pktSize, MEM_Buffer_List, bufs_available,
                 demux, sent, received>>

\* The catch-all: an empty buffer inside a chain.  A blank frame goes out and
\* the pointer stays where it is.
TxEmpty(e) ==
  /\ pc[e] = "prep"
  /\ buf_ptr[e] # NU_NULL
  /\ PtrLen(e) = 0
  /\ tx_frame' = [tx_frame EXCEPT ![e] = IFSPI_FRAME_BLANK]
  /\ pc' = [pc EXCEPT ![e] = "xfer"]
  /\ UNCHANGED <<buf_ptr, rx_frame, headP, pktSize, stackVars, demux, sent,
                 received>>

-----------------------------------------------------------------------------
(* The transfer *)

\* NU_SPI_DMA_Transfer on both ends: the master clocks the frames across.
Exchange ==
  /\ \A e \in Endpoint : pc[e] = "xfer"
  /\ rx_frame' = [e \in Endpoint |-> tx_frame[Peer(e)]]
  /\ pc' = [e \in Endpoint |-> "rx"]
  /\ UNCHANGED <<buf_ptr, tx_frame, headP, pktSize, stackVars, demux, sent,
                 received>>

-----------------------------------------------------------------------------
(* IFSPI_Task_Entry: handle the received frame *)

\* The end of a pass: the master sleeps for a tick.
EndPass(e) ==
  pc' = [pc EXCEPT ![e] = IF e = "master" THEN "sleep" ELSE "prep"]

\* The packet under reassembly is complete when a first segment or a blank
\* frame follows it: it goes to the stack's list...
RxDispatch(e) ==
  /\ pc[e] = "rx"
  /\ headP[e] # <<>>
  /\ rx_frame[e].FS \/ rx_frame[e].len = 0
  /\ MEM_Buffer_List' = [MEM_Buffer_List EXCEPT ![e] =
                           Append(@, [total |-> pktSize[e], chain |-> headP[e]])]
  /\ pc' = [pc EXCEPT ![e] = "notify"]
  /\ UNCHANGED <<buf_ptr, tx_frame, rx_frame, headP, pktSize, transq, free,
                 bufs_available, demux, sent, received>>

\* Mutant: the event is not set.
RxNotify_Silent(e) ==
  /\ pc[e] = "notify"
  /\ headP' = [headP EXCEPT ![e] = <<>>]
  /\ pc' = [pc EXCEPT ![e] = "rx"]
  /\ UNCHANGED <<buf_ptr, tx_frame, rx_frame, pktSize, stackVars, demux, sent,
                 received>>

\* ... and then the event is set and the head pointer cleared.
RxNotify(e) ==
  /\ pc[e] = "notify"
  /\ bufs_available' = [bufs_available EXCEPT ![e] = TRUE]
  /\ headP' = [headP EXCEPT ![e] = <<>>]
  /\ pc' = [pc EXCEPT ![e] = "rx"]
  /\ UNCHANGED <<buf_ptr, tx_frame, rx_frame, pktSize, transq,
                 MEM_Buffer_List, free, demux, sent, received>>

\* MEM_Buffer_Dequeue(&MEM_Buffer_Freelist) returns a buffer if there is one.
MEM_Buffer_Dequeue(e) ==
  free' = [free EXCEPT ![e] = IF @ = 0 THEN 0 ELSE @ - 1]

\* Mutant: a full frame is refused.
Usable_OffByOne(e) == free[e] > 0 /\ rx_frame[e].len < IF_SPI_BUF_SIZE

\* The received data can be kept: a buffer was free and the data fits it.  If
\* it does not fit, the dequeued buffer is lost.
Usable(e) == free[e] > 0 /\ rx_frame[e].len <= IF_SPI_BUF_SIZE

RxSegment(e) == [data |-> rx_frame[e].data, len |-> rx_frame[e].len]

\* A first segment starts a new packet; its FS flag is masked out.
RxFirst(e) ==
  /\ pc[e] = "rx"
  /\ rx_frame[e].FS
  /\ headP[e] = <<>>
  /\ rx_frame' = [rx_frame EXCEPT ![e].FS = FALSE]
  /\ MEM_Buffer_Dequeue(e)
  /\ \/ /\ Usable(e)
        /\ headP' = [headP EXCEPT ![e] = <<RxSegment(e)>>]
        /\ pktSize' = [pktSize EXCEPT ![e] = rx_frame[e].len]
     \/ /\ ~Usable(e)
        /\ UNCHANGED <<headP, pktSize>>
  /\ EndPass(e)
  /\ UNCHANGED <<buf_ptr, tx_frame, transq, MEM_Buffer_List, bufs_available,
                 demux, sent, received>>

\* Mutant: the length of the packet is not accumulated.
RxNext_NoSum(e) ==
  /\ pc[e] = "rx"
  /\ ~rx_frame[e].FS
  /\ headP[e] # <<>>
  /\ rx_frame[e].len # 0
  /\ MEM_Buffer_Dequeue(e)
  /\ headP' = [headP EXCEPT ![e] = IF Usable(e) THEN Append(@, RxSegment(e))
                                                ELSE @]
  /\ EndPass(e)
  /\ UNCHANGED <<buf_ptr, tx_frame, rx_frame, pktSize, transq,
                 MEM_Buffer_List, bufs_available, demux, sent, received>>

\* A continuation is linked behind the buffers received so far.
RxNext(e) ==
  /\ pc[e] = "rx"
  /\ ~rx_frame[e].FS
  /\ headP[e] # <<>>
  /\ rx_frame[e].len # 0
  /\ MEM_Buffer_Dequeue(e)
  /\ \/ /\ Usable(e)
        /\ headP' = [headP EXCEPT ![e] = Append(@, RxSegment(e))]
        /\ pktSize' = [pktSize EXCEPT ![e] = @ + rx_frame[e].len]
     \/ /\ ~Usable(e)
        /\ UNCHANGED <<headP, pktSize>>
  /\ EndPass(e)
  /\ UNCHANGED <<buf_ptr, tx_frame, rx_frame, transq, MEM_Buffer_List,
                 bufs_available, demux, sent, received>>

\* Mutant: a continuation without a head starts a packet of its own.
RxIgnore_Adopts(e) ==
  /\ pc[e] = "rx"
  /\ ~rx_frame[e].FS
  /\ headP[e] = <<>>
  /\ IF rx_frame[e].len # 0 /\ Usable(e)
       THEN /\ headP' = [headP EXCEPT ![e] = <<RxSegment(e)>>]
            /\ pktSize' = [pktSize EXCEPT ![e] = rx_frame[e].len]
            /\ MEM_Buffer_Dequeue(e)
       ELSE UNCHANGED <<headP, pktSize, free>>
  /\ EndPass(e)
  /\ UNCHANGED <<buf_ptr, tx_frame, rx_frame, transq, MEM_Buffer_List,
                 bufs_available, demux, sent, received>>

\* Blank frames, and continuations of a packet whose start was dropped.
RxIgnore(e) ==
  /\ pc[e] = "rx"
  /\ ~rx_frame[e].FS
  /\ headP[e] = <<>>
  /\ EndPass(e)
  /\ UNCHANGED <<buf_ptr, tx_frame, rx_frame, headP, pktSize, stackVars,
                 demux, sent, received>>

\* NU_Sleep(1) ends.
Wake(e) ==
  /\ pc[e] = "sleep"
  /\ pc' = [pc EXCEPT ![e] = "prep"]
  /\ UNCHANGED <<buf_ptr, tx_frame, rx_frame, headP, pktSize, stackVars,
                 demux, sent, received>>

-----------------------------------------------------------------------------
IFSPI_Task(e) ==
  \/ TxBlank(e) \/ TxFirst(e) \/ TxNext(e) \/ TxEmpty(e)
  \/ RxDispatch(e) \/ RxNotify(e) \/ RxFirst(e) \/ RxNext(e) \/ RxIgnore(e)
  \/ Wake(e)

NET_Demux(e) == DemuxInput(e) \/ DemuxEmpty(e) \/ DemuxWake(e)

Next ==
  \/ Exchange
  \/ \E e \in Endpoint : IFSPI_Task(e) \/ NET_Demux(e) \/ ETH_Ether_Send(e)

Spec == Init /\ [][Next]_vars

\* Both tasks are ready whenever they can run and no task of a higher
\* priority runs for ever; the stack never has to send.
Fairness ==
  /\ WF_vars(Exchange)
  /\ \A e \in Endpoint : WF_vars(IFSPI_Task(e)) /\ WF_vars(NET_Demux(e))

FairSpec == Spec /\ Fairness
-----------------------------------------------------------------------------
(* Properties *)

\* Types of all variables of both ends.
TypeOK ==
  /\ pc \in [Endpoint -> {"prep", "xfer", "rx", "notify", "sleep"}]
  /\ transq \in [Endpoint -> Seq(Packet)]
  /\ buf_ptr \in [Endpoint -> BufRef]
  /\ tx_frame \in [Endpoint -> Frame]
  /\ rx_frame \in [Endpoint -> Frame]
  /\ headP \in [Endpoint -> Seq(Segment)]
  /\ pktSize \in [Endpoint -> Nat]
  /\ MEM_Buffer_List \in [Endpoint -> Seq(Received)]
  /\ free \in [Endpoint -> Nat]
  /\ bufs_available \in [Endpoint -> BOOLEAN]
  /\ demux \in [Endpoint -> {"process", "wait"}]
  /\ sent \in [Endpoint -> Seq(Seq(Nat))]
  /\ received \in [Endpoint -> Seq(Received)]

\* No frame on the wire announces more data than a frame holds: the clamp of
\* the sending task is what keeps the receiving task from losing the buffer
\* it dequeued before it looked at the length.
WireFits ==
  \A e \in Endpoint : /\ tx_frame[e].len <= IF_SPI_BUF_SIZE
                      /\ rx_frame[e].len <= IF_SPI_BUF_SIZE

\* While the task is in the middle of a packet, its local pointer refers to a
\* buffer of the packet at the head of the transmit queue that follows the
\* first one: DEV_Recover_TX_Buffers frees a chain only when the task is done
\* with it, whatever the stack queues meanwhile.
TxPointerLive ==
  \A e \in Endpoint :
    buf_ptr[e] # NU_NULL =>
      /\ transq[e] # <<>>
      /\ buf_ptr[e].id = Head(transq[e]).id
      /\ buf_ptr[e].seg \in 2 .. Len(Head(transq[e]).lens)

\* NET_Demux never waits for the event while a packet is on the list, unless
\* the event is set or the task that queued the packet is about to set it.
NoLostWakeup ==
  \A e \in Endpoint :
    demux[e] = "wait" /\ MEM_Buffer_List[e] # <<>>
      => bufs_available[e] \/ pc[e] = "notify"

\* The packets given to the stack of e, oldest first.
GivenToStack(e) == received[e] \o MEM_Buffer_List[e]

\* The sum of a sequence n of numbers: how many units there are in Len(n)
\* places if place i has n[i] of them.
Units(n) == UNION {{i} \X (1 .. n[i]) : i \in 1 .. Len(n)}
Sum(n)   == Cardinality(Units(n))

\* The chain lengths of the packets transmitted and given to the stack, and the
\* data lengths of a chain.
QueuedLens(q)  == [i \in 1 .. Len(q) |-> Len(q[i].lens)]
ChainLens(q)   == [i \in 1 .. Len(q) |-> Len(q[i].chain)]
DataLens(segs) == [i \in 1 .. Len(segs) |-> segs[i].len]

\* Every buffer of an end is on the free list, in a queued packet, in the
\* packet under reassembly or in one given to the stack: none is lost and
\* none is in two places (ifspi_tgt.c dequeues and links, MEM_* frees).
BuffersConserved ==
  \A e \in Endpoint :
    free[e]
      + Sum(QueuedLens(transq[e]))
      + (IF pc[e] = "notify" THEN 0 ELSE Len(headP[e]))
      + Sum(ChainLens(MEM_Buffer_List[e]))
    = MAX_BUFFERS

\* mem_total_data_len of a packet given to the stack is the sum of the
\* lengths of its buffers.
TotalLength ==
  \A e \in Endpoint :
    \A i \in 1 .. Len(GivenToStack(e)) :
      LET p == GivenToStack(e)[i]
      IN  p.total = Sum(DataLens(p.chain))

\* The abstract channel of each direction, lossy and lossless.
MasterToSlave == INSTANCE IfSpiChannel WITH
  FrameSize <- IF_SPI_BUF_SIZE, Lossless <- FALSE,
  sent <- sent["master"], recvd <- GivenToStack("slave")
SlaveToMaster == INSTANCE IfSpiChannel WITH
  FrameSize <- IF_SPI_BUF_SIZE, Lossless <- FALSE,
  sent <- sent["slave"], recvd <- GivenToStack("master")
LosslessMasterToSlave == INSTANCE IfSpiChannel WITH
  FrameSize <- IF_SPI_BUF_SIZE, Lossless <- TRUE,
  sent <- sent["master"], recvd <- GivenToStack("slave")
LosslessSlaveToMaster == INSTANCE IfSpiChannel WITH
  FrameSize <- IF_SPI_BUF_SIZE, Lossless <- TRUE,
  sent <- sent["slave"], recvd <- GivenToStack("master")

\* Packets arrive in order, at most once, and made of their own buffers, in
\* both directions, also when receivers run out of buffers.
ImplementsChannel == MasterToSlave!Spec /\ SlaveToMaster!Spec

\* When no receiver runs out of buffers and no buffer exceeds a frame, every
\* packet arrives complete.
ImplementsLosslessChannel ==
  LosslessMasterToSlave!Spec /\ LosslessSlaveToMaster!Spec

\* "Protect buffer boundary.  This condition should NEVER happen"
\* (ifspi_tgt.c): the buffer about to be copied is no larger than a frame.
NeverOversized ==
  \A e \in Endpoint :
    pc[e] = "prep" /\ transq[e] # <<>> =>
      LET k == IF buf_ptr[e] = NU_NULL THEN 1 ELSE buf_ptr[e].seg
      IN  Head(transq[e]).lens[k] <= IF_SPI_BUF_SIZE

\* The task sits on an empty buffer of the head packet's chain.
OnEmptyBuffer(e) == buf_ptr[e] # NU_NULL /\ PtrLen(e) = 0

\* Every packet queued is eventually transmitted and its buffers recovered,
\* unless the task comes to an empty buffer inside a chain.
QueueDrains ==
  \A e \in Endpoint :
    \A n \in 1 .. MaxSends[e] :
      (transq[e] # <<>> /\ Head(transq[e]).id = n) ~>
        (OnEmptyBuffer(e) \/ transq[e] = <<>> \/ Head(transq[e]).id > n)

\* Every packet queued at one end is eventually received by the other end's
\* stack; the last frame of a packet is always followed by one that completes
\* it.
EventuallyReceived ==
  \A e \in Endpoint :
    \A n \in 1 .. MaxSends[e] :
      (Len(sent[e]) >= n) ~> (Len(received[Peer(e)]) >= n)
=============================================================================
