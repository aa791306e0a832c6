------------------------------- MODULE SpiDma -------------------------------
(***************************************************************************)
(* NU_SPI_DMA_Transfer of lwspi.c: a full duplex SPI transfer as an         *)
(* asynchronous receive on one DMA channel and then a synchronous send on   *)
(* another, on top of the DMA service (DmaChannel), with the words on their *)
(* way through the SPI controller.                                          *)
(*                                                                          *)
(* A transmitted word is abstracted to the transfer it belongs to and its   *)
(* position; the word received in exchange bears the same label.  No stream *)
(* meets an error here, and the receiving stream fetches a word before the  *)
(* next one is clocked in.                                                  *)
(***************************************************************************)
EXTENDS Naturals, Sequences

CONSTANTS
  Task,          \* the tasks that make transfers (here: the IFSPI task)
  Words,         \* data_len of a transfer, in words
  MaxTransfers,  \* transfers of each task (a bound)
  DMA_LENGTH_CONTINUOUS

ASSUME SpiDmaAssumption ==
  /\ Words \in Nat \ {0} /\ MaxTransfers \in Nat
  /\ DMA_LENGTH_CONTINUOUS \in Nat \ {0, 1}

VARIABLES
  step,     \* where each task is in NU_SPI_DMA_Transfer
  number,   \* how many transfers it has begun
  req,      \* spi_device->dma_rx_req and dma_tx_req: whose buffers they name
  stream,   \* the buffer each stream was programmed with
  moved,    \* the words it has moved since
  pipe,     \* words in the transmit register and the shift register
  rxdr,     \* the received word in the data register, or none
  overrun,  \* a word was lost
  buf,      \* buf[t]: the words in t's receive buffer
  \* the variables of DmaChannel
  pc, arg, chan_semaphore, waiting, chan_comp_evt, cur_req_type,
  cur_req_length, cur_req_ptr, chan_req, en, ie, tcif, errif, hisr, executed

Channel == {"rx", "tx"}  \* chan_rx_handle, chan_tx_handle

\* Mutant: the send is initiated first.
RxCall_SendFirst == [chan |-> "tx", type |-> "sync", total_requests |-> 1,
                     suspend |-> "NU_SUSPEND"]

RxCall == [chan |-> "rx", type |-> "async", total_requests |-> 1,
           suspend |-> "NU_SUSPEND"]

TxCall == [chan |-> "tx", type |-> "sync", total_requests |-> 1,
           suspend |-> "NU_SUSPEND"]

Dma == INSTANCE DmaChannel WITH Calls <- {RxCall, TxCall}, Errors <- {}

spiVars == <<step, number, req, stream, moved, pipe, rxdr, overrun, buf>>
dmaVars == <<pc, arg, chan_semaphore, waiting, chan_comp_evt, cur_req_type,
             cur_req_length, cur_req_ptr, chan_req, en, ie, tcif, errif, hisr,
             executed>>
vars == <<spiVars, dmaVars>>

-----------------------------------------------------------------------------
\* Transfer n of task t, and the words of it.
Transfer == [task : Task, n : 0 .. MaxTransfers]
Word == [of : Transfer, k : 0 .. Words]

PIPE == 2  \* the transmit register and the shift register

NoTransfer(t) == [task |-> t, n |-> 0]
NoWord(t) == [of |-> NoTransfer(t), k |-> 0]

Init ==
  /\ Dma!Init
  /\ step = [t \in Task |-> "idle"]
  /\ number = [t \in Task |-> 0]
  /\ req \in {NoTransfer(t) : t \in Task}
  /\ stream = [c \in Channel |-> req]
  /\ moved = [c \in Channel |-> 0]
  /\ pipe = <<>>
  /\ rxdr = <<>>
  /\ overrun = FALSE
  /\ buf = [t \in Task |-> [k \in 1 .. Words |-> NoWord(t)]]

-----------------------------------------------------------------------------
(* NU_SPI_DMA_Transfer *)

\* Populate both DMA request structures and enable the controller's DMA.
Populate(t) ==
  /\ step[t] = "idle"
  /\ number[t] < MaxTransfers
  /\ number' = [number EXCEPT ![t] = @ + 1]
  /\ req' = [task |-> t, n |-> number[t] + 1]
  /\ step' = [step EXCEPT ![t] = "populated"]
  /\ UNCHANGED <<stream, moved, pipe, rxdr, overrun, buf, dmaVars>>

\* Initiate the receive without blocking ...
CallRx(t) ==
  /\ step[t] = "populated"
  /\ Dma!Enter(t, RxCall)
  /\ step' = [step EXCEPT ![t] = "rx"]
  /\ UNCHANGED <<number, req, stream, moved, pipe, rxdr, overrun, buf>>

\* ... and, when that call has returned, the send with blocking.
CallTx(t) ==
  /\ step[t] = "rx"
  /\ Dma!Enter(t, TxCall)
  /\ step' = [step EXCEPT ![t] = "tx"]
  /\ UNCHANGED <<number, req, stream, moved, pipe, rxdr, overrun, buf>>

Return(t) ==
  /\ step[t] = "tx"
  /\ pc[t] = "idle"
  /\ step' = [step EXCEPT ![t] = "idle"]
  /\ UNCHANGED <<number, req, stream, moved, pipe, rxdr, overrun, buf,
                 dmaVars>>

\* The stream is programmed with what the request structure says now.
Program(t) ==
  /\ Dma!Setup(t)
  /\ stream' = [stream EXCEPT ![arg[t].chan] = req]
  /\ moved' = [moved EXCEPT ![arg[t].chan] = 0]
  /\ UNCHANGED <<step, number, req, pipe, rxdr, overrun, buf>>

\* Mutant: the send does not block.
WaitStep_NotBlocking(t) ==
  /\ pc[t] = "wait"
  /\ Dma!ReturnFrom(t)
  /\ UNCHANGED <<spiVars, chan_semaphore, waiting, chan_comp_evt, cur_req_type,
                 cur_req_length, cur_req_ptr, chan_req, en, ie, tcif, errif,
                 hisr, executed>>

\* The send blocks for its completion event and releases its channel.
WaitStep(t) ==
  /\ Dma!Await(t) \/ Dma!SyncReturn(t)
  /\ UNCHANGED spiVars

-----------------------------------------------------------------------------
(* The streams and the SPI controller *)

\* Mutant: the stream is programmed with one word too many.
Count_OffByOne(c) ==
  /\ moved' = [moved EXCEPT ![c] = @ + 1]
  /\ \/ moved[c] < Words /\ UNCHANGED dmaVars
     \/ moved[c] = Words /\ Dma!StreamDone(c)

\* Stream c has moved one more word, and is done after the last.
Count(c) ==
  /\ moved' = [moved EXCEPT ![c] = @ + 1]
  /\ \/ moved[c] + 1 < Words /\ UNCHANGED dmaVars
     \/ moved[c] + 1 = Words /\ Dma!StreamDone(c)

\* The sending stream fills the transmit register.
TxMove ==
  /\ en["tx"]
  /\ Len(pipe) < PIPE
  /\ pipe' = Append(pipe, [of |-> stream["tx"], k |-> moved["tx"] + 1])
  /\ Count("tx")
  /\ UNCHANGED <<step, number, req, stream, rxdr, overrun, buf>>

\* A word is clocked out and one in, which is lost if the last was not fetched.
Clock ==
  /\ pipe # <<>>
  /\ rxdr = <<>> \/ ~en["rx"]
  /\ pipe' = Tail(pipe)
  /\ \/ rxdr = <<>> /\ rxdr' = <<Head(pipe)>> /\ UNCHANGED overrun
     \/ rxdr # <<>> /\ overrun' = TRUE /\ UNCHANGED rxdr
  /\ UNCHANGED <<step, number, req, stream, moved, buf, dmaVars>>

\* Mutant: the memory address is not incremented.
RxAddress_Fixed(k) == 1

\* Where in the buffer the k-th word goes (dst_add_type = DMA_ADDRESS_INCR).
RxAddress(k) == k

\* The receiving stream stores the word.
RxMove ==
  /\ en["rx"]
  /\ rxdr # <<>>
  /\ rxdr' = <<>>
  /\ buf' = [buf EXCEPT ![stream["rx"].task][RxAddress(moved["rx"] + 1)] =
               rxdr[1]]
  /\ Count("rx")
  /\ UNCHANGED <<step, number, req, stream, pipe, overrun>>

Interrupt(c) == Dma!Interrupt(c) /\ UNCHANGED spiVars

-----------------------------------------------------------------------------
TaskStep(t) ==
  CallRx(t) \/ CallTx(t) \/ Return(t) \/ Program(t) \/ WaitStep(t)

Hardware == TxMove \/ Clock \/ RxMove \/ \E c \in Channel : Interrupt(c)

Next == Hardware \/ \E t \in Task : Populate(t) \/ TaskStep(t)

Spec == Init /\ [][Next]_vars

\* A task goes on unless it is suspended, the streams are served, the words
\* clocked (by this end, or by the peer if this end is the slave), and the
\* interrupts served.
Fairness ==
  /\ \A t \in Task : WF_vars(TaskStep(t))
  /\ WF_vars(TxMove) /\ WF_vars(Clock) /\ WF_vars(RxMove)
  /\ \A c \in Channel : WF_vars(Interrupt(c))

FairSpec == Spec /\ Fairness
-----------------------------------------------------------------------------
(* Properties *)

\* Types of the variables this module adds.
TypeOK ==
  /\ step \in [Task -> {"idle", "populated", "rx", "tx"}]
  /\ number \in [Task -> 0 .. MaxTransfers]
  /\ req \in Transfer
  /\ stream \in [Channel -> Transfer]
  /\ moved \in [Channel -> 0 .. Words]
  /\ pipe \in Seq(Word) /\ rxdr \in Seq(Word)
  /\ Len(pipe) <= PIPE /\ Len(rxdr) <= 1
  /\ overrun \in BOOLEAN
  /\ buf \in [Task -> [1 .. Words -> Word]]

\* No received word is lost: the receive is armed before the first word goes
\* out, and a late receive of one transfer is over before the next is armed,
\* though the call returns before it.
NoOverrun == ~overrun

\* Every word of the receive buffer is at its place, and the buffer never
\* mixes more than two consecutive transfers, the later one in front.
BufferInOrder ==
  \A t \in Task :
    /\ \A k \in 1 .. Words : buf[t][k].k \in {0, k}
    /\ \A k \in 1 .. Words - 1 : buf[t][k].of.n >= buf[t][k + 1].of.n
    /\ buf[t][1].of.n <= buf[t][Words].of.n + 1

\* The receive buffer of task t holds its n-th transfer and nothing else.
Holds(t, n) == \A k \in 1 .. Words : buf[t][k].of = [task |-> t, n |-> n]

\* Every transfer that was begun is, sooner or later, in the receive buffer
\* from end to end: the next one does not cut it off though the call returns
\* before the last words are received.
TransferReceived ==
  \A t \in Task, n \in 1 .. MaxTransfers :
    step[t] = "tx" /\ number[t] = n ~> Holds(t, n)

\* When the call returns, at most the words that the transmit register, the
\* shift register and the data register hold are missing from the buffer; all
\* before them are of this transfer.
AllButLastWords ==
  [][\A t \in Task : step[t] = "tx" /\ step'[t] = "idle" =>
       \A k \in 1 .. Words : k + PIPE < Words =>
         buf[t][k].of = [task |-> t, n |-> number[t]]]_vars

\* "Start the SPI DMA data transfer and block thread for transfer completion"
\* (lwspi.c): when the call returns the receive buffer is filled.
BlocksForCompletion ==
  [][\A t \in Task : step[t] = "tx" /\ step'[t] = "idle" => Holds(t, number[t])]_vars
=============================================================================
