--------------------------- MODULE SpiDma_proofs ---------------------------
(***************************************************************************)
(* NU_SPI_DMA_Transfer loses no word and keeps the receive buffer in order, *)
(* for every length and number of transfers, as long as one task makes them *)
(* (as the IFSPI task does: the request structures belong to the device).   *)
(* When the call returns, only words still in the controller's registers    *)
(* are missing from the buffer.                                             *)
(***************************************************************************)
EXTENDS SpiDma, SequenceTheorems, TLAPS

-----------------------------------------------------------------------------
(* The inductive invariant; t is the task *)

DmaTypes ==
  /\ pc \in [Task -> {"idle", "suspended", "setup", "wait", "release"}]
  /\ arg \in [Task -> {RxCall, TxCall, Dma!NoCall}]
  /\ chan_semaphore \in [Channel -> Nat]
  /\ waiting \in [Channel -> Seq(Task)]
  /\ chan_comp_evt \in [Channel -> SUBSET {"completion"}]
  /\ cur_req_type \in [Channel -> {"sync", "async"}]
  /\ cur_req_length \in [Channel -> Nat]
  /\ chan_req \in [Channel -> {"none", "queued", "looped"}]
  /\ en \in [Channel -> BOOLEAN] /\ ie \in [Channel -> BOOLEAN]
  /\ tcif \in [Channel -> BOOLEAN] /\ errif = [c \in Channel |-> FALSE]
  /\ hisr \in [Channel -> BOOLEAN]

\* A channel without a request, and one whose request is moving words, has
\* raised its flag, or has its HISR activated.
Rest(c) == chan_req[c] = "none" /\ ~en[c] /\ ~ie[c] /\ ~tcif[c] /\ ~hisr[c]

Busy(c) ==
  /\ chan_req[c] = "queued" /\ cur_req_length[c] = 1
  /\ \/ en[c] /\ ie[c] /\ ~tcif[c] /\ ~hisr[c]
     \/ ~en[c] /\ ie[c] /\ tcif[c] /\ ~hisr[c]
     \/ ~en[c] /\ ~ie[c] /\ tcif[c] /\ hisr[c]

\* Where the task is in the DMA service, at each of its own steps.
PcOK(t) ==
  \/ step[t] \in {"idle", "populated", "rx", "tx"} /\ pc[t] = "idle"
  \/ step[t] = "rx" /\ pc[t] \in {"setup", "suspended"} /\ arg[t] = RxCall
  \/ step[t] = "tx" /\ pc[t] \in {"setup", "wait", "release"} /\ arg[t] = TxCall

\* The receive: it holds its channel's semaphore until its HISR, and the task
\* may have to wait for that of the transfer before.
RxSetup(t) == step[t] = "rx" /\ pc[t] = "setup"

RxOK(t) ==
  /\ chan_comp_evt["rx"] = {}
  /\ \/ /\ Rest("rx")
        /\ waiting["rx"] = <<>> /\ pc[t] # "suspended"
        /\ chan_semaphore["rx"] = IF RxSetup(t) THEN 0 ELSE 1
     \/ /\ Busy("rx") /\ cur_req_type["rx"] = "async"
        /\ chan_semaphore["rx"] = 0 /\ ~RxSetup(t)
        /\ waiting["rx"] = IF pc[t] = "suspended" THEN <<t>> ELSE <<>>

\* The send: the task holds its channel's semaphore, and waits for the event.
TxOK(t) ==
  /\ waiting["tx"] = <<>>
  /\ chan_semaphore["tx"] = IF step[t] = "tx" /\ pc[t] # "idle" THEN 0 ELSE 1
  /\ \/ Rest("tx") /\ (chan_comp_evt["tx"] # {} <=> step[t] = "tx" /\ pc[t] = "wait")
     \/ /\ Busy("tx") /\ cur_req_type["tx"] = "sync"
        /\ chan_comp_evt["tx"] = {} /\ step[t] = "tx" /\ pc[t] = "wait"

Control(t) == PcOK(t) /\ RxOK(t) /\ TxOK(t)

\* The transfer each stream is programmed for: the current one, or still the
\* one before.
RxBehind(t) == step[t] = "populated" \/ (step[t] = "rx" /\ pc[t] # "idle")
TxBehind(t) == step[t] \in {"populated", "rx"} \/ (step[t] = "tx" /\ pc[t] = "setup")

StreamsOK(t) ==
  /\ req = [task |-> t, n |-> number[t]]
  /\ step[t] # "idle" => number[t] > 0
  /\ stream["rx"] = [task |-> t, n |-> IF RxBehind(t) THEN number[t] - 1 ELSE number[t]]
  /\ stream["tx"] = [task |-> t, n |-> IF TxBehind(t) THEN number[t] - 1 ELSE number[t]]
  /\ \A c \in Channel : /\ en[c] <=> stream[c].n > 0 /\ moved[c] < Words
                        /\ stream[c].n = 0 => moved[c] = 0

\* The words on their way are those that were sent and not yet received.
Flight(t) ==
  /\ ~overrun
  /\ stream["rx"] # stream["tx"] => pipe = <<>> /\ rxdr = <<>> /\ moved["rx"] = 0
  /\ stream["rx"] = stream["tx"] =>
       /\ moved["rx"] + Len(rxdr) + Len(pipe) = moved["tx"]
       /\ \A i \in 1 .. Len(rxdr) : rxdr[i] = [of |-> stream["tx"], k |-> moved["rx"] + i]
       /\ \A i \in 1 .. Len(pipe) :
            pipe[i] = [of |-> stream["tx"], k |-> moved["rx"] + Len(rxdr) + i]

\* The buffer has the words the receiving stream has stored, and behind them
\* those of the transfer before.
BufferOK(t) ==
  \A k \in 1 .. Words :
    IF k <= moved["rx"]
      THEN buf[t][k] = [of |-> stream["rx"], k |-> k]
      ELSE /\ buf[t][k].k \in {0, k}
           /\ buf[t][k].of.n = IF stream["rx"].n = 0 THEN 0 ELSE stream["rx"].n - 1

Data(t) == StreamsOK(t) /\ Flight(t) /\ BufferOK(t)

IndInv(t) == TypeOK /\ DmaTypes /\ Control(t) /\ Data(t)

LEMMA Initially ==
  ASSUME NEW t, Task = {t}, Init
  PROVE  IndInv(t)
<1> USE SpiDmaAssumption
<1>1. req = [task |-> t, n |-> 0] /\ req \in Transfer
  BY DEF Init, NoTransfer, Transfer
<1>2. NoWord(t) \in Word
  BY DEF NoWord, NoTransfer, Word, Transfer
<1>3. TypeOK
  <2>1. pipe \in Seq(Word) /\ rxdr \in Seq(Word) /\ Len(pipe) <= PIPE /\ Len(rxdr) <= 1
    BY DEF Init, PIPE
  <2>2. buf \in [Task -> [1 .. Words -> Word]]
    BY <1>2 DEF Init
  <2>3. step \in [Task -> {"idle", "populated", "rx", "tx"}] /\ overrun \in BOOLEAN
    BY DEF Init
  <2>4. number = [x \in Task |-> 0] /\ moved = [x \in Channel |-> 0]
    BY DEF Init
  <2>5. 0 \in 0 .. MaxTransfers /\ 0 \in 0 .. Words
    OBVIOUS
  <2>6. number \in [Task -> 0 .. MaxTransfers] /\ moved \in [Channel -> 0 .. Words]
    BY ONLY <2>4, <2>5
  <2>7. stream \in [Channel -> Transfer]
    BY <1>1 DEF Init
  <2> QED
    BY <1>1, <2>1, <2>2, <2>3, <2>6, <2>7 DEF TypeOK
<1>4. DmaTypes
  BY DEF Init, Dma!Init, DmaTypes
<1>5. Control(t)
  BY DEF Init, Dma!Init, Control, PcOK, RxOK, TxOK, Rest, RxSetup, Channel
<1>6. StreamsOK(t)
  BY <1>1 DEF Init, Dma!Init, StreamsOK, RxBehind, TxBehind, Channel
<1>7. Flight(t)
  BY <1>1 DEF Init, Flight, Channel
<1>8. BufferOK(t)
  BY <1>1 DEF Init, BufferOK, NoWord, NoTransfer, Channel
<1> QED
  BY <1>3, <1>4, <1>5, <1>6, <1>7, <1>8 DEF IndInv, Data

-----------------------------------------------------------------------------
(* Frames *)

\* Steps of the task and of the interrupt handlers do not move words.
LEMMA DataSame ==
  ASSUME NEW t, Data(t), UNCHANGED <<number, req, stream, moved, pipe, rxdr, overrun, buf>>,
         en' = en, RxBehind(t)' <=> RxBehind(t), TxBehind(t)' <=> TxBehind(t),
         step'[t] # "idle" => step[t] # "idle"
  PROVE  Data(t)'
<1>1. StreamsOK(t)'
  BY DEF Data, StreamsOK
<1>2. Flight(t)'
  BY DEF Data, Flight
<1>3. BufferOK(t)'
  BY DEF Data, BufferOK
<1> QED
  BY <1>1, <1>2, <1>3 DEF Data

LEMMA TypeSame ==
  ASSUME TypeOK, UNCHANGED <<number, req, stream, moved, pipe, rxdr, overrun, buf>>,
         step' \in [Task -> {"idle", "populated", "rx", "tx"}]
  PROVE  TypeOK'
BY DEF TypeOK

\* What a channel's state is about.
ChanSame(c) ==
  /\ chan_req'[c] = chan_req[c] /\ cur_req_length'[c] = cur_req_length[c]
  /\ en'[c] = en[c] /\ ie'[c] = ie[c] /\ tcif'[c] = tcif[c] /\ hisr'[c] = hisr[c]

LEMMA ChanStays ==
  ASSUME NEW c, ChanSame(c)
  PROVE  (Rest(c)' <=> Rest(c)) /\ (Busy(c)' <=> Busy(c))
BY DEF ChanSame, Rest, Busy

-----------------------------------------------------------------------------
(* The steps of the task *)

LEMMA PopulateStep ==
  ASSUME NEW t, Task = {t}, IndInv(t), Populate(t)
  PROVE  IndInv(t)'
<1> USE SpiDmaAssumption
<1>1. TypeOK /\ DmaTypes /\ Control(t) /\ Data(t)
  BY DEF IndInv
<1>2. /\ step[t] = "idle" /\ step'[t] = "populated" /\ pc[t] = "idle"
      /\ number[t] \in 0 .. MaxTransfers /\ number'[t] = number[t] + 1
      /\ number'[t] \in 0 .. MaxTransfers
      /\ req' = [task |-> t, n |-> number[t] + 1]
      /\ UNCHANGED <<stream, moved, pipe, rxdr, overrun, buf>>
      /\ UNCHANGED dmaVars
  BY <1>1 DEF Populate, TypeOK, Control, PcOK
<1>3. TypeOK'
  <2>1. req' \in Transfer
    BY <1>2 DEF Transfer
  <2>2. /\ step' \in [Task -> {"idle", "populated", "rx", "tx"}]
        /\ number' \in [Task -> 0 .. MaxTransfers]
    BY <1>1, <1>2 DEF Populate, TypeOK
  <2> QED
    BY <1>1, <1>2, <2>1, <2>2 DEF TypeOK
<1>4. DmaTypes'
  BY <1>1, <1>2 DEF DmaTypes, dmaVars
<1>5. Control(t)'
  <2>1. ChanSame("rx") /\ ChanSame("tx")
    BY <1>2 DEF ChanSame, dmaVars
  <2> QED
    BY <1>1, <1>2, <2>1, ChanStays DEF Control, PcOK, RxOK, TxOK, RxSetup, dmaVars
<1>6. StreamsOK(t)'
  BY <1>1, <1>2 DEF Data, StreamsOK, RxBehind, TxBehind, dmaVars
<1>7. Flight(t)' /\ BufferOK(t)'
  BY <1>1, <1>2 DEF Data, Flight, BufferOK
<1> QED
  BY <1>3, <1>4, <1>5, <1>6, <1>7 DEF IndInv, Data

LEMMA CallRxStep ==
  ASSUME NEW t, Task = {t}, IndInv(t), CallRx(t)
  PROVE  IndInv(t)'
<1>1. TypeOK /\ DmaTypes /\ Control(t) /\ Data(t)
  BY DEF IndInv
<1>2. /\ step[t] = "populated" /\ step'[t] = "rx" /\ pc[t] = "idle"
      /\ step' \in [Task -> {"idle", "populated", "rx", "tx"}]
      /\ UNCHANGED <<number, req, stream, moved, pipe, rxdr, overrun, buf>>
      /\ UNCHANGED <<chan_comp_evt, cur_req_type, cur_req_length, chan_req,
                     en, ie, tcif, errif, hisr>>
      /\ arg' = [arg EXCEPT ![t] = RxCall] /\ arg'[t] = RxCall
      /\ \/ /\ chan_semaphore["rx"] > 0 /\ pc' = [pc EXCEPT ![t] = "setup"]
            /\ chan_semaphore' = [chan_semaphore EXCEPT !["rx"] = @ - 1]
            /\ waiting' = waiting
         \/ /\ chan_semaphore["rx"] = 0 /\ pc' = [pc EXCEPT ![t] = "suspended"]
            /\ waiting' = [waiting EXCEPT !["rx"] = Append(@, t)]
            /\ chan_semaphore' = chan_semaphore
  BY <1>1 DEF CallRx, Dma!Enter, Dma!Obtain_chan, Dma!Goto, RxCall, TypeOK, DmaTypes,
              Control, PcOK, Dma!reqVars, Dma!hwVars
<1>3. TypeOK'
  BY <1>1, <1>2, TypeSame
<1>4. DmaTypes'
  <2>1. waiting' \in [Channel -> Seq(Task)]
    <3>1. waiting \in [Channel -> Seq(Task)] /\ Append(waiting["rx"], t) \in Seq(Task)
      BY <1>1 DEF DmaTypes, Channel
    <3>2. CASE waiting' = waiting
      BY <3>1, <3>2
    <3>3. CASE waiting' = [waiting EXCEPT !["rx"] = Append(@, t)]
      BY ONLY <3>1, <3>3
    <3> QED
      BY <1>2, <3>2, <3>3
  <2>2. chan_semaphore' \in [Channel -> Nat]
    BY <1>1, <1>2 DEF DmaTypes, Channel
  <2>3. /\ pc' \in [Task -> {"idle", "suspended", "setup", "wait", "release"}]
        /\ arg' \in [Task -> {RxCall, TxCall, Dma!NoCall}]
    BY <1>1, <1>2 DEF DmaTypes
  <2> QED
    BY <1>1, <1>2, <2>1, <2>2, <2>3 DEF DmaTypes
<1>5. pc'[t] = IF chan_semaphore["rx"] > 0 THEN "setup" ELSE "suspended"
  BY <1>1, <1>2 DEF DmaTypes
<1>6. ChanSame("rx") /\ ChanSame("tx")
  BY <1>2 DEF ChanSame
<1>7. PcOK(t)'
  BY <1>2, <1>5 DEF PcOK
<1>8. RxOK(t)'
  <2>1. CASE Rest("rx")
    <3>1. chan_semaphore["rx"] = 1
      BY <1>1, <1>2, <2>1 DEF Control, RxOK, RxSetup, Rest, Busy
    <3>2. /\ waiting'["rx"] = <<>> /\ chan_semaphore'["rx"] = 0 /\ Rest("rx")'
      BY <1>1, <1>2, <1>6, <2>1, <3>1, ChanStays
         DEF Control, RxOK, Rest, Busy, DmaTypes, Channel
    <3> QED
      BY <1>1, <1>2, <1>5, <3>1, <3>2 DEF Control, RxOK, RxSetup
  <2>2. CASE ~Rest("rx")
    <3>1. /\ Busy("rx") /\ cur_req_type["rx"] = "async" /\ chan_semaphore["rx"] = 0
          /\ waiting["rx"] = <<>>
      BY <1>1, <1>2, <2>2 DEF Control, RxOK
    <3>2. waiting'["rx"] = Append(<<>>, t) /\ chan_semaphore'["rx"] = 0 /\ Busy("rx")'
      BY <1>1, <1>2, <1>6, <3>1, ChanStays DEF DmaTypes, Channel
    <3>3. Append(<<>>, t) = <<t>>
      OBVIOUS
    <3> QED
      BY <1>1, <1>2, <1>5, <3>1, <3>2, <3>3 DEF Control, RxOK, RxSetup
  <2> QED
    BY <2>1, <2>2
<1>9. TxOK(t)'
  <2>1. waiting'["tx"] = waiting["tx"] /\ chan_semaphore'["tx"] = chan_semaphore["tx"]
    BY <1>1, <1>2 DEF DmaTypes, Channel
  <2> QED
    BY <1>1, <1>2, <1>6, <2>1, ChanStays DEF Control, TxOK
<1>10. Data(t)'
  <2>1. (RxBehind(t)' <=> RxBehind(t)) /\ (TxBehind(t)' <=> TxBehind(t))
    BY <1>2, <1>5 DEF RxBehind, TxBehind
  <2> QED
    BY <1>1, <1>2, <2>1, DataSame
<1> QED
  BY <1>3, <1>4, <1>7, <1>8, <1>9, <1>10 DEF IndInv, Control

LEMMA CallTxStep ==
  ASSUME NEW t, Task = {t}, IndInv(t), CallTx(t)
  PROVE  IndInv(t)'
<1>1. TypeOK /\ DmaTypes /\ Control(t) /\ Data(t)
  BY DEF IndInv
<1>2. step[t] = "rx" /\ pc[t] = "idle" /\ chan_semaphore["tx"] = 1
  BY <1>1 DEF CallTx, Dma!Enter, Control, TxOK
<1>3. /\ step'[t] = "tx" /\ pc' = [pc EXCEPT ![t] = "setup"] /\ pc'[t] = "setup"
      /\ step' \in [Task -> {"idle", "populated", "rx", "tx"}]
      /\ UNCHANGED <<number, req, stream, moved, pipe, rxdr, overrun, buf>>
      /\ UNCHANGED <<chan_comp_evt, cur_req_type, cur_req_length, chan_req,
                     en, ie, tcif, errif, hisr, waiting>>
      /\ arg' = [arg EXCEPT ![t] = TxCall] /\ arg'[t] = TxCall
      /\ chan_semaphore' = [chan_semaphore EXCEPT !["tx"] = @ - 1]
  BY <1>1, <1>2 DEF CallTx, Dma!Enter, Dma!Obtain_chan, Dma!Goto, TxCall, TypeOK, DmaTypes,
              Dma!reqVars, Dma!hwVars
<1>4. TypeOK'
  BY <1>1, <1>3, TypeSame
<1>5. DmaTypes' /\ chan_semaphore'["tx"] = 0 /\ chan_semaphore'["rx"] = chan_semaphore["rx"]
  BY <1>1, <1>2, <1>3 DEF DmaTypes, Channel
<1>6. ChanSame("rx") /\ ChanSame("tx")
  BY <1>3 DEF ChanSame
<1>7. Control(t)'
  <2>1. PcOK(t)'
    BY <1>3 DEF PcOK
  <2>2. RxOK(t)'
    BY <1>1, <1>2, <1>3, <1>5, <1>6, ChanStays DEF Control, RxOK, RxSetup
  <2>3. TxOK(t)'
    BY <1>1, <1>2, <1>3, <1>5, <1>6, ChanStays DEF Control, TxOK
  <2> QED
    BY <2>1, <2>2, <2>3 DEF Control
<1>8. Data(t)'
  <2>1. (RxBehind(t)' <=> RxBehind(t)) /\ (TxBehind(t)' <=> TxBehind(t))
    BY <1>2, <1>3 DEF RxBehind, TxBehind
  <2> QED
    BY <1>1, <1>2, <1>3, <2>1, DataSame
<1> QED
  BY <1>4, <1>5, <1>7, <1>8 DEF IndInv

LEMMA ReturnStep ==
  ASSUME NEW t, Task = {t}, IndInv(t), Return(t)
  PROVE  IndInv(t)'
<1>1. TypeOK /\ DmaTypes /\ Control(t) /\ Data(t)
  BY DEF IndInv
<1>2. /\ step[t] = "tx" /\ pc[t] = "idle" /\ step'[t] = "idle"
      /\ step' \in [Task -> {"idle", "populated", "rx", "tx"}]
      /\ UNCHANGED <<number, req, stream, moved, pipe, rxdr, overrun, buf>>
      /\ UNCHANGED dmaVars
  BY <1>1 DEF Return, TypeOK
<1>3. TypeOK'
  BY <1>1, <1>2, TypeSame
<1>4. DmaTypes'
  BY <1>1, <1>2 DEF DmaTypes, dmaVars
<1>5. ChanSame("rx") /\ ChanSame("tx")
  BY <1>2 DEF ChanSame, dmaVars
<1>6. Control(t)'
  BY <1>1, <1>2, <1>5, ChanStays DEF Control, PcOK, RxOK, TxOK, RxSetup, dmaVars
<1>7. Data(t)'
  <2>1. (RxBehind(t)' <=> RxBehind(t)) /\ (TxBehind(t)' <=> TxBehind(t)) /\ en' = en
    BY <1>2 DEF RxBehind, TxBehind, dmaVars
  <2> QED
    BY <1>1, <1>2, <2>1, DataSame
<1> QED
  BY <1>3, <1>4, <1>6, <1>7 DEF IndInv

\* Program on either channel: the channel's DMA_CHANNEL is filled, its stream
\* starts, and the caller of a receive returns.
LEMMA ProgramWhat ==
  ASSUME NEW t, Task = {t}, IndInv(t), Program(t)
  PROVE  /\ pc[t] = "setup"
         /\ UNCHANGED <<step, number, req, pipe, rxdr, overrun, buf>>
         /\ UNCHANGED <<chan_semaphore, waiting, chan_comp_evt, tcif, errif, hisr>>
         /\ \/ /\ step[t] = "rx" /\ arg[t] = RxCall /\ pc' = [pc EXCEPT ![t] = "idle"]
               /\ arg' = [arg EXCEPT ![t] = Dma!NoCall]
            \/ /\ step[t] = "tx" /\ arg[t] = TxCall /\ pc' = [pc EXCEPT ![t] = "wait"]
               /\ arg' = arg
         /\ \E c \in Channel :
              /\ c = IF step[t] = "rx" THEN "rx" ELSE "tx"
              /\ Rest(c)
              /\ stream' = [stream EXCEPT ![c] = req] /\ moved' = [moved EXCEPT ![c] = 0]
              /\ cur_req_type' = [cur_req_type EXCEPT ![c] = IF c = "rx" THEN "async" ELSE "sync"]
              /\ cur_req_length' = [cur_req_length EXCEPT ![c] = 1]
              /\ chan_req' = [chan_req EXCEPT ![c] = IF @ = "none" THEN "queued" ELSE "looped"]
              /\ en' = [en EXCEPT ![c] = TRUE] /\ ie' = [ie EXCEPT ![c] = TRUE]
<1>1. TypeOK /\ DmaTypes /\ Control(t)
  BY DEF IndInv
<1>2. /\ pc[t] = "setup"
      /\ \/ step[t] = "rx" /\ arg[t] = RxCall
         \/ step[t] = "tx" /\ arg[t] = TxCall
  BY <1>1 DEF Program, Dma!Setup, Control, PcOK
<1>3. CASE step[t] = "rx" /\ arg[t] = RxCall
  <2>1. Rest("rx")
    BY <1>1, <1>2, <1>3 DEF Control, RxOK, RxSetup
  <2>2. arg[t].chan = "rx" /\ arg[t].type = "async" /\ arg[t].total_requests = 1
    BY <1>3 DEF RxCall
  <2> QED
    BY <1>2, <1>3, <2>1, <2>2
       DEF Program, Dma!Setup, Dma!SaveRequest, Dma!DMA_Add_Chan_Req, Dma!DMA_Tgt_Data_Trans,
           Dma!Goto, Dma!ReturnFrom, Dma!kernelVars, Channel
<1>4. CASE step[t] = "tx" /\ arg[t] = TxCall
  <2>1. Rest("tx")
    BY <1>1, <1>2, <1>4 DEF Control, TxOK
  <2>2. arg[t].chan = "tx" /\ arg[t].type = "sync" /\ arg[t].total_requests = 1
    BY <1>4 DEF TxCall
  <2> QED
    BY <1>2, <1>4, <2>1, <2>2
       DEF Program, Dma!Setup, Dma!SaveRequest, Dma!DMA_Add_Chan_Req, Dma!DMA_Tgt_Data_Trans,
           Dma!Goto, Dma!ReturnFrom, Dma!kernelVars, Channel
<1> QED
  BY <1>2, <1>3, <1>4

LEMMA ProgramStep ==
  ASSUME NEW t, Task = {t}, IndInv(t), Program(t)
  PROVE  IndInv(t)'
<1> USE SpiDmaAssumption
<1>1. TypeOK /\ DmaTypes /\ Control(t) /\ Data(t) /\ StreamsOK(t) /\ Flight(t) /\ BufferOK(t)
  BY DEF IndInv, Data
<1>2. /\ pc[t] = "setup"
      /\ UNCHANGED <<step, number, req, pipe, rxdr, overrun, buf>>
      /\ UNCHANGED <<chan_semaphore, waiting, chan_comp_evt, tcif, errif, hisr>>
      /\ \/ /\ step[t] = "rx" /\ arg[t] = RxCall /\ pc' = [pc EXCEPT ![t] = "idle"]
            /\ arg' = [arg EXCEPT ![t] = Dma!NoCall]
         \/ /\ step[t] = "tx" /\ arg[t] = TxCall /\ pc' = [pc EXCEPT ![t] = "wait"]
            /\ arg' = arg
  BY ProgramWhat
<1>3. PICK c \in Channel :
        /\ c = IF step[t] = "rx" THEN "rx" ELSE "tx"
        /\ Rest(c)
        /\ stream' = [stream EXCEPT ![c] = req] /\ moved' = [moved EXCEPT ![c] = 0]
        /\ cur_req_type' = [cur_req_type EXCEPT ![c] = IF c = "rx" THEN "async" ELSE "sync"]
        /\ cur_req_length' = [cur_req_length EXCEPT ![c] = 1]
        /\ chan_req' = [chan_req EXCEPT ![c] = IF @ = "none" THEN "queued" ELSE "looped"]
        /\ en' = [en EXCEPT ![c] = TRUE] /\ ie' = [ie EXCEPT ![c] = TRUE]
  BY ProgramWhat
<1>4. TypeOK'
  BY <1>1, <1>2, <1>3 DEF TypeOK
<1>5. DmaTypes'
  BY <1>1, <1>2, <1>3 DEF DmaTypes
<1>6. /\ stream'[c] = req /\ moved'[c] = 0 /\ en'[c] /\ ie'[c] /\ cur_req_length'[c] = 1
      /\ cur_req_type'[c] = (IF c = "rx" THEN "async" ELSE "sync")
      /\ chan_req'[c] = "queued"
      /\ Busy(c)'
  BY <1>1, <1>2, <1>3 DEF TypeOK, DmaTypes, Rest, Busy
<1>7. \A o \in Channel \ {c} :
        /\ stream'[o] = stream[o] /\ moved'[o] = moved[o] /\ en'[o] = en[o]
        /\ ChanSame(o) /\ cur_req_type'[o] = cur_req_type[o]
  BY <1>1, <1>2, <1>3 DEF TypeOK, DmaTypes, ChanSame
<1>8. \A o \in Channel \ {c} : (Rest(o)' <=> Rest(o)) /\ (Busy(o)' <=> Busy(o))
  BY <1>7, ChanStays
<1>9. pc'[t] = IF step[t] = "rx" THEN "idle" ELSE "wait"
  BY <1>1, <1>2 DEF DmaTypes
<1>10. CASE step[t] = "rx"
  <2>1. c = "rx" /\ "tx" \in Channel \ {c} /\ "rx" \in Channel
    BY <1>3, <1>10 DEF Channel
  <2>2. pc'[t] = "idle" /\ step'[t] = "rx" /\ RxSetup(t) /\ ~RxSetup(t)'
    BY <1>2, <1>9, <1>10 DEF RxSetup
  <2>3. PcOK(t)'
    BY <2>2 DEF PcOK
  <2>4. RxOK(t)'
    <3>1. chan_semaphore["rx"] = 0 /\ waiting["rx"] = <<>> /\ chan_comp_evt["rx"] = {}
      BY <1>1, <1>3, <2>1, <2>2 DEF Control, RxOK
    <3> QED
      BY <1>2, <1>6, <2>1, <2>2, <3>1 DEF RxOK
  <2>5. TxOK(t)'
    BY <1>1, <1>2, <1>7, <1>8, <1>10, <2>1, <2>2 DEF Control, TxOK
  <2>6. /\ req = [task |-> t, n |-> number[t]] /\ number[t] > 0 /\ number[t] \in Nat
        /\ stream["rx"] = [task |-> t, n |-> number[t] - 1]
        /\ stream["tx"] = [task |-> t, n |-> number[t] - 1]
        /\ stream'["rx"] = req /\ stream'["tx"] = stream["tx"]
    BY <1>1, <1>2, <1>6, <1>7, <1>10, <2>1 DEF StreamsOK, RxBehind, TxBehind, TypeOK
  <2>7. StreamsOK(t)'
    <3>1. ~RxBehind(t)' /\ TxBehind(t)'
      BY <2>2 DEF RxBehind, TxBehind
    <3>2. \A o \in Channel : /\ en'[o] <=> stream'[o].n > 0 /\ moved'[o] < Words
                             /\ stream'[o].n = 0 => moved'[o] = 0
      BY <1>1, <1>6, <1>7, <2>6 DEF StreamsOK
    <3>3. number' = number /\ req' = req
      BY <1>2
    <3> QED
      BY <2>6, <3>1, <3>2, <3>3 DEF StreamsOK
  <2>8. stream["rx"] = stream["tx"] /\ stream'["rx"] # stream'["tx"]
    BY <2>6
  <2>9. moved["rx"] \in 0 .. Words /\ moved["tx"] \in 0 .. Words
        /\ Len(pipe) \in Nat /\ Len(rxdr) \in Nat
    BY <1>1 DEF TypeOK, Channel
  <2>10. moved["rx"] = Words \/ stream["rx"].n = 0
    BY <1>1, <1>3, <2>1, <2>6, <2>9 DEF StreamsOK, Rest
  <2>11. Len(pipe) = 0 /\ Len(rxdr) = 0
    <3>1. moved["rx"] + Len(rxdr) + Len(pipe) = moved["tx"]
      BY <1>1, <2>8 DEF Flight
    <3>2. stream["rx"].n = 0 => moved["tx"] = 0
      BY <1>1, <2>1, <2>6 DEF StreamsOK
    <3> QED
      BY <2>9, <2>10, <3>1, <3>2
  <2>12. Flight(t)'
    <3>1. pipe = <<>> /\ rxdr = <<>>
      BY <1>1, <2>11, EmptySeq DEF TypeOK
    <3> QED
      BY <1>1, <1>2, <1>6, <2>1, <2>8, <3>1 DEF Flight
  <2>13. BufferOK(t)'
    <3> SUFFICES ASSUME NEW k \in 1 .. Words
                 PROVE  buf[t][k].k \in {0, k} /\ buf[t][k].of.n = number[t] - 1
      BY <1>2, <1>6, <2>1, <2>6 DEF BufferOK
    <3>1. CASE stream["rx"].n = 0
      <4>1. moved["rx"] = 0 /\ number[t] - 1 = 0
        BY <1>1, <2>1, <2>6, <3>1 DEF StreamsOK
      <4>2. ~(k <= moved["rx"])
        BY <4>1
      <4>3. buf[t][k].k \in {0, k} /\ buf[t][k].of.n = 0
        BY <1>1, <3>1, <4>2 DEF BufferOK
      <4> QED
        BY <4>1, <4>3
    <3>2. CASE moved["rx"] = Words
      <4>1. buf[t][k] = [of |-> stream["rx"], k |-> k]
        BY <1>1, <3>2 DEF BufferOK
      <4> QED
        BY <2>6, <4>1
    <3> QED
      BY <2>10, <3>1, <3>2
  <2> QED
    BY <1>4, <1>5, <2>3, <2>4, <2>5, <2>7, <2>12, <2>13 DEF IndInv, Control, Data
<1>11. CASE step[t] = "tx"
  <2>1. c = "tx" /\ "rx" \in Channel \ {c} /\ "tx" \in Channel
    BY <1>3, <1>11 DEF Channel
  <2>2. pc'[t] = "wait" /\ step'[t] = "tx" /\ ~RxSetup(t) /\ ~RxSetup(t)' /\ arg'[t] = TxCall
    BY <1>2, <1>9, <1>11 DEF RxSetup
  <2>3. PcOK(t)'
    BY <2>2 DEF PcOK
  <2>4. RxOK(t)'
    BY <1>1, <1>2, <1>7, <1>8, <2>1, <2>2 DEF Control, RxOK
  <2>5. TxOK(t)'
    <3>1. /\ chan_semaphore["tx"] = 0 /\ waiting["tx"] = <<>> /\ chan_comp_evt["tx"] = {}
      BY <1>1, <1>2, <1>3, <1>11, <2>1 DEF Control, TxOK
    <3> QED
      BY <1>2, <1>6, <2>1, <2>2, <3>1 DEF TxOK
  <2>6. /\ req = [task |-> t, n |-> number[t]] /\ number[t] > 0 /\ number[t] \in Nat
        /\ stream["rx"] = req
        /\ stream["tx"] = [task |-> t, n |-> number[t] - 1]
        /\ stream'["tx"] = req /\ stream'["rx"] = stream["rx"]
    BY <1>1, <1>2, <1>6, <1>7, <1>11, <2>1 DEF StreamsOK, RxBehind, TxBehind, TypeOK
  <2>7. StreamsOK(t)'
    <3>1. ~RxBehind(t)' /\ ~TxBehind(t)'
      BY <2>2 DEF RxBehind, TxBehind
    <3>2. \A o \in Channel : /\ en'[o] <=> stream'[o].n > 0 /\ moved'[o] < Words
                             /\ stream'[o].n = 0 => moved'[o] = 0
      BY <1>1, <1>6, <1>7, <2>6 DEF StreamsOK
    <3>3. number' = number /\ req' = req
      BY <1>2
    <3> QED
      BY <2>6, <3>1, <3>2, <3>3 DEF StreamsOK
  <2>8. stream["rx"] # stream["tx"] /\ stream'["rx"] = stream'["tx"]
    BY <2>6
  <2>9. pipe = <<>> /\ rxdr = <<>> /\ moved["rx"] = 0 /\ moved'["rx"] = 0 /\ moved'["tx"] = 0
    BY <1>1, <1>6, <1>7, <2>1, <2>8 DEF Flight
  <2>10. Flight(t)'
    BY <1>1, <1>2, <2>8, <2>9 DEF Flight
  <2>11. BufferOK(t)'
    BY <1>1, <1>2, <2>6, <2>9 DEF BufferOK
  <2> QED
    BY <1>4, <1>5, <2>3, <2>4, <2>5, <2>7, <2>10, <2>11 DEF IndInv, Control, Data
<1> QED
  BY <1>2, <1>10, <1>11

LEMMA AwaitStep ==
  ASSUME NEW t, Task = {t}, IndInv(t), Dma!Await(t), UNCHANGED spiVars
  PROVE  IndInv(t)'
<1>1. TypeOK /\ DmaTypes /\ Control(t) /\ Data(t)
  BY DEF IndInv
<1>2. pc[t] = "wait" /\ step[t] = "tx" /\ arg[t] = TxCall /\ arg[t].chan = "tx"
  BY <1>1 DEF Dma!Await, Control, PcOK, TxCall
<1>3. /\ chan_comp_evt["tx"] # {} /\ chan_comp_evt' = [chan_comp_evt EXCEPT !["tx"] = {}]
      /\ pc' = [pc EXCEPT ![t] = "release"] /\ pc'[t] = "release"
      /\ UNCHANGED <<arg, chan_semaphore, waiting, cur_req_type, cur_req_length, chan_req,
                     en, ie, tcif, errif, hisr>>
      /\ UNCHANGED <<number, req, stream, moved, pipe, rxdr, overrun, buf>> /\ step' = step
  BY <1>1, <1>2 DEF Dma!Await, Dma!Goto, Dma!reqVars, Dma!hwVars, DmaTypes, spiVars
<1>4. TypeOK'
  BY <1>1, <1>3 DEF TypeOK
<1>5. /\ DmaTypes' /\ chan_comp_evt'["tx"] = {}
      /\ chan_comp_evt'["rx"] = chan_comp_evt["rx"]
  BY <1>1, <1>3 DEF DmaTypes, Channel
<1>6. ChanSame("rx") /\ ChanSame("tx")
  BY <1>3 DEF ChanSame
<1>7. Control(t)'
  <2>1. PcOK(t)' /\ ~RxSetup(t) /\ ~RxSetup(t)'
    BY <1>2, <1>3 DEF PcOK, RxSetup
  <2>2. RxOK(t)'
    BY <1>1, <1>2, <1>3, <1>5, <1>6, <2>1, ChanStays DEF Control, RxOK
  <2>3. TxOK(t)'
    BY <1>1, <1>2, <1>3, <1>5, <1>6, ChanStays DEF Control, TxOK
  <2> QED
    BY <2>1, <2>2, <2>3 DEF Control
<1>8. Data(t)'
  <2>1. (RxBehind(t)' <=> RxBehind(t)) /\ (TxBehind(t)' <=> TxBehind(t))
    BY <1>2, <1>3 DEF RxBehind, TxBehind
  <2> QED
    BY <1>1, <1>2, <1>3, <2>1, DataSame
<1> QED
  BY <1>4, <1>5, <1>7, <1>8 DEF IndInv

LEMMA SyncReturnStep ==
  ASSUME NEW t, Task = {t}, IndInv(t), Dma!SyncReturn(t), UNCHANGED spiVars
  PROVE  IndInv(t)'
<1>1. TypeOK /\ DmaTypes /\ Control(t) /\ Data(t)
  BY DEF IndInv
<1>2. /\ pc[t] = "release" /\ step[t] = "tx" /\ arg[t] = TxCall /\ arg[t].chan = "tx"
      /\ waiting["tx"] = <<>> /\ chan_semaphore["tx"] = 0
  BY <1>1 DEF Dma!SyncReturn, Control, PcOK, TxOK, TxCall
<1>3. /\ chan_semaphore' = [chan_semaphore EXCEPT !["tx"] = @ + 1]
      /\ pc' = [pc EXCEPT ![t] = "idle"] /\ pc'[t] = "idle"
      /\ arg' = [arg EXCEPT ![t] = Dma!NoCall]
      /\ UNCHANGED <<waiting, chan_comp_evt, cur_req_type, cur_req_length, chan_req,
                     en, ie, tcif, errif, hisr>>
      /\ UNCHANGED <<number, req, stream, moved, pipe, rxdr, overrun, buf>> /\ step' = step
  BY <1>1, <1>2 DEF Dma!SyncReturn, Dma!Release_chan, Dma!reqVars, Dma!hwVars, DmaTypes, spiVars
<1>4. TypeOK'
  BY <1>1, <1>3 DEF TypeOK
<1>5. /\ DmaTypes' /\ chan_semaphore'["tx"] = 1
      /\ chan_semaphore'["rx"] = chan_semaphore["rx"]
  BY <1>1, <1>2, <1>3 DEF DmaTypes, Channel
<1>6. ChanSame("rx") /\ ChanSame("tx")
  BY <1>3 DEF ChanSame
<1>7. Control(t)'
  <2>1. PcOK(t)' /\ ~RxSetup(t) /\ ~RxSetup(t)'
    BY <1>2, <1>3 DEF PcOK, RxSetup
  <2>2. RxOK(t)'
    BY <1>1, <1>2, <1>3, <1>5, <1>6, <2>1, ChanStays DEF Control, RxOK
  <2>3. TxOK(t)'
    BY <1>1, <1>2, <1>3, <1>5, <1>6, ChanStays DEF Control, TxOK
  <2> QED
    BY <2>1, <2>2, <2>3 DEF Control
<1>8. Data(t)'
  <2>1. (RxBehind(t)' <=> RxBehind(t)) /\ (TxBehind(t)' <=> TxBehind(t))
    BY <1>2, <1>3 DEF RxBehind, TxBehind
  <2> QED
    BY <1>1, <1>2, <1>3, <2>1, DataSame
<1> QED
  BY <1>4, <1>5, <1>7, <1>8 DEF IndInv

-----------------------------------------------------------------------------
(* The interrupts *)

LEMMA LisrStep ==
  ASSUME NEW t, Task = {t}, IndInv(t), NEW c \in Channel, Dma!DMA_Tgt_LISR(c),
         UNCHANGED spiVars
  PROVE  IndInv(t)'
<1>1. TypeOK /\ DmaTypes /\ Control(t) /\ Data(t)
  BY DEF IndInv
<1>2. /\ ie[c] /\ tcif[c]
      /\ ie' = [ie EXCEPT ![c] = FALSE] /\ hisr' = [hisr EXCEPT ![c] = TRUE]
      /\ UNCHANGED <<pc, arg, chan_semaphore, waiting, chan_comp_evt, cur_req_type,
                     cur_req_length, chan_req, en, tcif, errif>>
      /\ UNCHANGED <<number, req, stream, moved, pipe, rxdr, overrun, buf>> /\ step' = step
  BY <1>1 DEF Dma!DMA_Tgt_LISR, Dma!taskVars, Dma!kernelVars, Dma!reqVars, DmaTypes, spiVars
<1>3. TypeOK' /\ DmaTypes'
  BY <1>1, <1>2 DEF TypeOK, DmaTypes
<1>4. ~Rest(c) /\ ~Rest(c)' /\ (Busy(c) => Busy(c)')
  BY <1>1, <1>2 DEF Rest, Busy, DmaTypes
<1>5. \A o \in Channel \ {c} : (Rest(o)' <=> Rest(o)) /\ (Busy(o)' <=> Busy(o))
  <2>1. \A o \in Channel \ {c} : ChanSame(o)
    BY <1>1, <1>2 DEF ChanSame, DmaTypes
  <2> QED
    BY <2>1, ChanStays
<1>6. Control(t)'
  <2>1. PcOK(t)' /\ (RxSetup(t)' <=> RxSetup(t))
    BY <1>1, <1>2 DEF Control, PcOK, RxSetup
  <2>2. \A o \in Channel : (Rest(o) => Rest(o)') /\ (Busy(o) => Busy(o)')
    BY <1>4, <1>5
  <2>3. RxOK(t)'
    BY <1>1, <1>2, <2>1, <2>2 DEF Control, RxOK, Channel
  <2>4. TxOK(t)'
    BY <1>1, <1>2, <2>2 DEF Control, TxOK, Channel
  <2> QED
    BY <2>1, <2>3, <2>4 DEF Control
<1>7. Data(t)'
  <2>1. (RxBehind(t)' <=> RxBehind(t)) /\ (TxBehind(t)' <=> TxBehind(t))
    BY <1>2 DEF RxBehind, TxBehind
  <2> QED
    BY <1>1, <1>2, <2>1, DataSame
<1> QED
  BY <1>3, <1>6, <1>7 DEF IndInv

\* A HISR finds the one request of its channel complete.
LEMMA HisrWhat ==
  ASSUME NEW t, Task = {t}, IndInv(t), NEW c \in Channel, Dma!DMA_Tgt_HISR(c)
  PROVE  /\ Busy(c) /\ hisr[c] /\ ~en[c] /\ ~ie[c]
         /\ hisr' = [hisr EXCEPT ![c] = FALSE] /\ tcif' = [tcif EXCEPT ![c] = FALSE]
         /\ errif' = [errif EXCEPT ![c] = FALSE]
         /\ cur_req_length' = [cur_req_length EXCEPT ![c] = 0]
         /\ chan_req' = [chan_req EXCEPT ![c] = "none"]
         /\ UNCHANGED <<en, ie, arg, cur_req_type>>
         /\ Dma!DMA_Comp_Callback(c, 0)
<1> USE SpiDmaAssumption
<1>1. DmaTypes /\ Control(t)
  BY DEF IndInv
<1>2. Busy(c) /\ hisr[c] /\ ~en[c] /\ ~ie[c] /\ tcif[c] /\ cur_req_length[c] = 1
      /\ chan_req[c] = "queued"
  <2>1. hisr[c]
    BY DEF Dma!DMA_Tgt_HISR
  <2>2. Busy(c)
    BY <1>1, <2>1 DEF Control, RxOK, TxOK, Rest, Channel
  <2> QED
    BY <2>1, <2>2 DEF Busy
<1>3. /\ hisr' = [hisr EXCEPT ![c] = FALSE] /\ tcif' = [tcif EXCEPT ![c] = FALSE]
      /\ errif' = [errif EXCEPT ![c] = FALSE]
      /\ Dma!HisrComplete(c)
      /\ UNCHANGED <<arg, cur_req_type>>
  BY <1>2 DEF Dma!DMA_Tgt_HISR, Dma!HisrError
<1>4. (IF cur_req_length[c] = DMA_LENGTH_CONTINUOUS
         THEN DMA_LENGTH_CONTINUOUS ELSE Dma!Decrement(cur_req_length[c])) = 0
  BY <1>2 DEF Dma!Decrement
<1>5. /\ cur_req_length' = [cur_req_length EXCEPT ![c] = 0]
      /\ Dma!DMA_Trans_Complete(c, 0)
      /\ UNCHANGED <<en, ie>>
  BY <1>3, <1>4 DEF Dma!HisrComplete
<1>6. chan_req' = [chan_req EXCEPT ![c] = "none"]
  BY <1>2, <1>5 DEF Dma!DMA_Trans_Complete, Dma!DMA_Remove_Chan_Req
<1> QED
  BY <1>2, <1>3, <1>5, <1>6 DEF Dma!DMA_Trans_Complete

LEMMA HisrStep ==
  ASSUME NEW t, Task = {t}, IndInv(t), NEW c \in Channel, Dma!DMA_Tgt_HISR(c),
         UNCHANGED spiVars
  PROVE  IndInv(t)'
<1>1. TypeOK /\ DmaTypes /\ Control(t) /\ Data(t)
  BY DEF IndInv
<1>2. /\ UNCHANGED <<number, req, stream, moved, pipe, rxdr, overrun, buf>> /\ step' = step
  BY DEF spiVars
<1>3. /\ Busy(c) /\ hisr[c] /\ ~en[c] /\ ~ie[c]
      /\ hisr' = [hisr EXCEPT ![c] = FALSE] /\ tcif' = [tcif EXCEPT ![c] = FALSE]
      /\ errif' = [errif EXCEPT ![c] = FALSE]
      /\ cur_req_length' = [cur_req_length EXCEPT ![c] = 0]
      /\ chan_req' = [chan_req EXCEPT ![c] = "none"]
      /\ UNCHANGED <<en, ie, arg, cur_req_type>>
      /\ Dma!DMA_Comp_Callback(c, 0)
  BY HisrWhat
<1>4. TypeOK'
  BY <1>1, <1>2 DEF TypeOK
<1>5. Rest(c)' /\ ~Rest(c)
  BY <1>1, <1>3 DEF Rest, Busy, DmaTypes
<1>6. \A o \in Channel \ {c} : (Rest(o)' <=> Rest(o)) /\ (Busy(o)' <=> Busy(o))
  <2>1. \A o \in Channel \ {c} : ChanSame(o)
    BY <1>1, <1>3 DEF ChanSame, DmaTypes
  <2> QED
    BY <2>1, ChanStays
<1>7. /\ cur_req_length' \in [Channel -> Nat] /\ errif' = [o \in Channel |-> FALSE]
      /\ chan_req' \in [Channel -> {"none", "queued", "looped"}]
      /\ tcif' \in [Channel -> BOOLEAN] /\ hisr' \in [Channel -> BOOLEAN]
  BY <1>1, <1>3 DEF DmaTypes
<1>8. CASE c = "tx"
  <2>1. /\ cur_req_type["tx"] = "sync" /\ chan_comp_evt["tx"] = {}
        /\ step[t] = "tx" /\ pc[t] = "wait"
    BY <1>1, <1>5, <1>8 DEF Control, TxOK
  <2>2. /\ chan_comp_evt' = [chan_comp_evt EXCEPT !["tx"] = @ \cup {"completion"}]
        /\ UNCHANGED <<pc, chan_semaphore, waiting>>
    BY <1>3, <1>8, <2>1 DEF Dma!DMA_Comp_Callback
  <2>3. chan_comp_evt'["tx"] # {} /\ chan_comp_evt'["rx"] = chan_comp_evt["rx"]
    BY <1>1, <2>2 DEF DmaTypes, Channel
  <2>4. chan_comp_evt' \in [Channel -> SUBSET {"completion"}]
    BY <1>1, <2>2 DEF DmaTypes, Channel
  <2>5. DmaTypes'
    BY <1>1, <1>3, <1>7, <2>2, <2>4 DEF DmaTypes
  <2>6. PcOK(t)' /\ ~RxSetup(t) /\ ~RxSetup(t)'
    BY <1>1, <1>2, <1>3, <2>1, <2>2 DEF Control, PcOK, RxSetup
  <2>7. RxOK(t)'
    BY <1>1, <1>2, <1>3, <1>6, <1>8, <2>2, <2>3, <2>6 DEF Control, RxOK, Channel
  <2>8. TxOK(t)'
    BY <1>1, <1>2, <1>5, <1>8, <2>1, <2>2, <2>3 DEF Control, TxOK
  <2>9. (RxBehind(t)' <=> RxBehind(t)) /\ (TxBehind(t)' <=> TxBehind(t))
    BY <1>2, <2>2 DEF RxBehind, TxBehind
  <2>10. Data(t)'
    BY <1>1, <1>2, <1>3, <2>9, DataSame
  <2> QED
    BY <1>4, <2>5, <2>6, <2>7, <2>8, <2>10 DEF IndInv, Control
<1>9. CASE c = "rx"
  <2>1. /\ cur_req_type["rx"] = "async" /\ chan_semaphore["rx"] = 0 /\ ~RxSetup(t)
        /\ waiting["rx"] = IF pc[t] = "suspended" THEN <<t>> ELSE <<>>
        /\ chan_comp_evt["rx"] = {}
    BY <1>1, <1>5, <1>9 DEF Control, RxOK
  <2>2. Dma!Release_chan("rx", pc) /\ chan_comp_evt' = chan_comp_evt
    BY <1>3, <1>9, <2>1 DEF Dma!DMA_Comp_Callback
  <2>3. CASE pc[t] # "suspended"
    <3>1. /\ chan_semaphore' = [chan_semaphore EXCEPT !["rx"] = @ + 1]
          /\ pc' = pc /\ waiting' = waiting
      BY <2>1, <2>2, <2>3 DEF Dma!Release_chan
    <3>2. chan_semaphore'["rx"] = 1 /\ chan_semaphore'["tx"] = chan_semaphore["tx"]
      BY <1>1, <2>1, <3>1 DEF DmaTypes, Channel
    <3>3. DmaTypes'
      <4>1. chan_semaphore' \in [Channel -> Nat]
        BY <1>1, <3>1 DEF DmaTypes, Channel
      <4> QED
        BY <1>1, <1>3, <1>7, <2>2, <3>1, <4>1 DEF DmaTypes
    <3>4. PcOK(t)' /\ ~RxSetup(t)'
      BY <1>1, <1>2, <1>3, <2>1, <3>1 DEF Control, PcOK, RxSetup
    <3>5. RxOK(t)'
      BY <1>5, <1>9, <2>1, <2>2, <2>3, <3>1, <3>2, <3>4 DEF RxOK
    <3>6. TxOK(t)'
      BY <1>1, <1>2, <1>3, <1>6, <1>9, <2>2, <3>1, <3>2 DEF Control, TxOK, Channel
    <3>7. (RxBehind(t)' <=> RxBehind(t)) /\ (TxBehind(t)' <=> TxBehind(t))
      BY <1>2, <3>1 DEF RxBehind, TxBehind
    <3>8. Data(t)'
      BY <1>1, <1>2, <1>3, <3>7, DataSame
    <3> QED
      BY <1>4, <3>3, <3>4, <3>5, <3>6, <3>8 DEF IndInv, Control
  <2>4. CASE pc[t] = "suspended"
    <3>1. step[t] = "rx" /\ arg[t] = RxCall
      BY <1>1, <2>4 DEF Control, PcOK
    <3>2. waiting["rx"] = <<t>> /\ <<t>> # <<>> /\ Head(<<t>>) = t /\ Tail(<<t>>) = <<>>
      BY <2>1, <2>4
    <3>3. /\ pc' = [pc EXCEPT ![t] = "setup"]
          /\ waiting' = [waiting EXCEPT !["rx"] = <<>>]
          /\ chan_semaphore' = chan_semaphore
      BY <2>2, <3>2 DEF Dma!Release_chan
    <3>4. /\ waiting'["rx"] = <<>> /\ waiting'["tx"] = waiting["tx"] /\ pc'[t] = "setup"
      BY <1>1, <3>3 DEF DmaTypes, Channel
    <3>5. waiting' \in [Channel -> Seq(Task)]
      <4>1. waiting \in [Channel -> Seq(Task)] /\ <<>> \in Seq(Task)
        BY <1>1 DEF DmaTypes
      <4> QED
        BY ONLY <3>3, <4>1
    <3>6. pc' \in [Task -> {"idle", "suspended", "setup", "wait", "release"}]
      BY <1>1, <3>3 DEF DmaTypes
    <3>7. DmaTypes'
      BY <1>1, <1>3, <1>7, <2>2, <3>3, <3>5, <3>6 DEF DmaTypes
    <3>8. PcOK(t)' /\ RxSetup(t)'
      BY <1>2, <1>3, <3>1, <3>4 DEF PcOK, RxSetup
    <3>9. RxOK(t)'
      BY <1>5, <1>9, <2>1, <2>2, <3>3, <3>4, <3>8 DEF RxOK
    <3>10. TxOK(t)'
      BY <1>1, <1>2, <1>3, <1>6, <1>9, <2>2, <3>1, <3>3, <3>4 DEF Control, TxOK, Channel
    <3>11. (RxBehind(t)' <=> RxBehind(t)) /\ (TxBehind(t)' <=> TxBehind(t))
      BY <1>2, <2>4, <3>1, <3>4 DEF RxBehind, TxBehind
    <3>12. Data(t)'
      BY <1>1, <1>2, <1>3, <3>11, DataSame
    <3> QED
      BY <1>4, <3>7, <3>8, <3>9, <3>10, <3>12 DEF IndInv, Control
  <2> QED
    BY <2>3, <2>4
<1> QED
  BY <1>8, <1>9 DEF Channel

-----------------------------------------------------------------------------
(* The words *)

\* Stream c, which is enabled, moves one more word: it goes on, or it is done
\* and has raised its flag.
LEMMA CountStep ==
  ASSUME NEW t, Task = {t}, IndInv(t), NEW c \in Channel, en[c], Count(c),
         UNCHANGED <<step, number, req, stream>>
  PROVE  /\ DmaTypes' /\ Control(t)' /\ StreamsOK(t)'
         /\ moved[c] \in Nat /\ moved[c] < Words /\ stream[c].n > 0
         /\ moved' \in [Channel -> 0 .. Words] /\ moved'[c] = moved[c] + 1
         /\ \A o \in Channel \ {c} : moved'[o] = moved[o]
<1> USE SpiDmaAssumption
<1>1. TypeOK /\ DmaTypes /\ Control(t) /\ StreamsOK(t)
  BY DEF IndInv, Data
<1>2. moved \in [Channel -> 0 .. Words] /\ moved[c] \in Nat /\ moved[c] < Words
      /\ stream[c].n > 0
  BY <1>1 DEF TypeOK, StreamsOK
<1>3. moved' = [moved EXCEPT ![c] = moved[c] + 1]
  BY DEF Count
<1>4. /\ moved' \in [Channel -> 0 .. Words] /\ moved'[c] = moved[c] + 1
      /\ \A o \in Channel \ {c} : moved'[o] = moved[o]
  BY <1>2, <1>3
<1>5. /\ UNCHANGED <<pc, arg, chan_semaphore, waiting, chan_comp_evt, cur_req_type,
                     cur_req_length, chan_req, ie, errif, hisr>>
      /\ \/ moved[c] + 1 < Words /\ en' = en /\ tcif' = tcif
         \/ /\ moved[c] + 1 = Words
            /\ en' = [en EXCEPT ![c] = FALSE] /\ tcif' = [tcif EXCEPT ![c] = TRUE]
  BY DEF Count, Dma!StreamDone, dmaVars, Dma!taskVars, Dma!kernelVars, Dma!reqVars
<1>6. DmaTypes'
  BY <1>1, <1>5 DEF DmaTypes
<1>7. /\ en'[c] <=> moved'[c] < Words
      /\ \A o \in Channel \ {c} : en'[o] = en[o] /\ tcif'[o] = tcif[o]
  BY <1>1, <1>2, <1>4, <1>5 DEF DmaTypes
<1>8. Control(t)'
  <2>1. \A o \in Channel \ {c} : ChanSame(o)
    BY <1>5, <1>7 DEF ChanSame
  <2>2. \A o \in Channel \ {c} : (Rest(o)' <=> Rest(o)) /\ (Busy(o)' <=> Busy(o))
    BY <2>1, ChanStays
  <2>3. ~Rest(c) /\ (Busy(c) => Busy(c)')
    BY <1>1, <1>5 DEF Rest, Busy, DmaTypes
  <2>4. \A o \in Channel : (Rest(o) => Rest(o)') /\ (Busy(o) => Busy(o)')
    BY <2>2, <2>3
  <2>5. PcOK(t)' /\ (RxSetup(t)' <=> RxSetup(t))
    BY <1>1, <1>5 DEF Control, PcOK, RxSetup
  <2>6. RxOK(t)'
    BY <1>1, <1>5, <2>4, <2>5 DEF Control, RxOK, Channel
  <2>7. TxOK(t)'
    BY <1>1, <1>5, <2>4 DEF Control, TxOK, Channel
  <2> QED
    BY <2>5, <2>6, <2>7 DEF Control
<1>9. StreamsOK(t)'
  <2>1. (RxBehind(t)' <=> RxBehind(t)) /\ (TxBehind(t)' <=> TxBehind(t))
    BY <1>5 DEF RxBehind, TxBehind
  <2>2. \A o \in Channel : /\ en'[o] <=> stream'[o].n > 0 /\ moved'[o] < Words
                           /\ stream'[o].n = 0 => moved'[o] = 0
    BY <1>1, <1>2, <1>4, <1>7 DEF StreamsOK
  <2> QED
    BY <1>1, <2>1, <2>2 DEF StreamsOK
<1> QED
  BY <1>2, <1>4, <1>6, <1>8, <1>9

LEMMA TxMoveStep ==
  ASSUME NEW t, Task = {t}, IndInv(t), TxMove
  PROVE  IndInv(t)'
<1> USE SpiDmaAssumption
<1>1. TypeOK /\ DmaTypes /\ Control(t) /\ StreamsOK(t) /\ Flight(t) /\ BufferOK(t)
  BY DEF IndInv, Data
<1>2. /\ en["tx"] /\ Len(pipe) < PIPE /\ Count("tx")
      /\ UNCHANGED <<step, number, req, stream>> /\ UNCHANGED <<rxdr, overrun, buf>>
      /\ "tx" \in Channel /\ "rx" \in Channel \ {"tx"}
  BY DEF TxMove, Channel
<1>3. /\ DmaTypes' /\ Control(t)' /\ StreamsOK(t)'
      /\ moved["tx"] \in Nat /\ moved["tx"] < Words /\ stream["tx"].n > 0
      /\ moved' \in [Channel -> 0 .. Words] /\ moved'["tx"] = moved["tx"] + 1
      /\ moved'["rx"] = moved["rx"]
  BY <1>2, CountStep
<1>4. PICK w : w = [of |-> stream["tx"], k |-> moved["tx"] + 1]
  OBVIOUS
<1>5. w \in Word
  BY <1>1, <1>2, <1>3, <1>4 DEF TypeOK, Word
<1>6. pipe \in Seq(Word) /\ pipe' = Append(pipe, w)
  BY <1>1, <1>4 DEF TypeOK, TxMove
<1>7. /\ pipe' \in Seq(Word) /\ Len(pipe') = Len(pipe) + 1 /\ Len(pipe) \in Nat
      /\ \A i \in 1 .. Len(pipe) : pipe'[i] = pipe[i]
      /\ pipe'[Len(pipe) + 1] = w
  BY ONLY <1>5, <1>6, AppendProperties
<1>8. TypeOK'
  BY <1>1, <1>2, <1>3, <1>7 DEF TypeOK, PIPE
<1>9. stream["rx"] = stream["tx"]
  <2>1. stream["rx"] # stream["tx"] => TxBehind(t) /\ ~RxBehind(t)
    BY <1>1 DEF StreamsOK, RxBehind, TxBehind
  <2>2. TxBehind(t) => ~en["tx"]
    BY <1>1 DEF TxBehind, Control, PcOK, TxOK, Rest, Busy
  <2> QED
    BY <1>2, <2>1, <2>2
<1>10. Flight(t)'
  <2>1. /\ moved["rx"] + Len(rxdr) + Len(pipe) = moved["tx"]
        /\ moved["rx"] \in Nat /\ Len(rxdr) \in Nat
    BY <1>1, <1>9 DEF Flight, TypeOK, Channel
  <2>0. Len(pipe) \in Nat /\ Len(pipe') = Len(pipe) + 1
        /\ moved["tx"] \in Nat /\ moved'["tx"] = moved["tx"] + 1
    BY <1>3, <1>7
  <2>2. \A i \in 1 .. Len(pipe') :
          pipe'[i] = [of |-> stream["tx"], k |-> moved["rx"] + Len(rxdr) + i]
    <3> SUFFICES ASSUME NEW i \in 1 .. Len(pipe')
                 PROVE  pipe'[i] = [of |-> stream["tx"], k |-> moved["rx"] + Len(rxdr) + i]
      OBVIOUS
    <3>1. CASE i \in 1 .. Len(pipe)
      BY <1>1, <1>7, <1>9, <3>1 DEF Flight
    <3>2. CASE i = Len(pipe) + 1
      <4>1. moved["rx"] + Len(rxdr) + i = moved["tx"] + 1
        BY ONLY <2>0, <2>1, <3>2
      <4> QED
        BY <1>4, <1>7, <3>2, <4>1
    <3> QED
      BY <1>7, <3>1, <3>2
  <2>3. moved["rx"] + Len(rxdr) + Len(pipe') = moved'["tx"]
    <3>1. PICK a \in Nat, b \in Nat, l \in Nat, m \in Nat :
            a = moved["rx"] /\ b = Len(rxdr) /\ l = Len(pipe) /\ m = moved["tx"]
      BY ONLY <2>0, <2>1
    <3>2. a + b + l = m
      BY ONLY <2>1, <3>1
    <3>3. a + b + (l + 1) = m + 1
      BY ONLY <3>2
    <3> QED
      BY ONLY <2>0, <3>1, <3>3
  <2> QED
    <3>1. /\ overrun' = overrun /\ rxdr' = rxdr /\ stream' = stream
          /\ moved'["rx"] = moved["rx"]
      BY <1>2, <1>3
    <3>2. \A i \in 1 .. Len(rxdr) : rxdr[i] = [of |-> stream["tx"], k |-> moved["rx"] + i]
      BY <1>1, <1>9 DEF Flight
    <3>3. ~overrun
      BY <1>1 DEF Flight
    <3> QED
      BY ONLY <1>9, <2>2, <2>3, <3>1, <3>2, <3>3 DEF Flight
<1>11. BufferOK(t)'
  BY <1>1, <1>2, <1>3 DEF BufferOK
<1> QED
  BY <1>3, <1>8, <1>10, <1>11 DEF IndInv, Data

\* A word that is clocked out belongs to the transfer the receiving stream is
\* armed for, and that stream is not done: the word before was fetched.
LEMMA ClockStep ==
  ASSUME NEW t, Task = {t}, IndInv(t), Clock
  PROVE  IndInv(t)'
<1> USE SpiDmaAssumption
<1>1. TypeOK /\ DmaTypes /\ Control(t) /\ StreamsOK(t) /\ Flight(t) /\ BufferOK(t)
  BY DEF IndInv, Data
<1>3. pipe # <<>> /\ (rxdr = <<>> \/ ~en["rx"]) /\ pipe' = Tail(pipe)
      /\ UNCHANGED <<step, number, req, stream, moved, buf>> /\ UNCHANGED dmaVars
  BY DEF Clock
<1>4. pipe \in Seq(Word) /\ rxdr \in Seq(Word)
  BY <1>1 DEF TypeOK
<1>5. /\ Head(pipe) \in Word /\ Tail(pipe) \in Seq(Word) /\ Len(pipe) \in Nat \ {0}
      /\ Len(Tail(pipe)) = Len(pipe) - 1 /\ Head(pipe) = pipe[1]
      /\ \A i \in 1 .. Len(Tail(pipe)) : Tail(pipe)[i] = pipe[i + 1]
  BY ONLY <1>3, <1>4, HeadTailProperties
<1>6. stream["rx"] = stream["tx"]
  BY <1>1, <1>3 DEF Flight
<1>7. /\ moved["rx"] + Len(rxdr) + Len(pipe) = moved["tx"]
      /\ moved["rx"] \in Nat /\ Len(rxdr) \in Nat /\ moved["tx"] \in 0 .. Words
  BY <1>1, <1>6 DEF Flight, TypeOK, Channel
<1>8. en["rx"] /\ rxdr = <<>>
  <2>1. moved["rx"] < Words /\ moved["tx"] # 0
    BY <1>5, <1>7
  <2>2. stream["tx"].n # 0
    BY <1>1, <2>1 DEF StreamsOK, Channel
  <2>3. stream["rx"].n > 0
    BY <1>1, <1>6, <2>2 DEF TypeOK, Channel, Transfer
  <2>4. en["rx"]
    BY <1>1, <2>1, <2>3 DEF StreamsOK, Channel
  <2> QED
    BY <1>3, <2>4
<1>9. PICK w \in Word : w = Head(pipe)
  BY <1>5
<1>10. rxdr' = <<w>> /\ overrun' = overrun
  BY <1>8, <1>9 DEF Clock
<1>11. rxdr' \in Seq(Word) /\ Len(rxdr') = 1 /\ rxdr'[1] = w
  BY <1>10
<1>12. TypeOK'
  BY <1>1, <1>3, <1>5, <1>10, <1>11 DEF TypeOK, PIPE
<1>13. DmaTypes'
  BY <1>1, <1>3 DEF DmaTypes, dmaVars
<1>14. Control(t)'
  <2>1. ChanSame("rx") /\ ChanSame("tx")
    BY <1>3 DEF ChanSame, dmaVars
  <2> QED
    BY <1>1, <1>3, <2>1, ChanStays DEF Control, PcOK, RxOK, TxOK, RxSetup, dmaVars
<1>15. StreamsOK(t)'
  <2>1. (RxBehind(t)' <=> RxBehind(t)) /\ (TxBehind(t)' <=> TxBehind(t)) /\ en' = en
    BY <1>3 DEF RxBehind, TxBehind, dmaVars
  <2> QED
    BY <1>1, <1>3, <2>1 DEF StreamsOK
<1>16. Flight(t)'
  <2>1. Len(rxdr) = 0
    BY <1>8
  <2>2. w = [of |-> stream["tx"], k |-> moved["rx"] + 1]
    <3>1. pipe[1] = [of |-> stream["tx"], k |-> moved["rx"] + Len(rxdr) + 1]
      BY <1>1, <1>5, <1>6 DEF Flight
    <3>2. moved["rx"] + Len(rxdr) + 1 = moved["rx"] + 1
      BY <1>7, <2>1
    <3> QED
      BY <1>5, <1>9, <3>1, <3>2
  <2>3. \A i \in 1 .. Len(rxdr') : rxdr'[i] = [of |-> stream["tx"], k |-> moved["rx"] + i]
    BY <1>11, <2>2
  <2>4. \A i \in 1 .. Len(pipe') :
          pipe'[i] = [of |-> stream["tx"], k |-> moved["rx"] + Len(rxdr') + i]
    <3> SUFFICES ASSUME NEW i \in 1 .. Len(Tail(pipe))
                 PROVE  Tail(pipe)[i] = [of |-> stream["tx"], k |-> moved["rx"] + 1 + i]
      BY <1>3, <1>11
    <3>1. i + 1 \in 1 .. Len(pipe) /\ i \in Nat
      BY <1>5
    <3>2. pipe[i + 1] = [of |-> stream["tx"], k |-> moved["rx"] + Len(rxdr) + (i + 1)]
      BY <1>1, <1>6, <3>1 DEF Flight
    <3>3. moved["rx"] + Len(rxdr) + (i + 1) = moved["rx"] + 1 + i
      BY <1>7, <2>1, <3>1
    <3> QED
      BY <1>5, <3>2, <3>3
  <2>5. moved["rx"] + Len(rxdr') + Len(pipe') = moved["tx"]
    BY <1>3, <1>5, <1>7, <1>11, <2>1
  <2> QED
    BY <1>1, <1>3, <1>6, <1>10, <2>3, <2>4, <2>5 DEF Flight
<1>17. BufferOK(t)'
  BY <1>1, <1>3 DEF BufferOK
<1> QED
  BY <1>12, <1>13, <1>14, <1>15, <1>16, <1>17 DEF IndInv, Data

LEMMA RxMoveStep ==
  ASSUME NEW t, Task = {t}, IndInv(t), RxMove
  PROVE  IndInv(t)'
<1> USE SpiDmaAssumption
<1>1. TypeOK /\ DmaTypes /\ Control(t) /\ StreamsOK(t) /\ Flight(t) /\ BufferOK(t)
  BY DEF IndInv, Data
<1>2. /\ en["rx"] /\ rxdr # <<>> /\ rxdr' = <<>> /\ Count("rx")
      /\ UNCHANGED <<step, number, req, stream>> /\ UNCHANGED <<pipe, overrun>>
      /\ "rx" \in Channel /\ "tx" \in Channel \ {"rx"}
  BY DEF RxMove, Channel
<1>3. /\ DmaTypes' /\ Control(t)' /\ StreamsOK(t)'
      /\ moved["rx"] \in Nat /\ moved["rx"] < Words /\ stream["rx"].n > 0
      /\ moved' \in [Channel -> 0 .. Words] /\ moved'["rx"] = moved["rx"] + 1
      /\ moved'["tx"] = moved["tx"]
  BY <1>2, CountStep
<1>4. stream["rx"] = stream["tx"]
  BY <1>1, <1>2 DEF Flight
<1>5. rxdr \in Seq(Word) /\ Len(rxdr) \in Nat /\ Len(rxdr) <= 1
  BY <1>1 DEF TypeOK
<1>6. Len(rxdr) = 1
  <2>1. Len(rxdr) # 0
    BY <1>2, <1>5, EmptySeq
  <2>2. PICK l \in Nat : l = Len(rxdr)
    BY <1>5
  <2>3. l # 0 /\ l <= 1
    BY <1>5, <2>1, <2>2
  <2>4. l = 1
    BY ONLY <2>3
  <2> QED
    BY ONLY <2>2, <2>4
<1>7. rxdr[1] = [of |-> stream["tx"], k |-> moved["rx"] + 1] /\ rxdr[1] \in Word
  <2>1. \A i \in 1 .. Len(rxdr) : rxdr[i] = [of |-> stream["tx"], k |-> moved["rx"] + i]
    BY <1>1, <1>4 DEF Flight
  <2>2. 1 \in 1 .. Len(rxdr)
    BY <1>6
  <2>3. rxdr[1] \in Word
    BY <1>5, <2>2
  <2> QED
    BY ONLY <2>1, <2>2, <2>3
<1>8. PICK j \in 1 .. Words : j = moved["rx"] + 1
  BY <1>3
<1>9. stream["rx"].task = t
  BY <1>1 DEF StreamsOK
<1>10. /\ buf \in [Task -> [1 .. Words -> Word]]
       /\ buf' = [buf EXCEPT ![t] = [buf[t] EXCEPT ![j] = rxdr[1]]]
  BY <1>1, <1>8, <1>9 DEF RxMove, RxAddress, TypeOK
<1>11. /\ buf' \in [Task -> [1 .. Words -> Word]] /\ buf'[t][j] = rxdr[1]
       /\ \A k \in (1 .. Words) \ {j} : buf'[t][k] = buf[t][k]
  BY <1>7, <1>10
<1>12. TypeOK'
  <2>1. rxdr' \in Seq(Word) /\ Len(rxdr') <= 1
    BY <1>2
  <2> QED
    BY <1>1, <1>2, <1>3, <1>11, <2>1 DEF TypeOK
<1>13. Flight(t)'
  <2>1. Len(rxdr') = 0
    BY <1>2
  <2>2. moved["rx"] + Len(rxdr) + Len(pipe) = moved["tx"] /\ Len(pipe) \in Nat
    BY <1>1, <1>4 DEF Flight, TypeOK
  <2>3. \A i \in 1 .. Len(pipe) :
          pipe[i] = [of |-> stream["tx"], k |-> moved'["rx"] + Len(rxdr') + i]
    <3> SUFFICES ASSUME NEW i \in 1 .. Len(pipe)
                 PROVE  pipe[i] = [of |-> stream["tx"], k |-> moved'["rx"] + Len(rxdr') + i]
      OBVIOUS
    <3>1. pipe[i] = [of |-> stream["tx"], k |-> moved["rx"] + Len(rxdr) + i]
      BY <1>1, <1>4 DEF Flight
    <3>2. moved["rx"] + Len(rxdr) + i = moved'["rx"] + Len(rxdr') + i
      BY <1>3, <1>6, <2>1
    <3> QED
      BY <3>1, <3>2
  <2>4. moved'["rx"] + Len(rxdr') + Len(pipe) = moved'["tx"]
    BY <1>3, <1>6, <2>1, <2>2
  <2> QED
    BY <1>1, <1>2, <1>4, <2>1, <2>3, <2>4 DEF Flight
<1>14. BufferOK(t)'
  <2> SUFFICES ASSUME NEW k \in 1 .. Words
               PROVE  IF k <= moved["rx"] + 1
                        THEN buf'[t][k] = [of |-> stream["rx"], k |-> k]
                        ELSE /\ buf'[t][k].k \in {0, k}
                             /\ buf'[t][k].of.n = IF stream["rx"].n = 0 THEN 0
                                                                        ELSE stream["rx"].n - 1
    BY <1>2, <1>3 DEF BufferOK
  <2>1. CASE k = j
    BY <1>4, <1>7, <1>8, <1>11, <2>1
  <2>2. CASE k # j
    <3>1. buf'[t][k] = buf[t][k]
      BY <1>11, <2>2
    <3>2. k <= moved["rx"] + 1 <=> k <= moved["rx"]
      BY <1>3, <1>8, <2>2
    <3> QED
      BY <1>1, <3>1, <3>2 DEF BufferOK
  <2> QED
    BY <2>1, <2>2
<1> QED
  BY <1>3, <1>12, <1>13, <1>14 DEF IndInv, Data

LEMMA StutterStep ==
  ASSUME NEW t, IndInv(t), UNCHANGED vars
  PROVE  IndInv(t)'
<1>1. UNCHANGED spiVars /\ UNCHANGED dmaVars
  BY DEF vars
<1>2. TypeOK' /\ DmaTypes'
  BY <1>1 DEF IndInv, TypeOK, DmaTypes, spiVars, dmaVars
<1>3. Control(t)'
  <2>1. ChanSame("rx") /\ ChanSame("tx") /\ step' = step
    BY <1>1 DEF ChanSame, dmaVars, spiVars
  <2> QED
    BY <1>1, <2>1, ChanStays DEF IndInv, Control, PcOK, RxOK, TxOK, RxSetup, dmaVars
<1>4. Data(t)'
  <2>1. (RxBehind(t)' <=> RxBehind(t)) /\ (TxBehind(t)' <=> TxBehind(t)) /\ en' = en
    BY <1>1 DEF RxBehind, TxBehind, dmaVars, spiVars
  <2> QED
    BY <1>1, <2>1, DataSame DEF IndInv, spiVars
<1> QED
  BY <1>2, <1>3, <1>4 DEF IndInv

LEMMA Inductive ==
  ASSUME NEW t, Task = {t}, IndInv(t), [Next]_vars
  PROVE  IndInv(t)'
<1>1. CASE UNCHANGED vars
  BY <1>1, StutterStep
<1>2. CASE Populate(t)
  BY <1>2, PopulateStep
<1>3. CASE CallRx(t)
  BY <1>3, CallRxStep
<1>4. CASE CallTx(t)
  BY <1>4, CallTxStep
<1>5. CASE Return(t)
  BY <1>5, ReturnStep
<1>6. CASE Program(t)
  BY <1>6, ProgramStep
<1>7. CASE WaitStep(t)
  BY <1>7, AwaitStep, SyncReturnStep DEF WaitStep
<1>8. CASE TxMove
  BY <1>8, TxMoveStep
<1>9. CASE Clock
  BY <1>9, ClockStep
<1>10. CASE RxMove
  BY <1>10, RxMoveStep
<1>11. ASSUME NEW c \in Channel, Interrupt(c)
       PROVE  IndInv(t)'
  BY <1>11, LisrStep, HisrStep DEF Interrupt, Dma!Interrupt
<1> QED
  BY <1>1, <1>2, <1>3, <1>4, <1>5, <1>6, <1>7, <1>8, <1>9, <1>10, <1>11
     DEF Next, Hardware, TaskStep

LEMMA Invariant ==
  ASSUME NEW CONSTANT t, Task = {t}
  PROVE  Spec => []IndInv(t)
<1>1. Init => IndInv(t)
  BY Initially
<1>2. IndInv(t) /\ [Next]_vars => IndInv(t)'
  BY Inductive
<1> QED
  BY <1>1, <1>2, PTL DEF Spec

-----------------------------------------------------------------------------
(* The theorems *)

\* The variables keep their types: no stream moves more than Words words, the
\* pipe holds at most two and the data register at most one.
THEOREM TypesHold ==
  ASSUME NEW CONSTANT t, Task = {t}
  PROVE  Spec => []TypeOK
<1>1. IndInv(t) => TypeOK
  BY DEF IndInv
<1> QED
  BY <1>1, Invariant, PTL

\* NU_SPI_DMA_Transfer arms the receive before the send, and a receive that
\* is still under way when the call returns holds up the next one: no word is
\* clocked in over one that was not fetched.
THEOREM NoWordIsLost ==
  ASSUME NEW CONSTANT t, Task = {t}
  PROVE  Spec => []NoOverrun
<1>1. IndInv(t) => NoOverrun
  BY DEF IndInv, Data, Flight, NoOverrun
<1> QED
  BY <1>1, Invariant, PTL

\* Every word of the receive buffer is at its place, and the buffer mixes at
\* most two consecutive transfers, the later one in front.
THEOREM BufferStaysInOrder ==
  ASSUME NEW CONSTANT t, Task = {t}
  PROVE  Spec => []BufferInOrder
<1> USE SpiDmaAssumption
<1>1. ASSUME IndInv(t)
      PROVE  BufferInOrder
  <2>1. TypeOK /\ StreamsOK(t) /\ BufferOK(t)
    BY <1>1 DEF IndInv, Data
  <2>2. moved["rx"] \in Nat /\ stream["rx"].n \in Nat
        /\ (stream["rx"].n = 0 => moved["rx"] = 0)
    BY <2>1 DEF TypeOK, Channel, StreamsOK, Transfer
  <2>3. ASSUME NEW k \in 1 .. Words
        PROVE  /\ buf[t][k].k \in {0, k}
               /\ buf[t][k].of.n = IF k <= moved["rx"] THEN stream["rx"].n
                                   ELSE IF stream["rx"].n = 0 THEN 0 ELSE stream["rx"].n - 1
    <3>1. CASE k <= moved["rx"]
      <4>1. buf[t][k] = [of |-> stream["rx"], k |-> k]
        BY <2>1, <3>1 DEF BufferOK
      <4>2. buf[t][k].k = k /\ buf[t][k].of = stream["rx"]
        BY ONLY <4>1
      <4> QED
        BY <3>1, <4>2
    <3>2. CASE ~(k <= moved["rx"])
      BY <2>1, <3>2 DEF BufferOK
    <3> QED
      BY <3>1, <3>2
  <2>4. ASSUME NEW k \in 1 .. Words - 1
        PROVE  buf[t][k].of.n >= buf[t][k + 1].of.n
    <3>1. k \in 1 .. Words /\ k + 1 \in 1 .. Words
      OBVIOUS
    <3>2. \A j \in 1 .. Words :
            buf[t][j].of.n = IF j <= moved["rx"] THEN stream["rx"].n
                             ELSE IF stream["rx"].n = 0 THEN 0 ELSE stream["rx"].n - 1
      BY <2>3
    <3>3. CASE k <= moved["rx"] /\ ~(k + 1 <= moved["rx"])
      BY <2>2, <3>1, <3>2, <3>3
    <3>4. CASE ~(k <= moved["rx"] /\ ~(k + 1 <= moved["rx"]))
      <4>1. k <= moved["rx"] <=> k + 1 <= moved["rx"]
        BY <2>2, <3>4
      <4>2. buf[t][k].of.n = buf[t][k + 1].of.n /\ buf[t][k].of.n \in Nat
        BY <2>2, <3>1, <3>2, <4>1
      <4> QED
        BY <4>2
    <3> QED
      BY <3>3, <3>4
  <2>5. buf[t][1].of.n <= buf[t][Words].of.n + 1
    <3>1. 1 \in 1 .. Words /\ Words \in 1 .. Words
      BY DEF SpiDmaAssumption
    <3>2. /\ buf[t][1].of.n \in {stream["rx"].n, IF stream["rx"].n = 0 THEN 0 ELSE stream["rx"].n - 1}
          /\ buf[t][Words].of.n \in {stream["rx"].n, IF stream["rx"].n = 0 THEN 0 ELSE stream["rx"].n - 1}
      BY <2>3, <3>1
    <3> QED
      BY <2>2, <3>2
  <2> QED
    BY <2>3, <2>4, <2>5 DEF BufferInOrder
<1> QED
  BY <1>1, Invariant, PTL

\* The words missing when the call returns: the send is over, so that all words
\* the receiving stream has not stored are in the three registers.
LEMMA ReturnWhat ==
  ASSUME NEW t, IndInv(t), step[t] = "tx", pc[t] = "idle",
         NEW k \in 1 .. Words, k + PIPE < Words
  PROVE  buf[t][k].of = [task |-> t, n |-> number[t]]
<1> USE SpiDmaAssumption
<1>1. TypeOK /\ TxOK(t) /\ StreamsOK(t) /\ Flight(t) /\ BufferOK(t)
  BY DEF IndInv, Control, Data
<1>2. ~en["tx"]
  BY <1>1 DEF TxOK, Rest
<1>3. /\ stream["rx"] = [task |-> t, n |-> number[t]]
      /\ stream["tx"] = [task |-> t, n |-> number[t]] /\ number[t] > 0
  BY <1>1 DEF StreamsOK, RxBehind, TxBehind
<1>4. stream["tx"].n = number[t] /\ stream["rx"].n = number[t]
  BY ONLY <1>3
<1>5. ~(moved["tx"] < Words)
  <2>1. en["tx"] <=> stream["tx"].n > 0 /\ moved["tx"] < Words
    BY <1>1 DEF StreamsOK, Channel
  <2> QED
    BY <1>2, <1>3, <1>4, <2>1
<1>6. PICK m \in 0 .. Words, w \in 0 .. Words, r \in Nat, p \in Nat :
        /\ m = moved["rx"] /\ w = moved["tx"] /\ r = Len(rxdr) /\ p = Len(pipe)
        /\ r <= 1 /\ p <= 2
  <2>1. moved["rx"] \in 0 .. Words /\ moved["tx"] \in 0 .. Words
    <3>1. moved \in [Channel -> 0 .. Words] /\ "rx" \in Channel /\ "tx" \in Channel
      BY <1>1 DEF TypeOK, Channel
    <3> QED
      BY <3>1
  <2>2. rxdr \in Seq(Word) /\ pipe \in Seq(Word) /\ Len(pipe) <= 2 /\ Len(rxdr) <= 1
    BY <1>1 DEF TypeOK, PIPE
  <2>3. Len(rxdr) \in Nat /\ Len(pipe) \in Nat
    BY <2>2
  <2> QED
    BY <2>1, <2>2, <2>3
<1>7. m + r + p = w
  BY <1>1, <1>3, <1>6 DEF Flight
<1>8. k <= m
  <2>1. k + 2 < Words /\ ~(w < Words)
    BY <1>5, <1>6 DEF PIPE
  <2> QED
    BY ONLY <1>6, <1>7, <2>1, SpiDmaAssumption, k \in 1 .. Words
<1>9. buf[t][k] = [of |-> stream["rx"], k |-> k]
  BY <1>1, <1>6, <1>8 DEF BufferOK
<1> QED
  BY ONLY <1>3, <1>9

\* NU_SPI_DMA_Transfer blocks for its send only, but it never returns with more
\* than the last three words missing from the receive buffer.
THEOREM OnlyLastWordsAreMissing ==
  ASSUME NEW CONSTANT u, Task = {u}
  PROVE  Spec => AllButLastWords
<1> DEFINE A == \A t \in Task : step[t] = "tx" /\ step'[t] = "idle" =>
                  \A k \in 1 .. Words : k + PIPE < Words =>
                    buf[t][k].of = [task |-> t, n |-> number[t]]
<1>1. IndInv(u) /\ [Next]_vars => [A]_vars
  <2> SUFFICES ASSUME IndInv(u), [Next]_vars, step[u] = "tx", step'[u] = "idle",
                      NEW k \in 1 .. Words, k + PIPE < Words
               PROVE  buf[u][k].of = [task |-> u, n |-> number[u]]
    OBVIOUS
  <2>1. ~UNCHANGED step
    OBVIOUS
  <2>2. ~UNCHANGED vars
    BY <2>1 DEF vars, spiVars
  <2>3. ~Hardware
    BY <2>1 DEF Hardware, TxMove, Clock, RxMove, Interrupt, spiVars
  <2>4. ~Populate(u) /\ ~CallRx(u) /\ ~CallTx(u)
    BY DEF Populate, CallRx, CallTx
  <2>5. ~Program(u) /\ ~WaitStep(u)
    BY <2>1 DEF Program, WaitStep, spiVars
  <2>6. Return(u)
    BY <2>2, <2>3, <2>4, <2>5 DEF Next, TaskStep
  <2> QED
    BY <2>6, ReturnWhat DEF Return
<1>2. Init => IndInv(u)
  BY Initially
<1>3. IndInv(u) /\ [Next]_vars => IndInv(u)'
  BY Inductive
<1> QED
  BY <1>1, <1>2, <1>3, PTL DEF Spec, AllButLastWords
=============================================================================
