-------------------------- MODULE IfSpiInit_proofs --------------------------
(***************************************************************************)
(* The set-up of the IFSPI driver is safe for any numbers of clients, bus   *)
(* and device slots, streams, peripherals, control blocks and channel       *)
(* users, and any bounds on attempts and calls.                             *)
(*                                                                          *)
(* The invariants of the two services are those of SpiServices_proofs; what *)
(* is added here is what the driver has in its hands at each of its steps.  *)
(***************************************************************************)
EXTENDS IfSpiInit, SpiServices_proofs

-----------------------------------------------------------------------------
(* The inductive invariant *)

InitTypes ==
  /\ step \in Steps
  /\ attempts \in 0 .. MaxAttempts /\ calls \in 0 .. MaxCalls
  /\ spiHandle \in Handle \cup {None} /\ spi_bus_id \in 0 .. MaxBuses
  /\ dma_handle \in [Dir -> CbIndex \cup {None}]
  /\ chan_handle \in [Dir -> (CbIndex \X User) \cup {None}]

\* The driver has opened the stream of direction dir ...
Opened(dir) ==
  /\ dma_handle[dir] \in CbIndex
  /\ opens[Ifspi][dma_handle[dir]] > 0
  /\ cb[dma_handle[dir]] = DmaIntf[dir].dev

\* ... and acquired its channel.
ChannelAt(h, dir) ==
  /\ h \in acquired[Ifspi]
  /\ cb[h[1]] = DmaIntf[dir].dev
  /\ chan[h[1]][h[2]] = DmaIntf[dir].peri

\* The channel of the transmitter is the first the driver gets, and it keeps it.
TxTaken == \E h \in acquired[Ifspi] : ChannelAt(h, "tx")

SetupOK ==
  /\ step \notin {"down", "failed"} => GoodFor(Ifspi, spiHandle, spi_bus_id)
  /\ step \in {"open_rx", "acquire_tx", "acquire_rx", "task", "running"} => Opened("tx")
  /\ step \in {"acquire_tx", "acquire_rx", "task", "running"} => Opened("rx")
  /\ step \in {"acquire_rx", "task", "running"} => ChannelAt(chan_handle["tx"], "tx")
  /\ step \in {"task", "running"} => ChannelAt(chan_handle["rx"], "rx")
  /\ acquired[Ifspi] # {} => TxTaken

IndInv == RegInv /\ DmaInv /\ InitTypes /\ SetupOK

LEMMA Initially == Init => IndInv
<1> SUFFICES ASSUME Init PROVE IndInv
  OBVIOUS
<1>1. RegInv /\ DmaInv
  BY RegInitially, DmaInitially DEF Init
<1>2. InitTypes
  BY SetupAssumption, RegistryAssumption
     DEF Init, InitTypes, Steps, Dir, NoHandle
<1>3. SetupOK
  BY SetupAssumption DEF Init, SetupOK, DmaInit
<1> QED
  BY <1>1, <1>2, <1>3 DEF IndInv

-----------------------------------------------------------------------------
(* Frames *)

LEMMA RegSame ==
  ASSUME RegInv, UNCHANGED regVars
  PROVE  RegInv'
<1>1. RegTypeOK' /\ SessionOK' /\ HeldOK'
  BY DEF regVars, RegInv, RegTypeOK, SessionOK, HeldOK, Fresh, DeviceOf, Registered
<1>2. RegisteredOK' /\ LeftOK'
  BY DEF regVars, RegInv, RegisteredOK, Registered, Fresh, LeftOK
<1>3. StaleOK'
  BY DEF regVars, RegInv, StaleOK, AllPresent
<1> QED
  BY <1>1, <1>2, <1>3 DEF RegInv

LEMMA GoodSame ==
  ASSUME NEW i, NEW h, NEW id, GoodFor(i, h, id), UNCHANGED regVars
  PROVE  GoodFor(i, h, id)'
BY DEF GoodFor, regVars

LEMMA DmaSame ==
  ASSUME DmaInv, UNCHANGED dmaVars
  PROVE  DmaInv' /\ Keeps(Ifspi)
<1>1. /\ UNCHANGED <<cbVars, device_in_use, opens>> /\ UNCHANGED cb
      /\ UNCHANGED <<chan, in_use, chan_semaphore, acquired>>
  BY DEF dmaVars, chanVars, cbVars
<1>2. FreeIsVacant' /\ HolderHasChannel'
  BY <1>1 DEF DmaInv, FreeIsVacant, HolderHasChannel
<1>3. DmaInv'
  BY <1>1, <1>2, ChannelStep DEF DmaInv, DmaTypeOK
<1> QED
  BY <1>1, <1>3 DEF Keeps

\* What the driver has got it keeps.
LEMMA GotStays ==
  ASSUME DmaInv, Keeps(Ifspi)
  PROVE  /\ \A dir \in Dir : Opened(dir) /\ dma_handle'[dir] = dma_handle[dir] => Opened(dir)'
         /\ \A dir \in Dir, h \in acquired[Ifspi] :
              ChannelAt(h, dir) => ChannelAt(h, dir)'
         /\ TxTaken => TxTaken'
<1>1. \A h \in acquired[Ifspi] : h[1] \in CbIndex /\ opens[Ifspi][h[1]] > 0
  BY SetupAssumption DEF DmaInv, DmaTypeOK, HolderHasChannel
<1>2. \A dir \in Dir : Opened(dir) /\ dma_handle'[dir] = dma_handle[dir] => Opened(dir)'
  BY DEF Opened, Keeps
<1>3. \A dir \in Dir, h \in acquired[Ifspi] : ChannelAt(h, dir) => ChannelAt(h, dir)'
  BY <1>1 DEF ChannelAt, Keeps
<1>4. TxTaken => TxTaken'
  BY <1>3 DEF TxTaken, Keeps, Dir
<1> QED
  BY <1>2, <1>3, <1>4

\* A step that neither moves the driver on nor takes anything from it.
LEMMA DriverWaits ==
  ASSUME IndInv, RegInv', DmaInv', Keeps(Ifspi), UNCHANGED initVars,
         calls' \in 0 .. MaxCalls, acquired'[Ifspi] = acquired[Ifspi],
         \A h, id : GoodFor(Ifspi, h, id) => GoodFor(Ifspi, h, id)'
  PROVE  IndInv'
<1>1. /\ step' = step /\ attempts' = attempts /\ spiHandle' = spiHandle
      /\ spi_bus_id' = spi_bus_id /\ dma_handle' = dma_handle
      /\ chan_handle' = chan_handle
  BY DEF initVars
<1>2. InitTypes'
  BY <1>1 DEF IndInv, InitTypes
<1>3. GoodFor(Ifspi, spiHandle, spi_bus_id) => GoodFor(Ifspi, spiHandle, spi_bus_id)'
  <2>1. PICK h, id : h = spiHandle /\ id = spi_bus_id
    OBVIOUS
  <2>2. GoodFor(Ifspi, h, id) => GoodFor(Ifspi, h, id)'
    OBVIOUS
  <2> QED
    BY <1>1, <2>1, <2>2 DEF GoodFor
<1>4. \A dir \in Dir : Opened(dir) => Opened(dir)'
  BY <1>1, GotStays DEF IndInv
<1>5. \A dir \in Dir : ChannelAt(chan_handle[dir], dir) => ChannelAt(chan_handle[dir], dir)'
  <2> SUFFICES ASSUME NEW dir \in Dir, ChannelAt(chan_handle[dir], dir)
               PROVE  ChannelAt(chan_handle[dir], dir)'
    OBVIOUS
  <2>1. PICK h \in acquired[Ifspi] : h = chan_handle[dir]
    BY DEF ChannelAt
  <2>2. ChannelAt(h, dir)'
    BY <2>1, GotStays DEF IndInv
  <2> QED
    BY <1>1, <2>1, <2>2 DEF ChannelAt
<1>6. SetupOK'
  BY <1>1, <1>3, <1>4, <1>5, GotStays DEF IndInv, SetupOK, Dir
<1> QED
  BY <1>2, <1>6 DEF IndInv

-----------------------------------------------------------------------------
(* The steps of IF_SPI_Tgt_Controller_Init *)

LEMMA RegisterStep ==
  ASSUME IndInv, Register, UNCHANGED calls
  PROVE  IndInv'
<1> USE SetupAssumption
<1>1. /\ RegInv /\ DmaInv /\ InitTypes /\ SetupOK
      /\ attempts' = attempts + 1 /\ attempts' \in 0 .. MaxAttempts
      /\ UNCHANGED <<dmaVars, dma_handle, chan_handle>>
  BY DEF IndInv, Register, InitTypes
<1>2. DmaInv' /\ Keeps(Ifspi)
  BY <1>1, DmaSame
<1>3. acquired' = acquired
  BY <1>1 DEF dmaVars
<1>4. acquired'[Ifspi] # {} => TxTaken'
  BY <1>1, <1>2, <1>3, GotStays DEF SetupOK
<1>5. ASSUME NEW h \in Handle, NU_SPI_Register_Succeeds(Ifspi, spi_bus_name, h),
             spiHandle' = h, spi_bus_id' = devices'[h[1]][h[2]].on, step' = "open_tx"
      PROVE  IndInv'
  <2>1. RegInv'
    BY <1>1, <1>5, RegisterSucceedsStep
  <2>2. PICK id : id = devices'[h[1]][h[2]].on
    OBVIOUS
  <2>3. GoodFor(Ifspi, h, id)'
    BY <1>1, <1>5, <2>2, GoodAtFirst
  <2>4. GoodFor(Ifspi, spiHandle, spi_bus_id)'
    BY <1>5, <2>2, <2>3 DEF GoodFor
  <2>5. SetupOK'
    BY <1>4, <1>5, <2>4 DEF SetupOK
  <2>6. spi_bus_id' \in 0 .. MaxBuses
    <3>1. h[1] \in BusIndex /\ h[2] \in DevIndex
      BY DEF Handle
    <3>2. /\ devices' \in [BusIndex -> [DevIndex -> Device \cup {None}]]
          /\ HeldOK' /\ h \in Fresh(Ifspi)'
      BY <1>1, <1>5, <2>1
         DEF RegInv, RegTypeOK, NU_SPI_Register_Succeeds, Fresh
    <3>3. devices'[h[1]][h[2]] # None
      BY <3>2 DEF HeldOK, DeviceOf, Registered
    <3>4. devices'[h[1]][h[2]] \in Device
      BY <3>1, <3>2, <3>3
    <3> QED
      BY <1>5, <3>4 DEF Device
  <2>7. InitTypes'
    BY <1>1, <1>5, <2>6 DEF InitTypes, Steps
  <2> QED
    BY <1>2, <2>1, <2>5, <2>7 DEF IndInv
<1>6. ASSUME UNCHANGED regVars, step' = "failed", UNCHANGED <<spiHandle, spi_bus_id>>
      PROVE  IndInv'
  <2>1. RegInv'
    BY <1>1, <1>6, RegSame
  <2>2. InitTypes' /\ SetupOK'
    BY <1>1, <1>4, <1>6 DEF InitTypes, Steps, SetupOK
  <2> QED
    BY <1>2, <2>1, <2>2 DEF IndInv
<1> QED
  BY <1>5, <1>6 DEF Register, Goto, NU_SPI_Register_Fails

\* What the steps of NU_SPI_DMA_Setup have in common, as far as the services
\* and the driver's handle are concerned.
LEMMA SetupFrame ==
  ASSUME IndInv, DmaCall(Ifspi), Keeps(Ifspi),
         UNCHANGED <<regVars, attempts, spiHandle, spi_bus_id>>, UNCHANGED calls,
         step \notin {"down", "failed"}, step' \in Steps,
         dma_handle' \in [Dir -> CbIndex \cup {None}],
         chan_handle' \in [Dir -> (CbIndex \X User) \cup {None}]
  PROVE  /\ RegInv' /\ DmaInv' /\ InitTypes'
         /\ GoodFor(Ifspi, spiHandle, spi_bus_id)'
<1>1. RegInv' /\ DmaInv'
  BY RegSame, DmaCallKeeps, SetupAssumption DEF IndInv
<1>2. InitTypes'
  BY DEF IndInv, InitTypes
<1>3. GoodFor(Ifspi, spiHandle, spi_bus_id)'
  BY DEF IndInv, SetupOK, GoodFor, regVars
<1> QED
  BY <1>1, <1>2, <1>3

\* A failed call: nothing that it takes, and it is over.
LEMMA FailsStep ==
  ASSUME IndInv, DmaCall(Ifspi), Keeps(Ifspi), SetupFails,
         UNCHANGED <<regVars, attempts, spiHandle, spi_bus_id>>, UNCHANGED calls,
         step \notin {"down", "failed"}, acquired' = acquired,
         chan_handle' \in [Dir -> (CbIndex \X User) \cup {None}]
  PROVE  IndInv'
<1>1. /\ step' = "failed" /\ dma_handle' = dma_handle
  BY DEF SetupFails, Goto
<1>2. RegInv' /\ DmaInv' /\ InitTypes'
  BY <1>1, SetupFrame DEF IndInv, InitTypes, Steps
<1>3. SetupOK'
  BY <1>1, GotStays DEF IndInv, SetupOK
<1> QED
  BY <1>2, <1>3 DEF IndInv

LEMMA OpenStep ==
  ASSUME IndInv, UNCHANGED calls,
         NEW dir \in Dir, NEW here, NEW next, Open(dir, here, next),
         \/ dir = "tx" /\ here = "open_tx" /\ next = "open_rx"
         \/ dir = "rx" /\ here = "open_rx" /\ next = "acquire_tx"
  PROVE  IndInv'
<1> USE SetupAssumption
<1>1. /\ RegInv /\ DmaInv /\ InitTypes /\ SetupOK
      /\ DmaIntf[dir].dev \in DmaDev
      /\ step = here /\ step \notin {"down", "failed"}
      /\ UNCHANGED <<regVars, attempts, spiHandle, spi_bus_id>>
      /\ UNCHANGED chan_handle
      /\ chan_handle \in [Dir -> (CbIndex \X User) \cup {None}]
  BY DEF IndInv, InitTypes, Open, Dir
<1>2. CASE NU_DMA_Open_Fails(DmaIntf[dir].dev) /\ SetupFails
  <2>1. DmaCall(Ifspi) /\ Keeps(Ifspi)
    BY <1>1, <1>2, OpenLeaves DEF DmaCall
  <2>2. acquired' = acquired
    BY <1>2 DEF NU_DMA_Open_Fails, OpenRefused, OpenNoMemory, dmaVars
  <2> QED
    BY <1>1, <1>2, <2>1, <2>2, FailsStep
<1>3. ASSUME NEW s \in CbIndex, NU_DMA_Open_Succeeds(Ifspi, DmaIntf[dir].dev, s),
             dma_handle' = [dma_handle EXCEPT ![dir] = s],
             step' = next, UNCHANGED chan_handle
      PROVE  IndInv'
  <2>1. DmaCall(Ifspi) /\ Keeps(Ifspi)
    BY <1>1, <1>3, OpenLeaves DEF DmaCall
  <2>2. /\ cb'[s] = DmaIntf[dir].dev /\ opens'[Ifspi][s] > 0 /\ acquired' = acquired
    BY <1>1, <1>3 DEF NU_DMA_Open_Succeeds, OpenAgain, OpenFirst, DmaInv, DmaTypeOK
  <2>3. /\ dma_handle' \in [Dir -> CbIndex \cup {None}] /\ dma_handle'[dir] = s
        /\ \A d \in Dir \ {dir} : dma_handle'[d] = dma_handle[d]
    BY <1>1, <1>3 DEF InitTypes
  <2>4. /\ RegInv' /\ DmaInv' /\ InitTypes'
        /\ GoodFor(Ifspi, spiHandle, spi_bus_id)'
    BY <1>1, <1>3, <2>1, <2>3, SetupFrame DEF InitTypes, Steps
  <2>5. Opened(dir)'
    BY <2>2, <2>3 DEF Opened
  <2>6. dir = "rx" => Opened("tx")'
    BY <1>1, <2>1, <2>3, GotStays DEF SetupOK, Dir
  <2>7. acquired'[Ifspi] # {} => TxTaken'
    BY <1>1, <2>1, <2>2, GotStays DEF SetupOK
  <2>8. SetupOK'
    BY <1>3, <2>4, <2>5, <2>6, <2>7 DEF SetupOK
  <2> QED
    BY <2>4, <2>8 DEF IndInv
<1> QED
  BY <1>2, <1>3 DEF Open, Goto

LEMMA AcquireStep ==
  ASSUME IndInv, UNCHANGED calls,
         NEW dir \in Dir, NEW here, NEW next, Acquire(dir, here, next),
         \/ dir = "tx" /\ here = "acquire_tx" /\ next = "acquire_rx"
         \/ dir = "rx" /\ here = "acquire_rx" /\ next = "task"
  PROVE  IndInv'
<1> USE SetupAssumption
<1>1. /\ RegInv /\ DmaInv /\ InitTypes /\ SetupOK
      /\ DmaIntf[dir].peri \in Peri
      /\ step = here /\ step \notin {"down", "failed"}
      /\ UNCHANGED <<regVars, attempts, spiHandle, spi_bus_id>>
      /\ chan_handle \in [Dir -> (CbIndex \X User) \cup {None}]
  BY DEF IndInv, InitTypes, Acquire, Dir
<1>2. Opened("tx") /\ Opened("rx")
  BY <1>1 DEF SetupOK
<1>3. PICK s \in CbIndex : s = dma_handle[dir]
  BY <1>2 DEF Opened, Dir
<1>4. opens[Ifspi][s] > 0 /\ cb[s] = DmaIntf[dir].dev
  BY <1>2, <1>3 DEF Opened, Dir
<1> DEFINE p == DmaIntf[dir].peri
           written == HandleWritten(s, p, chan_handle[dir])
<1>a. chan_handle' = [chan_handle EXCEPT ![dir] = written]
  BY <1>3 DEF Acquire
<1>b. written \in (CbIndex \X User) \cup {None}
  <2>1. CASE AlreadyOpen(s, p) \/ Vacant(s) = {}
    BY <1>1, <2>1 DEF HandleWritten
  <2>2. CASE Vacant(s) # {} /\ ~AlreadyOpen(s, p)
    <3>1. Vacant(s) \in SUBSET Nat
      BY DmaAssumption DEF Vacant
    <3>2. First(Vacant(s)) \in User
      BY <2>2, <3>1, FirstIsIn DEF Vacant
    <3> QED
      BY <2>2, <3>2 DEF HandleWritten
  <2> QED
    BY <2>1, <2>2
<1>c. chan_handle' \in [Dir -> (CbIndex \X User) \cup {None}]
  BY <1>1, <1>a, <1>b
<1>5. CASE NU_DMA_Acquire_Channel_Fails(Ifspi, s, DmaIntf[dir].peri) /\ SetupFails
  <2>1. DmaCall(Ifspi)
    BY <1>1, <1>4, <1>5 DEF DmaCall
  <2>2. Keeps(Ifspi)
    BY <1>1, <1>5, AcquireLeaves
  <2>3. acquired' = acquired
    BY <1>5 DEF NU_DMA_Acquire_Channel_Fails, dmaVars
  <2> QED
    BY <1>1, <1>c, <1>5, <2>1, <2>2, <2>3, FailsStep
<1>6. ASSUME NEW u \in User,
             NU_DMA_Acquire_Channel_Succeeds(Ifspi, s, DmaIntf[dir].peri, u),
             step' = next, UNCHANGED dma_handle
      PROVE  IndInv'
  <2>1. DmaCall(Ifspi)
    BY <1>1, <1>4, <1>6 DEF DmaCall
  <2>2. Keeps(Ifspi)
    BY <1>1, <1>6, AcquireLeaves
  <2>3. /\ <<s, u>> \in acquired'[Ifspi] /\ cb' = cb
        /\ chan'[s][u] = DmaIntf[dir].peri
    BY <1>1, <1>6 DEF NU_DMA_Acquire_Channel_Succeeds, Enable, DmaInv, DmaTypeOK, cbVars
  <2>4. /\ chan_handle' \in [Dir -> (CbIndex \X User) \cup {None}]
        /\ chan_handle'[dir] = <<s, u>>
        /\ \A d \in Dir \ {dir} : chan_handle'[d] = chan_handle[d]
    <3>1. written = <<s, u>>
      BY <1>6 DEF HandleWritten, NU_DMA_Acquire_Channel_Succeeds, Enable
    <3> QED
      BY <1>1, <1>a, <1>c, <3>1
  <2>5. /\ RegInv' /\ DmaInv' /\ InitTypes'
        /\ GoodFor(Ifspi, spiHandle, spi_bus_id)'
    BY <1>1, <1>6, <2>1, <2>2, <2>4, SetupFrame DEF InitTypes, Steps
  <2>6. Opened("tx")' /\ Opened("rx")'
    BY <1>1, <1>2, <1>6, <2>2, GotStays DEF Dir
  <2>7. ChannelAt(<<s, u>>, dir)'
    BY <1>4, <2>3 DEF ChannelAt
  <2>8. ChannelAt(chan_handle[dir], dir)'
    BY <2>4, <2>7 DEF ChannelAt
  <2>9. CASE dir = "tx"
    <3>1. TxTaken'
      BY <2>3, <2>7, <2>9 DEF TxTaken
    <3> QED
      BY <1>6, <2>5, <2>6, <2>8, <2>9, <3>1 DEF IndInv, SetupOK
  <2>10. CASE dir = "rx"
    <3>1. PICK h \in acquired[Ifspi] : h = chan_handle["tx"] /\ ChannelAt(h, "tx")
      BY <1>1, <2>10 DEF SetupOK, ChannelAt
    <3>2. ChannelAt(h, "tx")'
      BY <1>1, <2>2, <3>1, GotStays DEF Dir
    <3>3. ChannelAt(chan_handle["tx"], "tx")'
      BY <2>4, <2>10, <3>1, <3>2 DEF ChannelAt, Dir
    <3>4. TxTaken'
      BY <3>2 DEF TxTaken, ChannelAt
    <3> QED
      BY <1>6, <2>5, <2>6, <2>8, <2>10, <3>3, <3>4 DEF IndInv, SetupOK
  <2> QED
    BY <2>9, <2>10 DEF Dir
<1> QED
  BY <1>3, <1>5, <1>6 DEF Acquire, Goto

LEMMA CreateTaskStep ==
  ASSUME IndInv, CreateTask, UNCHANGED calls
  PROVE  IndInv'
<1>1. /\ RegInv /\ DmaInv /\ InitTypes /\ SetupOK
      /\ step = "task" /\ step' \in {"running", "failed"}
      /\ UNCHANGED regVars /\ UNCHANGED dmaVars
      /\ UNCHANGED <<attempts, spiHandle, spi_bus_id, dma_handle, chan_handle>>
  BY DEF IndInv, CreateTask, Goto
<1>2. RegInv' /\ DmaInv'
  BY <1>1, RegSame, DmaSame
<1>3. InitTypes'
  BY <1>1 DEF InitTypes, Steps
<1>4. /\ opens' = opens /\ cb' = cb /\ acquired' = acquired /\ chan' = chan
      /\ devices' = devices /\ held' = held /\ stale' = stale
  BY <1>1 DEF regVars, dmaVars, cbVars, chanVars
<1>5. SetupOK'
  BY <1>1, <1>4 DEF SetupOK, GoodFor, Opened, ChannelAt, TxTaken
<1> QED
  BY <1>2, <1>3, <1>5 DEF IndInv

LEMMA EnvironmentStep ==
  ASSUME IndInv, Environment
  PROVE  IndInv'
<1> USE SetupAssumption
<1>1. RegInv /\ DmaInv /\ InitTypes
  BY DEF IndInv
<1>2. calls' \in 0 .. MaxCalls
  BY <1>1 DEF Environment, InitTypes
<1>3. CASE BusChange /\ UNCHANGED <<dmaVars, initVars>>
  <2>1. RegInv'
    BY <1>1, <1>3, BusChangeKeeps
  <2>2. DmaInv' /\ Keeps(Ifspi) /\ acquired' = acquired
    BY <1>1, <1>3, DmaSame DEF dmaVars
  <2>3. \A h, id : GoodFor(Ifspi, h, id) => GoodFor(Ifspi, h, id)'
    BY <1>1, <1>3, GoodStays
  <2> QED
    BY <1>2, <1>3, <2>1, <2>2, <2>3, DriverWaits
<1>4. ASSUME NEW c \in Other, RegCall(c), UNCHANGED <<dmaVars, initVars>>
      PROVE  IndInv'
  <2>1. RegInv' /\ c \in Client \ {Ifspi}
    BY <1>1, <1>4, RegCallKeeps DEF Other
  <2>2. DmaInv' /\ Keeps(Ifspi) /\ acquired' = acquired
    BY <1>1, <1>4, DmaSame DEF dmaVars
  <2>3. \A h, id : GoodFor(Ifspi, h, id) => GoodFor(Ifspi, h, id)'
    BY <1>1, <1>4, <2>1, GoodStays
  <2> QED
    BY <1>2, <1>4, <2>1, <2>2, <2>3, DriverWaits
<1>5. ASSUME NEW c \in Other, DmaCall(c), UNCHANGED <<regVars, initVars>>
      PROVE  IndInv'
  <2>1. RegInv'
    BY <1>1, <1>5, RegSame
  <2>2. c \in Client /\ c # Ifspi
    BY DEF Other
  <2>3. DmaInv'
    BY <1>1, <1>5, <2>2, DmaCallKeeps
  <2>4. Keeps(Ifspi)
    BY <1>1, <1>5, <2>2, OthersLeave
  <2>5. acquired'[Ifspi] = acquired[Ifspi]
    BY <1>1, <1>5, <2>2
       DEF DmaCall, NU_DMA_Open_Fails, OpenRefused, OpenNoMemory,
           NU_DMA_Open_Succeeds, OpenAgain, OpenFirst, NU_DMA_Acquire_Channel_Fails,
           NU_DMA_Acquire_Channel_Succeeds, NU_DMA_Release_Channel, NU_DMA_Close,
           CloseShared, CloseLast, Forgets, dmaVars, DmaInv, DmaTypeOK
  <2>6. \A h, id : GoodFor(Ifspi, h, id) => GoodFor(Ifspi, h, id)'
    BY <1>5, GoodSame
  <2> QED
    BY <1>2, <1>5, <2>1, <2>3, <2>4, <2>5, <2>6, DriverWaits
<1> QED
  BY <1>3, <1>4, <1>5 DEF Environment

LEMMA Inductive == IndInv /\ [Next]_vars => IndInv'
<1> SUFFICES ASSUME IndInv, [Next]_vars PROVE IndInv'
  OBVIOUS
<1>1. CASE UNCHANGED vars
  <2>1. /\ UNCHANGED regVars /\ UNCHANGED dmaVars /\ UNCHANGED initVars
        /\ calls' = calls
    BY <1>1 DEF vars
  <2>2. RegInv' /\ DmaInv' /\ Keeps(Ifspi) /\ acquired' = acquired
    BY <2>1, RegSame, DmaSame DEF IndInv, dmaVars
  <2>3. \A h, id : GoodFor(Ifspi, h, id) => GoodFor(Ifspi, h, id)'
    BY <2>1, GoodSame
  <2> QED
    BY <2>1, <2>2, <2>3, DriverWaits DEF IndInv, InitTypes
<1>2. CASE NU_SPI_DMA_Setup /\ UNCHANGED calls
  BY <1>2, OpenStep, AcquireStep DEF NU_SPI_DMA_Setup, Dir
<1> QED
  BY <1>1, <1>2, RegisterStep, CreateTaskStep, EnvironmentStep
     DEF Next, IF_SPI_Tgt_Controller_Init

LEMMA Invariant == Spec => []IndInv
<1> QED
  BY Initially, Inductive, PTL DEF Spec

-----------------------------------------------------------------------------
(* The theorems *)

\* Every variable of the set-up stays in its type.
THEOREM TypesHold == Spec => []TypeOK
<1>1. IndInv => TypeOK
  BY DEF IndInv, RegInv, DmaInv, InitTypes, TypeOK
<1> QED
  BY <1>1, Invariant, PTL

\* A handle stays a handle of its client's own device, on the bus it was
\* registered on, until that bus is removed or another client unregisters an
\* equal stale handle; and no handle is stale before a bus has been removed.
THEOREM HandlesAreOwn == Spec => []HandleIsOwn
<1>1. IndInv => HandleIsOwn
  BY HandleIsOwnHolds DEF IndInv
<1> QED
  BY <1>1, Invariant, PTL

\* Every device slot is vacant, of one good handle, or lost to a refused
\* NU_SPI_Register.
THEOREM SlotsAreAccounted == Spec => []SlotsAccounted
<1>1. IndInv => SlotsAccounted
  BY SlotsAccountedHolds DEF IndInv
<1> QED
  BY <1>1, Invariant, PTL

\* NU_DMA_Open and NU_DMA_Close count the openings of every control block, and
\* no device has two.
THEOREM OpeningsAreCounted == Spec => []OpensCounted
<1>1. IndInv => OpensCounted
  BY DEF IndInv, DmaInv
<1> QED
  BY <1>1, Invariant, PTL

\* Every channel handle stays enabled, for its holder alone, with its semaphore.
THEOREM HoldersHaveChannels == Spec => []HolderHasChannel
<1>1. IndInv => HolderHasChannel
  BY DEF IndInv, DmaInv
<1> QED
  BY <1>1, Invariant, PTL

\* IF_SPI_Tgt_Controller_Init creates its task only with all it needs, and
\* nothing takes it away from the task.
THEOREM TaskIsEquipped == Spec => []TaskHasResources
<1>1. IndInv => TaskHasResources
  <2> SUFFICES ASSUME IndInv, step = "running"
               PROVE  TaskHasResources
    BY DEF TaskHasResources
  <2>1. \A dir \in Dir : ChannelAt(chan_handle[dir], dir)
    BY DEF IndInv, SetupOK, Dir
  <2>2. ASSUME NEW dir \in Dir
        PROVE  /\ chan_handle[dir] \in acquired[Ifspi]
               /\ cb[chan_handle[dir][1]] = DmaIntf[dir].dev
               /\ chan[chan_handle[dir][1]][chan_handle[dir][2]] = DmaIntf[dir].peri
               /\ chan_handle[dir][1] \in chan_semaphore
    <3>1. /\ chan_handle[dir] \in acquired[Ifspi]
          /\ cb[chan_handle[dir][1]] = DmaIntf[dir].dev
          /\ chan[chan_handle[dir][1]][chan_handle[dir][2]] = DmaIntf[dir].peri
      BY <2>1 DEF ChannelAt
    <3>2. chan_handle[dir][1] \in CbIndex /\ chan_handle[dir][2] \in User
      BY <3>1, SetupAssumption DEF IndInv, DmaInv, DmaTypeOK
    <3>3. chan[chan_handle[dir][1]][chan_handle[dir][2]] # None
      BY <3>1, SetupAssumption DEF IndInv, DmaInv, HolderHasChannel
    <3> QED
      BY <3>1, <3>2, <3>3 DEF IndInv, DmaInv, HolderHasChannel
  <2>3. spiHandle \in held[Ifspi]
    BY DEF IndInv, SetupOK, GoodFor
  <2>4. ASSUME spiHandle \notin stale[Ifspi]
        PROVE  /\ devices[spiHandle[1]][spiHandle[2]].owner = Ifspi
               /\ spi_bus_id # 0 => /\ LWSPI_Get_Params_From_Handle(spiHandle)
                                    /\ bus[spiHandle[1]].session
                                    /\ bus[spiHandle[1]].dev_id = spi_bus_id
    <3>1. spiHandle \in Fresh(Ifspi) /\ devices[spiHandle[1]][spiHandle[2]].on = spi_bus_id
      BY <2>3, <2>4 DEF IndInv, SetupOK, GoodFor, Fresh
    <3>2. HandleIsOwn
      BY HandleIsOwnHolds DEF IndInv
    <3> QED
      BY <3>1, <3>2, SetupAssumption DEF HandleIsOwn
  <2> QED
    BY <2>2, <2>3, <2>4 DEF TaskHasResources
<1> QED
  BY <1>1, Invariant, PTL

\* Only the calls of the DMA service touch its devices.
LEMMA DeviceStep ==
  ASSUME Next
  PROVE  UNCHANGED <<cb, device_in_use>> \/ \E c \in Client : DmaCall(c)
<1> USE SetupAssumption
<1>1. CASE Environment
  BY <1>1 DEF Environment, Other, dmaVars, cbVars
<1>2. CASE Register \/ CreateTask
  BY <1>2 DEF Register, CreateTask, dmaVars, cbVars
<1>3. ASSUME NEW dir \in Dir, NEW here, NEW next, Open(dir, here, next)
      PROVE  DmaCall(Ifspi)
  BY <1>3 DEF Open, DmaCall, Dir
<1>4. ASSUME NEW dir \in Dir, NEW here, NEW next, Acquire(dir, here, next)
      PROVE  UNCHANGED <<cb, device_in_use>>
  BY <1>4 DEF Acquire, NU_DMA_Acquire_Channel_Fails,
              NU_DMA_Acquire_Channel_Succeeds, dmaVars, cbVars
<1> QED
  BY <1>1, <1>2, <1>3, <1>4
     DEF Next, IF_SPI_Tgt_Controller_Init, NU_SPI_DMA_Setup, Dir

\* A device with a control block is taken for open, for good.
LEMMA DevicesStayOpen ==
  IndInv /\ CbIsOpen /\ [Next]_vars => CbIsOpen' /\ device_in_use \subseteq device_in_use'
<1> SUFFICES ASSUME IndInv, CbIsOpen, [Next]_vars
             PROVE  CbIsOpen' /\ device_in_use \subseteq device_in_use'
  OBVIOUS
<1>1. CASE UNCHANGED <<cb, device_in_use>>
  BY <1>1 DEF CbIsOpen
<1>2. ASSUME NEW c \in Client, DmaCall(c)
      PROVE  CbIsOpen' /\ device_in_use \subseteq device_in_use'
  BY <1>2, OpenForGood DEF IndInv
<1>3. CASE UNCHANGED vars
  BY <1>1, <1>3 DEF vars, dmaVars, cbVars
<1> QED
  BY <1>1, <1>2, <1>3, DeviceStep

\* Without a control block it never gets one again.
LEMMA LostStep ==
  ASSUME NEW d, IndInv, d \in device_in_use, ~HasCb(d), [Next]_vars
  PROVE  ~HasCb(d)'
<1>1. CASE UNCHANGED <<cb, device_in_use>>
  BY <1>1 DEF HasCb
<1>2. ASSUME NEW c \in Client, DmaCall(c)
      PROVE  ~HasCb(d)'
  BY <1>2, LostStaysLost DEF IndInv, HasCb
<1>3. CASE UNCHANGED vars
  BY <1>1, <1>3 DEF vars, dmaVars, cbVars
<1> QED
  BY <1>1, <1>2, <1>3, DeviceStep

\* A device that had a control block and has none any more never gets one again
\* (DMA_Tgt_Close does not clear device_in_use), nor does one whose NU_DMA_Open
\* ran out of memory behind DMA_Tgt_Open.
THEOREM LostDevicesStayLost == Spec => LostDevice
<1> SUFFICES ASSUME NEW d \in DmaDev
             PROVE  Spec => /\ [](HasCb(d) => [](~HasCb(d) => []~HasCb(d)))
                            /\ [](d \in device_in_use /\ ~HasCb(d) => []~HasCb(d))
  BY DEF LostDevice
<1>1. Init => CbIsOpen
  BY DEF Init, DmaInit, CbIsOpen
<1>2. CbIsOpen /\ HasCb(d) => d \in device_in_use
  BY DmaAssumption DEF CbIsOpen, HasCb
<1>3. IndInv /\ CbIsOpen /\ [Next]_vars => CbIsOpen'
  BY DevicesStayOpen
<1>4. IndInv /\ CbIsOpen /\ d \in device_in_use /\ [Next]_vars => (d \in device_in_use)'
  BY DevicesStayOpen
<1>5. IndInv /\ d \in device_in_use /\ ~HasCb(d) /\ [Next]_vars => ~HasCb(d)'
  BY LostStep
<1> QED
  BY <1>1, <1>2, <1>3, <1>4, <1>5, Invariant, PTL DEF Spec

\* The driver has its first channel and is on its way to acquire it once more,
\* which NU_DMA_Acquire_Channel refuses.
Stuck == TxTaken /\ step \in {"failed", "open_tx", "open_rx", "acquire_tx"}

LEMMA StuckStays == IndInv /\ Stuck /\ [Next]_vars => Stuck'
<1> SUFFICES ASSUME IndInv, Stuck, [Next]_vars PROVE Stuck'
  OBVIOUS
<1> USE SetupAssumption
<1> DEFINE Ways == {"failed", "open_tx", "open_rx", "acquire_tx"}
<1>1. TxTaken /\ step \in Ways /\ DmaInv
  BY DEF Stuck, IndInv
<1>2. ASSUME Keeps(Ifspi), step' \in Ways
      PROVE  Stuck'
  BY <1>1, <1>2, GotStays DEF Stuck
<1>3. CASE UNCHANGED vars
  <2>1. UNCHANGED dmaVars /\ step' = step
    BY <1>3 DEF vars, initVars
  <2> QED
    BY <1>1, <1>2, <2>1, DmaSame
<1>4. CASE Environment
  <2>1. step' = step
    BY <1>4 DEF Environment, initVars
  <2>2. CASE UNCHANGED dmaVars
    BY <1>1, <1>2, <2>1, <2>2, DmaSame
  <2>3. ASSUME NEW c \in Other, DmaCall(c)
        PROVE  Stuck'
    <3>1. c \in Client /\ c # Ifspi
      BY DEF Other
    <3>2. Keeps(Ifspi)
      BY <1>1, <2>3, <3>1, OthersLeave
    <3> QED
      BY <1>1, <1>2, <2>1, <3>2
  <2> QED
    BY <1>4, <2>2, <2>3 DEF Environment
<1>5. CASE Register
  <2>1. UNCHANGED dmaVars /\ step' \in {"open_tx", "failed"}
    BY <1>5 DEF Register, Goto
  <2> QED
    BY <1>1, <1>2, <2>1, DmaSame
<1>6. ASSUME NEW dir \in Dir, NEW here, NEW next, Open(dir, here, next),
             next \in {"open_rx", "acquire_tx"}
      PROVE  Stuck'
  <2>1. Keeps(Ifspi)
    BY <1>1, <1>6, OpenLeaves DEF Open, Dir
  <2>2. step' \in Ways
    BY <1>6 DEF Open, Goto, SetupFails
  <2> QED
    BY <1>2, <2>1, <2>2
<1>7. CASE Acquire("tx", "acquire_tx", "acquire_rx")
  <2>1. Opened("tx") /\ DmaIntf["tx"].peri \in Peri
    BY <1>7 DEF Acquire, IndInv, SetupOK
  <2>2. PICK s \in CbIndex : s = dma_handle["tx"]
    BY <2>1 DEF Opened
  <2>3. PICK h \in acquired[Ifspi] : ChannelAt(h, "tx")
    BY <1>1 DEF TxTaken
  <2>4. h[1] \in CbIndex /\ h[2] \in User
    BY <1>1 DEF DmaInv, DmaTypeOK
  <2>5. h[1] = s
    <3>1. cb[h[1]] = cb[s] /\ cb[s] # None
      BY <2>1, <2>2, <2>3, DmaAssumption DEF ChannelAt, Opened
    <3> QED
      BY <1>1, <2>4, <3>1 DEF DmaInv, OpensCounted
  <2>6. AlreadyOpen(s, DmaIntf["tx"].peri)
    BY <2>3, <2>4, <2>5 DEF AlreadyOpen, ChannelAt
  <2>7. /\ NU_DMA_Acquire_Channel_Fails(Ifspi, s, DmaIntf["tx"].peri)
        /\ step' = "failed"
    BY <1>7, <2>2, <2>6
       DEF Acquire, NU_DMA_Acquire_Channel_Succeeds, Enable, SetupFails, Goto
  <2>8. Keeps(Ifspi)
    BY <1>1, <2>1, <2>7, AcquireLeaves
  <2> QED
    BY <1>2, <2>7, <2>8
<1>8. ~Acquire("rx", "acquire_rx", "task") /\ ~CreateTask
  BY <1>1 DEF Acquire, CreateTask
<1> QED
  BY <1>3, <1>4, <1>5, <1>6, <1>7, <1>8
     DEF Next, IF_SPI_Tgt_Controller_Init, NU_SPI_DMA_Setup, Dir

\* A set-up that failed with its first channel acquired is never made good by
\* a later IF_SPI_Tgt_Controller_Init, since nothing releases the channel.
THEOREM FailedForGood == Spec => FailureIsFinal
<1>1. IndInv /\ step = "failed" /\ acquired[Ifspi] # {} => Stuck
  BY DEF IndInv, SetupOK, Stuck
<1>2. Stuck => step # "running"
  BY DEF Stuck
<1> QED
  BY <1>1, <1>2, StuckStays, Invariant, PTL DEF Spec, FailureIsFinal
=============================================================================
