----------------------------- MODULE DmaDevices -----------------------------
(***************************************************************************)
(* Opening and closing DMA devices, and acquiring and releasing channels on *)
(* them (dma.c), down to the open and close functions of the target driver  *)
(* (dma_tgt.c).  DmaChannel begins where this module ends: with a channel   *)
(* that was acquired.                                                       *)
(*                                                                          *)
(* A device is a stream of the controller and a channel of it: the target   *)
(* driver sets hw_chan_id to the device's id, which is what the callers     *)
(* pass.  So a device has one channel with up to DMA_MAX_CHAN_USERS users,  *)
(* told apart by their peripheral.  Each operation runs with interrupts     *)
(* disabled and is one step.                                                *)
(***************************************************************************)
EXTENDS SpiClients

CONSTANTS
  DmaDev,     \* device ids
  Peri,       \* peripheral ids
  StreamMap,  \* DMA_Stream_Map: the peripherals each stream can serve
  CbIndex,    \* indices of DMA_Device_Handle, DMA_MAX_DEVICES of them
  User        \* user indices of a channel, DMA_MAX_CHAN_USERS of them

ASSUME DmaAssumption ==
  /\ CbIndex \subseteq Nat /\ User \subseteq Nat
  /\ None \notin DmaDev \cup Peri

VARIABLES
  cb,             \* DMA_Device_Handle: the device each control block is for
  user_count,     \* of each control block
  chan,           \* peripheral of each enabled user of its channel
  in_use,         \* control blocks whose channel is in channels_inuse
  chan_semaphore, \* control blocks whose chan_semaphore exists
  device_in_use,  \* devices the target driver takes for open
  opens,          \* history: how often each client has opened a control block
  acquired        \* history: the channel handles each client has

cbVars    == <<cb, user_count>>
chanVars  == <<chan, in_use, chan_semaphore>>
dmaVars   == <<cbVars, chanVars, device_in_use, opens, acquired>>

NoUser == [u \in User |-> None]

DmaInit ==
  /\ cb = [s \in CbIndex |-> None]
  /\ user_count = [s \in CbIndex |-> 0]
  /\ chan = [s \in CbIndex |-> NoUser]
  /\ in_use = {}
  /\ chan_semaphore = {}
  /\ device_in_use = {}
  /\ opens = [c \in Client |-> [s \in CbIndex |-> 0]]
  /\ acquired = [c \in Client |-> {}]

-----------------------------------------------------------------------------
(* NU_DMA_Open *)

Free == {s \in CbIndex : cb[s] = None}

\* Mutant: the handle is returned without counting its user.
OpenAgain_Uncounted(c, d, s) ==
  /\ cb[s] = d
  /\ opens' = [opens EXCEPT ![c][s] = @ + 1]
  /\ UNCHANGED <<cbVars, chanVars, device_in_use, acquired>>

\* The device has a control block: one user more.
OpenAgain(c, d, s) ==
  /\ cb[s] = d
  /\ user_count' = [user_count EXCEPT ![s] = @ + 1]
  /\ opens' = [opens EXCEPT ![c][s] = @ + 1]
  /\ UNCHANGED <<cb, chanVars, device_in_use, acquired>>

\* The target driver opens a device it does not take for open.
DMA_Tgt_Open(d) ==
  /\ d \notin device_in_use
  /\ device_in_use' = device_in_use \cup {d}

\* The device is opened and has its control block.
OpenFirst(c, d, s) ==
  /\ \A o \in CbIndex : cb[o] # d
  /\ Free # {} /\ s = First(Free)
  /\ DMA_Tgt_Open(d)
  /\ cb' = [cb EXCEPT ![s] = d]
  /\ user_count' = [user_count EXCEPT ![s] = 1]
  /\ chan' = [chan EXCEPT ![s] = NoUser]
  /\ opens' = [opens EXCEPT ![c][s] = 1]
  /\ UNCHANGED <<in_use, chan_semaphore, acquired>>

NU_DMA_Open_Succeeds(c, d, s) == OpenAgain(c, d, s) \/ OpenFirst(c, d, s)

\* No control block is free, or the target driver refuses (already open, or no
\* memory for the stack of its HISR).
OpenRefused(d) ==
  /\ \A o \in CbIndex : cb[o] # d
  /\ UNCHANGED dmaVars

\* The target driver has opened the device and there is no memory for the
\* control block: nobody closes the device.
OpenNoMemory(d) ==
  /\ \A o \in CbIndex : cb[o] # d
  /\ Free # {}
  /\ DMA_Tgt_Open(d)
  /\ UNCHANGED <<cbVars, chanVars, opens, acquired>>

NU_DMA_Open_Fails(d) == OpenRefused(d) \/ OpenNoMemory(d)

-----------------------------------------------------------------------------
(* NU_DMA_Acquire_Channel *)

Vacant(s) == {u \in User : chan[s][u] = None}

\* The search: NU_DMA_CHANNEL_ALREADY_OPEN for a peripheral that has the channel.
AlreadyOpen(s, p) == \E u \in User : chan[s][u] = p

\* Mutant: the peripheral is not looked for.
Enable_Twice(s, p, u) ==
  /\ Vacant(s) # {} /\ u = First(Vacant(s))
  /\ chan' = [chan EXCEPT ![s][u] = p]
  /\ in_use' = in_use \cup {s}
  /\ chan_semaphore' = chan_semaphore \cup {s}

\* The user is enabled, with the channel's semaphore if it is the first.
Enable(s, p, u) ==
  /\ ~AlreadyOpen(s, p)
  /\ Vacant(s) # {} /\ u = First(Vacant(s))
  /\ chan' = [chan EXCEPT ![s][u] = p]
  /\ in_use' = in_use \cup {s}
  /\ chan_semaphore' = IF s \in in_use THEN chan_semaphore
                                       ELSE chan_semaphore \cup {s}

\* DMA_Tgt_Configure_Chan: the stream must serve the peripheral.
Configurable(s, p) == p \in StreamMap[cb[s]]

NU_DMA_Acquire_Channel_Succeeds(c, s, p, u) ==
  /\ Enable(s, p, u)
  /\ Configurable(s, p)
  /\ acquired' = [acquired EXCEPT ![c] = @ \cup {<<s, u>>}]
  /\ UNCHANGED <<cbVars, device_in_use, opens>>

\* *chan_handle_ptr after a call: the handle of the user that was enabled, also
\* if the target driver then refuses it.
HandleWritten(s, p, old) ==
  IF AlreadyOpen(s, p) \/ Vacant(s) = {} THEN old ELSE <<s, First(Vacant(s))>>

\* NU_DMA_CHANNEL_ALREADY_OPEN or NU_DMA_CHANNEL_MAX_USER_REACHED; or
\* NU_DMA_DEVICE_NOT_FOUND, which leaves the user enabled.
NU_DMA_Acquire_Channel_Fails(c, s, p) ==
  \/ /\ AlreadyOpen(s, p) \/ Vacant(s) = {}
     /\ UNCHANGED dmaVars
  \/ /\ ~Configurable(s, p)
     /\ \E u \in User : Enable(s, p, u)
     /\ UNCHANGED <<cbVars, device_in_use, opens, acquired>>

-----------------------------------------------------------------------------
\* Mutant: the semaphore goes with every user.
NU_DMA_Release_Channel_Each(c, s, u) ==
  /\ <<s, u>> \in acquired[c]
  /\ chan' = [chan EXCEPT ![s][u] = None]
  /\ in_use' = in_use \ {s}
  /\ chan_semaphore' = chan_semaphore \ {s}
  /\ acquired' = [acquired EXCEPT ![c] = @ \ {<<s, u>>}]
  /\ UNCHANGED <<cbVars, device_in_use, opens>>

\* The last user takes the channel's semaphore along.
NU_DMA_Release_Channel(c, s, u) ==
  /\ <<s, u>> \in acquired[c]
  /\ chan' = [chan EXCEPT ![s][u] = None]
  /\ LET last == \A o \in User \ {u} : chan[s][o] = None
     IN  /\ in_use' = IF last THEN in_use \ {s} ELSE in_use
         /\ chan_semaphore' = IF last THEN chan_semaphore \ {s}
                                      ELSE chan_semaphore
  /\ acquired' = [acquired EXCEPT ![c] = @ \ {<<s, u>>}]
  /\ UNCHANGED <<cbVars, device_in_use, opens>>

\* The client's channels on a control block it has no opening of any more.
Forgets(c, s) ==
  acquired' = [acquired EXCEPT ![c] =
                 IF opens[c][s] = 1 THEN {h \in @ : h[1] # s} ELSE @]

\* Mutant: neither the handle nor the user count is looked at.
CloseShared_Unchecked(c, s) ==
  /\ user_count' = [user_count EXCEPT ![s] = @ - 1]
  /\ opens' = [opens EXCEPT ![c][s] = @ - 1]
  /\ Forgets(c, s)
  /\ UNCHANGED <<cb, chanVars, device_in_use>>

\* Another user is left.
CloseShared(c, s) ==
  /\ opens[c][s] > 0 /\ user_count[s] > 1
  /\ user_count' = [user_count EXCEPT ![s] = @ - 1]
  /\ opens' = [opens EXCEPT ![c][s] = @ - 1]
  /\ Forgets(c, s)
  /\ UNCHANGED <<cb, chanVars, device_in_use>>

\* Mutant: the lines are not commented out.
DMA_Tgt_Close_Clears(d) == device_in_use' = device_in_use \ {d}

\* The lines that clear device_in_use are commented out.
DMA_Tgt_Close(d) == UNCHANGED device_in_use

\* The last user: the control block is freed with its semaphores.
CloseLast(c, s) ==
  /\ opens[c][s] > 0 /\ user_count[s] = 1
  /\ DMA_Tgt_Close(cb[s])
  /\ cb' = [cb EXCEPT ![s] = None]
  /\ user_count' = [user_count EXCEPT ![s] = 0]
  /\ chan' = [chan EXCEPT ![s] = NoUser]
  /\ in_use' = in_use \ {s}
  /\ chan_semaphore' = chan_semaphore \ (in_use \cap {s})
  /\ opens' = [opens EXCEPT ![c][s] = 0]
  /\ Forgets(c, s)

NU_DMA_Close(c, s) == CloseShared(c, s) \/ CloseLast(c, s)

-----------------------------------------------------------------------------
\* A client that uses what it has opened and acquired.
DmaCall(c) ==
  \/ \E d \in DmaDev :
       \/ NU_DMA_Open_Fails(d)
       \/ \E s \in CbIndex : NU_DMA_Open_Succeeds(c, d, s)
  \/ \E s \in CbIndex, p \in Peri :
       /\ opens[c][s] > 0
       /\ \/ NU_DMA_Acquire_Channel_Fails(c, s, p)
          \/ \E u \in User : NU_DMA_Acquire_Channel_Succeeds(c, s, p, u)
  \/ \E s \in CbIndex, u \in User : NU_DMA_Release_Channel(c, s, u)
  \/ \E s \in CbIndex : NU_DMA_Close(c, s)
-----------------------------------------------------------------------------
(* Properties *)

\* A client can use the device.
HasCb(d) == \E s \in CbIndex : cb[s] = d

\* Types of all variables.
DmaTypeOK ==
  /\ cb \in [CbIndex -> DmaDev \cup {None}]
  /\ user_count \in [CbIndex -> Nat]
  /\ chan \in [CbIndex -> [User -> Peri \cup {None}]]
  /\ in_use \subseteq CbIndex /\ chan_semaphore \subseteq CbIndex
  /\ device_in_use \subseteq DmaDev
  /\ opens \in [Client -> [CbIndex -> Nat]]
  /\ acquired \in [Client -> SUBSET (CbIndex \X User)]

\* The openings of control block s: client c's are numbered from 1.
Openings(s) == UNION {{c} \X (1 .. opens[c][s]) : c \in Client}

\* However clients open, close and fail: the user count of a control block is
\* the number of openings its clients have, so that the last close and no
\* earlier one frees it, and no device has two control blocks.
OpensCounted ==
  /\ \A s \in CbIndex : user_count[s] = Cardinality(Openings(s))
  /\ \A s \in CbIndex : cb[s] = None <=> user_count[s] = 0
  /\ \A s, o \in CbIndex : cb[s] # None /\ cb[s] = cb[o] => s = o

\* A channel has its semaphore as long as it has a user, and every channel
\* handle a client has stays enabled, for this client alone, whatever the
\* other users of the device release and close.
HolderHasChannel ==
  /\ \A s \in CbIndex :
       /\ s \in in_use <=> \E u \in User : chan[s][u] # None
       /\ s \in in_use <=> s \in chan_semaphore
  /\ \A c \in Client : \A h \in acquired[c] :
       /\ chan[h[1]][h[2]] # None
       /\ opens[c][h[1]] > 0
       /\ \A o \in Client \ {c} : h \notin acquired[o]
=============================================================================
