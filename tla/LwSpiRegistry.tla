--------------------------- MODULE LwSpiRegistry ---------------------------
(***************************************************************************)
(* The buses and devices of the lightweight SPI layer (lwspi.c): buses come *)
(* and go with the device manager's notifications, clients register and     *)
(* unregister devices on them.  LwSpiBus begins where this module ends:     *)
(* with a device and its handle.                                            *)
(*                                                                          *)
(* Registrations happen one after the other while the system comes up, so   *)
(* each operation is one step.  A handle is the pair of indices it encodes. *)
(***************************************************************************)
EXTENDS SpiClients

CONSTANTS
  Name,      \* bus names
  BusIndex,  \* indices of SPI_Bus_CB, LWSPI_NUM_BUSES of them
  DevIndex,  \* indices of spi_devices, LWSPI_NUM_DEVICES of them
  MaxBuses   \* bound on the arrivals of a bus

VARIABLES
  present,   \* the device manager's SPI devices: id and name
  arrivals,  \* ids handed out so far; an id is never used again
  bus,       \* SPI_Bus_CB
  devices,   \* spi_devices of each bus
  held,      \* the handles each client has and may call with
  stale,     \* history: those whose registration ended without the client
  refused    \* history: registrations refused for their configuration

regVars == <<present, arrivals, bus, devices, held, stale, refused>>

Handle == BusIndex \X DevIndex

\* session: dev_handle refers to an open session; bus_lock: it exists.
Bus == [is_used : BOOLEAN, dev_id : 0 .. MaxBuses, name : Name \cup {None},
        session : BOOLEAN, bus_lock : BOOLEAN]

\* registered: handle is set and async_io_lock exists.  owner and on are
\* history: the client, and the bus the device was registered on (its id, or 0
\* if it was gone).
Device == [registered : BOOLEAN, owner : Client, on : 0 .. MaxBuses]

ASSUME RegistryAssumption ==
  /\ BusIndex \subseteq Nat /\ IsFiniteSet(BusIndex)
  /\ DevIndex \subseteq Nat /\ IsFiniteSet(DevIndex)
  /\ MaxBuses \in Nat
  /\ None \notin Name \cup Device

RegInit ==
  /\ present = {}
  /\ arrivals = 0
  /\ bus = [b \in BusIndex |-> [is_used |-> FALSE, dev_id |-> 0, name |-> None,
                                session |-> FALSE, bus_lock |-> FALSE]]
  /\ devices = [b \in BusIndex |-> [d \in DevIndex |-> None]]
  /\ held = [c \in Client |-> {}]
  /\ stale = [c \in Client |-> {}]
  /\ refused = 0

-----------------------------------------------------------------------------
(* Buses *)

Vacant_Bus == {b \in BusIndex : ~bus[b].is_used}

\* LWSPI_Bus_Register, if there is a vacant slot: the bus is opened and its
\* slot filled.  If the session can not be allocated the slot stays used, with
\* what it had of an earlier bus.  (LWSPI_IOCTL_GET_BUS_INFO always gives valid
\* information, so that the clean-up behind it never happens.)
LWSPI_Bus_Register(id, n) ==
  \/ Vacant_Bus = {} /\ UNCHANGED bus
  \/ /\ Vacant_Bus # {}
     /\ LET b == First(Vacant_Bus)
        IN  bus' \in {[bus EXCEPT ![b].is_used = TRUE],
                      [bus EXCEPT ![b] = [is_used |-> TRUE, dev_id |-> id,
                                          name |-> n, session |-> TRUE,
                                          bus_lock |-> TRUE]]}

\* A controller registers with the device manager, which notifies the layer.
BusArrives(n) ==
  /\ arrivals < MaxBuses
  /\ \A p \in present : p.name # n
  /\ arrivals' = arrivals + 1
  /\ present' = present \cup {[id |-> arrivals + 1, name |-> n]}
  /\ LWSPI_Bus_Register(arrivals + 1, n)
  /\ UNCHANGED <<devices, held, stale, refused>>

Registered(b, d) == devices[b][d] # None /\ devices[b][d].registered

\* Mutant: the devices of the bus stay.
Unregister_All_Kept(b) == UNCHANGED devices

\* NU_SPI_Unregister of each device's handle, which does nothing for a device
\* whose configuration was refused: its handle is 0.
Unregister_All(b) ==
  devices' = [devices EXCEPT ![b] =
                [d \in DevIndex |-> IF Registered(b, d) THEN None ELSE @[d]]]

\* LWSPI_Bus_Unregister: the slot is found by the id; name and id stay in it.
\* Nobody tells the clients, who keep their handles.
LWSPI_Bus_Unregister(id) ==
  LET found == {b \in BusIndex : bus[b].dev_id = id}
      b == First(found)
  IN  \/ found = {} /\ UNCHANGED <<bus, devices, stale>>
      \/ /\ found # {}
         /\ Unregister_All(b)
         /\ bus' = [bus EXCEPT ![b].session = FALSE, ![b].bus_lock = FALSE,
                               ![b].is_used = FALSE]
         /\ stale' = [c \in Client |->
                        stale[c] \cup {h \in held[c] : h[1] = b}]

BusLeaves ==
  \E p \in present :
    /\ present' = present \ {p}
    /\ LWSPI_Bus_Unregister(p.id)
    /\ UNCHANGED <<arrivals, held, refused>>

-----------------------------------------------------------------------------
(* Devices *)

\* The first slot with the name, used or not; empty if there is none.
LWSPI_Find_Bus_Slot_By_Name(n) ==
  LET found == {b \in BusIndex : bus[b].name = n}
  IN  {b \in found : \A o \in found : b <= o}

\* Mutant: the slot is not tested.
Vacant_Device_First(b) == {d \in DevIndex : \A o \in DevIndex : d <= o}

\* The first vacant device slot of the bus, if any.
Vacant_Device(b) ==
  LET vacant == {d \in DevIndex : devices[b][d] = None}
  IN  {d \in vacant : \A o \in vacant : d <= o}

Install(b, d, c, registered) ==
  devices' = [devices EXCEPT ![b][d] =
    [registered |-> registered, owner |-> c,
     on |-> IF bus[b].session THEN bus[b].dev_id ELSE 0]]

NU_SPI_Register_Succeeds(c, n, h) ==
  /\ h[1] \in LWSPI_Find_Bus_Slot_By_Name(n)
  /\ h[2] \in Vacant_Device(h[1])
  /\ Install(h[1], h[2], c, TRUE)
  /\ held' = [held EXCEPT ![c] = @ \cup {h}]
  /\ stale' = [stale EXCEPT ![c] = @ \ {h}]
  /\ UNCHANGED <<present, arrivals, bus, refused>>

\* No bus of the name, no vacant slot, or no memory.
NU_SPI_Register_Fails == UNCHANGED regVars

\* The configuration is validated when the device is in its slot.
NU_SPI_Register_Refused(c, n) ==
  \E b \in LWSPI_Find_Bus_Slot_By_Name(n) : \E d \in Vacant_Device(b) :
    /\ Install(b, d, c, FALSE)
    /\ refused' = refused + 1
    /\ UNCHANGED <<present, arrivals, bus, held, stale>>

\* The device in the slot goes, whoever registered it: the handle may be stale,
\* and the device another client's or one that was refused.
NU_SPI_Unregister(c, h) ==
  /\ h \in held[c]
  /\ devices' = [devices EXCEPT ![h[1]][h[2]] = None]
  /\ held' = [held EXCEPT ![c] = @ \ {h}]
  /\ stale' = [o \in Client |-> IF o = c THEN stale[o] \ {h}
                               ELSE stale[o] \cup (held[o] \cap {h})]
  /\ refused' = IF devices[h[1]][h[2]] # None /\ ~Registered(h[1], h[2])
                  THEN refused - 1 ELSE refused
  /\ UNCHANGED <<present, arrivals, bus>>

\* Every I/O call resolves its handle first.
LWSPI_Get_Params_From_Handle(h) ==
  bus[h[1]].is_used /\ devices[h[1]][h[2]] # None

-----------------------------------------------------------------------------
\* The device manager, and a client that unregisters with the handles it has.
BusChange == BusLeaves \/ \E n \in Name : BusArrives(n)

RegCall(c) ==
  \/ \E n \in Name :
       \/ NU_SPI_Register_Refused(c, n)
       \/ \E h \in Handle : NU_SPI_Register_Succeeds(c, n, h)
  \/ \E h \in Handle : NU_SPI_Unregister(c, h)
-----------------------------------------------------------------------------
(* Properties *)

\* Types of all variables.
RegTypeOK ==
  /\ present \subseteq [id : 1 .. MaxBuses, name : Name]
  /\ arrivals \in 0 .. MaxBuses
  /\ bus \in [BusIndex -> Bus]
  /\ devices \in [BusIndex -> [DevIndex -> Device \cup {None}]]
  /\ held \in [Client -> SUBSET Handle] /\ stale \in [Client -> SUBSET Handle]
  /\ refused \in Nat

\* The handles of the registrations nobody has ended.
Fresh(c) == held[c] \ stale[c]

\* A handle stays good until the bus of its slot leaves or another client calls
\* NU_SPI_Unregister with a stale handle that is equal to it: it is of a device
\* its client registered, no other client has it as good, and if the bus was
\* there at the registration, an I/O call that gets past
\* LWSPI_Get_Params_From_Handle finds the same bus, open, with its lock.  No
\* handle goes stale as long as no bus has left.  (A stale one promises nothing:
\* it may pass the check and reach another client's device on another bus.)
HandleIsOwn ==
  /\ \A c \in Client : \A h \in Fresh(c) :
       LET dev == devices[h[1]][h[2]]
           b   == bus[h[1]]
       IN  /\ Registered(h[1], h[2]) /\ dev.owner = c
           /\ \A o \in Client \ {c} : h \notin Fresh(o)
           /\ dev.on # 0 => /\ LWSPI_Get_Params_From_Handle(h)
                            /\ b.dev_id = dev.on /\ b.session /\ b.bus_lock
  /\ (\A id \in 1 .. arrivals : \E p \in present : p.id = id) =>
       \A c \in Client : stale[c] = {}

\* Every occupied device slot is of a handle that is still good or was left by a
\* refused registration: each refusal costs a slot, which the removal of its
\* bus does not bring back (only a stale handle to the slot can); nothing else
\* is lost, though clients are not told and unregister with stale handles.
SlotsAccounted ==
  Cardinality({h \in Handle : devices[h[1]][h[2]] # None})
    = Cardinality({r \in Client \X Handle : r[2] \in Fresh(r[1])}) + refused
=============================================================================
