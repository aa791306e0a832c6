----------------------------- MODULE DmaChannel -----------------------------
(***************************************************************************)
(* The DMA service: NU_DMA_Data_Transfer of dma.c called by several tasks   *)
(* on acquired channels, the request list of dma_common.c, and the stream   *)
(* driver of dma_tgt.c with its LISR and HISR.                              *)
(*                                                                          *)
(* A channel is one DMA stream: every stream is a device of its own in this *)
(* driver (hw_chan_id = dma_dev_id) with a single DMA_CHANNEL, user 0.  The *)
(* words of a request are abstracted away: an enabled stream finishes its   *)
(* request, or raises an error.  A HISR is one step: no task preempts it.   *)
(***************************************************************************)
EXTENDS Naturals, Sequences, FiniteSets

CONSTANTS
  Task,                   \* the tasks that call the service
  Channel,                \* the acquired channels
  DMA_LENGTH_CONTINUOUS,  \* the largest UINT32
  Calls,                  \* the calls the tasks make
  Errors                  \* errors the streams may meet: "TE", "DME"

\* DMA_REQUEST_TYPE: synchronous or asynchronous send or receive, or one of
\* the memory to memory types, which the target refuses.
ReqType == {"sync", "async", "mem"}

Suspend == {"NU_SUSPEND", "ticks", "NU_NO_SUSPEND"}

Call == [chan : Channel, type : ReqType, total_requests : Nat,
         suspend : Suspend]

ASSUME ChannelAssumption ==
  /\ IsFiniteSet(Task) /\ Channel # {}
  /\ DMA_LENGTH_CONTINUOUS \in Nat \ {0, 1}
  /\ Calls \subseteq {c \in Call : c.total_requests <= DMA_LENGTH_CONTINUOUS}
  /\ Errors \subseteq {"TE", "DME"}

VARIABLES
  pc,              \* where each task is in NU_DMA_Data_Transfer
  arg,             \* arguments of its call
  chan_semaphore,  \* count of each channel's semaphore
  waiting,         \* its suspension list (NU_FIFO)
  chan_comp_evt,   \* the channel's two bits of the event group
  cur_req_type,    \* of the DMA_CHANNEL
  cur_req_length,  \* requests left
  cur_req_ptr,     \* index of the current one in the caller's array
  chan_req,        \* the instance's request list: "none", "queued", or
                   \* "looped" when the channel is linked to itself
  en,              \* DMA_SxCR_EN of the stream
  ie,              \* its interrupt sources are enabled
  tcif,            \* transfer complete flag
  errif,           \* transfer error or direct mode error flag
  hisr,            \* DMA_Tgt_HISR was activated
  executed         \* history: requests finished since the last call's start

taskVars   == <<pc, arg>>
kernelVars == <<chan_semaphore, waiting, chan_comp_evt>>
reqVars    == <<cur_req_type, cur_req_length, cur_req_ptr, chan_req>>
hwVars     == <<en, ie, tcif, errif, hisr>>
dmaVars == <<taskVars, kernelVars, reqVars, hwVars, executed>>

-----------------------------------------------------------------------------
NoCall == [chan |-> CHOOSE c \in Channel : TRUE, type |-> "sync",
           total_requests |-> 0, suspend |-> "NU_NO_SUSPEND"]

Init ==
  /\ pc = [t \in Task |-> "idle"]
  /\ arg = [t \in Task |-> NoCall]
  /\ chan_semaphore = [c \in Channel |-> 1]
  /\ waiting = [c \in Channel |-> <<>>]
  /\ chan_comp_evt = [c \in Channel |-> {}]
  /\ cur_req_type = [c \in Channel |-> "sync"]
  /\ cur_req_length = [c \in Channel |-> 0]
  /\ cur_req_ptr = [c \in Channel |-> 1]
  /\ chan_req = [c \in Channel |-> "none"]
  /\ en = [c \in Channel |-> FALSE]
  /\ ie = [c \in Channel |-> FALSE]
  /\ tcif = [c \in Channel |-> FALSE]
  /\ errif = [c \in Channel |-> FALSE]
  /\ hisr = [c \in Channel |-> FALSE]
  /\ executed = [c \in Channel |-> <<>>]

Goto(t, label) == pc' = [pc EXCEPT ![t] = label]

ReturnFrom(t) ==
  /\ Goto(t, "idle")
  /\ arg' = [arg EXCEPT ![t] = NoCall]

-----------------------------------------------------------------------------
(* The request list *)

\* Mutant: the request is not put on the list.
DMA_Add_Chan_Req_Lost(c) == UNCHANGED chan_req

\* Queue the channel.  A channel that is on the list already is linked behind
\* itself.
DMA_Add_Chan_Req(c) ==
  chan_req' = [chan_req EXCEPT ![c] = IF @ = "none" THEN "queued" ELSE "looped"]

\* Take the first element off: its successor, itself in a loop, is next.
DMA_Remove_Chan_Req(c) ==
  chan_req' = [chan_req EXCEPT ![c] = IF @ = "looped" THEN "looped" ELSE "none"]

-----------------------------------------------------------------------------
(* The target driver *)

\* Program the stream, enable its interrupts and start it.
DMA_Tgt_Data_Trans(c) ==
  /\ en' = [en EXCEPT ![c] = TRUE]
  /\ ie' = [ie EXCEPT ![c] = TRUE]

\* A memory to memory request is refused, with the stream disabled.
DMA_Tgt_Data_Trans_Refused(c) ==
  /\ en' = [en EXCEPT ![c] = FALSE]
  /\ UNCHANGED ie

\* The stream has moved the last word of the request.
StreamDone(c) ==
  /\ en[c]
  /\ en' = [en EXCEPT ![c] = FALSE]
  /\ tcif' = [tcif EXCEPT ![c] = TRUE]
  /\ UNCHANGED <<taskVars, kernelVars, reqVars, ie, errif, hisr, executed>>

\* An error: a transfer error disables the stream, a direct mode error not.
StreamError(c) ==
  /\ en[c]
  /\ \E kind \in Errors : en' = [en EXCEPT ![c] = (kind = "DME")]
  /\ errif' = [errif EXCEPT ![c] = TRUE]
  /\ UNCHANGED <<taskVars, kernelVars, reqVars, ie, tcif, hisr, executed>>

\* Mask the interrupt sources and activate the HISR.
DMA_Tgt_LISR(c) ==
  /\ ie[c]
  /\ tcif[c] \/ errif[c]
  /\ ie' = [ie EXCEPT ![c] = FALSE]
  /\ hisr' = [hisr EXCEPT ![c] = TRUE]
  /\ UNCHANGED <<taskVars, kernelVars, reqVars, en, tcif, errif, executed>>

-----------------------------------------------------------------------------
(* Completion *)

\* Mutant: suspended tasks are not resumed.
Release_chan_NoWake(c, pcs) ==
  /\ chan_semaphore' = [chan_semaphore EXCEPT ![c] = @ + 1]
  /\ pc' = pcs
  /\ UNCHANGED waiting

\* NU_Release_Semaphore(&chan_semaphore[c]), leaving the tasks at pcs: the
\* first suspended task continues with the semaphore, or the count goes up.
Release_chan(c, pcs) ==
  \/ /\ waiting[c] = <<>>
     /\ chan_semaphore' = [chan_semaphore EXCEPT ![c] = @ + 1]
     /\ pc' = pcs
     /\ UNCHANGED waiting
  \/ /\ waiting[c] # <<>>
     /\ pc' = [pcs EXCEPT ![Head(waiting[c])] = "setup"]
     /\ waiting' = [waiting EXCEPT ![c] = Tail(@)]
     /\ UNCHANGED chan_semaphore

\* Mutant: an asynchronous transfer's semaphore is released after each request.
DMA_Comp_Callback_Each(c, left) ==
  \/ /\ cur_req_type[c] = "sync"
     /\ chan_comp_evt' = [chan_comp_evt EXCEPT ![c] = @ \cup {"completion"}]
     /\ UNCHANGED <<pc, chan_semaphore, waiting>>
  \/ /\ cur_req_type[c] = "async"
     /\ Release_chan(c, pc)
     /\ UNCHANGED chan_comp_evt

\* Mutant: an asynchronous completion sets the event too.
DMA_Comp_Callback_Both(c, left) ==
  /\ chan_comp_evt' = [chan_comp_evt EXCEPT ![c] = @ \cup {"completion"}]
  /\ IF cur_req_type[c] = "async" /\ left = 0
       THEN Release_chan(c, pc)
       ELSE UNCHANGED <<pc, chan_semaphore, waiting>>

\* Called with left requests to go, always with NU_SUCCESS.  A synchronous
\* transfer's event is set after every request, an asynchronous one's
\* semaphore is released after the last.
DMA_Comp_Callback(c, left) ==
  \/ /\ cur_req_type[c] = "sync"
     /\ chan_comp_evt' = [chan_comp_evt EXCEPT ![c] = @ \cup {"completion"}]
     /\ UNCHANGED <<pc, chan_semaphore, waiting>>
  \/ /\ cur_req_type[c] = "async"
     /\ left = 0
     /\ Release_chan(c, pc)
     /\ UNCHANGED chan_comp_evt
  \/ /\ cur_req_type[c] = "async"
     /\ left # 0
     /\ UNCHANGED <<pc, kernelVars>>

DMA_Trans_Complete(c, left) ==
  /\ \/ left = 0 /\ DMA_Remove_Chan_Req(c)
     \/ left # 0 /\ UNCHANGED chan_req
  /\ DMA_Comp_Callback(c, left)

\* cur_req_length--, on an UINT32.
Decrement(n) == IF n = 0 THEN DMA_LENGTH_CONTINUOUS ELSE n - 1

\* The request is complete: count it, tell the caller, and start the next one.
HisrComplete(c) ==
  LET left == IF cur_req_length[c] = DMA_LENGTH_CONTINUOUS
                THEN DMA_LENGTH_CONTINUOUS ELSE Decrement(cur_req_length[c])
  IN  /\ tcif[c]
      /\ cur_req_length' = [cur_req_length EXCEPT ![c] = left]
      /\ DMA_Trans_Complete(c, left)
      /\ \/ /\ left = 0
            /\ UNCHANGED <<en, ie, cur_req_ptr>>
         \/ /\ left = DMA_LENGTH_CONTINUOUS
            /\ DMA_Tgt_Data_Trans(c)
            /\ UNCHANGED cur_req_ptr
         \/ /\ left \notin {0, DMA_LENGTH_CONTINUOUS}
            /\ DMA_Tgt_Data_Trans(c)
            /\ cur_req_ptr' = [cur_req_ptr EXCEPT ![c] = @ + 1]
      /\ executed' = [executed EXCEPT ![c] =
           IF left = DMA_LENGTH_CONTINUOUS THEN @ ELSE Append(@, cur_req_ptr[c])]

\* There was only an error: it is noted in dmaState, which nobody reads.
HisrError(c) ==
  /\ ~tcif[c]
  /\ UNCHANGED <<pc, kernelVars, cur_req_length, cur_req_ptr, chan_req, en, ie,
                 executed>>

DMA_Tgt_HISR(c) ==
  /\ hisr[c]
  /\ hisr' = [hisr EXCEPT ![c] = FALSE]
  /\ tcif' = [tcif EXCEPT ![c] = FALSE]
  /\ errif' = [errif EXCEPT ![c] = FALSE]
  /\ HisrComplete(c) \/ HisrError(c)
  /\ UNCHANGED <<arg, cur_req_type>>

-----------------------------------------------------------------------------
(* NU_DMA_Data_Transfer *)

\* Mutant: the count is not tested.
Obtain_chan_Untested(c) ==
  chan_semaphore' = [chan_semaphore EXCEPT ![c] = @ - 1]

\* NU_Obtain_Semaphore(&chan_semaphore[c], ...) when it is free.
Obtain_chan(c) ==
  /\ chan_semaphore[c] > 0
  /\ chan_semaphore' = [chan_semaphore EXCEPT ![c] = @ - 1]

\* A call with arguments a up to the channel's semaphore.  A synchronous
\* continuous transfer is refused at once, and a caller that will not suspend
\* returns when the channel is taken: both change nothing.
Enter(t, a) ==
  /\ pc[t] = "idle"
  /\ a.type = "async" \/ a.total_requests # DMA_LENGTH_CONTINUOUS
  /\ arg' = [arg EXCEPT ![t] = a]
  /\ \/ /\ Obtain_chan(a.chan)
        /\ Goto(t, "setup")
        /\ UNCHANGED waiting
     \/ /\ chan_semaphore[a.chan] = 0
        /\ a.suspend # "NU_NO_SUSPEND"
        /\ waiting' = [waiting EXCEPT ![a.chan] = Append(@, t)]
        /\ Goto(t, "suspended")
        /\ UNCHANGED chan_semaphore
  /\ UNCHANGED <<chan_comp_evt, reqVars, hwVars, executed>>

NU_DMA_Data_Transfer(t) == \E a \in Calls : Enter(t, a)

\* The suspension on the semaphore times out.
Timeout(t) ==
  LET c == arg[t].chan IN
  /\ pc[t] = "suspended"
  /\ arg[t].suspend = "ticks"
  /\ \E k \in 1 .. Len(waiting[c]) :
       /\ waiting[c][k] = t
       /\ waiting' = [waiting EXCEPT ![c] =
                        [i \in 1 .. Len(@) - 1 |-> IF i < k THEN @[i] ELSE @[i + 1]]]
  /\ ReturnFrom(t)
  /\ UNCHANGED <<chan_semaphore, chan_comp_evt, reqVars, hwVars, executed>>

\* Mutant: the request pointer is not set.
SaveRequest_NoPtr(c, a) ==
  /\ cur_req_type' = [cur_req_type EXCEPT ![c] = a.type]
  /\ cur_req_length' = [cur_req_length EXCEPT ![c] = a.total_requests]
  /\ UNCHANGED cur_req_ptr

\* Save pointer, count and type of the requests in the DMA_CHANNEL.
SaveRequest(c, a) ==
  /\ cur_req_type' = [cur_req_type EXCEPT ![c] = a.type]
  /\ cur_req_length' = [cur_req_length EXCEPT ![c] = a.total_requests]
  /\ cur_req_ptr' = [cur_req_ptr EXCEPT ![c] = 1]

\* Fill the DMA_CHANNEL and trigger the driver's DMA_DATA_TRANSFER ioctl.  A
\* synchronous caller goes on to wait; a refused request stays on the list and
\* the semaphore taken.
Setup(t) ==
  LET a == arg[t]
      c == a.chan
  IN  /\ pc[t] = "setup"
      /\ SaveRequest(c, a)
      /\ executed' = [executed EXCEPT ![c] = <<>>]
      /\ DMA_Add_Chan_Req(c)
      /\ \/ /\ a.type = "sync"
            /\ DMA_Tgt_Data_Trans(c)
            /\ Goto(t, "wait")
            /\ UNCHANGED arg
         \/ /\ a.type = "async"
            /\ DMA_Tgt_Data_Trans(c)
            /\ ReturnFrom(t)
         \/ /\ a.type = "mem"
            /\ DMA_Tgt_Data_Trans_Refused(c)
            /\ ReturnFrom(t)
      /\ UNCHANGED <<kernelVars, tcif, errif, hisr>>

\* NU_Retrieve_Events(..., NU_OR_CONSUME, ..., NU_SUSPEND) of a synchronous call.
Await(t) ==
  LET c == arg[t].chan IN
  /\ pc[t] = "wait"
  /\ chan_comp_evt[c] # {}
  /\ chan_comp_evt' = [chan_comp_evt EXCEPT ![c] = {}]
  /\ Goto(t, "release")
  /\ UNCHANGED <<arg, chan_semaphore, waiting, reqVars, hwVars, executed>>

\* Mutant: the semaphore of a synchronous transfer is kept.
SyncReturn_Kept(t) ==
  /\ pc[t] = "release"
  /\ ReturnFrom(t)
  /\ UNCHANGED <<kernelVars, reqVars, hwVars, executed>>

\* Release the channel and return.
SyncReturn(t) ==
  /\ pc[t] = "release"
  /\ Release_chan(arg[t].chan, [pc EXCEPT ![t] = "idle"])
  /\ arg' = [arg EXCEPT ![t] = NoCall]
  /\ UNCHANGED <<chan_comp_evt, reqVars, hwVars, executed>>

-----------------------------------------------------------------------------
TaskStep(t) == Setup(t) \/ Await(t) \/ SyncReturn(t)

Interrupt(c) == DMA_Tgt_LISR(c) \/ DMA_Tgt_HISR(c)

Next ==
  \/ \E t \in Task : NU_DMA_Data_Transfer(t) \/ Timeout(t) \/ TaskStep(t)
  \/ \E c \in Channel : StreamDone(c) \/ StreamError(c) \/ Interrupt(c)

Spec == Init /\ [][Next]_dmaVars

\* A task goes on unless it is suspended, interrupts are served, and an
\* enabled stream finishes.
Fairness ==
  /\ \A t \in Task : WF_dmaVars(TaskStep(t))
  /\ \A c \in Channel : WF_dmaVars(StreamDone(c)) /\ WF_dmaVars(Interrupt(c))

FairSpec == Spec /\ Fairness
-----------------------------------------------------------------------------
(* Properties *)

\* Types of all variables.
TypeOK ==
  /\ pc \in [Task -> {"idle", "suspended", "setup", "wait", "release"}]
  /\ arg \in [Task -> Call]
  /\ chan_semaphore \in [Channel -> Nat]
  /\ waiting \in [Channel -> Seq(Task)]
  /\ chan_comp_evt \in [Channel -> SUBSET {"completion", "error"}]
  /\ cur_req_type \in [Channel -> ReqType]
  /\ cur_req_length \in [Channel -> 0 .. DMA_LENGTH_CONTINUOUS]
  /\ cur_req_ptr \in [Channel -> Nat]
  /\ chan_req \in [Channel -> {"none", "queued", "looped"}]
  /\ en \in [Channel -> BOOLEAN] /\ ie \in [Channel -> BOOLEAN]
  /\ tcif \in [Channel -> BOOLEAN] /\ errif \in [Channel -> BOOLEAN]
  /\ hisr \in [Channel -> BOOLEAN]
  /\ executed \in [Channel -> Seq(Nat)]

\* The tasks that hold the channel's semaphore themselves.
Users(c) ==
  {t \in Task : arg[t].chan = c /\ pc[t] \in {"setup", "wait", "release"}}

\* A request that outlives its call keeps the semaphore: an asynchronous one
\* until its last interrupt, a refused one for ever.
Background(c) == chan_req[c] # "none" /\ cur_req_type[c] # "sync"

\* The channel's semaphore is accounted for, whichever of the caller and the
\* HISR has to release it: nobody releases it twice, nobody forgets it, and
\* nobody waits for a free channel.
ChannelBalance ==
  \A c \in Channel :
    /\ chan_semaphore[c] + Cardinality(Users(c))
         + (IF Background(c) THEN 1 ELSE 0) = 1
    /\ waiting[c] # <<>> => chan_semaphore[c] = 0

\* A channel is on the request list at most once (the list would loop), and
\* while its stream runs or an interrupt is pending the request is there:
\* the HISR uses chan_req_first without looking whether there is one.
RequestQueued ==
  \A c \in Channel :
    /\ chan_req[c] # "looped"
    /\ en[c] \/ tcif[c] \/ errif[c] \/ hisr[c] => chan_req[c] = "queued"

\* A call that is about to program the stream finds it at rest, its flags and
\* its request list cleared: no transfer is reprogrammed under way.
SetupFindsIdle ==
  \A t \in Task :
    LET c == arg[t].chan
    IN  pc[t] = "setup" => /\ ~en[c] /\ ~tcif[c] /\ ~hisr[c]
                           /\ chan_req[c] = "none"

\* A completion event is for the synchronous call that waits for it: none is
\* left over that would end a later call before its transfer.
EventHasWaiter ==
  \A c \in Channel :
    chan_comp_evt[c] # {} =>
      /\ cur_req_type[c] = "sync" /\ chan_req[c] = "none"
      /\ \E t \in Task : pc[t] = "wait" /\ arg[t].chan = c

\* When a channel is free again the requests of its last transfer were all
\* executed, once each and in the order of the caller's array.
RequestsInOrder ==
  \A c \in Channel :
    chan_semaphore[c] = 1 =>
      executed[c] = [i \in 1 .. Len(executed[c]) |-> i] /\ cur_req_length[c] = 0

\* The request on the list never ends: no interrupt will come for it, because
\* it was refused or its stream met an error, or it is continuous.
NeverEnds(c) ==
  /\ chan_req[c] = "queued"
  /\ (~ie[c] /\ ~hisr[c]) \/ cur_req_length[c] = DMA_LENGTH_CONTINUOUS

\* Every call returns, the callers suspended on a busy channel included,
\* unless its channel was lost to a transfer that never ends.
CallsReturn ==
  \A t \in Task :
    pc[t] # "idle" ~> (pc[t] = "idle" \/ NeverEnds(arg[t].chan))
=============================================================================
