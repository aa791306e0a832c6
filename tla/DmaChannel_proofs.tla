------------------------- MODULE DmaChannel_proofs -------------------------
(***************************************************************************)
(* Proofs about DmaChannel, for any tasks, channels and errors and any calls *)
(* in which a synchronous call is for a single request.                     *)
(***************************************************************************)
EXTENDS DmaChannel, Integers, FiniteSetTheorems, SequenceTheorems, TLAPS

\* Synchronous calls are for one request each: the event that ends the call is
\* set after every request of it.
SyncIsSingle ==
  \A a \in Calls : a.type = "sync" => a.total_requests = 1

\* A stream and its request: while anything of the stream is active the request
\* is on the list; the request counts the ones before it as executed; and a
\* channel without a request has none left to do.
StreamOK(c) ==
  /\ chan_req[c] # "looped"
  /\ en[c] \/ ie[c] \/ tcif[c] \/ errif[c] \/ hisr[c] => chan_req[c] = "queued"
  /\ tcif[c] => ~en[c]
  /\ hisr[c] => ~ie[c]
  /\ chan_req[c] = "none" => cur_req_length[c] = 0
  /\ chan_req[c] = "queued" =>
       /\ cur_req_ptr[c] = Len(executed[c]) + 1
       /\ cur_req_type[c] = "sync" => cur_req_length[c] = 1
  /\ executed[c] = [i \in 1 .. Len(executed[c]) |-> i]

\* Who has the channel: its semaphore is free, one task uses it, or a request
\* that outlived its call does.
OwnerOK(c) ==
  /\ chan_semaphore[c] \in {0, 1}
  /\ chan_semaphore[c] = 1 <=> Users(c) = {} /\ ~Background(c)
  /\ Background(c) => Users(c) = {}
  /\ \A t, u \in Users(c) : t = u

\* What the user of the channel finds there.
UserOK(c) ==
  /\ \A t \in Users(c) :
       /\ pc[t] # "wait" => chan_req[c] = "none" /\ chan_comp_evt[c] = {}
       /\ pc[t] = "wait" => /\ cur_req_type[c] = "sync"
                            /\ chan_req[c] = "none" <=> chan_comp_evt[c] # {}
  /\ chan_comp_evt[c] # {} \/ (chan_req[c] # "none" /\ cur_req_type[c] = "sync")
       => \E t \in Users(c) : pc[t] = "wait"

\* The tasks suspended on the channel.
WaitOK(c) ==
  /\ \A k \in 1 .. Len(waiting[c]) :
       pc[waiting[c][k]] = "suspended" /\ arg[waiting[c][k]].chan = c
  /\ \A j, k \in 1 .. Len(waiting[c]) : waiting[c][j] = waiting[c][k] => j = k
  /\ waiting[c] # <<>> => chan_semaphore[c] = 0

\* A call under way is one the tasks make, and not refused at once.
ArgsOK ==
  \A t \in Task :
    pc[t] # "idle" => /\ arg[t] \in Calls
                      /\ arg[t].type = "sync" => arg[t].total_requests = 1

ChanOK(c) == StreamOK(c) /\ OwnerOK(c) /\ UserOK(c) /\ WaitOK(c)

IndInv == TypeOK /\ ArgsOK /\ \A c \in Channel : ChanOK(c)

-----------------------------------------------------------------------------
(* Steps and the channels they leave alone *)

ChanSame(d) ==
  /\ chan_semaphore'[d] = chan_semaphore[d] /\ waiting'[d] = waiting[d]
  /\ chan_comp_evt'[d] = chan_comp_evt[d]
  /\ cur_req_type'[d] = cur_req_type[d] /\ cur_req_length'[d] = cur_req_length[d]
  /\ cur_req_ptr'[d] = cur_req_ptr[d] /\ chan_req'[d] = chan_req[d]
  /\ en'[d] = en[d] /\ ie'[d] = ie[d] /\ tcif'[d] = tcif[d]
  /\ errif'[d] = errif[d] /\ hisr'[d] = hisr[d] /\ executed'[d] = executed[d]

\* Task u has nothing to do with channel d.
Elsewhere(u, d) == pc[u] = "idle" \/ arg[u].chan # d

TasksSame(d) ==
  \A u \in Task : \/ pc'[u] = pc[u] /\ arg'[u] = arg[u]
                  \/ Elsewhere(u, d) /\ Elsewhere(u, d)'

\* A channel that no step of its own and no task of its own touches stays right.
LEMMA Frame ==
  ASSUME IndInv, NEW d \in Channel, ChanSame(d), TasksSame(d)
  PROVE  ChanOK(d)'
<1>0. ChanOK(d) /\ TypeOK
  BY DEF IndInv
<1>1. Users(d)' = Users(d) /\ \A u \in Users(d) : pc'[u] = pc[u]
  BY DEF Users, TasksSame, Elsewhere
<1>2. Background(d)' <=> Background(d)
  BY DEF Background, ChanSame
<1>3. StreamOK(d)'
  BY <1>0 DEF ChanOK, StreamOK, ChanSame
<1>4. OwnerOK(d)'
  BY <1>0, <1>1, <1>2 DEF ChanOK, OwnerOK, ChanSame
<1>5. UserOK(d)'
  BY <1>0, <1>1 DEF ChanOK, UserOK, ChanSame
<1>6. WaitOK(d)'
  <2>1. \A k \in 1 .. Len(waiting[d]) :
          /\ pc'[waiting[d][k]] = pc[waiting[d][k]]
          /\ arg'[waiting[d][k]] = arg[waiting[d][k]]
    <3> SUFFICES ASSUME NEW k \in 1 .. Len(waiting[d])
                 PROVE  /\ pc'[waiting[d][k]] = pc[waiting[d][k]]
                        /\ arg'[waiting[d][k]] = arg[waiting[d][k]]
      OBVIOUS
    <3>1. waiting[d][k] \in Task
      BY <1>0 DEF TypeOK
    <3>2. ~ Elsewhere(waiting[d][k], d)
      BY <1>0 DEF ChanOK, WaitOK, Elsewhere
    <3>. QED  BY <3>1, <3>2 DEF TasksSame
  <2>. QED  BY <1>0, <2>1 DEF ChanOK, WaitOK, ChanSame
<1>. QED  BY <1>3, <1>4, <1>5, <1>6 DEF ChanOK

\* A step at channel c.
LEMMA StepAt ==
  ASSUME IndInv, NEW c \in Channel, TypeOK', ArgsOK', ChanOK(c)',
         \A d \in Channel \ {c} : ChanSame(d) /\ TasksSame(d)
  PROVE  IndInv'
<1>1. \A d \in Channel \ {c} : ChanOK(d)'
  BY Frame
<1>. QED  BY <1>1 DEF IndInv

\* A step that leaves tasks, semaphores, events and requests alone.
LEMMA StreamStep ==
  ASSUME IndInv, NEW c \in Channel, UNCHANGED <<taskVars, kernelVars, reqVars>>,
         StreamOK(c)', TypeOK', \A d \in Channel \ {c} : ChanSame(d)
  PROVE  IndInv'
<1>0. ChanOK(c) /\ TypeOK /\ ArgsOK
  BY DEF IndInv
<1> USE DEF taskVars, kernelVars, reqVars
<1>1. ArgsOK'
  BY <1>0 DEF ArgsOK
<1>2. \A d \in Channel : TasksSame(d)
  BY DEF TasksSame
<1>3. OwnerOK(c)' /\ UserOK(c)'
  BY <1>0 DEF ChanOK, OwnerOK, UserOK, Users, Background
<1>4. WaitOK(c)'
  BY <1>0 DEF ChanOK, WaitOK
<1>. QED  BY <1>1, <1>2, <1>3, <1>4, StepAt DEF ChanOK

LEMMA HardwareSteps ==
  ASSUME IndInv, NEW c \in Channel,
         StreamDone(c) \/ StreamError(c) \/ DMA_Tgt_LISR(c)
  PROVE  IndInv'
<1>0. ChanOK(c) /\ TypeOK /\ StreamOK(c)
  BY DEF IndInv, ChanOK
<1>1. CASE StreamDone(c)
  <2> USE <1>1 DEF StreamDone, taskVars, kernelVars, reqVars
  <2>1. TypeOK'
    BY <1>0 DEF TypeOK
  <2>2. StreamOK(c)'
    BY <1>0 DEF TypeOK, StreamOK
  <2>3. \A d \in Channel \ {c} : ChanSame(d)
    BY <1>0 DEF TypeOK, ChanSame
  <2>. QED  BY <2>1, <2>2, <2>3, StreamStep
<1>2. CASE StreamError(c)
  <2> USE <1>2 DEF StreamError, taskVars, kernelVars, reqVars
  <2>1. TypeOK'
    BY <1>0 DEF TypeOK
  <2>2. StreamOK(c)'
    BY <1>0 DEF TypeOK, StreamOK
  <2>3. \A d \in Channel \ {c} : ChanSame(d)
    BY <1>0 DEF TypeOK, ChanSame
  <2>. QED  BY <2>1, <2>2, <2>3, StreamStep
<1>3. CASE DMA_Tgt_LISR(c)
  <2> USE <1>3 DEF DMA_Tgt_LISR, taskVars, kernelVars, reqVars
  <2>1. TypeOK'
    BY <1>0 DEF TypeOK
  <2>2. StreamOK(c)'
    BY <1>0 DEF TypeOK, StreamOK
  <2>3. \A d \in Channel \ {c} : ChanSame(d)
    BY <1>0 DEF TypeOK, ChanSame
  <2>. QED  BY <2>1, <2>2, <2>3, StreamStep
<1>. QED  BY <1>1, <1>2, <1>3

-----------------------------------------------------------------------------
(* Releasing a channel *)

Labels == {"idle", "suspended", "setup", "wait", "release"}
UseLabels == {"setup", "wait", "release"}

\* A step gives channel c up and leaves the tasks at pcs, before a suspended one
\* is resumed: nobody uses it, its semaphore is still taken, its request and
\* its event are gone.
GivenUp(c, pcs) ==
  /\ pcs \in [Task -> Labels] /\ arg' \in [Task -> Call]
  /\ \A u \in Task : pcs[u] \in UseLabels => arg'[u].chan # c
  /\ \A u \in Task : pcs[u] # pc[u] => pc[u] # "suspended" /\ pcs[u] = "idle"
  /\ \A u \in Task : pcs[u] # "idle" => arg'[u] = arg[u]
  /\ chan_semaphore[c] = 0 /\ chan_req'[c] = "none" /\ chan_comp_evt'[c] = {}

\* What the release makes of that.
Released(c, pcs) ==
  /\ OwnerOK(c)' /\ UserOK(c)' /\ WaitOK(c)'
  /\ pc' \in [Task -> Labels]
  /\ chan_semaphore' \in [Channel -> Nat]
  /\ waiting' \in [Channel -> Seq(Task)]
  /\ \A d \in Channel \ {c} : /\ chan_semaphore'[d] = chan_semaphore[d]
                              /\ waiting'[d] = waiting[d]
  /\ \A u \in Task : \/ pc'[u] = pcs[u]
                     \/ pcs[u] = "suspended" /\ arg[u].chan = c

\* Whether the semaphore becomes free or the first suspended task continues
\* with it, the channel is right again.
LEMMA ReleaseStep ==
  ASSUME IndInv, NEW c \in Channel, NEW pcs, GivenUp(c, pcs), Release_chan(c, pcs)
  PROVE  Released(c, pcs)
<1> USE DEF GivenUp, Released
<1>0. TypeOK /\ WaitOK(c) /\ waiting[c] \in Seq(Task)
  BY DEF IndInv, ChanOK, TypeOK
<1>1. \A k \in 1 .. Len(waiting[c]) :
        /\ waiting[c][k] \in Task
        /\ pcs[waiting[c][k]] = "suspended"
        /\ arg'[waiting[c][k]] = arg[waiting[c][k]]
        /\ arg[waiting[c][k]].chan = c
  <2> SUFFICES ASSUME NEW u \in Task, pc[u] = "suspended"
               PROVE  pcs[u] = "suspended" /\ arg'[u] = arg[u]
    BY <1>0 DEF WaitOK
  <2>. QED  OBVIOUS
<1>2. CASE waiting[c] = <<>>
  <2>1. /\ pc' = pcs /\ waiting' = waiting
        /\ chan_semaphore' = [chan_semaphore EXCEPT ![c] = @ + 1]
    BY <1>2 DEF Release_chan
  <2>2. chan_semaphore'[c] = 1
    BY <1>0, <2>1 DEF TypeOK
  <2>3. Users(c)' = {}
    BY <2>1 DEF Users, UseLabels
  <2>4. OwnerOK(c)' /\ UserOK(c)'
    BY <2>2, <2>3 DEF OwnerOK, UserOK, Background
  <2>5. WaitOK(c)'
    BY <1>2, <2>1 DEF WaitOK
  <2>. QED  BY <1>0, <2>1, <2>4, <2>5 DEF TypeOK
<1>3. CASE waiting[c] # <<>>
  <2> DEFINE h == Head(waiting[c])
  <2>1. /\ pc' = [pcs EXCEPT ![h] = "setup"]
        /\ waiting' = [waiting EXCEPT ![c] = Tail(@)]
        /\ chan_semaphore' = chan_semaphore
    BY <1>3 DEF Release_chan
  <2>2. h = waiting[c][1] /\ 1 \in 1 .. Len(waiting[c])
    BY <1>0, <1>3
  <2>3. h \in Task /\ pcs[h] = "suspended" /\ arg'[h].chan = c /\ arg[h].chan = c
    BY <1>1, <2>2
  <2> HIDE DEF h
  <2>4. pc'[h] = "setup" /\ \A u \in Task \ {h} : pc'[u] = pcs[u]
    BY <2>1, <2>3
  <2>5. Users(c)' = {h}
    BY <2>3, <2>4 DEF Users, UseLabels
  <2>6. OwnerOK(c)' /\ UserOK(c)'
    BY <2>1, <2>4, <2>5 DEF OwnerOK, UserOK, Background
  <2>7. /\ waiting'[c] \in Seq(Task) /\ waiting'[c] = Tail(waiting[c])
        /\ Len(waiting'[c]) = Len(waiting[c]) - 1
        /\ \A k \in 1 .. Len(waiting'[c]) : waiting'[c][k] = waiting[c][k + 1]
    <3>1. waiting'[c] = Tail(waiting[c])
      BY <1>0, <2>1 DEF TypeOK
    <3>. QED  BY <1>0, <1>3, <3>1, HeadTailProperties
  <2>8. \A k \in 1 .. Len(waiting'[c]) : k + 1 \in 1 .. Len(waiting[c]) /\ k \in Nat \ {0}
    BY <1>0, <2>7
  <2>9. WaitOK(c)'
    <3>1. \A k \in 1 .. Len(waiting'[c]) :
            pc'[waiting'[c][k]] = "suspended" /\ arg'[waiting'[c][k]].chan = c
      <4> SUFFICES ASSUME NEW k \in 1 .. Len(waiting'[c])
                   PROVE  /\ pc'[waiting'[c][k]] = "suspended"
                          /\ arg'[waiting'[c][k]].chan = c
        OBVIOUS
      <4>1. waiting[c][k + 1] # h
        BY <1>0, <2>2, <2>8 DEF WaitOK
      <4>. QED  BY <1>1, <2>4, <2>7, <2>8, <4>1
    <3>2. \A j, k \in 1 .. Len(waiting'[c]) :
            waiting'[c][j] = waiting'[c][k] => j = k
      <4> SUFFICES ASSUME NEW j \in 1 .. Len(waiting'[c]),
                          NEW k \in 1 .. Len(waiting'[c]),
                          waiting'[c][j] = waiting'[c][k]
                   PROVE  j = k
        OBVIOUS
      <4>1. j + 1 = k + 1
        BY <1>0, <2>7, <2>8 DEF WaitOK
      <4>. QED  BY <4>1, <2>8
    <3>. QED  BY <2>1, <3>1, <3>2 DEF WaitOK
  <2>10. pc' \in [Task -> Labels]
    BY <2>1 DEF Labels
  <2>11. /\ waiting' \in [Channel -> Seq(Task)]
         /\ \A d \in Channel \ {c} : waiting'[d] = waiting[d]
    BY <1>0, <2>1, <2>7 DEF TypeOK
  <2>. QED  BY <1>0, <2>1, <2>3, <2>4, <2>6, <2>9, <2>10, <2>11 DEF TypeOK
<1>. QED  BY <1>2, <1>3

-----------------------------------------------------------------------------
(* The HISR *)

\* One more request executed in order.
LEMMA InOrderAppend ==
  ASSUME NEW s \in Seq(Nat), s = [i \in 1 .. Len(s) |-> i], NEW n,
         n = Len(s) + 1
  PROVE  /\ Append(s, n) \in Seq(Nat) /\ Len(Append(s, n)) = n
         /\ Append(s, n) = [i \in 1 .. Len(Append(s, n)) |-> i]
<1> DEFINE r == Append(s, n)
           q == [i \in 1 .. Len(r) |-> i]
<1>1. Len(s) \in Nat /\ n \in Nat
  OBVIOUS
<1>2. /\ r \in Seq(Nat) /\ Len(r) = n /\ r[n] = n
      /\ \A i \in 1 .. Len(s) : r[i] = s[i]
  BY <1>1, AppendProperties
<1> HIDE DEF r
<1>3. q \in Seq(Nat) /\ Len(q) = n /\ \A i \in 1 .. n : q[i] = i
  BY <1>1, <1>2
<1>4. \A i \in 1 .. n : i \in 1 .. Len(s) \/ i = n
  BY <1>1
<1>5. \A i \in 1 .. Len(r) : r[i] = q[i]
  BY <1>2, <1>3, <1>4
<1>6. r = q
  <2> HIDE DEF q
  <2>. QED  BY <1>2, <1>3, <1>5, SeqEqual
<1>. QED  BY <1>2, <1>6 DEF r

\* The state of a channel that has just been served by its HISR with n requests
\* left.
LEMMA CompleteStream ==
  ASSUME IndInv, NEW c \in Channel, DMA_Tgt_HISR(c), tcif[c], NEW n,
         n = IF cur_req_length[c] = DMA_LENGTH_CONTINUOUS
               THEN DMA_LENGTH_CONTINUOUS ELSE Decrement(cur_req_length[c])
  PROVE  /\ n \in 0 .. DMA_LENGTH_CONTINUOUS
         /\ chan_req[c] = "queued" /\ chan_req'[c] = IF n = 0 THEN "none" ELSE "queued"
         /\ cur_req_type[c] = "sync" => n = 0
         /\ StreamOK(c)'
         /\ en' \in [Channel -> BOOLEAN] /\ ie' \in [Channel -> BOOLEAN]
         /\ cur_req_length' \in [Channel -> 0 .. DMA_LENGTH_CONTINUOUS]
         /\ cur_req_ptr' \in [Channel -> Nat]
         /\ chan_req' \in [Channel -> {"none", "queued", "looped"}]
         /\ executed' \in [Channel -> Seq(Nat)]
         /\ \A d \in Channel \ {c} :
              /\ cur_req_length'[d] = cur_req_length[d]
              /\ cur_req_ptr'[d] = cur_req_ptr[d] /\ chan_req'[d] = chan_req[d]
              /\ en'[d] = en[d] /\ ie'[d] = ie[d] /\ executed'[d] = executed[d]
<1>0. TypeOK /\ StreamOK(c)
  BY DEF IndInv, ChanOK
<1>1. hisr[c] /\ HisrComplete(c)
  BY DEF DMA_Tgt_HISR, HisrError
<1>2. /\ chan_req[c] = "queued" /\ ~en[c] /\ ~ie[c]
      /\ cur_req_ptr[c] = Len(executed[c]) + 1
      /\ cur_req_type[c] = "sync" => cur_req_length[c] = 1
  BY <1>0, <1>1 DEF StreamOK
<1>3. n \in 0 .. DMA_LENGTH_CONTINUOUS /\ (cur_req_type[c] = "sync" => n = 0)
  <2>1. cur_req_length[c] \in 0 .. DMA_LENGTH_CONTINUOUS
    BY <1>0 DEF TypeOK
  <2>. QED  BY <1>2, <2>1, ChannelAssumption DEF Decrement
<1>4. /\ cur_req_length' = [cur_req_length EXCEPT ![c] = n]
      /\ DMA_Trans_Complete(c, n)
      /\ executed' = [executed EXCEPT ![c] =
           IF n = DMA_LENGTH_CONTINUOUS THEN @ ELSE Append(@, cur_req_ptr[c])]
      /\ \/ n = 0 /\ UNCHANGED <<en, ie, cur_req_ptr>>
         \/ n = DMA_LENGTH_CONTINUOUS /\ DMA_Tgt_Data_Trans(c) /\ UNCHANGED cur_req_ptr
         \/ /\ n \notin {0, DMA_LENGTH_CONTINUOUS}
            /\ DMA_Tgt_Data_Trans(c)
            /\ cur_req_ptr' = [cur_req_ptr EXCEPT ![c] = @ + 1]
  BY <1>1 DEF HisrComplete
<1>5. chan_req' = IF n = 0 THEN [chan_req EXCEPT ![c] = "none"] ELSE chan_req
  BY <1>0, <1>2, <1>4 DEF DMA_Trans_Complete, DMA_Remove_Chan_Req, TypeOK
<1>6. chan_req'[c] = IF n = 0 THEN "none" ELSE "queued"
  BY <1>0, <1>2, <1>5 DEF TypeOK
<1>7. cur_req_length'[c] = n
  BY <1>0, <1>4 DEF TypeOK
<1>8. /\ executed[c] \in Seq(Nat)
      /\ executed[c] = [i \in 1 .. Len(executed[c]) |-> i]
  BY <1>0 DEF TypeOK, StreamOK
<1>9. /\ executed'[c] \in Seq(Nat)
      /\ executed'[c] = [i \in 1 .. Len(executed'[c]) |-> i]
      /\ n # DMA_LENGTH_CONTINUOUS => Len(executed'[c]) = cur_req_ptr[c]
      /\ n = DMA_LENGTH_CONTINUOUS => executed'[c] = executed[c]
  <2>1. executed'[c] = IF n = DMA_LENGTH_CONTINUOUS THEN executed[c]
                         ELSE Append(executed[c], cur_req_ptr[c])
    BY <1>0, <1>4 DEF TypeOK
  <2>2. /\ Append(executed[c], cur_req_ptr[c]) \in Seq(Nat)
        /\ Len(Append(executed[c], cur_req_ptr[c])) = cur_req_ptr[c]
        /\ Append(executed[c], cur_req_ptr[c])
             = [i \in 1 .. Len(Append(executed[c], cur_req_ptr[c])) |-> i]
    BY <1>2, <1>8, InOrderAppend
  <2>. QED  BY <2>1, <2>2, <1>8
<1>10. n # 0 => cur_req_ptr'[c] = Len(executed'[c]) + 1
  <2>1. cur_req_ptr[c] \in Nat
    BY <1>0 DEF TypeOK
  <2>2. CASE n = DMA_LENGTH_CONTINUOUS
    BY <1>2, <1>4, <1>9, <2>2, ChannelAssumption
  <2>3. CASE n \notin {0, DMA_LENGTH_CONTINUOUS}
    <3>1. cur_req_ptr'[c] = cur_req_ptr[c] + 1
      BY <1>0, <1>4, <2>3 DEF TypeOK
    <3>. QED  BY <1>9, <2>3, <3>1
  <2>. QED  BY <2>2, <2>3
<1>11. ~hisr'[c] /\ ~tcif'[c] /\ ~errif'[c] /\ cur_req_type' = cur_req_type
  BY <1>0 DEF DMA_Tgt_HISR, TypeOK
<1>12. n = 0 => ~en'[c] /\ ~ie'[c]
  BY <1>2, <1>4, ChannelAssumption
<1>13. StreamOK(c)'
  BY <1>3, <1>6, <1>7, <1>9, <1>10, <1>11, <1>12 DEF StreamOK
<1>14. /\ en' \in [Channel -> BOOLEAN] /\ ie' \in [Channel -> BOOLEAN]
       /\ \A d \in Channel \ {c} : en'[d] = en[d] /\ ie'[d] = ie[d]
  BY <1>0, <1>4 DEF TypeOK, DMA_Tgt_Data_Trans
<1>15. /\ cur_req_length' \in [Channel -> 0 .. DMA_LENGTH_CONTINUOUS]
       /\ cur_req_ptr' \in [Channel -> Nat]
       /\ chan_req' \in [Channel -> {"none", "queued", "looped"}]
       /\ executed' \in [Channel -> Seq(Nat)]
  <2>1. cur_req_ptr' \in [Channel -> Nat]
    <3>1. cur_req_ptr \in [Channel -> Nat]
      BY <1>0 DEF TypeOK
    <3>2. \/ cur_req_ptr' = cur_req_ptr
          \/ cur_req_ptr' = [cur_req_ptr EXCEPT ![c] = cur_req_ptr[c] + 1]
      BY <1>4
    <3>3. cur_req_ptr[c] + 1 \in Nat
      BY <3>1
    <3>. QED  BY <3>1, <3>2, <3>3
  <2>2. executed' \in [Channel -> Seq(Nat)]
    <3>1. executed' = [executed EXCEPT ![c] = executed'[c]]
      BY <1>0, <1>4 DEF TypeOK
    <3>. QED  BY <1>0, <1>9, <3>1 DEF TypeOK
  <2>. QED  BY <1>0, <1>3, <1>4, <1>5, <2>1, <2>2 DEF TypeOK
<1>16. \A d \in Channel \ {c} :
         /\ cur_req_length'[d] = cur_req_length[d]
         /\ cur_req_ptr'[d] = cur_req_ptr[d] /\ chan_req'[d] = chan_req[d]
         /\ executed'[d] = executed[d]
  BY <1>0, <1>4, <1>5 DEF TypeOK
<1>. QED  BY <1>2, <1>3, <1>6, <1>13, <1>14, <1>15, <1>16

LEMMA HisrStep ==
  ASSUME IndInv, NEW c \in Channel, DMA_Tgt_HISR(c)
  PROVE  IndInv'
<1>0. TypeOK /\ ArgsOK /\ ChanOK(c)
  BY DEF IndInv
<1>1. /\ hisr' \in [Channel -> BOOLEAN] /\ tcif' \in [Channel -> BOOLEAN]
      /\ errif' \in [Channel -> BOOLEAN]
      /\ \A d \in Channel \ {c} :
           hisr'[d] = hisr[d] /\ tcif'[d] = tcif[d] /\ errif'[d] = errif[d]
      /\ UNCHANGED <<arg, cur_req_type>>
  BY <1>0 DEF TypeOK, DMA_Tgt_HISR
<1>2. CASE ~tcif[c]
  <2>1. UNCHANGED <<pc, kernelVars, cur_req_length, cur_req_ptr, chan_req, en, ie,
                    executed>>
    BY <1>2 DEF DMA_Tgt_HISR, HisrComplete, HisrError
  <2>2. UNCHANGED <<taskVars, kernelVars, reqVars>>
    BY <1>1, <2>1 DEF taskVars, reqVars
  <2>3. TypeOK'
    BY <1>0, <1>1, <2>1 DEF TypeOK, kernelVars
  <2>4. ~hisr'[c] /\ ~tcif'[c] /\ ~errif'[c]
    BY <1>0 DEF DMA_Tgt_HISR, TypeOK
  <2>5. StreamOK(c)'
    BY <1>0, <1>1, <2>1, <2>4 DEF StreamOK, ChanOK
  <2>6. \A d \in Channel \ {c} : ChanSame(d)
    BY <1>1, <2>1 DEF ChanSame, kernelVars
  <2>. QED  BY <2>2, <2>3, <2>5, <2>6, StreamStep
<1>3. CASE tcif[c]
  <2> DEFINE n == IF cur_req_length[c] = DMA_LENGTH_CONTINUOUS
                    THEN DMA_LENGTH_CONTINUOUS ELSE Decrement(cur_req_length[c])
  <2>0. DMA_Comp_Callback(c, n)
    BY <1>3 DEF DMA_Tgt_HISR, HisrError, HisrComplete, DMA_Trans_Complete
  <2>1. /\ chan_req[c] = "queued" /\ chan_req'[c] = IF n = 0 THEN "none" ELSE "queued"
        /\ cur_req_type[c] = "sync" => n = 0
        /\ StreamOK(c)'
        /\ en' \in [Channel -> BOOLEAN] /\ ie' \in [Channel -> BOOLEAN]
        /\ cur_req_length' \in [Channel -> 0 .. DMA_LENGTH_CONTINUOUS]
        /\ cur_req_ptr' \in [Channel -> Nat]
        /\ chan_req' \in [Channel -> {"none", "queued", "looped"}]
        /\ executed' \in [Channel -> Seq(Nat)]
    BY <1>3, CompleteStream
  <2>2. \A d \in Channel \ {c} :
          /\ cur_req_length'[d] = cur_req_length[d]
          /\ cur_req_ptr'[d] = cur_req_ptr[d] /\ chan_req'[d] = chan_req[d]
          /\ en'[d] = en[d] /\ ie'[d] = ie[d] /\ executed'[d] = executed[d]
    BY <1>3, CompleteStream
  <2> HIDE DEF n
  <2>3. SUFFICES /\ OwnerOK(c)' /\ UserOK(c)' /\ WaitOK(c)' /\ ArgsOK'
                 /\ pc' \in [Task -> Labels]
                 /\ chan_semaphore' \in [Channel -> Nat]
                 /\ waiting' \in [Channel -> Seq(Task)]
                 /\ chan_comp_evt' \in [Channel -> SUBSET {"completion", "error"}]
                 /\ \A d \in Channel \ {c} :
                      /\ chan_semaphore'[d] = chan_semaphore[d]
                      /\ waiting'[d] = waiting[d]
                      /\ chan_comp_evt'[d] = chan_comp_evt[d]
                 /\ \A d \in Channel \ {c} : TasksSame(d)
    <3>1. TypeOK'
      BY <1>0, <1>1, <2>1, <2>3 DEF TypeOK, Labels
    <3>2. \A d \in Channel \ {c} : ChanSame(d)
      BY <1>1, <2>2, <2>3 DEF ChanSame
    <3>. QED  BY <2>1, <2>3, <3>1, <3>2, StepAt DEF ChanOK
  <2>4. CASE cur_req_type[c] = "sync"
    <3>1. /\ n = 0 /\ UNCHANGED <<pc, chan_semaphore, waiting>>
          /\ chan_comp_evt' = [chan_comp_evt EXCEPT ![c] = @ \cup {"completion"}]
      BY <2>0, <2>1, <2>4 DEF DMA_Comp_Callback
    <3>2. /\ chan_comp_evt'[c] # {}
          /\ chan_comp_evt' \in [Channel -> SUBSET {"completion", "error"}]
      BY <1>0, <3>1 DEF TypeOK
    <3>3. PICK t \in Users(c) : pc[t] = "wait"
      BY <1>0, <2>1, <2>4 DEF ChanOK, UserOK
    <3>4. Users(c)' = Users(c) /\ Users(c) = {t}
      BY <1>0, <1>1, <3>1, <3>3 DEF Users, ChanOK, OwnerOK
    <3>5. OwnerOK(c)'
      BY <1>0, <1>1, <2>4, <3>1, <3>4 DEF ChanOK, OwnerOK, Background
    <3>6. UserOK(c)'
      BY <1>1, <2>1, <2>4, <3>1, <3>2, <3>3, <3>4 DEF UserOK
    <3>7. WaitOK(c)' /\ ArgsOK'
      BY <1>0, <1>1, <3>1 DEF ChanOK, WaitOK, ArgsOK
    <3>8. \A d \in Channel : TasksSame(d)
      BY <1>1, <3>1 DEF TasksSame
    <3>. QED  BY <1>0, <3>1, <3>2, <3>5, <3>6, <3>7, <3>8 DEF TypeOK, Labels
  <2>5. CASE cur_req_type[c] = "async" /\ n # 0
    <3>1. UNCHANGED <<pc, kernelVars>> /\ chan_req'[c] = chan_req[c]
      BY <2>0, <2>1, <2>5 DEF DMA_Comp_Callback
    <3>2. OwnerOK(c)' /\ UserOK(c)'
      BY <1>0, <1>1, <3>1 DEF ChanOK, OwnerOK, UserOK, Users, Background, kernelVars
    <3>3. WaitOK(c)' /\ ArgsOK'
      BY <1>0, <1>1, <3>1 DEF ChanOK, WaitOK, ArgsOK, kernelVars
    <3>4. \A d \in Channel : TasksSame(d)
      BY <1>1, <3>1 DEF TasksSame
    <3>. QED  BY <1>0, <3>1, <3>2, <3>3, <3>4 DEF TypeOK, Labels, kernelVars
  <2>6. CASE cur_req_type[c] = "async" /\ n = 0
    <3>1. Release_chan(c, pc) /\ UNCHANGED chan_comp_evt
      BY <2>0, <2>6 DEF DMA_Comp_Callback
    <3>2. Background(c) /\ Users(c) = {} /\ chan_semaphore[c] = 0
      BY <1>0, <2>1, <2>6 DEF Background, ChanOK, OwnerOK
    <3>3. chan_comp_evt[c] = {}
      BY <1>0, <3>2 DEF ChanOK, UserOK
    <3>4. pc \in [Task -> Labels] /\ arg' \in [Task -> Call]
      BY <1>0, <1>1 DEF TypeOK, Labels
    <3>5. \A u \in Task : pc[u] \in UseLabels => arg'[u].chan # c
      BY <1>1, <3>2 DEF Users, UseLabels
    <3>6. GivenUp(c, pc)
      BY <1>1, <2>1, <2>6, <3>1, <3>2, <3>3, <3>4, <3>5 DEF GivenUp
    <3>7. Released(c, pc)
      BY <3>1, <3>6, ReleaseStep
    <3>8. ArgsOK'
      BY <1>0, <1>1, <3>7 DEF ArgsOK, Released
    <3>9. \A d \in Channel \ {c} : TasksSame(d)
      BY <1>1, <3>7 DEF TasksSame, Elsewhere, Released
    <3>. QED  BY <1>0, <3>1, <3>7, <3>8, <3>9 DEF TypeOK, Released
  <2>. QED  BY <2>0, <2>4, <2>5, <2>6 DEF DMA_Comp_Callback
<1>. QED  BY <1>2, <1>3

-----------------------------------------------------------------------------
(* The tasks *)

LEMMA CallTypes ==
  /\ NoCall \in Call /\ Calls \subseteq Call
  /\ \A a \in Call : a.chan \in Channel /\ a.type \in ReqType /\ a.total_requests \in Nat
  /\ \A a \in Calls : a.total_requests \in 0 .. DMA_LENGTH_CONTINUOUS
<1>1. (CHOOSE c \in Channel : TRUE) \in Channel
  BY ChannelAssumption
<1>2. NoCall \in Call
  BY <1>1 DEF NoCall, Call, ReqType, Suspend
<1>3. \A a \in Call : a.chan \in Channel /\ a.type \in ReqType /\ a.total_requests \in Nat
  BY DEF Call
<1>4. Calls \subseteq Call
  BY ChannelAssumption
<1>. QED  BY <1>2, <1>3, <1>4, ChannelAssumption

\* A free channel has no request and no event.
LEMMA FreeIsIdle ==
  ASSUME IndInv, NEW c \in Channel, chan_semaphore[c] = 1
  PROVE  Users(c) = {} /\ chan_req[c] = "none" /\ chan_comp_evt[c] = {}
<1>1. OwnerOK(c) /\ UserOK(c)
  BY DEF IndInv, ChanOK
<1>2. Users(c) = {} /\ ~Background(c)
  BY <1>1 DEF OwnerOK
<1>. QED  BY <1>1, <1>2 DEF UserOK, Background

LEMMA EnterStep ==
  ASSUME SyncIsSingle, IndInv, NEW t \in Task, NEW a \in Calls, Enter(t, a)
  PROVE  IndInv'
<1> DEFINE c == a.chan
<1>0. TypeOK /\ ArgsOK /\ c \in Channel /\ a \in Call
  BY CallTypes DEF IndInv
<1>1. OwnerOK(c) /\ UserOK(c) /\ StreamOK(c) /\ WaitOK(c)
  BY <1>0 DEF IndInv, ChanOK
<1>2. /\ pc[t] = "idle" /\ arg' = [arg EXCEPT ![t] = a]
      /\ UNCHANGED <<chan_comp_evt, reqVars, hwVars, executed>>
  BY DEF Enter
<1>3. StreamOK(c)'
  BY <1>1, <1>2 DEF StreamOK, reqVars, hwVars
<1>4. /\ arg' \in [Task -> Call] /\ arg'[t] = a
      /\ \A u \in Task \ {t} : arg'[u] = arg[u]
  BY <1>0, <1>2 DEF TypeOK
<1>5. CASE Obtain_chan(c) /\ Goto(t, "setup") /\ UNCHANGED waiting
  <2>1. /\ pc' \in [Task -> Labels] /\ pc'[t] = "setup"
        /\ \A u \in Task \ {t} : pc'[u] = pc[u]
    BY <1>0, <1>5 DEF Goto, TypeOK, Labels
  <2>2. /\ chan_semaphore[c] = 1 /\ chan_semaphore'[c] = 0
        /\ chan_semaphore' \in [Channel -> Nat]
        /\ \A d \in Channel \ {c} : chan_semaphore'[d] = chan_semaphore[d]
    <3>1. chan_semaphore[c] = 1
      BY <1>1, <1>5 DEF Obtain_chan, OwnerOK
    <3>. QED  BY <1>0, <1>5, <3>1 DEF Obtain_chan, TypeOK
  <2>3. Users(c) = {} /\ chan_req[c] = "none" /\ chan_comp_evt[c] = {}
    BY <1>0, <2>2, FreeIsIdle
  <2>4. chan_req'[c] = "none" /\ chan_comp_evt'[c] = {}
    BY <1>2, <2>3 DEF reqVars
  <2>5. Users(c)' = {t}
    BY <1>4, <2>1, <2>3 DEF Users
  <2>6. OwnerOK(c)' /\ UserOK(c)'
    BY <2>1, <2>2, <2>4, <2>5 DEF OwnerOK, UserOK, Background
  <2>7. waiting[c] = <<>>
    BY <1>1, <2>2 DEF WaitOK
  <2>8. WaitOK(c)'
    BY <1>5, <2>7 DEF WaitOK
  <2>9. TypeOK'
    BY <1>0, <1>2, <1>4, <1>5, <2>1, <2>2 DEF TypeOK, reqVars, hwVars, Labels
  <2>10. ArgsOK'
    BY <1>0, <1>4, <2>1 DEF ArgsOK, SyncIsSingle
  <2>11. \A d \in Channel \ {c} : ChanSame(d)
    BY <1>2, <1>5, <2>2 DEF ChanSame, reqVars, hwVars
  <2>12. \A d \in Channel \ {c} : TasksSame(d)
    BY <1>2, <1>4, <2>1 DEF TasksSame, Elsewhere
  <2>. QED  BY <1>0, <1>3, <2>6, <2>8, <2>9, <2>10, <2>11, <2>12, StepAt DEF ChanOK
<1>6. CASE /\ chan_semaphore[c] = 0 /\ Goto(t, "suspended")
           /\ waiting' = [waiting EXCEPT ![c] = Append(@, t)]
           /\ UNCHANGED chan_semaphore
  <2>1. /\ pc' \in [Task -> Labels] /\ pc'[t] = "suspended"
        /\ \A u \in Task \ {t} : pc'[u] = pc[u]
    BY <1>0, <1>6 DEF Goto, TypeOK, Labels
  <2>2. Users(c)' = Users(c) /\ \A u \in Users(c) : pc'[u] = pc[u]
    BY <1>2, <1>4, <2>1 DEF Users
  <2>3. OwnerOK(c)' /\ UserOK(c)'
    BY <1>1, <1>2, <1>6, <2>2 DEF OwnerOK, UserOK, Background, reqVars
  <2>4. waiting[c] \in Seq(Task) /\ Len(waiting[c]) \in Nat
    BY <1>0 DEF TypeOK
  <2>5. /\ waiting'[c] \in Seq(Task) /\ Len(waiting'[c]) = Len(waiting[c]) + 1
        /\ waiting'[c][Len(waiting[c]) + 1] = t
        /\ \A k \in 1 .. Len(waiting[c]) : waiting'[c][k] = waiting[c][k]
    <3>1. waiting'[c] = Append(waiting[c], t)
      BY <1>0, <1>6 DEF TypeOK
    <3>. QED  BY <2>4, <3>1, AppendProperties
  <2>6. \A k \in 1 .. Len(waiting'[c]) :
          k \in 1 .. Len(waiting[c]) \/ k = Len(waiting[c]) + 1
    BY <2>4, <2>5
  <2>7. \A k \in 1 .. Len(waiting[c]) :
          /\ waiting[c][k] \in Task /\ waiting[c][k] # t
          /\ pc[waiting[c][k]] = "suspended" /\ arg[waiting[c][k]].chan = c
    BY <1>1, <1>2, <2>4 DEF WaitOK
  <2>8. WaitOK(c)'
    <3>1. \A k \in 1 .. Len(waiting'[c]) :
            pc'[waiting'[c][k]] = "suspended" /\ arg'[waiting'[c][k]].chan = c
      <4> SUFFICES ASSUME NEW k \in 1 .. Len(waiting'[c])
                   PROVE  /\ pc'[waiting'[c][k]] = "suspended"
                          /\ arg'[waiting'[c][k]].chan = c
        OBVIOUS
      <4>1. CASE k \in 1 .. Len(waiting[c])
        <5>1. waiting'[c][k] = waiting[c][k]
          BY <2>5, <4>1
        <5>2. /\ pc'[waiting[c][k]] = "suspended"
              /\ arg'[waiting[c][k]].chan = c
          BY <1>4, <2>1, <2>7, <4>1
        <5>. QED  BY <5>1, <5>2
      <4>2. CASE k = Len(waiting[c]) + 1
        BY <1>4, <2>1, <2>5, <4>2
      <4>. QED  BY <2>6, <4>1, <4>2
    <3>2. \A j, k \in 1 .. Len(waiting'[c]) :
            waiting'[c][j] = waiting'[c][k] => j = k
      BY <1>1, <2>5, <2>6, <2>7 DEF WaitOK
    <3>. QED  BY <1>6, <3>1, <3>2 DEF WaitOK
  <2>9. /\ waiting' \in [Channel -> Seq(Task)]
        /\ \A d \in Channel \ {c} : waiting'[d] = waiting[d]
    BY <1>0, <1>6, <2>5 DEF TypeOK
  <2>10. TypeOK'
    BY <1>0, <1>2, <1>4, <1>6, <2>1, <2>9 DEF TypeOK, reqVars, hwVars, Labels
  <2>11. ArgsOK'
    BY <1>0, <1>4, <2>1 DEF ArgsOK, SyncIsSingle
  <2>12. \A d \in Channel \ {c} : ChanSame(d)
    BY <1>2, <1>6, <2>9 DEF ChanSame, reqVars, hwVars
  <2>13. \A d \in Channel \ {c} : TasksSame(d)
    BY <1>2, <1>4, <2>1 DEF TasksSame, Elsewhere
  <2>. QED  BY <1>0, <1>3, <2>3, <2>8, <2>10, <2>11, <2>12, <2>13, StepAt DEF ChanOK
<1>. QED  BY <1>5, <1>6 DEF Enter

LEMMA TimeoutStep ==
  ASSUME IndInv, NEW t \in Task, Timeout(t)
  PROVE  IndInv'
<1>0. TypeOK /\ ArgsOK /\ arg[t].chan \in Channel
  BY CallTypes DEF IndInv, TypeOK
<1> PICK c \in Channel : c = arg[t].chan
  BY <1>0
<1>1. OwnerOK(c) /\ UserOK(c) /\ StreamOK(c) /\ WaitOK(c)
  BY <1>0 DEF IndInv, ChanOK
<1>2. /\ pc[t] = "suspended"
      /\ UNCHANGED <<chan_semaphore, chan_comp_evt, reqVars, hwVars, executed>>
  BY DEF Timeout
<1>3. /\ pc' \in [Task -> Labels] /\ pc'[t] = "idle" /\ arg' \in [Task -> Call]
      /\ \A u \in Task \ {t} : pc'[u] = pc[u] /\ arg'[u] = arg[u]
  BY <1>0, CallTypes DEF Timeout, ReturnFrom, Goto, TypeOK, Labels
<1>4. PICK k \in 1 .. Len(waiting[c]) :
        /\ waiting[c][k] = t
        /\ waiting' = [waiting EXCEPT ![c] =
             [i \in 1 .. Len(waiting[c]) - 1 |->
                IF i < k THEN waiting[c][i] ELSE waiting[c][i + 1]]]
  <2>1. PICK k \in 1 .. Len(waiting[arg[t].chan]) :
          /\ waiting[arg[t].chan][k] = t
          /\ waiting' = [waiting EXCEPT ![arg[t].chan] =
               [i \in 1 .. Len(@) - 1 |-> IF i < k THEN @[i] ELSE @[i + 1]]]
    BY Zenon DEF Timeout
  <2>2. waiting' = [waiting EXCEPT ![c] =
          [i \in 1 .. Len(waiting[c]) - 1 |->
             IF i < k THEN waiting[c][i] ELSE waiting[c][i + 1]]]
    BY <2>1, <1>0 DEF TypeOK
  <2>. QED  BY <2>1, <2>2
<1>5. waiting[c] \in Seq(Task) /\ Len(waiting[c]) \in Nat \ {0} /\ k \in Nat
  BY <1>0 DEF TypeOK
<1>6. /\ waiting'[c] \in Seq(Task) /\ Len(waiting'[c]) = Len(waiting[c]) - 1
      /\ \A i \in 1 .. Len(waiting'[c]) :
           waiting'[c][i] = IF i < k THEN waiting[c][i] ELSE waiting[c][i + 1]
  <2>1. waiting'[c] = [i \in 1 .. Len(waiting[c]) - 1 |->
                         IF i < k THEN waiting[c][i] ELSE waiting[c][i + 1]]
    BY <1>0, <1>4 DEF TypeOK
  <2>2. Len(waiting[c]) - 1 \in Nat
    BY <1>5
  <2>3. \A i \in 1 .. Len(waiting[c]) - 1 :
          waiting[c][i] \in Task /\ waiting[c][i + 1] \in Task
    BY <1>5
  <2>. QED  BY <2>1, <2>2, <2>3
<1>7. \A i \in 1 .. Len(waiting'[c]) : \E j \in 1 .. Len(waiting[c]) :
        /\ j = IF i < k THEN i ELSE i + 1
        /\ j # k /\ waiting'[c][i] = waiting[c][j]
  <2> SUFFICES ASSUME NEW i \in 1 .. Len(waiting'[c])
               PROVE  \E j \in 1 .. Len(waiting[c]) :
                        /\ j = IF i < k THEN i ELSE i + 1
                        /\ j # k /\ waiting'[c][i] = waiting[c][j]
    OBVIOUS
  <2>1. /\ i \in 1 .. Len(waiting[c]) /\ i + 1 \in 1 .. Len(waiting[c])
        /\ i + 1 # k \/ i < k
    BY <1>5, <1>6
  <2>2. waiting'[c][i] = IF i < k THEN waiting[c][i] ELSE waiting[c][i + 1]
    BY <1>6
  <2>3. CASE i < k
    BY <2>1, <2>2, <2>3, <1>5
  <2>4. CASE ~(i < k)
    BY <2>1, <2>2, <2>4, <1>5
  <2>. QED  BY <2>3, <2>4
<1>8. \A j \in 1 .. Len(waiting[c]) : j # k =>
        /\ waiting[c][j] \in Task /\ waiting[c][j] # t
        /\ pc[waiting[c][j]] = "suspended" /\ arg[waiting[c][j]].chan = c
  BY <1>1, <1>4, <1>5 DEF WaitOK
<1>9. WaitOK(c)'
  <2>1. \A i \in 1 .. Len(waiting'[c]) :
          pc'[waiting'[c][i]] = "suspended" /\ arg'[waiting'[c][i]].chan = c
    <3> SUFFICES ASSUME NEW i \in 1 .. Len(waiting'[c])
                 PROVE  /\ pc'[waiting'[c][i]] = "suspended"
                        /\ arg'[waiting'[c][i]].chan = c
      OBVIOUS
    <3>1. PICK j \in 1 .. Len(waiting[c]) : j # k /\ waiting'[c][i] = waiting[c][j]
      BY <1>7
    <3>. QED  BY <1>3, <1>8, <3>1
  <2>2. \A i, j \in 1 .. Len(waiting'[c]) :
          waiting'[c][i] = waiting'[c][j] => i = j
    <3> SUFFICES ASSUME NEW i \in 1 .. Len(waiting'[c]),
                        NEW j \in 1 .. Len(waiting'[c]),
                        waiting'[c][i] = waiting'[c][j]
                 PROVE  i = j
      OBVIOUS
    <3>1. (IF i < k THEN i ELSE i + 1) = (IF j < k THEN j ELSE j + 1)
      <4>1. \A m, n \in 1 .. Len(waiting[c]) : waiting[c][m] = waiting[c][n] => m = n
        BY <1>1 DEF WaitOK
      <4>2. PICK m \in 1 .. Len(waiting[c]) : /\ m = IF i < k THEN i ELSE i + 1
                                              /\ waiting'[c][i] = waiting[c][m]
        BY ONLY <1>7
      <4>3. PICK n \in 1 .. Len(waiting[c]) : /\ n = IF j < k THEN j ELSE j + 1
                                              /\ waiting'[c][j] = waiting[c][n]
        BY ONLY <1>7
      <4>. QED  BY <4>1, <4>2, <4>3
    <3>2. i \in Nat /\ j \in Nat
      BY <1>5, <1>6
    <3>. QED  BY <3>1, <3>2, <1>5
  <2>3. chan_semaphore'[c] = 0
    <3>1. waiting[c] # <<>>
      BY <1>4, <1>5
    <3>. QED  BY <1>1, <1>2, <3>1 DEF WaitOK
  <2>. QED  BY <2>1, <2>2, <2>3 DEF WaitOK
<1>10. Users(c)' = Users(c) /\ \A u \in Users(c) : pc'[u] = pc[u]
  BY <1>2, <1>3 DEF Users
<1>11. OwnerOK(c)' /\ UserOK(c)'
  BY <1>1, <1>2, <1>10 DEF OwnerOK, UserOK, Background, reqVars
<1>12. StreamOK(c)'
  BY <1>1, <1>2 DEF StreamOK, reqVars, hwVars
<1>13. /\ waiting' \in [Channel -> Seq(Task)]
       /\ \A d \in Channel \ {c} : waiting'[d] = waiting[d]
  BY <1>0, <1>4, <1>6 DEF TypeOK
<1>14. TypeOK'
  BY <1>0, <1>2, <1>3, <1>13 DEF TypeOK, reqVars, hwVars, Labels
<1>15. ArgsOK'
  BY <1>0, <1>3 DEF ArgsOK
<1>16. \A d \in Channel \ {c} : ChanSame(d)
  BY <1>2, <1>13 DEF ChanSame, reqVars, hwVars
<1>17. \A d \in Channel \ {c} : TasksSame(d)
  BY <1>2, <1>3 DEF TasksSame, Elsewhere
<1>. QED  BY <1>0, <1>9, <1>11, <1>12, <1>14, <1>15, <1>16, <1>17, StepAt DEF ChanOK

LEMMA SetupStep ==
  ASSUME IndInv, NEW t \in Task, Setup(t)
  PROVE  IndInv'
<1>0. TypeOK /\ ArgsOK /\ arg[t] \in Call /\ arg[t].chan \in Channel
  BY CallTypes DEF IndInv, TypeOK
<1> PICK a \in Call, c \in Channel : a = arg[t] /\ c = a.chan
  BY <1>0
<1>1. OwnerOK(c) /\ UserOK(c) /\ StreamOK(c) /\ WaitOK(c)
  BY <1>0 DEF IndInv, ChanOK
<1>2. /\ pc[t] = "setup" /\ SaveRequest(c, a) /\ DMA_Add_Chan_Req(c)
      /\ executed' = [executed EXCEPT ![c] = <<>>]
      /\ UNCHANGED <<kernelVars, tcif, errif, hisr>>
  BY DEF Setup
<1>3. t \in Users(c) /\ Users(c) = {t}
  BY <1>1, <1>2 DEF Users, OwnerOK
<1>4. /\ chan_req[c] = "none" /\ chan_comp_evt[c] = {} /\ chan_semaphore[c] = 0
      /\ ~en[c] /\ ~ie[c] /\ ~tcif[c] /\ ~errif[c] /\ ~hisr[c]
  BY <1>1, <1>2, <1>3 DEF OwnerOK, UserOK, StreamOK
<1>5. a \in Calls /\ (a.type = "sync" => a.total_requests = 1)
  BY <1>0, <1>2 DEF ArgsOK
<1>6. a.total_requests \in 0 .. DMA_LENGTH_CONTINUOUS /\ a.type \in ReqType
  BY <1>5, CallTypes
<1>7. /\ cur_req_type'[c] = a.type /\ cur_req_length'[c] = a.total_requests
      /\ cur_req_ptr'[c] = 1 /\ chan_req'[c] = "queued" /\ executed'[c] = <<>>
      /\ \A d \in Channel \ {c} :
           /\ cur_req_type'[d] = cur_req_type[d]
           /\ cur_req_length'[d] = cur_req_length[d]
           /\ cur_req_ptr'[d] = cur_req_ptr[d] /\ chan_req'[d] = chan_req[d]
           /\ executed'[d] = executed[d]
  BY <1>0, <1>2, <1>4 DEF SaveRequest, DMA_Add_Chan_Req, TypeOK
<1>8. /\ cur_req_type' \in [Channel -> ReqType]
      /\ cur_req_length' \in [Channel -> 0 .. DMA_LENGTH_CONTINUOUS]
      /\ cur_req_ptr' \in [Channel -> Nat]
      /\ chan_req' \in [Channel -> {"none", "queued", "looped"}]
      /\ executed' \in [Channel -> Seq(Nat)]
  BY <1>0, <1>2, <1>6 DEF SaveRequest, DMA_Add_Chan_Req, TypeOK
<1>9. /\ en' \in [Channel -> BOOLEAN] /\ ie' \in [Channel -> BOOLEAN]
      /\ \A d \in Channel \ {c} : en'[d] = en[d] /\ ie'[d] = ie[d]
  BY <1>0 DEF Setup, DMA_Tgt_Data_Trans, DMA_Tgt_Data_Trans_Refused, TypeOK
<1>10. /\ arg' \in [Task -> Call] /\ pc' \in [Task -> Labels]
       /\ \A u \in Task \ {t} : pc'[u] = pc[u] /\ arg'[u] = arg[u]
       /\ a.type = "sync" => pc'[t] = "wait" /\ arg' = arg
       /\ a.type # "sync" => pc'[t] = "idle"
  BY <1>0, CallTypes DEF Setup, ReturnFrom, Goto, TypeOK, Labels
<1>11. StreamOK(c)'
  <2>1. Len(executed'[c]) = 0 /\ executed'[c] = [i \in 1 .. Len(executed'[c]) |-> i]
    BY <1>7
  <2>2. ~tcif'[c] /\ ~errif'[c] /\ ~hisr'[c]
    BY <1>2, <1>4
  <2>. QED  BY <1>5, <1>7, <2>1, <2>2 DEF StreamOK
<1>12. OwnerOK(c)' /\ UserOK(c)'
  <2>1. chan_semaphore'[c] = 0 /\ chan_comp_evt'[c] = {}
    BY <1>2, <1>4 DEF kernelVars
  <2>2. CASE a.type = "sync"
    <3>1. Users(c)' = {t} /\ pc'[t] = "wait"
      BY <1>3, <1>10, <2>2 DEF Users
    <3>2. ~Background(c)'
      BY <1>7, <2>2 DEF Background
    <3>. QED  BY <1>7, <2>1, <2>2, <3>1, <3>2 DEF OwnerOK, UserOK
  <2>3. CASE a.type # "sync"
    <3>1. Users(c)' = {}
      BY <1>3, <1>10, <2>3 DEF Users
    <3>2. Background(c)'
      BY <1>7, <2>3 DEF Background
    <3>. QED  BY <1>7, <2>1, <2>3, <3>1, <3>2 DEF OwnerOK, UserOK
  <2>. QED  BY <2>2, <2>3
<1>13. WaitOK(c)'
  <2>1. waiting' = waiting /\ chan_semaphore' = chan_semaphore /\ waiting[c] \in Seq(Task)
    BY <1>0, <1>2 DEF kernelVars, TypeOK
  <2>2. \A k \in 1 .. Len(waiting[c]) :
          waiting[c][k] \in Task /\ waiting[c][k] # t
    BY <1>1, <1>2, <2>1 DEF WaitOK
  <2>. QED  BY <1>1, <1>10, <2>1, <2>2 DEF WaitOK
<1>14. TypeOK'
  BY <1>0, <1>2, <1>8, <1>9, <1>10 DEF TypeOK, kernelVars, Labels
<1>15. ArgsOK'
  BY <1>0, <1>5, <1>10 DEF ArgsOK
<1>16. \A d \in Channel \ {c} : ChanSame(d)
  BY <1>2, <1>7, <1>9 DEF ChanSame, kernelVars
<1>17. \A d \in Channel \ {c} : TasksSame(d)
  BY <1>10 DEF TasksSame, Elsewhere
<1>. QED  BY <1>11, <1>12, <1>13, <1>14, <1>15, <1>16, <1>17, StepAt DEF ChanOK

LEMMA AwaitStep ==
  ASSUME IndInv, NEW t \in Task, Await(t)
  PROVE  IndInv'
<1>0. TypeOK /\ ArgsOK /\ arg[t].chan \in Channel
  BY CallTypes DEF IndInv, TypeOK
<1> PICK c \in Channel : c = arg[t].chan
  BY <1>0
<1>1. OwnerOK(c) /\ UserOK(c) /\ StreamOK(c) /\ WaitOK(c)
  BY <1>0 DEF IndInv, ChanOK
<1>2. /\ pc[t] = "wait" /\ chan_comp_evt[c] # {}
      /\ UNCHANGED <<arg, chan_semaphore, waiting, reqVars, hwVars, executed>>
  BY DEF Await
<1>3. /\ pc' \in [Task -> Labels] /\ pc'[t] = "release"
      /\ \A u \in Task \ {t} : pc'[u] = pc[u]
  BY <1>0 DEF Await, Goto, TypeOK, Labels
<1>4. /\ chan_comp_evt' \in [Channel -> SUBSET {"completion", "error"}]
      /\ chan_comp_evt'[c] = {}
      /\ \A d \in Channel \ {c} : chan_comp_evt'[d] = chan_comp_evt[d]
  BY <1>0 DEF Await, TypeOK
<1>5. Users(c) = {t} /\ chan_req[c] = "none"
  BY <1>1, <1>2 DEF Users, OwnerOK, UserOK
<1>6. Users(c)' = {t} /\ chan_req'[c] = "none" /\ chan_semaphore'[c] = chan_semaphore[c]
  BY <1>2, <1>3, <1>5 DEF Users, reqVars
<1>7. OwnerOK(c)' /\ UserOK(c)'
  BY <1>1, <1>3, <1>4, <1>5, <1>6 DEF OwnerOK, UserOK, Background
<1>8. WaitOK(c)'
  <2>1. \A k \in 1 .. Len(waiting[c]) :
          waiting[c][k] \in Task /\ waiting[c][k] # t
    BY <1>0, <1>1, <1>2 DEF WaitOK, TypeOK
  <2>. QED  BY <1>1, <1>2, <1>3, <2>1 DEF WaitOK
<1>9. StreamOK(c)'
  BY <1>1, <1>2 DEF StreamOK, reqVars, hwVars
<1>10. TypeOK'
  BY <1>0, <1>2, <1>3, <1>4 DEF TypeOK, reqVars, hwVars, Labels
<1>11. ArgsOK'
  BY <1>0, <1>2, <1>3 DEF ArgsOK
<1>12. \A d \in Channel \ {c} : ChanSame(d)
  BY <1>2, <1>4 DEF ChanSame, reqVars, hwVars
<1>13. \A d \in Channel \ {c} : TasksSame(d)
  BY <1>2, <1>3 DEF TasksSame, Elsewhere
<1>. QED  BY <1>7, <1>8, <1>9, <1>10, <1>11, <1>12, <1>13, StepAt DEF ChanOK

LEMMA SyncReturnStep ==
  ASSUME IndInv, NEW t \in Task, SyncReturn(t)
  PROVE  IndInv'
<1>0. TypeOK /\ ArgsOK /\ arg[t].chan \in Channel
  BY CallTypes DEF IndInv, TypeOK
<1> PICK c \in Channel : c = arg[t].chan
  BY <1>0
<1>1. OwnerOK(c) /\ UserOK(c) /\ StreamOK(c) /\ WaitOK(c)
  BY <1>0 DEF IndInv, ChanOK
<1> DEFINE pcs == [pc EXCEPT ![t] = "idle"]
<1>2. /\ pc[t] = "release" /\ Release_chan(c, pcs)
      /\ UNCHANGED <<chan_comp_evt, reqVars, hwVars, executed>>
  BY DEF SyncReturn
<1>3. /\ arg' \in [Task -> Call]
      /\ \A u \in Task \ {t} : arg'[u] = arg[u]
  BY <1>0, CallTypes DEF SyncReturn, TypeOK
<1>4. /\ pcs \in [Task -> Labels] /\ pcs[t] = "idle"
      /\ \A u \in Task \ {t} : pcs[u] = pc[u]
  BY <1>0 DEF TypeOK, Labels
<1> HIDE DEF pcs
<1>5. Users(c) = {t} /\ chan_req[c] = "none" /\ chan_comp_evt[c] = {}
      /\ chan_semaphore[c] = 0
  BY <1>1, <1>2 DEF Users, OwnerOK, UserOK
<1>6. GivenUp(c, pcs)
  <2>1. \A u \in Task : pcs[u] \in UseLabels => arg'[u].chan # c
    BY <1>3, <1>4, <1>5 DEF Users, UseLabels
  <2>2. \A u \in Task : pcs[u] # pc[u] => pc[u] # "suspended" /\ pcs[u] = "idle"
    BY <1>2, <1>4
  <2>3. \A u \in Task : pcs[u] # "idle" => arg'[u] = arg[u]
    BY <1>3, <1>4
  <2>. QED  BY <1>2, <1>3, <1>4, <1>5, <2>1, <2>2, <2>3 DEF GivenUp, reqVars
<1>7. Released(c, pcs)
  BY <1>2, <1>6, ReleaseStep
<1>8. StreamOK(c)'
  BY <1>1, <1>2 DEF StreamOK, reqVars, hwVars
<1>9. TypeOK'
  BY <1>0, <1>2, <1>3, <1>7 DEF TypeOK, Released, reqVars, hwVars, Labels
<1>10. ArgsOK'
  <2>1. \A u \in Task : pc'[u] # "idle" => pc[u] # "idle" /\ u # t
    BY <1>2, <1>4, <1>7 DEF Released
  <2>. QED  BY <1>0, <1>3, <2>1 DEF ArgsOK
<1>11. \A d \in Channel \ {c} : ChanSame(d)
  BY <1>2, <1>7 DEF ChanSame, Released, reqVars, hwVars
<1>12. \A d \in Channel \ {c} : TasksSame(d)
  <2>1. pc'[t] = "idle"
    BY <1>4, <1>7 DEF Released
  <2>. QED  BY <1>3, <1>4, <1>7, <2>1 DEF TasksSame, Elsewhere, Released
<1>. QED  BY <1>7, <1>8, <1>9, <1>10, <1>11, <1>12, StepAt DEF ChanOK, Released

-----------------------------------------------------------------------------
(* The inductive invariant and the theorems *)

LEMMA IndInvInit == Init => IndInv
<1> SUFFICES ASSUME Init PROVE IndInv
  OBVIOUS
<1> USE DEF Init
<1>1. TypeOK
  <2>1. 0 \in 0 .. DMA_LENGTH_CONTINUOUS
    BY ChannelAssumption
  <2>. QED  BY <2>1, CallTypes DEF TypeOK, ReqType
<1>2. ArgsOK
  BY DEF ArgsOK
<1>3. ASSUME NEW c \in Channel
      PROVE  ChanOK(c)
  <2>1. Users(c) = {} /\ ~Background(c)
    BY DEF Users, Background
  <2>2. StreamOK(c)
    <3>1. Len(executed[c]) = 0 /\ executed[c] = [i \in 1 .. Len(executed[c]) |-> i]
      OBVIOUS
    <3>. QED  BY <3>1 DEF StreamOK
  <2>3. OwnerOK(c) /\ UserOK(c) /\ WaitOK(c)
    BY <2>1 DEF OwnerOK, UserOK, WaitOK
  <2>. QED  BY <2>2, <2>3 DEF ChanOK
<1>. QED  BY <1>1, <1>2, <1>3 DEF IndInv

LEMMA IndInvStep ==
  ASSUME SyncIsSingle, IndInv, [Next]_dmaVars
  PROVE  IndInv'
<1>1. CASE UNCHANGED dmaVars
  <2>1. TypeOK' /\ ArgsOK'
    BY <1>1 DEF IndInv, TypeOK, ArgsOK, dmaVars, taskVars, kernelVars, reqVars, hwVars
  <2>2. \A d \in Channel : ChanSame(d) /\ TasksSame(d)
    BY <1>1 DEF ChanSame, TasksSame, dmaVars, taskVars, kernelVars, reqVars, hwVars
  <2>3. \A d \in Channel : ChanOK(d)'
    BY <2>2, Frame
  <2>. QED  BY <2>1, <2>3 DEF IndInv
<1>2. ASSUME NEW t \in Task, NU_DMA_Data_Transfer(t) PROVE IndInv'
  BY <1>2, EnterStep DEF NU_DMA_Data_Transfer
<1>3. ASSUME NEW t \in Task, Timeout(t) PROVE IndInv'
  BY <1>3, TimeoutStep
<1>4. ASSUME NEW t \in Task, TaskStep(t) PROVE IndInv'
  BY <1>4, SetupStep, AwaitStep, SyncReturnStep DEF TaskStep
<1>5. ASSUME NEW c \in Channel, StreamDone(c) \/ StreamError(c) \/ Interrupt(c)
      PROVE  IndInv'
  BY <1>5, HardwareSteps, HisrStep DEF Interrupt
<1>. QED  BY <1>1, <1>2, <1>3, <1>4, <1>5 DEF Next

LEMMA Invariant ==
  ASSUME SyncIsSingle
  PROVE  Spec => []IndInv
<1>1. IndInv /\ [Next]_dmaVars => IndInv'
  BY IndInvStep
<1>. QED  BY <1>1, IndInvInit, PTL DEF Spec

\* The types of the variables, for any tasks, channels, errors and calls with
\* single synchronous requests.
THEOREM TypesHold ==
  ASSUME SyncIsSingle
  PROVE  Spec => []TypeOK
<1>1. IndInv => TypeOK
  BY DEF IndInv
<1>. QED  BY <1>1, Invariant, PTL

\* The semaphore of every channel is released exactly once for every time it is
\* taken, by the caller or by the HISR, and nobody waits for a free channel.
THEOREM SemaphoreAccounted ==
  ASSUME SyncIsSingle
  PROVE  Spec => []ChannelBalance
<1>1. IndInv => ChannelBalance
  <2> SUFFICES ASSUME IndInv, NEW c \in Channel
               PROVE  /\ chan_semaphore[c] + Cardinality(Users(c))
                           + (IF Background(c) THEN 1 ELSE 0) = 1
                      /\ waiting[c] # <<>> => chan_semaphore[c] = 0
    BY DEF ChannelBalance
  <2>1. OwnerOK(c) /\ WaitOK(c)
    BY DEF IndInv, ChanOK
  <2>2. CASE Users(c) = {}
    <3>1. Cardinality(Users(c)) = 0
      BY <2>2, FS_EmptySet
    <3>2. Background(c) <=> chan_semaphore[c] = 0
      BY <2>1, <2>2 DEF OwnerOK
    <3>. QED  BY <2>1, <3>1, <3>2 DEF OwnerOK, WaitOK
  <2>3. CASE Users(c) # {}
    <3>1. PICK t \in Users(c) : Users(c) = {t}
      BY <2>1, <2>3 DEF OwnerOK
    <3>2. Cardinality(Users(c)) = 1
      BY <3>1, FS_Singleton
    <3>3. ~Background(c) /\ chan_semaphore[c] = 0
      BY <2>1, <2>3 DEF OwnerOK
    <3>. QED  BY <3>2, <3>3
  <2>. QED  BY <2>2, <2>3
<1>. QED  BY <1>1, Invariant, PTL

\* The request list of a channel never loops, and whenever DMA_Tgt_HISR runs or
\* is due it finds the request it dereferences.
THEOREM HisrFindsRequest ==
  ASSUME SyncIsSingle
  PROVE  Spec => []RequestQueued
<1>1. IndInv => RequestQueued
  BY DEF IndInv, ChanOK, StreamOK, RequestQueued
<1>. QED  BY <1>1, Invariant, PTL

\* No call reprograms a stream that is running or has an interrupt pending.
THEOREM StreamAtRestBeforeSetup ==
  ASSUME SyncIsSingle
  PROVE  Spec => []SetupFindsIdle
<1>1. IndInv => SetupFindsIdle
  <2> SUFFICES ASSUME IndInv, NEW t \in Task, pc[t] = "setup"
               PROVE  /\ ~en[arg[t].chan] /\ ~tcif[arg[t].chan] /\ ~hisr[arg[t].chan]
                      /\ chan_req[arg[t].chan] = "none"
    BY DEF SetupFindsIdle
  <2>1. arg[t].chan \in Channel
    BY CallTypes DEF IndInv, TypeOK
  <2>2. StreamOK(arg[t].chan) /\ UserOK(arg[t].chan)
    BY <2>1 DEF IndInv, ChanOK
  <2>3. t \in Users(arg[t].chan)
    BY DEF Users
  <2>. QED  BY <2>2, <2>3 DEF StreamOK, UserOK
<1>. QED  BY <1>1, Invariant, PTL

\* A completion event is never left over for a later call: the synchronous
\* call it is for is waiting for it.
THEOREM EventIsAwaited ==
  ASSUME SyncIsSingle
  PROVE  Spec => []EventHasWaiter
<1>1. IndInv => EventHasWaiter
  <2> SUFFICES ASSUME IndInv, NEW c \in Channel, chan_comp_evt[c] # {}
               PROVE  /\ cur_req_type[c] = "sync" /\ chan_req[c] = "none"
                      /\ \E t \in Task : pc[t] = "wait" /\ arg[t].chan = c
    BY DEF EventHasWaiter
  <2>1. UserOK(c)
    BY DEF IndInv, ChanOK
  <2>2. PICK t \in Users(c) : pc[t] = "wait"
    BY <2>1 DEF UserOK
  <2>. QED  BY <2>1, <2>2 DEF UserOK, Users
<1>. QED  BY <1>1, Invariant, PTL

\* When a channel is free the requests of its last transfer were executed, all
\* of them, once each and in order.
THEOREM AllRequestsExecuted ==
  ASSUME SyncIsSingle
  PROVE  Spec => []RequestsInOrder
<1>1. IndInv => RequestsInOrder
  <2> SUFFICES ASSUME IndInv, NEW c \in Channel, chan_semaphore[c] = 1
               PROVE  /\ executed[c] = [i \in 1 .. Len(executed[c]) |-> i]
                      /\ cur_req_length[c] = 0
    BY DEF RequestsInOrder
  <2>1. StreamOK(c)
    BY DEF IndInv, ChanOK
  <2>2. chan_req[c] = "none"
    BY FreeIsIdle
  <2>. QED  BY <2>1, <2>2 DEF StreamOK
<1>. QED  BY <1>1, Invariant, PTL
=============================================================================
