-------------------------- MODULE IfSpiLink_proofs --------------------------
(* Proofs about IfSpiLink for every pool size, buffer size and packet size. *)
EXTENDS IfSpiLink, Integers, FiniteSetTheorems, FunctionTheorems,
        SequenceTheorems, TLAPS

-----------------------------------------------------------------------------
(* The chains the stack builds *)

LEMMA DivFloor ==
  ASSUME NEW a \in Nat, NEW b \in Nat \ {0}
  PROVE  (a \div b) \in Nat /\ (a \div b) * b <= a
  OBVIOUS

LEMMA TimesMonotone ==
  ASSUME NEW x \in Nat, NEW y \in Nat, NEW m \in Nat, x <= y
  PROVE  x * m <= y * m
  <1>1. PICK d \in Nat : y = x + d
    BY y - x \in Nat
  <1>2. y * m = x * m + d * m /\ d * m >= 0
    BY <1>1
  <1>3. x * m \in Nat /\ d * m \in Nat
    BY <1>1
  <1> QED
    BY <1>2, <1>3

\* ChainOf never gives a buffer a negative length: MEM_Buffer_Chain_Dequeue
\* links only as many buffers as MEM_Copy_Data fills.
LEMMA ChainOfType ==
  ASSUME NEW n \in Nat \ {0}
  PROVE  ChainOf(n) \in Seq(Nat) /\ ChainOf(n) # <<>>
  <1> DEFINE K == ChildBuffers(n)
  <1>1. K \in Nat /\ K * NET_MAX_BUFFER_SIZE <= n + BUFHDR_SIZE - 1
    BY DivFloor, SizesAssumption, n + BUFHDR_SIZE - 1 \in Nat,
       NET_MAX_BUFFER_SIZE \in Nat \ {0}
       DEF ChildBuffers, NET_MAX_BUFFER_SIZE
  <1>2. ASSUME NEW i \in 2 .. K + 1
        PROVE  n - NET_PARENT_BUFFER_SIZE - (i - 2) * NET_MAX_BUFFER_SIZE \in Nat
    <2>1. NET_MAX_BUFFER_SIZE \in Nat /\ i - 1 \in Nat /\ i - 2 \in Nat
      BY <1>1, SizesAssumption DEF NET_MAX_BUFFER_SIZE
    <2>2. (i - 1) * NET_MAX_BUFFER_SIZE <= K * NET_MAX_BUFFER_SIZE
      BY <1>1, <2>1, TimesMonotone
    <2>3. (i - 1) * NET_MAX_BUFFER_SIZE
            = (i - 2) * NET_MAX_BUFFER_SIZE + NET_MAX_BUFFER_SIZE
      BY <2>1
    <2>4. (i - 2) * NET_MAX_BUFFER_SIZE \in Nat
           /\ K * NET_MAX_BUFFER_SIZE \in Nat
      BY <2>1, <1>1
    <2> HIDE DEF K
    <2> QED
      BY <2>2, <2>3, <2>4, <1>1, SizesAssumption DEF NET_MAX_BUFFER_SIZE
  <1>3. \A i \in 1 .. K + 1 : ChainOf(n)[i] \in Nat
    <2> TAKE i \in 1 .. K + 1
    <2>1. CASE i = 1
      BY <2>1, <1>1, SizesAssumption DEF ChainOf, AtMost
    <2>2. CASE i # 1
      BY <2>2, <1>1, <1>2, SizesAssumption
         DEF ChainOf, AtMost, NET_MAX_BUFFER_SIZE
    <2> QED BY <2>1, <2>2
  <1>4. ChainOf(n) \in [1 .. K + 1 -> Nat] /\ K + 1 \in Nat \ {0}
    BY <1>1, <1>3 DEF ChainOf
  <1> HIDE DEF K
  <1> QED
    BY <1>4

LEMMA ChainsType == Chains \subseteq Seq(Nat) \ {<<>>}
  <1>1. \A n \in PacketSizes : ChainOf(n) \in Seq(Nat) /\ ChainOf(n) # <<>>
    BY ChainOfType, SizesAssumption
  <1> QED
    BY <1>1 DEF Chains

-----------------------------------------------------------------------------
(* Type correctness *)

LEMMA FrameTypes ==
  /\ NU_NULL \in BufRef
  /\ IFSPI_FRAME_BLANK \in Frame
  /\ \A e \in Endpoint : Peer(e) \in Endpoint
  BY DEF NU_NULL, BufRef, IFSPI_FRAME_BLANK, Frame, Peer, Endpoint

\* The head packet with its clamped length written back.
Rewritten(pkt, k) ==
  [id |-> pkt.id, lens |-> [pkt.lens EXCEPT ![k] = Clamp(pkt.lens[k])]]

\* Writing a clamped length back keeps a chain a chain.
LEMMA ClampType ==
  ASSUME NEW pkt \in Packet, NEW k \in 1 .. Len(pkt.lens)
  PROVE  /\ Clamp(pkt.lens[k]) \in Nat
         /\ Clamp(pkt.lens[k]) <= IF_SPI_BUF_SIZE
         /\ Rewritten(pkt, k) \in Packet
         /\ Rewritten(pkt, k).id = pkt.id
         /\ Len(Rewritten(pkt, k).lens) = Len(pkt.lens)
  <1>1. /\ pkt.lens \in Seq(Nat) /\ pkt.lens # <<>> /\ pkt.lens[k] \in Nat
        /\ pkt.id \in Nat \ {0}
    BY DEF Packet
  <1>2. Clamp(pkt.lens[k]) \in Nat /\ Clamp(pkt.lens[k]) <= IF_SPI_BUF_SIZE
    BY <1>1, SizesAssumption DEF Clamp, AtMost, IF_SPI_BUF_SIZE
  <1> DEFINE ls == [pkt.lens EXCEPT ![k] = Clamp(pkt.lens[k])]
  <1>3. ls \in Seq(Nat) /\ Len(ls) = Len(pkt.lens) /\ ls # <<>>
    BY <1>1, <1>2
  <1>4. Rewritten(pkt, k) = [id |-> pkt.id, lens |-> ls]
    BY DEF Rewritten
  <1> HIDE DEF ls
  <1> QED
    BY <1>1, <1>2, <1>3, <1>4 DEF Packet

\* SendSegment with its parts spelled out: pkt is the head packet, rest the
\* packets behind it.
SendSegmentEffect(e, k, fs, pkt, rest) ==
  /\ pkt = Head(transq[e]) /\ rest = Tail(transq[e])
  /\ Len(pkt.lens) \in Nat
  /\ tx_frame' = [tx_frame EXCEPT ![e] =
       [FS |-> fs, len |-> Clamp(pkt.lens[k]),
        data |-> [id |-> pkt.id, seg |-> k]]]
  /\ \/ /\ k < Len(pkt.lens)
        /\ buf_ptr' = [buf_ptr EXCEPT ![e] = [id |-> pkt.id, seg |-> k + 1]]
        /\ transq' = [transq EXCEPT ![e] =
             <<Rewritten(pkt, k)>> \o rest]
        /\ free' = free
     \/ /\ k = Len(pkt.lens)
        /\ buf_ptr' = [buf_ptr EXCEPT ![e] = NU_NULL]
        /\ transq' = [transq EXCEPT ![e] = rest]
        /\ free' = [free EXCEPT ![e] = @ + Len(pkt.lens)]

LEMMA SendSegmentStep ==
  ASSUME TypeOK, NEW e \in Endpoint, NEW k \in Nat, NEW fs \in BOOLEAN,
         transq[e] # <<>>, SendSegment(e, k, fs)
  PROVE  \E pkt \in Packet, rest \in Seq(Packet) :
           SendSegmentEffect(e, k, fs, pkt, rest)
  <1>1. /\ Head(transq[e]) \in Packet /\ Tail(transq[e]) \in Seq(Packet)
        /\ Len(Head(transq[e]).lens) \in Nat
    <2>1. Head(transq[e]) \in Packet /\ Tail(transq[e]) \in Seq(Packet)
      BY DEF TypeOK
    <2>2. Head(transq[e]).lens \in Seq(Nat)
      BY <2>1 DEF Packet
    <2> QED BY <2>1, <2>2
  <1>2. SendSegmentEffect(e, k, fs, Head(transq[e]), Tail(transq[e]))
    BY <1>1 DEF SendSegment, SendSegmentEffect, DEV_Recover_TX_Buffers, Rewritten
  <1> QED
    BY <1>1, <1>2

\* What SendSegment leaves in the frame, the pointer and the queue.
LEMMA SendSegmentType ==
  ASSUME TypeOK, NEW e \in Endpoint, NEW k \in Nat, NEW fs \in BOOLEAN,
         transq[e] # <<>>, k \in 1 .. Len(Head(transq[e]).lens),
         SendSegment(e, k, fs)
  PROVE  /\ tx_frame' \in [Endpoint -> Frame]
         /\ buf_ptr' \in [Endpoint -> BufRef]
         /\ transq' \in [Endpoint -> Seq(Packet)]
         /\ free' \in [Endpoint -> Nat]
  <1>1. PICK pkt \in Packet, rest \in Seq(Packet) :
          SendSegmentEffect(e, k, fs, pkt, rest)
    BY SendSegmentStep
  <1> DEFINE len == Clamp(pkt.lens[k])
             new == Rewritten(pkt, k)
  <1>2. k \in 1 .. Len(pkt.lens)
    BY <1>1 DEF SendSegmentEffect
  <1>3. len \in Nat /\ new \in Packet /\ pkt.id \in Nat
    BY <1>2, ClampType DEF Packet
  <1> HIDE DEF len, new
  <1>4. <<new>> \o rest \in Seq(Packet)
    BY <1>3
  <1>5. tx_frame' \in [Endpoint -> Frame]
    <2>1. [FS |-> fs, len |-> len, data |-> [id |-> pkt.id, seg |-> k]] \in Frame
      BY <1>3 DEF Frame, BufRef
    <2>2. tx_frame' = [tx_frame EXCEPT ![e] =
            [FS |-> fs, len |-> len, data |-> [id |-> pkt.id, seg |-> k]]]
      BY <1>1 DEF SendSegmentEffect, len
    <2> QED
      BY <2>1, <2>2 DEF TypeOK
  <1>6. buf_ptr' \in [Endpoint -> BufRef]
    <2>1. [id |-> pkt.id, seg |-> k + 1] \in BufRef
      BY <1>3 DEF BufRef
    <2>2. \/ buf_ptr' = [buf_ptr EXCEPT ![e] = [id |-> pkt.id, seg |-> k + 1]]
          \/ buf_ptr' = [buf_ptr EXCEPT ![e] = NU_NULL]
      BY <1>1 DEF SendSegmentEffect
    <2> QED
      BY <2>1, <2>2, FrameTypes DEF TypeOK
  <1>7. transq' \in [Endpoint -> Seq(Packet)]
    <2>1. \/ transq' = [transq EXCEPT ![e] = <<new>> \o rest]
          \/ transq' = [transq EXCEPT ![e] = rest]
      BY <1>1 DEF SendSegmentEffect, new, len
    <2> QED
      BY <2>1, <1>4 DEF TypeOK
  <1>8. free' \in [Endpoint -> Nat]
    <2>1. /\ Len(pkt.lens) \in Nat
          /\ free' = free \/ free' = [free EXCEPT ![e] = @ + Len(pkt.lens)]
      BY <1>1 DEF SendSegmentEffect
    <2>2. free \in [Endpoint -> Nat] /\ free[e] + Len(pkt.lens) \in Nat
      BY <2>1 DEF TypeOK
    <2> QED
      BY <2>1, <2>2
  <1> QED
    BY <1>5, <1>6, <1>7, <1>8

\* TypeOK is preserved by every step; the transmit steps need the pointer of
\* the task to be live.
LEMMA TypeStep ==
  ASSUME TypeOK, TxPointerLive, [Next]_vars
  PROVE  TypeOK'
  <1> USE FrameTypes
  <1>1. CASE Exchange
    BY <1>1 DEF Exchange, TypeOK, stackVars
  <1>2. ASSUME NEW e \in Endpoint, IFSPI_Task(e)
        PROVE  TypeOK'
    <2>1. CASE TxBlank(e)
      BY <2>1 DEF TxBlank, TypeOK, stackVars
    <2>2. CASE TxFirst(e)
      <3>1. 1 \in 1 .. Len(Head(transq[e]).lens)
        <4>1. Head(transq[e]) \in Packet
          BY <2>2 DEF TxFirst, TypeOK
        <4>2. /\ Head(transq[e]).lens \in Seq(Nat)
              /\ Head(transq[e]).lens # <<>>
          BY <4>1 DEF Packet
        <4> QED BY <4>2
      <3> QED
        BY <2>2, <3>1, SendSegmentType DEF TxFirst, TypeOK
    <2>3. CASE TxNext(e)
      <3>1. /\ transq[e] # <<>>
            /\ buf_ptr[e].seg \in 1 .. Len(Head(transq[e]).lens)
            /\ buf_ptr[e].seg \in Nat
        BY <2>3 DEF TxNext, TxPointerLive, TypeOK, BufRef, Packet
      <3> QED
        BY <2>3, <3>1, SendSegmentType DEF TxNext, TypeOK
    <2>4. CASE TxEmpty(e)
      BY <2>4 DEF TxEmpty, TypeOK, stackVars
    <2>5. CASE RxDispatch(e)
      <3>1. [total |-> pktSize[e], chain |-> headP[e]] \in Received
        BY DEF TypeOK, Received
      <3> QED
        BY <2>5, <3>1 DEF RxDispatch, TypeOK
    <2>6. CASE RxNotify(e)
      BY <2>6 DEF RxNotify, TypeOK
    <2>7. CASE RxFirst(e)
      <3>1. RxSegment(e) \in Segment /\ rx_frame[e].len \in Nat
        BY DEF RxSegment, Segment, TypeOK, Frame
      <3>2. [rx_frame[e] EXCEPT !.FS = FALSE] \in Frame
        BY DEF TypeOK, Frame
      <3> QED
        <4>1. rx_frame' \in [Endpoint -> Frame]
          BY <2>7, <3>2 DEF RxFirst, TypeOK
        <4>2. free' \in [Endpoint -> Nat]
          BY <2>7 DEF RxFirst, TypeOK, MEM_Buffer_Dequeue
        <4>3. <<RxSegment(e)>> \in Seq(Segment)
          BY <3>1
        <4>4. /\ headP' \in [Endpoint -> Seq(Segment)]
              /\ pktSize' \in [Endpoint -> Nat]
          <5>1. CASE Usable(e)
            <6>1. /\ headP' = [headP EXCEPT ![e] = <<RxSegment(e)>>]
                  /\ pktSize' = [pktSize EXCEPT ![e] = rx_frame[e].len]
              BY <2>7, <5>1 DEF RxFirst
            <6>2. /\ headP \in [Endpoint -> Seq(Segment)]
                  /\ pktSize \in [Endpoint -> Nat]
              BY DEF TypeOK
            <6> QED
              BY <6>1, <6>2, <3>1, <4>3
          <5>2. CASE ~Usable(e)
            BY <2>7, <5>2 DEF RxFirst, TypeOK
          <5> QED BY <5>1, <5>2
        <4> QED
          BY <2>7, <4>1, <4>2, <4>4 DEF RxFirst, TypeOK, EndPass
    <2>8. CASE RxNext(e)
      <3>1. RxSegment(e) \in Segment /\ rx_frame[e].len \in Nat
        BY DEF RxSegment, Segment, TypeOK, Frame
      <3> QED
        <4>1. free' \in [Endpoint -> Nat]
          BY <2>8 DEF RxNext, TypeOK, MEM_Buffer_Dequeue
        <4>2. headP[e] \in Seq(Segment) /\ pktSize[e] + rx_frame[e].len \in Nat
          BY <3>1 DEF TypeOK
        <4>3. Append(headP[e], RxSegment(e)) \in Seq(Segment)
          BY <3>1, <4>2
        <4>4. /\ headP' \in [Endpoint -> Seq(Segment)]
              /\ pktSize' \in [Endpoint -> Nat]
          <5>1. CASE Usable(e)
            <6>1. /\ headP' = [headP EXCEPT ![e] = Append(headP[e], RxSegment(e))]
                  /\ pktSize' = [pktSize EXCEPT ![e] =
                                   pktSize[e] + rx_frame[e].len]
              BY <2>8, <5>1 DEF RxNext
            <6>2. /\ headP \in [Endpoint -> Seq(Segment)]
                  /\ pktSize \in [Endpoint -> Nat]
              BY DEF TypeOK
            <6> QED
              BY <6>1, <6>2, <4>2, <4>3
          <5>2. CASE ~Usable(e)
            BY <2>8, <5>2 DEF RxNext, TypeOK
          <5> QED BY <5>1, <5>2
        <4> QED
          BY <2>8, <4>1, <4>4 DEF RxNext, TypeOK, EndPass
    <2>9. CASE RxIgnore(e)
      BY <2>9 DEF RxIgnore, TypeOK, EndPass, stackVars
    <2>10. CASE Wake(e)
      BY <2>10 DEF Wake, TypeOK, stackVars
    <2> QED
      BY <1>2, <2>1, <2>2, <2>3, <2>4, <2>5, <2>6, <2>7, <2>8, <2>9, <2>10
         DEF IFSPI_Task
  <1>3. ASSUME NEW e \in Endpoint, NET_Demux(e)
        PROVE  TypeOK'
    <2>1. CASE DemuxInput(e)
      <3>1. /\ Head(MEM_Buffer_List[e]) \in Received
            /\ Tail(MEM_Buffer_List[e]) \in Seq(Received)
        BY <2>1 DEF DemuxInput, TypeOK
      <3>2. Len(Head(MEM_Buffer_List[e]).chain) \in Nat
        BY <3>1 DEF Received
      <3> QED
        <4>1. free' \in [Endpoint -> Nat]
          BY <2>1, <3>2 DEF DemuxInput, TypeOK
        <4>2. Append(received[e], Head(MEM_Buffer_List[e])) \in Seq(Received)
          BY <3>1 DEF TypeOK
        <4>3. /\ received' \in [Endpoint -> Seq(Received)]
              /\ MEM_Buffer_List' \in [Endpoint -> Seq(Received)]
          BY <2>1, <3>1, <4>2 DEF DemuxInput, TypeOK
        <4> QED
          BY <2>1, <4>1, <4>3 DEF DemuxInput, TypeOK, taskVars
    <2>2. CASE DemuxEmpty(e)
      BY <2>2 DEF DemuxEmpty, TypeOK, taskVars, stackVars
    <2>3. CASE DemuxWake(e)
      BY <2>3 DEF DemuxWake, TypeOK, taskVars
    <2> QED
      BY <1>3, <2>1, <2>2, <2>3 DEF NET_Demux
  <1>4. ASSUME NEW e \in Endpoint, ETH_Ether_Send(e)
        PROVE  TypeOK'
    <2>1. PICK lens \in Chains :
            /\ Len(lens) <= free[e]
            /\ free' = [free EXCEPT ![e] = @ - Len(lens)]
            /\ transq' = [transq EXCEPT ![e] =
                            Append(@, [id |-> Len(sent[e]) + 1, lens |-> lens])]
            /\ sent' = [sent EXCEPT ![e] = Append(@, lens)]
      BY <1>4 DEF ETH_Ether_Send
    <2>2. lens \in Seq(Nat) \ {<<>>} /\ Len(lens) \in Nat
      BY ChainsType
    <2>3. [id |-> Len(sent[e]) + 1, lens |-> lens] \in Packet
      BY <2>2 DEF Packet, TypeOK
    <2>4. /\ free' \in [Endpoint -> Nat]
          /\ transq' \in [Endpoint -> Seq(Packet)]
          /\ sent' \in [Endpoint -> Seq(Seq(Nat))]
      BY <2>1, <2>2, <2>3 DEF TypeOK
    <2> QED
      BY <1>4, <2>4 DEF ETH_Ether_Send, TypeOK, taskVars
  <1>5. CASE UNCHANGED vars
    BY <1>5 DEF vars, taskVars, stackVars, TypeOK
  <1> QED
    BY <1>1, <1>2, <1>3, <1>4, <1>5 DEF Next

-----------------------------------------------------------------------------
(* The pointer of the task *)

\* The pointer after SendSegment, and the head it refers to.
LEMMA SendSegmentPointer ==
  ASSUME TypeOK, TxPointerLive, NEW e \in Endpoint, NEW k \in Nat,
         NEW fs \in BOOLEAN, transq[e] # <<>>,
         k \in 1 .. Len(Head(transq[e]).lens), SendSegment(e, k, fs)
  PROVE  TxPointerLive'
  <1>1. PICK pkt \in Packet, rest \in Seq(Packet) :
          SendSegmentEffect(e, k, fs, pkt, rest)
    BY SendSegmentStep
  <1>2. k \in 1 .. Len(pkt.lens) /\ Len(pkt.lens) \in Nat
    BY <1>1 DEF SendSegmentEffect
  <1>3. /\ Rewritten(pkt, k) \in Packet
        /\ Rewritten(pkt, k).id = pkt.id
        /\ Len(Rewritten(pkt, k).lens) = Len(pkt.lens)
    BY <1>2, ClampType
  <1>4. /\ transq \in [Endpoint -> Seq(Packet)]
        /\ buf_ptr \in [Endpoint -> BufRef]
    BY DEF TypeOK
  <1>5. ASSUME NEW f \in Endpoint, f # e
        PROVE  buf_ptr'[f] = buf_ptr[f] /\ transq'[f] = transq[f]
    BY <1>1, <1>4, <1>5 DEF SendSegmentEffect
  <1>6. CASE k < Len(pkt.lens)
    <2>1. /\ transq'[e] = <<Rewritten(pkt, k)>> \o rest
          /\ buf_ptr'[e] = [id |-> pkt.id, seg |-> k + 1]
      BY <1>1, <1>4, <1>6 DEF SendSegmentEffect
    <2>2. transq'[e] # <<>> /\ Head(transq'[e]) = Rewritten(pkt, k)
      BY <2>1, <1>3
    <2>3. /\ buf_ptr'[e].id = Head(transq'[e]).id
          /\ buf_ptr'[e].seg \in 2 .. Len(Head(transq'[e]).lens)
      BY <2>1, <2>2, <1>2, <1>3, <1>6
    <2> QED
      BY <1>5, <2>2, <2>3 DEF TxPointerLive
  <1>7. CASE k = Len(pkt.lens)
    <2>1. buf_ptr'[e] = NU_NULL
      BY <1>1, <1>4, <1>7 DEF SendSegmentEffect
    <2> QED
      BY <1>5, <2>1 DEF TxPointerLive
  <1> QED
    BY <1>2, <1>6, <1>7

LEMMA PointerStep ==
  ASSUME TypeOK, TxPointerLive, [Next]_vars
  PROVE  TxPointerLive'
  <1>1. ASSUME NEW e \in Endpoint, TxFirst(e)
        PROVE  TxPointerLive'
    <2>1. Head(transq[e]) \in Packet /\ transq[e] # <<>>
      BY <1>1 DEF TxFirst, TypeOK
    <2>2. /\ Head(transq[e]).lens \in Seq(Nat)
          /\ Head(transq[e]).lens # <<>>
      BY <2>1 DEF Packet
    <2>3. 1 \in 1 .. Len(Head(transq[e]).lens)
      BY <2>2
    <2> QED
      BY <1>1, <2>1, <2>3, SendSegmentPointer DEF TxFirst
  <1>2. ASSUME NEW e \in Endpoint, TxNext(e)
        PROVE  TxPointerLive'
    <2>1. /\ transq[e] # <<>>
          /\ buf_ptr[e].seg \in 1 .. Len(Head(transq[e]).lens)
          /\ buf_ptr[e].seg \in Nat
      BY <1>2 DEF TxNext, TxPointerLive, TypeOK, BufRef
    <2> QED
      BY <1>2, <2>1, SendSegmentPointer DEF TxNext
  <1>3. ASSUME NEW e \in Endpoint, ETH_Ether_Send(e)
        PROVE  TxPointerLive'
    <2>1. PICK lens \in Chains :
            transq' = [transq EXCEPT ![e] =
                         Append(@, [id |-> Len(sent[e]) + 1, lens |-> lens])]
      BY <1>3 DEF ETH_Ether_Send
    <2>2. transq \in [Endpoint -> Seq(Packet)] /\ buf_ptr' = buf_ptr
      BY <1>3 DEF ETH_Ether_Send, TypeOK, taskVars
    <2>3. lens \in Seq(Nat) \ {<<>>} /\ Len(sent[e]) + 1 \in Nat \ {0}
      BY ChainsType DEF TypeOK
    <2>4. [id |-> Len(sent[e]) + 1, lens |-> lens] \in Packet
      BY <2>3 DEF Packet
    <2>5. \A f \in Endpoint :
            transq[f] # <<>> => /\ transq'[f] # <<>>
                                /\ Head(transq'[f]) = Head(transq[f])
      BY <2>1, <2>2, <2>4
    <2> QED
      BY <2>2, <2>5 DEF TxPointerLive
  <1>4. CASE UNCHANGED <<transq, buf_ptr>>
    BY <1>4 DEF TxPointerLive
  <1> QED
    BY <1>1, <1>2, <1>3, <1>4
       DEF Next, IFSPI_Task, NET_Demux, Exchange, TxBlank, TxEmpty, RxDispatch,
           RxNotify, RxFirst, RxNext, RxIgnore, Wake, DemuxInput, DemuxEmpty,
           DemuxWake, taskVars, stackVars, vars

LEMMA InitTyped == Init => TypeOK /\ TxPointerLive
  BY SizesAssumption, FrameTypes DEF Init, TypeOK, TxPointerLive

\* Every variable keeps its type, and the task's pointer always refers to a
\* live buffer of the packet at the head of the transmit queue.
THEOREM PointerIsLive == Spec => [](TypeOK /\ TxPointerLive)
  <1>1. TypeOK /\ TxPointerLive /\ [Next]_vars => (TypeOK /\ TxPointerLive)'
    BY TypeStep, PointerStep
  <1> QED
    BY InitTyped, <1>1, PTL DEF Spec

-----------------------------------------------------------------------------
(* Frames on the wire *)

LEMMA WireStep ==
  ASSUME TypeOK, TxPointerLive, WireFits, [Next]_vars
  PROVE  WireFits'
  <1> DEFINE Size == IF_SPI_BUF_SIZE
  <1>0. /\ tx_frame \in [Endpoint -> Frame] /\ rx_frame \in [Endpoint -> Frame]
        /\ Size \in Nat /\ 0 <= Size
    BY SizesAssumption DEF TypeOK, IF_SPI_BUF_SIZE
  <1>1. ASSUME NEW e \in Endpoint, NEW k \in Nat, NEW fs \in BOOLEAN,
               transq[e] # <<>>, k \in 1 .. Len(Head(transq[e]).lens),
               SendSegment(e, k, fs), rx_frame' = rx_frame
        PROVE  WireFits'
    <2>1. PICK pkt \in Packet, rest \in Seq(Packet) :
            SendSegmentEffect(e, k, fs, pkt, rest)
      BY <1>1, SendSegmentStep
    <2>2. Clamp(pkt.lens[k]) <= Size
      BY <1>1, <2>1, ClampType DEF SendSegmentEffect
    <2>3. /\ tx_frame'[e].len = Clamp(pkt.lens[k])
          /\ \A f \in Endpoint : f # e => tx_frame'[f] = tx_frame[f]
      BY <1>0, <2>1 DEF SendSegmentEffect
    <2> QED
      BY <1>1, <2>2, <2>3 DEF WireFits
  <1>2. ASSUME NEW e \in Endpoint, TxFirst(e) \/ TxNext(e)
        PROVE  WireFits'
    <2>1. CASE TxFirst(e)
      <3>1. Head(transq[e]) \in Packet /\ transq[e] # <<>>
        BY <2>1 DEF TxFirst, TypeOK
      <3>2. /\ Head(transq[e]).lens \in Seq(Nat)
            /\ Head(transq[e]).lens # <<>>
        BY <3>1 DEF Packet
      <3>3. 1 \in 1 .. Len(Head(transq[e]).lens)
        BY <3>2
      <3> QED
        BY <2>1, <3>1, <3>3, <1>1 DEF TxFirst
    <2>2. CASE TxNext(e)
      <3>1. /\ transq[e] # <<>>
            /\ buf_ptr[e].seg \in 1 .. Len(Head(transq[e]).lens)
            /\ buf_ptr[e].seg \in Nat
        BY <2>2 DEF TxNext, TxPointerLive, TypeOK, BufRef
      <3> QED
        BY <2>2, <3>1, <1>1 DEF TxNext
    <2> QED
      BY <1>2, <2>1, <2>2
  <1>3. ASSUME NEW e \in Endpoint, TxBlank(e) \/ TxEmpty(e)
        PROVE  WireFits'
    <2>1. /\ rx_frame' = rx_frame
          /\ tx_frame' = [tx_frame EXCEPT ![e] = IFSPI_FRAME_BLANK]
      BY <1>3 DEF TxBlank, TxEmpty
    <2> QED
      BY <1>0, <2>1 DEF WireFits, IFSPI_FRAME_BLANK
  <1>4. CASE Exchange
    BY <1>4, <1>0, FrameTypes DEF Exchange, WireFits
  <1>5. ASSUME NEW e \in Endpoint, RxFirst(e)
        PROVE  WireFits'
    BY <1>5, <1>0 DEF RxFirst, WireFits, Frame
  <1>6. CASE UNCHANGED <<tx_frame, rx_frame>>
    BY <1>6 DEF WireFits
  <1> QED
    BY <1>2, <1>3, <1>4, <1>5, <1>6
       DEF Next, IFSPI_Task, NET_Demux, ETH_Ether_Send, RxDispatch, RxNotify,
           RxNext, RxIgnore, Wake, DemuxInput, DemuxEmpty, DemuxWake, taskVars,
           stackVars, vars

\* For every buffer and packet size, no frame announces more data than it
\* holds, so the receiving task never drops a buffer it has dequeued.
THEOREM WireAlwaysFits == Spec => []WireFits
  <1>1. Init => WireFits
    BY SizesAssumption DEF Init, WireFits, IFSPI_FRAME_BLANK, IF_SPI_BUF_SIZE
  <1>2. TypeOK /\ TxPointerLive /\ WireFits /\ [Next]_vars => WireFits'
    BY WireStep
  <1> QED
    BY <1>1, <1>2, PointerIsLive, PTL DEF Spec

-----------------------------------------------------------------------------
(* The wake-up of NET_Demux *)

\* For every pool and any traffic, NET_Demux never sleeps over a packet on its
\* list without a pending or imminent event.
THEOREM NeverSleepsOverPacket == Spec => []NoLostWakeup
  <1>1. Init => NoLostWakeup
    BY DEF Init, NoLostWakeup
  <1>2. TypeOK /\ NoLostWakeup /\ [Next]_vars => NoLostWakeup'
    <2> SUFFICES ASSUME TypeOK, NoLostWakeup, [Next]_vars
                 PROVE  NoLostWakeup'
      OBVIOUS
    <2> USE DEF NoLostWakeup, TypeOK
    <2>1. CASE Exchange
      BY <2>1 DEF Exchange, stackVars
    <2>2. ASSUME NEW e \in Endpoint, IFSPI_Task(e)
          PROVE  NoLostWakeup'
      <3>1. CASE RxDispatch(e)
        BY <3>1 DEF RxDispatch
      <3>2. CASE RxNotify(e)
        BY <3>2 DEF RxNotify
      <3>3. CASE /\ UNCHANGED <<MEM_Buffer_List, bufs_available, demux>>
                 /\ pc[e] # "notify"
                 /\ \A f \in Endpoint : f # e => pc'[f] = pc[f]
        BY <3>3
      <3> QED
        BY <2>2, <3>1, <3>2, <3>3
           DEF IFSPI_Task, TxBlank, TxFirst, TxNext, TxEmpty, RxFirst, RxNext,
               RxIgnore, Wake, EndPass, stackVars
    <2>3. ASSUME NEW e \in Endpoint, NET_Demux(e)
          PROVE  NoLostWakeup'
      <3>1. CASE DemuxInput(e)
        BY <3>1 DEF DemuxInput, taskVars
      <3>2. CASE DemuxEmpty(e)
        BY <3>2 DEF DemuxEmpty, taskVars, stackVars
      <3>3. CASE DemuxWake(e)
        BY <3>3 DEF DemuxWake, taskVars
      <3> QED
        BY <2>3, <3>1, <3>2, <3>3 DEF NET_Demux
    <2>4. ASSUME NEW e \in Endpoint, ETH_Ether_Send(e)
          PROVE  NoLostWakeup'
      BY <2>4 DEF ETH_Ether_Send, taskVars
    <2>5. CASE UNCHANGED vars
      BY <2>5 DEF vars, taskVars, stackVars
    <2> QED
      BY <2>1, <2>2, <2>3, <2>4, <2>5 DEF Next
  <1> QED
    BY <1>1, <1>2, PointerIsLive, PTL DEF Spec

-----------------------------------------------------------------------------
(* The link from end e to its peer implements the channel *)

\* The link's inductive invariant follows a packet from the transmit queue of
\* e to the stack of its peer r: each frame is of the queued packet it names,
\* and comes behind everything of it that is further on.

\* A frame with data, and the buffer the data is of.
Filled(f) == f.FS \/ f.len # 0
RefOf(f) == IF Filled(f) THEN f.data ELSE NU_NULL

\* len bytes are what a frame carries of the buffer d refers to.
Carries(e, d, len) ==
  /\ d.id \in 1 .. Len(sent[e])
  /\ d.seg \in 1 .. Len(sent[e][d.id])
  /\ len = Clamp(sent[e][d.id][d.seg])

FrameOK(e, f) ==
  Filled(f) => Carries(e, f.data, f.len) /\ (f.FS <=> f.data.seg = 1)

\* n is a later buffer of the packet d is of.
Continues(d, n) == d.id = n.id /\ d.seg < n.seg

\* r has exchanged frames and not yet handled the one it received.
Handling(r) == pc[r] \in {"rx", "notify"}

HeadId(r)  == headP[r][1].data.id
LastRef(r) == headP[r][Len(headP[r])].data

\* The last buffer the reassembly has, or is about to have.
RcvEnd(r) ==
  IF Handling(r) THEN RefOf(rx_frame[r])
  ELSE IF headP[r] = <<>> THEN NU_NULL ELSE LastRef(r)

\* The last buffer on its way; none if a blank frame is.
SndEnd(e) == IF pc[e] = "xfer" THEN RefOf(tx_frame[e]) ELSE RcvEnd(Peer(e))

\* The packet given to the stack of r last.
LastId(r) ==
  IF GivenToStack(r) = <<>> THEN 0
  ELSE GivenToStack(r)[Len(GivenToStack(r))].chain[1].data.id

\* The packets the task of e has transmitted, and those it has begun.
Done(e)  == Len(sent[e]) - Len(transq[e])
Begun(e) == Done(e) + (IF buf_ptr[e] = NU_NULL THEN 0 ELSE 1)

\* p is the n-th packet sent, but for lengths clamped.
Matches(e, p, n) ==
  /\ p.id = n
  /\ Len(p.lens) = Len(sent[e][n])
  /\ \A k \in 1 .. Len(p.lens) : Clamp(p.lens[k]) = Clamp(sent[e][n][k])

\* The transmit queue has the last packets sent.
QueueOK(e) ==
  /\ Done(e) \in Nat
  /\ \A i \in 1 .. Len(transq[e]) : Matches(e, transq[e][i], Done(e) + i)

\* Nothing is under way or received of packets not begun.
SeenOK(e, r) ==
  /\ LastId(r) \in Nat /\ LastId(r) <= Begun(e)
  /\ headP[r] # <<>> => HeadId(r) <= Begun(e)
  /\ Handling(r) /\ Filled(rx_frame[r]) => rx_frame[r].data.id <= Begun(e)
  /\ pc[e] = "xfer" /\ Filled(tx_frame[e]) => tx_frame[e].data.id <= Begun(e)

\* The packet under reassembly.
HeadOK(e, r) ==
  headP[r] # <<>> =>
    /\ headP[r][1].data.seg = 1
    /\ \A i \in 1 .. Len(headP[r]) :
         /\ Carries(e, headP[r][i].data, headP[r][i].len)
         /\ headP[r][i].data.id = HeadId(r)
         /\ i > 1 => headP[r][i].data.seg > headP[r][i - 1].data.seg
    /\ pc[r] # "notify" => LastId(r) < HeadId(r)

\* The frame received.
RxOK(e, r) ==
  Handling(r) =>
    /\ FrameOK(e, rx_frame[r])
    /\ rx_frame[r].FS => /\ LastId(r) < rx_frame[r].data.id
                         /\ headP[r] # <<>> => HeadId(r) < rx_frame[r].data.id
    /\ Filled(rx_frame[r]) /\ ~rx_frame[r].FS /\ headP[r] # <<>>
         => Continues(LastRef(r), rx_frame[r].data)

\* The frame to transmit.
TxOK(e, r) ==
  pc[e] = "xfer" =>
    /\ FrameOK(e, tx_frame[e])
    /\ tx_frame[e].FS =>
         /\ LastId(r) < tx_frame[e].data.id
         /\ headP[r] # <<>> => HeadId(r) < tx_frame[e].data.id
         /\ Handling(r) /\ Filled(rx_frame[r]) => rx_frame[r].data.id < tx_frame[e].data.id
    /\ Filled(tx_frame[e]) /\ ~tx_frame[e].FS /\ RcvEnd(r) # NU_NULL
         => Continues(RcvEnd(r), tx_frame[e].data)

\* The buffer to transmit next.
PtrOK(e) ==
  buf_ptr[e] # NU_NULL /\ SndEnd(e) # NU_NULL => Continues(SndEnd(e), buf_ptr[e])

Link(e, r) ==
  QueueOK(e) /\ SeenOK(e, r) /\ HeadOK(e, r) /\ RxOK(e, r) /\ TxOK(e, r) /\ PtrOK(e)

-----------------------------------------------------------------------------
(* What the step lemmas share *)

LEMMA EndTypes ==
  ASSUME TypeOK, NEW e \in Endpoint
  PROVE  /\ sent[e] \in Seq(Seq(Nat)) /\ Len(sent[e]) \in Nat
         /\ transq[e] \in Seq(Packet) /\ Len(transq[e]) \in Nat
         /\ buf_ptr[e] \in BufRef /\ tx_frame[e] \in Frame /\ rx_frame[e] \in Frame
         /\ headP[e] \in Seq(Segment) /\ Len(headP[e]) \in Nat
         /\ MEM_Buffer_List[e] \in Seq(Received) /\ received[e] \in Seq(Received)
         /\ GivenToStack(e) \in Seq(Received)
<1>1. /\ sent[e] \in Seq(Seq(Nat)) /\ transq[e] \in Seq(Packet)
      /\ headP[e] \in Seq(Segment)
      /\ MEM_Buffer_List[e] \in Seq(Received) /\ received[e] \in Seq(Received)
      /\ buf_ptr[e] \in BufRef /\ tx_frame[e] \in Frame /\ rx_frame[e] \in Frame
  BY DEF TypeOK
<1>2. GivenToStack(e) \in Seq(Received)
  BY <1>1 DEF GivenToStack
<1> QED
  BY <1>1, <1>2

\* Nothing the link from e to r is about has changed.
Same(e, r) ==
  /\ sent'[e] = sent[e] /\ transq'[e] = transq[e] /\ buf_ptr'[e] = buf_ptr[e]
  /\ tx_frame'[e] = tx_frame[e] /\ (pc'[e] = "xfer" <=> pc[e] = "xfer")
  /\ (pc'[r] \in {"rx", "notify"} <=> pc[r] \in {"rx", "notify"})
  /\ (pc'[r] = "notify" <=> pc[r] = "notify")
  /\ rx_frame'[r] = rx_frame[r] /\ headP'[r] = headP[r]
  /\ GivenToStack(r)' = GivenToStack(r)

LEMMA SameKeeps ==
  ASSUME NEW e, NEW r, r = Peer(e), Link(e, r), Same(e, r)
  PROVE  Link(e, r)'
<1>1. /\ Done(e)' = Done(e) /\ Begun(e)' = Begun(e)
      /\ LastId(r)' = LastId(r) /\ HeadId(r)' = HeadId(r)
      /\ LastRef(r)' = LastRef(r) /\ (Handling(r)' <=> Handling(r))
  BY DEF Same, Done, Begun, LastId, HeadId, LastRef, Handling
<1>2. RcvEnd(r)' = RcvEnd(r)
  BY <1>1 DEF Same, RcvEnd
<1>3. SndEnd(e)' = SndEnd(e)
  BY <1>2 DEF Same, SndEnd
<1>4. \A d, l : Carries(e, d, l)' <=> Carries(e, d, l)
  BY DEF Same, Carries
<1>5. QueueOK(e)'
  BY <1>1 DEF Link, Same, QueueOK, Matches
<1>6. SeenOK(e, r)'
  BY <1>1 DEF Link, Same, SeenOK
<1>7. HeadOK(e, r)'
  BY <1>1, <1>4 DEF Link, Same, HeadOK
<1>8. RxOK(e, r)'
  BY <1>1, <1>4 DEF Link, Same, RxOK, FrameOK
<1>9. TxOK(e, r)'
  BY <1>1, <1>2, <1>4 DEF Link, Same, TxOK, FrameOK
<1>10. PtrOK(e)'
  BY <1>3 DEF Link, Same, PtrOK
<1> QED
  BY <1>5, <1>6, <1>7, <1>8, <1>9, <1>10 DEF Link

LEMMA RefTypes ==
  ASSUME TypeOK, NEW e \in Endpoint, NEW r \in Endpoint, Link(e, r)
  PROVE  /\ headP[r] # <<>> =>
              /\ HeadId(r) \in Nat \ {0} /\ LastRef(r) \in BufRef /\ LastRef(r) # NU_NULL
              /\ LastRef(r).id = HeadId(r)
              /\ 1 \in 1 .. Len(headP[r]) /\ Len(headP[r]) \in 1 .. Len(headP[r])
         /\ rx_frame[r].data \in BufRef /\ tx_frame[e].data \in BufRef
         /\ LastId(r) \in Nat
<1>1. headP[r] \in Seq(Segment) /\ rx_frame[r] \in Frame /\ tx_frame[e] \in Frame
  BY EndTypes
<1>2. rx_frame[r].data \in BufRef /\ tx_frame[e].data \in BufRef
  BY <1>1 DEF Frame
<1>3. ASSUME headP[r] # <<>>
      PROVE  /\ HeadId(r) \in Nat \ {0} /\ LastRef(r) \in BufRef /\ LastRef(r) # NU_NULL
             /\ LastRef(r).id = HeadId(r)
             /\ 1 \in 1 .. Len(headP[r]) /\ Len(headP[r]) \in 1 .. Len(headP[r])
  <2>1. 1 \in 1 .. Len(headP[r]) /\ Len(headP[r]) \in 1 .. Len(headP[r])
    BY <1>1, <1>3, EmptySeq
  <2>2. /\ headP[r][1] \in Segment /\ headP[r][Len(headP[r])] \in Segment
    BY <1>1, <2>1
  <2>3. LastRef(r) \in BufRef /\ headP[r][1].data \in BufRef
    BY <2>2 DEF LastRef, Segment
  <2>4. \A i \in 1 .. Len(headP[r]) : headP[r][i].data.id = HeadId(r)
                                      /\ headP[r][i].data.id \in 1 .. Len(sent[e])
    BY <1>3 DEF Link, HeadOK, Carries
  <2>5. LastRef(r).id = HeadId(r) /\ HeadId(r) \in Nat \ {0}
    BY <2>1, <2>4 DEF LastRef
  <2> QED
    BY <2>1, <2>3, <2>5 DEF NU_NULL
<1> QED
  BY <1>2, <1>3 DEF Link, SeenOK

\* Packets move from MEM_Buffer_List to received without a change of the two
\* together, and a new one comes in at the end.
LEMMA GivenMoves ==
  ASSUME NEW S, NEW a \in Seq(S), NEW b \in Seq(S), b # <<>>
  PROVE  Append(a, Head(b)) \o Tail(b) = a \o b
<1>1. /\ Head(b) \in S /\ Tail(b) \in Seq(S) /\ Head(b) = b[1]
      /\ Len(Tail(b)) = Len(b) - 1 /\ Len(b) \in Nat \ {0} /\ Len(a) \in Nat
      /\ \A i \in 1 .. Len(Tail(b)) : Tail(b)[i] = b[i + 1]
  BY HeadTailProperties
<1>2. /\ Append(a, Head(b)) \in Seq(S) /\ Len(Append(a, Head(b))) = Len(a) + 1
      /\ \A i \in 1 .. Len(a) : Append(a, Head(b))[i] = a[i]
      /\ Append(a, Head(b))[Len(a) + 1] = b[1]
  BY <1>1, AppendProperties
<1> DEFINE c == Append(a, Head(b))
           t == Tail(b)
<1>3. /\ c \o t \in Seq(S) /\ Len(c \o t) = Len(c) + Len(t)
      /\ \A i \in 1 .. Len(c) + Len(t) :
           (c \o t)[i] = IF i <= Len(c) THEN c[i] ELSE t[i - Len(c)]
  BY <1>1, <1>2, ConcatProperties
<1>4. /\ a \o b \in Seq(S) /\ Len(a \o b) = Len(a) + Len(b)
      /\ \A i \in 1 .. Len(a) + Len(b) :
           (a \o b)[i] = IF i <= Len(a) THEN a[i] ELSE b[i - Len(a)]
  BY ConcatProperties
<1>5. Len(c \o t) = Len(a \o b) /\ Len(c) + Len(t) = Len(a) + Len(b)
  BY <1>1, <1>2, <1>3, <1>4
<1>6. ASSUME NEW i \in 1 .. Len(a) + Len(b)
      PROVE  (c \o t)[i] = (a \o b)[i]
  <2>1. CASE i <= Len(a)
    <3>1. (c \o t)[i] = c[i] /\ (a \o b)[i] = a[i] /\ i \in 1 .. Len(a)
      BY <1>1, <1>2, <1>3, <1>4, <1>5, <2>1
    <3> QED
      BY <1>2, <3>1
  <2>2. CASE i = Len(a) + 1
    <3>1. (c \o t)[i] = c[i] /\ (a \o b)[i] = b[i - Len(a)] /\ i - Len(a) = 1
      BY <1>1, <1>2, <1>3, <1>4, <1>5, <2>2
    <3> QED
      BY <1>2, <2>2, <3>1
  <2>3. CASE i > Len(a) + 1
    <3>1. /\ (c \o t)[i] = t[i - Len(c)] /\ (a \o b)[i] = b[i - Len(a)]
          /\ i - Len(c) \in 1 .. Len(t) /\ (i - Len(c)) + 1 = i - Len(a)
      BY <1>1, <1>2, <1>3, <1>4, <1>5, <2>3
    <3> QED
      BY <1>1, <3>1
  <2> QED
    BY <1>1, <2>1, <2>2, <2>3
<1> HIDE DEF c, t
<1>7. c \o t = a \o b
  BY <1>3, <1>4, <1>5, <1>6, SeqEqual
<1> QED
  BY <1>7 DEF c, t

LEMMA GivenGrows ==
  ASSUME NEW S, NEW a \in Seq(S), NEW b \in Seq(S), NEW x \in S
  PROVE  a \o Append(b, x) = Append(a \o b, x)
<1> DEFINE c == Append(b, x)
           g == a \o b
           h == Append(g, x)
<1>1. /\ c \in Seq(S) /\ Len(c) = Len(b) + 1 /\ Len(b) \in Nat /\ Len(a) \in Nat
      /\ \A i \in 1 .. Len(b) : c[i] = b[i]
      /\ c[Len(b) + 1] = x
  BY AppendProperties
<1>2. /\ a \o c \in Seq(S) /\ Len(a \o c) = Len(a) + Len(c)
      /\ \A i \in 1 .. Len(a) + Len(c) :
           (a \o c)[i] = IF i <= Len(a) THEN a[i] ELSE c[i - Len(a)]
  BY <1>1, ConcatProperties
<1>3. /\ g \in Seq(S) /\ Len(g) = Len(a) + Len(b)
      /\ \A i \in 1 .. Len(a) + Len(b) :
           g[i] = IF i <= Len(a) THEN a[i] ELSE b[i - Len(a)]
  BY ConcatProperties
<1> HIDE DEF g
<1>4. /\ h \in Seq(S) /\ Len(h) = Len(g) + 1 /\ h[Len(g) + 1] = x
      /\ \A i \in 1 .. Len(g) : h[i] = g[i]
  BY <1>3, AppendProperties
<1> HIDE DEF c, h
<1>5. Len(a \o c) = Len(h) /\ Len(h) = (Len(a) + Len(b)) + 1
  BY <1>1, <1>2, <1>3, <1>4
<1>6. ASSUME NEW i \in 1 .. (Len(a) + Len(b)) + 1
      PROVE  (a \o c)[i] = h[i]
  <2>1. CASE i <= Len(a)
    <3>1. i \in 1 .. Len(a) + Len(c) /\ i \in 1 .. Len(a) + Len(b) /\ i \in 1 .. Len(g)
      BY <1>1, <1>3, <2>1
    <3> QED
      BY <1>2, <1>3, <1>4, <2>1, <3>1
  <2>2. CASE i > Len(a) /\ i <= Len(a) + Len(b)
    <3>1. (a \o c)[i] = c[i - Len(a)] /\ h[i] = b[i - Len(a)] /\ i - Len(a) \in 1 .. Len(b)
      BY <1>1, <1>2, <1>3, <1>4, <2>2
    <3> QED
      BY <1>1, <3>1
  <2>3. CASE i = (Len(a) + Len(b)) + 1
    <3>1. (a \o c)[i] = c[i - Len(a)] /\ i - Len(a) = Len(b) + 1 /\ h[i] = x
      BY <1>1, <1>2, <1>3, <1>4, <2>3
    <3> QED
      BY <1>1, <3>1
  <2>4. i <= Len(a) \/ (i > Len(a) /\ i <= Len(a) + Len(b)) \/ i = (Len(a) + Len(b)) + 1
    BY <1>1
  <2> QED
    BY ONLY <2>1, <2>2, <2>3, <2>4
<1>7. a \o c = h
  BY <1>2, <1>4, <1>5, <1>6, SeqEqual
<1> QED
  BY <1>7 DEF c, h, g

-----------------------------------------------------------------------------
(* The sending end *)

LEMMA DoneTypes ==
  ASSUME TypeOK, NEW e \in Endpoint, QueueOK(e)
  PROVE  /\ Done(e) \in Nat /\ Begun(e) \in Nat
         /\ Done(e) + Len(transq[e]) = Len(sent[e])
<1>1. Done(e) \in Nat
  BY DEF QueueOK
<1>2. PICK s \in Nat, q \in Nat : s = Len(sent[e]) /\ q = Len(transq[e])
  BY EndTypes
<1>3. Done(e) = s - q
  BY <1>2 DEF Done
<1>4. Done(e) + q = s
  BY ONLY <1>1, <1>2, <1>3
<1>5. Begun(e) = Done(e) \/ Begun(e) = Done(e) + 1
  BY <1>1 DEF Begun
<1>6. Begun(e) \in Nat
  BY ONLY <1>1, <1>5
<1> QED
  BY <1>1, <1>2, <1>4, <1>6

\* A blank frame goes out: nothing is behind it.
LEMMA BlankSent ==
  ASSUME TypeOK, NEW e \in Endpoint, NEW r \in Endpoint, r = Peer(e), r # e, Link(e, r),
         pc[e] = "prep", pc' = [pc EXCEPT ![e] = "xfer"],
         tx_frame' = [tx_frame EXCEPT ![e] = IFSPI_FRAME_BLANK],
         UNCHANGED <<buf_ptr, rx_frame, headP, transq, MEM_Buffer_List, sent, received>>
  PROVE  Link(e, r)'
<1>1. /\ pc'[e] = "xfer" /\ pc'[r] = pc[r] /\ tx_frame'[e] = IFSPI_FRAME_BLANK
      /\ ~Filled(tx_frame'[e]) /\ ~tx_frame'[e].FS
  BY DEF TypeOK, IFSPI_FRAME_BLANK, Filled
<1>2. /\ Done(e)' = Done(e) /\ Begun(e)' = Begun(e)
      /\ LastId(r)' = LastId(r) /\ HeadId(r)' = HeadId(r)
      /\ LastRef(r)' = LastRef(r) /\ (Handling(r)' <=> Handling(r))
  BY <1>1 DEF Done, Begun, LastId, HeadId, LastRef, Handling, GivenToStack
<1>3. \A d, l : Carries(e, d, l)' <=> Carries(e, d, l)
  BY DEF Carries
<1>4. SndEnd(e)' = NU_NULL
  BY <1>1 DEF SndEnd, RefOf
<1>5. QueueOK(e)' /\ PtrOK(e)'
  BY <1>2, <1>4 DEF Link, QueueOK, Matches, PtrOK
<1>6. SeenOK(e, r)'
  BY <1>1, <1>2 DEF Link, SeenOK
<1>7. HeadOK(e, r)'
  BY <1>1, <1>2, <1>3 DEF Link, HeadOK
<1>8. RxOK(e, r)'
  BY <1>2, <1>3 DEF Link, RxOK, FrameOK
<1>9. TxOK(e, r)'
  BY <1>1 DEF TxOK, FrameOK
<1> QED
  BY <1>5, <1>6, <1>7, <1>8, <1>9 DEF Link

LEMMA ClampTwice ==
  ASSUME NEW n \in Nat
  PROVE  Clamp(Clamp(n)) = Clamp(n)
BY SizesAssumption DEF Clamp, AtMost, IF_SPI_BUF_SIZE

\* The queue behind a frame: the head packet stays, with a clamped length, or
\* goes; and what the frame carries.
LEMMA QueueSent ==
  ASSUME TypeOK, NEW e \in Endpoint, QueueOK(e), transq[e] # <<>>,
         NEW pkt \in Packet, NEW rest \in Seq(Packet), NEW k \in 1 .. Len(pkt.lens),
         NEW fs \in BOOLEAN, SendSegmentEffect(e, k, fs, pkt, rest), sent' = sent
  PROVE  /\ QueueOK(e)'
         /\ pkt.id = Done(e) + 1
         /\ Carries(e, [id |-> pkt.id, seg |-> k], Clamp(pkt.lens[k]))
         /\ Begun(e)' = pkt.id
<1>1. /\ sent[e] \in Seq(Seq(Nat)) /\ Len(sent[e]) \in Nat
      /\ transq[e] \in Seq(Packet) /\ Len(transq[e]) \in Nat
  BY EndTypes
<1>2. /\ pkt = transq[e][1] /\ Len(rest) = Len(transq[e]) - 1 /\ Len(transq[e]) \in Nat \ {0}
      /\ \A i \in 1 .. Len(rest) : rest[i] = transq[e][i + 1]
  BY <1>1, HeadTailProperties DEF SendSegmentEffect
<1>3. PICK s \in Nat, q \in Nat \ {0}, m \in Nat :
        s = Len(sent[e]) /\ q = Len(transq[e]) /\ m = Done(e)
  BY <1>1, <1>2, DoneTypes
<1>4. m + q = s /\ m = s - q
  BY <1>3, DoneTypes DEF Done
<1>5. m + 1 \in 1 .. s /\ 1 \in 1 .. q /\ Len(rest) = q - 1
  <2>1. m + 1 \in 1 .. s /\ 1 \in 1 .. q
    BY ONLY <1>4, s \in Nat, q \in Nat \ {0}, m \in Nat
  <2>2. Len(rest) = q - 1
    BY ONLY <1>2, <1>3
  <2> QED
    BY ONLY <2>1, <2>2
<1>6. /\ \A i \in 1 .. q : Matches(e, transq[e][i], m + i)
      /\ \A p, n : Matches(e, p, n) => Matches(e, p, n)'
  BY <1>3 DEF QueueOK, Matches
<1>7. /\ pkt.id = m + 1 /\ Len(pkt.lens) = Len(sent[e][m + 1])
      /\ \A j \in 1 .. Len(pkt.lens) : Clamp(pkt.lens[j]) = Clamp(sent[e][m + 1][j])
  <2>1. Matches(e, pkt, m + 1)
    BY <1>2, <1>5, <1>6
  <2> QED
    BY <2>1 DEF Matches
<1>8. Carries(e, [id |-> pkt.id, seg |-> k], Clamp(pkt.lens[k]))
  BY <1>3, <1>5, <1>7 DEF Carries
<1>9. pkt.lens \in Seq(Nat) /\ Len(pkt.lens) \in Nat /\ pkt.id \in Nat \ {0}
  BY DEF Packet
<1>10. CASE k < Len(pkt.lens)
  <2>1. transq'[e] = <<Rewritten(pkt, k)>> \o rest
        /\ buf_ptr'[e] = [id |-> pkt.id, seg |-> k + 1]
    <3>1. k # Len(pkt.lens)
      BY <1>9, <1>10
    <3>2. /\ transq' = [transq EXCEPT ![e] = <<Rewritten(pkt, k)>> \o rest]
          /\ buf_ptr' = [buf_ptr EXCEPT ![e] = [id |-> pkt.id, seg |-> k + 1]]
      BY <3>1 DEF SendSegmentEffect
    <3>3. /\ transq \in [Endpoint -> Seq(Packet)] /\ buf_ptr \in [Endpoint -> BufRef]
      BY DEF TypeOK
    <3> QED
      BY ONLY <3>2, <3>3, e \in Endpoint
  <2>2. Rewritten(pkt, k) \in Packet /\ Rewritten(pkt, k).id = pkt.id
        /\ Len(Rewritten(pkt, k).lens) = Len(pkt.lens)
    BY ClampType
  <2>3. /\ Len(transq'[e]) = q /\ transq'[e][1] = Rewritten(pkt, k)
        /\ \A i \in 2 .. q : transq'[e][i] = transq[e][i]
    <3> DEFINE one == <<Rewritten(pkt, k)>>
    <3>1. one \in Seq(Packet) /\ Len(one) = 1 /\ one[1] = Rewritten(pkt, k)
      BY <2>2
    <3> HIDE DEF one
    <3>2. /\ Len(one \o rest) = Len(one) + Len(rest)
          /\ \A i \in 1 .. Len(one) + Len(rest) :
               (one \o rest)[i] = IF i <= Len(one) THEN one[i] ELSE rest[i - Len(one)]
      BY <3>1, ConcatProperties
    <3>3. transq'[e] = one \o rest
      BY <2>1 DEF one
    <3>4. ASSUME NEW i \in 2 .. q
          PROVE  transq'[e][i] = transq[e][i]
      <4>1. i \in 1 .. Len(one) + Len(rest) /\ ~(i <= Len(one)) /\ i - 1 \in 1 .. Len(rest)
            /\ (i - 1) + 1 = i
        BY <1>5, <3>1
      <4>2. transq'[e][i] = rest[i - 1]
        BY <3>1, <3>2, <3>3, <4>1
      <4> QED
        BY <1>2, <4>1, <4>2
    <3> QED
      BY <1>5, <3>1, <3>2, <3>3, <3>4
  <2>4. ASSUME NEW j \in 1 .. Len(pkt.lens)
        PROVE  Clamp(Rewritten(pkt, k).lens[j]) = Clamp(pkt.lens[j])
    BY <1>9, ClampTwice DEF Rewritten
  <2>5. Done(e)' = m
    BY <1>3, <1>4, <2>3 DEF Done
  <2>6. ASSUME NEW i \in 1 .. q
        PROVE  Matches(e, transq[e][i], m + i)'
    <3>1. CASE i = 1
      <4>1. /\ transq'[e][i].id = m + 1 /\ Len(transq'[e][i].lens) = Len(sent[e][m + 1])
            /\ \A j \in 1 .. Len(transq'[e][i].lens) :
                 Clamp(transq'[e][i].lens[j]) = Clamp(sent[e][m + 1][j])
        BY <1>7, <2>2, <2>3, <2>4, <3>1
      <4> QED
        BY <3>1, <4>1 DEF Matches
    <3>2. CASE i # 1
      <4>1. i \in 2 .. q
        BY <3>2
      <4>2. transq'[e][i] = transq[e][i] /\ Matches(e, transq[e][i], m + i)
        BY <1>6, <2>3, <4>1
      <4> QED
        BY <4>2 DEF Matches
    <3> QED
      BY <3>1, <3>2
  <2>7. QueueOK(e)'
    BY <2>3, <2>5, <2>6 DEF QueueOK
  <2>8. buf_ptr'[e] # NU_NULL
    BY <1>9, <2>1 DEF NU_NULL
  <2>9. Begun(e)' = pkt.id
    BY <1>7, <2>5, <2>8 DEF Begun
  <2> QED
    BY <1>3, <1>7, <1>8, <2>7, <2>9
<1>11. CASE k = Len(pkt.lens)
  <2>1. transq'[e] = rest /\ buf_ptr'[e] = NU_NULL
    BY <1>9, <1>11 DEF SendSegmentEffect, TypeOK
  <2>2. Done(e)' = m + 1
    <3>1. Done(e)' = s - (q - 1)
      BY <1>3, <1>5, <2>1 DEF Done
    <3> QED
      BY <1>4, <3>1
  <2>3. ASSUME NEW i \in 1 .. Len(rest)
        PROVE  Matches(e, transq[e][i], (m + 1) + i)'
    <3>1. i + 1 \in 1 .. q /\ (m + 1) + i = m + (i + 1)
      BY ONLY <1>5, m \in Nat, q \in Nat \ {0}
    <3>2. rest[i] = transq[e][i + 1]
      BY <1>2
    <3>3. transq'[e][i] = transq[e][i + 1] /\ Matches(e, transq[e][i + 1], (m + 1) + i)
      BY <1>6, <2>1, <3>1, <3>2
    <3> QED
      BY <3>3 DEF Matches
  <2>4. QueueOK(e)'
    BY <2>1, <2>2, <2>3 DEF QueueOK
  <2>5. Begun(e)' = pkt.id
    BY <1>7, <2>1, <2>2 DEF Begun
  <2> QED
    BY <1>3, <1>7, <1>8, <2>4, <2>5
<1> QED
  BY <1>9, <1>10, <1>11

\* A frame of the head packet goes out, the first one of it or the one the
\* pointer refers to.
LEMMA FrameSent ==
  ASSUME TypeOK, NEW e \in Endpoint, NEW r \in Endpoint, r = Peer(e), r # e, Link(e, r),
         transq[e] # <<>>, NEW k \in 1 .. Len(Head(transq[e]).lens), NEW fs \in BOOLEAN,
         SendSegment(e, k, fs), fs <=> k = 1,
         fs => buf_ptr[e] = NU_NULL,
         ~fs => buf_ptr[e] = [id |-> Head(transq[e]).id, seg |-> k],
         pc[e] = "prep", pc' = [pc EXCEPT ![e] = "xfer"],
         UNCHANGED <<rx_frame, headP, MEM_Buffer_List, sent, received>>
  PROVE  Link(e, r)'
<1>1. PICK pkt \in Packet, rest \in Seq(Packet) : SendSegmentEffect(e, k, fs, pkt, rest)
  <2>1. k \in Nat
    OBVIOUS
  <2> QED
    BY <2>1, SendSegmentStep
<1>2. k \in 1 .. Len(pkt.lens) /\ pkt = Head(transq[e])
  BY <1>1 DEF SendSegmentEffect
<1>3. /\ QueueOK(e)'
      /\ pkt.id = Done(e) + 1
      /\ Carries(e, [id |-> pkt.id, seg |-> k], Clamp(pkt.lens[k]))
      /\ Begun(e)' = pkt.id
  BY <1>1, <1>2, QueueSent DEF Link
<1>4. PICK d : d = [id |-> pkt.id, seg |-> k]
  OBVIOUS
<1>5. /\ d.id = pkt.id /\ d.seg = k /\ d # NU_NULL /\ d.id \in Nat
  BY <1>4 DEF Packet, NU_NULL
<1>6. /\ tx_frame'[e] = [FS |-> fs, len |-> Clamp(pkt.lens[k]), data |-> d]
      /\ pc'[e] = "xfer" /\ pc'[r] = pc[r]
      /\ \/ buf_ptr'[e] = [id |-> pkt.id, seg |-> k + 1]
         \/ buf_ptr'[e] = NU_NULL
  BY <1>1, <1>4 DEF SendSegmentEffect, TypeOK
<1>7. /\ tx_frame'[e].data = d /\ tx_frame'[e].len = Clamp(pkt.lens[k])
      /\ tx_frame'[e].FS = fs
  BY <1>6
<1>8. /\ LastId(r)' = LastId(r) /\ HeadId(r)' = HeadId(r)
      /\ LastRef(r)' = LastRef(r) /\ (Handling(r)' <=> Handling(r))
  BY <1>6 DEF LastId, HeadId, LastRef, Handling, GivenToStack
<1>9. \A x, l : Carries(e, x, l)' <=> Carries(e, x, l)
  BY DEF Carries
<1>10. Begun(e) \in Nat /\ Begun(e) <= pkt.id /\ (fs => Begun(e) < pkt.id)
  <2>1. Begun(e) \in Nat /\ Done(e) \in Nat
    BY DoneTypes DEF Link
  <2>2. Begun(e) <= Done(e) + 1 /\ (buf_ptr[e] = NU_NULL => Begun(e) = Done(e))
    BY <2>1 DEF Begun
  <2> QED
    BY <1>3, <2>1, <2>2
<1>11. /\ headP[r] # <<>> => HeadId(r) \in Nat
       /\ rx_frame[r].data \in BufRef /\ rx_frame[r].data.id \in Nat
       /\ LastId(r) \in Nat
  BY RefTypes DEF BufRef
<1>12. SeenOK(e, r)'
  <2>1. SeenOK(e, r) /\ pkt.id \in Nat
    BY <1>5 DEF Link
  <2>2. \A n \in Nat : n <= Begun(e) => n <= pkt.id
    BY <1>10, <2>1
  <2>3. LastId(r) <= pkt.id /\ (headP[r] # <<>> => HeadId(r) <= pkt.id)
    BY <1>11, <2>1, <2>2 DEF SeenOK
  <2>4. Handling(r) /\ Filled(rx_frame[r]) => rx_frame[r].data.id <= pkt.id
    BY <1>11, <2>1, <2>2 DEF SeenOK
  <2>5. tx_frame'[e].data.id <= pkt.id
    BY <1>5, <1>7
  <2> QED
    BY <1>3, <1>8, <1>11, <2>3, <2>4, <2>5 DEF SeenOK
<1>13. HeadOK(e, r)'
  BY <1>6, <1>8, <1>9 DEF Link, HeadOK
<1>14. RxOK(e, r)'
  BY <1>8, <1>9 DEF Link, RxOK, FrameOK
<1>15. RcvEnd(r)' = RcvEnd(r)
  BY <1>8 DEF RcvEnd
<1>16. TxOK(e, r)'
  <2>1. FrameOK(e, tx_frame[e])'
    BY <1>3, <1>4, <1>5, <1>7, <1>9 DEF FrameOK
  <2>2. CASE fs
    BY <1>5, <1>7, <1>8, <1>10, <1>11, <2>1, <2>2 DEF Link, SeenOK, TxOK
  <2>3. CASE ~fs
    <3>1. buf_ptr[e] = d /\ buf_ptr[e] # NU_NULL
      BY <1>2, <1>4, <1>5, <2>3
    <3>2. RcvEnd(r) # NU_NULL => Continues(RcvEnd(r), d)
      BY <3>1 DEF Link, PtrOK, SndEnd
    <3> QED
      BY <1>7, <1>15, <2>1, <2>3, <3>2 DEF TxOK
  <2> QED
    BY <2>2, <2>3
<1>17. PtrOK(e)'
  <2>1. SndEnd(e)' = RefOf(tx_frame'[e])
    BY <1>6 DEF SndEnd
  <2>2. RefOf(tx_frame'[e]) \in {d, NU_NULL}
    BY <1>7 DEF RefOf
  <2>3. CASE buf_ptr'[e] = NU_NULL
    BY <2>3 DEF PtrOK
  <2>4. CASE buf_ptr'[e] = [id |-> pkt.id, seg |-> k + 1]
    <3>1. Continues(d, buf_ptr'[e])
      BY <1>5, <2>4 DEF Continues
    <3> QED
      BY <2>1, <2>2, <3>1 DEF PtrOK
  <2> QED
    BY <1>6, <2>3, <2>4
<1> QED
  BY <1>3, <1>12, <1>13, <1>14, <1>16, <1>17 DEF Link

\* A packet is queued behind the others.
LEMMA EtherSent ==
  ASSUME TypeOK, NEW e \in Endpoint, NEW r \in Endpoint, r = Peer(e), r # e, Link(e, r),
         ETH_Ether_Send(e)
  PROVE  Link(e, r)'
<1>1. PICK lens \in Chains :
        /\ transq' = [transq EXCEPT ![e] =
                        Append(@, [id |-> Len(sent[e]) + 1, lens |-> lens])]
        /\ sent' = [sent EXCEPT ![e] = Append(@, lens)]
  BY DEF ETH_Ether_Send
<1>2. UNCHANGED <<pc, buf_ptr, tx_frame, rx_frame, headP, MEM_Buffer_List, received>>
  BY DEF ETH_Ether_Send, taskVars
<1>3. PICK s \in Nat, q \in Nat, m \in Nat :
        s = Len(sent[e]) /\ q = Len(transq[e]) /\ m = Done(e)
  BY EndTypes, DoneTypes DEF Link
<1>4. m + q = s /\ m = s - q
  BY <1>3, DoneTypes DEF Done, Link
<1>5. PICK p : p = [id |-> s + 1, lens |-> lens]
  OBVIOUS
<1>6. lens \in Seq(Nat) /\ lens # <<>> /\ p \in Packet /\ p.id = s + 1 /\ p.lens = lens
  BY <1>5, ChainsType DEF Packet
<1>7. transq'[e] = Append(transq[e], p) /\ sent'[e] = Append(sent[e], lens)
  BY <1>1, <1>3, <1>5 DEF TypeOK
<1>8. /\ Len(sent'[e]) = s + 1 /\ sent'[e][s + 1] = lens
      /\ \A i \in 1 .. s : sent'[e][i] = sent[e][i]
  <2>1. sent[e] \in Seq(Seq(Nat))
    BY EndTypes
  <2> QED
    BY <1>3, <1>6, <1>7, <2>1, AppendProperties
<1>9. /\ Len(transq'[e]) = q + 1 /\ transq'[e][q + 1] = p
      /\ \A i \in 1 .. q : transq'[e][i] = transq[e][i]
  <2>1. transq[e] \in Seq(Packet)
    BY EndTypes
  <2> QED
    BY <1>3, <1>6, <1>7, <2>1, AppendProperties
<1>10. Done(e)' = m
  <2>1. Done(e)' = (s + 1) - (q + 1)
    BY <1>8, <1>9 DEF Done
  <2> QED
    BY ONLY <1>4, <2>1, s \in Nat, q \in Nat, m \in Nat
<1>11. /\ Done(e)' = Done(e) /\ Begun(e)' = Begun(e)
       /\ LastId(r)' = LastId(r) /\ HeadId(r)' = HeadId(r)
       /\ LastRef(r)' = LastRef(r) /\ (Handling(r)' <=> Handling(r))
  BY <1>2, <1>3, <1>10 DEF Begun, LastId, HeadId, LastRef, Handling, GivenToStack
<1>12. RcvEnd(r)' = RcvEnd(r) /\ SndEnd(e)' = SndEnd(e)
  BY <1>2, <1>11 DEF RcvEnd, SndEnd
<1>13. \A d, l : Carries(e, d, l) => Carries(e, d, l)'
  <2> SUFFICES ASSUME NEW d, NEW l, Carries(e, d, l)
               PROVE  Carries(e, d, l)'
    OBVIOUS
  <2>1. d.id \in 1 .. s /\ d.seg \in 1 .. Len(sent[e][d.id])
        /\ l = Clamp(sent[e][d.id][d.seg])
    BY <1>3 DEF Carries
  <2>2. d.id \in 1 .. s + 1 /\ sent'[e][d.id] = sent[e][d.id]
    BY <1>8, <2>1
  <2> QED
    BY <1>8, <2>1, <2>2 DEF Carries
<1>14. \A f : FrameOK(e, f) => FrameOK(e, f)'
  BY <1>13 DEF FrameOK
<1>15. QueueOK(e)'
  <2>1. ASSUME NEW i \in 1 .. q + 1
        PROVE  Matches(e, transq[e][i], m + i)'
    <3>1. CASE i \in 1 .. q
      <4>1. m + i \in 1 .. s
        BY ONLY <1>4, <3>1, s \in Nat, q \in Nat, m \in Nat
      <4>2. transq'[e][i] = transq[e][i] /\ sent'[e][m + i] = sent[e][m + i]
        BY <1>8, <1>9, <3>1, <4>1
      <4>3. Matches(e, transq[e][i], m + i)
        BY <1>3, <3>1 DEF Link, QueueOK
      <4> QED
        BY <4>2, <4>3 DEF Matches
    <3>2. CASE i = q + 1
      <4>1. m + i = s + 1
        BY ONLY <1>4, <3>2, s \in Nat, q \in Nat, m \in Nat
      <4> QED
        BY <1>6, <1>8, <1>9, <3>2, <4>1 DEF Matches
    <3> QED
      BY <3>1, <3>2
  <2> QED
    BY <1>9, <1>10, <2>1 DEF QueueOK
<1>16. SeenOK(e, r)'
  BY <1>2, <1>11 DEF Link, SeenOK
<1>17. HeadOK(e, r)'
  BY <1>2, <1>11, <1>13 DEF Link, HeadOK
<1>18. RxOK(e, r)'
  BY <1>2, <1>11, <1>14 DEF Link, RxOK
<1>19. TxOK(e, r)'
  BY <1>2, <1>11, <1>12, <1>14 DEF Link, TxOK
<1>20. PtrOK(e)'
  BY <1>2, <1>12 DEF Link, PtrOK
<1> QED
  BY <1>15, <1>16, <1>17, <1>18, <1>19, <1>20 DEF Link

\* The frame of e crosses the wire.
LEMMA Exchanged ==
  ASSUME TypeOK, NEW e \in Endpoint, NEW r \in Endpoint, r = Peer(e), e = Peer(r),
         Link(e, r), Exchange
  PROVE  Link(e, r)'
<1>1. /\ pc[e] = "xfer" /\ pc[r] = "xfer" /\ pc'[e] = "rx" /\ pc'[r] = "rx"
      /\ rx_frame'[r] = tx_frame[e]
      /\ UNCHANGED <<buf_ptr, tx_frame, headP, transq, MEM_Buffer_List, sent, received>>
  BY DEF Exchange, stackVars
<1>2. /\ Done(e)' = Done(e) /\ Begun(e)' = Begun(e)
      /\ LastId(r)' = LastId(r) /\ HeadId(r)' = HeadId(r)
      /\ LastRef(r)' = LastRef(r) /\ Handling(r)' /\ ~Handling(r)
  BY <1>1 DEF Done, Begun, LastId, HeadId, LastRef, Handling, GivenToStack
<1>3. \A d, l : Carries(e, d, l)' <=> Carries(e, d, l)
  BY <1>1 DEF Carries
<1>4. RcvEnd(r)' = RefOf(tx_frame[e]) /\ SndEnd(e) = RefOf(tx_frame[e])
      /\ (headP[r] # <<>> => RcvEnd(r) = LastRef(r))
  BY <1>1, <1>2 DEF RcvEnd, SndEnd
<1>5. SndEnd(e)' = SndEnd(e)
  BY <1>1, <1>4 DEF SndEnd
<1>6. headP[r] # <<>> => LastRef(r) # NU_NULL
  BY RefTypes
<1>7. QueueOK(e)' /\ PtrOK(e)'
  BY <1>1, <1>2, <1>5 DEF Link, QueueOK, Matches, PtrOK
<1>8. SeenOK(e, r)'
  BY <1>1, <1>2 DEF Link, SeenOK
<1>9. HeadOK(e, r)'
  BY <1>1, <1>2, <1>3 DEF Link, HeadOK
<1>10. RxOK(e, r)'
  BY <1>1, <1>2, <1>3, <1>4, <1>6 DEF Link, RxOK, TxOK, FrameOK
<1>11. TxOK(e, r)'
  BY <1>1 DEF TxOK
<1> QED
  BY <1>7, <1>8, <1>9, <1>10, <1>11 DEF Link

-----------------------------------------------------------------------------
(* The receiving end *)

\* The packet under reassembly goes to the stack.
LEMMA DispatchGives ==
  ASSUME TypeOK, NEW r \in Endpoint, RxDispatch(r)
  PROVE  /\ GivenToStack(r)' =
              Append(GivenToStack(r), [total |-> pktSize[r], chain |-> headP[r]])
         /\ LastId(r)' = HeadId(r)
<1> DEFINE p == [total |-> pktSize[r], chain |-> headP[r]]
<1>1. p \in Received
  BY DEF TypeOK, Received
<1>2. /\ received'[r] = received[r]
      /\ MEM_Buffer_List'[r] = Append(MEM_Buffer_List[r], p)
  BY DEF RxDispatch, TypeOK
<1>3. p.chain = headP[r]
  OBVIOUS
<1> HIDE DEF p
<1>4. GivenToStack(r)' = Append(GivenToStack(r), p)
  <2>1. received[r] \in Seq(Received) /\ MEM_Buffer_List[r] \in Seq(Received)
    BY EndTypes
  <2>2. \A a, b \in Seq(Received), x \in Received : a \o Append(b, x) = Append(a \o b, x)
    BY GivenGrows
  <2>3. received[r] \o Append(MEM_Buffer_List[r], p)
          = Append(received[r] \o MEM_Buffer_List[r], p)
    BY ONLY <1>1, <2>1, <2>2
  <2>4. GivenToStack(r)' = received[r] \o Append(MEM_Buffer_List[r], p)
    BY <1>2 DEF GivenToStack
  <2> QED
    BY <2>3, <2>4 DEF GivenToStack
<1>5. PICK g \in Seq(Received) : g = GivenToStack(r)
  BY EndTypes
<1>6. /\ Append(g, p) # <<>> /\ Append(g, p)[Len(Append(g, p))] = p
  BY <1>1, <1>5, AppendProperties
<1>7. LastId(r)' = HeadId(r)
  BY <1>3, <1>4, <1>5, <1>6 DEF LastId, HeadId
<1> QED
  BY <1>4, <1>7 DEF p

LEMMA Dispatched ==
  ASSUME TypeOK, NEW e \in Endpoint, NEW r \in Endpoint, r = Peer(e), r # e, Link(e, r),
         RxDispatch(r)
  PROVE  Link(e, r)'
<1>1. /\ pc[r] = "rx" /\ pc'[r] = "notify" /\ pc'[e] = pc[e] /\ headP[r] # <<>>
      /\ rx_frame[r].FS \/ rx_frame[r].len = 0
      /\ UNCHANGED <<buf_ptr, tx_frame, rx_frame, headP, transq, sent, received>>
  BY DEF RxDispatch, TypeOK
<1>2. /\ Done(e)' = Done(e) /\ Begun(e)' = Begun(e) /\ HeadId(r)' = HeadId(r)
      /\ LastRef(r)' = LastRef(r) /\ Handling(r)' /\ Handling(r)
  BY <1>1 DEF Done, Begun, HeadId, LastRef, Handling
<1>3. LastId(r)' = HeadId(r) /\ HeadId(r) \in Nat
  BY <1>1, DispatchGives, RefTypes
<1>4. \A d, l : Carries(e, d, l)' <=> Carries(e, d, l)
  BY <1>1 DEF Carries
<1>5. RcvEnd(r)' = RcvEnd(r)
  BY <1>1, <1>2 DEF RcvEnd
<1>6. SndEnd(e)' = SndEnd(e)
  BY <1>1, <1>5 DEF SndEnd
<1>7. QueueOK(e)' /\ PtrOK(e)'
  BY <1>1, <1>2, <1>6 DEF Link, QueueOK, Matches, PtrOK
<1>8. SeenOK(e, r)'
  BY <1>1, <1>2, <1>3 DEF Link, SeenOK
<1>9. HeadOK(e, r)'
  BY <1>1, <1>2, <1>4 DEF Link, HeadOK
<1>10. RxOK(e, r)'
  BY <1>1, <1>2, <1>3, <1>4 DEF Link, RxOK, FrameOK
<1>11. TxOK(e, r)'
  BY <1>1, <1>2, <1>3, <1>4, <1>5 DEF Link, TxOK, FrameOK
<1> QED
  BY <1>7, <1>8, <1>9, <1>10, <1>11 DEF Link

LEMMA Notified ==
  ASSUME TypeOK, NEW e \in Endpoint, NEW r \in Endpoint, r = Peer(e), r # e, Link(e, r),
         RxNotify(r)
  PROVE  Link(e, r)'
<1>1. /\ pc[r] = "notify" /\ pc'[r] = "rx" /\ pc'[e] = pc[e] /\ headP'[r] = <<>>
      /\ UNCHANGED <<buf_ptr, tx_frame, rx_frame, transq, MEM_Buffer_List, sent, received>>
  BY DEF RxNotify, TypeOK
<1>2. /\ Done(e)' = Done(e) /\ Begun(e)' = Begun(e) /\ LastId(r)' = LastId(r)
      /\ Handling(r)' /\ Handling(r)
  BY <1>1 DEF Done, Begun, LastId, Handling, GivenToStack
<1>3. \A d, l : Carries(e, d, l)' <=> Carries(e, d, l)
  BY <1>1 DEF Carries
<1>4. RcvEnd(r)' = RcvEnd(r)
  BY <1>1, <1>2 DEF RcvEnd
<1>5. SndEnd(e)' = SndEnd(e)
  BY <1>1, <1>4 DEF SndEnd
<1>6. QueueOK(e)' /\ PtrOK(e)'
  BY <1>1, <1>2, <1>5 DEF Link, QueueOK, Matches, PtrOK
<1>7. SeenOK(e, r)'
  BY <1>1, <1>2 DEF Link, SeenOK
<1>8. HeadOK(e, r)'
  BY <1>1 DEF HeadOK
<1>9. RxOK(e, r)'
  BY <1>1, <1>2, <1>3 DEF Link, RxOK, FrameOK
<1>10. TxOK(e, r)'
  BY <1>1, <1>2, <1>3, <1>4 DEF Link, TxOK, FrameOK
<1> QED
  BY <1>6, <1>7, <1>8, <1>9, <1>10 DEF Link

\* The pass ends: what the frame brought is part of the reassembly now, or
\* dropped.
LEMMA Passed ==
  ASSUME TypeOK, NEW e \in Endpoint, NEW r \in Endpoint, r = Peer(e), r # e, Link(e, r),
         pc[r] = "rx", EndPass(r),
         UNCHANGED <<buf_ptr, tx_frame, transq, MEM_Buffer_List, sent, received>>,
         HeadOK(e, r)',
         headP'[r] # <<>> =>
           \/ Filled(rx_frame[r]) /\ HeadId(r)' = rx_frame[r].data.id
           \/ headP[r] # <<>> /\ HeadId(r)' = HeadId(r),
         \/ RcvEnd(r)' = NU_NULL
         \/ RcvEnd(r)' = RcvEnd(r)
         \/ RcvEnd(r) # NU_NULL /\ RcvEnd(r)' \in BufRef /\ Continues(RcvEnd(r)', RcvEnd(r))
  PROVE  Link(e, r)'
<1>1. pc'[r] \in {"sleep", "prep"} /\ pc'[e] = pc[e]
  BY DEF EndPass, TypeOK
<1>2. /\ Done(e)' = Done(e) /\ Begun(e)' = Begun(e) /\ LastId(r)' = LastId(r)
      /\ ~Handling(r)' /\ Handling(r)
  BY <1>1 DEF Done, Begun, LastId, Handling, GivenToStack
<1>3. \A d, l : Carries(e, d, l)' <=> Carries(e, d, l)
  BY DEF Carries
<1>4. /\ RcvEnd(r) \in BufRef /\ tx_frame[e].data \in BufRef /\ buf_ptr[e] \in BufRef
  BY <1>2, RefTypes, EndTypes, FrameTypes DEF RcvEnd, RefOf
<1>5. ASSUME NEW n \in BufRef, RcvEnd(r)' # NU_NULL,
             RcvEnd(r) # NU_NULL => Continues(RcvEnd(r), n)
      PROVE  Continues(RcvEnd(r)', n)
  <2>1. CASE RcvEnd(r)' = RcvEnd(r)
    BY <1>5, <2>1 DEF Continues
  <2>2. CASE RcvEnd(r) # NU_NULL /\ RcvEnd(r)' \in BufRef /\ Continues(RcvEnd(r)', RcvEnd(r))
    <3>1. PICK a \in BufRef, b \in BufRef : a = RcvEnd(r)' /\ b = RcvEnd(r)
      BY <1>4, <2>2
    <3>2. Continues(a, b) /\ Continues(b, n)
      BY <1>5, <2>2, <3>1
    <3>3. Continues(a, n)
      BY ONLY <3>2, a \in BufRef, b \in BufRef, n \in BufRef DEF Continues, BufRef
    <3> QED
      BY <3>1, <3>3
  <2> QED
    BY <1>5, <2>1, <2>2
<1>6. QueueOK(e)'
  BY <1>2 DEF Link, QueueOK, Matches
<1>7. SeenOK(e, r)'
  BY <1>1, <1>2 DEF Link, SeenOK
<1>8. RxOK(e, r)'
  BY <1>2 DEF RxOK
<1>9. TxOK(e, r)'
  <2> SUFFICES ASSUME pc[e] = "xfer"
               PROVE  TxOK(e, r)'
    BY <1>1 DEF TxOK
  <2>1. FrameOK(e, tx_frame[e])'
    BY <1>3 DEF Link, TxOK, FrameOK
  <2>2. tx_frame[e].FS => LastId(r)' < tx_frame[e].data.id
    BY <1>2 DEF Link, TxOK
  <2>3. tx_frame[e].FS /\ headP'[r] # <<>> => HeadId(r)' < tx_frame[e].data.id
    BY <1>2 DEF Link, TxOK
  <2>4. Filled(tx_frame[e]) /\ ~tx_frame[e].FS /\ RcvEnd(r)' # NU_NULL
          => Continues(RcvEnd(r)', tx_frame[e].data)
    BY <1>4, <1>5 DEF Link, TxOK
  <2> QED
    BY <1>2, <2>1, <2>2, <2>3, <2>4 DEF TxOK
<1>10. PtrOK(e)'
  <2>1. CASE pc[e] = "xfer"
    <3>1. SndEnd(e)' = SndEnd(e)
      BY <1>1, <2>1 DEF SndEnd
    <3> QED
      BY <3>1 DEF Link, PtrOK
  <2>2. CASE pc[e] # "xfer"
    <3>1. SndEnd(e)' = RcvEnd(r)' /\ SndEnd(e) = RcvEnd(r)
      BY <1>1, <2>2 DEF SndEnd
    <3> QED
      BY <1>4, <1>5, <3>1 DEF Link, PtrOK
  <2> QED
    BY <2>1, <2>2
<1> QED
  BY <1>6, <1>7, <1>8, <1>9, <1>10 DEF Link

\* The reassembly starts with a first segment.
LEMMA FirstReceived ==
  ASSUME TypeOK, NEW e \in Endpoint, NEW r \in Endpoint, r = Peer(e), r # e, Link(e, r),
         RxFirst(r)
  PROVE  Link(e, r)'
<1>1. /\ pc[r] = "rx" /\ rx_frame[r].FS /\ headP[r] = <<>> /\ EndPass(r)
      /\ UNCHANGED <<buf_ptr, tx_frame, transq, MEM_Buffer_List, sent, received>>
  BY DEF RxFirst
<1>2. pc'[r] \in {"sleep", "prep"} /\ Handling(r) /\ ~Handling(r)' /\ LastId(r)' = LastId(r)
  BY <1>1 DEF EndPass, TypeOK, Handling, LastId, GivenToStack
<1>3. \A d, l : Carries(e, d, l)' <=> Carries(e, d, l)
  BY <1>1 DEF Carries
<1>4. Filled(rx_frame[r]) /\ RcvEnd(r) = rx_frame[r].data
  BY <1>1, <1>2 DEF Filled, RcvEnd, RefOf
<1>5. /\ Carries(e, rx_frame[r].data, rx_frame[r].len) /\ rx_frame[r].data.seg = 1
      /\ LastId(r) < rx_frame[r].data.id
  BY <1>1, <1>2, <1>4 DEF Link, RxOK, FrameOK
<1>6. CASE headP' = headP
  <2>1. headP'[r] = <<>> /\ RcvEnd(r)' = NU_NULL
    BY <1>1, <1>2, <1>6 DEF RcvEnd
  <2>2. HeadOK(e, r)'
    BY <2>1 DEF HeadOK
  <2> QED
    BY <1>1, <2>1, <2>2, Passed
<1>7. CASE headP' = [headP EXCEPT ![r] = <<RxSegment(r)>>]
  <2>1. headP'[r] = <<RxSegment(r)>>
    BY <1>7 DEF TypeOK
  <2>2. /\ headP'[r] # <<>> /\ Len(headP'[r]) = 1 /\ headP'[r][1] = RxSegment(r)
    BY <2>1
  <2>3. RxSegment(r).data = rx_frame[r].data /\ RxSegment(r).len = rx_frame[r].len
    BY DEF RxSegment
  <2>4. HeadId(r)' = rx_frame[r].data.id /\ RcvEnd(r)' = RcvEnd(r)
    BY <1>2, <1>4, <2>2, <2>3 DEF HeadId, RcvEnd, LastRef
  <2>5. HeadOK(e, r)'
    BY <1>2, <1>3, <1>5, <2>2, <2>3, <2>4 DEF HeadOK
  <2> QED
    BY <1>1, <1>4, <2>4, <2>5, Passed
<1> QED
  BY <1>6, <1>7 DEF RxFirst

\* A continuation joins the packet it belongs to, or is dropped.
LEMMA NextReceived ==
  ASSUME TypeOK, NEW e \in Endpoint, NEW r \in Endpoint, r = Peer(e), r # e, Link(e, r),
         RxNext(r)
  PROVE  Link(e, r)'
<1>1. /\ pc[r] = "rx" /\ ~rx_frame[r].FS /\ rx_frame[r].len # 0 /\ headP[r] # <<>> /\ EndPass(r)
      /\ UNCHANGED <<buf_ptr, tx_frame, rx_frame, transq, MEM_Buffer_List, sent, received>>
  BY DEF RxNext
<1>2. pc'[r] \in {"sleep", "prep"} /\ Handling(r) /\ ~Handling(r)' /\ LastId(r)' = LastId(r)
  BY <1>1 DEF EndPass, TypeOK, Handling, LastId, GivenToStack
<1>3. \A d, l : Carries(e, d, l)' <=> Carries(e, d, l)
  BY <1>1 DEF Carries
<1>4. Filled(rx_frame[r]) /\ RcvEnd(r) = rx_frame[r].data
  BY <1>1, <1>2 DEF Filled, RcvEnd, RefOf
<1>5. /\ Carries(e, rx_frame[r].data, rx_frame[r].len)
      /\ Continues(LastRef(r), rx_frame[r].data)
      /\ rx_frame[r].data # NU_NULL
  BY <1>1, <1>2, <1>4 DEF Link, RxOK, FrameOK, Carries, NU_NULL
<1>6. /\ HeadId(r) \in Nat \ {0} /\ LastRef(r) \in BufRef /\ LastRef(r) # NU_NULL
      /\ LastRef(r).id = HeadId(r) /\ headP[r] \in Seq(Segment)
      /\ 1 \in 1 .. Len(headP[r])
  BY <1>1, RefTypes, EndTypes
<1>7. CASE headP' = headP
  <2>1. HeadId(r)' = HeadId(r) /\ RcvEnd(r)' = LastRef(r)
    BY <1>1, <1>2, <1>7 DEF HeadId, RcvEnd, LastRef
  <2>2. HeadOK(e, r)'
    BY <1>1, <1>2, <1>3, <1>7, <2>1 DEF Link, HeadOK
  <2> QED
    BY <1>1, <1>4, <1>5, <1>6, <2>1, <2>2, Passed
<1>8. CASE headP' = [headP EXCEPT ![r] = Append(@, RxSegment(r))]
  <2>1. PICK h \in Seq(Segment), n \in Nat : h = headP[r] /\ n = Len(headP[r])
    BY <1>6
  <2>2. headP'[r] = Append(h, RxSegment(r)) /\ RxSegment(r) \in Segment
    BY <1>8, <2>1 DEF TypeOK, RxSegment, Segment, Frame
  <2>3. /\ Len(headP'[r]) = n + 1 /\ headP'[r][n + 1] = RxSegment(r)
        /\ \A i \in 1 .. n : headP'[r][i] = headP[r][i]
        /\ headP'[r] # <<>> /\ n # 0
    BY <1>1, <2>1, <2>2, AppendProperties
  <2>4. RxSegment(r).data = rx_frame[r].data /\ RxSegment(r).len = rx_frame[r].len
    BY DEF RxSegment
  <2>5. HeadId(r)' = HeadId(r) /\ RcvEnd(r)' = RcvEnd(r)
    BY <1>2, <1>4, <1>6, <2>1, <2>3, <2>4 DEF HeadId, RcvEnd, LastRef
  <2>6. rx_frame[r].data.id = HeadId(r) /\ rx_frame[r].data.seg > headP[r][n].data.seg
    <3>1. LastRef(r) = headP[r][n].data
      BY <2>1 DEF LastRef
    <3>2. LastRef(r).seg < rx_frame[r].data.seg /\ LastRef(r).seg \in Nat
          /\ rx_frame[r].data.seg \in Nat
      BY <1>5, <1>6, RefTypes DEF Continues, BufRef
    <3> QED
      BY <1>5, <1>6, <3>1, <3>2 DEF Continues
  <2>7. ASSUME NEW i \in 1 .. n + 1
        PROVE  /\ Carries(e, headP[r][i].data, headP[r][i].len)'
               /\ headP'[r][i].data.id = HeadId(r)
               /\ i > 1 => headP'[r][i].data.seg > headP'[r][i - 1].data.seg
    <3>1. CASE i \in 1 .. n
      <4>1. /\ Carries(e, headP[r][i].data, headP[r][i].len)
            /\ headP[r][i].data.id = HeadId(r)
            /\ i > 1 => headP[r][i].data.seg > headP[r][i - 1].data.seg
        BY <1>1, <2>1, <3>1 DEF Link, HeadOK
      <4>2. headP'[r][i] = headP[r][i] /\ (i > 1 => headP'[r][i - 1] = headP[r][i - 1])
        BY <2>3, <3>1
      <4>3. Carries(e, headP'[r][i].data, headP'[r][i].len)
        BY <4>1, <4>2
      <4>4. Carries(e, headP[r][i].data, headP[r][i].len)'
        BY <1>1, <4>3 DEF Carries
      <4> QED
        BY <4>1, <4>2, <4>4
    <3>2. CASE i = n + 1
      <4>1. headP'[r][i] = RxSegment(r) /\ headP'[r][i - 1] = headP[r][n]
        BY <2>3, <3>2
      <4>2. Carries(e, headP'[r][i].data, headP'[r][i].len)
        BY <1>5, <2>4, <4>1
      <4>3. Carries(e, headP[r][i].data, headP[r][i].len)'
        BY <1>1, <4>2 DEF Carries
      <4> QED
        BY <2>4, <2>6, <4>1, <4>3
    <3> QED
      BY <3>1, <3>2
  <2>8. HeadOK(e, r)'
    <3>1. headP'[r][1].data.seg = 1
      BY <1>1, <1>6, <2>1, <2>3 DEF Link, HeadOK
    <3>2. LastId(r)' < HeadId(r)'
      BY <1>1, <1>2, <2>5 DEF Link, HeadOK
    <3> QED
      BY <2>3, <2>5, <2>7, <3>1, <3>2 DEF HeadOK
  <2> QED
    BY <1>1, <2>5, <2>8, Passed
<1> QED
  BY <1>7, <1>8 DEF RxNext

\* Without a packet under reassembly nothing comes of the frame.
LEMMA Ignored ==
  ASSUME TypeOK, NEW e \in Endpoint, NEW r \in Endpoint, r = Peer(e), r # e, Link(e, r),
         RxIgnore(r)
  PROVE  Link(e, r)'
<1>1. /\ pc[r] = "rx" /\ headP[r] = <<>> /\ headP' = headP /\ EndPass(r)
      /\ UNCHANGED <<buf_ptr, tx_frame, transq, MEM_Buffer_List, sent, received>>
  BY DEF RxIgnore, stackVars
<1>2. pc'[r] \in {"sleep", "prep"} /\ ~Handling(r)'
  BY <1>1 DEF EndPass, TypeOK, Handling
<1>3. headP'[r] = <<>> /\ RcvEnd(r)' = NU_NULL
  BY <1>1, <1>2 DEF RcvEnd
<1>4. HeadOK(e, r)'
  BY <1>3 DEF HeadOK
<1> QED
  BY <1>1, <1>3, <1>4, Passed

-----------------------------------------------------------------------------
(* The inductive invariant, and the refinement *)

LEMMA Peers ==
  ASSUME NEW e \in Endpoint
  PROVE  /\ Peer(e) \in Endpoint /\ Peer(e) # e /\ Peer(Peer(e)) = e
         /\ \A x \in Endpoint : x = e \/ x = Peer(e)
BY DEF Endpoint, Peer

\* Only RxDispatch changes what the stack was given.
LEMMA GivenSame ==
  ASSUME TypeOK, NEW r \in Endpoint, [Next]_vars, ~RxDispatch(r)
  PROVE  GivenToStack(r)' = GivenToStack(r)
<1>1. ASSUME received'[r] = received[r] /\ MEM_Buffer_List'[r] = MEM_Buffer_List[r]
      PROVE  GivenToStack(r)' = GivenToStack(r)
  BY <1>1 DEF GivenToStack
<1>2. CASE DemuxInput(r)
  <2>1. PICK a \in Seq(Received), b \in Seq(Received) : a = received[r] /\ b = MEM_Buffer_List[r]
    BY EndTypes
  <2>2. /\ received'[r] = Append(a, Head(b)) /\ MEM_Buffer_List'[r] = Tail(b) /\ b # <<>>
    BY <1>2, <2>1 DEF DemuxInput, TypeOK
  <2>3. \A c, d \in Seq(Received) : d # <<>> => Append(c, Head(d)) \o Tail(d) = c \o d
    BY GivenMoves
  <2>4. Append(a, Head(b)) \o Tail(b) = a \o b
    BY ONLY <2>2, <2>3, a \in Seq(Received), b \in Seq(Received)
  <2>5. GivenToStack(r)' = Append(a, Head(b)) \o Tail(b)
    BY <2>2 DEF GivenToStack
  <2> QED
    BY <2>1, <2>4, <2>5 DEF GivenToStack
<1>3. ASSUME NEW x \in Endpoint, DemuxInput(x), x # r
      PROVE  received'[r] = received[r] /\ MEM_Buffer_List'[r] = MEM_Buffer_List[r]
  BY <1>3 DEF DemuxInput, TypeOK
<1>4. ASSUME NEW x \in Endpoint, RxDispatch(x), x # r
      PROVE  received'[r] = received[r] /\ MEM_Buffer_List'[r] = MEM_Buffer_List[r]
  BY <1>4 DEF RxDispatch, TypeOK
<1>5. CASE UNCHANGED <<received, MEM_Buffer_List>>
  BY <1>1, <1>5
<1>6. \/ \E x \in Endpoint : DemuxInput(x) \/ RxDispatch(x)
      \/ UNCHANGED <<received, MEM_Buffer_List>>
  BY DEF Next, IFSPI_Task, NET_Demux, Exchange, ETH_Ether_Send, TxBlank, TxFirst, TxNext,
         TxEmpty, RxNotify, RxFirst, RxNext, RxIgnore, Wake, DemuxEmpty, DemuxWake, vars,
         stackVars
<1> QED
  BY <1>1, <1>2, <1>3, <1>4, <1>5, <1>6

\* A step of the sending end.
LEMMA SenderStep ==
  ASSUME TypeOK, TxPointerLive, NEW e \in Endpoint, NEW r \in Endpoint, r = Peer(e), r # e,
         Link(e, r), GivenToStack(r)' = GivenToStack(r),
         IFSPI_Task(e) \/ NET_Demux(e) \/ ETH_Ether_Send(e)
  PROVE  Link(e, r)'
<1>1. CASE TxBlank(e) \/ TxEmpty(e)
  BY <1>1, BlankSent DEF TxBlank, TxEmpty, stackVars
<1>2. CASE TxFirst(e)
  <2>1. Head(transq[e]) \in Packet
    BY <1>2 DEF TxFirst, TypeOK
  <2>2. Head(transq[e]).lens \in Seq(Nat) /\ Head(transq[e]).lens # <<>>
    BY <2>1 DEF Packet
  <2>3. 1 \in 1 .. Len(Head(transq[e]).lens)
    BY <2>2
  <2> QED
    BY <1>2, <2>3, FrameSent DEF TxFirst
<1>3. CASE TxNext(e)
  <2>1. /\ transq[e] # <<>> /\ buf_ptr[e] # NU_NULL /\ buf_ptr[e] \in BufRef
        /\ buf_ptr[e].id = Head(transq[e]).id
        /\ buf_ptr[e].seg \in 2 .. Len(Head(transq[e]).lens)
    BY <1>3 DEF TxNext, TxPointerLive, TypeOK
  <2>2. PICK k : k = buf_ptr[e].seg
    OBVIOUS
  <2>3. buf_ptr[e] = [id |-> Head(transq[e]).id, seg |-> k]
    BY <2>1, <2>2 DEF BufRef
  <2>4. k \in 1 .. Len(Head(transq[e]).lens) /\ k # 1
    BY <2>1, <2>2
  <2>5. /\ SendSegment(e, k, FALSE) /\ pc[e] = "prep" /\ pc' = [pc EXCEPT ![e] = "xfer"]
        /\ UNCHANGED <<rx_frame, headP, MEM_Buffer_List, sent, received>>
    BY <1>3, <2>2 DEF TxNext
  <2> QED
    BY <2>1, <2>3, <2>4, <2>5, FrameSent
<1>4. CASE ETH_Ether_Send(e)
  BY <1>4, EtherSent
<1>5. CASE RxDispatch(e) \/ RxNotify(e) \/ RxFirst(e) \/ RxNext(e) \/ RxIgnore(e) \/ Wake(e)
  <2>1. Same(e, r)
    BY <1>5 DEF Same, TypeOK, RxDispatch, RxNotify, RxFirst, RxNext, RxIgnore, Wake, EndPass,
                stackVars
  <2> QED
    BY <2>1, SameKeeps
<1>6. CASE NET_Demux(e)
  <2>1. Same(e, r)
    BY <1>6 DEF Same, NET_Demux, DemuxInput, DemuxEmpty, DemuxWake, taskVars, stackVars
  <2> QED
    BY <2>1, SameKeeps
<1> QED
  BY <1>1, <1>2, <1>3, <1>4, <1>5, <1>6 DEF IFSPI_Task

\* A step of the receiving end.
LEMMA ReceiverStep ==
  ASSUME TypeOK, TxPointerLive, NEW e \in Endpoint, NEW r \in Endpoint, r = Peer(e), r # e,
         Link(e, r), ~RxDispatch(r) => GivenToStack(r)' = GivenToStack(r),
         IFSPI_Task(r) \/ NET_Demux(r) \/ ETH_Ether_Send(r)
  PROVE  Link(e, r)'
<1>1. CASE RxDispatch(r)
  BY <1>1, Dispatched
<1>2. CASE RxNotify(r)
  BY <1>2, Notified
<1>3. CASE RxFirst(r)
  BY <1>3, FirstReceived
<1>4. CASE RxNext(r)
  BY <1>4, NextReceived
<1>5. CASE RxIgnore(r)
  BY <1>5, Ignored
<1>6. CASE ~RxDispatch(r) /\ (TxBlank(r) \/ TxEmpty(r) \/ Wake(r))
  <2>1. Same(e, r)
    BY <1>6 DEF Same, TypeOK, TxBlank, TxEmpty, Wake, stackVars
  <2> QED
    BY <2>1, SameKeeps
<1>7. CASE ~RxDispatch(r) /\ (TxFirst(r) \/ TxNext(r))
  <2>1. /\ pc[r] = "prep" /\ pc' = [pc EXCEPT ![r] = "xfer"]
        /\ UNCHANGED <<rx_frame, headP, sent>>
    BY <1>7 DEF TxFirst, TxNext
  <2>2. \E k, fs : SendSegment(r, k, fs)
    BY <1>7 DEF TxFirst, TxNext
  <2>3. transq'[e] = transq[e] /\ buf_ptr'[e] = buf_ptr[e] /\ tx_frame'[e] = tx_frame[e]
    BY <2>2 DEF SendSegment, DEV_Recover_TX_Buffers, TypeOK
  <2>4. Same(e, r)
    BY <1>7, <2>1, <2>3 DEF Same, TypeOK
  <2> QED
    BY <2>4, SameKeeps
<1>8. CASE ~RxDispatch(r) /\ (NET_Demux(r) \/ ETH_Ether_Send(r))
  <2>1. Same(e, r)
    BY <1>8 DEF Same, TypeOK, NET_Demux, DemuxInput, DemuxEmpty, DemuxWake, ETH_Ether_Send,
                taskVars, stackVars
  <2> QED
    BY <2>1, SameKeeps
<1> QED
  BY <1>1, <1>2, <1>3, <1>4, <1>5, <1>6, <1>7, <1>8 DEF IFSPI_Task

\* The inductive invariant: in both directions, what is queued, under way and
\* under reassembly is of one packet after the other.
Links == \A e \in Endpoint : Link(e, Peer(e))

LEMMA LinksInit == Init => Links
<1> SUFFICES ASSUME Init, NEW e \in Endpoint
             PROVE  Link(e, Peer(e))
  BY DEF Links
<1>1. PICK r \in Endpoint : r = Peer(e)
  BY Peers
<1>2. /\ pc[e] = "prep" /\ pc[r] = "prep" /\ transq[e] = <<>> /\ buf_ptr[e] = NU_NULL
      /\ headP[r] = <<>> /\ sent[e] = <<>> /\ received[r] = <<>> /\ MEM_Buffer_List[r] = <<>>
  BY DEF Init
<1>3. GivenToStack(r) = <<>>
  BY <1>2 DEF GivenToStack
<1>4. LastId(r) = 0 /\ Done(e) = 0 /\ Begun(e) = 0 /\ ~Handling(r)
  BY <1>2, <1>3 DEF LastId, Done, Begun, Handling
<1>5. QueueOK(e)
  BY <1>2, <1>4 DEF QueueOK
<1> QED
  BY <1>1, <1>2, <1>4, <1>5 DEF Link, SeenOK, HeadOK, RxOK, TxOK, PtrOK

LEMMA LinksStep ==
  ASSUME TypeOK, TxPointerLive, Links, [Next]_vars
  PROVE  Links'
<1> SUFFICES ASSUME NEW e \in Endpoint
             PROVE  Link(e, Peer(e))'
  BY DEF Links
<1>1. PICK r \in Endpoint : r = Peer(e)
  BY Peers
<1>2. r # e /\ e = Peer(r) /\ \A x \in Endpoint : x = e \/ x = r
  BY <1>1, Peers
<1>3. Link(e, r)
  BY <1>1 DEF Links
<1>4. ~RxDispatch(r) => GivenToStack(r)' = GivenToStack(r)
  BY GivenSame
<1>5. CASE Exchange
  BY <1>1, <1>2, <1>3, <1>5, Exchanged
<1>6. CASE IFSPI_Task(e) \/ NET_Demux(e) \/ ETH_Ether_Send(e)
  <2>1. CASE RxDispatch(r)
    BY <1>1, <1>2, <1>3, <2>1, Dispatched
  <2>2. CASE ~RxDispatch(r)
    BY <1>1, <1>2, <1>3, <1>4, <1>6, <2>2, SenderStep
  <2> QED
    BY <2>1, <2>2
<1>7. CASE IFSPI_Task(r) \/ NET_Demux(r) \/ ETH_Ether_Send(r)
  BY <1>1, <1>2, <1>3, <1>4, <1>7, ReceiverStep
<1>8. CASE UNCHANGED vars
  <2>1. Same(e, r)
    BY <1>8 DEF Same, vars, taskVars, stackVars, GivenToStack
  <2> QED
    BY <1>1, <1>3, <2>1, SameKeeps
<1> QED
  BY <1>1, <1>2, <1>5, <1>6, <1>7, <1>8 DEF Next

LEMMA AppendGrows ==
  ASSUME NEW S, NEW s \in Seq(S), NEW x \in S
  PROVE  /\ Len(Append(s, x)) = Len(s) + 1 /\ SubSeq(Append(s, x), 1, Len(s)) = s
         /\ Append(s, x)[Len(Append(s, x))] = x
<1>1. PICK t \in Seq(S), n \in Nat : t = Append(s, x) /\ n = Len(s)
  <2>1. Append(s, x) \in Seq(S) /\ Len(s) \in Nat
    OBVIOUS
  <2> QED
    BY <2>1
<1>2. /\ Len(t) = n + 1 /\ t[n + 1] = x /\ \A i \in 1 .. n : t[i] = s[i]
  BY <1>1, AppendProperties
<1>3. \A i \in 1 .. n : t[i] \in S
  BY <1>1, <1>2
<1>4. PICK u \in Seq(S) : u = SubSeq(t, 1, n)
  <2>1. SubSeq(t, 1, n) \in Seq(S)
    <3>1. 1 \in Int /\ n \in Int
      OBVIOUS
    <3> QED
      BY ONLY <1>3, <3>1, SubSeqProperties
  <2> QED
    BY <2>1
<1>5. /\ Len(u) = n /\ \A i \in 1 .. n : u[i] = t[i]
  <2>1. /\ Len(SubSeq(t, 1, n)) = IF 1 <= n THEN (n - 1) + 1 ELSE 0
        /\ \A i \in 1 .. (n - 1) + 1 : SubSeq(t, 1, n)[i] = t[(1 + i) - 1]
    BY <1>3, SubSeqProperties
  <2>2. (IF 1 <= n THEN (n - 1) + 1 ELSE 0) = n /\ (n - 1) + 1 = n
        /\ \A i \in 1 .. n : (1 + i) - 1 = i
    OBVIOUS
  <2> QED
    BY <1>4, <2>1, <2>2
<1>6. u = s
  BY <1>1, <1>2, <1>5, SeqEqual
<1> QED
  BY <1>1, <1>2, <1>4, <1>6

\* A step of the channel from e to r: a packet is queued, or a packet made of
\* buffers of one that was sent behind those of the packets given so far goes
\* to the stack, or neither.
ChannelSends(e, r) ==
  /\ Len(sent'[e]) = Len(sent[e]) + 1 /\ SubSeq(sent'[e], 1, Len(sent[e])) = sent[e]
  /\ GivenToStack(r)' = GivenToStack(r)

IsGenuine(e, p) ==
  /\ Len(p.chain) > 0
  /\ p.chain[1].data.id \in 1 .. Len(sent[e])
  /\ p.chain[1].data.seg = 1
  /\ \A i \in 1 .. Len(p.chain) :
       /\ p.chain[i].data.id = p.chain[1].data.id
       /\ p.chain[i].data.seg \in 1 .. Len(sent[e][p.chain[1].data.id])
       /\ p.chain[i].len = Clamp(sent[e][p.chain[1].data.id][p.chain[i].data.seg])
       /\ i > 1 => p.chain[i].data.seg > p.chain[i - 1].data.seg

ChannelDelivers(e, r) ==
  /\ Len(GivenToStack(r)') = Len(GivenToStack(r)) + 1
  /\ SubSeq(GivenToStack(r)', 1, Len(GivenToStack(r))) = GivenToStack(r)
  /\ \E p : /\ p = GivenToStack(r)'[Len(GivenToStack(r)')]
            /\ IsGenuine(e, p)
            /\ p.chain[1].data.id > LastId(r)
  /\ sent'[e] = sent[e]

LEMMA QueuedStep ==
  ASSUME TypeOK, NEW e \in Endpoint, NEW r \in Endpoint, ETH_Ether_Send(e)
  PROVE  ChannelSends(e, r)
<1>1. PICK lens \in Chains : sent' = [sent EXCEPT ![e] = Append(@, lens)]
  BY DEF ETH_Ether_Send
<1>2. sent'[e] = Append(sent[e], lens) /\ lens \in Seq(Nat) /\ sent[e] \in Seq(Seq(Nat))
  BY <1>1, ChainsType DEF TypeOK
<1>3. /\ Len(sent'[e]) = Len(sent[e]) + 1 /\ SubSeq(sent'[e], 1, Len(sent[e])) = sent[e]
  BY <1>2, AppendGrows
<1>4. GivenToStack(r)' = GivenToStack(r)
  BY DEF ETH_Ether_Send, GivenToStack
<1> QED
  BY <1>3, <1>4 DEF ChannelSends

LEMMA DeliveredStep ==
  ASSUME TypeOK, NEW e \in Endpoint, NEW r \in Endpoint, Link(e, r), RxDispatch(r)
  PROVE  ChannelDelivers(e, r)
<1>1. PICK p \in Received, g \in Seq(Received) :
        /\ p = [total |-> pktSize[r], chain |-> headP[r]] /\ g = GivenToStack(r)
  BY EndTypes DEF TypeOK, Received
<1>2. GivenToStack(r)' = Append(g, p) /\ p.chain = headP[r]
  BY <1>1, DispatchGives
<1>3. /\ Len(Append(g, p)) = Len(g) + 1 /\ SubSeq(Append(g, p), 1, Len(g)) = g
      /\ Append(g, p)[Len(Append(g, p))] = p
  BY AppendGrows
<1>4. headP[r] # <<>> /\ pc[r] = "rx" /\ sent' = sent
  BY DEF RxDispatch
<1>5. 1 \in 1 .. Len(headP[r]) /\ headP[r] \in Seq(Segment) /\ HeadId(r) \in Nat
      /\ LastId(r) \in Nat
  BY <1>4, RefTypes, EndTypes
<1>6. /\ headP[r][1].data.seg = 1 /\ LastId(r) < HeadId(r)
      /\ \A i \in 1 .. Len(headP[r]) :
           /\ Carries(e, headP[r][i].data, headP[r][i].len)
           /\ headP[r][i].data.id = HeadId(r)
           /\ i > 1 => headP[r][i].data.seg > headP[r][i - 1].data.seg
  BY <1>4 DEF Link, HeadOK
<1>7. \A i \in 1 .. Len(headP[r]) :
        /\ headP[r][i].data.id = HeadId(r)
        /\ HeadId(r) \in 1 .. Len(sent[e])
        /\ headP[r][i].data.seg \in 1 .. Len(sent[e][HeadId(r)])
        /\ headP[r][i].len = Clamp(sent[e][HeadId(r)][headP[r][i].data.seg])
  BY <1>6 DEF Carries
<1>8. IsGenuine(e, p)
  <2>1. Len(headP[r]) > 0
    BY <1>4, <1>5, EmptySeq
  <2>2. headP[r][1].data.id = HeadId(r)
    BY DEF HeadId
  <2> QED
    BY <1>2, <1>5, <1>6, <1>7, <2>1, <2>2 DEF IsGenuine
<1>9. p.chain[1].data.id > LastId(r)
  BY <1>2, <1>5, <1>6 DEF HeadId
<1> QED
  BY <1>1, <1>2, <1>3, <1>4, <1>8, <1>9 DEF ChannelDelivers

LEMMA ChannelStep ==
  ASSUME TypeOK, Links, [Next]_vars, NEW e \in Endpoint, NEW r \in Endpoint, r = Peer(e)
  PROVE  \/ ChannelSends(e, r)
         \/ ChannelDelivers(e, r)
         \/ sent'[e] = sent[e] /\ GivenToStack(r)' = GivenToStack(r)
<1>1. CASE ETH_Ether_Send(e)
  BY <1>1, QueuedStep
<1>2. CASE RxDispatch(r)
  <2>1. Link(e, r)
    BY DEF Links
  <2> QED
    BY <1>2, <2>1, DeliveredStep
<1>3. CASE ~ETH_Ether_Send(e) /\ ~RxDispatch(r)
  <2>1. GivenToStack(r)' = GivenToStack(r)
    BY <1>3, GivenSame
  <2>2. (\E x \in Endpoint : ETH_Ether_Send(x)) \/ UNCHANGED sent
    BY DEF Next, IFSPI_Task, NET_Demux, Exchange, RxDispatch, TxBlank, TxFirst, TxNext,
           TxEmpty, RxNotify, RxFirst, RxNext, RxIgnore, Wake, DemuxInput, DemuxEmpty,
           DemuxWake, vars
  <2>3. ASSUME NEW x \in Endpoint, ETH_Ether_Send(x), x # e
        PROVE  sent'[e] = sent[e]
    BY <2>3 DEF ETH_Ether_Send, TypeOK
  <2> QED
    BY <1>3, <2>1, <2>2, <2>3
<1> QED
  BY <1>1, <1>2, <1>3

\* For every pool, buffer and packet size, and whenever receivers run out of
\* buffers: in each direction packets come to the stack in the order they were
\* queued, none twice, each made of its own buffers beginning with the first.
THEOREM LinkIsChannel == Spec => ImplementsChannel
<1>1. Init => MasterToSlave!Init /\ SlaveToMaster!Init
  <2>1. Init => /\ sent["master"] = <<>> /\ sent["slave"] = <<>>
                /\ received["master"] = <<>> /\ received["slave"] = <<>>
                /\ MEM_Buffer_List["master"] = <<>> /\ MEM_Buffer_List["slave"] = <<>>
    BY DEF Init, Endpoint
  <2> QED
    BY <2>1 DEF MasterToSlave!Init, SlaveToMaster!Init, GivenToStack
<1>2. TypeOK /\ Links /\ [Next]_vars => [MasterToSlave!Next]_(MasterToSlave!vars)
  <2> SUFFICES ASSUME TypeOK, Links, [Next]_vars
               PROVE  MasterToSlave!Next \/ UNCHANGED MasterToSlave!vars
    OBVIOUS
  <2>1. \/ ChannelSends("master", "slave")
        \/ ChannelDelivers("master", "slave")
        \/ sent'["master"] = sent["master"] /\ GivenToStack("slave")' = GivenToStack("slave")
    BY ChannelStep DEF Endpoint, Peer
  <2>2. CASE ChannelSends("master", "slave")
    BY <2>2 DEF ChannelSends, MasterToSlave!Next, MasterToSlave!Send, MasterToSlave!Grows
  <2>3. CASE ChannelDelivers("master", "slave")
    <3>1. \A p : IsGenuine("master", p) => MasterToSlave!Genuine(p)
      BY DEF IsGenuine, MasterToSlave!Genuine, MasterToSlave!Source, Clamp, AtMost
    <3>2. LastId("slave") = MasterToSlave!LastSource
      BY DEF LastId, MasterToSlave!LastSource, MasterToSlave!Source
    <3> QED
      BY <2>3, <3>1, <3>2 DEF ChannelDelivers, MasterToSlave!Next, MasterToSlave!Deliver,
         MasterToSlave!Grows, MasterToSlave!Source
  <2> QED
    BY <2>1, <2>2, <2>3 DEF MasterToSlave!vars
<1>3. TypeOK /\ Links /\ [Next]_vars => [SlaveToMaster!Next]_(SlaveToMaster!vars)
  <2> SUFFICES ASSUME TypeOK, Links, [Next]_vars
               PROVE  SlaveToMaster!Next \/ UNCHANGED SlaveToMaster!vars
    OBVIOUS
  <2>1. \/ ChannelSends("slave", "master")
        \/ ChannelDelivers("slave", "master")
        \/ sent'["slave"] = sent["slave"] /\ GivenToStack("master")' = GivenToStack("master")
    BY ChannelStep DEF Endpoint, Peer
  <2>2. CASE ChannelSends("slave", "master")
    BY <2>2 DEF ChannelSends, SlaveToMaster!Next, SlaveToMaster!Send, SlaveToMaster!Grows
  <2>3. CASE ChannelDelivers("slave", "master")
    <3>1. \A p : IsGenuine("slave", p) => SlaveToMaster!Genuine(p)
      BY DEF IsGenuine, SlaveToMaster!Genuine, SlaveToMaster!Source, Clamp, AtMost
    <3>2. LastId("master") = SlaveToMaster!LastSource
      BY DEF LastId, SlaveToMaster!LastSource, SlaveToMaster!Source
    <3> QED
      BY <2>3, <3>1, <3>2 DEF ChannelDelivers, SlaveToMaster!Next, SlaveToMaster!Deliver,
         SlaveToMaster!Grows, SlaveToMaster!Source
  <2> QED
    BY <2>1, <2>2, <2>3 DEF SlaveToMaster!vars
<1>4. TypeOK /\ TxPointerLive /\ Links /\ [Next]_vars => Links'
  BY LinksStep
<1> QED
  BY <1>1, <1>2, <1>3, <1>4, LinksInit, PointerIsLive, PTL
     DEF Spec, ImplementsChannel, MasterToSlave!Spec, SlaveToMaster!Spec

-----------------------------------------------------------------------------
(* Sums over sequences *)

LEMMA UnitsMembers ==
  ASSUME NEW n
  PROVE  /\ \A i \in 1 .. Len(n) : \A k \in 1 .. n[i] : <<i, k>> \in Units(n)
         /\ \A x \in Units(n) :
              \E i \in 1 .. Len(n) : \E k \in 1 .. n[i] : x = <<i, k>>
BY DEF Units

\* A column of x units.
LEMMA ColumnSize ==
  ASSUME NEW i, NEW x \in Nat
  PROVE  IsFiniteSet({i} \X (1 .. x)) /\ Cardinality({i} \X (1 .. x)) = x
<1>1. IsFiniteSet(1 .. x) /\ Cardinality(1 .. x) = x
  BY FS_Interval
<1>2. IsFiniteSet({i}) /\ Cardinality({i}) = 1
  BY FS_Singleton
<1>. QED  BY <1>1, <1>2, FS_Product

LEMMA UnitsFinite ==
  ASSUME NEW n \in Seq(Nat)
  PROVE  IsFiniteSet(Units(n)) /\ Sum(n) \in Nat
<1> DEFINE D == 1 .. Len(n)
           R == {{i} \X (1 .. n[i]) : i \in D}
           f == [i \in D |-> {i} \X (1 .. n[i])]
<1>1. IsFiniteSet(D)
  BY FS_Interval
<1>2. f \in Surjection(D, R)
  BY DEF Surjection
<1>3. IsFiniteSet(R)
  BY <1>1, <1>2, FS_Surjection
<1>4. ASSUME NEW i \in D
      PROVE  IsFiniteSet({i} \X (1 .. n[i]))
  <2>1. PICK x \in Nat : x = n[i]
    OBVIOUS
  <2>. QED  BY <2>1, ColumnSize
<1>5. \A T \in R : IsFiniteSet(T)
  BY <1>4
<1>6. IsFiniteSet(Units(n))
  <2> HIDE DEF R, D
  <2>1. IsFiniteSet(UNION R)
    BY <1>3, <1>5, FS_UNION
  <2>. QED  BY <2>1 DEF R, D, Units
<1>. QED  BY <1>6, FS_CardinalityType DEF Sum

LEMMA SumEmpty == Sum(<<>>) = 0
<1>1. Units(<<>>) = {}
  BY DEF Units
<1>. QED  BY <1>1, FS_EmptySet DEF Sum

\* Disjoint sets.
LEMMA CardDisjoint ==
  ASSUME NEW S, NEW T, IsFiniteSet(S), IsFiniteSet(T), S \cap T = {}
  PROVE  Cardinality(S \cup T) = Cardinality(S) + Cardinality(T)
<1>1. /\ Cardinality(S) \in Nat /\ Cardinality(T) \in Nat
      /\ Cardinality(S \cap T) = 0
  BY FS_CardinalityType, FS_EmptySet
<1>2. Cardinality(S \cup T) = Cardinality(S) + Cardinality(T) - Cardinality(S \cap T)
  BY FS_Union
<1>. QED  BY <1>1, <1>2

\* m is n with one number more at its end.
LEMMA SumGrows ==
  ASSUME NEW n \in Seq(Nat), NEW m \in Seq(Nat), Len(m) = Len(n) + 1,
         \A i \in 1 .. Len(n) : m[i] = n[i]
  PROVE  Sum(m) = Sum(n) + m[Len(m)]
<1>1. PICK l \in Nat : l = Len(n)
  OBVIOUS
<1>2. PICK x \in Nat : x = m[l + 1]
  BY <1>1
<1> DEFINE C == {l + 1} \X (1 .. x)
<1>3. C \cap Units(n) = {}
  <2> SUFFICES ASSUME NEW c \in Units(n), c \in C PROVE FALSE
    OBVIOUS
  <2>1. PICK i \in 1 .. l : \E k \in 1 .. n[i] : c = <<i, k>>
    BY <1>1, UnitsMembers
  <2>. QED  BY <2>1
<1>4. ASSUME NEW c \in Units(m)
      PROVE  c \in Units(n) \cup C
  <2>1. PICK i \in 1 .. l + 1 : \E k \in 1 .. m[i] : c = <<i, k>>
    BY <1>1, UnitsMembers
  <2>2. PICK k \in 1 .. m[i] : c = <<i, k>>
    BY <2>1
  <2>3. CASE i = l + 1
    BY <1>2, <2>2, <2>3
  <2>4. CASE i \in 1 .. l
    BY <1>1, <2>2, <2>4, UnitsMembers
  <2>. QED  BY <2>3, <2>4
<1>5. ASSUME NEW c \in Units(n)
      PROVE  c \in Units(m)
  <2>1. PICK i \in 1 .. l : \E k \in 1 .. n[i] : c = <<i, k>>
    BY <1>1, UnitsMembers
  <2>2. i \in 1 .. Len(m) /\ m[i] = n[i]
    BY <1>1
  <2>. QED  BY <2>1, <2>2, UnitsMembers
<1>6. ASSUME NEW c \in C
      PROVE  c \in Units(m)
  <2>1. PICK k \in 1 .. x : c = <<l + 1, k>>
    OBVIOUS
  <2>2. l + 1 \in 1 .. Len(m) /\ x = m[l + 1]
    BY <1>1, <1>2
  <2>. QED  BY <2>1, <2>2, UnitsMembers
<1> HIDE DEF C
<1>7. Units(m) = Units(n) \cup C
  BY <1>4, <1>5, <1>6
<1>8. IsFiniteSet(C) /\ Cardinality(C) = x
  BY ColumnSize DEF C
<1>. QED  BY <1>1, <1>2, <1>3, <1>7, <1>8, UnitsFinite, CardDisjoint DEF Sum

\* m is n without its first number.
LEMMA SumShrinks ==
  ASSUME NEW n \in Seq(Nat), NEW m \in Seq(Nat), Len(n) = Len(m) + 1,
         \A i \in 1 .. Len(m) : m[i] = n[i + 1]
  PROVE  Sum(n) = Sum(m) + n[1]
<1>1. PICK l \in Nat : l = Len(m)
  OBVIOUS
<1>2. PICK x \in Nat : x = n[1]
  BY <1>1
<1>0. \A c \in Units(m) : \E i \in 1 .. l : \E k \in 1 .. m[i] : c = <<i, k>>
  BY <1>1, UnitsMembers
<1>01. \A c \in Units(n) : \E i \in 1 .. l + 1 : \E k \in 1 .. n[i] : c = <<i, k>>
  BY <1>1, UnitsMembers
<1> DEFINE C == {1} \X (1 .. x)
           B == Units(n) \ C
           f == [c \in Units(m) |-> <<c[1] + 1, c[2]>>]
<1>3. ASSUME NEW c \in B
      PROVE  \E i \in 1 .. l : \E k \in 1 .. m[i] : c = <<i + 1, k>>
  <2>1. PICK i \in 1 .. l + 1 : \E k \in 1 .. n[i] : c = <<i, k>>
    BY <1>01
  <2>2. PICK k \in 1 .. n[i] : c = <<i, k>>
    BY <2>1
  <2>3. i # 1
    BY <1>2, <2>2
  <2>4. PICK j \in 1 .. l : i = j + 1
    <3>1. i - 1 \in 1 .. l /\ i = (i - 1) + 1
      BY <2>3
    <3>. QED  BY <3>1
  <2>5. m[j] = n[i]
    BY <1>1, <2>4
  <2>. QED  BY <2>2, <2>4, <2>5
<1>4. ASSUME NEW i \in 1 .. l, NEW k \in 1 .. m[i]
      PROVE  <<i + 1, k>> \in B
  <2>1. i + 1 \in 1 .. Len(n) /\ k \in 1 .. n[i + 1] /\ i + 1 # 1
    BY <1>1
  <2>2. PICK j \in Nat : j = i + 1
    OBVIOUS
  <2>. QED  BY <2>1, <2>2, UnitsMembers
<1>5. f \in [Units(m) -> B]
  <2> SUFFICES ASSUME NEW c \in Units(m) PROVE <<c[1] + 1, c[2]>> \in B
    OBVIOUS
  <2>1. PICK i \in 1 .. l : \E k \in 1 .. m[i] : c = <<i, k>>
    BY <1>0
  <2>. QED  BY <1>4, <2>1
<1>6. ASSUME NEW b \in B
      PROVE  \E c \in Units(m) : f[c] = b
  <2>1. PICK i \in 1 .. l : \E k \in 1 .. m[i] : b = <<i + 1, k>>
    BY <1>3
  <2>2. PICK k \in 1 .. m[i] : b = <<i + 1, k>>
    BY <2>1
  <2>3. <<i, k>> \in Units(m)
    BY <1>1, UnitsMembers
  <2>. QED  BY <2>2, <2>3
<1>7. \A c, d \in Units(m) : f[c] = f[d] => c = d
  <2> SUFFICES ASSUME NEW c \in Units(m), NEW d \in Units(m), f[c] = f[d]
               PROVE  c = d
    OBVIOUS
  <2>1. PICK i \in 1 .. l : \E k \in 1 .. m[i] : c = <<i, k>>
    BY <1>0
  <2>2. PICK j \in 1 .. l : \E k \in 1 .. m[j] : d = <<j, k>>
    BY <1>0
  <2>. QED  BY <2>1, <2>2
<1>8. f \in Bijection(Units(m), B)
  <2> HIDE DEF f, B
  <2>1. f \in Injection(Units(m), B)
    BY <1>5, <1>7, Fun_IsInj
  <2>2. f \in Surjection(Units(m), B)
    BY <1>5, <1>6 DEF Surjection
  <2>. QED  BY <2>1, <2>2 DEF Bijection
<1>9. IsFiniteSet(B) /\ Cardinality(B) = Sum(m)
  <2> HIDE DEF f, B
  <2>1. ExistsBijection(Units(m), B)
    BY <1>8 DEF ExistsBijection
  <2>. QED  BY <2>1, UnitsFinite, FS_Bijection DEF Sum
<1>10. C \subseteq Units(n)
  <2> SUFFICES ASSUME NEW k \in 1 .. x PROVE <<1, k>> \in Units(n)
    OBVIOUS
  <2>. QED  BY <1>1, <1>2, UnitsMembers
<1>11. Units(n) = B \cup C /\ B \cap C = {}
  BY <1>10
<1>12. IsFiniteSet(C) /\ Cardinality(C) = x
  BY ColumnSize
<1> HIDE DEF B, C
<1>. QED  BY <1>2, <1>9, <1>11, <1>12, CardDisjoint DEF Sum

\* A bound: no place has more than b.
LEMMA SumBound ==
  ASSUME NEW n \in Seq(Nat), NEW b \in Nat, \A i \in 1 .. Len(n) : n[i] <= b
  PROVE  Sum(n) <= Len(n) * b
<1>1. PICK l \in Nat : l = Len(n)
  OBVIOUS
<1>2. IsFiniteSet((1 .. l) \X (1 .. b)) /\ Cardinality((1 .. l) \X (1 .. b)) = l * b
  <2>1. IsFiniteSet(1 .. l) /\ Cardinality(1 .. l) = l
    BY FS_Interval
  <2>2. IsFiniteSet(1 .. b) /\ Cardinality(1 .. b) = b
    BY FS_Interval
  <2>. QED  BY <2>1, <2>2, FS_Product
<1>3. Units(n) \subseteq (1 .. l) \X (1 .. b)
  <2> SUFFICES ASSUME NEW c \in Units(n) PROVE c \in (1 .. l) \X (1 .. b)
    OBVIOUS
  <2>1. PICK i \in 1 .. l : \E k \in 1 .. n[i] : c = <<i, k>>
    BY <1>1, UnitsMembers
  <2>2. PICK k \in 1 .. n[i] : c = <<i, k>>
    BY <2>1
  <2>3. n[i] \in Nat /\ n[i] <= b
    BY <1>1
  <2>. QED  BY <2>2, <2>3
<1>4. Cardinality(Units(n)) <= Cardinality((1 .. l) \X (1 .. b))
  BY <1>2, <1>3, FS_Subset
<1>. QED  BY <1>1, <1>2, <1>4 DEF Sum

-----------------------------------------------------------------------------
(* Where the buffers are *)

LEMMA QueuedType ==
  ASSUME NEW q \in Seq(Packet)
  PROVE  QueuedLens(q) \in Seq(Nat) /\ Len(QueuedLens(q)) = Len(q)
         /\ \A i \in 1 .. Len(q) : QueuedLens(q)[i] = Len(q[i].lens)
<1>1. PICK n \in Nat : n = Len(q)
  OBVIOUS
<1>2. ASSUME NEW i \in 1 .. n
      PROVE  Len(q[i].lens) \in Nat
  <2>0. q[i] \in Packet
    BY <1>1
  <2>1. q[i].lens \in Seq(Nat)
    BY <2>0 DEF Packet
  <2>. QED  BY <2>1
<1>. QED  BY <1>1, <1>2 DEF QueuedLens

LEMMA QueuedSum ==
  ASSUME NEW q \in Seq(Packet)
  PROVE  Sum(QueuedLens(q)) \in Nat
BY QueuedType, UnitsFinite

LEMMA QueuedBehind ==
  ASSUME NEW q \in Seq(Packet), NEW p \in Packet
  PROVE  Sum(QueuedLens(Append(q, p))) = Sum(QueuedLens(q)) + Len(p.lens)
<1>0. Append(q, p) \in Seq(Packet) /\ Len(q) \in Nat
  OBVIOUS
<1>1. PICK t \in Seq(Packet), n \in Nat : t = Append(q, p) /\ n = Len(q)
  BY <1>0
<1>2. Len(t) = n + 1 /\ t[n + 1] = p /\ \A i \in 1 .. n : t[i] = q[i]
  BY <1>1, AppendProperties
<1>3. PICK a \in Seq(Nat), b \in Seq(Nat) : a = QueuedLens(q) /\ b = QueuedLens(t)
  BY QueuedType
<1>4. Len(a) = n /\ \A i \in 1 .. n : a[i] = Len(q[i].lens)
  BY <1>1, <1>3, QueuedType
<1>5. Len(b) = n + 1 /\ \A i \in 1 .. n + 1 : b[i] = Len(t[i].lens)
  BY <1>2, <1>3, QueuedType
<1>6. (\A i \in 1 .. n : b[i] = a[i]) /\ b[n + 1] = Len(p.lens)
  <2>1. ASSUME NEW i \in 1 .. n
        PROVE  b[i] = a[i]
    <3>1. i \in 1 .. n + 1 /\ t[i] = q[i]
      BY <1>2
    <3>2. b[i] = Len(t[i].lens) /\ a[i] = Len(q[i].lens)
      BY <1>4, <1>5, <3>1
    <3>. QED  BY <3>1, <3>2
  <2>2. n + 1 \in 1 .. n + 1
    OBVIOUS
  <2>3. b[n + 1] = Len(t[n + 1].lens)
    BY <1>5, <2>2
  <2>. QED  BY <1>2, <2>1, <2>3
<1>7. Sum(b) = Sum(a) + Len(p.lens)
  BY <1>4, <1>5, <1>6, SumGrows
<1>. QED  BY <1>1, <1>3, <1>7

LEMMA QueuedTail ==
  ASSUME NEW q \in Seq(Packet), q # <<>>
  PROVE  Sum(QueuedLens(q)) = Sum(QueuedLens(Tail(q))) + Len(Head(q).lens)
<1>0. Tail(q) \in Seq(Packet) /\ Len(Tail(q)) \in Nat
  BY HeadTailProperties
<1>1. PICK t \in Seq(Packet), n \in Nat : t = Tail(q) /\ n = Len(t)
  BY <1>0
<1>2. Len(q) = n + 1 /\ q[1] = Head(q) /\ \A i \in 1 .. n : t[i] = q[i + 1]
  BY <1>1, HeadTailProperties
<1>3. PICK a \in Seq(Nat), b \in Seq(Nat) : a = QueuedLens(q) /\ b = QueuedLens(t)
  BY QueuedType
<1>4. Len(a) = n + 1 /\ \A i \in 1 .. n + 1 : a[i] = Len(q[i].lens)
  BY <1>2, <1>3, QueuedType
<1>5. Len(b) = n /\ \A i \in 1 .. n : b[i] = Len(t[i].lens)
  BY <1>1, <1>3, QueuedType
<1>6. (\A i \in 1 .. n : b[i] = a[i + 1]) /\ a[1] = Len(Head(q).lens)
  <2>1. ASSUME NEW i \in 1 .. n
        PROVE  b[i] = a[i + 1]
    <3>1. PICK j \in 1 .. n + 1 : j = i + 1
      OBVIOUS
    <3>2. b[i] = Len(t[i].lens) /\ a[j] = Len(q[j].lens) /\ t[i] = q[j]
      BY <1>2, <1>4, <1>5, <3>1
    <3>. QED  BY <3>1, <3>2
  <2>2. 1 \in 1 .. n + 1
    OBVIOUS
  <2>3. a[1] = Len(q[1].lens)
    BY <1>4, <2>2
  <2>. QED  BY <1>2, <2>1, <2>3
<1>7. Sum(a) = Sum(b) + Len(Head(q).lens)
  BY <1>4, <1>5, <1>6, SumShrinks
<1>. QED  BY <1>1, <1>3, <1>7

\* The head packet with a length clamped has as many buffers.
LEMMA QueuedRewritten ==
  ASSUME NEW q \in Seq(Packet), q # <<>>, NEW p \in Packet,
         Len(p.lens) = Len(Head(q).lens)
  PROVE  Sum(QueuedLens(<<p>> \o Tail(q))) = Sum(QueuedLens(q))
<1>0. Len(q) \in Nat /\ <<p>> \o Tail(q) \in Seq(Packet)
  OBVIOUS
<1>1. PICK n \in Nat, t \in Seq(Packet) :
        n = Len(q) /\ t = <<p>> \o Tail(q)
  BY <1>0
<1>2. /\ Len(t) = n /\ n # 0 /\ t[1] = p /\ q[1] = Head(q)
      /\ \A i \in 2 .. n : t[i] = q[i]
  <2>1. /\ Tail(q) \in Seq(Packet) /\ Len(Tail(q)) = n - 1 /\ n # 0 /\ q[1] = Head(q)
        /\ \A i \in 1 .. Len(Tail(q)) : Tail(q)[i] = q[i + 1]
    BY <1>1, HeadTailProperties
  <2>2. /\ <<p>> \in Seq(Packet) /\ Len(<<p>>) = 1 /\ <<p>>[1] = p
    OBVIOUS
  <2>3. PICK o \in Seq(Packet), u \in Seq(Packet), l \in Nat :
          o = <<p>> /\ u = Tail(q) /\ l = Len(u) /\ l = n - 1
    <3>1. Len(Tail(q)) \in Nat
      BY <2>1
    <3>. QED  BY <2>1, <2>2, <3>1
  <2>4. /\ Len(o \o u) = Len(o) + Len(u)
        /\ \A i \in 1 .. Len(o) + Len(u) :
             (o \o u)[i] = IF i <= Len(o) THEN o[i] ELSE u[i - Len(o)]
    BY ConcatProperties
  <2>5. t = o \o u /\ Len(o) = 1 /\ o[1] = p /\ \A i \in 1 .. l : u[i] = q[i + 1]
    BY <1>1, <2>1, <2>2, <2>3
  <2>6. ASSUME NEW i \in 2 .. n
        PROVE  t[i] = q[i]
    <3>1. PICK j \in 1 .. l : i = j + 1
      <4>1. i - 1 \in 1 .. l /\ i = (i - 1) + 1
        BY <2>3
      <4>. QED  BY <4>1
    <3>2. t[i] = u[j]
      BY <2>3, <2>4, <2>5, <3>1
    <3>. QED  BY <2>5, <3>1, <3>2
  <2>7. Len(t) = n /\ t[1] = p
    BY <2>1, <2>3, <2>4, <2>5
  <2>. QED  BY <2>1, <2>6, <2>7
<1>3. QueuedLens(t) = QueuedLens(q)
  <2>1. \A i \in 1 .. n : Len(t[i].lens) = Len(q[i].lens)
    BY <1>2
  <2>. QED  BY <1>1, <1>2, <2>1 DEF QueuedLens
<1>. QED  BY <1>1, <1>3

LEMMA ChainType ==
  ASSUME NEW q \in Seq(Received)
  PROVE  ChainLens(q) \in Seq(Nat) /\ Len(ChainLens(q)) = Len(q)
         /\ \A i \in 1 .. Len(q) : ChainLens(q)[i] = Len(q[i].chain)
<1>1. PICK n \in Nat : n = Len(q)
  OBVIOUS
<1>2. ASSUME NEW i \in 1 .. n
      PROVE  Len(q[i].chain) \in Nat
  <2>0. q[i] \in Received
    BY <1>1
  <2>1. q[i].chain \in Seq(Segment)
    BY <2>0 DEF Received
  <2>. QED  BY <2>1
<1>. QED  BY <1>1, <1>2 DEF ChainLens

LEMMA ChainSum ==
  ASSUME NEW q \in Seq(Received)
  PROVE  Sum(ChainLens(q)) \in Nat
BY ChainType, UnitsFinite

LEMMA ChainBehind ==
  ASSUME NEW q \in Seq(Received), NEW p \in Received
  PROVE  Sum(ChainLens(Append(q, p))) = Sum(ChainLens(q)) + Len(p.chain)
<1>0. Append(q, p) \in Seq(Received) /\ Len(q) \in Nat
  OBVIOUS
<1>1. PICK t \in Seq(Received), n \in Nat : t = Append(q, p) /\ n = Len(q)
  BY <1>0
<1>2. Len(t) = n + 1 /\ t[n + 1] = p /\ \A i \in 1 .. n : t[i] = q[i]
  BY <1>1, AppendProperties
<1>3. PICK a \in Seq(Nat), b \in Seq(Nat) : a = ChainLens(q) /\ b = ChainLens(t)
  BY ChainType
<1>4. Len(a) = n /\ \A i \in 1 .. n : a[i] = Len(q[i].chain)
  BY <1>1, <1>3, ChainType
<1>5. Len(b) = n + 1 /\ \A i \in 1 .. n + 1 : b[i] = Len(t[i].chain)
  BY <1>2, <1>3, ChainType
<1>6. (\A i \in 1 .. n : b[i] = a[i]) /\ b[n + 1] = Len(p.chain)
  <2>1. ASSUME NEW i \in 1 .. n
        PROVE  b[i] = a[i]
    <3>1. i \in 1 .. n + 1 /\ t[i] = q[i]
      BY <1>2
    <3>2. b[i] = Len(t[i].chain) /\ a[i] = Len(q[i].chain)
      BY <1>4, <1>5, <3>1
    <3>. QED  BY <3>1, <3>2
  <2>2. n + 1 \in 1 .. n + 1
    OBVIOUS
  <2>3. b[n + 1] = Len(t[n + 1].chain)
    BY <1>5, <2>2
  <2>. QED  BY <1>2, <2>1, <2>3
<1>7. Sum(b) = Sum(a) + Len(p.chain)
  BY <1>4, <1>5, <1>6, SumGrows
<1>. QED  BY <1>1, <1>3, <1>7

LEMMA ChainTail ==
  ASSUME NEW q \in Seq(Received), q # <<>>
  PROVE  Sum(ChainLens(q)) = Sum(ChainLens(Tail(q))) + Len(Head(q).chain)
<1>0. Tail(q) \in Seq(Received) /\ Len(Tail(q)) \in Nat
  BY HeadTailProperties
<1>1. PICK t \in Seq(Received), n \in Nat : t = Tail(q) /\ n = Len(t)
  BY <1>0
<1>2. Len(q) = n + 1 /\ q[1] = Head(q) /\ \A i \in 1 .. n : t[i] = q[i + 1]
  BY <1>1, HeadTailProperties
<1>3. PICK a \in Seq(Nat), b \in Seq(Nat) : a = ChainLens(q) /\ b = ChainLens(t)
  BY ChainType
<1>4. Len(a) = n + 1 /\ \A i \in 1 .. n + 1 : a[i] = Len(q[i].chain)
  BY <1>2, <1>3, ChainType
<1>5. Len(b) = n /\ \A i \in 1 .. n : b[i] = Len(t[i].chain)
  BY <1>1, <1>3, ChainType
<1>6. (\A i \in 1 .. n : b[i] = a[i + 1]) /\ a[1] = Len(Head(q).chain)
  <2>1. ASSUME NEW i \in 1 .. n
        PROVE  b[i] = a[i + 1]
    <3>1. PICK j \in 1 .. n + 1 : j = i + 1
      OBVIOUS
    <3>2. b[i] = Len(t[i].chain) /\ a[j] = Len(q[j].chain) /\ t[i] = q[j]
      BY <1>2, <1>4, <1>5, <3>1
    <3>. QED  BY <3>1, <3>2
  <2>2. 1 \in 1 .. n + 1
    OBVIOUS
  <2>3. a[1] = Len(q[1].chain)
    BY <1>4, <2>2
  <2>. QED  BY <1>2, <2>1, <2>3
<1>7. Sum(a) = Sum(b) + Len(Head(q).chain)
  BY <1>4, <1>5, <1>6, SumShrinks
<1>. QED  BY <1>1, <1>3, <1>7

LEMMA DataType ==
  ASSUME NEW s \in Seq(Segment)
  PROVE  DataLens(s) \in Seq(Nat) /\ Len(DataLens(s)) = Len(s)
         /\ \A i \in 1 .. Len(s) : DataLens(s)[i] = s[i].len
<1>1. PICK n \in Nat : n = Len(s)
  OBVIOUS
<1>2. ASSUME NEW i \in 1 .. n
      PROVE  s[i].len \in Nat
  <2>1. s[i] \in Segment
    BY <1>1
  <2>. QED  BY <2>1 DEF Segment
<1>. QED  BY <1>1, <1>2 DEF DataLens

LEMMA DataBehind ==
  ASSUME NEW s \in Seq(Segment), NEW x \in Segment
  PROVE  Sum(DataLens(Append(s, x))) = Sum(DataLens(s)) + x.len
<1>0. Append(s, x) \in Seq(Segment) /\ Len(s) \in Nat
  OBVIOUS
<1>1. PICK t \in Seq(Segment), n \in Nat : t = Append(s, x) /\ n = Len(s)
  BY <1>0
<1>2. Len(t) = n + 1 /\ t[n + 1] = x /\ \A i \in 1 .. n : t[i] = s[i]
  BY <1>1, AppendProperties
<1>3. PICK a \in Seq(Nat), b \in Seq(Nat) : a = DataLens(s) /\ b = DataLens(t)
  BY DataType
<1>4. Len(a) = n /\ \A i \in 1 .. n : a[i] = s[i].len
  BY <1>1, <1>3, DataType
<1>5. Len(b) = n + 1 /\ \A i \in 1 .. n + 1 : b[i] = t[i].len
  BY <1>2, <1>3, DataType
<1>6. (\A i \in 1 .. n : b[i] = a[i]) /\ b[n + 1] = x.len
  <2>1. ASSUME NEW i \in 1 .. n
        PROVE  b[i] = a[i]
    <3>1. i \in 1 .. n + 1 /\ t[i] = s[i]
      BY <1>2
    <3>2. b[i] = t[i].len /\ a[i] = s[i].len
      BY <1>4, <1>5, <3>1
    <3>. QED  BY <3>1, <3>2
  <2>2. n + 1 \in 1 .. n + 1
    OBVIOUS
  <2>3. b[n + 1] = t[n + 1].len
    BY <1>5, <2>2
  <2>. QED  BY <1>2, <2>1, <2>3
<1>7. Sum(b) = Sum(a) + x.len
  BY <1>4, <1>5, <1>6, SumGrows
<1>. QED  BY <1>1, <1>3, <1>7

LEMMA NoneSummed ==
  Sum(QueuedLens(<<>>)) = 0 /\ Sum(ChainLens(<<>>)) = 0 /\ Sum(DataLens(<<>>)) = 0
<1>1. QueuedLens(<<>>) = <<>> /\ ChainLens(<<>>) = <<>> /\ DataLens(<<>>) = <<>>
  BY DEF QueuedLens, ChainLens, DataLens
<1>. QED  BY <1>1, SumEmpty

LEMMA DataOne ==
  ASSUME NEW x \in Segment
  PROVE  Sum(DataLens(<<x>>)) = x.len
<1>1. <<>> \in Seq(Segment) /\ Append(<<>>, x) = <<x>>
  OBVIOUS
<1>2. x.len \in Nat
  BY DEF Segment
<1>3. Sum(DataLens(Append(<<>>, x))) = Sum(DataLens(<<>>)) + x.len
  BY <1>1, DataBehind
<1>. QED  BY <1>1, <1>2, <1>3, NoneSummed

-----------------------------------------------------------------------------
(* No buffer is lost *)

\* The buffers of an end in its transmit queue, under reassembly and with its
\* stack.
Queued(e)     == Sum(QueuedLens(transq[e]))
Assembling(e) == IF pc[e] = "notify" THEN 0 ELSE Len(headP[e])
Given(e)      == Sum(ChainLens(MEM_Buffer_List[e]))

ConservedAt(e) == free[e] + Queued(e) + Assembling(e) + Given(e) = MAX_BUFFERS

LEMMA ConservedParts == BuffersConserved <=> \A e \in Endpoint : ConservedAt(e)
BY DEF BuffersConserved, ConservedAt, Queued, Assembling, Given

LEMMA ConservedTypes ==
  ASSUME TypeOK, NEW e \in Endpoint
  PROVE  /\ free[e] \in Nat /\ Queued(e) \in Nat /\ Assembling(e) \in Nat
         /\ Given(e) \in Nat
<1>1. free[e] \in Nat
  BY DEF TypeOK
<1>2. Queued(e) \in Nat
  BY EndTypes, QueuedSum DEF Queued
<1>3. Assembling(e) \in Nat
  BY EndTypes DEF Assembling
<1>4. Given(e) \in Nat
  BY EndTypes, ChainSum DEF Given
<1>. QED  BY <1>1, <1>2, <1>3, <1>4

\* The buffers of end f are where they were.
Untouched(f) ==
  /\ transq'[f] = transq[f] /\ free'[f] = free[f] /\ headP'[f] = headP[f]
  /\ MEM_Buffer_List'[f] = MEM_Buffer_List[f]
  /\ pc'[f] = "notify" <=> pc[f] = "notify"

LEMMA UntouchedKeeps ==
  ASSUME NEW f, ConservedAt(f), Untouched(f)
  PROVE  ConservedAt(f)'
BY DEF Untouched, ConservedAt, Queued, Assembling, Given

\* A packet queued takes its buffers from the free list.
LEMMA SendConserves ==
  ASSUME TypeOK, NEW e \in Endpoint, ConservedAt(e), ETH_Ether_Send(e)
  PROVE  ConservedAt(e)'
<1>1. PICK lens \in Chains :
        /\ Len(lens) <= free[e]
        /\ free' = [free EXCEPT ![e] = @ - Len(lens)]
        /\ transq' = [transq EXCEPT ![e] =
                        Append(@, [id |-> Len(sent[e]) + 1, lens |-> lens])]
  BY DEF ETH_Ether_Send
<1>2. PICK p : p = [id |-> Len(sent[e]) + 1, lens |-> lens]
  OBVIOUS
<1>3. p \in Packet /\ p.lens = lens /\ lens \in Seq(Nat)
  <2>1. Len(sent[e]) \in Nat
    BY EndTypes
  <2>. QED  BY <1>2, <2>1, ChainsType DEF Packet
<1>4. /\ transq'[e] = Append(transq[e], p) /\ free'[e] = free[e] - Len(lens)
      /\ UNCHANGED <<pc, headP, MEM_Buffer_List>>
  BY <1>1, <1>2 DEF TypeOK, ETH_Ether_Send, taskVars
<1>5. Queued(e)' = Queued(e) + Len(lens)
  BY <1>3, <1>4, EndTypes, QueuedBehind DEF Queued
<1>6. Assembling(e)' = Assembling(e) /\ Given(e)' = Given(e)
  BY <1>4 DEF Assembling, Given
<1>7. PICK n \in Nat : n = Len(lens)
  BY <1>3
<1>. QED  BY <1>1, <1>4, <1>5, <1>6, <1>7, ConservedTypes DEF ConservedAt

\* The buffers of a packet transmitted come back with its last frame.
LEMMA TransmitConserves ==
  ASSUME TypeOK, NEW e \in Endpoint, ConservedAt(e), NEW k \in Nat, NEW fs \in BOOLEAN,
         transq[e] # <<>>, k \in 1 .. Len(Head(transq[e]).lens), SendSegment(e, k, fs),
         pc[e] = "prep", pc'[e] = "xfer", UNCHANGED <<headP, MEM_Buffer_List>>
  PROVE  ConservedAt(e)'
<1>1. PICK pkt \in Packet, rest \in Seq(Packet) : SendSegmentEffect(e, k, fs, pkt, rest)
  BY SendSegmentStep
<1>2. pkt = Head(transq[e]) /\ rest = Tail(transq[e]) /\ k \in 1 .. Len(pkt.lens)
  BY <1>1 DEF SendSegmentEffect
<1>3. PICK n \in Nat : n = Len(pkt.lens)
  BY <1>1 DEF SendSegmentEffect
<1>4. Assembling(e)' = Assembling(e) /\ Given(e)' = Given(e)
  BY DEF Assembling, Given
<1>5. CASE k < n
  <2>1. /\ k # n
    BY <1>5
  <2>2. /\ transq'[e] = <<Rewritten(pkt, k)>> \o rest /\ free'[e] = free[e]
    BY <1>1, <1>3, <2>1 DEF SendSegmentEffect, TypeOK
  <2>3. Rewritten(pkt, k) \in Packet /\ Len(Rewritten(pkt, k).lens) = Len(pkt.lens)
    BY <1>2, ClampType
  <2>4. Queued(e)' = Queued(e)
    BY <1>2, <2>2, <2>3, EndTypes, QueuedRewritten DEF Queued
  <2>. QED  BY <1>4, <2>2, <2>4 DEF ConservedAt
<1>6. CASE k = n
  <2>1. transq'[e] = rest /\ free'[e] = free[e] + n
    BY <1>1, <1>3, <1>6 DEF SendSegmentEffect, TypeOK
  <2>2. Queued(e) = Queued(e)' + n
    BY <1>2, <1>3, <2>1, EndTypes, QueuedTail DEF Queued
  <2>3. Queued(e)' \in Nat
    BY <2>1, QueuedSum DEF Queued
  <2>. QED  BY <1>4, <2>1, <2>2, <2>3, ConservedTypes DEF ConservedAt
<1>. QED  BY <1>2, <1>3, <1>5, <1>6

\* A frame received takes a buffer from the free list only into the packet
\* under reassembly: no frame is too large for the buffer dequeued for it.
LEMMA ReceiveConserves ==
  ASSUME TypeOK, WireFits, NEW e \in Endpoint, ConservedAt(e), RxFirst(e) \/ RxNext(e)
  PROVE  ConservedAt(e)'
<1>1. /\ pc[e] = "rx" /\ EndPass(e) /\ MEM_Buffer_Dequeue(e)
      /\ UNCHANGED <<transq, MEM_Buffer_List>>
  BY DEF RxFirst, RxNext
<1>2. pc'[e] # "notify" /\ Queued(e)' = Queued(e) /\ Given(e)' = Given(e)
  BY <1>1 DEF EndPass, TypeOK, Queued, Given
<1>3. free'[e] = IF free[e] = 0 THEN 0 ELSE free[e] - 1
  BY <1>1 DEF MEM_Buffer_Dequeue, TypeOK
<1>4. rx_frame[e].len <= IF_SPI_BUF_SIZE
  BY DEF WireFits
<1>5. PICK h \in Seq(Segment), n \in Nat : h = headP[e] /\ n = Len(h)
  BY EndTypes
<1>6. Assembling(e) = n /\ Assembling(e)' = Len(headP'[e])
  BY <1>1, <1>2, <1>5 DEF Assembling
<1>7. CASE ~Usable(e)
  <2>1. free[e] = 0
    BY <1>4, <1>7, ConservedTypes DEF Usable
  <2>2. headP'[e] = headP[e]
    BY <1>7 DEF RxFirst, RxNext
  <2>. QED  BY <1>2, <1>3, <1>5, <1>6, <2>1, <2>2 DEF ConservedAt
<1>8. CASE Usable(e)
  <2>1. free'[e] = free[e] - 1
    BY <1>3, <1>8 DEF Usable
  <2>2. RxSegment(e) \in Segment
    BY EndTypes DEF RxSegment, Segment, Frame
  <2>3. Len(headP'[e]) = n + 1
    <3>1. CASE RxFirst(e)
      <4>1. headP'[e] = <<RxSegment(e)>> /\ n = 0
        BY <1>5, <1>8, <3>1 DEF RxFirst, TypeOK
      <4>. QED  BY <4>1
    <3>2. CASE RxNext(e)
      <4>1. headP'[e] = Append(h, RxSegment(e))
        BY <1>5, <1>8, <3>2 DEF RxNext, TypeOK
      <4>. QED  BY <1>5, <2>2, <4>1, AppendProperties
    <3>. QED  BY <3>1, <3>2
  <2>. QED  BY <1>2, <1>6, <2>1, <2>3, ConservedTypes DEF ConservedAt
<1>. QED  BY <1>7, <1>8

\* The packet under reassembly goes to the stack's list, and counts there.
LEMMA DispatchConserves ==
  ASSUME TypeOK, NEW e \in Endpoint, ConservedAt(e), RxDispatch(e)
  PROVE  ConservedAt(e)'
<1>1. PICK p : p = [total |-> pktSize[e], chain |-> headP[e]]
  OBVIOUS
<1>2. p \in Received /\ p.chain = headP[e]
  BY <1>1 DEF TypeOK, Received
<1>3. /\ pc[e] = "rx" /\ pc'[e] = "notify" /\ UNCHANGED <<transq, free>>
      /\ MEM_Buffer_List'[e] = Append(MEM_Buffer_List[e], p)
  BY <1>1 DEF RxDispatch, TypeOK
<1>4. PICK n \in Nat : n = Len(headP[e])
  BY EndTypes
<1>5. Given(e)' = Given(e) + n
  BY <1>2, <1>3, <1>4, EndTypes, ChainBehind DEF Given
<1>6. Assembling(e) = n /\ Assembling(e)' = 0 /\ Queued(e)' = Queued(e)
  BY <1>3, <1>4 DEF Assembling, Queued
<1>. QED  BY <1>3, <1>5, <1>6, ConservedTypes DEF ConservedAt

\* The protocols free the chain of the packet taken off the list.
LEMMA InputConserves ==
  ASSUME TypeOK, NEW e \in Endpoint, ConservedAt(e), DemuxInput(e)
  PROVE  ConservedAt(e)'
<1>1. /\ MEM_Buffer_List[e] # <<>> /\ MEM_Buffer_List'[e] = Tail(MEM_Buffer_List[e])
      /\ free'[e] = free[e] + Len(Head(MEM_Buffer_List[e]).chain)
      /\ UNCHANGED <<pc, headP, transq>>
  BY DEF DemuxInput, TypeOK, taskVars
<1>2. Head(MEM_Buffer_List[e]) \in Received /\ Tail(MEM_Buffer_List[e]) \in Seq(Received)
  BY <1>1, EndTypes, HeadTailProperties
<1>3. PICK n \in Nat : n = Len(Head(MEM_Buffer_List[e]).chain)
  <2>1. Head(MEM_Buffer_List[e]).chain \in Seq(Segment)
    BY <1>2 DEF Received
  <2>2. Len(Head(MEM_Buffer_List[e]).chain) \in Nat
    BY <2>1
  <2>. QED  BY <2>2
<1>4. Given(e) = Given(e)' + n
  BY <1>1, <1>3, EndTypes, ChainTail DEF Given
<1>5. Given(e)' \in Nat
  BY <1>1, <1>2, ChainSum DEF Given
<1>6. Assembling(e)' = Assembling(e) /\ Queued(e)' = Queued(e)
  BY <1>1 DEF Assembling, Queued
<1>7. free'[e] = free[e] + n
  BY <1>1, <1>3
<1>8. /\ free[e] \in Nat /\ Assembling(e) \in Nat /\ Queued(e) \in Nat
      /\ free[e] + Queued(e) + Assembling(e) + Given(e) = MAX_BUFFERS
  BY ConservedTypes DEF ConservedAt
<1>9. free'[e] + Queued(e)' + Assembling(e)' + Given(e)' = MAX_BUFFERS
  BY ONLY <1>4, <1>5, <1>6, <1>7, <1>8, n \in Nat
<1>. QED  BY <1>9 DEF ConservedAt

LEMMA ConservedStep ==
  ASSUME TypeOK, TxPointerLive, WireFits, BuffersConserved, [Next]_vars
  PROVE  BuffersConserved'
<1> SUFFICES ASSUME NEW f \in Endpoint PROVE ConservedAt(f)'
  <2>1. (\A f \in Endpoint : ConservedAt(f)') => BuffersConserved'
    BY DEF BuffersConserved, ConservedAt, Queued, Assembling, Given
  <2>. QED  BY <2>1
<1>1. ConservedAt(f)
  BY ConservedParts
<1>2. CASE Exchange
  <2>1. Untouched(f)
    BY <1>2 DEF Exchange, Untouched, stackVars
  <2>. QED  BY <1>1, <2>1, UntouchedKeeps
<1>3. ASSUME NEW e \in Endpoint, IFSPI_Task(e) \/ NET_Demux(e) \/ ETH_Ether_Send(e), e # f
      PROVE  ConservedAt(f)'
  <2>1. pc'[f] = pc[f] /\ headP'[f] = headP[f]
    BY <1>3 DEF TypeOK, IFSPI_Task, NET_Demux, ETH_Ether_Send, TxBlank, TxFirst, TxNext,
       TxEmpty, RxDispatch, RxNotify, RxFirst, RxNext, RxIgnore, Wake, EndPass,
       DemuxInput, DemuxEmpty, DemuxWake, taskVars
  <2>2. transq'[f] = transq[f] /\ free'[f] = free[f]
        /\ MEM_Buffer_List'[f] = MEM_Buffer_List[f]
    <3>1. CASE TxFirst(e) \/ TxNext(e)
      BY <1>3, <3>1 DEF TxFirst, TxNext, SendSegment, DEV_Recover_TX_Buffers, TypeOK
    <3>2. CASE ~(TxFirst(e) \/ TxNext(e))
      BY <1>3, <3>2 DEF TypeOK, IFSPI_Task, NET_Demux, ETH_Ether_Send, TxBlank,
         TxEmpty, RxDispatch, RxNotify, RxFirst, RxNext, RxIgnore, Wake,
         MEM_Buffer_Dequeue, DemuxInput, DemuxEmpty, DemuxWake, stackVars
    <3>. QED  BY <3>1, <3>2
  <2>3. Untouched(f)
    BY <2>1, <2>2 DEF Untouched
  <2>. QED  BY <1>1, <2>3, UntouchedKeeps
<1>4. CASE TxFirst(f)
  <2>1. Head(transq[f]) \in Packet /\ transq[f] # <<>>
    BY <1>4 DEF TxFirst, TypeOK
  <2>2. Head(transq[f]).lens \in Seq(Nat) /\ Head(transq[f]).lens # <<>>
    BY <2>1 DEF Packet
  <2>3. 1 \in 1 .. Len(Head(transq[f]).lens)
    BY <2>2
  <2>4. pc[f] = "prep" /\ pc'[f] = "xfer" /\ UNCHANGED <<headP, MEM_Buffer_List>>
    BY <1>4 DEF TxFirst, TypeOK
  <2>. QED  BY <1>1, <1>4, <2>1, <2>3, <2>4, TransmitConserves DEF TxFirst
<1>5. CASE TxNext(f)
  <2>1. /\ transq[f] # <<>> /\ buf_ptr[f].seg \in Nat
        /\ buf_ptr[f].seg \in 1 .. Len(Head(transq[f]).lens)
    BY <1>5 DEF TxNext, TxPointerLive, TypeOK, BufRef
  <2>2. pc[f] = "prep" /\ pc'[f] = "xfer" /\ UNCHANGED <<headP, MEM_Buffer_List>>
    BY <1>5 DEF TxNext, TypeOK
  <2>. QED  BY <1>1, <1>5, <2>1, <2>2, TransmitConserves DEF TxNext
<1>6. CASE RxNotify(f)
  <2>1. /\ pc[f] = "notify" /\ pc'[f] = "rx" /\ headP'[f] = <<>>
        /\ UNCHANGED <<transq, free, MEM_Buffer_List>>
    BY <1>6 DEF RxNotify, TypeOK
  <2>2. Assembling(f) = 0 /\ Assembling(f)' = 0
    BY <2>1 DEF Assembling
  <2>. QED  BY <1>1, <2>1, <2>2 DEF ConservedAt, Queued, Given
<1>7. CASE TxBlank(f) \/ TxEmpty(f) \/ RxIgnore(f) \/ Wake(f) \/ DemuxEmpty(f)
           \/ DemuxWake(f) \/ UNCHANGED vars
  <2>1. Untouched(f)
    BY <1>7 DEF TxBlank, TxEmpty, RxIgnore, Wake, DemuxEmpty, DemuxWake, EndPass, Untouched,
       TypeOK, taskVars, stackVars, vars
  <2>. QED  BY <1>1, <2>1, UntouchedKeeps
<1>. QED
  BY <1>1, <1>2, <1>3, <1>4, <1>5, <1>6, <1>7, SendConserves, ReceiveConserves,
     DispatchConserves, InputConserves DEF Next, IFSPI_Task, NET_Demux

\* For every pool, buffer and packet size: no buffer is lost or in two places.
THEOREM NoBufferIsLost == Spec => []BuffersConserved
<1>1. Init => BuffersConserved
  <2> SUFFICES ASSUME Init, NEW e \in Endpoint PROVE ConservedAt(e)
    BY ConservedParts
  <2>1. /\ transq[e] = <<>> /\ headP[e] = <<>> /\ MEM_Buffer_List[e] = <<>>
        /\ free[e] = MAX_BUFFERS /\ pc[e] = "prep"
    BY DEF Init
  <2>2. Queued(e) = 0 /\ Given(e) = 0 /\ Assembling(e) = 0
    BY <2>1, NoneSummed DEF Queued, Given, Assembling
  <2>. QED  BY <2>1, <2>2, SizesAssumption DEF ConservedAt
<1>2. TypeOK /\ TxPointerLive /\ WireFits /\ BuffersConserved /\ [Next]_vars
        => BuffersConserved'
  BY ConservedStep
<1>. QED  BY <1>1, <1>2, PointerIsLive, WireAlwaysFits, PTL DEF Spec

-----------------------------------------------------------------------------
(* The lengths the stack is told *)

\* The length of the packet under reassembly is that of its buffers.
SizeOK(e) == headP[e] # <<>> => pktSize[e] = Sum(DataLens(headP[e]))

TotalsOK(e) ==
  \A i \in 1 .. Len(GivenToStack(e)) :
    GivenToStack(e)[i].total = Sum(DataLens(GivenToStack(e)[i].chain))

LEMMA SizeStep ==
  ASSUME TypeOK, NEW e \in Endpoint, SizeOK(e), [Next]_vars
  PROVE  SizeOK(e)'
<1>1. PICK h \in Seq(Segment), s \in Nat : h = headP[e] /\ s = pktSize[e]
  <2>1. headP[e] \in Seq(Segment) /\ pktSize[e] \in Nat
    BY DEF TypeOK
  <2>. QED  BY <2>1
<1>2. RxSegment(e) \in Segment /\ RxSegment(e).len = rx_frame[e].len
      /\ rx_frame[e].len \in Nat
  BY EndTypes DEF RxSegment, Segment, Frame
<1>3. CASE RxFirst(e)
  <2>1. CASE Usable(e)
    <3>1. headP'[e] = <<RxSegment(e)>> /\ pktSize'[e] = rx_frame[e].len
      BY <1>3, <2>1 DEF RxFirst, TypeOK
    <3>. QED  BY <1>2, <3>1, DataOne DEF SizeOK
  <2>2. CASE ~Usable(e)
    BY <1>3, <2>2 DEF RxFirst, SizeOK
  <2>. QED  BY <2>1, <2>2
<1>4. CASE RxNext(e)
  <2>1. CASE Usable(e)
    <3>1. /\ headP'[e] = Append(h, RxSegment(e)) /\ pktSize'[e] = s + rx_frame[e].len
          /\ h # <<>>
      BY <1>1, <1>4, <2>1 DEF RxNext, TypeOK
    <3>2. Sum(DataLens(Append(h, RxSegment(e)))) = Sum(DataLens(h)) + rx_frame[e].len
      BY <1>2, DataBehind
    <3>. QED  BY <1>1, <3>1, <3>2 DEF SizeOK
  <2>2. CASE ~Usable(e)
    BY <1>4, <2>2 DEF RxNext, SizeOK
  <2>. QED  BY <2>1, <2>2
<1>5. CASE RxNotify(e)
  BY <1>5 DEF RxNotify, SizeOK, TypeOK
<1>6. CASE ~RxFirst(e) /\ ~RxNext(e) /\ ~RxNotify(e)
  <2>1. ASSUME NEW x \in Endpoint, RxFirst(x) \/ RxNext(x) \/ RxNotify(x), x # e
        PROVE  headP'[e] = headP[e] /\ pktSize'[e] = pktSize[e]
    BY <2>1 DEF RxFirst, RxNext, RxNotify, TypeOK
  <2>2. CASE UNCHANGED <<headP, pktSize>>
    BY <2>2 DEF SizeOK
  <2>3. \/ \E x \in Endpoint : RxFirst(x) \/ RxNext(x) \/ RxNotify(x)
        \/ UNCHANGED <<headP, pktSize>>
    BY DEF Next, IFSPI_Task, NET_Demux, Exchange, ETH_Ether_Send, TxBlank, TxFirst,
       TxNext, TxEmpty, RxDispatch, RxIgnore, Wake, DemuxInput, DemuxEmpty, DemuxWake,
       vars, taskVars
  <2>. QED  BY <1>6, <2>1, <2>2, <2>3 DEF SizeOK
<1>. QED  BY <1>3, <1>4, <1>5, <1>6

LEMMA TotalsStep ==
  ASSUME TypeOK, NEW e \in Endpoint, SizeOK(e), TotalsOK(e), [Next]_vars
  PROVE  TotalsOK(e)'
<1>1. CASE ~RxDispatch(e)
  <2>1. GivenToStack(e)' = GivenToStack(e)
    BY <1>1, GivenSame
  <2>. QED  BY <2>1 DEF TotalsOK
<1>2. CASE RxDispatch(e)
  <2>1. PICK p : p = [total |-> pktSize[e], chain |-> headP[e]]
    OBVIOUS
  <2>2. p \in Received /\ p.total = Sum(DataLens(p.chain))
    BY <1>2, <2>1 DEF RxDispatch, SizeOK, TypeOK, Received
  <2>3. PICK g \in Seq(Received), n \in Nat : g = GivenToStack(e) /\ n = Len(g)
    <3>1. GivenToStack(e) \in Seq(Received) /\ Len(GivenToStack(e)) \in Nat
      BY EndTypes
    <3>. QED  BY <3>1
  <2>4. PICK t \in Seq(Received) : t = Append(g, p)
    <3>1. Append(g, p) \in Seq(Received)
      BY <2>2
    <3>. QED  BY <3>1
  <2>5. GivenToStack(e)' = t
    BY <1>2, <2>1, <2>3, <2>4, DispatchGives
  <2>6. Len(t) = n + 1 /\ t[n + 1] = p /\ \A i \in 1 .. n : t[i] = g[i]
    BY <2>2, <2>3, <2>4, AppendProperties
  <2>7. ASSUME NEW i \in 1 .. n + 1
        PROVE  t[i].total = Sum(DataLens(t[i].chain))
    <3>1. CASE i = n + 1
      BY <2>2, <2>6, <3>1
    <3>2. CASE i \in 1 .. n
      <4>1. t[i] = g[i] /\ g[i].total = Sum(DataLens(g[i].chain))
        BY <2>3, <2>6, <3>2 DEF TotalsOK
      <4>. QED  BY <4>1
    <3>. QED  BY <3>1, <3>2
  <2>. QED  BY <2>5, <2>6, <2>7 DEF TotalsOK
<1>. QED  BY <1>1, <1>2

\* For every pool, buffer and packet size: the length the stack is told of a
\* packet is that of the buffers linked, those dropped on the way not counted.
THEOREM TotalsAreSums == Spec => []TotalLength
<1> DEFINE I == \A e \in Endpoint : SizeOK(e) /\ TotalsOK(e)
<1>1. Init => I
  <2> SUFFICES ASSUME Init, NEW e \in Endpoint PROVE SizeOK(e) /\ TotalsOK(e)
    OBVIOUS
  <2>1. headP[e] = <<>> /\ received[e] = <<>> /\ MEM_Buffer_List[e] = <<>>
    BY DEF Init
  <2>2. GivenToStack(e) = <<>>
    BY <2>1 DEF GivenToStack
  <2>. QED  BY <2>1, <2>2 DEF SizeOK, TotalsOK
<1>2. TypeOK /\ I /\ [Next]_vars => I'
  BY SizeStep, TotalsStep
<1>3. I => TotalLength
  BY DEF TotalLength, TotalsOK
<1> HIDE DEF I
<1>. QED  BY <1>1, <1>2, <1>3, PointerIsLive, PTL DEF Spec

-----------------------------------------------------------------------------
(* The link is lossless while receivers have buffers *)

\* No buffer the stack queues is empty or exceeds a frame.
ChainsFit == \A c \in Chains : \A k \in 1 .. Len(c) : c[k] \in 1 .. IF_SPI_BUF_SIZE

SentFit(e) ==
  \A n \in 1 .. Len(sent[e]) :
    \A k \in 1 .. Len(sent[e][n]) : sent[e][n][k] \in 1 .. IF_SPI_BUF_SIZE

\* A frame with data to keep finds a buffer on the free list.
BuffersSuffice ==
  \A r \in Endpoint :
    /\ pc[r] = "rx"
    /\ \/ rx_frame[r].FS /\ headP[r] = <<>>
       \/ ~rx_frame[r].FS /\ headP[r] # <<>> /\ rx_frame[r].len # 0
    => free[r] > 0

\* The buffer that follows d in what e sends, and the first of packet n.
First(n) == [id |-> n, seg |-> 1]
After(e, d) ==
  IF d.seg < Len(sent[e][d.id]) THEN [id |-> d.id, seg |-> d.seg + 1]
                                ELSE First(d.id + 1)

\* The buffer due behind what r has, behind the frame it received, and behind
\* the frame e is about to transmit.
DueHead(e, r) ==
  IF headP[r] = <<>> \/ pc[r] = "notify" THEN First(LastId(r) + 1)
                                         ELSE After(e, LastRef(r))
DueRx(e, r) ==
  IF Handling(r) /\ Filled(rx_frame[r]) THEN After(e, rx_frame[r].data) ELSE DueHead(e, r)
DueTx(e, r) ==
  IF pc[e] = "xfer" /\ Filled(tx_frame[e]) THEN After(e, tx_frame[e].data) ELSE DueRx(e, r)

\* A frame brings the buffer that is due; a blank one comes between packets.
Brings(f, d) == IF Filled(f) THEN f.data = d ELSE d.seg = 1

HeadExact(r) ==
  headP[r] # <<>> =>
    /\ \A i \in 1 .. Len(headP[r]) : headP[r][i].data.seg = i
    /\ HeadId(r) = IF pc[r] = "notify" THEN LastId(r) ELSE LastId(r) + 1

Exact(e, r) ==
  /\ SentFit(e)
  /\ HeadExact(r)
  /\ Handling(r) => Brings(rx_frame[r], DueHead(e, r))
  /\ pc[e] = "xfer" => Brings(tx_frame[e], DueRx(e, r))
  /\ DueTx(e, r) = IF buf_ptr[e] = NU_NULL THEN First(Done(e) + 1) ELSE buf_ptr[e]
  /\ Len(GivenToStack(r)) = LastId(r)

AllExact == \A e \in Endpoint : Exact(e, Peer(e))

LEMMA ExactSame ==
  ASSUME NEW e, NEW r, r = Peer(e), Exact(e, r), Same(e, r)
  PROVE  Exact(e, r)'
<1>1. /\ Done(e)' = Done(e) /\ LastId(r)' = LastId(r) /\ HeadId(r)' = HeadId(r)
      /\ LastRef(r)' = LastRef(r) /\ (Handling(r)' <=> Handling(r))
  BY DEF Same, Done, LastId, HeadId, LastRef, Handling
<1>2. \A d : After(e, d)' = After(e, d)
  BY DEF Same, After
<1>3. DueHead(e, r)' = DueHead(e, r)
  BY <1>1, <1>2 DEF Same, DueHead
<1>4. DueRx(e, r)' = DueRx(e, r)
  BY <1>1, <1>2, <1>3 DEF Same, DueRx
<1>5. DueTx(e, r)' = DueTx(e, r)
  BY <1>2, <1>4 DEF Same, DueTx
<1>6. SentFit(e)' /\ HeadExact(r)'
  BY <1>1 DEF Exact, Same, SentFit, HeadExact
<1>. QED  BY <1>1, <1>3, <1>4, <1>5, <1>6 DEF Exact, Same

\* What is due depends on the receiving end only through these.
LEMMA DueKept ==
  ASSUME NEW e, NEW r, sent'[e] = sent[e], headP'[r] = headP[r], rx_frame'[r] = rx_frame[r],
         GivenToStack(r)' = GivenToStack(r), pc'[r] = pc[r]
  PROVE  /\ DueHead(e, r)' = DueHead(e, r) /\ DueRx(e, r)' = DueRx(e, r)
         /\ \A d : After(e, d)' = After(e, d)
         /\ SentFit(e) => SentFit(e)'
         /\ HeadExact(r) => HeadExact(r)'
         /\ LastId(r)' = LastId(r) /\ (Handling(r)' <=> Handling(r))
<1>1. /\ LastId(r)' = LastId(r) /\ HeadId(r)' = HeadId(r)
      /\ LastRef(r)' = LastRef(r) /\ (Handling(r)' <=> Handling(r))
  BY DEF LastId, HeadId, LastRef, Handling
<1>2. \A d : After(e, d)' = After(e, d)
  BY DEF After
<1>3. DueHead(e, r)' = DueHead(e, r)
  BY <1>1, <1>2 DEF DueHead
<1>4. DueRx(e, r)' = DueRx(e, r)
  BY <1>1, <1>2, <1>3 DEF DueRx
<1>. QED  BY <1>1, <1>2, <1>3, <1>4 DEF SentFit, HeadExact

\* A blank frame goes out only between packets.
LEMMA BlankExact ==
  ASSUME TypeOK, NEW e \in Endpoint, NEW r \in Endpoint, r = Peer(e), r # e,
         Exact(e, r), TxBlank(e)
  PROVE  Exact(e, r)'
<1>1. /\ pc[e] = "prep" /\ pc'[e] = "xfer" /\ pc'[r] = pc[r] /\ buf_ptr[e] = NU_NULL
      /\ tx_frame'[e] = IFSPI_FRAME_BLANK
      /\ UNCHANGED <<buf_ptr, rx_frame, headP, transq, MEM_Buffer_List, sent, received>>
  BY DEF TxBlank, TypeOK, stackVars
<1>2. GivenToStack(r)' = GivenToStack(r) /\ Done(e)' = Done(e)
      /\ ~Filled(tx_frame'[e])
  BY <1>1 DEF GivenToStack, Done, Filled, IFSPI_FRAME_BLANK
<1>3. /\ DueHead(e, r)' = DueHead(e, r) /\ DueRx(e, r)' = DueRx(e, r)
      /\ SentFit(e)' /\ HeadExact(r)' /\ LastId(r)' = LastId(r)
      /\ (Handling(r)' <=> Handling(r))
  BY <1>1, <1>2, DueKept DEF Exact
<1>4. DueTx(e, r) = DueRx(e, r) /\ DueTx(e, r)' = DueRx(e, r)
  BY <1>1, <1>2, <1>3 DEF DueTx
<1>5. DueRx(e, r) = First(Done(e) + 1)
  BY <1>1, <1>4 DEF Exact
<1>6. Brings(tx_frame'[e], DueRx(e, r))
  BY <1>2, <1>5 DEF Brings, First
<1>. QED  BY <1>1, <1>2, <1>3, <1>4, <1>5, <1>6 DEF Exact

\* A frame of the head packet goes out: it is the one due.
LEMMA FrameExact ==
  ASSUME TypeOK, NEW e \in Endpoint, NEW r \in Endpoint, r = Peer(e), r # e, Link(e, r),
         Exact(e, r),
         transq[e] # <<>>, NEW k \in 1 .. Len(Head(transq[e]).lens), NEW fs \in BOOLEAN,
         SendSegment(e, k, fs), fs <=> k = 1,
         fs => buf_ptr[e] = NU_NULL,
         ~fs => buf_ptr[e] = [id |-> Head(transq[e]).id, seg |-> k] /\ buf_ptr[e] # NU_NULL,
         pc[e] = "prep", pc' = [pc EXCEPT ![e] = "xfer"],
         UNCHANGED <<rx_frame, headP, MEM_Buffer_List, sent, received>>
  PROVE  Exact(e, r)'
<1>1. PICK pkt \in Packet, rest \in Seq(Packet) : SendSegmentEffect(e, k, fs, pkt, rest)
  <2>1. k \in Nat
    OBVIOUS
  <2> QED
    BY <2>1, SendSegmentStep
<1>2. k \in 1 .. Len(pkt.lens) /\ pkt = Head(transq[e])
  BY <1>1 DEF SendSegmentEffect
<1>3. /\ pkt.id = Done(e) + 1
      /\ Carries(e, [id |-> pkt.id, seg |-> k], Clamp(pkt.lens[k]))
      /\ Begun(e)' = pkt.id
  BY <1>1, <1>2, QueueSent DEF Link
<1>4. PICK d : d = [id |-> pkt.id, seg |-> k]
  OBVIOUS
<1>5. d.id = pkt.id /\ d.seg = k /\ pkt.id \in Nat
  BY <1>4 DEF Packet
<1>6. PICK n \in Nat : n = Len(pkt.lens) /\ n = Len(sent[e][pkt.id])
  <2>1. Len(pkt.lens) \in Nat
    BY <1>1 DEF SendSegmentEffect
  <2>2. transq[e][1] = pkt /\ 1 \in 1 .. Len(transq[e])
    BY <1>2, EndTypes, HeadTailProperties
  <2>3. Matches(e, pkt, Done(e) + 1)
    BY <2>2 DEF Link, QueueOK
  <2>. QED  BY <1>3, <2>1, <2>3 DEF Matches
<1>7. /\ tx_frame'[e] = [FS |-> fs, len |-> Clamp(pkt.lens[k]), data |-> d]
      /\ pc'[e] = "xfer" /\ pc'[r] = pc[r] /\ GivenToStack(r)' = GivenToStack(r)
  BY <1>1, <1>4 DEF SendSegmentEffect, TypeOK, GivenToStack
<1>8. Filled(tx_frame'[e]) /\ tx_frame'[e].data = d
  <2>1. Clamp(sent[e][pkt.id][k]) # 0
    <3>1. sent[e][pkt.id][k] \in 1 .. IF_SPI_BUF_SIZE
      BY <1>3 DEF Exact, SentFit, Carries
    <3>. QED  BY <3>1, SizesAssumption DEF Clamp, AtMost, IF_SPI_BUF_SIZE
  <2>2. Clamp(pkt.lens[k]) # 0
    BY <1>3, <2>1 DEF Carries
  <2>. QED  BY <1>7, <2>2 DEF Filled
<1>9. /\ DueHead(e, r)' = DueHead(e, r) /\ DueRx(e, r)' = DueRx(e, r)
      /\ After(e, d)' = After(e, d)
      /\ SentFit(e)' /\ HeadExact(r)' /\ LastId(r)' = LastId(r)
      /\ (Handling(r)' <=> Handling(r))
  BY <1>7, DueKept DEF Exact
<1>10. DueRx(e, r) = d
  <2>1. DueTx(e, r) = DueRx(e, r)
    BY DEF DueTx
  <2>2. CASE fs
    BY <1>3, <1>4, <2>1, <2>2 DEF Exact, First
  <2>3. CASE ~fs
    BY <1>2, <1>4, <2>1, <2>3 DEF Exact
  <2>. QED  BY <2>2, <2>3
<1>11. DueTx(e, r)' = After(e, d)
  BY <1>7, <1>8, <1>9 DEF DueTx
<1>12. After(e, d) = IF buf_ptr'[e] = NU_NULL THEN First(Done(e)' + 1) ELSE buf_ptr'[e]
  <2>1. CASE k < n
    <3>1. buf_ptr'[e] = [id |-> pkt.id, seg |-> k + 1]
      <4>1. k # Len(pkt.lens)
        BY <1>6, <2>1
      <4>. QED  BY <4>1, <1>1 DEF SendSegmentEffect, TypeOK
    <3>2. buf_ptr'[e] # NU_NULL
      BY <3>1, <1>3 DEF NU_NULL, Packet
    <3>. QED  BY <1>5, <1>6, <2>1, <3>1, <3>2 DEF After
  <2>2. CASE k = n
    <3>1. buf_ptr'[e] = NU_NULL
      <4>1. ~(k < Len(pkt.lens))
        BY <1>6, <2>2
      <4>. QED  BY <4>1, <1>1 DEF SendSegmentEffect, TypeOK
    <3>2. Done(e)' = pkt.id
      <4>1. QueueOK(e)'
        BY <1>1, <1>2, QueueSent DEF Link
      <4>2. Done(e)' \in Nat
        BY <4>1 DEF QueueOK
      <4>. QED  BY <1>3, <3>1, <4>2 DEF Begun
    <3>. QED  BY <1>5, <1>6, <2>2, <3>1, <3>2 DEF After
  <2>. QED  BY <1>2, <1>6, <2>1, <2>2
<1>13. Brings(tx_frame'[e], DueRx(e, r))
  BY <1>8, <1>10 DEF Brings
<1>. QED  BY <1>7, <1>9, <1>11, <1>12, <1>13 DEF Exact

\* A packet is queued behind the others.
LEMMA EtherExact ==
  ASSUME TypeOK, NEW e \in Endpoint, NEW r \in Endpoint, r = Peer(e), r # e, Link(e, r),
         Exact(e, r), ChainsFit, ETH_Ether_Send(e)
  PROVE  Exact(e, r)'
<1>1. PICK lens \in Chains :
        /\ transq' = [transq EXCEPT ![e] =
                        Append(@, [id |-> Len(sent[e]) + 1, lens |-> lens])]
        /\ sent' = [sent EXCEPT ![e] = Append(@, lens)]
  BY DEF ETH_Ether_Send
<1>2. /\ UNCHANGED <<pc, buf_ptr, tx_frame, rx_frame, headP, MEM_Buffer_List, received>>
      /\ GivenToStack(r)' = GivenToStack(r)
  BY DEF ETH_Ether_Send, taskVars, GivenToStack
<1>3. PICK s \in Nat, q \in Nat : s = Len(sent[e]) /\ q = Len(transq[e])
  BY EndTypes
<1>4. PICK p : p = [id |-> s + 1, lens |-> lens]
  OBVIOUS
<1>5. lens \in Seq(Nat) /\ lens # <<>> /\ p \in Packet
  BY <1>4, ChainsType DEF Packet
<1>6. transq'[e] = Append(transq[e], p) /\ sent'[e] = Append(sent[e], lens)
  BY <1>1, <1>3, <1>4 DEF TypeOK
<1>7. /\ Len(sent'[e]) = s + 1 /\ sent'[e][s + 1] = lens
      /\ \A i \in 1 .. s : sent'[e][i] = sent[e][i]
  <2>1. sent[e] \in Seq(Seq(Nat))
    BY EndTypes
  <2> QED
    BY <1>3, <1>5, <1>6, <2>1, AppendProperties
<1>8. Done(e)' = Done(e)
  <2>1. transq[e] \in Seq(Packet)
    BY EndTypes
  <2>2. Len(transq'[e]) = q + 1
    BY <1>3, <1>5, <1>6, <2>1, AppendProperties
  <2>3. Done(e)' = (s + 1) - (q + 1) /\ Done(e) = s - q
    BY <1>3, <1>7, <2>2 DEF Done
  <2>. QED  BY ONLY <2>3, s \in Nat, q \in Nat
<1>9. ASSUME NEW d, NEW l, Carries(e, d, l)
      PROVE  After(e, d)' = After(e, d)
  <2>1. d.id \in 1 .. s
    BY <1>3, <1>9 DEF Carries
  <2>2. sent'[e][d.id] = sent[e][d.id]
    BY <1>7, <2>1
  <2>. QED  BY <2>2 DEF After
<1>10. /\ LastId(r)' = LastId(r) /\ HeadId(r)' = HeadId(r)
       /\ LastRef(r)' = LastRef(r) /\ (Handling(r)' <=> Handling(r))
  BY <1>2 DEF LastId, HeadId, LastRef, Handling
<1>11. DueHead(e, r)' = DueHead(e, r)
  <2>1. CASE headP[r] = <<>> \/ pc[r] = "notify"
    BY <1>2, <1>10, <2>1 DEF DueHead
  <2>2. CASE headP[r] # <<>> /\ pc[r] # "notify"
    <3>1. Carries(e, LastRef(r), headP[r][Len(headP[r])].len)
      BY <2>2, RefTypes DEF Link, HeadOK, LastRef
    <3>. QED  BY <1>2, <1>9, <1>10, <2>2, <3>1 DEF DueHead
  <2>. QED  BY <2>1, <2>2
<1>12. DueRx(e, r)' = DueRx(e, r)
  <2>1. CASE Handling(r) /\ Filled(rx_frame[r])
    <3>1. Carries(e, rx_frame[r].data, rx_frame[r].len)
      BY <2>1 DEF Link, RxOK, FrameOK
    <3>. QED  BY <1>2, <1>9, <1>10, <2>1, <3>1 DEF DueRx
  <2>2. CASE ~(Handling(r) /\ Filled(rx_frame[r]))
    BY <1>2, <1>10, <1>11, <2>2 DEF DueRx
  <2>. QED  BY <2>1, <2>2
<1>13. DueTx(e, r)' = DueTx(e, r)
  <2>1. CASE pc[e] = "xfer" /\ Filled(tx_frame[e])
    <3>1. Carries(e, tx_frame[e].data, tx_frame[e].len)
      BY <2>1 DEF Link, TxOK, FrameOK
    <3>. QED  BY <1>2, <1>9, <2>1, <3>1 DEF DueTx
  <2>2. CASE ~(pc[e] = "xfer" /\ Filled(tx_frame[e]))
    BY <1>2, <1>12, <2>2 DEF DueTx
  <2>. QED  BY <2>1, <2>2
<1>14. SentFit(e)'
  <2> SUFFICES ASSUME NEW i \in 1 .. s + 1, NEW j \in 1 .. Len(sent'[e][i])
               PROVE  sent'[e][i][j] \in 1 .. IF_SPI_BUF_SIZE
    BY <1>7 DEF SentFit
  <2>1. CASE i = s + 1
    <3>1. j \in 1 .. Len(lens) /\ sent'[e][i] = lens
      BY <1>7, <2>1
    <3>. QED  BY <3>1 DEF ChainsFit
  <2>2. CASE i \in 1 .. s
    <3>1. sent'[e][i] = sent[e][i]
      BY <1>7, <2>2
    <3>. QED  BY <1>3, <2>2, <3>1 DEF Exact, SentFit
  <2>. QED  BY <2>1, <2>2
<1>15. HeadExact(r)'
  BY <1>2, <1>10 DEF Exact, HeadExact
<1>. QED  BY <1>2, <1>8, <1>10, <1>11, <1>12, <1>13, <1>14, <1>15 DEF Exact

\* The frame of e crosses the wire.
LEMMA ExchangeExact ==
  ASSUME TypeOK, NEW e \in Endpoint, NEW r \in Endpoint, r = Peer(e), e = Peer(r),
         Exact(e, r), Exchange
  PROVE  Exact(e, r)'
<1>1. /\ pc[e] = "xfer" /\ pc[r] = "xfer" /\ pc'[e] = "rx" /\ pc'[r] = "rx"
      /\ rx_frame'[r] = tx_frame[e]
      /\ UNCHANGED <<buf_ptr, tx_frame, headP, transq, MEM_Buffer_List, sent, received>>
  BY DEF Exchange, stackVars
<1>2. /\ Done(e)' = Done(e) /\ LastId(r)' = LastId(r) /\ HeadId(r)' = HeadId(r)
      /\ LastRef(r)' = LastRef(r) /\ Handling(r)' /\ ~Handling(r)
      /\ GivenToStack(r)' = GivenToStack(r)
  BY <1>1 DEF Done, LastId, HeadId, LastRef, Handling, GivenToStack
<1>3. \A d : After(e, d)' = After(e, d)
  BY <1>1 DEF After
<1>4. DueHead(e, r)' = DueHead(e, r) /\ DueRx(e, r) = DueHead(e, r)
  BY <1>1, <1>2, <1>3 DEF DueHead, DueRx
<1>5. DueRx(e, r)' = DueTx(e, r)
  BY <1>1, <1>2, <1>3, <1>4 DEF DueRx, DueTx
<1>6. DueTx(e, r)' = DueTx(e, r)
  BY <1>1, <1>5 DEF DueTx
<1>7. SentFit(e)' /\ HeadExact(r)'
  BY <1>1, <1>2 DEF Exact, SentFit, HeadExact
<1>. QED  BY <1>1, <1>2, <1>4, <1>6, <1>7 DEF Exact

\* The packet under reassembly is complete when a first segment or a blank
\* frame comes.
LEMMA CompleteHead ==
  ASSUME TypeOK, NEW e \in Endpoint, NEW r \in Endpoint, Link(e, r), Exact(e, r), RxDispatch(r)
  PROVE  /\ HeadId(r) = LastId(r) + 1 /\ HeadId(r) \in 1 .. Len(sent[e])
         /\ Len(headP[r]) = Len(sent[e][HeadId(r)])
         /\ DueHead(e, r) = First(HeadId(r) + 1)
<1>1. pc[r] = "rx" /\ headP[r] # <<>> /\ (rx_frame[r].FS \/ rx_frame[r].len = 0) /\ Handling(r)
  BY DEF RxDispatch, Handling
<1>2. PICK n \in Nat : n = Len(headP[r]) /\ n \in 1 .. Len(headP[r])
  BY <1>1, RefTypes, EndTypes
<1>3. /\ HeadId(r) = LastId(r) + 1 /\ headP[r][n].data.seg = n
      /\ Brings(rx_frame[r], DueHead(e, r))
  BY <1>1, <1>2 DEF Exact, HeadExact
<1>4. /\ LastRef(r) = headP[r][n].data /\ LastRef(r).id = HeadId(r)
      /\ Carries(e, headP[r][n].data, headP[r][n].len)
  BY <1>1, <1>2 DEF Link, HeadOK, LastRef
<1>5. /\ HeadId(r) \in 1 .. Len(sent[e]) /\ n \in 1 .. Len(sent[e][HeadId(r)])
  BY <1>3, <1>4 DEF Carries
<1>6. DueHead(e, r).seg = 1
  <2>1. CASE Filled(rx_frame[r])
    <3>1. rx_frame[r].FS
      BY <1>1, <2>1 DEF Filled, Exact, Link, RxOK, FrameOK, Carries, SentFit, Clamp, AtMost
    <3>2. rx_frame[r].data.seg = 1
      BY <1>1, <2>1, <3>1 DEF Link, RxOK, FrameOK
    <3>. QED  BY <1>3, <2>1, <3>2 DEF Brings
  <2>2. CASE ~Filled(rx_frame[r])
    BY <1>3, <2>2 DEF Brings
  <2>. QED  BY <2>1, <2>2
<1>7. DueHead(e, r) = After(e, LastRef(r))
  BY <1>1 DEF DueHead
<1>8. PICK l \in Nat : l = Len(sent[e][HeadId(r)])
  <2>1. sent[e][HeadId(r)] \in Seq(Nat)
    BY <1>5, EndTypes
  <2>2. Len(sent[e][HeadId(r)]) \in Nat
    BY <2>1
  <2>. QED  BY <2>2
<1>9. ~(n < l)
  <2> SUFFICES ASSUME n < l PROVE FALSE
    OBVIOUS
  <2>1. After(e, LastRef(r)).seg = n + 1
    BY <1>3, <1>4, <1>8 DEF After
  <2>. QED  BY <1>2, <1>6, <1>7, <2>1
<1>10. n = l
  BY <1>5, <1>8, <1>9
<1>11. After(e, LastRef(r)) = First(HeadId(r) + 1)
  BY <1>3, <1>4, <1>8, <1>9 DEF After
<1>. QED  BY <1>2, <1>3, <1>5, <1>7, <1>8, <1>10, <1>11

LEMMA DispatchExact ==
  ASSUME TypeOK, NEW e \in Endpoint, NEW r \in Endpoint, r = Peer(e), r # e, Link(e, r),
         Exact(e, r), RxDispatch(r)
  PROVE  Exact(e, r)'
<1>1. /\ pc[r] = "rx" /\ pc'[r] = "notify" /\ pc'[e] = pc[e] /\ headP[r] # <<>>
      /\ UNCHANGED <<buf_ptr, tx_frame, rx_frame, headP, transq, sent, received>>
  BY DEF RxDispatch, TypeOK
<1>2. /\ Done(e)' = Done(e) /\ HeadId(r)' = HeadId(r)
      /\ Handling(r)' /\ Handling(r)
  BY <1>1 DEF Done, HeadId, Handling
<1>3. /\ LastId(r)' = HeadId(r) /\ HeadId(r) = LastId(r) + 1
      /\ DueHead(e, r) = First(HeadId(r) + 1)
  BY DispatchGives, CompleteHead
<1>4. Len(GivenToStack(r))' = LastId(r)'
  <2>1. PICK p : p = [total |-> pktSize[r], chain |-> headP[r]]
    OBVIOUS
  <2>2. GivenToStack(r)' = Append(GivenToStack(r), p) /\ p \in Received
    BY <2>1, DispatchGives DEF TypeOK, Received
  <2>3. Len(GivenToStack(r)') = Len(GivenToStack(r)) + 1
    BY <2>2, EndTypes, AppendProperties
  <2>. QED  BY <1>3, <2>3 DEF Exact
<1>5. \A d : After(e, d)' = After(e, d)
  BY <1>1 DEF After
<1>6. DueHead(e, r)' = DueHead(e, r)
  BY <1>1, <1>3 DEF DueHead
<1>7. DueRx(e, r)' = DueRx(e, r)
  BY <1>1, <1>2, <1>5, <1>6 DEF DueRx
<1>8. DueTx(e, r)' = DueTx(e, r)
  BY <1>1, <1>5, <1>7 DEF DueTx
<1>9. SentFit(e)' /\ HeadExact(r)'
  BY <1>1, <1>2, <1>3 DEF Exact, SentFit, HeadExact
<1>. QED  BY <1>1, <1>2, <1>4, <1>6, <1>7, <1>8, <1>9 DEF Exact

LEMMA NotifyExact ==
  ASSUME TypeOK, NEW e \in Endpoint, NEW r \in Endpoint, r = Peer(e), r # e,
         Exact(e, r), RxNotify(r)
  PROVE  Exact(e, r)'
<1>1. /\ pc[r] = "notify" /\ pc'[r] = "rx" /\ pc'[e] = pc[e] /\ headP'[r] = <<>>
      /\ UNCHANGED <<buf_ptr, tx_frame, rx_frame, transq, MEM_Buffer_List, sent, received>>
  BY DEF RxNotify, TypeOK
<1>2. /\ Done(e)' = Done(e) /\ LastId(r)' = LastId(r)
      /\ Handling(r)' /\ Handling(r) /\ GivenToStack(r)' = GivenToStack(r)
  BY <1>1 DEF Done, LastId, Handling, GivenToStack
<1>3. \A d : After(e, d)' = After(e, d)
  BY <1>1 DEF After
<1>4. DueHead(e, r)' = DueHead(e, r)
  BY <1>1, <1>2 DEF DueHead
<1>5. DueRx(e, r)' = DueRx(e, r)
  BY <1>1, <1>2, <1>3, <1>4 DEF DueRx
<1>6. DueTx(e, r)' = DueTx(e, r)
  BY <1>1, <1>3, <1>5 DEF DueTx
<1>7. SentFit(e)' /\ HeadExact(r)'
  BY <1>1 DEF Exact, SentFit, HeadExact
<1>. QED  BY <1>1, <1>2, <1>4, <1>5, <1>6, <1>7 DEF Exact

\* The pass ends with what the frame brought in its place.
LEMMA PassExact ==
  ASSUME TypeOK, NEW e \in Endpoint, NEW r \in Endpoint, r = Peer(e), r # e,
         Exact(e, r), pc[r] = "rx", EndPass(r),
         UNCHANGED <<buf_ptr, tx_frame, transq, MEM_Buffer_List, sent, received>>,
         HeadExact(r)', DueHead(e, r)' = DueRx(e, r)
  PROVE  Exact(e, r)'
<1>1. pc'[r] \in {"sleep", "prep"} /\ pc'[e] = pc[e]
  BY DEF EndPass, TypeOK
<1>2. /\ Done(e)' = Done(e) /\ LastId(r)' = LastId(r) /\ ~Handling(r)'
      /\ GivenToStack(r)' = GivenToStack(r)
  BY <1>1 DEF Done, LastId, Handling, GivenToStack
<1>3. \A d : After(e, d)' = After(e, d)
  BY DEF After
<1>4. DueRx(e, r)' = DueRx(e, r)
  BY <1>2 DEF DueRx
<1>5. DueTx(e, r)' = DueTx(e, r)
  BY <1>1, <1>3, <1>4 DEF DueTx
<1>6. SentFit(e)'
  BY DEF Exact, SentFit
<1>. QED  BY <1>1, <1>2, <1>4, <1>5, <1>6 DEF Exact

LEMMA FirstExact ==
  ASSUME TypeOK, NEW e \in Endpoint, NEW r \in Endpoint, r = Peer(e), r # e, Link(e, r),
         Exact(e, r), Usable(r), RxFirst(r)
  PROVE  Exact(e, r)'
<1>1. /\ pc[r] = "rx" /\ rx_frame[r].FS /\ headP[r] = <<>> /\ EndPass(r)
      /\ UNCHANGED <<buf_ptr, tx_frame, transq, MEM_Buffer_List, sent, received>>
      /\ headP'[r] = <<RxSegment(r)>>
  BY DEF RxFirst, TypeOK
<1>2. pc'[r] \in {"sleep", "prep"} /\ Handling(r) /\ LastId(r)' = LastId(r)
  BY <1>1 DEF EndPass, TypeOK, Handling, LastId, GivenToStack
<1>3. \A d : After(e, d)' = After(e, d)
  BY <1>1 DEF After
<1>4. Filled(rx_frame[r]) /\ rx_frame[r].data = First(LastId(r) + 1)
  BY <1>1, <1>2 DEF Filled, Exact, Brings, DueHead
<1>5. /\ headP'[r] # <<>> /\ Len(headP'[r]) = 1 /\ headP'[r][1] = RxSegment(r)
      /\ RxSegment(r).data = rx_frame[r].data
  BY <1>1 DEF RxSegment
<1>6. LastRef(r)' = rx_frame[r].data /\ HeadId(r)' = LastId(r) + 1
  BY <1>4, <1>5 DEF LastRef, HeadId, First
<1>7. HeadExact(r)'
  BY <1>2, <1>4, <1>5, <1>6 DEF HeadExact, First
<1>8. DueHead(e, r)' = After(e, rx_frame[r].data)
  BY <1>2, <1>3, <1>5, <1>6 DEF DueHead
<1>9. DueRx(e, r) = After(e, rx_frame[r].data)
  BY <1>2, <1>4 DEF DueRx
<1>. QED  BY <1>1, <1>7, <1>8, <1>9, PassExact

LEMMA NextExact ==
  ASSUME TypeOK, NEW e \in Endpoint, NEW r \in Endpoint, r = Peer(e), r # e, Link(e, r),
         Exact(e, r), Usable(r), RxNext(r)
  PROVE  Exact(e, r)'
<1>1. /\ pc[r] = "rx" /\ ~rx_frame[r].FS /\ rx_frame[r].len # 0 /\ headP[r] # <<>> /\ EndPass(r)
      /\ UNCHANGED <<buf_ptr, tx_frame, transq, MEM_Buffer_List, sent, received>>
      /\ headP'[r] = Append(headP[r], RxSegment(r))
  BY DEF RxNext, TypeOK
<1>2. pc'[r] \in {"sleep", "prep"} /\ Handling(r) /\ LastId(r)' = LastId(r)
      /\ Filled(rx_frame[r])
  BY <1>1 DEF EndPass, TypeOK, Handling, LastId, GivenToStack, Filled
<1>3. \A d : After(e, d)' = After(e, d)
  BY <1>1 DEF After
<1>4. PICK h \in Seq(Segment), n \in Nat \ {0} : h = headP[r] /\ n = Len(headP[r])
  BY <1>1, EndTypes, RefTypes
<1>5. RxSegment(r) \in Segment /\ RxSegment(r).data = rx_frame[r].data
  BY EndTypes DEF RxSegment, Segment, Frame
<1>6. /\ Len(headP'[r]) = n + 1 /\ headP'[r][n + 1] = RxSegment(r)
      /\ \A i \in 1 .. n : headP'[r][i] = h[i]
      /\ headP'[r] # <<>>
  BY <1>1, <1>4, <1>5, AppendProperties
<1>7. LastRef(r)' = rx_frame[r].data
  BY <1>5, <1>6 DEF LastRef
<1>8. HeadId(r)' = HeadId(r) /\ HeadId(r) = LastId(r) + 1
  BY <1>1, <1>4, <1>6 DEF HeadId, Exact, HeadExact
<1>9. rx_frame[r].data.seg = n + 1
  <2>1. rx_frame[r].data = After(e, LastRef(r))
    BY <1>1, <1>2 DEF Exact, Brings, DueHead
  <2>2. rx_frame[r].data.seg # 1
    BY <1>1, <1>2 DEF Link, RxOK, FrameOK
  <2>3. LastRef(r).seg = n
    BY <1>1, <1>4 DEF LastRef, Exact, HeadExact
  <2>. QED  BY <2>1, <2>2, <2>3 DEF After, First
<1>10. HeadExact(r)'
  <2>1. ASSUME NEW i \in 1 .. n + 1
        PROVE  headP'[r][i].data.seg = i
    <3>1. CASE i = n + 1
      BY <1>5, <1>6, <1>9, <3>1
    <3>2. CASE i \in 1 .. n
      BY <1>1, <1>4, <1>6, <3>2 DEF Exact, HeadExact
    <3>. QED  BY <3>1, <3>2
  <2>. QED  BY <1>2, <1>6, <1>8, <2>1 DEF HeadExact
<1>11. DueHead(e, r)' = After(e, rx_frame[r].data)
  BY <1>2, <1>3, <1>6, <1>7 DEF DueHead
<1>12. DueRx(e, r) = After(e, rx_frame[r].data)
  BY <1>2 DEF DueRx
<1>. QED  BY <1>1, <1>10, <1>11, <1>12, PassExact

\* Only blank frames come to nothing.
LEMMA IgnoreExact ==
  ASSUME TypeOK, NEW e \in Endpoint, NEW r \in Endpoint, r = Peer(e), r # e, Link(e, r),
         Exact(e, r), RxIgnore(r)
  PROVE  Exact(e, r)'
<1>1. /\ pc[r] = "rx" /\ headP[r] = <<>> /\ headP' = headP /\ EndPass(r) /\ ~rx_frame[r].FS
      /\ UNCHANGED <<buf_ptr, tx_frame, transq, MEM_Buffer_List, sent, received>>
  BY DEF RxIgnore, stackVars
<1>2. Handling(r) /\ LastId(r)' = LastId(r)
  BY <1>1 DEF Handling, LastId, GivenToStack
<1>3. DueHead(e, r) = First(LastId(r) + 1) /\ DueHead(e, r)' = First(LastId(r) + 1)
  BY <1>1, <1>2 DEF DueHead
<1>4. ~Filled(rx_frame[r])
  <2> SUFFICES ASSUME Filled(rx_frame[r]) PROVE FALSE
    OBVIOUS
  <2>1. rx_frame[r].data = First(LastId(r) + 1)
    BY <1>2, <1>3 DEF Exact, Brings
  <2>2. rx_frame[r].data.seg # 1
    BY <1>1, <1>2 DEF Link, RxOK, FrameOK
  <2>. QED  BY <2>1, <2>2 DEF First
<1>5. DueRx(e, r) = DueHead(e, r)
  BY <1>4 DEF DueRx
<1>6. HeadExact(r)'
  BY <1>1 DEF HeadExact
<1>. QED  BY <1>1, <1>3, <1>5, <1>6, PassExact

\* What an end does as a receiver leaves the direction it sends in alone.
LEMMA SenderSame ==
  ASSUME TypeOK, NEW e \in Endpoint, NEW r \in Endpoint, r = Peer(e), r # e,
         GivenToStack(r)' = GivenToStack(r),
         \/ RxDispatch(e) \/ RxNotify(e) \/ RxFirst(e) \/ RxNext(e) \/ RxIgnore(e) \/ Wake(e)
         \/ NET_Demux(e)
  PROVE  Same(e, r)
<1>1. CASE RxDispatch(e) \/ RxNotify(e) \/ RxFirst(e) \/ RxNext(e) \/ RxIgnore(e) \/ Wake(e)
  BY <1>1 DEF Same, TypeOK, RxDispatch, RxNotify, RxFirst, RxNext, RxIgnore, Wake, EndPass,
              stackVars
<1>2. CASE NET_Demux(e)
  BY <1>2 DEF Same, NET_Demux, DemuxInput, DemuxEmpty, DemuxWake, taskVars, stackVars
<1>. QED  BY <1>1, <1>2

\* What an end does as a sender leaves the direction it receives in alone.
LEMMA ReceiverSame ==
  ASSUME TypeOK, NEW e \in Endpoint, NEW r \in Endpoint, r = Peer(e), r # e,
         GivenToStack(r)' = GivenToStack(r),
         \/ TxBlank(r) \/ TxEmpty(r) \/ TxFirst(r) \/ TxNext(r) \/ Wake(r)
         \/ NET_Demux(r) \/ ETH_Ether_Send(r)
  PROVE  Same(e, r)
<1>1. CASE TxBlank(r) \/ TxEmpty(r) \/ Wake(r)
  BY <1>1 DEF Same, TypeOK, TxBlank, TxEmpty, Wake, stackVars
<1>2. CASE TxFirst(r) \/ TxNext(r)
  <2>1. /\ pc[r] = "prep" /\ pc' = [pc EXCEPT ![r] = "xfer"]
        /\ UNCHANGED <<rx_frame, headP, sent>>
    BY <1>2 DEF TxFirst, TxNext
  <2>2. \E k, fs : SendSegment(r, k, fs)
    BY <1>2 DEF TxFirst, TxNext
  <2>3. transq'[e] = transq[e] /\ buf_ptr'[e] = buf_ptr[e] /\ tx_frame'[e] = tx_frame[e]
    BY <2>2 DEF SendSegment, DEV_Recover_TX_Buffers, TypeOK
  <2>. QED  BY <2>1, <2>3 DEF Same, TypeOK
<1>3. CASE NET_Demux(r) \/ ETH_Ether_Send(r)
  BY <1>3 DEF Same, TypeOK, NET_Demux, DemuxInput, DemuxEmpty, DemuxWake, ETH_Ether_Send,
              taskVars, stackVars
<1>. QED  BY <1>1, <1>2, <1>3

\* The task never comes to an empty buffer.
LEMMA NeverEmpty ==
  ASSUME TypeOK, TxPointerLive, NEW e \in Endpoint, QueueOK(e), SentFit(e)
  PROVE  ~TxEmpty(e)
<1> SUFFICES ASSUME TxEmpty(e) PROVE FALSE
  OBVIOUS
<1>1. /\ transq[e] # <<>> /\ PtrLen(e) = 0
      /\ buf_ptr[e].seg \in 2 .. Len(Head(transq[e]).lens)
  BY DEF TxEmpty, TxPointerLive
<1>2. PICK p \in Packet : p = Head(transq[e])
  BY <1>1, EndTypes, HeadTailProperties
<1>0. PICK k \in 1 .. Len(p.lens) : k = buf_ptr[e].seg
  BY <1>1, <1>2
<1>3. transq[e][1] = p /\ 1 \in 1 .. Len(transq[e])
  BY <1>1, <1>2, EndTypes, HeadTailProperties
<1>4. PICK n : n = Done(e) + 1
  OBVIOUS
<1>5. Matches(e, p, n)
  BY <1>3, <1>4 DEF QueueOK
<1>6. n \in 1 .. Len(sent[e])
  <2>1. PICK s \in Nat, q \in Nat, m \in Nat :
          s = Len(sent[e]) /\ q = Len(transq[e]) /\ m = Done(e)
    BY EndTypes, DoneTypes
  <2>2. m + q = s /\ q # 0
    BY <1>3, <2>1, DoneTypes
  <2>3. m + 1 \in 1 .. s
    BY ONLY <2>2, s \in Nat, q \in Nat, m \in Nat
  <2>. QED  BY <1>4, <2>1, <2>3
<1>7. Clamp(p.lens[k]) = Clamp(sent[e][n][k]) /\ sent[e][n][k] \in 1 .. IF_SPI_BUF_SIZE
  BY <1>5, <1>6 DEF Matches, SentFit
<1>8. p.lens[k] = 0
  BY <1>0, <1>1, <1>2 DEF PtrLen
<1>9. Clamp(sent[e][n][k]) # 0 /\ Clamp(0) = 0
  BY <1>7, SizesAssumption DEF Clamp, AtMost, IF_SPI_BUF_SIZE
<1>. QED  BY <1>7, <1>8, <1>9

LEMMA ExactStep ==
  ASSUME TypeOK, TxPointerLive, WireFits, Links, AllExact, BuffersSuffice, ChainsFit,
         [Next]_vars
  PROVE  AllExact'
<1> SUFFICES ASSUME NEW e \in Endpoint
             PROVE  Exact(e, Peer(e))'
  BY DEF AllExact
<1>1. PICK r \in Endpoint : r = Peer(e)
  BY Peers
<1>2. r # e /\ e = Peer(r) /\ \A x \in Endpoint : x = e \/ x = r
  BY <1>1, Peers
<1>3. Link(e, r) /\ Exact(e, r)
  BY <1>1 DEF Links, AllExact
<1>4. ~RxDispatch(r) => GivenToStack(r)' = GivenToStack(r)
  BY GivenSame
<1>5. CASE Exchange
  BY <1>1, <1>2, <1>3, <1>5, ExchangeExact
<1>6. CASE TxBlank(e)
  BY <1>1, <1>2, <1>3, <1>6, BlankExact
<1>7. CASE TxFirst(e)
  <2>1. Head(transq[e]) \in Packet
    BY <1>7 DEF TxFirst, TypeOK
  <2>2. Head(transq[e]).lens \in Seq(Nat) /\ Head(transq[e]).lens # <<>>
    BY <2>1 DEF Packet
  <2>3. 1 \in 1 .. Len(Head(transq[e]).lens)
    BY <2>2
  <2> QED
    BY <1>1, <1>2, <1>3, <1>7, <2>3, FrameExact DEF TxFirst
<1>8. CASE TxNext(e)
  <2>1. /\ transq[e] # <<>> /\ buf_ptr[e] # NU_NULL /\ buf_ptr[e] \in BufRef
        /\ buf_ptr[e].id = Head(transq[e]).id
        /\ buf_ptr[e].seg \in 2 .. Len(Head(transq[e]).lens)
    BY <1>8 DEF TxNext, TxPointerLive, TypeOK
  <2>2. PICK k : k = buf_ptr[e].seg
    OBVIOUS
  <2>3. buf_ptr[e] = [id |-> Head(transq[e]).id, seg |-> k]
    BY <2>1, <2>2 DEF BufRef
  <2>4. k \in 1 .. Len(Head(transq[e]).lens) /\ k # 1
    BY <2>1, <2>2
  <2>5. /\ SendSegment(e, k, FALSE) /\ pc[e] = "prep" /\ pc' = [pc EXCEPT ![e] = "xfer"]
        /\ UNCHANGED <<rx_frame, headP, MEM_Buffer_List, sent, received>>
    BY <1>8, <2>2 DEF TxNext
  <2> QED
    BY <1>1, <1>2, <1>3, <2>1, <2>3, <2>4, <2>5, FrameExact
<1>9. CASE TxEmpty(e)
  BY <1>3, <1>9, NeverEmpty DEF Link, Exact
<1>10. CASE ETH_Ether_Send(e)
  BY <1>1, <1>2, <1>3, <1>10, EtherExact
<1>11. CASE RxDispatch(r)
  BY <1>1, <1>2, <1>3, <1>11, DispatchExact
<1>12. CASE RxNotify(r)
  BY <1>1, <1>2, <1>3, <1>12, NotifyExact
<1>13. CASE RxFirst(r)
  <2>1. Usable(r)
    BY <1>13 DEF RxFirst, BuffersSuffice, WireFits, Usable
  <2>. QED  BY <1>1, <1>2, <1>3, <1>13, <2>1, FirstExact
<1>14. CASE RxNext(r)
  <2>1. Usable(r)
    BY <1>14 DEF RxNext, BuffersSuffice, WireFits, Usable
  <2>. QED  BY <1>1, <1>2, <1>3, <1>14, <2>1, NextExact
<1>15. CASE RxIgnore(r)
  BY <1>1, <1>2, <1>3, <1>15, IgnoreExact
<1>16. CASE /\ ~RxDispatch(r)
            /\ \/ RxDispatch(e) \/ RxNotify(e) \/ RxFirst(e) \/ RxNext(e) \/ RxIgnore(e)
               \/ Wake(e) \/ NET_Demux(e)
  BY <1>1, <1>2, <1>3, <1>4, <1>16, SenderSame, ExactSame
<1>17. CASE /\ ~RxDispatch(r)
            /\ \/ TxBlank(r) \/ TxEmpty(r) \/ TxFirst(r) \/ TxNext(r) \/ Wake(r)
               \/ NET_Demux(r) \/ ETH_Ether_Send(r)
  BY <1>1, <1>2, <1>3, <1>4, <1>17, ReceiverSame, ExactSame
<1>18. CASE UNCHANGED vars
  <2>1. Same(e, r)
    BY <1>18 DEF Same, vars, taskVars, stackVars, GivenToStack
  <2> QED
    BY <1>1, <1>3, <2>1, ExactSame
<1>. QED
  BY <1>1, <1>2, <1>5, <1>6, <1>7, <1>8, <1>9, <1>10, <1>11, <1>12, <1>13, <1>14, <1>15,
     <1>16, <1>17, <1>18 DEF Next, IFSPI_Task

LEMMA ExactInit == Init => AllExact
<1> SUFFICES ASSUME Init, NEW e \in Endpoint
             PROVE  Exact(e, Peer(e))
  BY DEF AllExact
<1>1. PICK r \in Endpoint : r = Peer(e)
  BY Peers
<1>2. /\ pc[e] = "prep" /\ pc[r] = "prep" /\ transq[e] = <<>> /\ buf_ptr[e] = NU_NULL
      /\ headP[r] = <<>> /\ sent[e] = <<>> /\ received[r] = <<>> /\ MEM_Buffer_List[r] = <<>>
  BY DEF Init
<1>3. GivenToStack(r) = <<>>
  BY <1>2 DEF GivenToStack
<1>4. LastId(r) = 0 /\ Done(e) = 0 /\ ~Handling(r)
  BY <1>2, <1>3 DEF LastId, Done, Handling
<1>5. DueTx(e, r) = First(1)
  BY <1>2, <1>4 DEF DueTx, DueRx, DueHead
<1>. QED  BY <1>1, <1>2, <1>3, <1>4, <1>5 DEF Exact, SentFit, HeadExact

\* A packet goes to the stack complete, and as the next one.
IsComplete(e, p) ==
  /\ Len(p.chain) = Len(sent[e][p.chain[1].data.id])
  /\ \A i \in 1 .. Len(p.chain) : p.chain[i].len = sent[e][p.chain[1].data.id][i]

ChannelCompletes(e, r) ==
  LET p == GivenToStack(r)'[Len(GivenToStack(r)')]
  IN  IsComplete(e, p) /\ p.chain[1].data.id = LastId(r) + 1

LEMMA CompletedStep ==
  ASSUME TypeOK, NEW e \in Endpoint, NEW r \in Endpoint, Link(e, r), Exact(e, r), RxDispatch(r)
  PROVE  ChannelCompletes(e, r)
<1>1. PICK p \in Received, g \in Seq(Received) :
        /\ p = [total |-> pktSize[r], chain |-> headP[r]] /\ g = GivenToStack(r)
  BY EndTypes DEF TypeOK, Received
<1>2. GivenToStack(r)' = Append(g, p) /\ p.chain = headP[r]
  BY <1>1, DispatchGives
<1>3. Append(g, p)[Len(Append(g, p))] = p
  BY AppendGrows
<1>4. headP[r] # <<>> /\ headP[r][1].data.id = HeadId(r)
  BY DEF RxDispatch, HeadId
<1>5. /\ HeadId(r) = LastId(r) + 1 /\ HeadId(r) \in 1 .. Len(sent[e])
      /\ Len(headP[r]) = Len(sent[e][HeadId(r)])
  BY CompleteHead
<1>6. ASSUME NEW i \in 1 .. Len(headP[r])
      PROVE  headP[r][i].len = sent[e][HeadId(r)][i]
  <2>1. /\ Carries(e, headP[r][i].data, headP[r][i].len)
        /\ headP[r][i].data.id = HeadId(r)
        /\ headP[r][i].data.seg = i
    BY <1>4 DEF Link, HeadOK, Exact, HeadExact
  <2>2. headP[r][i].len = Clamp(sent[e][HeadId(r)][i]) /\ i \in 1 .. Len(sent[e][HeadId(r)])
    BY <2>1 DEF Carries
  <2>3. sent[e][HeadId(r)][i] \in 1 .. IF_SPI_BUF_SIZE
    BY <1>5, <2>2 DEF Exact, SentFit
  <2>. QED  BY <2>2, <2>3, SizesAssumption DEF Clamp, AtMost, IF_SPI_BUF_SIZE
<1>7. IsComplete(e, p)
  BY <1>2, <1>4, <1>5, <1>6 DEF IsComplete
<1>. QED  BY <1>2, <1>3, <1>4, <1>5, <1>7 DEF ChannelCompletes

LEMMA LosslessStep ==
  ASSUME TypeOK, Links, AllExact, [Next]_vars, NEW e \in Endpoint, NEW r \in Endpoint,
         r = Peer(e)
  PROVE  \/ ChannelSends(e, r)
         \/ ChannelDelivers(e, r) /\ ChannelCompletes(e, r)
         \/ sent'[e] = sent[e] /\ GivenToStack(r)' = GivenToStack(r)
<1>1. Link(e, r) /\ Exact(e, r)
  BY DEF Links, AllExact
<1>2. CASE RxDispatch(r)
  BY <1>1, <1>2, DeliveredStep, CompletedStep
<1>3. CASE ~RxDispatch(r)
  <2>1. GivenToStack(r)' = GivenToStack(r)
    BY <1>3, GivenSame
  <2>2. CASE ETH_Ether_Send(e)
    BY <2>2, QueuedStep
  <2>3. CASE ~ETH_Ether_Send(e)
    <3>1. (\E x \in Endpoint : ETH_Ether_Send(x)) \/ UNCHANGED sent
      BY DEF Next, IFSPI_Task, NET_Demux, Exchange, RxDispatch, TxBlank, TxFirst, TxNext,
             TxEmpty, RxNotify, RxFirst, RxNext, RxIgnore, Wake, DemuxInput, DemuxEmpty,
             DemuxWake, vars
    <3>2. ASSUME NEW x \in Endpoint, ETH_Ether_Send(x), x # e
          PROVE  sent'[e] = sent[e]
      BY <3>2 DEF ETH_Ether_Send, TypeOK
    <3>. QED  BY <2>1, <2>3, <3>1, <3>2
  <2>. QED  BY <2>2, <2>3
<1>. QED  BY <1>2, <1>3

LEMMA LosslessInits ==
  Init => LosslessMasterToSlave!Init /\ LosslessSlaveToMaster!Init
<1>1. Init => /\ sent["master"] = <<>> /\ sent["slave"] = <<>>
              /\ received["master"] = <<>> /\ received["slave"] = <<>>
              /\ MEM_Buffer_List["master"] = <<>> /\ MEM_Buffer_List["slave"] = <<>>
  BY DEF Init, Endpoint
<1>. QED
  BY <1>1 DEF LosslessMasterToSlave!Init, LosslessSlaveToMaster!Init, GivenToStack

LEMMA LosslessForth ==
  ASSUME TypeOK, Links, AllExact, [Next]_vars
  PROVE  [LosslessMasterToSlave!Next]_(LosslessMasterToSlave!vars)
<1>1. \/ ChannelSends("master", "slave")
      \/ ChannelDelivers("master", "slave") /\ ChannelCompletes("master", "slave")
      \/ sent'["master"] = sent["master"] /\ GivenToStack("slave")' = GivenToStack("slave")
  BY LosslessStep DEF Endpoint, Peer
<1>2. CASE ChannelSends("master", "slave")
  BY <1>2 DEF ChannelSends, LosslessMasterToSlave!Next, LosslessMasterToSlave!Send,
     LosslessMasterToSlave!Grows
<1>3. CASE ChannelDelivers("master", "slave") /\ ChannelCompletes("master", "slave")
  <2>1. \A p : IsGenuine("master", p) => LosslessMasterToSlave!Genuine(p)
    BY DEF IsGenuine, LosslessMasterToSlave!Genuine, LosslessMasterToSlave!Source, Clamp, AtMost
  <2>2. LastId("slave") = LosslessMasterToSlave!LastSource
    BY DEF LastId, LosslessMasterToSlave!LastSource, LosslessMasterToSlave!Source
  <2>3. \A p : IsComplete("master", p) <=> LosslessMasterToSlave!Complete(p)
    BY DEF IsComplete, LosslessMasterToSlave!Complete, LosslessMasterToSlave!Source
  <2>4. sent'["master"] = sent["master"]
    BY <1>3 DEF ChannelDelivers
  <2>. QED  BY <1>3, <2>1, <2>2, <2>3, <2>4 DEF ChannelDelivers, ChannelCompletes,
     LosslessMasterToSlave!Next, LosslessMasterToSlave!Deliver, LosslessMasterToSlave!Grows,
     LosslessMasterToSlave!Source
<1>. QED  BY <1>1, <1>2, <1>3 DEF LosslessMasterToSlave!vars

LEMMA LosslessBack ==
  ASSUME TypeOK, Links, AllExact, [Next]_vars
  PROVE  [LosslessSlaveToMaster!Next]_(LosslessSlaveToMaster!vars)
<1>1. \/ ChannelSends("slave", "master")
      \/ ChannelDelivers("slave", "master") /\ ChannelCompletes("slave", "master")
      \/ sent'["slave"] = sent["slave"] /\ GivenToStack("master")' = GivenToStack("master")
  BY LosslessStep DEF Endpoint, Peer
<1>2. CASE ChannelSends("slave", "master")
  BY <1>2 DEF ChannelSends, LosslessSlaveToMaster!Next, LosslessSlaveToMaster!Send,
     LosslessSlaveToMaster!Grows
<1>3. CASE ChannelDelivers("slave", "master") /\ ChannelCompletes("slave", "master")
  <2>1. \A p : IsGenuine("slave", p) => LosslessSlaveToMaster!Genuine(p)
    BY DEF IsGenuine, LosslessSlaveToMaster!Genuine, LosslessSlaveToMaster!Source, Clamp, AtMost
  <2>2. LastId("master") = LosslessSlaveToMaster!LastSource
    BY DEF LastId, LosslessSlaveToMaster!LastSource, LosslessSlaveToMaster!Source
  <2>3. \A p : IsComplete("slave", p) <=> LosslessSlaveToMaster!Complete(p)
    BY DEF IsComplete, LosslessSlaveToMaster!Complete, LosslessSlaveToMaster!Source
  <2>4. sent'["slave"] = sent["slave"]
    BY <1>3 DEF ChannelDelivers
  <2>. QED  BY <1>3, <2>1, <2>2, <2>3, <2>4 DEF ChannelDelivers, ChannelCompletes,
     LosslessSlaveToMaster!Next, LosslessSlaveToMaster!Deliver, LosslessSlaveToMaster!Grows,
     LosslessSlaveToMaster!Source
<1>. QED  BY <1>1, <1>2, <1>3 DEF LosslessSlaveToMaster!vars

LEMMA AlwaysLinks == Spec => []Links
<1>1. TypeOK /\ TxPointerLive /\ Links /\ [Next]_vars => Links'
  BY LinksStep
<1>. QED  BY <1>1, LinksInit, PointerIsLive, PTL DEF Spec

\* For every pool, buffer and packet size: as long as no receiver runs out of
\* buffers, and with chains whose buffers are neither empty nor larger than a
\* frame, every packet comes to the other stack, complete and in its turn.
THEOREM LosslessWhileBuffersLast ==
  ASSUME ChainsFit
  PROVE  Spec /\ []BuffersSuffice => ImplementsLosslessChannel
<1>1. TypeOK /\ TxPointerLive /\ WireFits /\ Links /\ BuffersSuffice /\ AllExact
        /\ [Next]_vars => AllExact'
  BY ExactStep
<1>2. Spec /\ []BuffersSuffice => []AllExact
  BY <1>1, ExactInit, PointerIsLive, WireAlwaysFits, AlwaysLinks, PTL DEF Spec
<1>3. TypeOK /\ Links /\ AllExact /\ [Next]_vars
        => /\ [LosslessMasterToSlave!Next]_(LosslessMasterToSlave!vars)
           /\ [LosslessSlaveToMaster!Next]_(LosslessSlaveToMaster!vars)
  BY LosslessForth, LosslessBack
<1>. QED
  BY <1>2, <1>3, LosslessInits, PointerIsLive, AlwaysLinks, PTL
     DEF Spec, ImplementsLosslessChannel, LosslessMasterToSlave!Spec,
         LosslessSlaveToMaster!Spec

-----------------------------------------------------------------------------
(* A pool large enough for every packet *)

\* Packets of at most two buffers' size make chains of at most two buffers,
\* none of them empty or larger than a frame.
LEMMA SmallChains ==
  ASSUME EmptyTails = FALSE, PacketSizes \subseteq 1 .. 2 * NET_PARENT_BUFFER_SIZE
  PROVE  ChainsFit /\ \A c \in Chains : Len(c) <= 2
<1>1. PICK P \in Nat \ {0}, H \in Nat \ {0} :
        P = NET_PARENT_BUFFER_SIZE /\ H = BUFHDR_SIZE
  BY SizesAssumption
<1>2. ASSUME NEW n \in 1 .. 2 * P
      PROVE  /\ Len(ChainOf(n)) <= 2
             /\ \A k \in 1 .. Len(ChainOf(n)) : ChainOf(n)[k] \in 1 .. P
  <2>1. ChildBuffers(n) = (n + H - 1) \div (P + H)
    BY <1>1 DEF ChildBuffers, NET_MAX_BUFFER_SIZE
  <2>2. CASE n <= P
    <3>1. ChildBuffers(n) = 0
      <4>1. PICK a \in Nat, b \in Nat \ {0} : a = n + H - 1 /\ b = P + H
        BY n + H - 1 \in Nat
      <4>2. a < b
        BY <2>2, <4>1
      <4>3. a \div b = 0
        BY <4>2
      <4>. QED  BY <2>1, <4>1, <4>3
    <3>2. ChainOf(n) = [i \in 1 .. 1 |-> n]
      BY <1>1, <2>2, <3>1 DEF ChainOf, AtMost
    <3>. QED  BY <2>2, <3>2
  <2>3. CASE n > P
    <3>1. ChildBuffers(n) = 1
      <4>1. PICK a \in Nat, b \in Nat \ {0} : a = n + H - 1 /\ b = P + H
        BY n + H - 1 \in Nat
      <4>2. b <= a /\ a < b + b
        BY <2>3, <4>1
      <4>3. a \div b = 1
        BY <4>2
      <4>. QED  BY <2>1, <4>1, <4>3
    <3>2. ChainOf(n)[1] = P /\ ChainOf(n)[2] = n - P
      BY <1>1, <2>3, <3>1 DEF ChainOf, AtMost, NET_MAX_BUFFER_SIZE
    <3>3. Len(ChainOf(n)) = 2
      BY <3>1 DEF ChainOf
    <3>. QED  BY <2>3, <3>2, <3>3
  <2>. QED  BY <2>2, <2>3
<1>3. Chains = {ChainOf(n) : n \in PacketSizes}
  BY DEF Chains
<1>. QED  BY <1>1, <1>2, <1>3 DEF ChainsFit, IF_SPI_BUF_SIZE

\* At most MaxSends packets are sent, and the chains of them, and of what the
\* other stack was given, are of at most two buffers.
Short(e, r) ==
  /\ Len(sent[e]) <= MaxSends[e]
  /\ \A n \in 1 .. Len(sent[e]) : Len(sent[e][n]) <= 2
  /\ \A i \in 1 .. Len(MEM_Buffer_List[r]) : Len(MEM_Buffer_List[r][i].chain) <= 2

AllShort == \A e \in Endpoint : Short(e, Peer(e))

LEMMA ShortStep ==
  ASSUME TypeOK, Links, AllExact, AllShort, [Next]_vars, \A c \in Chains : Len(c) <= 2
  PROVE  AllShort'
<1> SUFFICES ASSUME NEW e \in Endpoint
             PROVE  Short(e, Peer(e))'
  BY DEF AllShort
<1>1. PICK r \in Endpoint : r = Peer(e)
  BY Peers
<1>2. Link(e, r) /\ Exact(e, r) /\ Short(e, r)
  BY <1>1 DEF Links, AllExact, AllShort
<1>3. PICK s \in Nat : s = Len(sent[e])
  BY EndTypes
<1>4. /\ Len(sent'[e]) <= MaxSends[e]
      /\ \A n \in 1 .. Len(sent'[e]) : Len(sent'[e][n]) <= 2
  <2>1. CASE ETH_Ether_Send(e)
    <3>1. PICK lens \in Chains : sent' = [sent EXCEPT ![e] = Append(@, lens)]
      BY <2>1 DEF ETH_Ether_Send
    <3>2. sent'[e] = Append(sent[e], lens) /\ lens \in Seq(Nat) /\ sent[e] \in Seq(Seq(Nat))
      BY <3>1, ChainsType DEF TypeOK
    <3>3. /\ Len(sent'[e]) = s + 1 /\ sent'[e][s + 1] = lens
          /\ \A i \in 1 .. s : sent'[e][i] = sent[e][i]
      BY <1>3, <3>2, AppendProperties
    <3>4. MaxSends[e] \in Nat /\ s < MaxSends[e]
      BY <1>3, <2>1, SizesAssumption DEF ETH_Ether_Send
    <3>5. ASSUME NEW n \in 1 .. s + 1
          PROVE  Len(sent'[e][n]) <= 2
      <4>1. CASE n = s + 1
        BY <3>3, <4>1
      <4>2. CASE n \in 1 .. s
        BY <1>2, <1>3, <3>3, <4>2 DEF Short
      <4>. QED  BY <4>1, <4>2
    <3>. QED  BY <3>3, <3>4, <3>5
  <2>2. CASE ~ETH_Ether_Send(e)
    <3>1. (\E x \in Endpoint : ETH_Ether_Send(x)) \/ UNCHANGED sent
      BY DEF Next, IFSPI_Task, NET_Demux, Exchange, RxDispatch, TxBlank, TxFirst, TxNext,
             TxEmpty, RxNotify, RxFirst, RxNext, RxIgnore, Wake, DemuxInput, DemuxEmpty,
             DemuxWake, vars
    <3>2. ASSUME NEW x \in Endpoint, ETH_Ether_Send(x), x # e
          PROVE  sent'[e] = sent[e]
      BY <3>2 DEF ETH_Ether_Send, TypeOK
    <3>3. sent'[e] = sent[e]
      BY <2>2, <3>1, <3>2
    <3>. QED  BY <1>2, <3>3 DEF Short
  <2>. QED  BY <2>1, <2>2
<1>5. PICK b \in Seq(Received), m \in Nat : b = MEM_Buffer_List[r] /\ m = Len(b)
  <2>1. MEM_Buffer_List[r] \in Seq(Received) /\ Len(MEM_Buffer_List[r]) \in Nat
    BY EndTypes
  <2>. QED  BY <2>1
<1>6. \A i \in 1 .. m : Len(b[i].chain) <= 2
  BY <1>2, <1>5 DEF Short
<1>7. \A i \in 1 .. Len(MEM_Buffer_List'[r]) : Len(MEM_Buffer_List'[r][i].chain) <= 2
  <2>1. CASE RxDispatch(r)
    <3>1. PICK p : p = [total |-> pktSize[r], chain |-> headP[r]]
      OBVIOUS
    <3>2. p \in Received /\ p.chain = headP[r] /\ MEM_Buffer_List'[r] = Append(b, p)
      BY <1>5, <2>1, <3>1 DEF RxDispatch, TypeOK, Received
    <3>3. Len(p.chain) <= 2
      BY <1>2, <2>1, <3>2, CompleteHead DEF Short
    <3>4. PICK t \in Seq(Received) : t = Append(b, p)
      <4>1. Append(b, p) \in Seq(Received)
        BY <3>2
      <4>. QED  BY <4>1
    <3>5. Len(t) = m + 1 /\ t[m + 1] = p /\ \A i \in 1 .. m : t[i] = b[i]
      BY <1>5, <3>2, <3>4, AppendProperties
    <3>6. ASSUME NEW i \in 1 .. m + 1
          PROVE  Len(t[i].chain) <= 2
      <4>1. CASE i = m + 1
        BY <3>3, <3>5, <4>1
      <4>2. CASE i \in 1 .. m
        <5>1. t[i] = b[i]
          BY <3>5, <4>2
        <5>. QED  BY <1>6, <4>2, <5>1
      <4>. QED  BY <4>1, <4>2
    <3>. QED  BY <3>2, <3>4, <3>5, <3>6
  <2>2. CASE DemuxInput(r)
    <3>1. b # <<>> /\ MEM_Buffer_List'[r] = Tail(b)
      BY <1>5, <2>2 DEF DemuxInput, TypeOK
    <3>2. Len(Tail(b)) = m - 1 /\ \A i \in 1 .. Len(Tail(b)) : Tail(b)[i] = b[i + 1]
      BY <1>5, <3>1, HeadTailProperties
    <3>3. ASSUME NEW i \in 1 .. m - 1
          PROVE  Len(Tail(b)[i].chain) <= 2
      <4>1. PICK j \in 1 .. m : j = i + 1
        OBVIOUS
      <4>2. Tail(b)[i] = b[j]
        BY <3>2, <4>1
      <4>. QED  BY <1>6, <4>2
    <3>. QED  BY <3>1, <3>2, <3>3
  <2>3. CASE ~RxDispatch(r) /\ ~DemuxInput(r)
    <3>1. ASSUME NEW x \in Endpoint, DemuxInput(x) \/ RxDispatch(x), x # r
          PROVE  MEM_Buffer_List'[r] = MEM_Buffer_List[r]
      BY <3>1 DEF DemuxInput, RxDispatch, TypeOK
    <3>2. \/ \E x \in Endpoint : DemuxInput(x) \/ RxDispatch(x)
          \/ UNCHANGED MEM_Buffer_List
      BY DEF Next, IFSPI_Task, NET_Demux, Exchange, ETH_Ether_Send, TxBlank, TxFirst, TxNext,
             TxEmpty, RxNotify, RxFirst, RxNext, RxIgnore, Wake, DemuxEmpty, DemuxWake, vars,
             stackVars
    <3>3. MEM_Buffer_List'[r] = b
      BY <1>5, <2>3, <3>1, <3>2
    <3>. QED  BY <1>5, <1>6, <3>3
  <2>. QED  BY <2>1, <2>2, <2>3
<1>. QED  BY <1>1, <1>4, <1>7 DEF Short

\* The packets queued at r and the packets of e given to its stack use at most
\* two buffers each.
LEMMA PoolUse ==
  ASSUME TypeOK, Links, AllExact, AllShort, NEW r \in Endpoint, NEW e \in Endpoint,
         e = Peer(r), r = Peer(e)
  PROVE  Queued(r) <= 2 * MaxSends[r] /\ Given(r) <= 2 * LastId(r)
<1>1. Link(r, e) /\ Exact(e, r) /\ Short(r, e) /\ Short(e, r)
  BY DEF Links, AllExact, AllShort
<1>2. PICK q \in Seq(Packet), n \in Nat, s \in Nat, m \in Nat :
        q = transq[r] /\ n = Len(q) /\ s = Len(sent[r]) /\ m = Done(r)
  <2>1. Done(r) \in Nat
    BY <1>1, DoneTypes DEF Link
  <2>. QED  BY <2>1, EndTypes
<1>3. m + n = s /\ s <= MaxSends[r]
  BY <1>1, <1>2, DoneTypes DEF Link, Short
<1>4. ASSUME NEW i \in 1 .. n
      PROVE  Len(q[i].lens) <= 2
  <2>1. Matches(r, q[i], m + i)
    BY <1>1, <1>2 DEF Link, QueueOK
  <2>2. PICK j \in 1 .. s : j = m + i
    <3>1. m + i \in 1 .. s
      BY ONLY <1>3, m \in Nat, s \in Nat, n \in Nat, i \in 1 .. n
    <3>. QED  BY <3>1
  <2>3. Len(q[i].lens) = Len(sent[r][j])
    BY <2>1, <2>2 DEF Matches
  <2>. QED  BY <1>1, <1>2, <2>2, <2>3 DEF Short
<1>5. Queued(r) <= n * 2
  <2>1. PICK x \in Seq(Nat) : x = QueuedLens(q)
    BY QueuedType
  <2>2. Len(x) = n /\ \A i \in 1 .. Len(x) : x[i] <= 2
    BY <1>2, <1>4, <2>1, QueuedType
  <2>. QED  BY <1>2, <2>1, <2>2, SumBound DEF Queued
<1>6. PICK g \in Seq(Received), c \in Nat : g = MEM_Buffer_List[r] /\ c = Len(g)
  <2>1. MEM_Buffer_List[r] \in Seq(Received) /\ Len(MEM_Buffer_List[r]) \in Nat
    BY EndTypes
  <2>. QED  BY <2>1
<1>7. Given(r) <= c * 2
  <2>1. PICK x \in Seq(Nat) : x = ChainLens(g)
    BY ChainType
  <2>2. \A i \in 1 .. c : Len(g[i].chain) <= 2
    BY <1>1, <1>6 DEF Short
  <2>3. Len(x) = c /\ \A i \in 1 .. Len(x) : x[i] <= 2
    BY <1>6, <2>1, <2>2, ChainType
  <2>. QED  BY <1>6, <2>1, <2>3, SumBound DEF Given
<1>8. c <= LastId(r) /\ LastId(r) \in Nat
  <2>1. PICK a \in Seq(Received), k \in Nat : a = received[r] /\ k = Len(a)
    <3>1. received[r] \in Seq(Received) /\ Len(received[r]) \in Nat
      BY EndTypes
    <3>. QED  BY <3>1
  <2>2. Len(GivenToStack(r)) = k + c
    BY <1>6, <2>1, ConcatProperties DEF GivenToStack
  <2>. QED  BY <1>1, <2>2 DEF Exact
<1>9. Queued(r) \in Nat /\ Given(r) \in Nat /\ MaxSends[r] \in Nat
  BY ConservedTypes, SizesAssumption
<1>. QED  BY <1>3, <1>5, <1>7, <1>8, <1>9

LEMMA PoolSuffices ==
  ASSUME TypeOK, Links, AllExact, AllShort, BuffersConserved,
         MAX_BUFFERS >= 2 * (MaxSends["master"] + MaxSends["slave"])
  PROVE  BuffersSuffice
<1> SUFFICES ASSUME NEW r \in Endpoint, pc[r] = "rx",
                    \/ rx_frame[r].FS /\ headP[r] = <<>>
                    \/ ~rx_frame[r].FS /\ headP[r] # <<>> /\ rx_frame[r].len # 0
             PROVE  free[r] > 0
  BY DEF BuffersSuffice
<1>1. PICK e \in Endpoint : e = Peer(r) /\ r = Peer(e)
  BY Peers
<1>2. Link(e, r) /\ Exact(e, r) /\ Short(e, r)
  BY <1>1 DEF Links, AllExact, AllShort
<1>3. PICK a \in Nat, b \in Nat : a = MaxSends[r] /\ b = MaxSends[e]
  BY SizesAssumption
<1>4. MAX_BUFFERS >= 2 * (a + b) /\ MAX_BUFFERS \in Nat
  BY <1>1, <1>3, SizesAssumption DEF Endpoint, Peer
<1>5. PICK q \in Nat, g \in Nat, h \in Nat, f \in Nat, l \in Nat :
        q = Queued(r) /\ g = Given(r) /\ h = Assembling(r) /\ f = free[r] /\ l = LastId(r)
  BY <1>2, ConservedTypes, RefTypes
<1>6. f + q + h + g = MAX_BUFFERS /\ q <= 2 * a /\ g <= 2 * l
  <2>1. ConservedAt(r)
    BY ConservedParts
  <2>. QED  BY <1>1, <1>3, <1>5, <2>1, PoolUse DEF ConservedAt
<1>7. Filled(rx_frame[r]) /\ Handling(r) /\ Carries(e, rx_frame[r].data, rx_frame[r].len)
  BY <1>2 DEF Filled, Handling, Link, RxOK, FrameOK
<1>8. rx_frame[r].data.id \in 1 .. Len(sent[e]) /\ rx_frame[r].data.id <= b
  <2>1. PICK s \in Nat : s = Len(sent[e]) /\ s <= b
    BY <1>2, <1>3, EndTypes DEF Short
  <2>2. rx_frame[r].data.id \in 1 .. s
    BY <1>7, <2>1 DEF Carries
  <2>. QED  BY <2>1, <2>2
<1>9. h <= 1 /\ l + 1 <= b
  <2>1. rx_frame[r].data = DueHead(e, r)
    BY <1>2, <1>7 DEF Exact, Brings
  <2>2. CASE headP[r] = <<>>
    <3>1. DueHead(e, r) = First(l + 1)
      BY <1>5, <2>2 DEF DueHead
    <3>2. h = 0
      BY <1>5, <2>2 DEF Assembling
    <3>. QED  BY <1>8, <2>1, <3>1, <3>2 DEF First
  <2>3. CASE headP[r] # <<>>
    <3>1. DueHead(e, r) = After(e, LastRef(r)) /\ h = Len(headP[r])
      BY <1>5, <2>3 DEF DueHead, Assembling
    <3>2. rx_frame[r].data.seg # 1
      BY <1>2, <1>7, <2>3 DEF Link, RxOK, FrameOK
    <3>3. h \in 1 .. Len(headP[r]) /\ LastRef(r).id = HeadId(r) /\ HeadId(r) = l + 1
      BY <1>2, <1>5, <2>3, <3>1, RefTypes DEF Exact, HeadExact
    <3>4. LastRef(r).seg = h
      BY <1>2, <2>3, <3>1, <3>3 DEF Exact, HeadExact, LastRef
    <3>5. rx_frame[r].data.id = l + 1 /\ rx_frame[r].data.seg = h + 1
      BY <2>1, <3>1, <3>2, <3>3, <3>4 DEF After, First
    <3>6. PICK n \in Nat : n = Len(sent[e][l + 1])
      <4>1. sent[e][l + 1] \in Seq(Nat)
        BY <1>8, <3>5, EndTypes
      <4>2. Len(sent[e][l + 1]) \in Nat
        BY <4>1
      <4>. QED  BY <4>2
    <3>7. h + 1 \in 1 .. n
      BY <1>7, <3>5, <3>6 DEF Carries
    <3>8. n <= 2
      BY <1>2, <1>8, <3>5, <3>6 DEF Short
    <3>. QED  BY <1>8, <3>5, <3>7, <3>8
  <2>. QED  BY <2>2, <2>3
<1>10. f > 0
  BY ONLY <1>4, <1>6, <1>9, a \in Nat, b \in Nat, q \in Nat, g \in Nat, h \in Nat, f \in Nat,
          l \in Nat
<1>. QED  BY <1>5, <1>10

LEMMA PoolStep ==
  ASSUME TypeOK, TxPointerLive, WireFits, Links, BuffersConserved, AllExact, AllShort,
         [Next]_vars, ChainsFit, \A c \in Chains : Len(c) <= 2,
         MAX_BUFFERS >= 2 * (MaxSends["master"] + MaxSends["slave"])
  PROVE  (AllExact /\ AllShort)'
<1>1. BuffersSuffice
  BY PoolSuffices
<1>2. AllExact'
  BY <1>1, ExactStep
<1>3. AllShort'
  BY ShortStep
<1>. QED  BY <1>2, <1>3

\* For every buffer size: with two buffers in the pool of each end for every
\* packet the two stacks send, and packets of at most two buffers' size, the
\* link loses nothing.
THEOREM LosslessWithPool ==
  ASSUME EmptyTails = FALSE, PacketSizes \subseteq 1 .. 2 * NET_PARENT_BUFFER_SIZE,
         MAX_BUFFERS >= 2 * (MaxSends["master"] + MaxSends["slave"])
  PROVE  Spec => ImplementsLosslessChannel
<1>1. ChainsFit /\ \A c \in Chains : Len(c) <= 2
  BY SmallChains
<1>2. Init => AllShort
  <2> SUFFICES ASSUME Init, NEW e \in Endpoint PROVE Short(e, Peer(e))
    BY DEF AllShort
  <2>1. sent[e] = <<>> /\ MEM_Buffer_List[Peer(e)] = <<>>
    BY Peers DEF Init
  <2>. QED  BY <2>1, SizesAssumption DEF Short
<1>3. TypeOK /\ TxPointerLive /\ WireFits /\ Links /\ BuffersConserved /\ AllExact
        /\ AllShort /\ [Next]_vars
        => (AllExact /\ AllShort)'
  BY <1>1, PoolStep
<1>4. TypeOK /\ Links /\ AllExact /\ AllShort /\ BuffersConserved => BuffersSuffice
  BY PoolSuffices
<1>5. Spec /\ []BuffersSuffice => ImplementsLosslessChannel
  BY <1>1, LosslessWhileBuffersLast
<1>. QED
  BY <1>2, <1>3, <1>4, <1>5, ExactInit, PointerIsLive, WireAlwaysFits, AlwaysLinks,
     NoBufferIsLost, PTL DEF Spec
=============================================================================
