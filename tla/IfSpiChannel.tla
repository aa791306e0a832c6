---------------------------- MODULE IfSpiChannel ----------------------------
(***************************************************************************)
(* What the SPI link promises the network stacks in one direction: packets  *)
(* arrive in the order they were queued, none twice, each made only of      *)
(* buffers of the packet it was sent as, its first buffer included.  The    *)
(* link may drop a packet, or buffers of it, when the receiver runs out of  *)
(* buffers, and it truncates a buffer larger than a frame; a lossless link  *)
(* does neither.                                                            *)
(***************************************************************************)
EXTENDS Naturals, Sequences

CONSTANTS
  FrameSize,   \* data bytes of one frame
  Lossless     \* no buffer shortage at the receiver, no oversized buffer

VARIABLES
  sent,        \* chains (sequences of buffer lengths) queued so far
  recvd        \* packets [total, chain] given to the receiving stack so far

vars == <<sent, recvd>>

\* s grows by exactly one element.
Grows(s, t) == Len(t) = Len(s) + 1 /\ SubSeq(t, 1, Len(s)) = s

\* Which packet was received, taken from its first buffer.
Source(p) == p.chain[1].data.id

\* Every buffer of p comes from packet Source(p), in the order of its chain
\* and starting with the first, and holds what a frame can carry of it.
Genuine(p) ==
  /\ Len(p.chain) > 0
  /\ Source(p) \in 1 .. Len(sent)
  /\ p.chain[1].data.seg = 1
  /\ \A i \in 1 .. Len(p.chain) :
       LET s == p.chain[i] IN
       /\ s.data.id = Source(p)
       /\ s.data.seg \in 1 .. Len(sent[Source(p)])
       /\ s.len = IF sent[Source(p)][s.data.seg] > FrameSize
                    THEN FrameSize ELSE sent[Source(p)][s.data.seg]
       /\ i > 1 => s.data.seg > p.chain[i - 1].data.seg

\* All of it arrived.
Complete(p) ==
  /\ Len(p.chain) = Len(sent[Source(p)])
  /\ \A i \in 1 .. Len(p.chain) : p.chain[i].len = sent[Source(p)][i]

LastSource == IF recvd = <<>> THEN 0 ELSE Source(recvd[Len(recvd)])

Init == sent = <<>> /\ recvd = <<>>

Send == Grows(sent, sent') /\ UNCHANGED recvd

Deliver ==
  /\ Grows(recvd, recvd')
  /\ LET p == recvd'[Len(recvd')] IN
       /\ Genuine(p)
       /\ Source(p) > LastSource
       /\ Lossless => Complete(p) /\ Source(p) = LastSource + 1
  /\ UNCHANGED sent

Next == Send \/ Deliver

Spec == Init /\ [][Next]_vars
=============================================================================
