---------------------------- MODULE IfSpiFraming ----------------------------
(***************************************************************************)
(* How the frames of the two ends of the link lie on the stream of words    *)
(* that the master clocks.  IfSpiLink takes a transfer of both ends as one  *)
(* exchange; here the two IFSPI tasks come up at different times and run at *)
(* their own pace (IFSPI_Task_Entry of ifspi_tgt.c), each with transfers of *)
(* a whole frame that return before their last words are through            *)
(* (NU_SPI_DMA_Transfer of lwspi.c).                                        *)
(*                                                                          *)
(* A word is abstracted to its place in the frame of its sender: 1 is sof,  *)
(* Words is eof, and 0 is what an end with nothing to send puts on the line.*)
(***************************************************************************)
EXTENDS Naturals, Sequences

CONSTANT Words  \* sizeof(IF_SPI_Frame), in words

End == {"master", "slave"}  \* SPI_CFG_DEV_MASTER, SPI_CFG_DEV_SLAVE

PIPE == 2  \* the transmit register and the shift register

VARIABLES
  phase,     \* what each end is doing
  left,      \* words of its frames still to go on the line
  ndtr,      \* words its receiving stream still waits for
  dr,        \* the slave's data register: a word nobody has fetched, if any
  rx_frame   \* the words each end has received

vars == <<phase, left, ndtr, dr, rx_frame>>

Word == 0 .. Words

Init ==
  /\ phase = [e \in End |-> "off"]
  /\ left = [e \in End |-> 0]
  /\ ndtr = [e \in End |-> 0]
  /\ dr = <<>>
  /\ rx_frame = [e \in End |-> [k \in 1 .. Words |-> 0]]

-----------------------------------------------------------------------------
\* IF_SPI_Tgt_Controller_Init: the controller is configured and enabled, and
\* the task started.
PowerUp(e) ==
  /\ phase[e] = "off"
  /\ phase' = [phase EXCEPT ![e] = "up"]
  /\ UNCHANGED <<left, ndtr, dr, rx_frame>>

\* "Sync link if master" is an empty block: the task comes to its loop without
\* having looked at the line.
SyncLink(e) ==
  /\ phase[e] = "up"
  /\ phase' = [phase EXCEPT ![e] = "loop"]
  /\ UNCHANGED <<left, ndtr, dr, rx_frame>>

\* NU_SPI_DMA_Transfer: when the receive before is over the receiving stream is
\* programmed.  That of the slave finds the word that came in the meantime.
Receive(e) ==
  /\ phase[e] \in {"loop", "process"}
  /\ ndtr[e] = 0
  /\ phase' = [phase EXCEPT ![e] = "receive"]
  /\ \/ /\ e = "slave" /\ dr # <<>>
        /\ rx_frame' = [rx_frame EXCEPT ![e][1] = dr[1]]
        /\ ndtr' = [ndtr EXCEPT ![e] = Words - 1]
        /\ dr' = <<>>
     \/ /\ e = "master" \/ dr = <<>>
        /\ ndtr' = [ndtr EXCEPT ![e] = Words]
        /\ UNCHANGED <<rx_frame, dr>>
  /\ UNCHANGED left

\* Then the sending stream.
Send(e) ==
  /\ phase[e] = "receive"
  /\ phase' = [phase EXCEPT ![e] = "transfer"]
  /\ left' = [left EXCEPT ![e] = @ + Words]
  /\ UNCHANGED <<ndtr, dr, rx_frame>>

\* The call returns when the sending stream is through, whatever is received by
\* then, and the task deals with rx_frame.  (The master then sleeps for a tick,
\* which may be shorter or longer than what the slave does meanwhile.)
Process(e) ==
  /\ phase[e] = "transfer"
  /\ left[e] <= PIPE
  /\ phase' = [phase EXCEPT ![e] = "process"]
  /\ UNCHANGED <<left, ndtr, dr, rx_frame>>

\* The word an end puts on the line: of the frame it sends, or of the one before
\* if some of that is still left.
NextWord(e) ==
  LET n == IF left[e] > Words THEN left[e] - Words ELSE left[e]
  IN  IF n = 0 THEN 0 ELSE Words + 1 - n

\* Where the next word goes.
Place(e) == Words + 1 - ndtr[e]

\* The master clocks a word out and one in.  The slave's stream stores the word;
\* without a stream it stays in the data register, or is lost.
Clock ==
  /\ left["master"] > 0
  /\ left' = [e \in End |-> IF left[e] = 0 THEN 0 ELSE left[e] - 1]
  /\ LET m == [rx_frame EXCEPT !["master"][Place("master")] = NextWord("slave")]
     IN
     \/ /\ ndtr["slave"] > 0
        /\ rx_frame' = [m EXCEPT !["slave"][Place("slave")] = NextWord("master")]
        /\ ndtr' = [e \in End |-> ndtr[e] - 1]
        /\ UNCHANGED dr
     \/ /\ ndtr["slave"] = 0
        /\ rx_frame' = m
        /\ ndtr' = [ndtr EXCEPT !["master"] = @ - 1]
        /\ dr' = IF dr = <<>> /\ phase["slave"] # "off"
                   THEN <<NextWord("master")>> ELSE dr
  /\ UNCHANGED phase

-----------------------------------------------------------------------------
EndStep(e) ==
  PowerUp(e) \/ SyncLink(e) \/ Receive(e) \/ Send(e) \/ Process(e)

Next == Clock \/ \E e \in End : EndStep(e)

\* Both ends come up sooner or later and their tasks run; the master's
\* controller clocks what its stream gives it.
Spec ==
  /\ Init /\ [][Next]_vars
  /\ WF_vars(Clock) /\ \A e \in End : WF_vars(EndStep(e))
-----------------------------------------------------------------------------
Begin == {"off", "up", "loop"}

\* Both streams of the slave are programmed when the master begins a frame.
MasterBegins == phase["master"] = "transfer" /\ ndtr["master"] = Words
SlaveArmed   == ndtr["slave"] > 0 /\ left["slave"] > 0

\* ... from the slave's own first transfer on.
SlaveKeepsUp == MasterBegins /\ phase["slave"] \notin Begin => SlaveArmed

\* What an end has received of the current frame lies at its place in rx_frame.
InPlace ==
  \A e \in End : phase[e] \notin Begin =>
    \A k \in 1 .. Words - ndtr[e] : rx_frame[e][k] = k

\* "The sync process will make sure framing lines up on asynchronous
\* master/slave interface power up" (ifspi_tgt.c): if the slave, once it has come
\* up, is never late for a frame of the master, then from some time on every
\* word lies at its place.
FramingLinesUp == []SlaveKeepsUp => <>[]InPlace
=============================================================================
