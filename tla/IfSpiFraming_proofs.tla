------------------------ MODULE IfSpiFraming_proofs ------------------------
(***************************************************************************)
(* The frames of the two ends line up, and IfSpiLink may take a transfer of *)
(* both ends as one exchange, if both streams of the slave are programmed   *)
(* whenever the master begins a frame: for frames of any length.  The calls *)
(* may return early, and the tasks run ahead of the words, as they do.      *)
(***************************************************************************)
EXTENDS IfSpiFraming, Integers, TLAPS

\* The only hypothesis: the slave is never late, from the first frame of the
\* master on.  Nothing in the code sees to it, neither at power up (the run
\* framing_powerup) nor later, where the master just sleeps for a tick.
SlaveReady == MasterBegins => SlaveArmed

\* While words of a frame of the master are to come, as many are left of the
\* slave's, both ends wait for as many, and no word waits for a stream.
InStep ==
  /\ dr = <<>>
  /\ left["master"] > 0 => /\ left["slave"] = left["master"]
                           /\ \A e \in End : ndtr[e] = left["master"]

-----------------------------------------------------------------------------
Phases == Begin \cup {"receive", "transfer", "process"}

FramingTypes ==
  /\ phase \in [End -> Phases]
  /\ left \in [End -> 0 .. Words] /\ ndtr \in [End -> 0 .. Words]
  /\ rx_frame \in [End -> [1 .. Words -> Word]]

\* What each end has to send and to receive, by the place of its task.
Shape(e) ==
  /\ phase[e] \in Begin => ndtr[e] = 0 /\ left[e] = 0
  /\ phase[e] = "receive" => ndtr[e] = Words /\ left[e] = 0
  /\ phase[e] \in {"transfer", "process"} => ndtr[e] = left[e]

\* The slave is at the master's word, or at an end of the frame: done with it,
\* or waiting for the next one.
Aligned ==
  /\ left["master"] > 0 => /\ left["slave"] = left["master"]
                           /\ phase["slave"] \in {"transfer", "process"}
  /\ left["master"] = 0 => left["slave"] \in {0, Words}

IInv ==
  /\ FramingTypes /\ dr = <<>>
  /\ \A e \in End : Shape(e)
  /\ Aligned /\ InPlace

LEMMA EndIs == \A e \in End : e = "master" \/ e = "slave"
  BY DEF End

LEMMA IInvInit ==
  ASSUME Words \in Nat \ {0}
  PROVE  Init => IInv
<1> SUFFICES ASSUME Init PROVE IInv
  OBVIOUS
<1>1. FramingTypes
  BY DEF Init, FramingTypes, Phases, Begin, Word
<1>2. (\A e \in End : Shape(e)) /\ Aligned /\ InPlace /\ dr = <<>>
  BY DEF Init, Shape, Aligned, InPlace, Begin, End
<1>. QED  BY <1>1, <1>2 DEF IInv

\* A step of a task that programs no stream: it comes up, comes to its loop, or
\* its call returns.
LEMMA TaskKeeps ==
  ASSUME Words \in Nat \ {0}, IInv, NEW e \in End,
         PowerUp(e) \/ SyncLink(e) \/ Process(e)
  PROVE  IInv'
<1>1. PICK l \in {"up", "loop", "process"} :
        /\ phase' = [phase EXCEPT ![e] = l]
        /\ \/ phase[e] \in {"off", "up"} /\ l # "process"
           \/ phase[e] = "transfer" /\ l = "process"
        /\ UNCHANGED <<left, ndtr, dr, rx_frame>>
  BY DEF PowerUp, SyncLink, Process
<1>2. FramingTypes'
  BY <1>1 DEF IInv, FramingTypes, Phases, Begin
<1>3. /\ phase'[e] = l
      /\ \A o \in End : o # e => phase'[o] = phase[o]
  BY <1>1 DEF IInv, FramingTypes
<1>4. ASSUME NEW o \in End PROVE Shape(o)'
  BY <1>1, <1>3 DEF IInv, Shape, Begin
<1>5. Aligned'
  <2>1. "slave" \in End
    BY DEF End
  <2>. QED  BY <1>1, <1>3, <2>1 DEF IInv, Aligned
<1>6. InPlace'
  <2>1. ASSUME NEW o \in End, phase'[o] \notin Begin PROVE phase[o] \notin Begin
    BY <1>1, <1>3, <2>1 DEF Begin
  <2>. QED  BY <1>1, <2>1 DEF IInv, InPlace
<1>. QED  BY <1>1, <1>2, <1>4, <1>5, <1>6 DEF IInv

\* The receiving stream is programmed when the words of the frame before are all
\* there; none of the next one has come.
LEMMA ReceiveKeeps ==
  ASSUME Words \in Nat \ {0}, IInv, NEW e \in End, Receive(e)
  PROVE  IInv'
<1>1. /\ phase[e] \in {"loop", "process"} /\ ndtr[e] = 0
      /\ phase' = [phase EXCEPT ![e] = "receive"]
      /\ ndtr' = [ndtr EXCEPT ![e] = Words]
      /\ UNCHANGED <<left, rx_frame, dr>>
  BY DEF Receive, IInv
<1>2. FramingTypes'
  BY <1>1 DEF IInv, FramingTypes, Phases, Begin
<1>3. /\ phase'[e] = "receive" /\ ndtr'[e] = Words
      /\ \A o \in End : o # e => phase'[o] = phase[o] /\ ndtr'[o] = ndtr[o]
  BY <1>1 DEF IInv, FramingTypes
<1>4. left[e] = 0
  BY <1>1 DEF IInv, Shape, Begin
<1>5. ASSUME NEW o \in End PROVE Shape(o)'
  BY <1>1, <1>3, <1>4 DEF IInv, Shape, Begin
<1>6. Aligned'
  <2>1. left["master"] > 0 => e # "slave"
    BY <1>4 DEF IInv, Aligned
  <2>2. "slave" \in End
    BY DEF End
  <2>. QED  BY <1>1, <1>3, <2>1, <2>2 DEF IInv, Aligned
<1>7. InPlace'
  <2>1. ASSUME NEW o \in End, phase'[o] \notin Begin, NEW k \in 1 .. Words - ndtr'[o]
        PROVE  rx_frame'[o][k] = k
    <3>1. o # e
      BY <1>3, <2>1
    <3>. QED  BY <1>1, <1>3, <2>1, <3>1 DEF IInv, InPlace
  <2>. QED  BY <2>1 DEF InPlace
<1>. QED  BY <1>1, <1>2, <1>5, <1>6, <1>7 DEF IInv

\* When the master programs its sending stream the slave's two are, which are
\* then at the beginning of a frame.
LEMMA SendKeeps ==
  ASSUME Words \in Nat \ {0}, IInv, SlaveReady', NEW e \in End, Send(e)
  PROVE  IInv'
<1>1. /\ phase[e] = "receive"
      /\ phase' = [phase EXCEPT ![e] = "transfer"]
      /\ left' = [left EXCEPT ![e] = left[e] + Words]
      /\ UNCHANGED <<ndtr, dr, rx_frame>>
  BY DEF Send
<1>2. left[e] = 0 /\ ndtr[e] = Words
  BY <1>1 DEF IInv, Shape
<1>3. /\ phase'[e] = "transfer" /\ left'[e] = Words
      /\ \A o \in End : o # e => phase'[o] = phase[o] /\ left'[o] = left[o]
  BY <1>1, <1>2 DEF IInv, FramingTypes
<1>4. FramingTypes'
  BY <1>1, <1>2 DEF IInv, FramingTypes, Phases, Begin
<1>5. ASSUME NEW o \in End PROVE Shape(o)'
  BY <1>1, <1>2, <1>3 DEF IInv, Shape, Begin
<1>6. Aligned'
  <2>1. "master" \in End /\ "slave" \in End
    BY DEF End
  <2>2. CASE e = "master"
    <3>1. left["master"] = 0 /\ left["slave"] \in {0, Words}
      BY <1>2, <2>2 DEF IInv, Aligned
    <3>2. left["slave"] > 0
      BY <1>1, <1>2, <1>3, <2>1, <2>2 DEF SlaveReady, MasterBegins, SlaveArmed
    <3>3. left["slave"] = Words
      BY <3>1, <3>2
    <3>4. phase["slave"] \in {"transfer", "process"}
      <4>1. phase["slave"] \in Phases /\ Shape("slave")
        BY <2>1 DEF IInv, FramingTypes
      <4>2. left["slave"] # 0
        BY <3>3
      <4>. QED  BY <4>1, <4>2 DEF Phases, Shape
    <3>. QED  BY <1>3, <2>1, <2>2, <3>3, <3>4 DEF Aligned
  <2>3. CASE e = "slave"
    <3>1. ~(left["master"] > 0)
      BY <1>1, <2>3 DEF IInv, Aligned
    <3>. QED  BY <1>3, <2>1, <2>3, <3>1 DEF Aligned
  <2>. QED  BY <2>2, <2>3, EndIs
<1>7. InPlace'
  <2>1. ASSUME NEW o \in End, phase'[o] \notin Begin PROVE phase[o] \notin Begin
    BY <1>1, <1>3, <2>1 DEF Begin
  <2>. QED  BY <1>1, <2>1 DEF IInv, InPlace
<1>. QED  BY <1>1, <1>4, <1>5, <1>6, <1>7 DEF IInv

\* Both ends put the same place of their frames on the line and store it there.
LEMMA ClockKeeps ==
  ASSUME Words \in Nat \ {0}, IInv, Clock
  PROVE  IInv'
<1>1. PICK n \in 1 .. Words : n = left["master"]
  <2>1. left["master"] \in 0 .. Words /\ left["master"] > 0
    BY DEF IInv, FramingTypes, End, Clock
  <2>. QED  BY <2>1
<1>2. phase["master"] \in {"transfer", "process"}
  BY <1>1 DEF IInv, FramingTypes, Phases, Shape, End
<1>3. \A e \in End : /\ left[e] = n /\ ndtr[e] = n
                     /\ phase[e] \in {"transfer", "process"}
  BY <1>1, <1>2, EndIs DEF IInv, Aligned, Shape
<1>4. PICK j \in 1 .. Words : j = Words + 1 - n
  OBVIOUS
<1>5. "master" \in End /\ "slave" \in End /\ "master" # "slave"
  BY DEF End
<1>6. ASSUME NEW e \in End PROVE NextWord(e) = j /\ Place(e) = j
  BY <1>3, <1>4 DEF NextWord, Place
<1>7. /\ left' = [e \in End |-> n - 1]
      /\ ndtr' = [e \in End |-> n - 1]
      /\ rx_frame' = [rx_frame EXCEPT !["master"][j] = j, !["slave"][j] = j]
      /\ UNCHANGED <<phase, dr>>
  BY <1>3, <1>5, <1>6 DEF Clock
<1>8. ASSUME NEW e \in End
      PROVE  /\ rx_frame'[e] \in [1 .. Words -> Word]
             /\ rx_frame'[e][j] = j
             /\ \A k \in (1 .. Words) \ {j} : rx_frame'[e][k] = rx_frame[e][k]
  <2>1. rx_frame \in [End -> [1 .. Words -> Word]] /\ j \in Word
    BY DEF IInv, FramingTypes, Word
  <2>2. rx_frame'[e] = [rx_frame[e] EXCEPT ![j] = j]
    BY <1>5, <1>7, <2>1, EndIs
  <2> HIDE DEF Word
  <2>. QED  BY <2>1, <2>2
<1>9. FramingTypes'
  <2>1. rx_frame' = [e \in End |-> rx_frame'[e]]
    BY <1>7 DEF IInv, FramingTypes
  <2>2. rx_frame' \in [End -> [1 .. Words -> Word]]
    <3> HIDE DEF Word
    <3>. QED  BY <1>8, <2>1
  <2>3. n - 1 \in 0 .. Words
    OBVIOUS
  <2>4. left' \in [End -> 0 .. Words] /\ ndtr' \in [End -> 0 .. Words]
    BY <1>7, <2>3
  <2>5. phase' = phase /\ phase \in [End -> Phases]
    BY <1>7 DEF IInv, FramingTypes
  <2>. QED  BY ONLY <2>2, <2>4, <2>5 DEF FramingTypes
<1>10. ASSUME NEW e \in End PROVE Shape(e)'
  <2>1. phase'[e] \in {"transfer", "process"} /\ ndtr'[e] = n - 1 /\ left'[e] = n - 1
    BY <1>3, <1>7
  <2>. QED  BY ONLY <2>1 DEF Shape, Begin
<1>11. Aligned'
  BY <1>3, <1>5, <1>7 DEF Aligned
<1>12. InPlace'
  <2>1. ASSUME NEW e \in End, NEW k \in 1 .. Words - (n - 1)
        PROVE  rx_frame'[e][k] = k
    <3>1. k \in 1 .. Words /\ (k = j \/ k \in 1 .. Words - n)
      BY <1>4
    <3>2. k # j => rx_frame[e][k] = k
      <4>1. phase[e] \notin Begin /\ ndtr[e] = n
        BY <1>3 DEF Begin
      <4>2. \A i \in 1 .. Words - ndtr[e] : rx_frame[e][i] = i
        BY <4>1 DEF IInv, InPlace
      <4>3. k # j => k \in 1 .. Words - ndtr[e]
        BY <3>1, <4>1
      <4>4. ASSUME k # j PROVE rx_frame[e][k] = k
        <5>1. k \in 1 .. Words - ndtr[e]
          BY <4>3, <4>4
        <5>. QED  BY ONLY <4>2, <5>1
      <4>. QED  BY <4>4
    <3>. QED  BY <1>8, <3>1, <3>2
  <2>. QED  BY <1>7, <2>1 DEF InPlace
<1>. QED  BY <1>7, <1>9, <1>10, <1>11, <1>12 DEF IInv

LEMMA IInvStep ==
  ASSUME Words \in Nat \ {0}, IInv, SlaveReady', [Next]_vars
  PROVE  IInv'
<1>1. CASE UNCHANGED vars
  BY <1>1 DEF IInv, FramingTypes, Shape, Aligned, InPlace, vars
<1>2. CASE Next
  BY <1>2, TaskKeeps, ReceiveKeeps, SendKeeps, ClockKeeps DEF Next, EndStep
<1>. QED  BY <1>1, <1>2

\* For frames of any length: if the slave is never late for a frame of the
\* master, every word either end receives lies at its place in rx_frame.
THEOREM FramesLineUp ==
  ASSUME Words \in Nat \ {0}
  PROVE  Spec /\ []SlaveReady => []InPlace
<1>1. Init => IInv
  BY IInvInit
<1>2. IInv /\ SlaveReady' /\ [Next]_vars => IInv'
  BY IInvStep
<1>3. IInv => InPlace
  BY DEF IInv
<1>. QED  BY <1>1, <1>2, <1>3, PTL DEF Spec

\* Under the same condition the two ends are at the same word of their frames
\* while the master clocks, and no word waits for a stream or is lost: the
\* transfers of both ends are one exchange, as IfSpiLink takes them.
THEOREM TransfersAreOneExchange ==
  ASSUME Words \in Nat \ {0}
  PROVE  Spec /\ []SlaveReady => []InStep
<1>1. Init => IInv
  BY IInvInit
<1>2. IInv /\ SlaveReady' /\ [Next]_vars => IInv'
  BY IInvStep
<1>3. IInv => InStep
  <2>1. ASSUME IInv, left["master"] > 0, NEW e \in End
        PROVE  ndtr[e] = left["master"]
    <3>1. "master" \in End /\ phase["master"] \in {"transfer", "process"}
      BY <2>1 DEF IInv, FramingTypes, Phases, Shape, End
    <3>. QED  BY <2>1, <3>1, EndIs DEF IInv, Aligned, Shape
  <2>. QED  BY <2>1 DEF IInv, Aligned, InStep
<1>. QED  BY <1>1, <1>2, <1>3, PTL DEF Spec
=============================================================================
