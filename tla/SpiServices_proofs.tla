------------------------- MODULE SpiServices_proofs -------------------------
(***************************************************************************)
(* What every call of the two services that the SPI driver is set up with   *)
(* preserves: of the DMA service while devices are opened and closed and    *)
(* channels acquired and released, for any numbers of clients, devices,     *)
(* control blocks and users; of the LWSPI registry with every registration, *)
(* unregistration, arrival and removal of a bus, for any numbers of clients,*)
(* bus slots, device slots and arrivals.  IfSpiInit_proofs puts these       *)
(* lemmas together for the whole set-up.                                    *)
(***************************************************************************)
EXTENDS LwSpiRegistry, DmaDevices, FiniteSetTheorems, WellFoundedInduction, TLAPS

-----------------------------------------------------------------------------
(* Slots and openings *)

\* A search through a non-empty set of slots finds its least member.
LEMMA FirstIsIn ==
  ASSUME NEW S \in SUBSET Nat, S # {}
  PROVE  /\ First(S) \in S
         /\ \A j \in S : First(S) <= j
<1> DEFINE R == {ss \in Nat \X Nat : ss[1] < ss[2]}
<1>1. IsWellFoundedOn(R, Nat)
  BY NatLessThanWellFounded DEF OpToRel
<1>2. PICK x \in S : \A y \in S : ~ (<<y, x>> \in R)
  <2> HIDE DEF R
  <2> QED
    BY <1>1, WFMin
<1>3. ASSUME NEW y \in S
      PROVE  x <= y
  <2>1. x \in Nat /\ y \in Nat
    OBVIOUS
  <2>2. y < x => <<y, x>> \in R
    BY <2>1
  <2> QED
    BY <2>1, <2>2, <1>2
<1> QED
  BY <1>3 DEF First

\* The openings of control block s, if o is how often each client has opened
\* each control block.
OpeningsIn(o, s) == UNION {{c} \X (1 .. o[c][s]) : c \in Client}

\* Its members.
LEMMA OpeningsMembers ==
  ASSUME NEW o, NEW s
  PROVE  /\ \A c \in Client : \A k \in 1 .. o[c][s] : <<c, k>> \in OpeningsIn(o, s)
         /\ \A x \in OpeningsIn(o, s) :
              \E c \in Client : \E k \in 1 .. o[c][s] : x = <<c, k>>
BY DEF OpeningsIn

\* Client c has one opening of control block s more in o2 than in o.
OneMore(o, o2, c, s) ==
  /\ o \in [Client -> [CbIndex -> Nat]] /\ o2 \in [Client -> [CbIndex -> Nat]]
  /\ c \in Client /\ s \in CbIndex
  /\ o2[c][s] = o[c][s] + 1
  /\ \A e \in Client, r \in CbIndex : e # c \/ r # s => o2[e][r] = o[e][r]

\* One opening more is one member more.
LEMMA AddOpening ==
  ASSUME NEW o, NEW o2, NEW c, NEW s, OneMore(o, o2, c, s)
  PROVE  /\ <<c, o2[c][s]>> \notin OpeningsIn(o, s)
         /\ <<c, o2[c][s]>> \in OpeningsIn(o2, s)
         /\ OpeningsIn(o2, s) = OpeningsIn(o, s) \cup {<<c, o2[c][s]>>}
         /\ OpeningsIn(o, s) = OpeningsIn(o2, s) \ {<<c, o2[c][s]>>}
         /\ \A r \in CbIndex \ {s} : OpeningsIn(o2, r) = OpeningsIn(o, r)
<1> DEFINE x == <<c, o2[c][s]>>
<1>1. /\ o \in [Client -> [CbIndex -> Nat]] /\ o2 \in [Client -> [CbIndex -> Nat]]
      /\ c \in Client /\ s \in CbIndex
      /\ o2[c][s] = o[c][s] + 1 /\ o[c][s] \in Nat
      /\ \A e \in Client, r \in CbIndex : e # c \/ r # s => o2[e][r] = o[e][r]
  BY DEF OneMore
<1>2. x \notin OpeningsIn(o, s)
  <2> SUFFICES ASSUME x \in OpeningsIn(o, s) PROVE FALSE
    OBVIOUS
  <2>1. PICK e \in Client : \E k \in 1 .. o[e][s] : x = <<e, k>>
    BY OpeningsMembers
  <2> QED
    BY <2>1, <1>1
<1>3. x \in OpeningsIn(o2, s)
  <2>1. o2[c][s] \in 1 .. o2[c][s]
    BY <1>1
  <2> QED
    BY <2>1, <1>1, OpeningsMembers
<1>4. ASSUME NEW r \in CbIndex \ {s}
      PROVE  OpeningsIn(o2, r) = OpeningsIn(o, r)
  BY <1>1 DEF OpeningsIn
<1>5. ASSUME NEW y \in OpeningsIn(o2, s), y # x
      PROVE  y \in OpeningsIn(o, s)
  <2>1. PICK e \in Client : \E k \in 1 .. o2[e][s] : y = <<e, k>>
    BY <1>5, OpeningsMembers
  <2>2. PICK k \in 1 .. o2[e][s] : y = <<e, k>>
    BY <2>1
  <2>3. k \in 1 .. o[e][s]
    <3>1. CASE e = c
      <4>1. k # o2[c][s]
        BY <2>2, <1>5, <3>1
      <4>2. PICK j \in Nat : j = o[c][s] /\ o2[c][s] = j + 1
        BY <1>1
      <4>3. k \in 1 .. j + 1 /\ k # j + 1
        BY <3>1, <4>1, <4>2
      <4>4. k \in 1 .. j
        BY ONLY j \in Nat, <4>3
      <4> QED
        BY <3>1, <4>2, <4>4
    <3>2. CASE e # c
      BY <1>1, <3>2
    <3> QED
      BY <3>1, <3>2
  <2> QED
    BY <2>2, <2>3, OpeningsMembers
<1>6. ASSUME NEW y \in OpeningsIn(o, s)
      PROVE  y \in OpeningsIn(o2, s)
  <2>1. PICK e \in Client : \E k \in 1 .. o[e][s] : y = <<e, k>>
    BY <1>6, OpeningsMembers
  <2>2. PICK k \in 1 .. o[e][s] : y = <<e, k>>
    BY <2>1
  <2>3. k \in 1 .. o2[e][s]
    BY <2>2, <1>1
  <2> QED
    BY <2>2, <2>3, OpeningsMembers
<1> HIDE DEF x
<1>7. /\ OpeningsIn(o2, s) = OpeningsIn(o, s) \cup {x}
      /\ OpeningsIn(o, s) = OpeningsIn(o2, s) \ {x}
  BY <1>2, <1>3, <1>5, <1>6
<1> QED
  BY <1>2, <1>3, <1>4, <1>7 DEF x

\* ... and one in their number.
LEMMA CountOpening ==
  ASSUME NEW o, NEW o2, NEW c, NEW s, OneMore(o, o2, c, s),
         IsFiniteSet(OpeningsIn(o, s)) \/ IsFiniteSet(OpeningsIn(o2, s))
  PROVE  /\ IsFiniteSet(OpeningsIn(o, s)) /\ IsFiniteSet(OpeningsIn(o2, s))
         /\ Cardinality(OpeningsIn(o, s)) \in Nat
         /\ Cardinality(OpeningsIn(o2, s)) = Cardinality(OpeningsIn(o, s)) + 1
<1> DEFINE x == <<c, o2[c][s]>>
           S == OpeningsIn(o, s)
           T == OpeningsIn(o2, s)
<1>1. x \notin S /\ T = S \cup {x} /\ S = T \ {x}
  BY AddOpening
<1> HIDE DEF x, S, T
<1>2. IsFiniteSet(S)
  <2>1. CASE IsFiniteSet(T)
    BY <1>1, <2>1, FS_RemoveElement
  <2> QED
    BY <2>1 DEF S, T
<1>3. IsFiniteSet(T) /\ Cardinality(T) = Cardinality(S) + 1
  BY <1>1, <1>2, FS_AddElement
<1>4. Cardinality(S) \in Nat
  BY <1>2, FS_CardinalityType
<1> QED
  BY <1>2, <1>3, <1>4 DEF S, T

\* Nobody has an opening if there is none.
LEMMA NoOpening ==
  ASSUME NEW o \in [Client -> [CbIndex -> Nat]], NEW s \in CbIndex,
         IsFiniteSet(OpeningsIn(o, s)), Cardinality(OpeningsIn(o, s)) = 0
  PROVE  \A c \in Client : o[c][s] = 0
<1>1. OpeningsIn(o, s) = {}
  BY FS_EmptySet
<1> SUFFICES ASSUME NEW c \in Client, o[c][s] # 0 PROVE FALSE
  OBVIOUS
<1>2. 1 \in 1 .. o[c][s]
  OBVIOUS
<1>3. <<c, 1>> \in OpeningsIn(o, s)
  BY <1>2, OpeningsMembers
<1> QED
  BY <1>1, <1>3

-----------------------------------------------------------------------------
(* The inductive invariant *)

\* Only finitely many openings, and no users on a free control block.
OpeningsFinite == \A s \in CbIndex : IsFiniteSet(Openings(s))
FreeIsVacant   == \A s \in CbIndex : cb[s] = None => chan[s] = NoUser

DmaInv ==
  /\ DmaTypeOK
  /\ OpeningsFinite /\ OpensCounted
  /\ FreeIsVacant /\ HolderHasChannel

LEMMA DmaInitially == DmaInit => DmaInv
<1> SUFFICES ASSUME DmaInit PROVE DmaInv
  OBVIOUS
<1>1. DmaTypeOK
  BY DEF DmaInit, DmaTypeOK, NoUser
<1>2. ASSUME NEW s \in CbIndex
      PROVE  Openings(s) = {}
  <2>1. \A c \in Client : 1 .. opens[c][s] = {}
    BY DEF DmaInit
  <2> QED
    BY <2>1 DEF Openings
<1>3. OpeningsFinite /\ OpensCounted
  BY <1>2, FS_EmptySet DEF OpeningsFinite, OpensCounted, DmaInit
<1>4. FreeIsVacant /\ HolderHasChannel
  BY DEF DmaInit, FreeIsVacant, HolderHasChannel, NoUser
<1> QED
  BY <1>1, <1>3, <1>4 DEF DmaInv

\* Whoever has an opening has a device, and so has every opening's owner.
LEMMA OpenHasDevice ==
  ASSUME DmaInv, NEW c \in Client, NEW s \in CbIndex, opens[c][s] > 0
  PROVE  cb[s] # None /\ user_count[s] > 0
<1>1. opens \in [Client -> [CbIndex -> Nat]]
  BY DEF DmaInv, DmaTypeOK
<1>2. IsFiniteSet(OpeningsIn(opens, s)) /\ user_count[s] = Cardinality(OpeningsIn(opens, s))
  BY DEF DmaInv, OpeningsFinite, OpensCounted, Openings, OpeningsIn
<1>3. user_count[s] \in Nat
  BY DEF DmaInv, DmaTypeOK
<1>4. user_count[s] # 0
  <2> SUFFICES ASSUME user_count[s] = 0 PROVE FALSE
    OBVIOUS
  <2>1. opens[c][s] = 0
    BY <1>1, <1>2, NoOpening
  <2> QED
    BY <2>1
<1> QED
  BY <1>3, <1>4 DEF DmaInv, OpensCounted

\* The counting part of the invariant, when client c opens s once more or has
\* closed it once.
LEMMA CountedStep ==
  ASSUME DmaInv, NEW c \in Client, NEW s \in CbIndex,
         \/ /\ OneMore(opens, opens', c, s)
            /\ user_count' = [user_count EXCEPT ![s] = @ + 1]
         \/ /\ OneMore(opens', opens, c, s)
            /\ user_count' = [user_count EXCEPT ![s] = @ - 1]
  PROVE  /\ OpeningsFinite'
         /\ \A r \in CbIndex : user_count'[r] = Cardinality(Openings(r)')
         /\ user_count' \in [CbIndex -> Nat]
<1>1. \A r \in CbIndex : /\ IsFiniteSet(OpeningsIn(opens, r))
                         /\ user_count[r] = Cardinality(OpeningsIn(opens, r))
  BY DEF DmaInv, OpeningsFinite, OpensCounted, Openings, OpeningsIn
<1>2. user_count \in [CbIndex -> Nat]
  BY DEF DmaInv, DmaTypeOK
<1>3. \A r \in CbIndex \ {s} : OpeningsIn(opens', r) = OpeningsIn(opens, r)
  <2>1. CASE OneMore(opens, opens', c, s)
    BY ONLY <2>1, AddOpening
  <2>2. CASE OneMore(opens', opens, c, s)
    <3>1. \A r \in CbIndex \ {s} : OpeningsIn(opens, r) = OpeningsIn(opens', r)
      BY ONLY <2>2, AddOpening
    <3> QED
      BY <3>1
  <2> QED
    BY <2>1, <2>2
<1>4. /\ IsFiniteSet(OpeningsIn(opens', s))
      /\ user_count'[s] = Cardinality(OpeningsIn(opens', s))
      /\ user_count'[s] \in Nat
  <2>1. CASE /\ OneMore(opens, opens', c, s)
             /\ user_count' = [user_count EXCEPT ![s] = @ + 1]
    <3>1. /\ IsFiniteSet(OpeningsIn(opens', s))
          /\ Cardinality(OpeningsIn(opens', s)) = Cardinality(OpeningsIn(opens, s)) + 1
      BY <2>1, <1>1, CountOpening
    <3> QED
      BY <2>1, <3>1, <1>1, <1>2
  <2>2. CASE /\ OneMore(opens', opens, c, s)
             /\ user_count' = [user_count EXCEPT ![s] = @ - 1]
    <3>1. /\ IsFiniteSet(OpeningsIn(opens', s))
          /\ Cardinality(OpeningsIn(opens', s)) \in Nat
          /\ Cardinality(OpeningsIn(opens, s)) = Cardinality(OpeningsIn(opens', s)) + 1
      BY <2>2, <1>1, CountOpening
    <3> QED
      BY <2>2, <3>1, <1>1, <1>2
  <2> QED
    BY <2>1, <2>2
<1>5. \A r \in CbIndex \ {s} : user_count'[r] = user_count[r]
  BY <1>2
<1>6. DOMAIN user_count' = CbIndex /\ user_count' \in [CbIndex -> Nat]
  BY <1>2, <1>4, <1>5
<1>7. \A r \in CbIndex : /\ IsFiniteSet(OpeningsIn(opens', r))
                         /\ user_count'[r] = Cardinality(OpeningsIn(opens', r))
  BY <1>1, <1>3, <1>4, <1>5
<1> QED
  BY <1>6, <1>7 DEF OpeningsFinite, Openings, OpeningsIn

-----------------------------------------------------------------------------
(* NU_DMA_Open *)

LEMMA OpenAgainStep ==
  ASSUME DmaInv, NEW c \in Client, NEW d \in DmaDev, NEW s \in CbIndex,
         OpenAgain(c, d, s)
  PROVE  DmaInv'
<1> USE DmaAssumption
<1>1. DmaTypeOK /\ OpensCounted /\ FreeIsVacant /\ HolderHasChannel
  BY DEF DmaInv
<1>2. /\ user_count' = [user_count EXCEPT ![s] = @ + 1]
      /\ OneMore(opens, opens', c, s)
  BY <1>1 DEF OpenAgain, OneMore, DmaTypeOK
<1>3. /\ OpeningsFinite'
      /\ \A r \in CbIndex : user_count'[r] = Cardinality(Openings(r)')
      /\ user_count' \in [CbIndex -> Nat]
  BY <1>2, CountedStep
<1>4. DmaTypeOK'
  BY <1>1, <1>2, <1>3 DEF DmaTypeOK, OpenAgain, OneMore, chanVars
<1>5. OpensCounted'
  BY <1>1, <1>2, <1>3 DEF OpensCounted, DmaTypeOK, OpenAgain
<1>6. FreeIsVacant'
  BY <1>1 DEF FreeIsVacant, OpenAgain, chanVars
<1>7. HolderHasChannel'
  <2>1. \A e \in Client, r \in CbIndex : opens[e][r] > 0 => opens'[e][r] > 0
    BY <1>2 DEF OneMore
  <2> QED
    BY <1>1, <2>1 DEF HolderHasChannel, OpenAgain, chanVars, DmaTypeOK
<1> QED
  BY <1>3, <1>4, <1>5, <1>6, <1>7 DEF DmaInv

LEMMA OpenFirstStep ==
  ASSUME DmaInv, NEW c \in Client, NEW d \in DmaDev, NEW s \in CbIndex,
         OpenFirst(c, d, s)
  PROVE  DmaInv'
<1> USE DmaAssumption
<1>1. DmaTypeOK /\ OpensCounted /\ FreeIsVacant /\ HolderHasChannel
  BY DEF DmaInv
<1>2. cb[s] = None /\ user_count[s] = 0
  <2>1. Free \in SUBSET Nat
    BY DEF Free
  <2>2. s \in Free
    BY <2>1, FirstIsIn DEF OpenFirst
  <2> QED
    BY <1>1, <2>2 DEF Free, OpensCounted
<1>3. \A e \in Client : opens[e][s] = 0
  <2>1. \A e \in Client : ~(opens[e][s] > 0)
    BY <1>2, OpenHasDevice
  <2>2. \A e \in Client : opens[e][s] \in Nat
    BY <1>1 DEF DmaTypeOK
  <2> QED
    BY <2>1, <2>2
<1>4. /\ user_count' = [user_count EXCEPT ![s] = @ + 1]
      /\ OneMore(opens, opens', c, s)
  BY <1>1, <1>2, <1>3 DEF OpenFirst, OneMore, DmaTypeOK
<1>5. /\ OpeningsFinite'
      /\ \A r \in CbIndex : user_count'[r] = Cardinality(Openings(r)')
      /\ user_count' \in [CbIndex -> Nat]
  BY <1>4, CountedStep
<1>6. DmaTypeOK'
  BY <1>1, <1>4, <1>5 DEF DmaTypeOK, OpenFirst, OneMore, NoUser, DMA_Tgt_Open
<1>7. OpensCounted'
  <2>1. cb'[s] # None /\ user_count'[s] # 0
    BY <1>1, <1>2, <1>4 DEF OpenFirst, DmaTypeOK
  <2>2. \A r \in CbIndex \ {s} : cb'[r] = cb[r] /\ user_count'[r] = user_count[r]
    BY <1>1, <1>4 DEF OpenFirst, DmaTypeOK
  <2>3. \A r \in CbIndex \ {s} : cb[r] # cb'[s]
    BY <1>1 DEF OpenFirst, DmaTypeOK
  <2> QED
    BY <1>1, <1>5, <2>1, <2>2, <2>3 DEF OpensCounted
<1>8. FreeIsVacant'
  BY <1>1 DEF FreeIsVacant, OpenFirst, DmaTypeOK
<1>9. HolderHasChannel'
  <2>1. chan' = chan
    BY <1>1, <1>2 DEF FreeIsVacant, OpenFirst, DmaTypeOK
  <2>2. \A e \in Client, r \in CbIndex : opens[e][r] > 0 => opens'[e][r] > 0
    BY <1>4 DEF OneMore
  <2> QED
    BY <1>1, <2>1, <2>2 DEF HolderHasChannel, OpenFirst, DmaTypeOK
<1> QED
  BY <1>5, <1>6, <1>7, <1>8, <1>9 DEF DmaInv

\* A call that leaves everything but device_in_use alone.
LEMMA OpenFailsStep ==
  ASSUME DmaInv, NEW d \in DmaDev, NU_DMA_Open_Fails(d)
  PROVE  DmaInv'
<1>1. UNCHANGED <<cbVars, chanVars, opens, acquired>> /\ device_in_use' \subseteq DmaDev
  BY DEF NU_DMA_Open_Fails, OpenRefused, OpenNoMemory, DMA_Tgt_Open, DmaInv,
         DmaTypeOK, dmaVars
<1>2. \A s \in CbIndex : Openings(s)' = Openings(s)
  BY <1>1 DEF Openings
<1>3. DmaTypeOK' /\ OpeningsFinite' /\ OpensCounted'
  BY <1>1, <1>2 DEF DmaInv, DmaTypeOK, OpeningsFinite, OpensCounted, cbVars, chanVars
<1>4. FreeIsVacant' /\ HolderHasChannel'
  BY <1>1 DEF DmaInv, FreeIsVacant, HolderHasChannel, cbVars, chanVars
<1> QED
  BY <1>3, <1>4 DEF DmaInv

-----------------------------------------------------------------------------
(* NU_DMA_Acquire_Channel and NU_DMA_Release_Channel *)

\* Calls that neither open nor close.
LEMMA ChannelStep ==
  ASSUME DmaInv, UNCHANGED <<cbVars, device_in_use, opens>>,
         chan' \in [CbIndex -> [User -> Peri \cup {None}]],
         in_use' \subseteq CbIndex, chan_semaphore' \subseteq CbIndex,
         acquired' \in [Client -> SUBSET (CbIndex \X User)],
         FreeIsVacant', HolderHasChannel'
  PROVE  DmaInv'
<1>1. \A s \in CbIndex : Openings(s)' = Openings(s)
  BY DEF Openings
<1>2. DmaTypeOK' /\ OpeningsFinite' /\ OpensCounted'
  BY <1>1 DEF DmaInv, DmaTypeOK, OpeningsFinite, OpensCounted, cbVars
<1> QED
  BY <1>2 DEF DmaInv

\* A user is enabled, and acquired by client c if held is {c}.
LEMMA EnableStep ==
  ASSUME DmaInv, NEW c \in Client, NEW s \in CbIndex, NEW p \in Peri, NEW u,
         opens[c][s] > 0, Enable(s, p, u),
         UNCHANGED <<cbVars, device_in_use, opens>>,
         \/ acquired' = acquired
         \/ acquired' = [acquired EXCEPT ![c] = @ \cup {<<s, u>>}]
  PROVE  DmaInv'
<1> USE DmaAssumption
<1>1. DmaTypeOK /\ FreeIsVacant /\ HolderHasChannel
  BY DEF DmaInv
<1>2. u \in User /\ chan[s][u] = None
  <2>1. Vacant(s) \in SUBSET Nat
    BY DEF Vacant
  <2>2. u \in Vacant(s)
    BY <2>1, FirstIsIn DEF Enable
  <2> QED
    BY <2>2 DEF Vacant
<1>3. /\ chan' = [chan EXCEPT ![s][u] = p]
      /\ in_use' = in_use \cup {s}
      /\ chan_semaphore' = IF s \in in_use THEN chan_semaphore
                                           ELSE chan_semaphore \cup {s}
  BY DEF Enable
<1>4. p # None /\ cb[s] # None
  BY OpenHasDevice
<1>5. \A r \in CbIndex, v \in User :
        chan'[r][v] = IF r = s /\ v = u THEN p ELSE chan[r][v]
  BY <1>1, <1>2, <1>3 DEF DmaTypeOK
<1>6. /\ chan' \in [CbIndex -> [User -> Peri \cup {None}]]
      /\ in_use' \subseteq CbIndex /\ chan_semaphore' \subseteq CbIndex
      /\ acquired' \in [Client -> SUBSET (CbIndex \X User)]
  BY <1>1, <1>2, <1>3 DEF DmaTypeOK
<1>7. FreeIsVacant'
  <2>1. cb' = cb
    BY DEF cbVars
  <2>2. \A r \in CbIndex \ {s} : chan'[r] = chan[r]
    BY <1>1, <1>3 DEF DmaTypeOK
  <2> QED
    BY <1>1, <1>4, <2>1, <2>2 DEF FreeIsVacant
<1>8. \A r \in CbIndex :
        /\ r \in in_use' <=> \E v \in User : chan'[r][v] # None
        /\ r \in in_use' <=> r \in chan_semaphore'
  BY <1>1, <1>2, <1>3, <1>4, <1>5 DEF HolderHasChannel
<1>9. ASSUME NEW e \in Client, NEW h \in acquired'[e]
      PROVE  /\ chan'[h[1]][h[2]] # None
             /\ opens'[e][h[1]] > 0
             /\ \A o \in Client \ {e} : h \notin acquired'[o]
  <2>1. h \in CbIndex \X User
    BY <1>6
  <2>2. h \in acquired[e] \/ (e = c /\ h = <<s, u>>)
    BY <1>1 DEF DmaTypeOK
  <2>3. \A o \in Client : <<s, u>> \notin acquired[o]
    BY <1>1, <1>2 DEF HolderHasChannel
  <2>4. \A o \in Client \ {e} : h \notin acquired'[o]
    BY <1>1, <2>2, <2>3 DEF HolderHasChannel, DmaTypeOK
  <2> QED
    <3>1. opens' = opens
      OBVIOUS
    <3>2. CASE h \in acquired[e]
      <4>1. h # <<s, u>> /\ chan[h[1]][h[2]] # None /\ opens[e][h[1]] > 0
        BY <1>1, <2>3, <3>2 DEF HolderHasChannel
      <4>2. h[1] \in CbIndex /\ h[2] \in User /\ (h[1] # s \/ h[2] # u)
        BY <2>1, <4>1
      <4>3. chan'[h[1]][h[2]] = chan[h[1]][h[2]]
        BY <1>5, <4>2
      <4> QED
        BY <2>4, <3>1, <4>1, <4>3
    <3>3. CASE e = c /\ h = <<s, u>>
      BY <1>2, <1>4, <1>5, <2>4, <3>1, <3>3
    <3> QED
      BY <2>2, <3>2, <3>3
<1>10. HolderHasChannel'
  BY <1>8, <1>9 DEF HolderHasChannel
<1> QED
  BY <1>6, <1>7, <1>10, ChannelStep

LEMMA ReleaseStep ==
  ASSUME DmaInv, NEW c \in Client, NEW s \in CbIndex, NEW u \in User,
         NU_DMA_Release_Channel(c, s, u)
  PROVE  DmaInv'
<1>1. DmaTypeOK /\ FreeIsVacant /\ HolderHasChannel
  BY DEF DmaInv
<1> DEFINE last == \A o \in User \ {u} : chan[s][o] = None
<1>2. /\ <<s, u>> \in acquired[c]
      /\ chan' = [chan EXCEPT ![s][u] = None]
      /\ in_use' = IF last THEN in_use \ {s} ELSE in_use
      /\ chan_semaphore' = IF last THEN chan_semaphore \ {s} ELSE chan_semaphore
      /\ acquired' = [acquired EXCEPT ![c] = @ \ {<<s, u>>}]
      /\ UNCHANGED <<cbVars, device_in_use, opens>>
  BY DEF NU_DMA_Release_Channel
<1>3. \A r \in CbIndex, v \in User :
        chan'[r][v] = IF r = s /\ v = u THEN None ELSE chan[r][v]
  BY <1>1, <1>2 DEF DmaTypeOK
<1>4. s \in in_use /\ s \in chan_semaphore
  BY <1>1, <1>2 DEF HolderHasChannel
<1>5. /\ chan' \in [CbIndex -> [User -> Peri \cup {None}]]
      /\ in_use' \subseteq CbIndex /\ chan_semaphore' \subseteq CbIndex
      /\ acquired' \in [Client -> SUBSET (CbIndex \X User)]
  BY <1>1, <1>2 DEF DmaTypeOK
<1>6. FreeIsVacant'
  <2>1. cb' = cb /\ cb[s] # None
    BY <1>1, <1>2, OpenHasDevice DEF cbVars, HolderHasChannel
  <2>2. \A r \in CbIndex \ {s} : chan'[r] = chan[r]
    BY <1>1, <1>2 DEF DmaTypeOK
  <2> QED
    BY <1>1, <2>1, <2>2 DEF FreeIsVacant
<1>7. \A r \in CbIndex :
        /\ r \in in_use' <=> \E v \in User : chan'[r][v] # None
        /\ r \in in_use' <=> r \in chan_semaphore'
  <2>1. ASSUME NEW r \in CbIndex, r # s
        PROVE  /\ r \in in_use' <=> \E v \in User : chan'[r][v] # None
               /\ r \in in_use' <=> r \in chan_semaphore'
    BY <1>1, <1>2, <1>3, <2>1 DEF HolderHasChannel
  <2>2. s \in in_use' <=> \E v \in User : chan'[s][v] # None
    BY <1>2, <1>3, <1>4
  <2>3. s \in in_use' <=> s \in chan_semaphore'
    BY <1>2, <1>4
  <2> QED
    BY <2>1, <2>2, <2>3
<1>8. ASSUME NEW e \in Client, NEW h \in acquired'[e]
      PROVE  /\ chan'[h[1]][h[2]] # None
             /\ opens'[e][h[1]] > 0
             /\ \A o \in Client \ {e} : h \notin acquired'[o]
  <2>1. h \in acquired[e] /\ h \in CbIndex \X User
    BY <1>1, <1>2 DEF DmaTypeOK
  <2>2. h # <<s, u>>
    <3>1. CASE e = c
      BY <3>1, <1>1, <1>2 DEF DmaTypeOK
    <3>2. CASE e # c
      BY <3>2, <1>1, <1>2, <2>1 DEF HolderHasChannel
    <3> QED
      BY <3>1, <3>2
  <2>3. \A o \in Client : acquired'[o] \subseteq acquired[o]
    BY <1>1, <1>2 DEF DmaTypeOK
  <2>4. chan'[h[1]][h[2]] = chan[h[1]][h[2]]
    BY <1>3, <2>1, <2>2
  <2>5. opens' = opens
    BY <1>2
  <2> QED
    BY <1>1, <2>1, <2>3, <2>4, <2>5 DEF HolderHasChannel
<1>9. HolderHasChannel'
  BY <1>7, <1>8 DEF HolderHasChannel
<1> QED
  BY <1>2, <1>5, <1>6, <1>9, ChannelStep

-----------------------------------------------------------------------------
(* NU_DMA_Close *)

\* The client's channels on s are forgotten with its last opening.
LEMMA ForgetsWhat ==
  ASSUME DmaTypeOK, NEW c \in Client, NEW s \in CbIndex, Forgets(c, s)
  PROVE  /\ acquired' \in [Client -> SUBSET (CbIndex \X User)]
         /\ \A e \in Client : acquired'[e] \subseteq acquired[e]
         /\ \A e \in Client \ {c} : acquired'[e] = acquired[e]
         /\ opens[c][s] = 1 => \A h \in acquired'[c] : h[1] # s
BY DEF DmaTypeOK, Forgets

LEMMA CloseSharedStep ==
  ASSUME DmaInv, NEW c \in Client, NEW s \in CbIndex, CloseShared(c, s)
  PROVE  DmaInv'
<1>1. DmaTypeOK /\ OpensCounted /\ FreeIsVacant /\ HolderHasChannel
  BY DEF DmaInv
<1>2. /\ opens[c][s] > 0 /\ user_count[s] > 1
      /\ opens' = [opens EXCEPT ![c][s] = @ - 1]
      /\ user_count' = [user_count EXCEPT ![s] = @ - 1]
      /\ cb' = cb /\ chan' = chan /\ in_use' = in_use
      /\ chan_semaphore' = chan_semaphore /\ device_in_use' = device_in_use
  BY DEF CloseShared, chanVars
<1>3. OneMore(opens', opens, c, s)
  BY <1>1, <1>2 DEF OneMore, DmaTypeOK
<1>4. /\ OpeningsFinite'
      /\ \A r \in CbIndex : user_count'[r] = Cardinality(Openings(r)')
      /\ user_count' \in [CbIndex -> Nat]
  BY <1>2, <1>3, CountedStep
<1>5. /\ acquired' \in [Client -> SUBSET (CbIndex \X User)]
      /\ \A e \in Client : acquired'[e] \subseteq acquired[e]
      /\ opens[c][s] = 1 => \A h \in acquired'[c] : h[1] # s
  BY <1>1, ForgetsWhat DEF CloseShared
<1>6. DmaTypeOK'
  BY <1>1, <1>2, <1>3, <1>4, <1>5 DEF DmaTypeOK, OneMore
<1>7. OpensCounted'
  BY <1>1, <1>2, <1>4 DEF OpensCounted, DmaTypeOK
<1>8. FreeIsVacant'
  BY <1>1, <1>2 DEF FreeIsVacant
<1>9. ASSUME NEW e \in Client, NEW h \in acquired'[e]
      PROVE  opens'[e][h[1]] > 0
  <2>1. h \in acquired[e] /\ h[1] \in CbIndex /\ opens[e][h[1]] > 0
    BY <1>1, <1>5 DEF HolderHasChannel, DmaTypeOK
  <2>2. CASE e = c /\ h[1] = s
    BY <1>3, <1>5, <2>1, <2>2 DEF OneMore
  <2>3. CASE e # c \/ h[1] # s
    BY <1>3, <2>1, <2>3 DEF OneMore
  <2> QED
    BY <2>2, <2>3
<1>10. HolderHasChannel'
  BY <1>1, <1>2, <1>5, <1>9 DEF HolderHasChannel
<1> QED
  BY <1>4, <1>6, <1>7, <1>8, <1>10 DEF DmaInv

\* The only opening there is: all others have none.
LEMMA OnlyOpening ==
  ASSUME DmaInv, NEW c \in Client, NEW s \in CbIndex,
         opens[c][s] > 0, user_count[s] = 1
  PROVE  /\ opens[c][s] = 1
         /\ \A e \in Client \ {c} : opens[e][s] = 0
<1> DEFINE o == [opens EXCEPT ![c][s] = @ - 1]
<1>1. opens \in [Client -> [CbIndex -> Nat]]
  BY DEF DmaInv, DmaTypeOK
<1>2. OneMore(o, opens, c, s) /\ o \in [Client -> [CbIndex -> Nat]]
  BY <1>1 DEF OneMore
<1>3. IsFiniteSet(OpeningsIn(opens, s)) /\ Cardinality(OpeningsIn(opens, s)) = 1
  BY DEF DmaInv, OpeningsFinite, OpensCounted, Openings, OpeningsIn
<1> HIDE DEF o
<1>4. /\ IsFiniteSet(OpeningsIn(o, s)) /\ Cardinality(OpeningsIn(o, s)) \in Nat
      /\ Cardinality(OpeningsIn(opens, s)) = Cardinality(OpeningsIn(o, s)) + 1
  BY <1>2, <1>3, CountOpening
<1>5. Cardinality(OpeningsIn(o, s)) = 0
  BY <1>3, <1>4
<1>6. \A e \in Client : o[e][s] = 0
  BY <1>2, <1>4, <1>5, NoOpening
<1> QED
  BY <1>2, <1>6 DEF OneMore

LEMMA CloseLastStep ==
  ASSUME DmaInv, NEW c \in Client, NEW s \in CbIndex, CloseLast(c, s)
  PROVE  DmaInv'
<1>1. DmaTypeOK /\ OpensCounted /\ FreeIsVacant /\ HolderHasChannel
  BY DEF DmaInv
<1>2. /\ opens[c][s] > 0 /\ user_count[s] = 1
      /\ cb' = [cb EXCEPT ![s] = None]
      /\ user_count' = [user_count EXCEPT ![s] = 0]
      /\ chan' = [chan EXCEPT ![s] = NoUser]
      /\ in_use' = in_use \ {s}
      /\ chan_semaphore' = chan_semaphore \ (in_use \cap {s})
      /\ device_in_use' = device_in_use
      /\ opens' = [opens EXCEPT ![c][s] = 0]
  BY DEF CloseLast, DMA_Tgt_Close
<1>3. opens[c][s] = 1 /\ \A e \in Client \ {c} : opens[e][s] = 0
  BY <1>2, OnlyOpening
<1>4. OneMore(opens', opens, c, s)
  BY <1>1, <1>2, <1>3 DEF OneMore, DmaTypeOK
<1>5. /\ OpeningsFinite'
      /\ \A r \in CbIndex : user_count'[r] = Cardinality(Openings(r)')
      /\ user_count' \in [CbIndex -> Nat]
  <2>1. user_count' = [user_count EXCEPT ![s] = @ - 1]
    BY <1>2
  <2> QED
    BY <1>4, <2>1, CountedStep
<1>6. /\ acquired' \in [Client -> SUBSET (CbIndex \X User)]
      /\ \A e \in Client : acquired'[e] \subseteq acquired[e]
      /\ \A h \in acquired'[c] : h[1] # s
  BY <1>1, <1>3, ForgetsWhat DEF CloseLast
<1>7. DmaTypeOK'
  BY <1>1, <1>2, <1>4, <1>5, <1>6 DEF DmaTypeOK, OneMore, NoUser
<1>8. OpensCounted'
  BY <1>1, <1>2, <1>5 DEF OpensCounted, DmaTypeOK
<1>9. FreeIsVacant'
  BY <1>1, <1>2 DEF FreeIsVacant, DmaTypeOK
<1>10. ASSUME NEW r \in CbIndex
       PROVE  /\ r \in in_use' <=> \E v \in User : chan'[r][v] # None
              /\ r \in in_use' <=> r \in chan_semaphore'
  <2>1. CASE r = s
    <3>1. \A v \in User : chan'[s][v] = None
      BY <1>1, <1>2 DEF DmaTypeOK, NoUser
    <3> QED
      BY <1>1, <1>2, <2>1, <3>1 DEF HolderHasChannel
  <2>2. CASE r # s
    <3>1. chan'[r] = chan[r]
      BY <1>1, <1>2, <2>2 DEF DmaTypeOK
    <3> QED
      BY <1>1, <1>2, <2>2, <3>1 DEF HolderHasChannel
  <2> QED
    BY <2>1, <2>2
<1>11. ASSUME NEW e \in Client, NEW h \in acquired'[e]
       PROVE  /\ chan'[h[1]][h[2]] # None
              /\ opens'[e][h[1]] > 0
              /\ \A o \in Client \ {e} : h \notin acquired'[o]
  <2>1. /\ h \in acquired[e] /\ h[1] \in CbIndex
        /\ chan[h[1]][h[2]] # None /\ opens[e][h[1]] > 0
        /\ \A o \in Client \ {e} : h \notin acquired[o]
    BY <1>1, <1>6 DEF HolderHasChannel, DmaTypeOK
  <2>2. h[1] # s
    BY <1>3, <1>6, <2>1
  <2>3. opens'[e][h[1]] = opens[e][h[1]] /\ chan'[h[1]] = chan[h[1]]
    BY <1>1, <1>2, <2>1, <2>2 DEF DmaTypeOK
  <2> QED
    BY <1>6, <2>1, <2>3
<1>12. HolderHasChannel'
  BY <1>10, <1>11 DEF HolderHasChannel
<1> QED
  BY <1>5, <1>7, <1>8, <1>9, <1>12 DEF DmaInv

-----------------------------------------------------------------------------
\* Every call of every client preserves the invariant.
LEMMA DmaCallKeeps ==
  ASSUME DmaInv, NEW c \in Client, DmaCall(c)
  PROVE  DmaInv'
<1>1. ASSUME NEW d \in DmaDev, NU_DMA_Open_Fails(d)
      PROVE  DmaInv'
  BY <1>1, OpenFailsStep
<1>2. ASSUME NEW d \in DmaDev, NEW s \in CbIndex, NU_DMA_Open_Succeeds(c, d, s)
      PROVE  DmaInv'
  BY <1>2, OpenAgainStep, OpenFirstStep DEF NU_DMA_Open_Succeeds
<1>3. ASSUME NEW s \in CbIndex, NEW p \in Peri, opens[c][s] > 0,
             NU_DMA_Acquire_Channel_Fails(c, s, p)
      PROVE  DmaInv'
  <2>1. CASE UNCHANGED dmaVars
    <3>1. UNCHANGED <<cbVars, device_in_use, opens>> /\ UNCHANGED <<chanVars, acquired>>
      BY <2>1 DEF dmaVars
    <3>2. FreeIsVacant' /\ HolderHasChannel'
      BY <3>1 DEF DmaInv, FreeIsVacant, HolderHasChannel, cbVars, chanVars
    <3> QED
      BY <3>1, <3>2, ChannelStep DEF DmaInv, DmaTypeOK, chanVars
  <2>2. CASE /\ \E u \in User : Enable(s, p, u)
             /\ UNCHANGED <<cbVars, device_in_use, opens, acquired>>
    <3>1. PICK u \in User : Enable(s, p, u)
      BY <2>2
    <3>2. UNCHANGED <<cbVars, device_in_use, opens>> /\ acquired' = acquired
      BY <2>2
    <3> QED
      BY <1>3, <3>1, <3>2, EnableStep
  <2> QED
    BY <1>3, <2>1, <2>2 DEF NU_DMA_Acquire_Channel_Fails
<1>4. ASSUME NEW s \in CbIndex, NEW p \in Peri, opens[c][s] > 0,
             NEW u \in User, NU_DMA_Acquire_Channel_Succeeds(c, s, p, u)
      PROVE  DmaInv'
  BY <1>4, EnableStep DEF NU_DMA_Acquire_Channel_Succeeds
<1>5. ASSUME NEW s \in CbIndex, NEW u \in User, NU_DMA_Release_Channel(c, s, u)
      PROVE  DmaInv'
  BY <1>5, ReleaseStep
<1>6. ASSUME NEW s \in CbIndex, NU_DMA_Close(c, s)
      PROVE  DmaInv'
  BY <1>6, CloseSharedStep, CloseLastStep DEF NU_DMA_Close
<1> QED
  BY <1>1, <1>2, <1>3, <1>4, <1>5, <1>6 DEF DmaCall

-----------------------------------------------------------------------------
(* What a call leaves to a client *)

\* Client i keeps the devices it has opened and the channels it has acquired,
\* each with its peripheral.
Keeps(i) ==
  /\ \A s \in CbIndex : opens[i][s] > 0 => cb'[s] = cb[s] /\ opens'[i][s] > 0
  /\ acquired[i] \subseteq acquired'[i]
  /\ \A h \in acquired[i] : chan'[h[1]][h[2]] = chan[h[1]][h[2]]

\* Everybody keeps everything when somebody opens a device ...
LEMMA OpenLeaves ==
  ASSUME DmaInv, NEW i \in Client, NEW c \in Client, NEW d \in DmaDev,
         \/ NU_DMA_Open_Fails(d)
         \/ \E s \in CbIndex : NU_DMA_Open_Succeeds(c, d, s)
  PROVE  Keeps(i)
<1>1. DmaTypeOK /\ FreeIsVacant
  BY DEF DmaInv
<1>2. CASE NU_DMA_Open_Fails(d)
  BY <1>2 DEF NU_DMA_Open_Fails, OpenRefused, OpenNoMemory, Keeps, dmaVars,
              cbVars, chanVars
<1>3. ASSUME NEW s \in CbIndex, OpenAgain(c, d, s)
      PROVE  Keeps(i)
  BY <1>1, <1>3 DEF OpenAgain, Keeps, chanVars, DmaTypeOK
<1>4. ASSUME NEW s \in CbIndex, OpenFirst(c, d, s)
      PROVE  Keeps(i)
  <2>1. Free \in SUBSET Nat
    BY DmaAssumption DEF Free
  <2>2. cb[s] = None
    BY <1>4, <2>1, FirstIsIn DEF OpenFirst, Free
  <2>3. ~(opens[i][s] > 0)
    BY <2>2, OpenHasDevice
  <2>4. chan' = chan /\ acquired' = acquired
    BY <1>1, <1>4, <2>2 DEF OpenFirst, FreeIsVacant, DmaTypeOK
  <2>5. \A r \in CbIndex \ {s} : cb'[r] = cb[r] /\ opens'[i][r] = opens[i][r]
    BY <1>1, <1>4 DEF OpenFirst, DmaTypeOK
  <2> QED
    BY <2>3, <2>4, <2>5 DEF Keeps
<1> QED
  BY <1>2, <1>3, <1>4 DEF NU_DMA_Open_Succeeds

\* ... or acquires a channel.
LEMMA AcquireLeaves ==
  ASSUME DmaInv, NEW i \in Client, NEW c \in Client, NEW s \in CbIndex, NEW p \in Peri,
         \/ NU_DMA_Acquire_Channel_Fails(c, s, p)
         \/ \E u \in User : NU_DMA_Acquire_Channel_Succeeds(c, s, p, u)
  PROVE  Keeps(i)
<1>1. DmaTypeOK /\ HolderHasChannel
  BY DEF DmaInv
<1>2. ASSUME NEW u \in User, Enable(s, p, u)
      PROVE  \A h \in acquired[i] : chan'[h[1]][h[2]] = chan[h[1]][h[2]]
  <2>1. chan[s][u] = None
    <3>1. Vacant(s) \in SUBSET Nat
      BY DmaAssumption DEF Vacant
    <3> QED
      BY <1>2, <3>1, FirstIsIn DEF Enable, Vacant
  <2>2. \A r \in CbIndex, v \in User :
          r # s \/ v # u => chan'[r][v] = chan[r][v]
    BY <1>1, <1>2 DEF Enable, DmaTypeOK
  <2> SUFFICES ASSUME NEW h \in acquired[i]
               PROVE  chan'[h[1]][h[2]] = chan[h[1]][h[2]]
    OBVIOUS
  <2>3. chan[h[1]][h[2]] # None /\ h[1] \in CbIndex /\ h[2] \in User
    BY <1>1 DEF HolderHasChannel, DmaTypeOK
  <2> QED
    BY <2>1, <2>2, <2>3
<1>3. CASE UNCHANGED dmaVars
  BY <1>3 DEF dmaVars, cbVars, chanVars, Keeps
<1>4. ASSUME NEW u \in User, Enable(s, p, u), UNCHANGED <<cbVars, opens>>,
             acquired[i] \subseteq acquired'[i]
      PROVE  Keeps(i)
  BY <1>2, <1>4 DEF Keeps, cbVars
<1>5. ASSUME NEW u \in User, NU_DMA_Acquire_Channel_Succeeds(c, s, p, u)
      PROVE  Keeps(i)
  <2>1. acquired[i] \subseteq acquired'[i]
    BY <1>1, <1>5 DEF NU_DMA_Acquire_Channel_Succeeds, DmaTypeOK
  <2> QED
    BY <1>4, <1>5, <2>1 DEF NU_DMA_Acquire_Channel_Succeeds
<1> QED
  BY <1>3, <1>4, <1>5 DEF NU_DMA_Acquire_Channel_Fails

\* Nothing that another client calls takes anything from client i.
LEMMA OthersLeave ==
  ASSUME DmaInv, NEW i \in Client, NEW c \in Client, c # i, DmaCall(c)
  PROVE  Keeps(i)
<1>1. DmaTypeOK /\ HolderHasChannel
  BY DEF DmaInv
<1>2. ASSUME NEW s \in CbIndex, NEW u \in User, NU_DMA_Release_Channel(c, s, u)
      PROVE  Keeps(i)
  <2>1. \A r \in CbIndex, v \in User :
          r # s \/ v # u => chan'[r][v] = chan[r][v]
    BY <1>1, <1>2 DEF NU_DMA_Release_Channel, DmaTypeOK
  <2>2. ASSUME NEW h \in acquired[i]
        PROVE  chan'[h[1]][h[2]] = chan[h[1]][h[2]]
    <3>1. h # <<s, u>>
      BY <1>1, <1>2 DEF NU_DMA_Release_Channel, HolderHasChannel
    <3>2. h \in CbIndex \X User
      BY <1>1 DEF DmaTypeOK
    <3>3. h[1] \in CbIndex /\ h[2] \in User /\ (h[1] # s \/ h[2] # u)
      BY <3>1, <3>2
    <3> QED
      BY <2>1, <3>3
  <2>3. acquired'[i] = acquired[i] /\ cb' = cb /\ opens' = opens
    BY <1>1, <1>2 DEF NU_DMA_Release_Channel, DmaTypeOK, cbVars
  <2> QED
    BY <2>2, <2>3 DEF Keeps
<1>3. ASSUME NEW s \in CbIndex, CloseShared(c, s)
      PROVE  Keeps(i)
  <2>1. acquired'[i] = acquired[i]
    BY <1>1, <1>3, ForgetsWhat DEF CloseShared
  <2> QED
    BY <1>1, <1>3, <2>1 DEF CloseShared, Keeps, DmaTypeOK, chanVars
<1>4. ASSUME NEW s \in CbIndex, CloseLast(c, s)
      PROVE  Keeps(i)
  <2>1. acquired'[i] = acquired[i]
    BY <1>1, <1>4, ForgetsWhat DEF CloseLast
  <2>2. opens[i][s] = 0
    BY <1>4, OnlyOpening DEF CloseLast
  <2>3. \A r \in CbIndex \ {s} : /\ cb'[r] = cb[r] /\ chan'[r] = chan[r]
                                 /\ opens'[i][r] = opens[i][r]
    BY <1>1, <1>4 DEF CloseLast, DmaTypeOK
  <2>4. \A h \in acquired[i] : h[1] \in CbIndex \ {s}
    BY <1>1, <2>2 DEF HolderHasChannel, DmaTypeOK
  <2> QED
    BY <2>1, <2>2, <2>3, <2>4 DEF Keeps
<1>5. ASSUME NEW d \in DmaDev,
             \/ NU_DMA_Open_Fails(d)
             \/ \E s \in CbIndex : NU_DMA_Open_Succeeds(c, d, s)
      PROVE  Keeps(i)
  BY <1>5, OpenLeaves
<1>6. ASSUME NEW s \in CbIndex, NEW p \in Peri,
             \/ NU_DMA_Acquire_Channel_Fails(c, s, p)
             \/ \E u \in User : NU_DMA_Acquire_Channel_Succeeds(c, s, p, u)
      PROVE  Keeps(i)
  BY <1>6, AcquireLeaves
<1> QED
  BY <1>2, <1>3, <1>4, <1>5, <1>6 DEF DmaCall, NU_DMA_Close

\* A device that is taken for open and has no control block gets none.
LEMMA LostStaysLost ==
  ASSUME DmaInv, NEW c \in Client, DmaCall(c), NEW d \in device_in_use,
         \A s \in CbIndex : cb[s] # d
  PROVE  \A s \in CbIndex : cb'[s] # d
<1>1. DmaTypeOK /\ d # None
  BY DmaAssumption DEF DmaInv, DmaTypeOK
<1>2. CASE cb' = cb
  BY <1>2
<1>3. ASSUME NEW e \in DmaDev, NEW s \in CbIndex, OpenFirst(c, e, s)
      PROVE  \A r \in CbIndex : cb'[r] # d
  BY <1>1, <1>3 DEF OpenFirst, DMA_Tgt_Open, DmaTypeOK
<1>4. ASSUME NEW s \in CbIndex, CloseLast(c, s)
      PROVE  \A r \in CbIndex : cb'[r] # d
  BY <1>1, <1>4 DEF CloseLast, DmaTypeOK
<1>5. \/ cb' = cb
      \/ \E e \in DmaDev, s \in CbIndex : OpenFirst(c, e, s)
      \/ \E s \in CbIndex : CloseLast(c, s)
  BY DEF DmaCall, NU_DMA_Open_Fails, OpenRefused, OpenNoMemory,
         NU_DMA_Open_Succeeds, OpenAgain, NU_DMA_Acquire_Channel_Fails,
         NU_DMA_Acquire_Channel_Succeeds, NU_DMA_Release_Channel, NU_DMA_Close,
         CloseShared, dmaVars, cbVars
<1> QED
  BY <1>2, <1>3, <1>4, <1>5

\* A device that a control block is for is taken for open.
CbIsOpen == \A s \in CbIndex : cb[s] # None => cb[s] \in device_in_use

\* No call ends that.
LEMMA OpenForGood ==
  ASSUME DmaInv, CbIsOpen, NEW c \in Client, DmaCall(c)
  PROVE  CbIsOpen' /\ device_in_use \subseteq device_in_use'
<1>1. cb \in [CbIndex -> DmaDev \cup {None}]
  BY DEF DmaInv, DmaTypeOK
<1>2. CASE UNCHANGED <<cb, device_in_use>>
  BY <1>2 DEF CbIsOpen
<1>3. ASSUME NEW e \in DmaDev, NEW s \in CbIndex, OpenFirst(c, e, s)
      PROVE  CbIsOpen' /\ device_in_use \subseteq device_in_use'
  BY <1>1, <1>3 DEF OpenFirst, DMA_Tgt_Open, CbIsOpen
<1>4. ASSUME NEW e \in DmaDev, OpenNoMemory(e)
      PROVE  CbIsOpen' /\ device_in_use \subseteq device_in_use'
  BY <1>4 DEF OpenNoMemory, DMA_Tgt_Open, CbIsOpen, cbVars
<1>5. ASSUME NEW s \in CbIndex, CloseLast(c, s)
      PROVE  CbIsOpen' /\ device_in_use \subseteq device_in_use'
  BY <1>1, <1>5 DEF CloseLast, DMA_Tgt_Close, CbIsOpen
<1>6. \/ UNCHANGED <<cb, device_in_use>>
      \/ \E e \in DmaDev : OpenNoMemory(e)
      \/ \E e \in DmaDev, s \in CbIndex : OpenFirst(c, e, s)
      \/ \E s \in CbIndex : CloseLast(c, s)
  BY DEF DmaCall, NU_DMA_Open_Fails, OpenRefused,
         NU_DMA_Open_Succeeds, OpenAgain, NU_DMA_Acquire_Channel_Fails,
         NU_DMA_Acquire_Channel_Succeeds, NU_DMA_Release_Channel, NU_DMA_Close,
         CloseShared, dmaVars, cbVars
<1> QED
  BY <1>2, <1>3, <1>4, <1>5, <1>6

-----------------------------------------------------------------------------
(* The inductive invariant *)

\* A session is that of a bus that has arrived, in a slot in use, with a lock.
SessionOK ==
  \A b \in BusIndex :
    bus[b].session => /\ bus[b].is_used /\ bus[b].bus_lock
                      /\ bus[b].dev_id \in 1 .. arrivals

\* What a client's handle refers to.  The bus of a device that was registered
\* on an open bus is still open: LWSPI_Bus_Unregister takes the device along.
DeviceOf(c, h) ==
  /\ Registered(h[1], h[2])
  /\ devices[h[1]][h[2]].owner = c
  /\ devices[h[1]][h[2]].on # 0 => /\ bus[h[1]].session
                                   /\ bus[h[1]].dev_id = devices[h[1]][h[2]].on

HeldOK == \A c \in Client : \A h \in Fresh(c) : DeviceOf(c, h)

\* Every registered device is in its owner's hands.
RegisteredOK ==
  \A b \in BusIndex, d \in DevIndex :
    Registered(b, d) => <<b, d>> \in Fresh(devices[b][d].owner)

\* Each id is of one bus at most; it takes a removal to make a handle stale.
AllPresent == \A id \in 1 .. arrivals : \E p \in present : p.id = id

StaleOK ==
  /\ \A p \in present : p.id \in 1 .. arrivals
  /\ \A p, q \in present : p.id = q.id => p = q
  /\ \A c \in Client : stale[c] \subseteq held[c]
  /\ AllPresent => \A c \in Client : stale[c] = {}

\* The slots that refused registrations have left behind.
LeftIn(dv) == {h \in Handle : dv[h[1]][h[2]] # None /\ ~dv[h[1]][h[2]].registered}

LeftOK == Cardinality(LeftIn(devices)) = refused

RegInv == RegTypeOK /\ SessionOK /\ HeldOK /\ RegisteredOK /\ LeftOK /\ StaleOK

LEMMA RegInitially == RegInit => RegInv
<1> SUFFICES ASSUME RegInit PROVE RegInv
  OBVIOUS
<1>1. RegTypeOK
  BY RegistryAssumption DEF RegInit, RegTypeOK, Bus
<1>2. SessionOK /\ HeldOK /\ RegisteredOK /\ StaleOK
  BY DEF RegInit, SessionOK, HeldOK, Fresh, RegisteredOK, Registered, StaleOK
<1>3. LeftIn(devices) = {}
  BY DEF LeftIn, RegInit, Handle
<1>4. LeftOK
  BY <1>3, FS_EmptySet DEF LeftOK, RegInit
<1> QED
  BY <1>1, <1>2, <1>4 DEF RegInv

LEMMA HandlesFinite == IsFiniteSet(Handle)
BY RegistryAssumption, FS_Product DEF Handle

\* The invariant says what an I/O call relies on.
LEMMA HandleIsOwnHolds == RegInv => HandleIsOwn
<1> SUFFICES ASSUME RegInv PROVE HandleIsOwn
  OBVIOUS
<1>1. ASSUME NEW c \in Client, NEW h \in Fresh(c)
      PROVE  /\ Registered(h[1], h[2]) /\ devices[h[1]][h[2]].owner = c
             /\ \A o \in Client \ {c} : h \notin Fresh(o)
             /\ devices[h[1]][h[2]].on # 0 =>
                  /\ LWSPI_Get_Params_From_Handle(h)
                  /\ bus[h[1]].dev_id = devices[h[1]][h[2]].on
                  /\ bus[h[1]].session /\ bus[h[1]].bus_lock
  <2>1. h[1] \in BusIndex
    BY DEF RegInv, RegTypeOK, Fresh, Handle
  <2>2. \A o \in Client : h \in Fresh(o) => DeviceOf(o, h)
    BY DEF RegInv, HeldOK
  <2>3. Registered(h[1], h[2]) /\ devices[h[1]][h[2]].owner = c
    BY <2>2 DEF DeviceOf
  <2>4. \A o \in Client \ {c} : h \notin Fresh(o)
    BY <2>2, <2>3 DEF DeviceOf
  <2>5. ASSUME devices[h[1]][h[2]].on # 0
        PROVE  /\ bus[h[1]].session /\ bus[h[1]].dev_id = devices[h[1]][h[2]].on
               /\ bus[h[1]].is_used /\ bus[h[1]].bus_lock
    BY <2>1, <2>2, <2>5 DEF DeviceOf, RegInv, SessionOK
  <2> QED
    BY <2>3, <2>4, <2>5 DEF LWSPI_Get_Params_From_Handle, Registered
<1>2. AllPresent => \A c \in Client : stale[c] = {}
  BY DEF RegInv, StaleOK
<1> QED
  BY <1>1, <1>2 DEF HandleIsOwn, AllPresent

\* The handles that are still good are as many as the registered devices.
LEMMA HeldAreRegistered ==
  ASSUME RegInv
  PROVE  LET R == {h \in Handle : Registered(h[1], h[2])}
             P == {r \in Client \X Handle : r[2] \in Fresh(r[1])}
         IN  IsFiniteSet(R) /\ Cardinality(P) = Cardinality(R)
<1> DEFINE R == {h \in Handle : Registered(h[1], h[2])}
           P == {r \in Client \X Handle : r[2] \in Fresh(r[1])}
           f == [h \in R |-> <<devices[h[1]][h[2]].owner, h>>]
<1>1. IsFiniteSet(R)
  BY HandlesFinite, FS_Subset
<1>2. ASSUME NEW h \in R
      PROVE  f[h] \in P
  <2>1. h \in Handle /\ Registered(h[1], h[2])
    OBVIOUS
  <2>2. PICK b \in BusIndex, d \in DevIndex : h = <<b, d>>
    BY <2>1 DEF Handle
  <2>3. h \in Fresh(devices[h[1]][h[2]].owner)
    BY <2>1, <2>2 DEF RegInv, RegisteredOK
  <2>4. devices[h[1]][h[2]].owner \in Client
    BY <2>1, <2>2 DEF RegInv, RegTypeOK, Registered, Device
  <2> QED
    BY <2>1, <2>3, <2>4
<1>3. ASSUME NEW r \in P
      PROVE  r[2] \in R /\ f[r[2]] = r
  <2>1. r = <<r[1], r[2]>> /\ r[1] \in Client /\ r[2] \in Handle /\ r[2] \in Fresh(r[1])
    OBVIOUS
  <2>2. DeviceOf(r[1], r[2])
    BY <2>1 DEF RegInv, HeldOK
  <2> QED
    BY <2>1, <2>2 DEF DeviceOf
<1>4. f \in Injection(R, P)
  <2>1. f \in [R -> P]
    BY <1>2
  <2>2. \A g, h \in R : f[g] = f[h] => g = h
    OBVIOUS
  <2> HIDE DEF f, R, P
  <2> QED
    BY <2>1, <2>2 DEF Injection, IsInjective
<1>5. f \in Surjection(R, P)
  BY <1>2, <1>3 DEF Surjection
<1>6. ExistsBijection(R, P)
  BY <1>4, <1>5 DEF ExistsBijection, Bijection
<1> HIDE DEF R, P
<1>7. Cardinality(P) = Cardinality(R)
  BY <1>1, <1>6, FS_Bijection
<1> QED
  BY <1>1, <1>7 DEF R, P

\* Every slot is of a good handle, left behind or vacant.
LEMMA SlotsAccountedHolds == RegInv => SlotsAccounted
<1> SUFFICES ASSUME RegInv PROVE SlotsAccounted
  OBVIOUS
<1> DEFINE R == {h \in Handle : Registered(h[1], h[2])}
           L == LeftIn(devices)
           O == {h \in Handle : devices[h[1]][h[2]] # None}
           P == {r \in Client \X Handle : r[2] \in Fresh(r[1])}
<1>1. IsFiniteSet(R) /\ Cardinality(P) = Cardinality(R)
  BY HeldAreRegistered
<1>2. IsFiniteSet(L) /\ Cardinality(L) = refused
  BY HandlesFinite, FS_Subset DEF LeftIn, RegInv, LeftOK
<1>3. O = R \cup L /\ R \cap L = {}
  BY DEF Registered, LeftIn
<1> HIDE DEF R, L, O, P
<1>4. Cardinality(O) = Cardinality(R) + Cardinality(L)
  <2>1. Cardinality(O) = Cardinality(R) + Cardinality(L) - Cardinality({})
    BY <1>1, <1>2, <1>3, FS_Union
  <2>2. Cardinality(R) \in Nat /\ Cardinality(L) \in Nat
    BY <1>1, <1>2, FS_CardinalityType
  <2> QED
    BY <2>1, <2>2, FS_EmptySet
<1> QED
  BY <1>1, <1>2, <1>4 DEF SlotsAccounted, O, P

-----------------------------------------------------------------------------
(* The device slots *)

\* What one device slot of one bus becomes.
LEMMA SlotSet ==
  ASSUME RegTypeOK, NEW b \in BusIndex, NEW d \in DevIndex,
         NEW x \in Device \cup {None}, devices' = [devices EXCEPT ![b][d] = x]
  PROVE  /\ devices' \in [BusIndex -> [DevIndex -> Device \cup {None}]]
         /\ \A a \in BusIndex, e \in DevIndex :
              devices'[a][e] = IF a = b /\ e = d THEN x ELSE devices[a][e]
BY DEF RegTypeOK

\* A slot that was or becomes empty or registered is not left behind.
LEMMA LeftSame ==
  ASSUME NEW dv, NEW dw,
         \A b \in BusIndex, d \in DevIndex :
           \/ dv[b][d] = dw[b][d]
           \/ /\ dv[b][d] = None \/ dv[b][d].registered
              /\ dw[b][d] = None \/ dw[b][d].registered
  PROVE  LeftIn(dv) = LeftIn(dw)
<1>1. \A h \in Handle : h[1] \in BusIndex /\ h[2] \in DevIndex
  BY DEF Handle
<1> QED
  BY <1>1 DEF LeftIn

\* The device that a registration installs.
LEMMA InstallWhat ==
  ASSUME RegInv, NEW c \in Client, NEW b \in BusIndex, NEW d,
         NEW r \in BOOLEAN, d \in Vacant_Device(b), Install(b, d, c, r)
  PROVE  /\ d \in DevIndex /\ devices[b][d] = None
         /\ devices' \in [BusIndex -> [DevIndex -> Device \cup {None}]]
         /\ devices'[b][d].registered = r /\ devices'[b][d].owner = c
         /\ devices'[b][d] # None
         /\ devices'[b][d].on = IF bus[b].session THEN bus[b].dev_id ELSE 0
         /\ \A a \in BusIndex, e \in DevIndex :
              a # b \/ e # d => devices'[a][e] = devices[a][e]
<1> DEFINE x == [registered |-> r, owner |-> c,
                 on |-> IF bus[b].session THEN bus[b].dev_id ELSE 0]
<1>1. d \in DevIndex /\ devices[b][d] = None
  BY DEF Vacant_Device
<1>2. x \in Device
  BY RegistryAssumption DEF RegInv, RegTypeOK, Bus, Device
<1>3. RegTypeOK /\ devices' = [devices EXCEPT ![b][d] = x]
  BY DEF RegInv, Install
<1>4. x # None /\ x \in Device \cup {None}
  BY <1>2, RegistryAssumption
<1>5. x.registered = r /\ x.owner = c /\ x.on = IF bus[b].session THEN bus[b].dev_id ELSE 0
  OBVIOUS
<1> HIDE DEF x
<1>6. /\ devices' \in [BusIndex -> [DevIndex -> Device \cup {None}]]
      /\ \A a \in BusIndex, e \in DevIndex :
           devices'[a][e] = IF a = b /\ e = d THEN x ELSE devices[a][e]
  <2>1. devices \in [BusIndex -> [DevIndex -> Device \cup {None}]]
    BY <1>3 DEF RegTypeOK
  <2>2. devices' = [devices EXCEPT ![b][d] = x]
    BY <1>3
  <2> QED
    BY ONLY <1>1, <1>4, <2>1, <2>2, SlotSet
<1> QED
  BY <1>1, <1>4, <1>5, <1>6

\* It disturbs no device that is there.
LEMMA InstallLeaves ==
  ASSUME RegInv, NEW c \in Client, NEW b \in BusIndex, NEW d,
         NEW r \in BOOLEAN, d \in Vacant_Device(b), Install(b, d, c, r)
  PROVE  \A p \in BusIndex, q \in DevIndex :
           devices[p][q] # None => devices'[p][q] = devices[p][q]
BY InstallWhat

LEMMA RegisterSucceedsStep ==
  ASSUME RegInv, NEW c \in Client, NEW n \in Name, NEW h \in Handle,
         NU_SPI_Register_Succeeds(c, n, h)
  PROVE  /\ RegInv'
         /\ devices'[h[1]][h[2]].on = IF bus[h[1]].session THEN bus[h[1]].dev_id ELSE 0
<1>1. PICK b \in BusIndex, d \in DevIndex : h = <<b, d>>
  BY DEF Handle
<1>2. /\ d \in Vacant_Device(b) /\ Install(b, d, c, TRUE)
      /\ held' = [held EXCEPT ![c] = @ \cup {h}]
      /\ stale' = [stale EXCEPT ![c] = @ \ {h}]
      /\ bus' = bus /\ arrivals' = arrivals /\ present' = present /\ refused' = refused
  BY <1>1 DEF NU_SPI_Register_Succeeds
<1>3. /\ devices[b][d] = None
      /\ devices' \in [BusIndex -> [DevIndex -> Device \cup {None}]]
      /\ devices'[b][d].registered /\ devices'[b][d].owner = c
      /\ devices'[b][d] # None
      /\ devices'[b][d].on = IF bus[b].session THEN bus[b].dev_id ELSE 0
      /\ \A a \in BusIndex, e \in DevIndex :
           a # b \/ e # d => devices'[a][e] = devices[a][e]
  BY <1>2, InstallWhat
<1>4. RegTypeOK /\ SessionOK /\ HeldOK /\ RegisteredOK /\ LeftOK /\ StaleOK
  BY DEF RegInv
<1>5. RegTypeOK' /\ SessionOK'
  BY <1>2, <1>3, <1>4 DEF RegTypeOK, SessionOK
<1>6. HeldOK'
  <2> SUFFICES ASSUME NEW e \in Client, NEW g \in Fresh(e)'
               PROVE  DeviceOf(e, g)'
    BY DEF HeldOK
  <2>1. CASE g = h
    <3>1. e = c
      <4> SUFFICES ASSUME e # c PROVE FALSE
        OBVIOUS
      <4>1. h \in Fresh(e)
        BY <1>2, <1>4, <2>1 DEF RegTypeOK, Fresh
      <4>2. Registered(b, d)
        BY <1>1, <1>4, <4>1 DEF HeldOK, DeviceOf
      <4> QED
        BY <1>3, <4>2 DEF Registered
    <3> QED
      BY <1>1, <1>2, <1>3, <2>1, <3>1 DEF DeviceOf, Registered
  <2>2. CASE g # h
    <3>1. g \in Fresh(e) /\ g \in Handle
      BY <1>2, <1>4, <2>2 DEF RegTypeOK, Fresh
    <3>2. DeviceOf(e, g)
      BY <1>4, <3>1 DEF HeldOK
    <3>3. PICK p \in BusIndex, q \in DevIndex : g = <<p, q>>
      BY <3>1 DEF Handle
    <3>4. devices'[p][q] = devices[p][q]
      BY <1>1, <1>3, <2>2, <3>3
    <3> QED
      BY <1>2, <3>2, <3>3, <3>4 DEF DeviceOf, Registered
  <2> QED
    BY <2>1, <2>2
<1>7. RegisteredOK'
  <2> SUFFICES ASSUME NEW p \in BusIndex, NEW q \in DevIndex, Registered(p, q)'
               PROVE  <<p, q>> \in Fresh(devices[p][q].owner)'
    BY DEF RegisteredOK
  <2>1. CASE p = b /\ q = d
    BY <1>1, <1>2, <1>3, <1>4, <2>1 DEF RegTypeOK, Fresh
  <2>2. CASE p # b \/ q # d
    <3>1. devices'[p][q] = devices[p][q] /\ Registered(p, q)
      BY <1>3, <2>2 DEF Registered
    <3>2. <<p, q>> \in Fresh(devices[p][q].owner) /\ devices[p][q].owner \in Client
      BY <1>4, <3>1 DEF RegisteredOK, Registered, RegTypeOK, Device
    <3> QED
      BY <1>1, <1>2, <1>4, <2>2, <3>1, <3>2 DEF RegTypeOK, Fresh
  <2> QED
    BY <2>1, <2>2
<1>8. LeftOK'
  <2>1. LeftIn(devices') = LeftIn(devices)
    BY <1>3, LeftSame
  <2> QED
    BY <1>2, <1>4, <2>1 DEF LeftOK
<1>9. StaleOK'
  BY <1>2, <1>4 DEF StaleOK, AllPresent, RegTypeOK
<1> QED
  BY <1>1, <1>3, <1>5, <1>6, <1>7, <1>8, <1>9 DEF RegInv

LEMMA RegisterRefusedStep ==
  ASSUME RegInv, NEW c \in Client, NEW n \in Name, NU_SPI_Register_Refused(c, n)
  PROVE  RegInv'
<1>1. PICK b \in BusIndex : \E d \in Vacant_Device(b) :
        /\ Install(b, d, c, FALSE)
        /\ refused' = refused + 1
        /\ UNCHANGED <<present, arrivals, bus, held, stale>>
  BY DEF NU_SPI_Register_Refused, LWSPI_Find_Bus_Slot_By_Name
<1>2. PICK d \in Vacant_Device(b) :
        /\ Install(b, d, c, FALSE)
        /\ refused' = refused + 1
        /\ UNCHANGED <<present, arrivals, bus, held, stale>>
  BY <1>1
<1>3. /\ d \in DevIndex /\ devices[b][d] = None
      /\ devices' \in [BusIndex -> [DevIndex -> Device \cup {None}]]
      /\ ~devices'[b][d].registered
      /\ devices'[b][d] # None
      /\ \A a \in BusIndex, e \in DevIndex :
           a # b \/ e # d => devices'[a][e] = devices[a][e]
  BY <1>2, InstallWhat
<1>4. RegTypeOK /\ SessionOK /\ HeldOK /\ RegisteredOK /\ LeftOK /\ StaleOK
  BY DEF RegInv
<1>5. RegTypeOK' /\ SessionOK'
  BY <1>2, <1>3, <1>4 DEF RegTypeOK, SessionOK
<1>6. HeldOK'
  <2> SUFFICES ASSUME NEW e \in Client, NEW g \in Fresh(e)
               PROVE  DeviceOf(e, g)'
    BY <1>2 DEF HeldOK, Fresh
  <2>1. PICK p \in BusIndex, q \in DevIndex : g = <<p, q>>
    BY <1>4 DEF RegTypeOK, Fresh, Handle
  <2>2. DeviceOf(e, g)
    BY <1>4 DEF HeldOK
  <2>3. devices'[p][q] = devices[p][q]
    BY <1>3, <2>1, <2>2 DEF DeviceOf, Registered
  <2> QED
    BY <1>2, <2>1, <2>2, <2>3 DEF DeviceOf, Registered
<1>7. RegisteredOK'
  BY <1>2, <1>3, <1>4 DEF RegisteredOK, Registered, Fresh
<1>8. LeftOK'
  <2>1. <<b, d>> \notin LeftIn(devices)
    BY <1>3 DEF LeftIn
  <2>2. LeftIn(devices') = LeftIn(devices) \cup {<<b, d>>}
    <3>1. <<b, d>> \in LeftIn(devices')
      BY <1>3 DEF LeftIn, Handle
    <3>2. \A h \in Handle : h # <<b, d>> => devices'[h[1]][h[2]] = devices[h[1]][h[2]]
      <4> SUFFICES ASSUME NEW h \in Handle, h # <<b, d>>
                   PROVE  devices'[h[1]][h[2]] = devices[h[1]][h[2]]
        OBVIOUS
      <4>1. h[1] \in BusIndex /\ h[2] \in DevIndex /\ (h[1] # b \/ h[2] # d)
        BY DEF Handle
      <4> QED
        BY <1>3, <4>1
    <3> QED
      BY <3>1, <3>2, <2>1 DEF LeftIn
  <2>3. IsFiniteSet(LeftIn(devices))
    BY HandlesFinite, FS_Subset DEF LeftIn
  <2>4. Cardinality(LeftIn(devices')) = Cardinality(LeftIn(devices)) + 1
    BY <2>1, <2>2, <2>3, FS_AddElement
  <2> QED
    BY <1>2, <1>4, <2>4 DEF LeftOK
<1>9. StaleOK'
  BY <1>2, <1>4 DEF StaleOK, AllPresent
<1> QED
  BY <1>5, <1>6, <1>7, <1>8, <1>9 DEF RegInv

LEMMA UnregisterStep ==
  ASSUME RegInv, NEW c \in Client, NEW h \in Handle, NU_SPI_Unregister(c, h)
  PROVE  RegInv'
<1>1. PICK b \in BusIndex, d \in DevIndex : h = <<b, d>>
  BY DEF Handle
<1>2. /\ h \in held[c]
      /\ devices' = [devices EXCEPT ![b][d] = None]
      /\ held' = [held EXCEPT ![c] = @ \ {h}]
      /\ stale' = [o \in Client |-> IF o = c THEN stale[o] \ {h}
                                    ELSE stale[o] \cup (held[o] \cap {h})]
      /\ refused' = IF devices[b][d] # None /\ ~Registered(b, d)
                      THEN refused - 1 ELSE refused
      /\ bus' = bus /\ arrivals' = arrivals /\ present' = present
  BY <1>1 DEF NU_SPI_Unregister
<1>3. RegTypeOK /\ SessionOK /\ HeldOK /\ RegisteredOK /\ LeftOK /\ StaleOK
  BY DEF RegInv
<1>4. /\ devices' \in [BusIndex -> [DevIndex -> Device \cup {None}]]
      /\ devices'[b][d] = None
      /\ \A a \in BusIndex, e \in DevIndex :
           a # b \/ e # d => devices'[a][e] = devices[a][e]
  <2>1. devices \in [BusIndex -> [DevIndex -> Device \cup {None}]]
    BY <1>3 DEF RegTypeOK
  <2>2. devices' = [devices EXCEPT ![b][d] = None]
    BY <1>2
  <2> QED
    BY ONLY <2>1, <2>2, b \in BusIndex, d \in DevIndex
<1>5. LeftOK' /\ refused' \in Nat
  <2>1. CASE devices[b][d] # None /\ ~Registered(b, d)
    <3>1. h \in LeftIn(devices)
      BY <1>1, <2>1 DEF LeftIn, Registered
    <3>2. LeftIn(devices') = LeftIn(devices) \ {h}
      <4>1. h \notin LeftIn(devices')
        BY <1>1, <1>4 DEF LeftIn
      <4>2. ASSUME NEW g \in Handle, g # h
            PROVE  devices'[g[1]][g[2]] = devices[g[1]][g[2]]
        <5>1. g[1] \in BusIndex /\ g[2] \in DevIndex /\ (g[1] # b \/ g[2] # d)
          BY <1>1, <4>2 DEF Handle
        <5> QED
          BY <1>4, <5>1
      <4> QED
        BY <4>1, <4>2 DEF LeftIn
    <3>3. IsFiniteSet(LeftIn(devices))
      BY HandlesFinite, FS_Subset DEF LeftIn
    <3>4. /\ Cardinality(LeftIn(devices) \ {h}) = Cardinality(LeftIn(devices)) - 1
          /\ IsFiniteSet(LeftIn(devices) \ {h})
      BY <3>1, <3>3, FS_RemoveElement
    <3>5. refused' = refused - 1
      BY <1>2, <2>1
    <3> QED
      BY <1>3, <3>2, <3>4, <3>5, FS_CardinalityType DEF LeftOK
  <2>2. CASE devices[b][d] = None \/ Registered(b, d)
    <3>1. devices[b][d] = None \/ devices[b][d].registered
      BY <2>2 DEF Registered
    <3>2. LeftIn(devices') = LeftIn(devices)
      BY <1>4, <3>1, LeftSame
    <3>3. refused' = refused
      BY <1>2, <2>2 DEF Registered
    <3> QED
      BY <1>3, <3>2, <3>3 DEF LeftOK, RegTypeOK
  <2> QED
    BY <2>1, <2>2
<1>6. RegTypeOK' /\ SessionOK'
  BY <1>2, <1>3, <1>4, <1>5 DEF RegTypeOK, SessionOK
<1>7. HeldOK'
  <2> SUFFICES ASSUME NEW e \in Client, NEW g \in Fresh(e)'
               PROVE  DeviceOf(e, g)'
    BY DEF HeldOK
  <2>1. g # h /\ g \in Fresh(e) /\ g \in Handle
    <3>1. CASE e = c
      BY <3>1, <1>2, <1>3 DEF RegTypeOK, Fresh
    <3>2. CASE e # c
      BY <3>2, <1>2, <1>3 DEF RegTypeOK, Fresh
    <3> QED
      BY <3>1, <3>2
  <2>2. DeviceOf(e, g)
    BY <1>3, <2>1 DEF HeldOK
  <2>3. PICK p \in BusIndex, q \in DevIndex : g = <<p, q>>
    BY <2>1 DEF Handle
  <2>4. devices'[p][q] = devices[p][q]
    BY <1>1, <1>4, <2>1, <2>3
  <2> QED
    BY <1>2, <2>2, <2>3, <2>4 DEF DeviceOf, Registered
<1>8. RegisteredOK'
  <2> SUFFICES ASSUME NEW p \in BusIndex, NEW q \in DevIndex, Registered(p, q)'
               PROVE  <<p, q>> \in Fresh(devices[p][q].owner)'
    BY DEF RegisteredOK
  <2>1. p # b \/ q # d
    BY <1>4 DEF Registered
  <2>2. devices'[p][q] = devices[p][q] /\ Registered(p, q)
    BY <1>4, <2>1 DEF Registered
  <2>3. <<p, q>> \in Fresh(devices[p][q].owner) /\ devices[p][q].owner \in Client
    BY <1>3, <2>2 DEF RegisteredOK, Registered, RegTypeOK, Device
  <2>4. <<p, q>> # h
    BY <1>1, <2>1
  <2> QED
    BY <1>2, <1>3, <2>2, <2>3, <2>4 DEF RegTypeOK, Fresh
<1>9. StaleOK'
  <2>1. \A e \in Client : stale'[e] \subseteq held'[e]
    BY <1>2, <1>3 DEF StaleOK, RegTypeOK
  <2>2. ASSUME AllPresent, NEW e \in Client
        PROVE  stale'[e] = {}
    <3>1. \A o \in Client : stale[o] = {}
      BY <1>3, <2>2 DEF StaleOK
    <3>2. e # c => h \notin held[e]
      <4>1. h \in held[e] => DeviceOf(e, h)
        BY <1>3, <3>1 DEF HeldOK, Fresh
      <4>2. DeviceOf(c, h)
        BY <1>2, <1>3, <3>1 DEF HeldOK, Fresh
      <4> QED
        BY <4>1, <4>2 DEF DeviceOf
    <3> QED
      BY <1>2, <3>1, <3>2
  <2> QED
    BY <1>2, <1>3, <2>1, <2>2 DEF StaleOK, AllPresent
<1> QED
  BY <1>5, <1>6, <1>7, <1>8, <1>9 DEF RegInv

-----------------------------------------------------------------------------
(* The buses *)

\* An arriving bus changes at most one slot, one that has no session.
LEMMA BusRegisterWhat ==
  ASSUME RegInv, NEW n \in Name, BusArrives(n)
  PROVE  /\ bus' \in [BusIndex -> Bus]
         /\ arrivals' = arrivals + 1 /\ arrivals' \in 0 .. MaxBuses
         /\ \A b \in BusIndex :
              \/ bus'[b] = bus[b]
              \/ /\ ~bus[b].session /\ bus'[b].is_used
                 /\ bus'[b].session => bus'[b].bus_lock /\ bus'[b].dev_id = arrivals'
<1>1. RegTypeOK /\ SessionOK
  BY DEF RegInv
<1>2. arrivals' = arrivals + 1 /\ arrivals' \in 0 .. MaxBuses
  BY <1>1, RegistryAssumption DEF BusArrives, RegTypeOK
<1>3. CASE bus' = bus
  BY <1>1, <1>2, <1>3 DEF RegTypeOK
<1>4. CASE Vacant_Bus # {}
  <2>1. PICK b \in BusIndex : b = First(Vacant_Bus) /\ b \in Vacant_Bus
    <3>1. Vacant_Bus \in SUBSET Nat
      BY RegistryAssumption DEF Vacant_Bus
    <3> QED
      BY <1>4, <3>1, FirstIsIn DEF Vacant_Bus
  <2>2. ~bus[b].is_used /\ ~bus[b].session
    BY <1>1, <2>1 DEF Vacant_Bus, SessionOK
  <2> DEFINE new == [is_used |-> TRUE, dev_id |-> arrivals + 1, name |-> n,
                     session |-> TRUE, bus_lock |-> TRUE]
  <2>3. new \in Bus
    BY <1>2 DEF Bus
  <2>4. [bus[b] EXCEPT !.is_used = TRUE] \in Bus
    BY <1>1 DEF RegTypeOK, Bus
  <2>5. \/ bus' = [bus EXCEPT ![b].is_used = TRUE]
        \/ bus' = [bus EXCEPT ![b] = new]
    BY <1>4, <2>1 DEF BusArrives, LWSPI_Bus_Register
  <2>6. CASE bus' = [bus EXCEPT ![b].is_used = TRUE]
    <3>1. bus' \in [BusIndex -> Bus] /\ \A a \in BusIndex \ {b} : bus'[a] = bus[a]
      BY <1>1, <2>4, <2>6 DEF RegTypeOK
    <3>2. bus'[b] = [bus[b] EXCEPT !.is_used = TRUE]
      BY <1>1, <2>6 DEF RegTypeOK
    <3>3. bus'[b].is_used /\ bus'[b].session = bus[b].session
      BY <1>1, <3>2 DEF RegTypeOK, Bus
    <3> QED
      BY <1>2, <2>2, <3>1, <3>3
  <2>7. CASE bus' = [bus EXCEPT ![b] = new]
    <3>1. bus' \in [BusIndex -> Bus] /\ \A a \in BusIndex \ {b} : bus'[a] = bus[a]
      BY <1>1, <2>3, <2>7 DEF RegTypeOK
    <3>2. bus'[b] = new
      BY <1>1, <2>7 DEF RegTypeOK
    <3> QED
      BY <1>2, <2>2, <3>1, <3>2
  <2> QED
    BY <2>5, <2>6, <2>7
<1> QED
  BY <1>3, <1>4 DEF BusArrives, LWSPI_Bus_Register

LEMMA BusArrivesStep ==
  ASSUME RegInv, NEW n \in Name, BusArrives(n)
  PROVE  RegInv'
<1>1. RegTypeOK /\ SessionOK /\ HeldOK /\ RegisteredOK /\ LeftOK /\ StaleOK
  BY DEF RegInv
<1>2. /\ bus' \in [BusIndex -> Bus]
      /\ arrivals' = arrivals + 1 /\ arrivals' \in 0 .. MaxBuses
      /\ \A b \in BusIndex :
           \/ bus'[b] = bus[b]
           \/ /\ ~bus[b].session /\ bus'[b].is_used
              /\ bus'[b].session => bus'[b].bus_lock /\ bus'[b].dev_id = arrivals'
  BY BusRegisterWhat
<1>3. devices' = devices /\ held' = held /\ stale' = stale /\ refused' = refused
  BY DEF BusArrives
<1>4. present' \subseteq [id : 1 .. MaxBuses, name : Name]
  <2>1. arrivals + 1 \in 1 .. MaxBuses
    BY <1>1, <1>2 DEF RegTypeOK
  <2> QED
    BY <1>1, <2>1 DEF BusArrives, RegTypeOK
<1>5. RegTypeOK'
  BY <1>1, <1>2, <1>3, <1>4 DEF RegTypeOK
<1>6. SessionOK'
  BY <1>1, <1>2 DEF SessionOK, RegTypeOK
<1>7. HeldOK'
  <2> SUFFICES ASSUME NEW e \in Client, NEW g \in Fresh(e)
               PROVE  DeviceOf(e, g)'
    BY <1>3 DEF HeldOK, Fresh
  <2>1. g[1] \in BusIndex /\ DeviceOf(e, g)
    BY <1>1 DEF HeldOK, RegTypeOK, Fresh, Handle
  <2> QED
    BY <1>2, <1>3, <2>1 DEF DeviceOf, Registered
<1>8. RegisteredOK' /\ LeftOK'
  BY <1>1, <1>3 DEF RegisteredOK, Registered, Fresh, LeftOK
<1>9. StaleOK'
  <2> DEFINE new == [id |-> arrivals + 1, name |-> n]
  <2>1. present' = present \cup {new} /\ new.id = arrivals + 1
    BY DEF BusArrives
  <2> HIDE DEF new
  <2>2. \A p \in present : p.id \in 1 .. arrivals /\ p.id # new.id
    BY <1>1, <2>1 DEF StaleOK, RegTypeOK
  <2>3. arrivals \in Nat
    BY <1>1 DEF RegTypeOK
  <2>4. \A p \in present' : p.id \in 1 .. arrivals'
    BY <1>2, <2>1, <2>2, <2>3
  <2>5. \A p, q \in present' : p.id = q.id => p = q
    BY <1>1, <2>1, <2>2 DEF StaleOK
  <2>6. AllPresent' => AllPresent
    <3> SUFFICES ASSUME AllPresent', NEW id \in 1 .. arrivals
                 PROVE  \E p \in present : p.id = id
      BY DEF AllPresent
    <3>1. id \in 1 .. arrivals' /\ id # new.id
      BY <1>2, <2>1, <2>3
    <3> QED
      BY <2>1, <3>1 DEF AllPresent
  <2> QED
    BY <1>1, <1>3, <2>4, <2>5, <2>6 DEF StaleOK
<1> QED
  BY <1>5, <1>6, <1>7, <1>8, <1>9 DEF RegInv

\* A leaving bus closes one slot and ends the registrations there, if any.
LEMMA BusUnregisterWhat ==
  ASSUME RegInv, BusLeaves
  PROVE  /\ \E p \in present : present' = present \ {p}
         /\ arrivals' = arrivals /\ held' = held /\ refused' = refused
         /\ \/ UNCHANGED <<bus, devices, stale>>
            \/ \E b \in BusIndex :
                 /\ bus' \in [BusIndex -> Bus]
                 /\ ~bus'[b].session
                 /\ \A a \in BusIndex \ {b} : bus'[a] = bus[a]
                 /\ Unregister_All(b)
                 /\ stale' = [c \in Client |->
                                stale[c] \cup {h \in held[c] : h[1] = b}]
<1>1. PICK p \in present : /\ present' = present \ {p}
                           /\ LWSPI_Bus_Unregister(p.id)
                           /\ UNCHANGED <<arrivals, held, refused>>
  BY DEF BusLeaves
<1> DEFINE found == {b \in BusIndex : bus[b].dev_id = p.id}
<1>2. CASE UNCHANGED <<bus, devices, stale>>
  BY <1>1, <1>2
<1>3. CASE /\ found # {}
           /\ Unregister_All(First(found))
           /\ bus' = [bus EXCEPT ![First(found)].session = FALSE,
                                 ![First(found)].bus_lock = FALSE,
                                 ![First(found)].is_used = FALSE]
           /\ stale' = [c \in Client |->
                          stale[c] \cup {h \in held[c] : h[1] = First(found)}]
  <2>1. found \in SUBSET Nat
    BY RegistryAssumption
  <2>2. First(found) \in BusIndex
    BY <1>3, <2>1, FirstIsIn
  <2>3. PICK b \in BusIndex : b = First(found)
    BY <2>2
  <2> HIDE DEF found
  <2>4. bus \in [BusIndex -> Bus]
    BY DEF RegInv, RegTypeOK
  <2>5. bus' = [bus EXCEPT ![b] = [bus[b] EXCEPT !.session = FALSE, !.bus_lock = FALSE,
                                                 !.is_used = FALSE]]
    BY <1>3, <2>3, <2>4 DEF Bus
  <2>6. /\ [bus[b] EXCEPT !.session = FALSE, !.bus_lock = FALSE, !.is_used = FALSE] \in Bus
        /\ ~[bus[b] EXCEPT !.session = FALSE, !.bus_lock = FALSE, !.is_used = FALSE].session
    BY <2>4 DEF Bus
  <2>7. /\ bus' \in [BusIndex -> Bus] /\ ~bus'[b].session
        /\ \A a \in BusIndex \ {b} : bus'[a] = bus[a]
    BY <2>4, <2>5, <2>6
  <2> QED
    BY <1>1, <1>3, <2>3, <2>7
<1> QED
  BY <1>1, <1>2, <1>3 DEF LWSPI_Bus_Unregister

LEMMA BusLeavesStep ==
  ASSUME RegInv, BusLeaves
  PROVE  RegInv'
<1>1. RegTypeOK /\ SessionOK /\ HeldOK /\ RegisteredOK /\ LeftOK /\ StaleOK
  BY DEF RegInv
<1>2. /\ present' \subseteq present
      /\ arrivals' = arrivals /\ held' = held /\ refused' = refused
  BY BusUnregisterWhat
<1>0. ASSUME \A c \in Client : stale'[c] \subseteq held[c]
      PROVE  StaleOK'
  <2>1. PICK p \in present : present' = present \ {p}
    BY BusUnregisterWhat
  <2>2. p.id \in 1 .. arrivals /\ \A q \in present : q.id = p.id => q = p
    BY <1>1 DEF StaleOK
  <2>3. ~AllPresent'
    BY <1>2, <2>1, <2>2 DEF AllPresent
  <2> QED
    BY <1>0, <1>1, <1>2, <2>3 DEF StaleOK
<1>3. CASE UNCHANGED <<bus, devices, stale>>
  <2>1. RegTypeOK' /\ SessionOK' /\ HeldOK'
    BY <1>1, <1>2, <1>3 DEF RegTypeOK, SessionOK, HeldOK, DeviceOf, Registered, Fresh
  <2>2. RegisteredOK' /\ LeftOK'
    BY <1>1, <1>2, <1>3 DEF RegisteredOK, Registered, Fresh, LeftOK
  <2>3. StaleOK'
    BY <1>0, <1>1, <1>3 DEF StaleOK
  <2> QED
    BY <2>1, <2>2, <2>3 DEF RegInv
<1>4. ASSUME NEW b \in BusIndex,
             bus' \in [BusIndex -> Bus], ~bus'[b].session,
             \A a \in BusIndex \ {b} : bus'[a] = bus[a],
             Unregister_All(b),
             stale' = [c \in Client |-> stale[c] \cup {h \in held[c] : h[1] = b}]
      PROVE  RegInv'
  <2>1. devices \in [BusIndex -> [DevIndex -> Device \cup {None}]]
    BY <1>1 DEF RegTypeOK
  <2>2. /\ devices' \in [BusIndex -> [DevIndex -> Device \cup {None}]]
        /\ \A a \in BusIndex \ {b} : devices'[a] = devices[a]
        /\ \A d \in DevIndex :
             devices'[b][d] = IF Registered(b, d) THEN None ELSE devices[b][d]
    BY <1>4, <2>1 DEF Unregister_All
  <2>3. RegTypeOK' /\ SessionOK'
    BY <1>1, <1>2, <1>4, <2>2 DEF RegTypeOK, SessionOK
  <2>4. HeldOK'
    <3> SUFFICES ASSUME NEW e \in Client, NEW g \in Fresh(e)'
                 PROVE  DeviceOf(e, g)'
      BY DEF HeldOK
    <3>1. g \in Fresh(e) /\ g[1] # b
      BY <1>2, <1>4 DEF Fresh
    <3>2. g[1] \in BusIndex /\ DeviceOf(e, g)
      BY <1>1, <3>1 DEF HeldOK, RegTypeOK, Fresh, Handle
    <3> QED
      BY <1>4, <2>2, <3>1, <3>2 DEF DeviceOf, Registered
  <2>5. RegisteredOK'
    <3> SUFFICES ASSUME NEW p \in BusIndex, NEW q \in DevIndex, Registered(p, q)'
                 PROVE  <<p, q>> \in Fresh(devices[p][q].owner)'
      BY DEF RegisteredOK
    <3>1. p # b
      BY <2>2 DEF Registered
    <3>2. devices'[p][q] = devices[p][q] /\ Registered(p, q)
      BY <2>2, <3>1 DEF Registered
    <3>3. <<p, q>> \in Fresh(devices[p][q].owner) /\ devices[p][q].owner \in Client
      BY <1>1, <3>2 DEF RegisteredOK, Registered, RegTypeOK, Device
    <3> QED
      BY <1>2, <1>4, <3>1, <3>2, <3>3 DEF Fresh
  <2>6. LeftOK'
    <3>1. LeftIn(devices') = LeftIn(devices)
      BY <2>2, LeftSame DEF Registered
    <3> QED
      BY <1>1, <1>2, <3>1 DEF LeftOK
  <2>7. StaleOK'
    BY <1>0, <1>1, <1>4 DEF StaleOK
  <2> QED
    BY <2>3, <2>4, <2>5, <2>6, <2>7 DEF RegInv
<1> QED
  BY <1>3, <1>4, BusUnregisterWhat

-----------------------------------------------------------------------------
\* Every arrival and removal of a bus preserves the invariant ...
LEMMA BusChangeKeeps == RegInv /\ BusChange => RegInv'
BY BusLeavesStep, BusArrivesStep DEF BusChange

\* ... and so does every call of every client.
LEMMA RegCallKeeps ==
  ASSUME RegInv, NEW c \in Client, RegCall(c)
  PROVE  RegInv'
<1>1. ASSUME NEW n \in Name, NU_SPI_Register_Refused(c, n)
      PROVE  RegInv'
  BY <1>1, RegisterRefusedStep
<1>2. ASSUME NEW n \in Name, NEW h \in Handle, NU_SPI_Register_Succeeds(c, n, h)
      PROVE  RegInv'
  BY <1>2, RegisterSucceedsStep
<1>3. ASSUME NEW h \in Handle, NU_SPI_Unregister(c, h)
      PROVE  RegInv'
  BY <1>3, UnregisterStep
<1> QED
  BY <1>1, <1>2, <1>3 DEF RegCall

-----------------------------------------------------------------------------
(* What is left to a client that keeps its handle *)

\* Client i got handle h on bus id and still has it; unless it went stale, the
\* device is the one it got.
GoodFor(i, h, id) ==
  /\ h \in held[i]
  /\ h \notin stale[i] => devices[h[1]][h[2]].on = id

LEMMA GoodAtFirst ==
  ASSUME RegInv, NEW i \in Client, NEW n \in Name, NEW h \in Handle,
         NU_SPI_Register_Succeeds(i, n, h), NEW id, id = devices'[h[1]][h[2]].on
  PROVE  GoodFor(i, h, id)'
BY DEF NU_SPI_Register_Succeeds, RegInv, RegTypeOK, GoodFor

LEMMA GoodStays ==
  ASSUME RegInv, NEW i \in Client, NEW h, NEW id, GoodFor(i, h, id),
         BusChange \/ \E c \in Client \ {i} : RegCall(c)
  PROVE  GoodFor(i, h, id)'
<1>1. RegTypeOK /\ h \in held[i] /\ h \in Handle
  BY DEF GoodFor, RegInv, RegTypeOK
<1>2. PICK b \in BusIndex, d \in DevIndex : h = <<b, d>>
  BY <1>1 DEF Handle
<1>3. h \notin stale[i] => devices[b][d].on = id /\ devices[b][d] # None
  BY <1>1, <1>2 DEF GoodFor, RegInv, HeldOK, Fresh, DeviceOf, Registered
<1>4. SUFFICES /\ h \in held'[i]
               /\ h \notin stale'[i] => /\ h \notin stale[i]
                                        /\ devices'[b][d] = devices[b][d]
  BY <1>2, <1>3 DEF GoodFor
<1>5. ASSUME NEW n \in Name, BusArrives(n)
      PROVE  UNCHANGED <<devices, held, stale>>
  BY <1>5 DEF BusArrives
<1>6. CASE BusLeaves
  <2>1. held' = held
    BY <1>6, BusUnregisterWhat
  <2>2. CASE UNCHANGED <<bus, devices, stale>>
    BY <1>1, <2>1, <2>2
  <2>3. ASSUME NEW a \in BusIndex, Unregister_All(a),
               stale' = [c \in Client |-> stale[c] \cup {g \in held[c] : g[1] = a}]
        PROVE  h \notin stale'[i] => /\ h \notin stale[i]
                                     /\ devices'[b][d] = devices[b][d]
    BY <1>1, <1>2, <2>3 DEF Unregister_All, RegTypeOK
  <2> QED
    BY <1>1, <1>6, <2>1, <2>2, <2>3, BusUnregisterWhat
<1>7. ASSUME NEW c \in Client \ {i}, NEW n \in Name,
             NU_SPI_Register_Refused(c, n)
      PROVE  /\ held'[i] = held[i] /\ stale'[i] = stale[i]
             /\ devices[b][d] # None => devices'[b][d] = devices[b][d]
  <2>1. PICK a \in BusIndex : \E e \in Vacant_Device(a) :
          /\ Install(a, e, c, FALSE)
          /\ UNCHANGED <<held, stale>>
    BY <1>7 DEF NU_SPI_Register_Refused, LWSPI_Find_Bus_Slot_By_Name
  <2>2. PICK e \in Vacant_Device(a) : Install(a, e, c, FALSE)
    BY <2>1
  <2>3. PICK r \in BOOLEAN : Install(a, e, c, r) /\ e \in Vacant_Device(a)
    BY <2>2
  <2>4. c \in Client
    OBVIOUS
  <2>5. devices[b][d] # None => devices'[b][d] = devices[b][d]
    BY <2>3, <2>4, InstallLeaves
  <2> QED
    BY <2>1, <2>5
<1>8. ASSUME NEW c \in Client \ {i}, NEW n \in Name, NEW g \in Handle,
             NU_SPI_Register_Succeeds(c, n, g)
      PROVE  /\ held'[i] = held[i] /\ stale'[i] = stale[i]
             /\ devices[b][d] # None => devices'[b][d] = devices[b][d]
  <2>1. PICK a \in BusIndex, e \in DevIndex : g = <<a, e>>
    BY DEF Handle
  <2>2. c \in Client /\ e \in Vacant_Device(a) /\ Install(a, e, c, TRUE)
    BY <1>8, <2>1 DEF NU_SPI_Register_Succeeds
  <2>3. PICK r \in BOOLEAN : Install(a, e, c, r)
    BY <2>2
  <2>4. devices[b][d] # None => devices'[b][d] = devices[b][d]
    BY <2>2, <2>3, InstallLeaves
  <2>5. held'[i] = held[i] /\ stale'[i] = stale[i]
    BY <1>1, <1>8 DEF NU_SPI_Register_Succeeds, RegTypeOK
  <2> QED
    BY <2>4, <2>5
<1>9. ASSUME NEW c \in Client \ {i}, NEW g \in Handle, NU_SPI_Unregister(c, g)
      PROVE  /\ held'[i] = held[i] /\ stale'[i] = stale[i] \cup (held[i] \cap {g})
             /\ g # h => devices'[b][d] = devices[b][d]
  <2>1. held'[i] = held[i] /\ stale'[i] = stale[i] \cup (held[i] \cap {g})
    BY <1>1, <1>9 DEF NU_SPI_Unregister, RegTypeOK
  <2>2. PICK a \in BusIndex, e \in DevIndex : g = <<a, e>>
    BY DEF Handle
  <2>3. devices' = [devices EXCEPT ![a][e] = None]
    BY <1>9, <2>2 DEF NU_SPI_Unregister
  <2>4. g # h => a # b \/ e # d
    BY <1>2, <2>2
  <2> QED
    BY <1>1, <2>1, <2>3, <2>4 DEF RegTypeOK
<1>10. ASSUME NEW c \in Client \ {i}, RegCall(c)
       PROVE  /\ h \in held'[i]
              /\ h \notin stale'[i] => /\ h \notin stale[i]
                                       /\ devices'[b][d] = devices[b][d]
  BY <1>1, <1>3, <1>7, <1>8, <1>9, <1>10 DEF RegCall
<1> QED
  BY <1>1, <1>5, <1>6, <1>10 DEF BusChange
=============================================================================
