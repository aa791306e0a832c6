------------------------ MODULE LwSpiIsrQueue_proofs ------------------------
(* Proofs about LwSpiIsrQueue, for any number of buses and words. *)
EXTENDS LwSpiIsrQueue, Integers, FiniteSetTheorems, SequenceTheorems, TLAPS

Size == LWSPI_ISR_QUEUE_SIZE

\* Read and write pointer are equal unless the status is DATA, and the HISR has
\* an instance in hand exactly while it serves one.
Pointers ==
  /\ queue_status = DATA <=> rd # wr
  /\ hisr = "serve" <=> serving # NoInst

\* InOnePlace without counting: the entries of the ring are instances, each
\* there once, and a transaction in progress is in the ring, under service, or
\* has its interrupts enabled, and no two of these.
Queued(i) == \E k \in 1 .. Count : Contents[k] = i

Places ==
  /\ \A k \in 1 .. Count : Contents[k] \in Inst
  /\ \A j, k \in 1 .. Count : Contents[j] = Contents[k] => j = k
  /\ \A i \in Inst : /\ Queued(i) => i \notin rxneie /\ serving # i
                     /\ i \in rxneie => serving # i
                     /\ left[i] > 0 <=> Queued(i) \/ i \in rxneie \/ serving = i

IndInv == TypeOK /\ Pointers /\ ActivationPerEntry /\ Places

-----------------------------------------------------------------------------
(* Arithmetic of the ring *)

LEMMA SizeType ==
  /\ Size \in Nat /\ Size > Cardinality(Inst)
  /\ Cardinality(Inst) \in Nat \ {0}
<1>1. Cardinality(Inst) \in Nat \ {0}
  BY InstAssumption, FS_CardinalityType, FS_EmptySet
<1>. QED  BY <1>1 DEF Size, LWSPI_ISR_QUEUE_SIZE

\* A number below twice the size of the ring, taken modulo that size.
Wrap(a, n) == IF a < n THEN a ELSE a - n

LEMMA ModOnce ==
  ASSUME NEW n \in Nat \ {0}, NEW a \in Nat, a < n + n
  PROVE  (a % n) = Wrap(a, n)
<1>1. (a % n) \in 0 .. n - 1 /\ a \div n \in Nat /\ a = n * (a \div n) + (a % n)
  OBVIOUS
<1>2. CASE a < n
  BY <1>2 DEF Wrap
<1>3. CASE a >= n
  <2>1. a \div n # 0
    BY <1>1, <1>3
  <2>2. ASSUME a \div n >= 2
        PROVE  FALSE
    <3>1. PICK d \in Nat : a \div n = 2 + d
      BY <1>1, <2>2, (a \div n) - 2 \in Nat
    <3>2. n * (2 + d) = n + n + n * d /\ n * d \in Nat
      BY <3>1
    <3>. QED  BY <1>1, <3>1, <3>2
  <2>3. a \div n = 1
    BY <1>1, <2>1, <2>2
  <2>. QED  BY <1>1, <2>3, <1>3 DEF Wrap
<1>. QED  BY <1>2, <1>3

\* A ring g with read pointer r, write pointer w and status q: the pointers
\* are equal unless the status is DATA.
QueueOK(g, r, w, q) ==
  /\ g \in [0 .. Size - 1 -> Inst \cup {NoInst}]
  /\ r \in 0 .. Size - 1 /\ w \in 0 .. Size - 1
  /\ q \in {0, FULL, EMPTY, DATA}
  /\ q = DATA <=> r # w

\* Its number of entries, and entry k.
CountOf(r, w, q) ==
  IF q = FULL THEN Size ELSE IF q = DATA THEN (w + Size - r) % Size ELSE 0
Entry(g, r, k) == g[(r + k - 1) % Size]

\* The number of entries and their places without the modulus.
LEMMA CountIs ==
  ASSUME NEW g, NEW r, NEW w, NEW q, QueueOK(g, r, w, q)
  PROVE  /\ CountOf(r, w, q) \in 0 .. Size
         /\ q = FULL => CountOf(r, w, q) = Size
         /\ q = DATA => /\ CountOf(r, w, q) = Wrap(w + Size - r, Size)
                        /\ CountOf(r, w, q) \in 1 .. Size - 1
         /\ q \notin {FULL, DATA} => CountOf(r, w, q) = 0
<1>1. r \in 0 .. Size - 1 /\ w \in 0 .. Size - 1 /\ Size \in Nat \ {0}
  BY SizeType DEF QueueOK
<1>2. w + Size - r \in Nat /\ w + Size - r < Size + Size
  BY <1>1
<1>3. ((w + Size - r) % Size) = Wrap(w + Size - r, Size)
  BY <1>1, <1>2, ModOnce
<1>4. CASE q = FULL
  BY <1>1, <1>4 DEF CountOf, FULL, DATA
<1>5. CASE q = DATA
  <2>1. CountOf(r, w, q) = Wrap(w + Size - r, Size)
    BY <1>3, <1>5 DEF CountOf, FULL, DATA
  <2>2. r # w
    BY <1>5 DEF QueueOK
  <2>. QED  BY <1>1, <1>5, <2>1, <2>2 DEF Wrap, FULL, DATA
<1>6. CASE q \notin {FULL, DATA}
  BY <1>1, <1>6 DEF CountOf, FULL, DATA
<1>. QED  BY <1>4, <1>5, <1>6

LEMMA EntryIs ==
  ASSUME NEW g, NEW r \in 0 .. Size - 1, NEW k \in 1 .. Size
  PROVE  Entry(g, r, k) = g[Wrap(r + k - 1, Size)]
<1>1. Size \in Nat \ {0} /\ r + k - 1 \in Nat /\ r + k - 1 < Size + Size
  BY SizeType
<1>2. ((r + k - 1) % Size) = Wrap(r + k - 1, Size)
  BY <1>1, ModOnce
<1>. QED  BY <1>2 DEF Entry

\* The ring's variables after instance i was put on a ring that is not full, ...
IsPut(g, r, w, i, g2, w2, q2) ==
  /\ g2 = [g EXCEPT ![w] = i]
  /\ w2 = Advance(w)
  /\ q2 = IF w2 = r THEN FULL ELSE DATA

\* ... and after the first entry was taken off a ring that has entries.
IsGet(r, w, r2, q2) ==
  /\ r2 = Advance(r)
  /\ q2 = IF r2 = w THEN EMPTY ELSE DATA

\* A ring that is not full takes an entry behind the others.
LEMMA SetStep ==
  ASSUME NEW g, NEW r, NEW w, NEW q, QueueOK(g, r, w, q), q # FULL,
         NEW i \in Inst, NEW g2, NEW w2, NEW q2, IsPut(g, r, w, i, g2, w2, q2)
  PROVE  /\ QueueOK(g2, r, w2, q2)
         /\ CountOf(r, w2, q2) = CountOf(r, w, q) + 1
         /\ \A k \in 1 .. CountOf(r, w, q) : Entry(g2, r, k) = Entry(g, r, k)
         /\ Entry(g2, r, CountOf(r, w, q) + 1) = i
<1> USE DEF IsPut
<1> DEFINE n  == CountOf(r, w, q)
           n2 == CountOf(r, w2, q2)
<1>1. r \in 0 .. Size - 1 /\ w \in 0 .. Size - 1 /\ Size \in Nat \ {0, 1}
  BY SizeType DEF QueueOK, Size, LWSPI_ISR_QUEUE_SIZE
<1>2. w2 = IF w + 1 = Size THEN 0 ELSE w + 1
  BY DEF Advance, Size
<1>3. QueueOK(g2, r, w2, q2)
  <2>1. g2 \in [0 .. Size - 1 -> Inst \cup {NoInst}]
    BY DEF QueueOK
  <2>2. w2 \in 0 .. Size - 1
    BY <1>1, <1>2
  <2>. QED  BY <1>1, <2>1, <2>2 DEF QueueOK, FULL, DATA, EMPTY
<1>4. /\ n \in 0 .. Size - 1
      /\ n = IF w >= r THEN w - r ELSE w + Size - r
  <2>1. CASE q = DATA
    BY <1>1, <2>1, CountIs DEF Wrap
  <2>2. CASE q # DATA
    <3>1. n = 0
      BY <2>2, CountIs
    <3>2. r = w
      BY <2>2 DEF QueueOK
    <3>. QED  BY <1>1, <3>1, <3>2
  <2>. QED  BY <2>1, <2>2
<1>5. n2 = n + 1
  <2>1. CASE w2 = r
    <3>1. n2 = Size
      BY <1>3, <2>1, CountIs
    <3>. QED  BY <1>1, <1>2, <1>4, <2>1, <3>1
  <2>2. CASE w2 # r
    <3>1. n2 = Wrap(w2 + Size - r, Size)
      BY <1>3, <2>2, CountIs
    <3>. QED  BY <1>1, <1>2, <1>4, <2>2, <3>1 DEF Wrap
  <2>. QED  BY <2>1, <2>2
<1>6. ASSUME NEW k \in 1 .. n
      PROVE  Entry(g2, r, k) = Entry(g, r, k)
  <2>1. k \in 1 .. Size
    BY <1>1, <1>4
  <2>2. Wrap(r + k - 1, Size) # w
    BY <1>1, <1>4 DEF Wrap
  <2>3. Wrap(r + k - 1, Size) \in 0 .. Size - 1
    BY <1>1, <2>1 DEF Wrap
  <2>4. g2[Wrap(r + k - 1, Size)] = g[Wrap(r + k - 1, Size)]
    BY <2>2, <2>3 DEF QueueOK
  <2>5. Entry(g2, r, k) = g2[Wrap(r + k - 1, Size)]
    BY <1>1, <2>1, EntryIs
  <2>6. Entry(g, r, k) = g[Wrap(r + k - 1, Size)]
    BY <1>1, <2>1, EntryIs
  <2>. QED  BY <2>4, <2>5, <2>6
<1>7. Entry(g2, r, n + 1) = i
  <2>1. n + 1 \in 1 .. Size
    BY <1>1, <1>4
  <2>2. Wrap(r + (n + 1) - 1, Size) = w
    BY <1>1, <1>4 DEF Wrap
  <2>3. g2[w] = i
    BY <1>1 DEF QueueOK
  <2>4. Entry(g2, r, n + 1) = g2[Wrap(r + (n + 1) - 1, Size)]
    <3> HIDE DEF n
    <3>. QED  BY <1>1, <2>1, EntryIs
  <2>. QED  BY <2>2, <2>3, <2>4
<1>. QED  BY <1>3, <1>5, <1>6, <1>7

\* A ring with entries gives its first one up.
LEMMA GetStep ==
  ASSUME NEW g, NEW r, NEW w, NEW q, QueueOK(g, r, w, q), q \in {FULL, DATA},
         NEW r2, NEW q2, IsGet(r, w, r2, q2)
  PROVE  /\ QueueOK(g, r2, w, q2)
         /\ CountOf(r, w, q) > 0
         /\ CountOf(r2, w, q2) = CountOf(r, w, q) - 1
         /\ g[r] = Entry(g, r, 1)
         /\ \A k \in 1 .. CountOf(r, w, q) - 1 :
              Entry(g, r2, k) = Entry(g, r, k + 1)
<1> USE DEF IsGet
<1> DEFINE n  == CountOf(r, w, q)
           n2 == CountOf(r2, w, q2)
<1>1. r \in 0 .. Size - 1 /\ w \in 0 .. Size - 1 /\ Size \in Nat \ {0, 1}
  BY SizeType DEF QueueOK, Size, LWSPI_ISR_QUEUE_SIZE
<1>2. r2 = IF r + 1 = Size THEN 0 ELSE r + 1
  BY DEF Advance, Size
<1>3. QueueOK(g, r2, w, q2)
  <2>1. r2 \in 0 .. Size - 1
    BY <1>1, <1>2
  <2>. QED  BY <1>1, <2>1 DEF QueueOK, FULL, DATA, EMPTY
<1>4. /\ n \in 1 .. Size
      /\ n = IF w > r THEN w - r ELSE w + Size - r
  <2>1. CASE q = DATA
    <3>1. n = Wrap(w + Size - r, Size) /\ n \in 1 .. Size - 1
      BY <2>1, CountIs
    <3>. QED  BY <1>1, <3>1 DEF Wrap
  <2>2. CASE q = FULL
    <3>1. n = Size
      BY <2>2, CountIs
    <3>2. r = w
      BY <2>2 DEF QueueOK, FULL, DATA
    <3>. QED  BY <1>1, <3>1, <3>2
  <2>. QED  BY <2>1, <2>2
<1>5. n2 = n - 1
  <2>1. CASE r2 = w
    <3>1. n2 = 0
      BY <1>3, <2>1, CountIs DEF EMPTY, FULL, DATA
    <3>. QED  BY <1>1, <1>2, <1>4, <2>1, <3>1
  <2>2. CASE r2 # w
    <3>1. n2 = Wrap(w + Size - r2, Size)
      BY <1>3, <2>2, CountIs
    <3>. QED  BY <1>1, <1>2, <1>4, <2>2, <3>1 DEF Wrap
  <2>. QED  BY <2>1, <2>2
<1>6. g[r] = Entry(g, r, 1)
  <2>1. 1 \in 1 .. Size /\ Wrap(r + 1 - 1, Size) = r
    BY <1>1 DEF Wrap
  <2>. QED  BY <1>1, <2>1, EntryIs
<1>7. ASSUME NEW k \in 1 .. n - 1
      PROVE  Entry(g, r2, k) = Entry(g, r, k + 1)
  <2>1. k \in 1 .. Size /\ k + 1 \in 1 .. Size /\ r2 \in 0 .. Size - 1
    BY <1>1, <1>2, <1>4
  <2>2. Wrap(r2 + k - 1, Size) = Wrap(r + (k + 1) - 1, Size)
    BY <1>1, <1>2, <2>1 DEF Wrap
  <2>3. Entry(g, r2, k) = g[Wrap(r2 + k - 1, Size)]
    BY <2>1, EntryIs
  <2>4. Entry(g, r, k + 1) = g[Wrap(r + (k + 1) - 1, Size)]
    BY <1>1, <2>1, EntryIs
  <2>. QED  BY <2>2, <2>3, <2>4
<1>. QED  BY <1>3, <1>4, <1>5, <1>6, <1>7

-----------------------------------------------------------------------------
(* The inductive invariant *)

\* The variables of the ring are those of QueueOK, Count and Contents read them.
LEMMA RingIs ==
  /\ TypeOK /\ Pointers => QueueOK(ring, rd, wr, queue_status)
  /\ Count = CountOf(rd, wr, queue_status)
  /\ \A k \in 1 .. Count : Contents[k] = Entry(ring, rd, k)
  /\ Count' = CountOf(rd', wr', queue_status')
  /\ \A k \in 1 .. Count' : Contents'[k] = Entry(ring', rd', k)
<1>1. TypeOK /\ Pointers => QueueOK(ring, rd, wr, queue_status)
  BY DEF TypeOK, Pointers, QueueOK, Index, Size
<1>2. Count = CountOf(rd, wr, queue_status)
  BY DEF Count, CountOf, Size
<1>3. Count' = CountOf(rd', wr', queue_status')
  BY DEF Count, CountOf, Size
<1>4. \A k \in 1 .. Count : Contents[k] = Entry(ring, rd, k)
  BY DEF Contents, Entry, Size
<1>5. \A k \in 1 .. Count' : Contents'[k] = Entry(ring', rd', k)
  BY DEF Contents, Entry, Size
<1>. QED  BY <1>1, <1>2, <1>3, <1>4, <1>5

\* The ring has room: its entries are different instances, and it has more
\* places than there are instances.
LEMMA NeverFull ==
  ASSUME TypeOK, Pointers, Places
  PROVE  queue_status # FULL /\ Count \in Nat
<1>1. QueueOK(ring, rd, wr, queue_status)
  BY RingIs
<1>2. Count \in 0 .. Size /\ (queue_status = FULL => Count = Size)
  BY <1>1, CountIs, RingIs
<1>3. Size \in Nat /\ Size > Cardinality(Inst) /\ Cardinality(Inst) \in Nat
  BY SizeType
<1>4. Count <= Cardinality(Inst)
  <2>1. Contents \in [1 .. Count -> Inst]
    BY DEF Places, Contents
  <2>2. Contents \in Injection(1 .. Count, Inst)
    BY <2>1 DEF Places, Injection, IsInjective
  <2>3. Cardinality(1 .. Count) <= Cardinality(Inst)
    BY <2>2, InstAssumption, FS_Injection
  <2>4. Cardinality(1 .. Count) = Count
    BY <1>2, <1>3, FS_Interval
  <2>. QED  BY <2>3, <2>4
<1>. QED  BY <1>2, <1>3, <1>4

LEMMA IndInvInit == Init => IndInv
<1> SUFFICES ASSUME Init PROVE IndInv
  OBVIOUS
<1>1. TypeOK
  <2>1. Size \in Nat \ {0} /\ 0 \in Index
    BY SizeType DEF Index, Size
  <2>. QED  BY <2>1, InstAssumption DEF Init, TypeOK
<1>2. Pointers
  BY DEF Init, Pointers, DATA
<1>3. Count = 0
  BY DEF Init, Count, FULL, DATA
<1>4. ActivationPerEntry
  BY <1>3 DEF Init, ActivationPerEntry
<1>5. Places
  BY <1>3, InstAssumption DEF Init, Places, Queued
<1>. QED  BY <1>1, <1>2, <1>4, <1>5 DEF IndInv

\* Steps that leave the ring alone leave its entries alone.
LEMMA RingUnchanged ==
  ASSUME UNCHANGED queueVars
  PROVE  /\ Count' = Count /\ Contents' = Contents
         /\ \A i : Queued(i)' <=> Queued(i)
<1>1. Count' = Count
  BY DEF queueVars, Count
<1>2. Contents' = Contents
  BY <1>1 DEF queueVars, Contents
<1>. QED  BY <1>1, <1>2 DEF Queued

LEMMA StartIoStep ==
  ASSUME IndInv, NEW i \in Inst, StartIo(i)
  PROVE  IndInv'
<1> USE DEF IndInv
<1>1. TypeOK'
  BY DEF TypeOK, StartIo, queueVars
<1>2. Pointers'
  BY DEF Pointers, StartIo, queueVars
<1>3. UNCHANGED queueVars
  BY DEF StartIo
<1>4. ActivationPerEntry'
  BY <1>3, RingUnchanged DEF ActivationPerEntry, StartIo
<1>5. Places'
  <2>1. Count' = Count /\ Contents' = Contents /\ serving' = serving
    BY <1>3, RingUnchanged DEF StartIo
  <2>2. \A j \in Inst : Queued(j)' <=> Queued(j)
    BY <1>3, RingUnchanged
  <2>3. ~ Queued(i) /\ i \notin rxneie /\ serving # i
    BY DEF Places, StartIo
  <2>4. rxneie' = rxneie \cup {i}
    BY DEF StartIo
  <2>5. left'[i] > 0 /\ \A j \in Inst \ {i} : left'[j] = left[j]
    BY DEF StartIo, TypeOK
  <2>6. ASSUME NEW j \in Inst
        PROVE  /\ Queued(j)' => j \notin rxneie' /\ serving' # j
               /\ j \in rxneie' => serving' # j
               /\ left'[j] > 0 <=> Queued(j)' \/ j \in rxneie' \/ serving' = j
    BY <2>1, <2>2, <2>3, <2>4, <2>5 DEF Places
  <2>. QED  BY <2>1, <2>6 DEF Places
<1>. QED  BY <1>1, <1>2, <1>4, <1>5

LEMMA LisrStep ==
  ASSUME IndInv, NEW i \in Inst, LWSPI_TGT_LISR(i)
  PROVE  /\ IndInv'
         /\ Contents' = Append(Contents, i)
<1> USE DEF IndInv
<1>1. QueueOK(ring, rd, wr, queue_status) /\ queue_status # FULL /\ Count \in Nat
  BY RingIs, NeverFull
<1>2. rd' = rd /\ IsPut(ring, rd, wr, i, ring', wr', queue_status')
  BY <1>1 DEF LWSPI_TGT_LISR, LWSPI_ISR_Data_Set, IsPut
<1>3. /\ QueueOK(ring', rd, wr', queue_status')
      /\ CountOf(rd, wr', queue_status') = CountOf(rd, wr, queue_status) + 1
      /\ \A k \in 1 .. CountOf(rd, wr, queue_status) :
           Entry(ring', rd, k) = Entry(ring, rd, k)
      /\ Entry(ring', rd, CountOf(rd, wr, queue_status) + 1) = i
  BY <1>1, <1>2, SetStep
<1>4. /\ Count' = Count + 1
      /\ \A k \in 1 .. Count : Contents'[k] = Contents[k]
      /\ Contents'[Count + 1] = i
  <2>1. Count' = Count + 1
    BY <1>2, <1>3, RingIs
  <2>2. \A k \in 1 .. Count : k \in 1 .. Count'
    BY <1>1, <2>1
  <2>3. Count + 1 \in 1 .. Count'
    BY <1>1, <2>1
  <2>. QED  BY <1>2, <1>3, <2>1, <2>2, <2>3, RingIs
<1>5. /\ rxneie' = rxneie \ {i} /\ i \in rxneie /\ left[i] > 0
      /\ tc_activation_count' = tc_activation_count + 1
      /\ UNCHANGED <<hisr, serving, left>>
  BY DEF LWSPI_TGT_LISR, NU_Activate_HISR
<1>6. TypeOK'
  BY <1>2, <1>3, <1>5 DEF TypeOK, QueueOK, Index, Size
<1>7. Pointers'
  BY <1>2, <1>3, <1>5 DEF Pointers, QueueOK
<1>8. ActivationPerEntry'
  BY <1>1, <1>4, <1>5 DEF ActivationPerEntry
<1>9. Places'
  <2>1. \A k \in 1 .. Count' : k \in 1 .. Count \/ k = Count + 1
    BY <1>1, <1>4
  <2>2. \A k \in 1 .. Count : k \in 1 .. Count'
    BY <1>1, <1>4
  <2>2a. Count + 1 \in 1 .. Count'
    BY <1>1, <1>4
  <2>3. \A k \in 1 .. Count' : Contents'[k] \in Inst
    BY <1>4, <2>1 DEF Places
  <2>4. ~ Queued(i) /\ serving # i
    BY <1>5 DEF Places
  <2>5. \A j, k \in 1 .. Count' : Contents'[j] = Contents'[k] => j = k
    BY <1>4, <2>1, <2>4 DEF Places, Queued
  <2>6. \A j \in Inst : Queued(j)' <=> Queued(j) \/ j = i
    BY <1>4, <2>1, <2>2, <2>2a DEF Queued
  <2>7. ASSUME NEW j \in Inst
        PROVE  /\ Queued(j)' => j \notin rxneie' /\ serving' # j
               /\ j \in rxneie' => serving' # j
               /\ left'[j] > 0 <=> Queued(j)' \/ j \in rxneie' \/ serving' = j
    BY <1>5, <2>4, <2>6 DEF Places
  <2>. QED  BY <2>3, <2>5, <2>7 DEF Places
<1>10. Contents' = Append(Contents, i)
  <2>1. Contents = [k \in 1 .. Count |-> Contents[k]]
    BY DEF Contents
  <2>2. Contents' = [k \in 1 .. Count' |-> Contents'[k]]
    BY DEF Contents
  <2>3. Len(Contents) = Count /\ Contents \in Seq(Inst)
    BY <1>1, <2>1 DEF Places
  <2>4. Len(Contents') = Count' /\ Contents' \in Seq(Inst)
    BY <1>1, <1>4, <1>9, <2>2 DEF Places
  <2>5. /\ Append(Contents, i) \in Seq(Inst)
        /\ Len(Append(Contents, i)) = Count + 1
        /\ Append(Contents, i)[Count + 1] = i
        /\ \A k \in 1 .. Count : Append(Contents, i)[k] = Contents[k]
    BY <2>3, AppendProperties
  <2>6. \A k \in 1 .. Count' : k \in 1 .. Count \/ k = Count + 1
    BY <1>1, <1>4
  <2>7. \A k \in 1 .. Len(Contents') : Contents'[k] = Append(Contents, i)[k]
    BY <1>4, <2>4, <2>5, <2>6
  <2>. QED  BY <1>4, <2>4, <2>5, <2>7, SeqEqual
<1>. QED  BY <1>6, <1>7, <1>8, <1>9, <1>10

LEMMA GetStepInv ==
  ASSUME IndInv, HisrGet
  PROVE  /\ IndInv'
         /\ serving = NoInst /\ Contents # <<>>
         /\ serving' = Head(Contents) /\ Contents' = Tail(Contents)
<1> USE DEF IndInv
<1>1. QueueOK(ring, rd, wr, queue_status) /\ Count \in Nat
  BY RingIs, NeverFull
<1>2. Count > 0
  BY <1>1 DEF ActivationPerEntry, HisrGet
<1>3. queue_status \in {FULL, DATA} /\ queue_status # EMPTY
  BY <1>1, <1>2, CountIs, RingIs DEF FULL, DATA, EMPTY
<1>4. /\ IsGet(rd, wr, rd', queue_status')
      /\ ring' = ring /\ wr' = wr /\ serving' = ring[rd]
  BY <1>3 DEF HisrGet, LWSPI_ISR_Data_Get, IsGet
<1>5. /\ QueueOK(ring, rd', wr, queue_status')
      /\ CountOf(rd', wr, queue_status') = CountOf(rd, wr, queue_status) - 1
      /\ ring[rd] = Entry(ring, rd, 1)
      /\ \A k \in 1 .. CountOf(rd, wr, queue_status) - 1 :
           Entry(ring, rd', k) = Entry(ring, rd, k + 1)
  BY <1>1, <1>3, <1>4, GetStep
<1>6. /\ Count' = Count - 1
      /\ serving' = Contents[1]
      /\ \A k \in 1 .. Count - 1 : Contents'[k] = Contents[k + 1]
  <2>1. Count' = Count - 1
    BY <1>4, <1>5, RingIs
  <2>2. 1 \in 1 .. Count /\ \A k \in 1 .. Count - 1 : k + 1 \in 1 .. Count
    BY <1>1, <1>2
  <2>3. serving' = Contents[1]
    BY <1>4, <1>5, <2>2, RingIs
  <2>4. ASSUME NEW k \in 1 .. Count - 1
        PROVE  Contents'[k] = Contents[k + 1]
    <3>1. Contents'[k] = Entry(ring, rd', k)
      BY <1>4, <2>1, RingIs
    <3>2. Contents[k + 1] = Entry(ring, rd, k + 1)
      BY <2>2, RingIs
    <3>3. Entry(ring, rd', k) = Entry(ring, rd, k + 1)
      BY <1>5, RingIs
    <3>. QED  BY <3>1, <3>2, <3>3
  <2>. QED  BY <2>1, <2>3, <2>4
<1>7. /\ hisr = "idle" /\ hisr' = "serve" /\ serving = NoInst
      /\ UNCHANGED <<tc_activation_count, rxneie, left>>
  BY <1>3 DEF HisrGet, Pointers, TypeOK
<1>8. /\ 1 \in 1 .. Count /\ serving' \in Inst /\ serving' # NoInst
  BY <1>1, <1>2, <1>6, InstAssumption DEF Places
<1>9. TypeOK'
  BY <1>4, <1>5, <1>7, <1>8 DEF TypeOK, QueueOK, Index, Size
<1>10. Pointers'
  BY <1>4, <1>5, <1>7, <1>8 DEF Pointers, QueueOK
<1>11. ActivationPerEntry'
  BY <1>1, <1>6, <1>7 DEF ActivationPerEntry
<1>12. Places'
  <2>1. \A k \in 1 .. Count' : k + 1 \in 1 .. Count /\ Contents'[k] = Contents[k + 1]
    BY <1>1, <1>6
  <2>2. \A k \in 1 .. Count : k = 1 \/ k - 1 \in 1 .. Count'
    BY <1>1, <1>6
  <2>3. \A k \in 1 .. Count' : Contents'[k] \in Inst
    BY <2>1 DEF Places
  <2>4. \A j, k \in 1 .. Count' : Contents'[j] = Contents'[k] => j = k
    <3> SUFFICES ASSUME NEW j \in 1 .. Count', NEW k \in 1 .. Count',
                        Contents'[j] = Contents'[k]
                 PROVE  j = k
      OBVIOUS
    <3>1. j + 1 = k + 1
      BY <2>1 DEF Places
    <3>2. j \in Int /\ k \in Int
      OBVIOUS
    <3>. QED  BY <3>1, <3>2
  <2>5. \A j \in Inst : Queued(j)' => j # serving'
    <3> SUFFICES ASSUME NEW k \in 1 .. Count', Contents'[k] = serving'
                 PROVE  FALSE
      BY DEF Queued
    <3>1. k + 1 = 1
      BY <1>6, <1>8, <2>1 DEF Places
    <3>2. k \in Nat \ {0}
      OBVIOUS
    <3>. QED  BY <3>1, <3>2
  <2>6. \A j \in Inst : Queued(j) <=> Queued(j)' \/ j = serving'
    <3> SUFFICES ASSUME NEW j \in Inst
                 PROVE  Queued(j) <=> Queued(j)' \/ j = serving'
      OBVIOUS
    <3>1. ASSUME Queued(j) PROVE Queued(j)' \/ j = serving'
      <4>1. PICK k \in 1 .. Count : Contents[k] = j
        BY <3>1 DEF Queued
      <4>2. CASE k = 1
        BY <4>1, <4>2, <1>6
      <4>3. CASE k - 1 \in 1 .. Count'
        <5>1. Contents'[k - 1] = Contents[(k - 1) + 1]
          BY <4>3, <2>1
        <5>2. (k - 1) + 1 = k
          OBVIOUS
        <5>. QED  BY <4>1, <4>3, <5>1, <5>2 DEF Queued
      <4>. QED  BY <2>2, <4>2, <4>3
    <3>2. ASSUME Queued(j)' PROVE Queued(j)
      BY <3>2, <2>1 DEF Queued
    <3>3. ASSUME j = serving' PROVE Queued(j)
      BY <3>3, <1>6, <1>8 DEF Queued
    <3>. QED  BY <3>1, <3>2, <3>3
  <2>7. ASSUME NEW j \in Inst
        PROVE  /\ Queued(j)' => j \notin rxneie' /\ serving' # j
               /\ j \in rxneie' => serving' # j
               /\ left'[j] > 0 <=> Queued(j)' \/ j \in rxneie' \/ serving' = j
    <3>1. serving # j
      BY <1>7, InstAssumption
    <3>2. Queued(j)' => j # serving'
      BY <2>5
    <3>. QED  BY <1>7, <2>6, <3>1, <3>2 DEF Places
  <2>. QED  BY <2>3, <2>4, <2>7 DEF Places
<1>13. /\ Contents # <<>> /\ serving' = Head(Contents)
       /\ Contents' = Tail(Contents)
  <2>1. Contents = [k \in 1 .. Count |-> Contents[k]]
    BY DEF Contents
  <2>2. Contents' = [k \in 1 .. Count' |-> Contents'[k]]
    BY DEF Contents
  <2>3. Len(Contents) = Count /\ Contents \in Seq(Inst)
    BY <1>1, <2>1 DEF Places
  <2>4. Contents # <<>> /\ Head(Contents) = Contents[1]
    BY <1>2, <2>3
  <2>5. Len(Contents') = Count' /\ Contents' \in Seq(Inst)
    BY <1>1, <1>2, <1>6, <1>12, <2>2 DEF Places
  <2>6. /\ Tail(Contents) \in Seq(Inst) /\ Len(Tail(Contents)) = Count - 1
        /\ \A k \in 1 .. Count - 1 : Tail(Contents)[k] = Contents[k + 1]
    BY <2>3, <2>4, HeadTailProperties
  <2>7. \A k \in 1 .. Len(Contents') : Contents'[k] = Tail(Contents)[k]
    BY <1>6, <2>5, <2>6
  <2>8. Contents' = Tail(Contents)
    BY <1>6, <2>5, <2>6, <2>7, SeqEqual
  <2>. QED  BY <1>6, <2>4, <2>8
<1>. QED  BY <1>7, <1>9, <1>10, <1>11, <1>12, <1>13

LEMMA ServeStep ==
  ASSUME IndInv, HisrServe
  PROVE  IndInv' /\ Contents' = Contents /\ serving # NoInst /\ serving' = NoInst
<1> USE DEF IndInv
<1>1. UNCHANGED queueVars /\ hisr = "serve" /\ hisr' = "return"
      /\ serving' = NoInst /\ UNCHANGED tc_activation_count
  BY DEF HisrServe
<1>2. Count' = Count /\ Contents' = Contents
      /\ \A j \in Inst : Queued(j)' <=> Queued(j)
  BY <1>1, RingUnchanged
<1>3. serving \in Inst /\ serving # NoInst
  BY <1>1 DEF Pointers, TypeOK
<1>4. left[serving] > 0 /\ left[serving] \in 1 .. MaxWords
  BY <1>3 DEF Places, TypeOK
<1>5. /\ left'[serving] = left[serving] - 1
      /\ \A j \in Inst \ {serving} : left'[j] = left[j]
  BY <1>3 DEF HisrServe, TypeOK
<1>6. rxneie' = IF left[serving] = 1 THEN rxneie ELSE rxneie \cup {serving}
  BY DEF HisrServe
<1>7. TypeOK'
  <2>1. left' \in [Inst -> 0 .. MaxWords]
    <3>1. left[serving] - 1 \in 0 .. MaxWords
      BY <1>4, InstAssumption
    <3>. QED  BY <1>3, <3>1 DEF HisrServe, TypeOK
  <2>. QED  BY <1>1, <1>3, <1>6, <2>1 DEF TypeOK, queueVars
<1>8. Pointers'
  BY <1>1 DEF Pointers, queueVars
<1>9. ActivationPerEntry'
  BY <1>1, <1>2 DEF ActivationPerEntry
<1>10. Places'
  <2>1. ASSUME NEW j \in Inst
        PROVE  /\ Queued(j)' => j \notin rxneie' /\ serving' # j
               /\ j \in rxneie' => serving' # j
               /\ left'[j] > 0 <=> Queued(j)' \/ j \in rxneie' \/ serving' = j
    <3>0. serving' # j
      BY <1>1, InstAssumption
    <3>1. CASE j = serving
      <4>1. ~ Queued(j) /\ j \notin rxneie
        BY <3>1 DEF Places
      <4>2. left'[j] > 0 <=> left[serving] # 1
        BY <1>4, <1>5, <3>1, InstAssumption
      <4>. QED  BY <1>2, <1>6, <3>0, <3>1, <4>1, <4>2
    <3>2. CASE j # serving
      BY <1>2, <1>5, <1>6, <3>0, <3>2 DEF Places
    <3>. QED  BY <3>1, <3>2
  <2>. QED  BY <1>2, <2>1 DEF Places
<1>. QED  BY <1>1, <1>2, <1>3, <1>7, <1>8, <1>9, <1>10

LEMMA ReturnStep ==
  ASSUME IndInv, HisrReturn
  PROVE  IndInv' /\ Contents' = Contents /\ serving' = serving
<1> USE DEF IndInv
<1>1. /\ UNCHANGED queueVars /\ UNCHANGED <<serving, rxneie, left>>
      /\ hisr = "return" /\ hisr' = "idle"
      /\ tc_activation_count' = tc_activation_count - 1
  BY DEF HisrReturn
<1>2. Count' = Count /\ Contents' = Contents /\ Count \in Nat
      /\ \A j \in Inst : Queued(j)' <=> Queued(j)
  BY <1>1, RingUnchanged, NeverFull
<1>3. tc_activation_count = Count + 1
  BY <1>1 DEF ActivationPerEntry
<1>4. TypeOK'
  BY <1>1, <1>2, <1>3 DEF TypeOK, queueVars
<1>5. Pointers'
  BY <1>1 DEF Pointers, queueVars
<1>6. ActivationPerEntry'
  BY <1>1, <1>2, <1>3 DEF ActivationPerEntry
<1>7. Places'
  BY <1>1, <1>2 DEF Places
<1>. QED  BY <1>1, <1>2, <1>4, <1>5, <1>6, <1>7

LEMMA IndInvStep == IndInv /\ [Next]_vars => IndInv'
<1> SUFFICES ASSUME IndInv, [Next]_vars PROVE IndInv'
  OBVIOUS
<1>1. ASSUME NEW i \in Inst, StartIo(i) PROVE IndInv'
  BY <1>1, StartIoStep
<1>2. ASSUME NEW i \in Inst, LWSPI_TGT_LISR(i) PROVE IndInv'
  BY <1>2, LisrStep
<1>3. CASE HisrGet
  BY <1>3, GetStepInv
<1>4. CASE HisrServe
  BY <1>4, ServeStep
<1>5. CASE HisrReturn
  BY <1>5, ReturnStep
<1>6. CASE UNCHANGED vars
  <2>1. UNCHANGED queueVars
    BY <1>6 DEF vars
  <2>2. Count' = Count /\ Contents' = Contents
        /\ \A i \in Inst : Queued(i)' <=> Queued(i)
    BY <2>1, RingUnchanged
  <2>3. TypeOK' /\ Pointers'
    BY <1>6 DEF IndInv, TypeOK, Pointers, vars, queueVars
  <2>4. ActivationPerEntry' /\ Places'
    BY <1>6, <2>2 DEF IndInv, ActivationPerEntry, Places, vars
  <2>. QED  BY <2>3, <2>4 DEF IndInv
<1>. QED  BY <1>1, <1>2, <1>3, <1>4, <1>5, <1>6 DEF Next

\* Places counts every instance as InOnePlace does.
LEMMA PlacesCounted ==
  ASSUME IndInv
  PROVE  InOnePlace
<1> SUFFICES ASSUME NEW i \in Inst
             PROVE  Cardinality({k \in 1 .. Count : Contents[k] = i})
                      + (IF i \in rxneie THEN 1 ELSE 0)
                      + (IF serving = i THEN 1 ELSE 0)
                    = IF left[i] > 0 THEN 1 ELSE 0
  BY DEF InOnePlace
<1> DEFINE E == {k \in 1 .. Count : Contents[k] = i}
<1>1. CASE Queued(i)
  <2>1. PICK k \in 1 .. Count : Contents[k] = i
    BY <1>1 DEF Queued
  <2>2. E = {k}
    BY <2>1 DEF IndInv, Places
  <2>3. Cardinality(E) = 1
    BY <2>2, FS_Singleton
  <2>4. i \notin rxneie /\ serving # i /\ left[i] > 0
    BY <1>1 DEF IndInv, Places
  <2>. QED  BY <2>3, <2>4
<1>2. CASE ~ Queued(i)
  <2>1. E = {}
    BY <1>2 DEF Queued
  <2>2. Cardinality(E) = 0
    BY <2>1, FS_EmptySet
  <2>3. /\ i \in rxneie => serving # i
        /\ left[i] > 0 <=> i \in rxneie \/ serving = i
    BY <1>2 DEF IndInv, Places
  <2> HIDE DEF E
  <2>. QED  BY <2>2, <2>3 DEF E
<1>. QED  BY <1>1, <1>2

-----------------------------------------------------------------------------
(* Theorems *)

\* The types of the variables, for any number of buses; among them, that the
\* pointers of LWSPI_ISR_Data_Set and LWSPI_ISR_Data_Get stay within the ring.
THEOREM TypesHold == Spec => []TypeOK
<1>1. IndInv => TypeOK
  BY DEF IndInv
<1>. QED  BY <1>1, IndInvInit, IndInvStep, PTL DEF Spec

\* Every entry of the ring and the instance under service have an activation of
\* the HISR, so that LWSPI_HISR_Entry finds an entry whenever it looks.
THEOREM EveryEntryHasActivation == Spec => []ActivationPerEntry
<1>1. IndInv => ActivationPerEntry
  BY DEF IndInv
<1>. QED  BY <1>1, IndInvInit, IndInvStep, PTL DEF Spec

\* Every transaction in progress is in one place only: no interrupt of a bus is
\* lost and none is queued twice.
THEOREM TransactionInOnePlace == Spec => []InOnePlace
<1>. QED  BY PlacesCounted, IndInvInit, IndInvStep, PTL DEF Spec

\* A LISR never finds the ring full: twice as many places as buses are enough,
\* so that nobody need look at the refusal of LWSPI_ISR_Data_Set.
THEOREM RingNeverFull == Spec => [](queue_status # FULL)
<1>1. IndInv => queue_status # FULL
  BY NeverFull DEF IndInv
<1>. QED  BY <1>1, IndInvInit, IndInvStep, PTL DEF Spec

\* The ring, its status and the loop of the HISR refine the queue of
\* LwSpiIsrFifo: they start as that queue does and every step is one of its
\* steps or leaves it alone.
THEOREM RefinesFifo == Spec => Fifo!Init /\ [][Fifo!Next]_(Fifo!vars)
<1>1. Init => Fifo!Init
  <2> SUFFICES ASSUME Init PROVE Contents = <<>> /\ serving = NoInst
    BY DEF Fifo!Init
  <2>1. Count = 0
    BY DEF Init, Count, FULL, DATA
  <2>. QED  BY <2>1 DEF Init, Contents
<1>2. IndInv /\ [Next]_vars => [Fifo!Next]_(Fifo!vars)
  <2> SUFFICES ASSUME IndInv, [Next]_vars
               PROVE  \/ Fifo!Next
                      \/ Contents' = Contents /\ serving' = serving
    BY DEF Fifo!vars
  <2>1. ASSUME NEW i \in Inst, StartIo(i)
        PROVE  Contents' = Contents /\ serving' = serving
    BY <2>1, RingUnchanged DEF StartIo
  <2>2. ASSUME NEW i \in Inst, LWSPI_TGT_LISR(i)
        PROVE  Fifo!Next
    <3>1. Contents' = Append(Contents, i) /\ serving' = serving
      BY <2>2, LisrStep DEF LWSPI_TGT_LISR
    <3>2. Fifo!Report(i)
      BY <3>1 DEF Fifo!Report
    <3>. QED  BY <3>2 DEF Fifo!Next
  <2>3. CASE HisrGet
    BY <2>3, GetStepInv DEF Fifo!Next, Fifo!Take
  <2>4. CASE HisrServe
    BY <2>4, ServeStep DEF Fifo!Next, Fifo!Done
  <2>5. CASE HisrReturn
    BY <2>5, ReturnStep
  <2>6. CASE UNCHANGED vars
    <3>1. UNCHANGED queueVars /\ serving' = serving
      BY <2>6 DEF vars
    <3>. QED  BY <3>1, RingUnchanged
  <2>. QED  BY <2>1, <2>2, <2>3, <2>4, <2>5, <2>6 DEF Next
<1>. QED  BY <1>1, <1>2, IndInvInit, IndInvStep, PTL DEF Spec
=============================================================================
